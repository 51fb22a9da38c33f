------------------------------- MODULE Documents -------------------------------
(***************************************************************************)
(* A document in the native engine and what its jobs keep beside it        *)
(* (engine/document_store.cpp, the jobs of engine/engine.cpp): the rasters *)
(* that operations name by number, the developed photograph, the last      *)
(* geometry, the rasters fitted to it, and the project it is saved to      *)
(* (project/project.cpp).                                                  *)
(*                                                                         *)
(* The reader thread edits, paints and closes while workers render, export,*)
(* segment, fill, save and open.  An action is one critical section, or    *)
(* what a worker does between two of them.  A job holds its document, so   *)
(* closing one only keeps new jobs from it.  Which jobs run is JobQueue's. *)
(* An operation carries the geometry of the stack up to it, which the code *)
(* folds anew whenever it asks.                                            *)
(*                                                                         *)
(* Abstracted: pixels, by what they were made from; the layers, of which   *)
(* there is one that a mask shapes and one that draws a patch; masks and   *)
(* patches, which the code keeps in two alike stores, are rasters of two   *)
(* kinds; a file is renamed at once; and one save of a project runs at a   *)
(* time.                                                                   *)
(***************************************************************************)
EXTENDS Geometry, FiniteSetsExt, SequencesExt

CONSTANTS
  Docs,            \* identifiers of documents; one is open at first
  Jobs,            \* workers
  Width, Height,   \* of the photograph, a raw file
  Shapes,          \* the geometry operations made
  Balances,        \* the white balances asked for
  Limits,          \* the sizes <<w, h>> a preview is asked to fit in
  MaxEdits, MaxMade, MaxJobs,   \* bounds: edits, rasters and jobs
  None             \* no document, no picture, no balance of one's own

\* They leave the layers alone.
ASSUME ShapesAssumption == \A op \in Shapes : op.kind \notin {"setLayerMask", "setLayerPatch"}

VARIABLES
  life,       \* of each document: new (not there yet), open or closed
  stack,      \* of each document: its operations and its cursor
  rasters,    \* of each document: the rasters stored on it
  next,       \* of each document: the next number of each kind
  developed,  \* of each document: the photograph decoded for another balance
  base,       \* of each document: the last geometry result, and its keys
  fitted,     \* of each document: rasters fitted for a plan, by kind
  told,       \* of each document: the rasters the renderer was told of
  job,        \* of each worker: what it is doing
  disk,       \* the project file and the temporary beside it
  edits, made, started          \* counted

storeVars == <<rasters, next>>
cacheVars == <<developed, base, fitted>>
countVars == <<edits, made, started>>
vars == <<life, stack, storeVars, cacheVars, told, job, disk, countVars>>

Kinds == {"mask", "patch"}
Setter == [mask |-> "setLayerMask", patch |-> "setLayerPatch"]

-----------------------------------------------------------------------------
(* What an operation list asks for.                                        *)

FoldRawSettings(ops) ==
  LET asked == SelectSeq(ops, LAMBDA o : o.kind = "developRaw")
  IN  IF asked = <<>> THEN None ELSE Last(asked).balance

\* The operations in force that give a layer its raster: the last of each kind.
Layered(ops, k) ==
  LET asked == {i \in DOMAIN ops : ops[i].kind = Setter[k]}
  IN  {ops[i] : i \in {i \in asked : \A h \in asked : h <= i}}

\* std::lround of a side scaled to p/q, and never nothing.
Fitted(side, p, q) == Most(1, (2 * side * p + q) \div (2 * q))

\* FitInside: the smallest of three scales.
FitInside(w, h, limit) ==
  LET byWidth == limit[1] * h <= limit[2] * w
      p == IF byWidth THEN limit[1] ELSE limit[2]
      q == IF byWidth THEN w ELSE h
  IN  IF p >= q THEN <<w, h>> ELSE <<Fitted(w, p, q), Fitted(h, p, q)>>

GeometryOf(ops) == IF ops = <<>> THEN Whole(Width, Height) ELSE Last(ops).geometry

PlanPreview(g, limit) ==
  [geometry |-> g, size |-> FitInside(OutputWidth(g), OutputHeight(g), limit)]

\* What Matches compares: everything that decides which pixels are read.
Shape(plan) == <<plan.size, plan.geometry.frame, plan.geometry.orientation, plan.geometry.angle>>

\* Broken variant: a mirrored picture has the same size and the same frame.
MatchesIgnoringOrientation(plan, other) ==
  <<plan.size, plan.geometry.frame, plan.geometry.angle>> =
    <<other.size, other.geometry.frame, other.geometry.angle>>

Matches(plan, other) == Shape(plan) = Shape(other)

Natural(g) == <<NaturalWidth(g), NaturalHeight(g)>>

Active(d) == SubSeq(stack[d].ops, 1, stack[d].cursor)

open == {d \in Docs : life[d] = "open"}

-----------------------------------------------------------------------------

NoPlan == [geometry |-> Whole(Width, Height), size |-> <<0, 0>>]
NoJob == [kind |-> "none", step |-> "idle"]
Fresh == [ops |-> <<>>, cursor |-> 0]
Partial == [written |-> "partly"]

Init ==
  /\ \E first \in Docs : life = [d \in Docs |-> IF d = first THEN "open" ELSE "new"]
  /\ stack = [d \in Docs |-> Fresh]
  /\ rasters = [d \in Docs |-> {}]
  /\ next = [d \in Docs |-> [k \in Kinds |-> 1]]
  /\ developed = [d \in Docs |-> None]
  /\ base = [d \in Docs |-> None]
  /\ fitted = [d \in Docs |-> [k \in Kinds |-> [plan |-> NoPlan, held |-> {}]]]
  /\ told = [d \in Docs |-> {}]
  /\ job = [j \in Jobs |-> NoJob]
  /\ disk = [file |-> None, temp |-> None]
  /\ edits = 0 /\ made = 0 /\ started = 0

-----------------------------------------------------------------------------
(* The reader thread.                                                      *)

\* An edit past an undo drops the tail.
Apply(d, op) ==
  /\ d \in open /\ edits < MaxEdits
  /\ ~IsEmpty(op.geometry.frame)
  /\ stack' = [stack EXCEPT ![d] = [ops |-> Append(Active(d), op), cursor |-> @.cursor + 1]]
  /\ edits' = edits + 1
  /\ UNCHANGED <<life, storeVars, cacheVars, told, job, disk, made, started>>

Reshape(d) ==
  \E op \in Shapes : Apply(d, [kind |-> op.kind, geometry |-> Shaped(GeometryOf(Active(d)), op)])

DevelopRaw(d) ==
  \E b \in Balances :
    Apply(d, [kind |-> "developRaw", balance |-> b, geometry |-> GeometryOf(Active(d))])

\* The renderer names a raster it was told of, with the size it was told.
\* (which is history: the raster meant.)
Place(d) ==
  \E r \in told[d] :
    Apply(d, [kind |-> Setter[r.kind], raster |-> r.id, natural |-> r.natural, which |-> r.which,
              geometry |-> GeometryOf(Active(d))])

\* Undo, redo and jumps.
Seek(d) ==
  /\ d \in open /\ edits < MaxEdits
  /\ \E c \in 0 .. Len(stack[d].ops) \ {stack[d].cursor} :
       stack' = [stack EXCEPT ![d].cursor = c]
  /\ edits' = edits + 1
  /\ UNCHANGED <<life, storeVars, cacheVars, told, job, disk, made, started>>

\* StoreMask and StorePatch: a number of its own, and nothing fitted is kept.
Stored(d, k, natural, measured) ==
  LET r == [kind |-> k, id |-> next[d][k], which |-> made + 1,
            natural |-> natural, measured |-> measured]
  IN  /\ made < MaxMade /\ made' = made + 1
      /\ rasters' = [rasters EXCEPT ![d] = {s \in @ : <<s.kind, s.id>> # <<r.kind, r.id>>} \cup {r}]
      /\ next' = [next EXCEPT ![d][k] = @ + 1]
      /\ fitted' = [fitted EXCEPT ![d][k].held = {}]
      /\ told' = [told EXCEPT ![d] = @ \cup {r}]

PaintMask(d) ==
  LET here == Natural(GeometryOf(Active(d)))
  IN  /\ d \in open /\ Stored(d, "mask", here, here)
      /\ UNCHANGED <<life, stack, developed, base, job, disk, edits, started>>

CloseImage(d) ==
  /\ d \in open /\ life' = [life EXCEPT ![d] = "closed"]
  /\ UNCHANGED <<stack, storeVars, cacheVars, told, job, disk, countVars>>

-----------------------------------------------------------------------------
(* The workers. A job copies the stack when it starts.                     *)

Becomes(j, record) == job' = [job EXCEPT ![j] = record]

Begin(j, record) ==
  /\ job[j] = NoJob /\ started < MaxJobs /\ started' = started + 1
  /\ Becomes(j, record)
  /\ UNCHANGED <<life, stack, storeVars, cacheVars, told, disk, edits, made>>

Working(kind, step, d, limit) ==
  [kind |-> kind, step |-> step, doc |-> d, ops |-> Active(d),
   plan |-> PlanPreview(GeometryOf(Active(d)), limit),
   balance |-> FoldRawSettings(Active(d)), pixels |-> None, found |-> None, drawn |-> {}]

StartPreview(j) == \E d \in open, limit \in Limits : Begin(j, Working("preview", "base", d, limit))

\* The whole picture: as large as the stack makes it.
StartExport(j) ==
  \E d \in open :
    LET g == GeometryOf(Active(d))
    IN  Begin(j, Working("export", "collect", d, <<OutputWidth(g), OutputHeight(g)>>))

\* A mask from the model, a patch from the model inside a mask, and a backdrop.
StartSegment(j) == \E d \in open : Begin(j, Working("segment", "decode", d, <<Width, Height>>))

StartInpaint(j) ==
  \E d \in open :
    /\ \E r \in rasters[d] : r.kind = "mask"
    /\ Begin(j, Working("inpaint", "decode", d, <<Width, Height>>))

StartBackdrop(j) == \E d \in open : Begin(j, Working("backdrop", "store", d, <<Width, Height>>))

\* Broken variant: the plan alone decides, whatever balance the base was made with.
FindBaseByPlan(j) ==
  LET w == job[j]
      b == base[w.doc]
  IN  /\ w.step = "base"
      /\ IF b # None /\ Matches(w.plan, b.plan)
         THEN Becomes(j, [w EXCEPT !.step = "mask", !.pixels = b.pixels])
         ELSE Becomes(j, [w EXCEPT !.step = "decode"])
      /\ UNCHANGED <<life, stack, storeVars, cacheVars, told, disk, countVars>>

\* A preview finds the geometry it had, or has to make it again.
FindBase(j) ==
  LET w == job[j]
      b == base[w.doc]
  IN  /\ w.step = "base"
      /\ IF b # None /\ Matches(w.plan, b.plan) /\ b.balance = w.balance
         THEN Becomes(j, [w EXCEPT !.step = "mask", !.pixels = b.pixels])
         ELSE Becomes(j, [w EXCEPT !.step = "decode"])
      /\ UNCHANGED <<life, stack, storeVars, cacheVars, told, disk, countVars>>

\* DevelopedSource, whose lock is held across the decode, and RenderGeometry.
DevelopedSource(d, balance) ==
  IF balance = None \/ developed[d] = None \/ developed[d].balance # balance
  THEN balance ELSE developed[d].pixels

AfterDecode == [preview |-> "keep", export |-> "done", segment |-> "store", inpaint |-> "store"]

Decode(j) ==
  LET w == job[j]
      source == DevelopedSource(w.doc, w.balance)
  IN  /\ w.step = "decode"
      /\ developed' = [developed EXCEPT ![w.doc] =
                         IF w.balance = None THEN @ ELSE [balance |-> w.balance, pixels |-> source]]
      /\ Becomes(j, [w EXCEPT !.step = AfterDecode[w.kind],
                              !.pixels = [source |-> source, shape |-> Shape(w.plan)]])
      /\ UNCHANGED <<life, stack, storeVars, base, fitted, told, disk, countVars>>

KeepBase(j) ==
  LET w == job[j]
  IN  /\ w.step = "keep"
      /\ base' = [base EXCEPT ![w.doc] =
                    [plan |-> w.plan, balance |-> w.balance, pixels |-> w.pixels]]
      /\ Becomes(j, [w EXCEPT !.step = "mask"])
      /\ UNCHANGED <<life, stack, storeVars, developed, fitted, told, disk, countVars>>

\* Broken variant: a raster is stretched over whatever the photograph has become.
DrawnOnAnyShape(plan, ops, k) == Layered(ops, k)

\* The rasters a picture draws: named by its layers and made for its shape.
Drawn(plan, ops, k) == {op \in Layered(ops, k) : op.natural = Natural(plan.geometry)}

\* A raster as it is drawn.
Sized(r, plan) == [kind |-> r.kind, id |-> r.id, which |-> r.which, size |-> plan.size]

AfterFitting == [mask |-> "patch", patch |-> "done"]

Draws(j, k, pictures) ==
  Becomes(j, [job[j] EXCEPT !.step = AfterFitting[k], !.found = None, !.drawn = @ \cup pictures])

\* FitMasks and FitPatches, first half: nothing to draw, or fitted before, or
\* found and resized.
FindFitted(j, k) ==
  LET w == job[j]
      named == Drawn(w.plan, w.ops, k)
      ids   == {op.raster : op \in named}
      held  == IF Matches(w.plan, fitted[w.doc][k].plan)
               THEN {p \in fitted[w.doc][k].held : p.id \in ids} ELSE {}
      stored == {r \in rasters[w.doc] : r.kind = k /\ r.id \in ids}
  IN  /\ w.kind = "preview" /\ w.step = k /\ w.found = None
      /\ IF held # {} \/ stored = {} THEN Draws(j, k, held)
         ELSE \E r \in stored : Becomes(j, [w EXCEPT !.found = Sized(r, w.plan)])
      /\ UNCHANGED <<life, stack, storeVars, cacheVars, told, disk, countVars>>

\* ... and second: kept for the next render, with the others of the same plan.
KeepFitted(j, k) ==
  LET w == job[j]
      here == fitted[w.doc][k]
      others == IF Matches(w.plan, here.plan) THEN {p \in here.held : p.id # w.found.id} ELSE {}
  IN  /\ w.step = k /\ w.found # None
      /\ fitted' = [fitted EXCEPT ![w.doc][k] = [plan |-> w.plan, held |-> others \cup {w.found}]]
      /\ Draws(j, k, {w.found})
      /\ UNCHANGED <<life, stack, storeVars, developed, base, told, disk, countVars>>

\* An export looks its rasters up and resizes them itself.
CollectRasters(j) ==
  LET w == job[j]
      found == {r \in rasters[w.doc] : \E op \in Drawn(w.plan, w.ops, r.kind) : op.raster = r.id}
  IN  /\ w.step = "collect"
      /\ Becomes(j, [w EXCEPT !.step = "decode", !.drawn = {Sized(r, w.plan) : r \in found}])
      /\ UNCHANGED <<life, stack, storeVars, cacheVars, told, disk, countVars>>

\* A model's answer is stored on the document and reported with the shape it was
\* made from.  A patch is placed by the picture the model saw.
StoreResult(j) ==
  LET w == job[j]
      natural == Natural(IF w.kind = "backdrop" THEN GeometryOf(Active(w.doc)) ELSE w.plan.geometry)
  IN  /\ w.step = "store"
      /\ Stored(w.doc, IF w.kind = "segment" THEN "mask" ELSE "patch", natural,
                IF w.kind = "inpaint" THEN w.plan.size ELSE natural)
      /\ Becomes(j, NoJob)
      /\ UNCHANGED <<life, stack, developed, base, disk, edits, started>>

\* The answer is written; or the job was cancelled on its way.
Answer(j) ==
  /\ job[j].kind \in {"preview", "export", "segment", "inpaint", "backdrop"}
  /\ Becomes(j, NoJob)
  /\ UNCHANGED <<life, stack, storeVars, cacheVars, told, disk, countVars>>

-----------------------------------------------------------------------------
(* Projects.                                                               *)

\* SaveProjectJob copies all the operations first ...
StartSave(j) ==
  \E d \in open :
    /\ \A i \in Jobs : job[i].kind # "save"
    /\ Begin(j, [kind |-> "save", step |-> "pack patches", doc |-> d,
                 ops |-> stack[d].ops, cursor |-> stack[d].cursor, rasters |-> {}])

\* ... and the rasters after them, one store and then the other.
Pack(j, k, now, then) ==
  LET w == job[j]
  IN  /\ w.step = now
      /\ Becomes(j, [w EXCEPT !.step = then, !.rasters = @ \cup {r \in rasters[w.doc] : r.kind = k}])
      /\ UNCHANGED <<life, stack, storeVars, cacheVars, told, disk, countVars>>

PackPatches(j) == Pack(j, "patch", "pack patches", "pack masks")
PackMasks(j) == Pack(j, "mask", "pack masks", "write")

\* Broken variant: the operations are read when the archive is made.
ArchiveAsItStands(w) ==
  [written |-> "wholly", ops |-> stack[w.doc].ops, cursor |-> stack[w.doc].cursor, rasters |-> w.rasters]

Archive(w) ==
  [written |-> "wholly", ops |-> w.ops, cursor |-> w.cursor, rasters |-> w.rasters]

\* Broken variant: the project itself is opened for writing.
OpenInPlace(j) ==
  /\ job[j].step = "write"
  /\ disk' = [file |-> Partial, temp |-> Partial]
  /\ Becomes(j, [job[j] EXCEPT !.step = "writing"])
  /\ UNCHANGED <<life, stack, storeVars, cacheVars, told, countVars>>

\* The archive is written under another name ...
OpenTemp(j) ==
  /\ job[j].step = "write"
  /\ disk' = [disk EXCEPT !.temp = Partial]
  /\ Becomes(j, [job[j] EXCEPT !.step = "writing"])
  /\ UNCHANGED <<life, stack, storeVars, cacheVars, told, countVars>>

\* ... unless the disk is full ...
WriteTemp(j) ==
  /\ job[j].step = "writing"
  /\ \/ /\ disk' = [disk EXCEPT !.temp = Archive(job[j])]
        /\ Becomes(j, [job[j] EXCEPT !.step = "publish"])
     \/ disk' = [disk EXCEPT !.temp = None] /\ Becomes(j, NoJob)
  /\ UNCHANGED <<life, stack, storeVars, cacheVars, told, countVars>>

\* ... and moved over the one before, or removed if that fails.
Publish(j) ==
  /\ job[j].step = "publish"
  /\ \/ disk' = [file |-> disk.temp, temp |-> None]
     \/ disk' = [disk EXCEPT !.temp = None]
  /\ Becomes(j, NoJob)
  /\ UNCHANGED <<life, stack, storeVars, cacheVars, told, countVars>>

Names(op, r) == op.kind = Setter[r.kind] /\ op.raster = r.id /\ op.which = r.which

\* Broken variant: new numbers start from one again.
OpenedCountingAgain(d, file) ==
  /\ life' = [life EXCEPT ![d] = "open"]
  /\ stack' = [stack EXCEPT ![d] = [ops |-> file.ops, cursor |-> file.cursor]]
  /\ rasters' = [rasters EXCEPT ![d] = file.rasters]
  /\ told' = [told EXCEPT ![d] = {r \in file.rasters : \E i \in DOMAIN file.ops : Names(file.ops[i], r)}]
  /\ UNCHANGED next

After(numbers) == Max({1} \cup {n + 1 : n \in numbers})

\* The document is new; its rasters keep their numbers, and new ones come after
\* them. The history the renderer is answered with names some.
Opened(d, file) ==
  /\ life' = [life EXCEPT ![d] = "open"]
  /\ stack' = [stack EXCEPT ![d] = [ops |-> file.ops, cursor |-> file.cursor]]
  /\ rasters' = [rasters EXCEPT ![d] = file.rasters]
  /\ told' = [told EXCEPT ![d] = {r \in file.rasters : \E i \in DOMAIN file.ops : Names(file.ops[i], r)}]
  /\ next' = [next EXCEPT ![d] =
                [k \in Kinds |-> After({r.id : r \in {s \in file.rasters : s.kind = k}})]]

OpenProject(j) ==
  /\ job[j] = NoJob /\ started < MaxJobs /\ started' = started + 1
  /\ disk.file # None
  /\ \E d \in Docs : life[d] = "new" /\ Opened(d, disk.file)
  /\ UNCHANGED <<cacheVars, job, disk, edits, made>>

-----------------------------------------------------------------------------

ReaderStep ==
  \E d \in Docs :
    Reshape(d) \/ DevelopRaw(d) \/ Place(d) \/ Seek(d) \/ PaintMask(d) \/ CloseImage(d)

PreviewStep(j) ==
  \/ StartPreview(j) \/ FindBase(j) \/ Decode(j) \/ KeepBase(j)
  \/ \E k \in Kinds : FindFitted(j, k) \/ KeepFitted(j, k)

OtherJobStep(j) ==
  \/ StartExport(j) \/ CollectRasters(j)
  \/ StartSegment(j) \/ StartInpaint(j) \/ StartBackdrop(j) \/ StoreResult(j)
  \/ Answer(j)

ProjectStep(j) ==
  \/ StartSave(j) \/ PackPatches(j) \/ PackMasks(j) \/ OpenTemp(j) \/ WriteTemp(j) \/ Publish(j)
  \/ OpenProject(j)

Next == ReaderStep \/ \E j \in Jobs : PreviewStep(j) \/ OtherJobStep(j) \/ ProjectStep(j)

Spec == Init /\ [][Next]_vars

-----------------------------------------------------------------------------

Reading == {"preview", "export"}

\* A picture, however many other jobs filled and emptied the caches while it was
\* made, is the one its operations make from nothing: the photograph developed for
\* their balance and read through their geometry, with exactly those rasters drawn
\* that their layers name and that were made for a picture of this size.
\* (CachedBase, DevelopedSource, CachedFittedMask; "Export renders the same stack
\* the preview does", engine.cpp)
PictureIsItsStack ==
  \A j \in Jobs : LET w == job[j] IN
    w.kind \in Reading /\ w.step = "done" =>
      /\ w.pixels = [source |-> w.balance, shape |-> Shape(w.plan)]
      /\ w.drawn = {Sized(r, w.plan) : r \in {s \in rasters[w.doc] :
                      /\ s.natural = Natural(w.plan.geometry)
                      /\ \E op \in Layered(w.ops, s.kind) : op.which = s.which}}

\* What is at the project's path, at every moment a crash could come, is a whole
\* archive, and every raster its operations name is in it, the undone ones' too,
\* though edits, strokes and models went on while it was saved.
\* (SaveProjectJob, SaveProject: "an interrupted save never leaves a half-written
\* project where a whole one used to be")
ProjectIsWhole ==
  disk.file # None =>
    /\ disk.file # Partial
    /\ \A i \in DOMAIN disk.file.ops : LET op == disk.file.ops[i] IN
         op.kind \in {Setter[k] : k \in Kinds} => \E r \in disk.file.rasters : Names(op, r)

\* A raster once stored stays what it is under its number: neither another stroke,
\* nor a model, nor a project reopened, edited and painted on replaces it.
\* (StoreMask, RestoreMask: next_mask_)
RastersStay == [][\A d \in Docs : rasters[d] \subseteq rasters'[d]]_vars

\* "The region is in natural document coordinates" (edit/patch.h:18-21).
\* (TLC refutes it: what a model fills in is measured in the picture it saw, which
\* is smaller when the photograph was turned or resized.)
PatchesLieWhereTheyWereMade ==
  \A d \in Docs : \A r \in rasters[d] : r.measured = r.natural
=============================================================================
