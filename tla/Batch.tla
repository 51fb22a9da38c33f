--------------------------------- MODULE Batch ---------------------------------
(***************************************************************************)
(* Batch export: the loop of ipc/batch.ts over the chosen photographs, its *)
(* surface in ipc/library.ts (one run at a time, a cancel flag read between *)
(* files), the calls it makes to the engine and the files it writes, while *)
(* somebody edits a document of their own and files come and go.           *)
(*                                                                         *)
(* A call answers, fails, or times out in the host, and then the engine may *)
(* still carry it out later; an export it has begun holds its document,    *)
(* closed meanwhile or not.  At "next" the loop runs without an await, so  *)
(* nothing else of the main process comes between.  Paths are compared as  *)
(* they are spelt, while the disk keeps files: FileOf is what ties them.   *)
(*                                                                         *)
(* Abstracted: pixels.  A picture is what it was made from, its size, and  *)
(* whether it carries the look.                                            *)
(***************************************************************************)
EXTENDS Integers, Sequences, FiniteSets, SequencesExt

CONSTANTS
  Paths,        \* records with fields dir, stem and ext
  FileOf,       \* the file a path names: one for a.JPG and a.jpg, where case is ignored
  Originals,    \* what is on disk at first, by file: None, Broken or a picture
  Readable,     \* extensions the engine decodes, in either case
  Requests,     \* batches that may be asked for
  None,         \* no file, no document, no limit on the size
  Broken,       \* a file no decoder takes
  Camera,       \* what an original was made from
  MaxDocs,      \* bound: documents opened in all
  MaxTimeouts,  \* bound: calls that time out
  MaxHand       \* bound: edits the user makes

VARIABLES
  disk,        \* what each file holds
  up,          \* the engine runs
  docs,        \* the engine's open documents
  nextId,      \* next_id_
  abandoned,   \* calls given up by the host that the engine may still carry out
  timeouts,    \* how many there were
  request,     \* the batch being run, or the last one
  index,       \* the photograph of it the loop is at
  step,        \* where the loop is
  documentId,  \* the loop's variable
  todo,        \* operations it has still to apply
  items,       \* what it reports
  cancelling,  \* the flag of library.ts
  userDoc,     \* the document the user has open
  hand         \* edits the user made to it

engineVars == <<up, docs, nextId, abandoned, timeouts>>
loopVars == <<request, index, step, documentId, todo, items>>
userVars == <<userDoc, hand>>
vars == <<disk, up, docs, nextId, abandoned, timeouts, request, index, step,
          documentId, todo, items, cancelling, userDoc, hand>>

Steps == {"idle", "next", "opening", "working", "closing"}

\* Between two awaits no other handler of the main process runs.
AtAwait == step # "next"

Source == request.paths[index]

Extension(format) ==
  IF format = "jpeg" THEN "jpg" ELSE IF format = "tiff" THEN "tif" ELSE format

\* batchTarget: the name of the source, in the folder and with the extension of
\* the batch.
TargetOf(p, r) == [dir |-> r.directory, stem |-> p.stem, ext |-> Extension(r.format)]

Pictures ==
  [from : Paths \cup {Camera}, toned : BOOLEAN, width : Nat \ {0}, height : Nat \ {0}]

FilesOnDisk == {FileOf[p] : p \in Paths}

ASSUME BatchAssumption ==
  /\ DOMAIN FileOf = Paths
  /\ Originals \in [FilesOnDisk -> {None, Broken} \cup Pictures]
  /\ \A r \in Requests :
       /\ r.paths \in Seq(Paths) /\ r.adjustments \in BOOLEAN
       /\ r.maxSide \in {None} \cup (Nat \ {0})
       /\ \A k \in DOMAIN r.paths : TargetOf(r.paths[k], r) \in Paths
  /\ None \notin Nat \cup Pictures /\ Broken \notin Pictures
  /\ {MaxDocs, MaxTimeouts, MaxHand} \subseteq Nat

Larger(picture) == IF picture.width > picture.height THEN picture.width ELSE picture.height

\* Math.max(1, Math.round(side * limit / larger)).
Scaled(side, limit, larger) ==
  LET rounded == (2 * side * limit + larger) \div (2 * larger)
  IN IF rounded < 1 THEN 1 ELSE rounded

Look == [kind |-> "adjust"]
ByHand == [kind |-> "hand"]

\* The look, and a resize that only ever reduces.
Operations(r, picture) ==
  (IF r.adjustments THEN <<Look>> ELSE <<>>) \o
  (IF r.maxSide # None /\ r.maxSide < Larger(picture)
   THEN <<[kind |-> "resize", width |-> Scaled(picture.width, r.maxSide, Larger(picture)),
           height |-> Scaled(picture.height, r.maxSide, Larger(picture))]>>
   ELSE <<>>)

Init ==
  /\ disk = Originals
  /\ up = TRUE /\ docs = {} /\ nextId = 1 /\ abandoned = {} /\ timeouts = 0
  /\ request \in Requests /\ index = 1 /\ step = "idle"
  /\ documentId = None /\ todo = <<>> /\ items = <<>>
  /\ cancelling = FALSE
  /\ userDoc = None /\ hand = 0

-----------------------------------------------------------------------------
(* What the engine does for a call.                                        *)

Decodable(p) == disk[FileOf[p]] \notin {None, Broken}

\* DocumentStore::OpenFromMemory numbers documents for ever.
NewId == nextId

\* emplace leaves a document alone that has the id already.
Opened(p) ==
  /\ docs' = IF \E d \in docs : d.id = NewId THEN docs
             ELSE docs \cup {[id |-> NewId, path |-> p, picture |-> disk[FileOf[p]], ops |-> <<>>]}
  /\ nextId' = nextId + 1

Edited(id, op) == {IF d.id = id THEN [d EXCEPT !.ops = Append(@, op)] ELSE d : d \in docs}

Resizes(d) == {i \in DOMAIN d.ops : d.ops[i].kind = "resize"}

\* The document at full size, through the operations it has at that moment.
Rendered(d) ==
  [from |-> d.path,
   toned |-> d.picture.toned \/ Contains(d.ops, Look),
   width |-> IF Resizes(d) = {} THEN d.picture.width ELSE d.ops[Max(Resizes(d))].width,
   height |-> IF Resizes(d) = {} THEN d.picture.height ELSE d.ops[Max(Resizes(d))].height]

\* EncodeToFile replaces the target in one step.
Written(picture, target) == [disk EXCEPT ![FileOf[target]] = picture]

\* The call the loop is waiting for.
CurrentCall ==
  IF step = "opening" THEN [call |-> "image.open", path |-> Source]
  ELSE IF step = "closing" THEN [call |-> "image.close", id |-> documentId]
  ELSE IF todo # <<>> THEN [call |-> "edit.apply", id |-> documentId, op |-> Head(todo)]
  ELSE [call |-> "image.export", id |-> documentId, target |-> TargetOf(Source, request)]

\* An export that has begun: it holds the document as it is now, and writes the
\* picture although the document may be closed before it is rendered.
Begun(c, d) == [call |-> "write", target |-> c.target, picture |-> Rendered(d)]

\* The engine gets to a call the host has given up, or is through with an export.
CatchUp ==
  /\ up
  /\ \E c \in abandoned :
       \/ /\ c.call = "image.open"
          /\ abandoned' = abandoned \ {c}
          /\ IF Decodable(c.path) THEN Opened(c.path) ELSE UNCHANGED <<docs, nextId>>
          /\ UNCHANGED disk
       \/ /\ c.call = "edit.apply"
          /\ abandoned' = abandoned \ {c}
          /\ docs' = Edited(c.id, c.op) /\ UNCHANGED <<nextId, disk>>
       \/ /\ c.call = "image.close"
          /\ abandoned' = abandoned \ {c}
          /\ docs' = {d \in docs : d.id # c.id} /\ UNCHANGED <<nextId, disk>>
       \/ /\ c.call = "image.export"
          /\ abandoned' = (abandoned \ {c}) \cup {Begun(c, d) : d \in {e \in docs : e.id = c.id}}
          /\ UNCHANGED <<docs, nextId, disk>>
       \/ /\ c.call = "write"
          /\ abandoned' = abandoned \ {c}
          /\ disk' = Written(c.picture, c.target) /\ UNCHANGED <<docs, nextId>>
  /\ UNCHANGED <<up, timeouts, loopVars, cancelling, userVars>>

\* The engine dies, with its documents.
EngineDies ==
  /\ up
  /\ up' = FALSE /\ docs' = {} /\ abandoned' = {}
  /\ UNCHANGED <<disk, nextId, timeouts, loopVars, cancelling, userVars>>

-----------------------------------------------------------------------------
(* The loop.                                                               *)

Item(p, outcome) == [path |-> p, outcome |-> outcome]

\* runBatch of library.ts, while no batch is running.
Start ==
  /\ step = "idle"
  /\ \E r \in Requests :
       /\ nextId + Len(r.paths) <= MaxDocs
       /\ request' = r
  /\ cancelling' = FALSE
  /\ index' = 1 /\ items' = <<>> /\ step' = "next"
  /\ UNCHANGED <<disk, engineVars, documentId, todo, userVars>>

CancelBatch ==
  /\ AtAwait
  /\ cancelling' = TRUE
  /\ UNCHANGED <<disk, engineVars, loopVars, userVars>>

Chosen == step = "next" /\ index <= Len(request.paths)

\* Broken variant: every photograph of the batch is reported as cancelled.
CancelAll ==
  /\ Chosen /\ cancelling
  /\ items' = items \o [k \in 1..Len(request.paths) |-> Item(request.paths[k], "cancelled")]
  /\ index' = Len(request.paths) + 1
  /\ UNCHANGED <<disk, engineVars, request, step, documentId, todo, cancelling, userVars>>

\* Asked before each file: what is left is not touched.
CancelRest ==
  /\ Chosen /\ cancelling
  /\ items' = items \o [k \in 1..(Len(request.paths) - index + 1) |->
                          Item(request.paths[index + k - 1], "cancelled")]
  /\ index' = Len(request.paths) + 1
  /\ UNCHANGED <<disk, engineVars, request, step, documentId, todo, cancelling, userVars>>

\* Broken variant: only the path guard refuses a file.
RefusedByGuard == disk[FileOf[Source]] = None \/ Source.ext \notin Readable

\* The path guard finds no such photograph, or the target is spelt as the source.
Refused ==
  \/ disk[FileOf[Source]] = None \/ Source.ext \notin Readable
  \/ TargetOf(Source, request) = Source

Refuse ==
  /\ Chosen /\ ~cancelling /\ Refused
  /\ items' = Append(items, Item(Source, "failed"))
  /\ index' = index + 1
  /\ UNCHANGED <<disk, engineVars, request, step, documentId, todo, cancelling, userVars>>

AskOpen ==
  /\ Chosen /\ ~cancelling /\ ~Refused
  /\ step' = "opening"
  /\ UNCHANGED <<disk, engineVars, request, index, documentId, todo, items, cancelling, userVars>>

OpenAnswered ==
  /\ step = "opening" /\ up /\ Decodable(Source)
  /\ Opened(Source)
  /\ documentId' = NewId
  /\ todo' = Operations(request, disk[FileOf[Source]])
  /\ step' = "working"
  /\ UNCHANGED <<disk, up, abandoned, timeouts, request, index, items, cancelling, userVars>>

ApplyAnswered ==
  /\ step = "working" /\ up /\ todo # <<>>
  /\ docs' = Edited(documentId, Head(todo))
  /\ todo' = Tail(todo)
  /\ UNCHANGED <<disk, up, nextId, abandoned, timeouts, request, index, step, documentId,
                 items, cancelling, userVars>>

ExportAnswered ==
  /\ step = "working" /\ up /\ todo = <<>>
  /\ \E d \in docs :
       d.id = documentId /\ disk' = Written(Rendered(d), TargetOf(Source, request))
  /\ items' = Append(items, Item(Source, "exported"))
  /\ step' = "closing"
  /\ UNCHANGED <<engineVars, request, index, documentId, todo, cancelling, userVars>>

\* Broken variant: an operation that fails is skipped.
SkipFailedOperation ==
  IF step = "working" /\ todo # <<>>
  THEN todo' = Tail(todo) /\ UNCHANGED <<items, step, index>>
  ELSE /\ items' = Append(items, Item(Source, "failed"))
       /\ IF documentId = None THEN step' = "next" /\ index' = index + 1
          ELSE step' = "closing" /\ UNCHANGED index
       /\ todo' = <<>>

\* Broken variant: a failure leaves the document open.
FailWithoutClosing ==
  /\ items' = Append(items, Item(Source, "failed"))
  /\ step' = "next" /\ index' = index + 1
  /\ todo' = <<>>

\* The catch and the finally: the file has failed, its document is closed.
Fail ==
  /\ items' = Append(items, Item(Source, "failed"))
  /\ IF documentId = None THEN step' = "next" /\ index' = index + 1
     ELSE step' = "closing" /\ UNCHANGED index
  /\ todo' = <<>>

\* The engine refuses the call, or is not there.
CallFails ==
  /\ step \in {"opening", "working"}
  /\ Fail
  /\ UNCHANGED <<disk, engineVars, request, documentId, cancelling, userVars>>

\* The host stops waiting; the engine was never told.
CallTimesOut ==
  /\ step \in {"opening", "working"} /\ up
  /\ timeouts < MaxTimeouts
  /\ timeouts' = timeouts + 1
  /\ abandoned' = abandoned \cup {CurrentCall}
  /\ Fail
  /\ UNCHANGED <<disk, up, docs, nextId, request, documentId, cancelling, userVars>>

\* Broken variant: a close the engine is not there to answer is awaited for ever.
CloseAwaitsTheEngine ==
  /\ step = "closing" /\ up
  /\ docs' = {d \in docs : d.id # documentId}
  /\ documentId' = None
  /\ step' = "next" /\ index' = index + 1
  /\ UNCHANGED <<disk, up, nextId, abandoned, timeouts, request, todo, items, cancelling, userVars>>

\* The finally: whatever becomes of it, the loop goes on.
Close ==
  /\ step = "closing"
  /\ \/ up /\ docs' = {d \in docs : d.id # documentId} /\ UNCHANGED <<abandoned, timeouts>>
     \/ up /\ timeouts < MaxTimeouts /\ timeouts' = timeouts + 1
        /\ abandoned' = abandoned \cup {CurrentCall} /\ UNCHANGED docs
     \/ ~up /\ UNCHANGED <<docs, abandoned, timeouts>>
  /\ documentId' = None
  /\ step' = "next" /\ index' = index + 1
  /\ UNCHANGED <<disk, up, nextId, request, todo, items, cancelling, userVars>>

\* The last report, and the result.
Finish ==
  /\ step = "next" /\ index > Len(request.paths)
  /\ step' = "idle"
  /\ UNCHANGED <<disk, engineVars, request, index, documentId, todo, items, cancelling, userVars>>

-----------------------------------------------------------------------------
(* Everybody else.                                                         *)

\* The user opens a photograph, perhaps one of the batch, and edits it.
UserOpens ==
  /\ up /\ userDoc = None /\ nextId < MaxDocs
  /\ \E p \in Paths : Decodable(p) /\ Opened(p)
  /\ userDoc' = NewId
  /\ UNCHANGED <<disk, up, abandoned, timeouts, loopVars, cancelling, hand>>

UserEdits ==
  /\ up /\ userDoc # None /\ hand < MaxHand
  /\ docs' = Edited(userDoc, ByHand)
  /\ hand' = hand + 1
  /\ UNCHANGED <<disk, up, nextId, abandoned, timeouts, loopVars, cancelling, userDoc>>

\* Somebody deletes a file.
Vanish ==
  /\ \E f \in FilesOnDisk : disk[f] # None /\ disk' = [disk EXCEPT ![f] = None]
  /\ UNCHANGED <<engineVars, loopVars, cancelling, userVars>>

-----------------------------------------------------------------------------

LoopStep ==
  CancelRest \/ Refuse \/ AskOpen \/ OpenAnswered \/ ApplyAnswered \/ ExportAnswered
  \/ CallFails \/ CallTimesOut \/ Close \/ Finish

Next ==
  \/ Start \/ CancelBatch \/ LoopStep
  \/ CatchUp \/ EngineDies
  \/ UserOpens \/ UserEdits \/ Vanish

\* A call that is not answered times out, so the loop goes on.
Spec == Init /\ [][Next]_vars
FairSpec == Spec /\ WF_vars(LoopStep)

-----------------------------------------------------------------------------
(* Properties.                                                             *)

\* Type invariant.  There is one item for each photograph the loop is done with,
\* and one document it has open.
TypeOK ==
  /\ \A f \in FilesOnDisk : disk[f] \in {None, Broken} \cup Pictures
  /\ up \in BOOLEAN /\ nextId \in Nat /\ timeouts \in 0..MaxTimeouts
  /\ \A d \in docs : d.path \in Paths /\ d.picture \in Pictures
  /\ \A c, d \in docs : c.id = d.id => c = d
  /\ request \in Requests /\ step \in Steps
  /\ index \in 1..(Len(request.paths) + 1)
  /\ Len(items) <= Len(request.paths)
  /\ \A k \in DOMAIN items : items[k].path = request.paths[k]
  /\ documentId # None <=> step \in {"working", "closing"}
  /\ cancelling \in BOOLEAN /\ hand \in 0..MaxHand

\* A photograph whose path the batch would spell otherwise, as A.JPG for which the
\* target is A.jpg: where case is ignored, the target is the photograph.
Respelt(p) ==
  \E r \in Requests : TargetOf(p, r) # p /\ FileOf[TargetOf(p, r)] = FileOf[p]

\* "A batch never writes over its own source" (tests/engine/batch.mjs:174), and
\* not by an export the host had given up either.  So it is where a file has one
\* spelling; batch.ts:56 compares spellings, so a photograph that is spelt
\* otherwise than its target is replaced.
NeverOverItsSource ==
  \A f \in FilesOnDisk :
    disk'[f] \notin {disk[f], None} /\ FileOf[disk'[f].from] = f => Respelt(disk'[f].from)

\* A picture as the batch promises it: with the look, within the limit, and never
\* larger than it was (batch.ts:67-90).
Promised(picture, r, before) ==
  /\ r.adjustments => picture.toned
  /\ r.maxSide # None => Larger(picture) <= r.maxSide \/ Larger(picture) = Larger(before)
  /\ picture.width <= before.width /\ picture.height <= before.height

\* What is reported as exported is on disk, made from that photograph and as
\* promised.
ReportedIsWritten ==
  \A k \in DOMAIN items' \ DOMAIN items :
    items'[k].outcome = "exported" =>
      \E d \in docs :
        LET picture == disk'[FileOf[TargetOf(items'[k].path, request)]]
        IN /\ d.id = documentId /\ picture # None /\ picture.from = items'[k].path
           /\ Promised(picture, request, d.picture)

\* Whatever fails, times out, is cancelled or comes late, no export replaces what
\* it was made from, unless that is a photograph its target spells otherwise; and
\* every export reported is there as it was promised.
ExportedMeansExported == [][NeverOverItsSource /\ ReportedIsWritten]_vars

Batched == {d \in docs : d.id # userDoc}

\* "One photograph at a time, however long the list is", and never the document
\* somebody is editing (batch.ts:33-35): beyond the photograph at hand the engine
\* holds at most one document for each call that timed out, and the user's is as
\* the user left it.
DocumentsAccounted ==
  /\ Cardinality(Batched) <= timeouts + (IF documentId = None THEN 0 ELSE 1)
  /\ \A d \in docs : d.id = userDoc => d.ops = [k \in 1..hand |-> ByHand]

\* What the batch, the engine and the disk hold between them fits together.
BatchInOrder == TypeOK /\ DocumentsAccounted

\* A batch that started ends, with every photograph accounted for, although any
\* of them may fail and the engine may die under it.
BatchReports ==
  step # "idle" ~> step = "idle" /\ Len(items) = Len(request.paths)

-----------------------------------------------------------------------------
(* What the repository says and the code does not do.                      *)

\* "Nothing is applied to the originals" (BatchDialog.tsx:48): an original that
\* nobody deleted is what it was.  TLC refutes it: a.nef exported as JPEG beside
\* a.jpg replaces it, and c.JPG is replaced by its own export.
OriginalsSurvive ==
  \A f \in FilesOnDisk : Originals[f] # None => disk[f] \in {Originals[f], None}
=============================================================================
