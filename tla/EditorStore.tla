------------------------------ MODULE EditorStore ------------------------------
(***************************************************************************)
(* The renderer's editor store (store/editor.ts): what the panels show and *)
(* the asynchronous methods behind every control, against the main process *)
(* and the engine they call.                                               *)
(*                                                                         *)
(* A method runs until it awaits a call, and again when the answer comes.  *)
(* Calls about the stack and the masks are answered in the order they are  *)
(* made: the engine's reader thread runs them itself, and the pipe and the *)
(* channel keep their order.  Calls that are jobs are answered in any      *)
(* order.  Every answer reaches the store through one queue.               *)
(*                                                                         *)
(* Abstracted: pixels, geometry, masks (whose they are), adjustments (the  *)
(* set of controls that were moved), dialogs (open or dismissed), the      *)
(* saved project (ProjectSession), the viewport and the render loop        *)
(* (PreviewLoop).  An engine that stops is EngineClient's.                 *)
(***************************************************************************)
EXTENDS Layers

CONSTANTS
  MaxOpens,     \* bound: documents opened
  MaxGestures,  \* bound: everything else the user does
  Sliders,      \* the controls of the adjustments panel
  LayerKnobs,   \* the operations the layer panels send for one layer
  ToolOrder,    \* PORTRAIT_TOOLS
  ProjectOps    \* the operations a saved project holds

Tools == Range(ToolOrder)

\* What an adjustment can have moved: a slider, a tool of the portrait panel, and
\* what a preset, a paste and the analysis set.
AnyControl == Sliders \cup Tools \cup {"preset", "pasted", "enhanced"}

ASSUME EditorAssumption ==
  /\ MaxOpens \in Nat /\ MaxGestures \in Nat
  /\ LayerKnobs \subseteq DOMAIN SettingOf \ {"adjust"}
  /\ ToolOrder \in Seq(Tools)

\* A project holds what an editor sent: no second background, and an index is a
\* number.
ASSUME ProjectAssumption ==
  /\ ProjectOps \in Seq(Range(ProjectOps))
  /\ \A op \in Range(ProjectOps) :
        /\ op.kind = "addLayer" => op.layer \in LayerKinds
        /\ op.kind = "reorderLayer" => op.index \in Int
        /\ op.kind = "adjust" => op.value \subseteq AnyControl

VARIABLES
  engine,    \* each document: live, its operations and its cursor
  session,   \* session.documentId in the main process, 0 for none
  store,     \* the store
  jobs,      \* calls the engine is working on
  answers,   \* answers on their way to the store, oldest first
  gestures,  \* what the user has done
  tangled    \* history: two openings overlapped, or a project was adopted
             \* while calls were in flight

storeVars == <<engine, session, store, jobs, answers, gestures, tangled>>

Docs == 1 .. MaxOpens
None == -1      \* no layer chosen
Blank == [doc |-> 0, layers |-> <<>>]
Unknown == [found |-> FALSE, faces |-> FALSE, tools |-> [t \in Tools |-> None]]

BusyNames == {"none", "opening", "segmenting", "detecting", "filling", "analysing",
              "exporting", "rendering"}

StoreInit ==
  /\ engine = [d \in Docs |-> [live |-> FALSE, ops |-> <<>>, at |-> 0]]
  /\ session = 0
  /\ store = [document |-> 0, history |-> Blank, pending |-> Unset, selected |-> None,
              portrait |-> Unknown, busy |-> "none", crop |-> FALSE, brush |-> FALSE,
              suggested |-> FALSE]
  /\ jobs = {} /\ answers = <<>> /\ gestures = [opens |-> 0, others |-> 0]
  /\ tangled = FALSE

-----------------------------------------------------------------------------
(* The state as a value that a method's statements take from one to the    *)
(* next.                                                                   *)

World == [engine |-> engine, session |-> session, store |-> store,
          jobs |-> jobs, answers |-> answers]

Become(w) ==
  /\ engine' = w.engine /\ session' = w.session /\ store' = w.store
  /\ jobs' = w.jobs /\ answers' = w.answers

\* A call of a method: where it resumes (step), the document it speaks of, the
\* one its method was called on (home), the layer, the tools it has to go, and
\* the layers there were.
Call(step, doc, target) ==
  [step |-> step, doc |-> doc, home |-> doc, target |-> target, before |-> {},
   tool |-> "", rest |-> <<>>, drag |-> FALSE, serial |-> gestures]

LayersOf(w, d) == FoldLayers(SubSeq(w.engine[d].ops, 1, w.engine[d].at))

Answered(w, call, ok) ==
  [w EXCEPT !.answers = Append(@, [call |-> call, ok |-> ok, layers |-> LayersOf(w, call.doc)])]

\* edit.apply, which a document that is not open refuses.
Edited(w, call, op, continuing) ==
  LET e       == w.engine[call.doc]
      kept    == SubSeq(e.ops, 1, e.at)
      rewrite == continuing /\ e.at > 0 /\ Last(kept).kind = op.kind
      ops     == IF rewrite THEN [kept EXCEPT ![e.at] = op] ELSE Append(kept, op)
  IN  IF ~e.live THEN Answered(w, call, FALSE)
      ELSE Answered([w EXCEPT !.engine[call.doc].ops = ops, !.engine[call.doc].at = Len(ops)],
                    call, TRUE)

\* edit.undo, edit.redo, edit.seek: the cursor, as far as it goes.
Sought(w, call, n) ==
  LET e == w.engine[call.doc]
  IN  IF ~e.live THEN Answered(w, call, FALSE)
      ELSE Answered([w EXCEPT !.engine[call.doc].at = Max({0, Min({n, Len(e.ops)})})], call, TRUE)

\* edit.history, and mask.store.
Asked(w, call) == Answered(w, call, w.engine[call.doc].live)

\* A job, on its way to the engine.
Started(w, call) == [w EXCEPT !.jobs = @ \cup {call}]

\* Broken variant: whatever was closed, the session is over.
ClosedAtAll(w, call) ==
  Answered([w EXCEPT !.engine[call.doc].live = FALSE, !.session = 0], call, TRUE)

\* image.close: the session ends only with its own document.
Closed(w, call) ==
  Answered([w EXCEPT !.engine[call.doc].live = FALSE,
                     !.session = IF @ = call.doc THEN 0 ELSE @], call, TRUE)

-----------------------------------------------------------------------------
(* What the store shows.                                                   *)

Layered0(w) == w.store.history.layers
Ids(w) == {l.id : l \in Range(Layered0(w))}

\* selectedLayer: the chosen one, or the topmost adjustment, or the bottom.
Shown(s) ==
  LET layers == s.history.layers
      chosen == {i \in DOMAIN layers : layers[i].id = s.selected}
      adjust == {i \in DOMAIN layers : layers[i].kind = "adjustment"}
  IN  IF chosen # {} THEN layers[Min(chosen)]
      ELSE IF adjust # {} THEN layers[Max(adjust)] ELSE layers[1]

\* currentAdjustments
Current(s) ==
  IF s.pending # Unset THEN s.pending
  ELSE IF s.history.layers = <<>> \/ Shown(s).holds["adjustments"] = Unset THEN {}
  ELSE Shown(s).holds["adjustments"]

\* Broken variant: the move the engine has confirmed stays pending.
AdoptedKeepsPending(w, a) ==
  IF ~a.ok THEN w
  ELSE [w EXCEPT !.store.history = [doc |-> a.call.doc, layers |-> a.layers]]

\* adoptHistory, which does not look at whose history it is.
Adopted(w, a) ==
  IF ~a.ok THEN w
  ELSE [w EXCEPT !.store.history = [doc |-> a.call.doc, layers |-> a.layers],
                 !.store.pending = Unset]

\* The first layer that was not there before, or None.
Created(w, before) ==
  LET new == {i \in DOMAIN Layered0(w) : Layered0(w)[i].id \notin before}
  IN  IF new = {} THEN None ELSE Layered0(w)[Min(new)].id

Busy(w, name) == [w EXCEPT !.store.busy = name]

-----------------------------------------------------------------------------
(* The methods, by the statements between their awaits.                    *)

\* setLayerMask, on the document that is open when it is reached.
Masked(w, step, call, id, mask) ==
  Edited(w, [call EXCEPT !.step = step, !.doc = w.store.document],
         [kind |-> "setLayerMask", target |-> id, value |-> mask], FALSE)

MaskedLast(w, call, id, mask) ==
  IF w.store.document = 0 THEN w ELSE Masked(w, "adopt", call, id, mask)

Adding(w, call, kind) ==
  Edited(w, [call EXCEPT !.before = Ids(w)],
         [kind |-> "addLayer", layer |-> kind, target |-> 0], FALSE)

\* Broken variant: closeDocument has reset the history already.
EmptiedButHistory(w, d) ==
  [w EXCEPT !.store = [@ EXCEPT !.document = d, !.pending = Unset, !.selected = None,
                                !.crop = FALSE, !.busy = "none"]]

\* What an opening sets.
Emptied(w, d) ==
  [w EXCEPT !.store = [@ EXCEPT !.document = d, !.history = Blank, !.pending = Unset,
                                !.selected = None, !.crop = FALSE, !.busy = "none"]]

\* A new document is on screen, and its history is asked for.
Installed(w, call) ==
  Asked(Emptied(w, call.home), [call EXCEPT !.step = "read", !.doc = call.home])

\* closeDocument, up to the call.
Dropped(w) ==
  [w EXCEPT !.store = [@ EXCEPT !.document = 0, !.history = Blank, !.pending = Unset,
                                !.crop = FALSE]]

\* image.open answered: the document on screen is closed first.
OpenedImage(w, call) ==
  IF w.store.document = 0 THEN Installed(w, call)
  ELSE Closed(Dropped(w), [call EXCEPT !.step = "replaced", !.doc = w.store.document])

\* adoptProject, on what openProject, openPath and takeRecovery got.
OpenedProject(w, a) ==
  LET d == a.call.home
  IN  [Emptied(w, d) EXCEPT !.store.history = [doc |-> d, layers |-> a.layers]]

\* setPortraitTool, for the next tool of applyPortraitAuto or for one slider.
AddTool(w, call) ==
  Adding(w, [call EXCEPT !.step = "toolAdded"], "adjustment")

NextTool(w, call) ==
  IF call.rest = <<>> \/ w.store.document = 0 \/ ~w.store.portrait.faces THEN w
  ELSE LET tool == Head(call.rest)
           c == [call EXCEPT !.tool = tool, !.rest = Tail(@),
                              !.doc = w.store.document, !.home = w.store.document]
           built == w.store.portrait.tools[tool]
       IN  IF built # None
           THEN Edited(w, [c EXCEPT !.step = "toolMoved"],
                       [kind |-> "adjust", target |-> built, value |-> {tool}], c.drag)
           ELSE IF tool = "teeth" THEN Started(w, [c EXCEPT !.step = "sampled"])
           ELSE AddTool(w, c)

ToolAdjusting(w, call) ==
  Edited(w, [call EXCEPT !.step = "toolAdjusted", !.doc = call.home],
         [kind |-> "adjust", target |-> call.target, value |-> {call.tool}], FALSE)

\* removeBackground, when the subject is known.
RemovedBackground(w, call) ==
  LET mattes == {i \in DOMAIN Layered0(w) : Layered0(w)[i].kind = "matte"}
      target == Layered0(w)[Min(mattes)].id
  IN  IF mattes = {} THEN Adding(w, [call EXCEPT !.step = "matte"], "matte")
      ELSE MaskedLast([w EXCEPT !.store.selected = target], call, target, call.home)

-----------------------------------------------------------------------------
(* Answers.                                                                *)

\* Broken variant: a segmentation that fails leaves its name on the status bar.
JobFailedQuietly(w, call) ==
  IF call.step = "background" THEN w
  ELSE NextTool(IF call.step \in {"sampled", "backdrop"} THEN w ELSE Busy(w, "none"), call)

\* A job failed or a dialog was dismissed: a method that named itself busy takes
\* the name back. A sample of teeth and a backdrop did not; the tool that wanted
\* the sample is passed over.
JobFailed(w, call) ==
  NextTool(IF call.step \in {"sampled", "backdrop"} THEN w ELSE Busy(w, "none"), call)

\* What follows the await of a job.
JobSucceeded(w, a) ==
  LET call == a.call
      idle == Busy(w, "none")
      patch(value) == [kind |-> "setLayerPatch", target |-> call.target, value |-> value]
  IN  CASE call.step = "openImage"   -> OpenedImage(w, call)
        [] call.step = "openProject" -> OpenedProject(w, a)
        [] call.step = "segment"     -> MaskedLast(idle, call, call.target, call.home)
        [] call.step = "background"  -> RemovedBackground(idle, call)
        [] call.step = "fill"        -> Edited(idle, [call EXCEPT !.step = "adopt"],
                                               patch("filled"), FALSE)
        [] call.step = "backdrop"    -> Edited(w, [call EXCEPT !.step = "backdropPlaced"],
                                               patch("backdrop"), FALSE)
        [] call.step = "detect"      ->
             NextTool([idle EXCEPT !.store.portrait.found = TRUE,
                                   !.store.portrait.faces = (call.target = 1)], call)
        [] call.step = "sampled"     -> AddTool(w, call)
        [] call.step = "analyse"     -> [idle EXCEPT !.store.suggested = TRUE]
        [] call.step = "export"      -> idle

\* Broken variant: the crop stays on the canvas beside the brush.
MarkedOver(w, id) == [w EXCEPT !.store.selected = id, !.store.brush = TRUE]

\* beginObjectRemoval puts the brush in the hand.
Marked(w, id) == [MarkedOver(w, id) EXCEPT !.store.crop = FALSE]

\* An edit answered: its history is adopted, and the method goes on whether or
\* not the engine took it.
AfterEdit(w, a) ==
  LET call == a.call
      now  == Adopted(w, a)
      new  == Created(now, call.before)
  IN  CASE call.step = "adopt" \/ (new = None /\ call.step \in {"addLayer", "removal", "matte"})
             -> now
        [] call.step = "addLayer" /\ new # None -> [now EXCEPT !.store.selected = new]
        [] call.step = "removal" /\ new # None  -> Marked(now, new)
        [] call.step = "matte" /\ new # None    ->
             MaskedLast([now EXCEPT !.store.selected = new], call, new, call.home)
        [] call.step = "backdropPlaced" ->
             IF now.store.document = 0 THEN now
             ELSE Edited(now, [call EXCEPT !.step = "adopt", !.doc = now.store.document],
                         [kind |-> "setLayerFill", target |-> call.target, value |-> "image"], FALSE)
        [] call.step = "toolAdded" ->
             IF new = None THEN NextTool(now, call)
             ELSE Asked(now, [call EXCEPT !.step = "toolStored", !.target = new])
        [] call.step = "toolMasked" -> ToolAdjusting(now, call)
        [] call.step = "toolAdjusted" ->
             NextTool(IF now.store.portrait.found
                      THEN [now EXCEPT !.store.portrait.tools[call.tool] = call.target] ELSE now,
                      call)
        [] call.step = "toolMoved" -> NextTool(now, call)

EditSteps == {"adopt", "addLayer", "removal", "matte", "backdropPlaced",
              "toolAdded", "toolMasked", "toolAdjusted", "toolMoved"}
JobSteps == {"openImage", "openProject", "segment", "background", "fill", "backdrop",
             "detect", "sampled", "analyse", "export"}

Resumed(w, a) ==
  LET call == a.call
  IN  CASE call.step \in EditSteps -> AfterEdit(w, a)
        [] call.step \in JobSteps  -> IF a.ok THEN JobSucceeded(w, a) ELSE JobFailed(w, call)
        [] call.step = "replaced"  -> Installed(w, call)
        [] call.step = "read"      -> IF a.ok THEN [w EXCEPT !.store.history =
                                                     [doc |-> call.doc, layers |-> a.layers]] ELSE w
        [] call.step = "paint"     -> IF a.ok THEN MaskedLast(w, call, call.target, call.home) ELSE w
        [] call.step = "toolStored" ->
             IF ~a.ok THEN NextTool(w, call)
             ELSE IF w.store.document = 0 THEN ToolAdjusting(w, call)
             ELSE Masked(w, "toolMasked", call, call.target, call.home)

Openings == {c \in jobs \cup {a.call : a \in Range(answers)} : c.step \in {"openImage", "openProject"}}

\* The oldest answer reaches the method that waits for it.
Deliver ==
  /\ answers # <<>>
  /\ LET a == Head(answers)
     IN  /\ Become(Resumed([World EXCEPT !.answers = Tail(@)], a))
         /\ tangled' = (tangled \/ (a.ok /\ a.call.step = "openProject"
                                         /\ (jobs # {} \/ Len(answers) > 1)))
  /\ UNCHANGED gestures

\* The engine is done with a job; for an opening the main process takes the
\* document as its session before the store hears of it.
JobDone(call, ok, target) ==
  LET opens == ok /\ call.step \in {"openImage", "openProject"}
      left  == [World EXCEPT !.jobs = @ \ {call}]
      ops   == IF call.step = "openProject" THEN ProjectOps ELSE <<>>
      begun == [left EXCEPT !.engine[call.home] = [live |-> TRUE, ops |-> ops, at |-> Len(ops)],
                            !.session = call.home]
  IN  /\ call.step = "detect" \/ target = call.target
      /\ Become(Answered(IF opens THEN begun ELSE left, [call EXCEPT !.target = target], ok))
      /\ UNCHANGED <<gestures, tangled>>

\* requestPreview names the store busy when a render starts, and takes the name
\* back, whosever it is by then, when the picture of the open document comes.
Render ==
  /\ store.document # 0
  /\ \E name \in {"rendering", "none"} : store' = [store EXCEPT !.busy = name]
  /\ UNCHANGED <<engine, session, jobs, answers, gestures, tangled>>

-----------------------------------------------------------------------------
(* The user.                                                               *)

Opening(step) ==
  LET d == gestures.opens + 1
      w == [World EXCEPT !.store.busy = "opening"]
  IN  /\ gestures.opens < MaxOpens
      /\ gestures' = [gestures EXCEPT !.opens = d]
      /\ Become(Started(w, Call(step, d, 0)))
      /\ tangled' = (tangled \/ Openings # {})

\* openDialog, openPath, a drop, a tile of the library.
OpenImage == Opening("openImage")

\* openProject, openPath on a project, takeRecovery.
OpenProject == Opening("openProject")

Gesture(w) ==
  /\ store.document # 0 /\ gestures.others < MaxGestures
  /\ gestures' = [gestures EXCEPT !.others = @ + 1]
  /\ Become(w)
  /\ UNCHANGED tangled

Document == store.document
Here(step, target) == Call(step, Document, target)
Listed(id, kinds) == \E l \in Range(store.history.layers) : l.id = id /\ l.kind \in kinds

\* commitAdjustments, which the sliders, the curves, the presets and the paste
\* reach: aimed at the layer that was chosen, whether or not it is still there.
Commit(value, continuing) ==
  Edited([World EXCEPT !.store.pending = value], Here("adopt", 0),
         [kind |-> "adjust", target |-> Max({0, store.selected}), value |-> value], continuing)

\* The panel has sliders for an adjustment layer, or when there is none.
Editable ==
  LET layers == store.history.layers
      none   == ~\E l \in Range(layers) : l.kind = "adjustment"
  IN  IF layers = <<>> THEN TRUE
      ELSE Shown(store).kind = "adjustment" \/ (none /\ Shown(store).kind = "background")

Slide(slider, continuing) ==
  Editable /\ Gesture(Commit(Current(store) \cup {slider}, continuing))

ApplyPreset == Editable /\ Gesture(Commit({"preset"}, FALSE))

\* A shortcut, which nothing disables.
PasteAdjustments == Gesture(Commit({"pasted"}, FALSE))

ResetAdjustments ==
  /\ Current(store) # {}
  /\ Gesture(Edited([World EXCEPT !.store.pending = {}], Here("adopt", 0),
                    [kind |-> "adjust", target |-> 0, value |-> {}], FALSE))

Analyse ==
  /\ Editable /\ store.busy # "analysing"
  /\ Gesture(Started([World EXCEPT !.store.busy = "analysing", !.store.suggested = FALSE],
                     Here("analyse", 0)))

ApplyEnhancements ==
  /\ Editable /\ store.suggested
  /\ LET w == Commit(Current(store) \cup {"enhanced"}, FALSE)
     IN  Gesture([w EXCEPT !.store.suggested = FALSE])

SelectLayer(id) ==
  /\ Listed(id, LayerKinds \cup {"background"}) /\ id # store.selected
  /\ Gesture([World EXCEPT !.store.selected = id, !.store.pending = Unset])

AddLayer == Gesture(Adding(World, Here("addLayer", 0), "adjustment"))

\* The buttons of the list, for the layer on show.
RemoveLayer(id) ==
  /\ Listed(id, {"adjustment"})
  /\ LET w == [World EXCEPT !.store.selected = IF @ = id THEN None ELSE @]
     IN  Gesture(Edited(w, Here("adopt", id), [kind |-> "removeLayer", target |-> id], FALSE))

\* moveLayer: index 0 is the background's.
MoveLayer(id, delta) ==
  LET layers == store.history.layers
      at     == Max({0} \cup {i \in DOMAIN layers : layers[i].id = id}) - 1
      index  == Min({Max({1, at + delta}), Len(layers) - 1})
  IN  /\ Listed(id, {"adjustment"}) /\ index # at
      /\ Gesture(Edited(World, Here("adopt", id),
                        [kind |-> "reorderLayer", target |-> id, index |-> index], FALSE))

\* setLayerVisible and its kin.
TurnKnob(kind, id) ==
  /\ Listed(id, LayerKinds)
  /\ Gesture(Edited(World, Here("adopt", id),
                    [kind |-> kind, target |-> id,
                     value |-> IF kind = "setLayerMask" THEN 0 ELSE "turned"], FALSE))

\* setPortraitTool for a slider; strengths are left out.
PortraitTool(tool, continuing) ==
  /\ store.portrait.faces
  /\ Gesture(NextTool(World, [Here("", 0) EXCEPT !.rest = <<tool>>, !.drag = continuing]))

DetectFaces ==
  /\ store.busy # "detecting" /\ ~store.portrait.found
  /\ Gesture(Started(Busy(World, "detecting"), Here("detect", 0)))

PortraitAuto ==
  /\ store.portrait.faces
  /\ Gesture(NextTool(World, [Here("", 0) EXCEPT !.rest = ToolOrder]))

SegmentIntoMask(id) ==
  /\ store.busy # "segmenting" /\ Listed(id, {"adjustment"})
  /\ Gesture(Started(Busy(World, "segmenting"), Here("segment", id)))

RemoveBackground ==
  /\ store.busy # "segmenting"
  /\ Gesture(Started(Busy(World, "segmenting"), Here("background", 0)))

BeginObjectRemoval ==
  /\ store.busy # "filling"
  /\ Gesture(Adding(World, Here("removal", 0), "patch"))

FillMarked(id) ==
  /\ store.busy # "filling"
  /\ \E l \in Range(store.history.layers) :
        l.id = id /\ l.kind = "patch" /\ l.holds["mask"] \notin {Unset, 0}
  /\ Gesture(Started(Busy(World, "filling"), Here("fill", id)))

ChooseBackground(id) ==
  Listed(id, {"matte"}) /\ Gesture(Started(World, Here("backdrop", id)))

\* applyPaintedMask, on the layer the brush is over.
Paint ==
  /\ store.brush /\ store.history.layers # <<>> /\ Shown(store).kind # "background"
  /\ Gesture(Asked(World, Here("paint", Shown(store).id)))

\* The crop tool and the brush put each other away.
BeginCrop == ~store.crop /\ Gesture([World EXCEPT !.store.crop = TRUE, !.store.brush = FALSE])
CancelCrop == store.crop /\ Gesture([World EXCEPT !.store.crop = FALSE])
ToggleBrush ==
  Gesture([World EXCEPT !.store.brush = ~@, !.store.crop = store.brush /\ @])

\* A frame of the whole picture is not an entry; that case is CancelCrop's.
ConfirmCrop ==
  /\ store.crop
  /\ Gesture(Edited([World EXCEPT !.store.crop = FALSE], Here("adopt", 0),
                    [kind |-> "crop", target |-> 0], FALSE))

Export ==
  /\ store.busy = "none"
  /\ Gesture(Started(Busy(World, "exporting"), Here("export", 0)))

Reached == engine[Document].at
UndoEdit == Gesture(Sought(World, Here("adopt", 0), Reached - 1))
RedoEdit == Gesture(Sought(World, Here("adopt", 0), Reached + 1))
SeekEdit(n) == Document # 0 /\ n # Reached /\ Gesture(Sought(World, Here("adopt", 0), n))
ResetEdits ==
  LET live == engine[Document].live
      w == [World EXCEPT !.engine[Document].ops = IF live THEN <<>> ELSE @,
                         !.engine[Document].at = IF live THEN 0 ELSE @]
  IN  Gesture(Answered(w, Here("adopt", 0), live))

\* applyEdit from the rail: a rotation or a flip.
Turn == Gesture(Edited(World, Here("adopt", 0), [kind |-> "rotate", target |-> 0], FALSE))

\* A row of the list chooses and hides any layer; the rest is for the one on show.
OnLayer(id) ==
  \/ SelectLayer(id)
  \/ \E kind \in LayerKnobs :
        (kind = "setLayerVisible" \/ Shown(store).id = id) /\ TurnKnob(kind, id)
  \/ /\ Shown(store).id = id
     /\ \/ RemoveLayer(id) \/ SegmentIntoMask(id) \/ FillMarked(id) \/ ChooseBackground(id)
        \/ \E delta \in {-1, 1} : MoveLayer(id, delta)

\* The side panel, whose place the crop tool's takes.
Panels ==
  /\ ~store.crop
  /\ \/ \E slider \in Sliders, continuing \in BOOLEAN : Slide(slider, continuing)
     \/ ApplyPreset \/ ResetAdjustments \/ Analyse \/ ApplyEnhancements
     \/ \E id \in Ids(World) : OnLayer(id)
     \/ AddLayer
     \/ Editable /\ (DetectFaces \/ PortraitAuto)
     \/ \E tool \in Tools, continuing \in BOOLEAN : Editable /\ PortraitTool(tool, continuing)
     \/ \E n \in 0 .. Len(engine[Max({1, Document})].ops) : SeekEdit(n)

Rail ==
  \/ RemoveBackground \/ BeginObjectRemoval \/ BeginCrop \/ CancelCrop \/ ToggleBrush \/ Turn

\* The keys, which a panel that is away does not take away with it.
Keys == OpenImage \/ OpenProject \/ PasteAdjustments \/ ConfirmCrop \/ UndoEdit \/ RedoEdit

StoreNext ==
  \/ Panels \/ Rail \/ Keys
  \/ Paint \/ Export \/ ResetEdits
  \/ Deliver
  \/ \E call \in jobs, ok \in BOOLEAN :
        \E target \in {0, 1} \cup {call.target} : JobDone(call, ok, target)
  \/ Render

StoreSpec == StoreInit /\ [][StoreNext]_storeVars

-----------------------------------------------------------------------------
(* Properties.                                                             *)

InFlight == jobs \cup {a.call : a \in Range(answers)}
AtRest == InFlight = {}

\* Type invariant of the store's fields and of what is on its way to them.
StoreTypeOK ==
  /\ session \in {0} \cup Docs
  /\ store.document \in {0} \cup Docs
  /\ store.history.doc \in {0} \cup Docs
  /\ store.history.layers # <<>> => WellFormed(store.history.layers)
  /\ store.pending = Unset \/ store.pending \subseteq AnyControl
  /\ store.busy \in BusyNames
  /\ {store.crop, store.brush, store.suggested, store.portrait.found, store.portrait.faces} \subseteq BOOLEAN
  /\ \A c \in InFlight : c.step \in EditSteps \cup JobSteps \cup {"replaced", "read", "paint", "toolStored"}
  /\ \A c \in jobs : c.step \in JobSteps
  /\ tangled \in BOOLEAN

\* The layers in the panel are the layers of the photograph on the canvas, though
\* an answer does not say whose stack it carries and may come after its
\* photograph was closed (adoptHistory; openPath waits for closeDocument).
StackShownIsTheDocuments ==
  store.document # 0 /\ store.history.layers # <<>> /\ ~tangled
    => store.history.doc = store.document

\* What the main process would save is what the store shows, once nothing is in
\* flight: the photograph it replaced is closed after the new one became the
\* session, and that close may not take the session along (session.open and the
\* image:close handler, against openPath).
SavedIsShown == AtRest /\ ~tangled => session = store.document

\* Once nothing is in flight the panel shows the engine's stack and no move of
\* its own on top of it, whatever order gestures, undos, jobs and openings came
\* in (adoptHistory).
PanelShowsTheEngine ==
  AtRest /\ ~tangled /\ store.document # 0
    => /\ store.history = [doc |-> store.document, layers |-> LayersOf(World, store.document)]
       /\ store.pending = Unset

\* The status bar does not go on naming a job once no job is running, whichever
\* way the jobs ended and however they overlapped.
JobNameNeverSticks == AtRest => store.busy \in {"none", "rendering"}

\* The crop frame and the brush are never both on the canvas, though the tool
\* that removes objects takes up the brush only when its layer was made.
OneToolAtATime == ~(store.crop /\ store.brush)

\* The store's fields have their shapes, at most one tool is open, and nothing
\* stays named that has ended.
StoreInOrder == StoreTypeOK /\ OneToolAtATime /\ JobNameNeverSticks
=============================================================================
