------------------------------ MODULE PreviewLoop ------------------------------
(***************************************************************************)
(* How an edit becomes a picture on the screen: the canvas's render loop   *)
(* (components/Canvas.tsx), the size it asks for (lib/preview.ts), and the *)
(* store's requestPreview, setComparing and adoptHistory (store/editor.ts), *)
(* against an engine that renders the stack as it is when a render starts   *)
(* and cancels a render whose coalescing key is asked for again.            *)
(*                                                                         *)
(* React runs the effects of a change of the store before the next task,   *)
(* so they belong to the action that makes the change, in the order the     *)
(* component declares them.  The answers to edits are in the order of the   *)
(* edits; the answers to renders are in any order.                          *)
(*                                                                         *)
(* busy is one field for the whole store: opening, exporting and the jobs   *)
(* of the portrait, the mask and the removal write it as well, whatever is  *)
(* being rendered.                                                         *)
(*                                                                         *)
(* Abstracted: pixels, heights (they follow the widths), and what an edit  *)
(* does, beyond the width of the frame it leaves.  A picture is the version *)
(* of the stack it was rendered from.  The canvas is sized by its width.    *)
(***************************************************************************)
EXTENDS Integers, Sequences

CONSTANTS
  MaxEdits,     \* bound: edits made by hand
  MaxExtras,    \* bound: zooms, comparisons, portrait samples, jobs, trips to
                \* the library and requests for further photographs, together
  Widths,       \* the widths a frame may have
  Source,       \* the width of a photograph nothing was done to
  Budget,       \* widest preview PREVIEW_BUDGET_MP allows
  Unit,         \* the zoom at which one image pixel is one CSS pixel
  Scales,       \* zooms the wheel and the buttons reach, in Unit-ths
  Inner         \* width of the viewport less the margin around the photograph

ASSUME PreviewAssumption ==
  /\ {MaxEdits, MaxExtras} \subseteq Nat
  /\ Widths \subseteq Nat \ {0} /\ Source \in Widths
  /\ Scales \subseteq Nat \ {0}
  /\ Budget \in Nat \ {0} /\ Unit \in Nat \ {0} /\ Inner \in Nat \ {0}

VARIABLES
  document,     \* the open photograph, 0 for none
  opened,       \* photographs opened so far
  stack,        \* the engine's stack of each photograph
  answers,      \* answers to edits that the store has not adopted
  history,      \* the stack as the store knows it
  interacting,  \* a control is being dragged
  scale,        \* viewport.scale
  preview,      \* the picture on screen
  comparing, baseline,  \* the comparison view
  busy,         \* "rendering", "other" for what anyone else writes, or "none"
  opening,      \* a request for a photograph: "asked", "closing" the one before
  jobs,         \* other calls that hold busy and are not answered
  since,        \* for the properties: since a live render was last asked for,
                \* another call wrote busy, a render failed that nobody repeats
  mount,        \* which mounting of the canvas is on screen, 0 for none
  mounts,       \* mountings so far
  sized,        \* sizeRef holds the size of the viewport
  observing,    \* a resize observer was attached and has not reported yet
  loop,         \* the refs of each mounting of the canvas
  renders,      \* renders asked for and not answered to the store
  budget        \* what is left of the bounds

storeVars == <<document, opened, history, interacting, scale, preview, comparing, baseline, busy>>
callVars == <<opening, jobs>>
canvasVars == <<mount, mounts, sized, observing, loop>>
engineVars == <<stack, answers, renders>>
vars == <<document, opened, stack, answers, history, interacting, scale, preview, comparing,
          baseline, busy, opening, jobs, since, mount, mounts, sized, observing, loop, renders,
          budget>>

Docs == 1..(MaxExtras + 1)
Mounts == 1..(MaxExtras + 1)
Versions == 0..(MaxEdits + MaxExtras)
Stack == [version : Versions, width : Widths]
Picture == [doc : {0} \cup Docs, version : Versions, width : Nat]
Nothing == [doc |-> 0, version |-> 0, width |-> 0]

Min2(a, b) == IF a < b THEN a ELSE b
Max2(a, b) == IF a < b THEN b ELSE a

Timers == {"none", "plain", "forced"}
Loop == [timer : Timers, pending : BOOLEAN, force : BOOLEAN, inFlight : BOOLEAN]
IdleLoop == [timer |-> "none", pending |-> FALSE, force |-> FALSE, inFlight |-> FALSE]

\* "loop" is the live preview, "compare" the baseline one, "sample" the small
\* preview a portrait region reads.  newest: its token is previewToken.
Render == [by : {"loop", "compare", "sample"}, mount : {0} \cup Mounts, doc : Docs,
           width : Nat, newest : BOOLEAN, doomed : BOOLEAN,
           started : BOOLEAN, version : Versions, frame : Nat]

Budgets == [edits : 0..MaxEdits, extras : 0..MaxExtras]
Since == [spoke : BOOLEAN, failed : BOOLEAN]
Fresh == [spoke |-> FALSE, failed |-> FALSE]
Spoken == [since EXCEPT !.spoke = TRUE]

Init ==
  /\ document = 0 /\ opened = 0 /\ history = [version |-> 0, width |-> 0]
  /\ stack = [d \in Docs |-> [version |-> 0, width |-> Source]]
  /\ answers = <<>> /\ interacting = FALSE /\ scale = Unit
  /\ preview = Nothing /\ comparing = FALSE /\ baseline = Nothing /\ busy = "none"
  /\ opening = "none" /\ jobs = 0 /\ since = Fresh
  /\ mount = 0 /\ mounts = 0 /\ sized = FALSE /\ observing = FALSE
  /\ loop = [m \in Mounts |-> IdleLoop]
  /\ renders = {}
  /\ budget = [edits |-> MaxEdits, extras |-> MaxExtras]

-----------------------------------------------------------------------------
(* Sizes.                                                                  *)

\* fitToViewport: never above one to one.
Fitted(width) == Max2(1, Min2((Unit * Inner) \div width, Unit))

\* The width previewTarget would ask for, half of it during a drag.
Wanted(width, zoom, dragging) ==
  LET full == Min2(Min2(width, (width * zoom + Unit - 1) \div Unit), Budget)
  IN  IF dragging THEN Max2(1, (full + 1) \div 2) ELSE full

\* Within a tenth of what is on screen.
Near(width, rendered) ==
  rendered > 0 /\ 10 * Max2(width - rendered, rendered - width) < rendered

\* previewTarget returns null.
KeepsPicture(width, zoom, dragging, rendered, forced) ==
  ~forced /\ Near(Wanted(width, zoom, dragging), rendered)

-----------------------------------------------------------------------------
(* The loop: one render at a time, and another when the picture moved.     *)

\* `preview:<id>` or `preview:baseline:<id>`.
SameKey(r, by, d) == r.doc = d /\ (r.by = "compare" <=> by = "compare")

\* A request dooms those of its key; a live one takes the token as well.
Ask(pool, by, m, width) ==
  {[r EXCEPT !.doomed = @ \/ SameKey(r, by, document),
             !.newest = @ /\ by # "loop"] : r \in pool}
    \cup {[by |-> by, mount |-> m, doc |-> document, width |-> width,
           newest |-> by = "loop", doomed |-> FALSE,
           started |-> FALSE, version |-> 0, frame |-> 0]}

\* Broken variant: what was owed is forgotten while a render is in flight.
TurnOnce(m, refs, rendered, pool, busyNow, sinceNow) ==
  LET asks == refs.pending /\ document # 0 /\ ~loop[m].inFlight
                /\ ~KeepsPicture(history.width, scale, interacting, rendered, refs.force)
  IN  /\ loop' = [loop EXCEPT ![m] = [refs EXCEPT !.pending = FALSE, !.force = FALSE,
                                                  !.inFlight = asks]]
      /\ renders' = IF asks
                    THEN Ask(pool, "loop", m, Wanted(history.width, scale, interacting))
                    ELSE pool
      /\ busy' = IF asks THEN "rendering" ELSE busyNow
      /\ since' = IF asks THEN Fresh ELSE sinceNow

\* One turn of the while loop of runPreview, and requestPreview up to its await.
Turn(m, refs, rendered, pool, busyNow, sinceNow) ==
  LET asks == refs.pending /\ document # 0
                /\ ~KeepsPicture(history.width, scale, interacting, rendered, refs.force)
  IN  /\ loop' = [loop EXCEPT ![m] = [refs EXCEPT !.pending = FALSE, !.force = FALSE,
                                                  !.inFlight = asks]]
      /\ renders' = IF asks
                    THEN Ask(pool, "loop", m, Wanted(history.width, scale, interacting))
                    ELSE pool
      /\ busy' = IF asks THEN "rendering" ELSE busyNow
      /\ since' = IF asks THEN Fresh ELSE sinceNow

\* schedulePreview: one timer, and the last to arm it says whether to force.
Armed(kind) == IF mount = 0 THEN loop ELSE [loop EXCEPT ![mount].timer = kind]

\* The timer's callback: runPreview up to its first await.
TimerFires(m) ==
  /\ loop[m].timer # "none"
  /\ LET refs == [loop[m] EXCEPT !.timer = "none", !.pending = TRUE,
                                 !.force = @ \/ loop[m].timer = "forced"]
     IN  IF refs.inFlight
         THEN loop' = [loop EXCEPT ![m] = refs] /\ UNCHANGED <<renders, busy, since>>
         ELSE Turn(m, refs, preview.width, renders, busy, since)
  /\ UNCHANGED <<document, opened, stack, answers, history, interacting, scale, preview, comparing,
                 baseline, callVars, mount, mounts, sized, observing, budget>>

\* A job starts: the stack is read now.
StartRender(r) ==
  /\ ~r.started /\ ~r.doomed /\ r.doc = document
  /\ renders' = (renders \ {r}) \cup
                {[r EXCEPT !.started = TRUE, !.version = stack[document].version,
                           !.frame = stack[document].width]}
  /\ UNCHANGED <<storeVars, callVars, since, canvasVars, stack, answers, budget>>

\* A render that was cancelled, or that found its photograph closed.
Fails(r) == r.doomed \/ (~r.started /\ r.doc # document)

\* Broken variants: one of the two conditions is not looked at.
IsCurrentDocument(r) == document = r.doc
IsNewest(r) == r.newest

\* isCurrent in requestPreview.
IsCurrent(r) == r.newest /\ document = r.doc

PictureOf(r) == [doc |-> r.doc, version |-> r.version, width |-> Min2(r.width, r.frame)]

\* requestPreview after its await, cancelled or late for its photograph: nothing
\* is said, and the loop goes on.
LiveRefused(r) ==
  /\ r.by = "loop" /\ Fails(r)
  /\ Turn(r.mount, loop[r.mount], preview.width, renders \ {r}, busy, since)
  /\ UNCHANGED <<document, opened, stack, answers, history, interacting, scale, preview, comparing,
                 baseline, callVars, mount, mounts, sized, observing, budget>>

\* requestPreview after its await, with any other error: the newest one clears
\* busy, and what it was asked for is not asked for again.
LiveFailed(r) ==
  /\ r.by = "loop"
  /\ Turn(r.mount, loop[r.mount], preview.width, renders \ {r},
          IF IsCurrent(r) THEN "none" ELSE busy,
          [since EXCEPT !.failed = @ \/ IsCurrent(r)])
  /\ UNCHANGED <<document, opened, stack, answers, history, interacting, scale, preview, comparing,
                 baseline, callVars, mount, mounts, sized, observing, budget>>

\* Broken variant: a superseded render clears what its successor holds.
LiveRenderedClears(r) ==
  /\ r.by = "loop" /\ r.started
  /\ preview' = IF IsCurrent(r) THEN PictureOf(r) ELSE preview
  /\ Turn(r.mount, loop[r.mount], preview'.width, renders \ {r}, "none", since)
  /\ observing' = (observing \/ (IsCurrent(r) /\ mount # 0))
  /\ UNCHANGED <<document, opened, stack, answers, history, interacting, scale, comparing,
                 baseline, callVars, mount, mounts, sized, budget>>

\* requestPreview after its await, with a picture, and the loop after it.
LiveRendered(r) ==
  /\ r.by = "loop" /\ r.started
  /\ preview' = IF IsCurrent(r) THEN PictureOf(r) ELSE preview
  /\ Turn(r.mount, loop[r.mount], preview'.width, renders \ {r},
          IF IsCurrent(r) THEN "none" ELSE busy, since)
  /\ observing' = (observing \/ (IsCurrent(r) /\ mount # 0))
  /\ UNCHANGED <<document, opened, stack, answers, history, interacting, scale, comparing,
                 baseline, callVars, mount, mounts, sized, budget>>

-----------------------------------------------------------------------------
(* Edits.                                                                  *)

\* The engine carries an edit out and answers with its stack.
Carried(d, width, continuing) ==
  LET after == [version |-> stack[d].version + 1, width |-> width]
  IN  /\ stack' = [stack EXCEPT ![d] = after]
      /\ answers' = Append(answers, [stack |-> after, continuing |-> continuing])

\* Any method of the store that ends in adoptHistory, up to its await.
Edit(width, continuing) ==
  /\ document # 0 /\ budget.edits > 0
  /\ Carried(document, width, continuing)
  /\ budget' = [budget EXCEPT !.edits = @ - 1]
  /\ UNCHANGED <<storeVars, callVars, since, canvasVars, renders>>

\* adoptHistory, then the effects of [fitRequest] and of [viewport.scale].
Adopt ==
  /\ answers # <<>>
  /\ LET next == Head(answers).stack
         resized == next.width # history.width
         refit == resized /\ mount # 0 /\ document # 0 /\ sized
     IN  /\ history' = next
         /\ scale' = IF refit THEN Fitted(next.width) ELSE scale
         /\ loop' = IF document = 0 THEN loop
                    ELSE Armed(IF scale' = scale THEN "forced" ELSE "plain")
         /\ observing' = (observing \/ (mount # 0 /\ (resized \/ baseline # Nothing)))
  /\ answers' = Tail(answers)
  /\ baseline' = Nothing
  /\ interacting' = Head(answers).continuing
  /\ UNCHANGED <<document, opened, stack, renders, preview, comparing, busy, callVars, since, mount,
                 mounts, sized, budget>>

\* buildPortraitCoverage reads a small preview under the live preview's key.
TakeSample ==
  /\ document # 0 /\ budget.extras > 0
  /\ renders' = Ask(renders, "sample", 0, 1)
  /\ budget' = [budget EXCEPT !.extras = @ - 1]
  /\ UNCHANGED <<storeVars, callVars, since, canvasVars, stack, answers>>

\* Without its pixels, or with its layer refused, the tool is not built: the live
\* render it cancelled is not asked for again.
SampleRefused(r) ==
  /\ r.by = "sample"
  /\ renders' = renders \ {r}
  /\ since' = [since EXCEPT !.failed = @ \/ (r.doc = document /\ ~r.doomed)]
  /\ UNCHANGED <<storeVars, callVars, canvasVars, stack, answers, budget>>

\* With them its layer is added, unless the photograph was closed.
SampleRendered(r) ==
  /\ r.by = "sample" /\ r.started
  /\ renders' = renders \ {r}
  /\ IF r.doc = document THEN Carried(document, stack[document].width, FALSE)
     ELSE UNCHANGED <<stack, answers>>
  /\ UNCHANGED <<storeVars, callVars, since, canvasVars, budget>>

-----------------------------------------------------------------------------
(* The comparison view.                                                    *)

\* setComparing(true) up to its await.
CompareOn ==
  /\ budget.extras > 0
  /\ comparing' = TRUE
  /\ observing' = (observing \/ (mount # 0 /\ ~comparing))
  /\ renders' = IF document # 0 /\ preview # Nothing /\ baseline = Nothing
                THEN Ask(renders, "compare", 0, preview.width) ELSE renders
  /\ budget' = [budget EXCEPT !.extras = @ - 1]
  /\ UNCHANGED <<document, opened, stack, answers, history, interacting, scale, preview, baseline,
                 busy, callVars, since, mount, mounts, sized, loop>>

\* setComparing(false): the key came up, or the window lost the focus.
CompareOff ==
  /\ comparing
  /\ comparing' = FALSE
  /\ observing' = (observing \/ mount # 0)
  /\ UNCHANGED <<document, opened, history, interacting, scale, preview, baseline, busy, callVars,
                 since, engineVars, mount, mounts, sized, loop, budget>>

BeforeRefused(r) ==
  /\ r.by = "compare"
  /\ renders' = renders \ {r}
  /\ UNCHANGED <<storeVars, callVars, since, canvasVars, stack, answers, budget>>

\* setComparing after its await.
BeforeRendered(r) ==
  /\ r.by = "compare" /\ r.started
  /\ renders' = renders \ {r}
  /\ baseline' = IF r.doc = document THEN PictureOf(r) ELSE baseline
  /\ observing' = (observing \/ (mount # 0 /\ r.doc = document))
  /\ UNCHANGED <<document, opened, stack, answers, history, interacting, scale, preview, comparing,
                 busy, callVars, since, mount, mounts, sized, loop, budget>>

-----------------------------------------------------------------------------
(* The viewport, the canvas and the open photograph.                       *)

\* zoomAt, setViewport and ZoomHud, then the effect of [viewport.scale].
Zoom(s) ==
  /\ document # 0 /\ s # scale /\ budget.extras > 0
  /\ scale' = s
  /\ loop' = Armed("plain")
  /\ observing' = (observing \/ mount # 0)
  /\ budget' = [budget EXCEPT !.extras = @ - 1]
  /\ UNCHANGED <<document, opened, history, interacting, preview, comparing, baseline, busy,
                 callVars, since, engineVars, mount, mounts, sized>>

\* A resize observer reports once when it is attached.
ObserverReports ==
  /\ observing
  /\ LET first == ~sized /\ document # 0
     IN  /\ scale' = IF first THEN Fitted(history.width) ELSE scale
         /\ observing' = first
  /\ sized' = TRUE
  /\ loop' = Armed("plain")
  /\ UNCHANGED <<document, opened, history, interacting, preview, comparing, baseline, busy,
                 callVars, since, engineVars, mount, mounts, budget>>

\* Every effect runs when the canvas is mounted, that of [viewport.scale] last.
Mount ==
  /\ mount = 0
  /\ mount' = mounts + 1 /\ mounts' = mounts + 1
  /\ sized' = FALSE /\ observing' = TRUE
  /\ loop' = [loop EXCEPT ![mounts + 1].timer = "plain"]

Browse ==
  /\ mount # 0 /\ budget.extras > 0
  /\ budget' = [budget EXCEPT !.extras = @ - 1]
  /\ mount' = 0 /\ observing' = FALSE /\ sized' = FALSE
  /\ UNCHANGED <<storeVars, callVars, since, engineVars, mounts, loop>>

\* Initially the window shows the library as well.
LeaveLibrary ==
  document # 0 /\ Mount /\ UNCHANGED <<storeVars, callVars, since, engineVars, budget>>

\* openDialog, openPath, openProject and takeRecovery up to their first await.
\* The first photograph costs nothing of the bound.
OpenAsked ==
  /\ opening = "none" /\ (document # 0 => budget.extras > 0)
  /\ opening' = "asked" /\ busy' = "other" /\ since' = Spoken
  /\ budget' = IF document = 0 THEN budget ELSE [budget EXCEPT !.extras = @ - 1]
  /\ UNCHANGED <<document, opened, history, interacting, scale, preview, comparing, baseline, jobs,
                 canvasVars, engineVars>>

\* The dialog was dismissed, or the file was refused.
OpenGivenUp ==
  /\ opening = "asked"
  /\ opening' = "none" /\ busy' = "none" /\ since' = Spoken
  /\ UNCHANGED <<document, opened, history, interacting, scale, preview, comparing, baseline, jobs,
                 canvasVars, engineVars, budget>>

\* A photograph was opened: closeDocument, up to the answer of the engine.
Close ==
  /\ document # 0 /\ opening = "asked"
  /\ opening' = "closing"
  /\ document' = 0
  /\ history' = [version |-> 0, width |-> 0] /\ preview' = Nothing
  /\ observing' = (mount # 0)
  /\ UNCHANGED <<opened, interacting, scale, comparing, baseline, busy, jobs, since, engineVars,
                 mount, mounts, sized, loop, budget>>

\* openDialog and openPath after closeDocument, and adoptProject, which closes
\* nothing first: the engine answers in order, so the answers to the edits of the
\* old photograph were adopted.  Leaving the library mounts the canvas; on one
\* that is mounted the effects of [document], [fitRequest] and [viewport.scale]
\* run.
Opened ==
  /\ opening # "none" /\ answers = <<>> /\ opened < MaxExtras + 1
  /\ opening' = "none"
  /\ opened' = opened + 1
  /\ document' = opened' /\ history' = stack[opened']
  /\ preview' = Nothing /\ busy' = "none" /\ since' = Spoken
  /\ IF mount = 0 THEN scale' = Unit /\ Mount
     ELSE LET fitted == IF sized THEN Fitted(stack[opened'].width) ELSE Unit
          IN  /\ scale' = fitted
              /\ loop' = Armed(IF scale = Unit /\ fitted = Unit THEN "forced" ELSE "plain")
              /\ observing' = TRUE
              /\ UNCHANGED <<mount, mounts, sized>>
  /\ UNCHANGED <<interacting, comparing, baseline, jobs, engineVars, budget>>

-----------------------------------------------------------------------------
(* The other calls that hold busy: an export, faces, a segmentation, a fill. *)

JobBegins ==
  /\ document # 0 /\ budget.extras > 0
  /\ jobs' = jobs + 1 /\ busy' = "other" /\ since' = Spoken
  /\ budget' = [budget EXCEPT !.extras = @ - 1]
  /\ UNCHANGED <<document, opened, history, interacting, scale, preview, comparing, baseline,
                 opening, canvasVars, engineVars>>

\* Done or failed, and whatever photograph is open by then.
JobEnds ==
  /\ jobs > 0
  /\ jobs' = jobs - 1 /\ busy' = "none" /\ since' = Spoken
  /\ UNCHANGED <<document, opened, history, interacting, scale, preview, comparing, baseline,
                 opening, canvasVars, engineVars, budget>>

-----------------------------------------------------------------------------
Rendering(r) ==
  \/ StartRender(r) \/ LiveRefused(r) \/ LiveFailed(r) \/ LiveRendered(r) \/ SampleRefused(r)
  \/ SampleRendered(r) \/ BeforeRefused(r) \/ BeforeRendered(r)

Next ==
  \/ \E m \in Mounts : TimerFires(m)
  \/ \E r \in renders : Rendering(r)
  \/ \E w \in Widths, c \in BOOLEAN : Edit(w, c)
  \/ Adopt \/ TakeSample \/ CompareOn \/ CompareOff
  \/ \E s \in Scales : Zoom(s)
  \/ ObserverReports \/ Browse \/ LeaveLibrary
  \/ OpenAsked \/ OpenGivenUp \/ Close \/ Opened \/ JobBegins \/ JobEnds

Spec == Init /\ [][Next]_vars

-----------------------------------------------------------------------------
\* Type invariant.
TypeOK ==
  /\ opened \in {0} \cup Docs /\ document \in {0, opened} /\ stack \in [Docs -> Stack]
  /\ answers \in Seq([stack : Stack, continuing : BOOLEAN])
  /\ history \in [version : Versions, width : Widths \cup {0}]
  /\ interacting \in BOOLEAN /\ scale \in Nat \ {0}
  /\ preview \in Picture /\ baseline \in Picture /\ comparing \in BOOLEAN
  /\ busy \in {"none", "rendering", "other"} /\ opening \in {"none", "asked", "closing"}
  /\ jobs \in 0..MaxExtras /\ since \in Since
  /\ mounts \in {0} \cup Mounts /\ mount \in {0, mounts}
  /\ sized \in BOOLEAN /\ observing \in BOOLEAN
  /\ loop \in [Mounts -> Loop]
  /\ renders \subseteq Render
  /\ budget \in Budgets

OnScreen == document # 0 /\ mount # 0

\* Nothing is owed to the canvas: no answer, no render, no timer, no report.
Settled ==
  /\ OnScreen /\ answers = <<>> /\ renders = {} /\ ~observing
  /\ \A m \in Mounts : loop[m].timer = "none" /\ ~loop[m].inFlight

\* The picture on screen is of the open photograph, however late the renders of
\* the one before it answer (isCurrent in requestPreview).
PictureIsOfTheDocument == preview # Nothing => preview.doc = document

\* Of two pictures of a photograph, the later one shows no older stack: renders
\* overlap, and one that was superseded may still answer (previewToken).
PictureNeverGoesBack ==
  [][(preview # Nothing /\ preview'.doc = preview.doc) => preview.version <= preview'.version]_vars

\* When everything has come to rest the picture has the size the view and
\* interacting call for, whatever was zoomed, resized, absorbed by the loop of
\* runPreview or cancelled meanwhile: half of it when the last answer adopted was
\* a frame of a drag, which nothing clears when the hand comes off (adoptHistory),
\* and perhaps another when a render failed that nobody repeats (requestPreview,
\* buildPortraitCoverage).
SettledIsTheSizeAsked ==
  Settled /\ ~since.failed =>
    KeepsPicture(history.width, scale, interacting, preview.width, FALSE)

\* busy belongs to the newest render while no other call writes it: no render it
\* superseded clears it (requestPreview).  And nobody leaves it behind: at rest,
\* with the picture of the whole stack up, nothing asked for and no render failed,
\* it is cleared, whoever wrote it last.
BusyFollowsTheNewest ==
  /\ (\E r \in renders : r.by = "loop" /\ r.newest /\ r.doc = document) /\ ~since.spoke =>
       busy = "rendering"
  /\ /\ Settled /\ opening = "none" /\ jobs = 0 /\ ~since.failed
     /\ preview.version = stack[document].version
     => busy = "none"

=============================================================================
