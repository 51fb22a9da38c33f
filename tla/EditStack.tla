------------------------------- MODULE EditStack -------------------------------
(***************************************************************************)
(* A document's history in the engine (edit/edit_stack.cpp), the handlers  *)
(* that change it (Engine::ApplyEdit and its kin, all on the engine's      *)
(* reader thread, so one after another), and the control that the user     *)
(* drags (Slider.tsx), whose frames ask to replace the entry on top.       *)
(***************************************************************************)
EXTENDS Geometry, Layers

CONSTANTS
  Width, Height,  \* of the photograph
  Requests,       \* the operations the renderer sends
  Controls,       \* sliders: [kind, target] of the operations each one sends
  NoControl,
  MaxEntries,     \* bound on the length of the history
  MaxId           \* bound on the identifiers given

ASSUME PhotoAssumption == Width \in Nat \ {0} /\ Height \in Nat \ {0}
ASSUME ControlAssumption == NoControl \notin Controls
\* The renderer adds no second background, though the engine would take one
\* (layer.cpp: LayerKindFromName), and an index is a number.
ASSUME RequestAssumption ==
  \A op \in Requests :
    /\ op.kind = "addLayer" => op.layer \in LayerKinds
    /\ op.kind = "reorderLayer" => op.index \in Int
\* Of the operations that shape the picture, only the angle has a slider.
ASSUME SliderAssumption ==
  \A c \in Controls : c.kind \notin {"rotate", "flipHorizontal", "flipVertical", "resize", "crop"}
ASSUME BoundAssumption == MaxEntries \in Nat /\ MaxId \in Nat

VARIABLES
  entries,    \* operations_: [id, op]
  cursor,     \* cursor_
  nextId,     \* next_id_
  control,    \* the slider under the pointer
  dragging,   \* its dragging flag: the next frame continues the gesture
  disturbed,  \* history: since the first frame something else reached the stack,
              \* or a frame was refused
  issued      \* history: every id given since the document was opened

stackVars == <<entries, cursor, nextId, issued>>
vars == <<entries, cursor, nextId, control, dragging, disturbed, issued>>

\* The operations up to a point of the history.
Point(n) == [i \in 1 .. n |-> entries[i].op]

Init ==
  /\ entries = <<>> /\ cursor = 0 /\ nextId = 1
  /\ control = NoControl /\ dragging = FALSE /\ disturbed = FALSE
  /\ issued = {}

-----------------------------------------------------------------------------
(* The stack.                                                              *)

\* Broken variant: nothing is checked.
AcceptsAnything(op) == TRUE

\* ApplyEdit's check: the stack as it stands with the operation on top.
Accepts(op) ==
  ~IsEmpty(FoldGeometry(Append(Point(cursor), op), Width, Height).frame)

Kept == SubSeq(entries, 1, cursor)

\* The newest entry in effect is of the same kind.
TopAlike(op) == cursor > 0 /\ entries[cursor].op.kind = op.kind

Rewrite(op) ==
  /\ entries' = [Kept EXCEPT ![cursor].op = op]
  /\ UNCHANGED <<cursor, nextId, issued>>

\* Broken variant: what was undone stays behind the new entry.
PushKeepingTail(op) ==
  /\ Len(entries) < MaxEntries /\ nextId < MaxId
  /\ entries' = InsertAt(entries, cursor + 1, [id |-> nextId, op |-> op])
  /\ cursor' = cursor + 1
  /\ nextId' = nextId + 1
  /\ issued' = issued \cup {nextId}

Push(op) ==
  /\ cursor < MaxEntries /\ nextId < MaxId
  /\ entries' = Append(Kept, [id |-> nextId, op |-> op])
  /\ cursor' = cursor + 1
  /\ nextId' = nextId + 1
  /\ issued' = issued \cup {nextId}

Apply(op, replaceTop) ==
  /\ Accepts(op)
  /\ \/ replaceTop /\ TopAlike(op) /\ Rewrite(op)
     \/ ~(replaceTop /\ TopAlike(op)) /\ Push(op)

\* Anything but a frame of the slider under the pointer.
Elsewhere == disturbed' = dragging /\ UNCHANGED <<control, dragging>>

\* A button, a shortcut, a panel: one operation, not a gesture.
Edit(op) ==
  /\ Apply(op, FALSE)
  /\ Elsewhere

Undo ==
  /\ cursor > 0
  /\ cursor' = cursor - 1
  /\ UNCHANGED <<entries, nextId, issued>>
  /\ Elsewhere

Redo ==
  /\ cursor < Len(entries)
  /\ cursor' = cursor + 1
  /\ UNCHANGED <<entries, nextId, issued>>
  /\ Elsewhere

\* The history panel: past the end is the end.
Seek(n) ==
  /\ cursor' = Least(n, Len(entries))
  /\ UNCHANGED <<entries, nextId, issued>>
  /\ Elsewhere

\* Broken variant: identifiers start again.
ResetStartsAgain ==
  /\ entries' = <<>> /\ cursor' = 0 /\ nextId' = 1
  /\ UNCHANGED issued
  /\ Elsewhere

Reset ==
  /\ entries' = <<>> /\ cursor' = 0
  /\ UNCHANGED <<nextId, issued>>
  /\ Elsewhere

\* The project is saved and opened again: Load numbers the entries afresh.
Reopen ==
  /\ entries' = [i \in DOMAIN entries |-> [id |-> i, op |-> entries[i].op]]
  /\ nextId' = Len(entries) + 1
  /\ issued' = 1 .. Len(entries)
  /\ UNCHANGED cursor
  /\ control' = NoControl /\ dragging' = FALSE /\ disturbed' = FALSE

-----------------------------------------------------------------------------
(* The slider.                                                             *)

Grab(c) ==
  /\ control = NoControl
  /\ control' = c /\ dragging' = FALSE /\ disturbed' = FALSE
  /\ UNCHANGED stackVars

\* handleChange: the flag says whether this frame continues the gesture, and is
\* raised without waiting to hear whether the engine took the frame.
Frame(op) ==
  /\ control # NoControl
  /\ op.kind = control.kind /\ op.target = control.target
  /\ IF Accepts(op) THEN Apply(op, dragging) /\ UNCHANGED disturbed
                    ELSE disturbed' = TRUE /\ UNCHANGED stackVars
  /\ dragging' = TRUE
  /\ UNCHANGED control

\* finish: pointer up, cancel, blur, or any key going up.
Finish ==
  /\ control # NoControl
  /\ \/ control' = NoControl
     \/ UNCHANGED control
  /\ dragging' = FALSE /\ disturbed' = FALSE
  /\ UNCHANGED stackVars

SliderRequests ==
  {op \in Requests : \E c \in Controls : op.kind = c.kind /\ op.target = c.target}

Next ==
  \/ \E op \in Requests : Edit(op)
  \/ \E op \in SliderRequests : Frame(op)
  \/ Undo \/ Redo \/ Reset \/ Reopen
  \/ \E n \in 0 .. MaxEntries : Seek(n)
  \/ \E c \in Controls : Grab(c)
  \/ Finish

Spec == Init /\ [][Next]_vars

-----------------------------------------------------------------------------
(* Properties.                                                             *)

Entry == [id : Nat \ {0}, op : Requests]

TypeOK ==
  /\ entries \in Seq(Entry)
  /\ cursor \in 0 .. Len(entries)
  /\ nextId \in Nat \ {0}
  /\ control \in Controls \cup {NoControl}
  /\ dragging \in BOOLEAN /\ disturbed \in BOOLEAN
  /\ issued \subseteq 1 .. (nextId - 1)

\* Identifiers grow along the history, so each names one entry and a rewritten
\* entry keeps its place (edit_stack.cpp: "the id is kept so the history entry
\* the UI is showing stays the same one").
IdsInOrder ==
  /\ \A i, j \in DOMAIN entries : i < j => entries[i].id < entries[j].id
  /\ \A i \in DOMAIN entries : entries[i].id < nextId

\* An identifier that left the history, by an edit past an undo or a reset,
\* never comes back to name something else (operation.h: a "stable identifier
\* ... so the host can address history entries").
IdsNeverComeBack ==
  [][~Reopen =>
       \A i \in DOMAIN entries' :
         entries'[i].id \in issued => \E j \in DOMAIN entries : entries[j].id = entries'[i].id]_vars

\* Wherever undo, redo and the history panel stop, there is something to
\* render, though each operation was checked once, when it was applied.
EveryPointRenders ==
  \A n \in 0 .. Len(entries) : ~IsEmpty(FoldGeometry(Point(n), Width, Height).frame)

\* At every point the background is at the bottom as it was decoded, and each
\* layer has an identifier of its own (layer.h: the background "cannot be
\* removed, reordered or adjusted").
EveryPointHasItsLayers ==
  \A n \in 0 .. Len(entries) : WellFormed(FoldLayers(Point(n)))

\* A gesture nothing else interrupts is one entry: every frame after the first
\* rewrites the newest entry, whatever was undone before it, and no other
\* (edit_stack.h: "the gesture becomes a single step to undo").
GestureIsOneEntry ==
  [][\A op \in SliderRequests :
       (Frame(op) /\ dragging /\ ~disturbed) =>
         /\ Len(entries') = Len(entries) /\ cursor' = cursor /\ cursor = Len(entries)
         /\ \A i \in DOMAIN entries : entries'[i].id = entries[i].id
         /\ \A i \in 1 .. (Len(entries) - 1) : entries'[i] = entries[i]]_vars

Undone == [i \in 1 .. (Len(entries) - cursor) |-> entries[cursor + i].op]

Timeline ==
  INSTANCE EditTimeline WITH Operations <- Requests, past <- Point(cursor), future <- Undone

\* The list with a cursor is the history that edit_stack.h describes. A project
\* saved and opened again is the same history.
IsATimeline == Timeline!Spec

================================================================================
