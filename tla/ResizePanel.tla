------------------------------ MODULE ResizePanel ------------------------------
(***************************************************************************)
(* The size fields of the side panel (components/ResizePanel.tsx) over a   *)
(* document whose size comes back with every answer of the engine: a draft *)
(* while someone types, a lock that makes one field follow the other, an   *)
(* edit when a field is left.  Answers come in the order of the edits; any *)
(* of them may fail.                                                       *)
(***************************************************************************)
EXTENDS Integers, Sequences

CONSTANTS
  Originals,   \* sizes that other edits, undone or done, give the document
  MAX_SIDE,
  FACTORS,
  Typed,       \* what can be in a field: a number, or not
  NotANumber,  \* text parseInt makes nothing of
  MaxResizes      \* bound: edits on their way

ASSUME ResizeAssumption ==
  /\ MAX_SIDE \in Nat \ {0} /\ FACTORS \subseteq Nat \ {0}
  /\ Typed \ {NotANumber} \subseteq Nat
  /\ Originals \subseteq [width : 1 .. MAX_SIDE, height : 1 .. MAX_SIDE]
  /\ MaxResizes \in Nat

VARIABLES
  size,     \* the document's, as the store has it
  locked, draft, focus,
  asks,     \* edits on their way, oldest first
  resizeFailed  \* history: an edit failed

resizeVars == <<size, locked, draft, focus, asks, resizeFailed>>

NoDraft == [width |-> NotANumber, height |-> NotANumber, on |-> FALSE]

ResizeInit ==
  /\ size \in Originals
  /\ locked = TRUE /\ draft = NoDraft /\ focus = "none"
  /\ asks = <<>> /\ resizeFailed = FALSE

-----------------------------------------------------------------------------
Other(axis) == IF axis = "width" THEN "height" ELSE "width"

Shown == IF draft.on THEN draft ELSE [width |-> size.width, height |-> size.height, on |-> TRUE]

\* Broken variant: a side may become nothing.
ClampDown(n) == IF n > MAX_SIDE THEN MAX_SIDE ELSE n

Clamp(n) == IF n > MAX_SIDE THEN MAX_SIDE ELSE IF n < 1 THEN 1 ELSE n

\* clamp(n * a / b), rounded half up.
Scaled(n, a, b) == Clamp((2 * n * a + b) \div (2 * b))

\* A field is entered; the one left commits.
Focus(axis) ==
  /\ focus = "none"
  /\ focus' = axis
  /\ UNCHANGED <<size, locked, draft, asks, resizeFailed>>

\* edit
Type(text) ==
  /\ focus # "none"
  /\ draft' = LET next == [Shown EXCEPT ![focus] = text]
              IN  IF locked /\ text # NotANumber /\ text # 0
                  THEN [next EXCEPT ![Other(focus)] = Scaled(text, size[Other(focus)], size[focus])]
                  ELSE next
  /\ UNCHANGED <<size, locked, focus, asks, resizeFailed>>

Ask(w, h) == asks' = Append(asks, [op |-> "resize", width |-> w, height |-> h])

\* commit: when a field is left, by a click elsewhere or by Enter.  The draft of
\* an edit that is asked for stays until the size changes.
CommitDraft ==
  /\ focus # "none" /\ Len(asks) < MaxResizes
  /\ focus' = "none"
  /\ LET nothing == \/ NotANumber \in {draft.width, draft.height}
                    \/ Clamp(draft.width) = size.width /\ Clamp(draft.height) = size.height
     IN  IF nothing THEN draft' = NoDraft /\ UNCHANGED asks
         ELSE Ask(Clamp(draft.width), Clamp(draft.height)) /\ UNCHANGED draft
  /\ UNCHANGED <<size, locked, resizeFailed>>

\* Escape: the draft goes and the field keeps the focus.
Escape ==
  /\ focus # "none" /\ draft.on
  /\ draft' = NoDraft
  /\ UNCHANGED <<size, locked, focus, asks, resizeFailed>>

Lock ==
  /\ focus = "none"
  /\ locked' = ~locked
  /\ UNCHANGED <<size, draft, focus, asks, resizeFailed>>

\* scaleBy, off when either side would pass the limit.
ScaleBy(factor) ==
  /\ focus = "none" /\ Len(asks) < MaxResizes
  /\ size.width * factor <= MAX_SIDE /\ size.height * factor <= MAX_SIDE
  /\ factor # 1
  /\ Ask(Clamp(size.width * factor), Clamp(size.height * factor))
  /\ UNCHANGED <<size, locked, draft, focus, resizeFailed>>

\* A crop, a turn, an undo: the shortcuts work inside a field too.
EditElsewhere ==
  /\ Len(asks) < MaxResizes
  /\ \E s \in Originals : asks' = Append(asks, [op |-> "other", width |-> s.width, height |-> s.height])
  /\ UNCHANGED <<size, locked, draft, focus, resizeFailed>>

\* Broken variant: the draft outlives a change of size.
AdoptedKeepsDraft(s) == size' = s /\ UNCHANGED draft

\* adoptHistory, and the effect on the width and the height.
Adopted(s) ==
  /\ size' = s
  /\ draft' = IF s = size THEN draft ELSE NoDraft

ResizeAnswer ==
  /\ asks # <<>>
  /\ asks' = Tail(asks)
  /\ \/ Adopted([width |-> Head(asks).width, height |-> Head(asks).height]) /\ UNCHANGED resizeFailed
     \/ resizeFailed' = TRUE /\ UNCHANGED <<size, draft>>
  /\ UNCHANGED <<locked, focus>>

ResizeNext ==
  \/ \E axis \in {"width", "height"} : Focus(axis)
  \/ \E text \in Typed : Type(text)
  \/ CommitDraft \/ Escape \/ Lock \/ EditElsewhere \/ ResizeAnswer
  \/ \E factor \in FACTORS : ScaleBy(factor)

-----------------------------------------------------------------------------
\* "Undo has to be able to move them" (ResizePanel.tsx:26): with nothing on its
\* way and no field in use the fields show the document's size, whatever was
\* typed, asked for, undone or overtaken before - unless an edit failed, whose
\* draft stays.
FieldsComeBack == asks = <<>> /\ focus = "none" /\ ~resizeFailed => ~draft.on

\* The engine is never asked for a side it would have to change.
AsksAreLegal ==
  \A i \in 1 .. Len(asks) :
    asks[i].op = "resize" => {asks[i].width, asks[i].height} \subseteq 1 .. MAX_SIDE

ResizeTypeOK ==
  /\ size \in [width : 1 .. MAX_SIDE, height : 1 .. MAX_SIDE]
  /\ locked \in BOOLEAN /\ resizeFailed \in BOOLEAN /\ focus \in {"none", "width", "height"}
=============================================================================
