----------------------------- MODULE EditTimeline -----------------------------
(***************************************************************************)
(* What a document's history promises (edit_stack.h): a list of operations *)
(* in effect and a list that redo brings back. Nothing is lost by moving   *)
(* between the two; a new operation abandons what was undone; a continued  *)
(* gesture rewrites the newest entry and no other.                         *)
(***************************************************************************)
EXTENDS Sequences

CONSTANT Operations

VARIABLES past, future

Init == past = <<>> /\ future = <<>>

Record(op) == past' = Append(past, op) /\ future' = <<>>

Amend(op) ==
  /\ past # <<>>
  /\ op.kind = past[Len(past)].kind
  /\ past' = [past EXCEPT ![Len(past)] = op]
  /\ future' = <<>>

\* Undo, redo and the history panel.
Move == past' \o future' = past \o future

Forget == past' = <<>> /\ future' = <<>>

Next ==
  \/ \E op \in Operations : Record(op) \/ Amend(op)
  \/ Move
  \/ Forget

Spec == Init /\ [][Next]_<<past, future>>

===============================================================================
