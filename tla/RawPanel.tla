------------------------------- MODULE RawPanel -------------------------------
(***************************************************************************)
(* The white balance of a raw file (components/RawPanel.tsx, Slider.tsx):  *)
(* two knobs that follow the hand on a local copy, and an edit with both   *)
(* values when the hand lets go, answered about a second later.  Each edit *)
(* carries the value of the knob that was not touched, so what that knob   *)
(* is taken to be is the matter.                                           *)
(***************************************************************************)
EXTENDS Integers, Sequences, SequencesExt

CONSTANTS
  Values,     \* what a knob can say
  AsShot,     \* what the camera chose, for either knob
  NoCopy,      \* null
  MaxBalances     \* bound: edits on their way

Knobs == {"temperature", "tint"}

ASSUME RawAssumption ==
  /\ AsShot \in Values /\ NoCopy \notin [Knobs -> Values] /\ MaxBalances \in Nat

VARIABLES
  balance,   \* history.raw: custom, and the value of each knob
  copy,      \* the local copy, NoCopy when there is none
  hand,      \* the knob being held, "none" when none is
  moved,     \* moved.current of its slider
  awaited,   \* edits on their way, oldest first
  meant,     \* history: what each knob was last set to
  crowded    \* history: an answer came while a knob was held or another edit was on
             \* its way, or a knob was taken while a reset was, or an edit failed

rawVars == <<balance, copy, hand, moved, awaited, meant, crowded>>

Off == [k \in Knobs |-> AsShot]

RawInit ==
  /\ balance = [custom |-> FALSE, knobs |-> Off]
  /\ copy = NoCopy /\ hand = "none" /\ moved = FALSE /\ awaited = <<>>
  /\ meant = Off /\ crowded = FALSE

-----------------------------------------------------------------------------
KnobsShown == IF copy = NoCopy THEN balance.knobs ELSE copy

Send(custom, knobs, reset) ==
  /\ Len(awaited) < MaxBalances
  /\ awaited' = Append(awaited, [custom |-> custom, knobs |-> knobs, reset |-> reset])

Resetting == \E i \in 1 .. Len(awaited) : awaited[i].reset

Hold(k) ==
  /\ hand = "none"
  /\ hand' = k /\ crowded' = (crowded \/ Resetting)
  /\ UNCHANGED <<balance, copy, moved, awaited, meant>>

\* Broken variant: the knob that is not held is read from the document.
DragFromDocument(k, value) == copy' = [balance.knobs EXCEPT ![k] = value]

\* drag: from the local copy, or from the document as it was last adopted.
DragKnob(k, value) == copy' = [KnobsShown EXCEPT ![k] = value]

MoveKnob(value) ==
  /\ hand # "none" /\ value # KnobsShown[hand]
  /\ DragKnob(hand, value)
  /\ moved' = TRUE /\ meant' = [meant EXCEPT ![hand] = value]
  /\ UNCHANGED <<balance, hand, awaited, crowded>>

\* finish: an edit only if something moved.
LetGo ==
  /\ hand # "none"
  /\ hand' = "none" /\ moved' = FALSE
  /\ IF moved THEN Send(TRUE, KnobsShown, FALSE) ELSE UNCHANGED awaited
  /\ UNCHANGED <<balance, copy, meant, crowded>>

\* onReset: one knob back to what the camera chose.
ResetKnob(k) ==
  /\ hand = "none"
  /\ Send(TRUE, [KnobsShown EXCEPT ![k] = AsShot], TRUE)
  /\ meant' = [meant EXCEPT ![k] = AsShot] /\ crowded' = (crowded \/ Resetting)
  /\ UNCHANGED <<balance, copy, hand, moved>>

\* "As in the camera".
ResetRaw ==
  /\ hand = "none" /\ balance.custom
  /\ Send(FALSE, Off, TRUE)
  /\ meant' = Off
  /\ UNCHANGED <<balance, copy, hand, moved, crowded>>

\* The answer of the oldest edit, and the effect on what it changed.  One that
\* fails changes nothing and leaves the local copy.
RawAnswer ==
  /\ awaited # <<>>
  /\ awaited' = Tail(awaited)
  /\ \/ /\ balance' = [custom |-> Head(awaited).custom, knobs |-> Head(awaited).knobs]
        /\ copy' = IF balance' = balance THEN copy ELSE NoCopy
        /\ crowded' = (crowded \/ hand # "none" \/ Len(awaited) > 1)
     \/ UNCHANGED <<balance, copy>> /\ crowded' = TRUE
  /\ UNCHANGED <<hand, moved, meant>>

RawNext ==
  \/ \E k \in Knobs : Hold(k) \/ ResetKnob(k)
  \/ \E value \in Values : MoveKnob(value)
  \/ LetGo \/ ResetRaw \/ RawAnswer

-----------------------------------------------------------------------------
RawTypeOK ==
  /\ balance \in [custom : BOOLEAN, knobs : [Knobs -> Values]]
  /\ copy = NoCopy \/ copy \in [Knobs -> Values]
  /\ hand \in Knobs \cup {"none"} /\ moved \in BOOLEAN /\ crowded \in BOOLEAN
  /\ awaited \in Seq([custom : BOOLEAN, knobs : [Knobs -> Values], reset : BOOLEAN])
  /\ meant \in [Knobs -> Values]

\* The last edit says of both knobs what each was last set to, however quickly one
\* was taken after the other, and once it is answered so does the document: turning
\* the second knob does not turn the first back.  (Where an answer dropped the
\* local copy with another edit on its way, or a reset is on its way, it does.)
KnobsKeepTheirWord ==
  ~crowded /\ hand = "none" =>
    meant = (IF awaited = <<>> THEN balance ELSE Last(awaited)).knobs
=============================================================================
