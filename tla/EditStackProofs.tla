--------------------------- MODULE EditStackProofs ---------------------------
(***************************************************************************)
(* What EditStack promises for every photograph, every set of operations   *)
(* and histories of any length: the list and its cursor first, where what  *)
(* an operation does to the picture does not matter, then the geometry and *)
(* the layers of every point of the history.  The layers' facts then carry *)
(* what EditorStore promises of the panel that shows such a stack.         *)
(***************************************************************************)
EXTENDS EditStack, EditorStore, SequenceTheorems, WellFoundedInduction, TLAPS

\* While a gesture goes on undisturbed, its entry is the newest one.
GestureOnTop ==
  (dragging /\ ~disturbed) =>
    /\ control # NoControl
    /\ cursor = Len(entries) /\ cursor > 0
    /\ entries[cursor].op.kind = control.kind

IInv == TypeOK /\ IdsInOrder /\ GestureOnTop

-----------------------------------------------------------------------------
(* The entries in effect.                                                  *)

\* Cutting the redo tail keeps the entries in effect as they are.
LEMMA KeptFacts ==
  ASSUME TypeOK
  PROVE  /\ Kept \in Seq(Entry)
         /\ Len(Kept) = cursor
         /\ \A i \in 1 .. cursor : Kept[i] = entries[i]
<1>1. entries \in Seq(Entry) /\ cursor \in 0 .. Len(entries)
  BY DEF TypeOK
<1>2. /\ SubSeq(entries, 1, cursor) \in Seq(Entry)
      /\ Len(SubSeq(entries, 1, cursor)) = cursor
      /\ \A i \in 1 .. cursor : SubSeq(entries, 1, cursor)[i] = entries[i]
  BY <1>1
<1> QED BY <1>2 DEF Kept

\* An entry is an identifier and one of the operations.
LEMMA EntryFacts ==
  ASSUME TypeOK, NEW i \in 1 .. Len(entries)
  PROVE  /\ entries[i] \in Entry
         /\ entries[i].id \in Nat \ {0}
         /\ entries[i].op \in Requests
         /\ entries[i] = [id |-> entries[i].id, op |-> entries[i].op]
<1>1. entries \in Seq(Entry)
  BY DEF TypeOK
<1>2. entries[i] \in Entry
  BY <1>1
<1> QED BY <1>2 DEF Entry

LEMMA SliderRequestsAreRequests ==
  ASSUME NEW op \in SliderRequests
  PROVE  op \in Requests
BY DEF SliderRequests

-----------------------------------------------------------------------------
(* What Push and Rewrite leave behind.                                     *)

LEMMA PushFacts ==
  ASSUME TypeOK, NEW op \in Requests, Push(op)
  PROVE  /\ entries' \in Seq(Entry)
         /\ Len(entries') = cursor + 1 /\ cursor' = cursor + 1
         /\ \A i \in 1 .. cursor : entries'[i] = entries[i]
         /\ entries'[cursor + 1] = [id |-> nextId, op |-> op]
         /\ nextId' = nextId + 1
         /\ issued' = issued \cup {nextId}
<1> DEFINE e == [id |-> nextId, op |-> op]
<1>1. e \in Entry
  BY DEF TypeOK, Entry
<1>2. /\ Kept \in Seq(Entry) /\ Len(Kept) = cursor
      /\ \A i \in 1 .. cursor : Kept[i] = entries[i]
  BY KeptFacts
<1>3. /\ entries' = Append(Kept, e) /\ cursor' = cursor + 1
      /\ nextId' = nextId + 1 /\ issued' = issued \cup {nextId}
  BY DEF Push
<1>4. cursor \in Nat
  BY DEF TypeOK
<1> HIDE DEF e
<1>5. /\ Append(Kept, e) \in Seq(Entry)
      /\ Len(Append(Kept, e)) = cursor + 1
      /\ \A i \in 1 .. cursor : Append(Kept, e)[i] = Kept[i]
      /\ Append(Kept, e)[cursor + 1] = e
  BY <1>1, <1>2, <1>4
<1> QED BY <1>2, <1>3, <1>5 DEF e

LEMMA RewriteFacts ==
  ASSUME TypeOK, NEW op \in Requests, TopAlike(op), Rewrite(op)
  PROVE  /\ entries' \in Seq(Entry)
         /\ cursor > 0
         /\ Len(entries') = cursor /\ cursor' = cursor
         /\ \A i \in 1 .. (cursor - 1) : entries'[i] = entries[i]
         /\ entries'[cursor] = [id |-> entries[cursor].id, op |-> op]
         /\ UNCHANGED <<nextId, issued>>
<1>1. cursor \in 1 .. Len(entries)
  BY DEF TypeOK, TopAlike
<1>2. /\ entries[cursor] \in Entry /\ entries[cursor].id \in Nat \ {0}
      /\ entries[cursor] = [id |-> entries[cursor].id, op |-> entries[cursor].op]
  BY <1>1, EntryFacts
<1> DEFINE e == [id |-> entries[cursor].id, op |-> op]
<1>3. e \in Entry
  BY <1>2 DEF Entry
<1>4. /\ Kept \in Seq(Entry) /\ Len(Kept) = cursor
      /\ \A i \in 1 .. cursor : Kept[i] = entries[i]
  BY KeptFacts
<1>5. [entries[cursor] EXCEPT !.op = op] = e
  BY <1>2 DEF Entry
<1>6. [Kept[cursor] EXCEPT !.op = op] = e
  BY <1>1, <1>4, <1>5
<1>7. entries' = [Kept EXCEPT ![cursor] = e]
  BY <1>6 DEF Rewrite
<1>8. UNCHANGED <<cursor, nextId, issued>>
  BY DEF Rewrite
<1> HIDE DEF e
<1>9. /\ [Kept EXCEPT ![cursor] = e] \in Seq(Entry)
      /\ Len([Kept EXCEPT ![cursor] = e]) = cursor
      /\ \A i \in 1 .. (cursor - 1) : [Kept EXCEPT ![cursor] = e][i] = Kept[i]
      /\ [Kept EXCEPT ![cursor] = e][cursor] = e
  BY <1>1, <1>3, <1>4
<1>10. \A i \in 1 .. (cursor - 1) : entries'[i] = entries[i]
  BY <1>1, <1>4, <1>7, <1>9
<1> QED BY <1>1, <1>7, <1>8, <1>9, <1>10 DEF e

-----------------------------------------------------------------------------
(* The invariant.                                                          *)

LEMMA InitIsInvariant == Init => IInv
<1> SUFFICES ASSUME Init PROVE IInv
  OBVIOUS
<1>1. TypeOK
  <2>1. entries \in Seq(Entry) /\ Len(entries) = 0
    BY DEF Init
  <2>2. cursor \in 0 .. Len(entries) /\ nextId \in Nat \ {0}
    BY <2>1 DEF Init
  <2>3. /\ control \in Controls \cup {NoControl}
        /\ dragging \in BOOLEAN /\ disturbed \in BOOLEAN
        /\ issued \subseteq 1 .. (nextId - 1)
    BY DEF Init
  <2> QED BY <2>1, <2>2, <2>3 DEF TypeOK
<1>2. IdsInOrder
  BY DEF Init, IdsInOrder
<1>3. GestureOnTop
  BY DEF Init, GestureOnTop
<1> QED BY <1>1, <1>2, <1>3 DEF IInv

\* An entry pushed has the largest identifier so far.
LEMMA PushKeepsTheStack ==
  ASSUME TypeOK, IdsInOrder, NEW op \in Requests, Push(op)
  PROVE  /\ entries' \in Seq(Entry) /\ cursor' \in 0 .. Len(entries')
         /\ nextId' \in Nat \ {0} /\ issued' \subseteq 1 .. (nextId' - 1)
         /\ IdsInOrder'
<1>1. /\ entries \in Seq(Entry) /\ cursor \in 0 .. Len(entries)
      /\ nextId \in Nat \ {0} /\ issued \subseteq 1 .. (nextId - 1)
  BY DEF TypeOK
<1>2. /\ entries' \in Seq(Entry)
      /\ Len(entries') = cursor + 1 /\ cursor' = cursor + 1
      /\ \A i \in 1 .. cursor : entries'[i] = entries[i]
      /\ entries'[cursor + 1] = [id |-> nextId, op |-> op]
      /\ nextId' = nextId + 1
      /\ issued' = issued \cup {nextId}
  BY PushFacts
<1>3. \A i, j \in 1 .. Len(entries) : i < j => entries[i].id < entries[j].id
  BY <1>1 DEF IdsInOrder
<1>4. \A i \in 1 .. Len(entries) : entries[i].id < nextId
  BY <1>1 DEF IdsInOrder
<1>5. entries'[cursor + 1].id = nextId
  BY <1>2
<1>6. \A i \in 1 .. Len(entries) : entries[i].id \in Nat
  BY EntryFacts
<1>7. \A i, j \in 1 .. (cursor + 1) : i < j => entries'[i].id < entries'[j].id
  <2> SUFFICES ASSUME NEW i \in 1 .. (cursor + 1), NEW j \in 1 .. (cursor + 1), i < j
               PROVE  entries'[i].id < entries'[j].id
    OBVIOUS
  <2>1. i \in 1 .. cursor /\ i \in 1 .. Len(entries) /\ entries'[i] = entries[i]
    BY <1>1, <1>2
  <2>2. CASE j = cursor + 1
    BY <1>4, <1>5, <2>1, <2>2
  <2>3. CASE j \in 1 .. cursor
    <3>1. j \in 1 .. Len(entries) /\ entries'[j] = entries[j]
      BY <1>1, <1>2, <2>3
    <3> QED BY <1>3, <2>1, <3>1
  <2> QED BY <1>1, <2>2, <2>3
<1>8. \A i \in 1 .. (cursor + 1) : entries'[i].id < nextId + 1
  <2> SUFFICES ASSUME NEW i \in 1 .. (cursor + 1)
               PROVE  entries'[i].id < nextId + 1
    OBVIOUS
  <2>1. CASE i = cursor + 1
    BY <1>1, <1>5, <2>1
  <2>2. CASE i \in 1 .. cursor
    <3>1. i \in 1 .. Len(entries) /\ entries'[i] = entries[i]
      BY <1>1, <1>2, <2>2
    <3>2. entries[i].id < nextId /\ entries[i].id \in Nat
      BY <1>4, <1>6, <3>1
    <3> QED BY <1>1, <3>1, <3>2
  <2> QED BY <1>1, <2>1, <2>2
<1>9. DOMAIN entries' = 1 .. (cursor + 1)
  BY <1>2
<1>10. IdsInOrder'
  BY <1>2, <1>7, <1>8, <1>9 DEF IdsInOrder
<1>11. issued' \subseteq 1 .. (nextId' - 1) /\ nextId' \in Nat \ {0}
  <2>1. nextId' = nextId + 1 /\ issued' = issued \cup {nextId}
    BY <1>2
  <2>2. nextId' \in Nat \ {0}
    BY <1>1, <2>1
  <2>3. ASSUME NEW x \in issued' PROVE x \in 1 .. (nextId' - 1)
    <3>1. x = nextId \/ x \in 1 .. (nextId - 1)
      BY <1>1, <2>1, <2>3
    <3> QED BY ONLY <1>1, <2>1, <3>1
  <2> QED BY <2>2, <2>3
<1>12. cursor' \in 0 .. Len(entries')
  BY <1>1, <1>2
<1> QED BY <1>2, <1>10, <1>11, <1>12

\* An entry rewritten keeps its identifier and its place.
LEMMA RewriteKeepsTheStack ==
  ASSUME TypeOK, IdsInOrder, NEW op \in Requests, TopAlike(op), Rewrite(op)
  PROVE  /\ entries' \in Seq(Entry) /\ cursor' \in 0 .. Len(entries')
         /\ nextId' \in Nat \ {0} /\ issued' \subseteq 1 .. (nextId' - 1)
         /\ IdsInOrder'
<1>1. /\ entries \in Seq(Entry) /\ cursor \in 0 .. Len(entries)
      /\ nextId \in Nat \ {0} /\ issued \subseteq 1 .. (nextId - 1)
  BY DEF TypeOK
<1>2. /\ entries' \in Seq(Entry)
      /\ cursor > 0
      /\ Len(entries') = cursor /\ cursor' = cursor
      /\ \A i \in 1 .. (cursor - 1) : entries'[i] = entries[i]
      /\ entries'[cursor] = [id |-> entries[cursor].id, op |-> op]
      /\ UNCHANGED <<nextId, issued>>
  BY RewriteFacts
<1>3. \A i \in 1 .. cursor : entries'[i].id = entries[i].id
  <2> SUFFICES ASSUME NEW i \in 1 .. cursor PROVE entries'[i].id = entries[i].id
    OBVIOUS
  <2>1. CASE i = cursor
    BY <1>2, <2>1
  <2>2. CASE i \in 1 .. (cursor - 1)
    BY <1>2, <2>2
  <2> QED BY <1>1, <2>1, <2>2
<1>4. DOMAIN entries' = 1 .. cursor /\ 1 .. cursor \subseteq DOMAIN entries
  BY <1>1, <1>2
<1>5. IdsInOrder'
  BY <1>2, <1>3, <1>4 DEF IdsInOrder
<1>6. cursor' \in 0 .. Len(entries')
  BY <1>1, <1>2
<1> QED BY <1>1, <1>2, <1>5, <1>6

\* Whatever Apply does with an operation, the stack stays in order.
LEMMA ApplyKeepsTheStack ==
  ASSUME TypeOK, IdsInOrder, NEW op \in Requests, NEW replaceTop \in BOOLEAN,
         Apply(op, replaceTop)
  PROVE  /\ entries' \in Seq(Entry) /\ cursor' \in 0 .. Len(entries')
         /\ nextId' \in Nat \ {0} /\ issued' \subseteq 1 .. (nextId' - 1)
         /\ IdsInOrder'
<1>1. CASE TopAlike(op) /\ Rewrite(op)
  BY <1>1, RewriteKeepsTheStack
<1>2. CASE Push(op)
  BY <1>2, PushKeepsTheStack
<1> QED BY <1>1, <1>2 DEF Apply

\* After a frame the newest entry is the frame's.
LEMMA ApplyIsNewest ==
  ASSUME TypeOK, NEW op \in Requests, NEW replaceTop \in BOOLEAN, Apply(op, replaceTop)
  PROVE  /\ cursor' = Len(entries') /\ cursor' > 0
         /\ entries'[cursor'].op = op
<1>0. cursor \in Nat
  BY DEF TypeOK
<1>1. CASE TopAlike(op) /\ Rewrite(op)
  <2>1. /\ cursor > 0 /\ Len(entries') = cursor /\ cursor' = cursor
        /\ entries'[cursor] = [id |-> entries[cursor].id, op |-> op]
    BY <1>1, RewriteFacts
  <2> QED BY <1>0, <2>1
<1>2. CASE Push(op)
  <2>1. /\ Len(entries') = cursor + 1 /\ cursor' = cursor + 1
        /\ entries'[cursor + 1] = [id |-> nextId, op |-> op]
    BY <1>2, PushFacts
  <2> QED BY <1>0, <2>1
<1> QED BY <1>1, <1>2 DEF Apply

-----------------------------------------------------------------------------

LEMMA NextKeepsInvariant == IInv /\ [Next]_vars => IInv'
<1> SUFFICES ASSUME IInv, [Next]_vars PROVE IInv'
  OBVIOUS
<1> USE DEF IInv
<1>t. /\ entries \in Seq(Entry) /\ cursor \in 0 .. Len(entries)
      /\ nextId \in Nat \ {0} /\ issued \subseteq 1 .. (nextId - 1)
      /\ control \in Controls \cup {NoControl}
      /\ dragging \in BOOLEAN /\ disturbed \in BOOLEAN
  BY DEF TypeOK
<1>e. ASSUME Elsewhere
      PROVE  /\ control' \in Controls \cup {NoControl}
             /\ dragging' \in BOOLEAN /\ disturbed' \in BOOLEAN
             /\ GestureOnTop'
  BY <1>t, <1>e DEF Elsewhere, GestureOnTop
<1>1. CASE \E op \in Requests : Edit(op)
  <2>1. PICK op \in Requests : Edit(op)
    BY <1>1
  <2>2. Apply(op, FALSE) /\ Elsewhere
    BY <2>1 DEF Edit
  <2>3. /\ entries' \in Seq(Entry) /\ cursor' \in 0 .. Len(entries')
        /\ nextId' \in Nat \ {0} /\ issued' \subseteq 1 .. (nextId' - 1)
        /\ IdsInOrder'
    BY <2>2, ApplyKeepsTheStack
  <2> QED BY <2>2, <2>3, <1>e DEF TypeOK
<1>2. CASE \E op \in SliderRequests : Frame(op)
  <2>1. PICK op \in SliderRequests : Frame(op)
    BY <1>2
  <2>2. op \in Requests
    BY SliderRequestsAreRequests
  <2>3. /\ control # NoControl /\ op.kind = control.kind
        /\ dragging' = TRUE /\ control' = control
    BY <2>1 DEF Frame
  <2>4. CASE Accepts(op)
    <3>1. Apply(op, dragging) /\ disturbed' = disturbed
      BY <2>1, <2>4 DEF Frame
    <3>2. /\ entries' \in Seq(Entry) /\ cursor' \in 0 .. Len(entries')
          /\ nextId' \in Nat \ {0} /\ issued' \subseteq 1 .. (nextId' - 1)
          /\ IdsInOrder'
      BY <1>t, <2>2, <3>1, ApplyKeepsTheStack
    <3>3. cursor' = Len(entries') /\ cursor' > 0 /\ entries'[cursor'].op = op
      BY <1>t, <2>2, <3>1, ApplyIsNewest
    <3>4. GestureOnTop'
      BY <2>3, <3>3 DEF GestureOnTop
    <3>5. TypeOK'
      BY <1>t, <2>3, <3>1, <3>2 DEF TypeOK
    <3> QED BY <3>2, <3>4, <3>5
  <2>5. CASE ~Accepts(op)
    <3>1. disturbed' = TRUE /\ UNCHANGED <<entries, cursor, nextId, issued>>
      BY <2>1, <2>5 DEF Frame, stackVars
    <3>2. TypeOK'
      BY <1>t, <2>3, <3>1 DEF TypeOK
    <3>3. IdsInOrder' /\ GestureOnTop'
      BY <3>1 DEF IdsInOrder, GestureOnTop
    <3> QED BY <3>2, <3>3
  <2> QED BY <2>4, <2>5
<1>3. CASE Undo
  <2>1. cursor' \in 0 .. Len(entries) /\ UNCHANGED <<entries, nextId, issued>> /\ Elsewhere
    BY <1>t, <1>3 DEF Undo
  <2> QED BY <1>t, <1>e, <2>1 DEF TypeOK, IdsInOrder
<1>4. CASE Redo
  <2>1. cursor' \in 0 .. Len(entries) /\ UNCHANGED <<entries, nextId, issued>> /\ Elsewhere
    BY <1>t, <1>4 DEF Redo
  <2> QED BY <1>t, <1>e, <2>1 DEF TypeOK, IdsInOrder
<1>5. CASE \E n \in 0 .. MaxEntries : Seek(n)
  <2>1. cursor' \in 0 .. Len(entries) /\ UNCHANGED <<entries, nextId, issued>> /\ Elsewhere
    BY <1>t, <1>5, BoundAssumption DEF Seek, Least
  <2> QED BY <1>t, <1>e, <2>1 DEF TypeOK, IdsInOrder
<1>6. CASE Reset
  <2>1. entries' = <<>> /\ cursor' = 0 /\ UNCHANGED <<nextId, issued>> /\ Elsewhere
    BY <1>6 DEF Reset
  <2>2. entries' \in Seq(Entry) /\ cursor' \in 0 .. Len(entries')
    BY <2>1
  <2>3. IdsInOrder'
    BY <2>1 DEF IdsInOrder
  <2> QED BY <1>t, <1>e, <2>1, <2>2, <2>3 DEF TypeOK
<1>7. CASE Reopen
  <2> DEFINE n == Len(entries)
             renumbered == [i \in 1 .. n |-> [id |-> i, op |-> entries[i].op]]
  <2>1. /\ entries' = renumbered /\ nextId' = n + 1 /\ issued' = 1 .. n
        /\ cursor' = cursor
        /\ control' = NoControl /\ dragging' = FALSE /\ disturbed' = FALSE
    BY <1>t, <1>7 DEF Reopen
  <2>2. n \in Nat
    BY <1>t
  <2>3. \A i \in 1 .. n : [id |-> i, op |-> entries[i].op] \in Entry
    <3> SUFFICES ASSUME NEW i \in 1 .. n PROVE [id |-> i, op |-> entries[i].op] \in Entry
      OBVIOUS
    <3>1. entries[i].op \in Requests
      BY EntryFacts
    <3>2. i \in Nat \ {0}
      BY <2>2
    <3> HIDE DEF n
    <3> QED BY <3>1, <3>2 DEF Entry
  <2> HIDE DEF n
  <2>4. renumbered \in Seq(Entry) /\ Len(renumbered) = n
    BY <2>2, <2>3
  <2>5. \A i \in 1 .. n : renumbered[i].id = i
    OBVIOUS
  <2>6. DOMAIN renumbered = 1 .. n
    OBVIOUS
  <2> HIDE DEF renumbered
  <2>7. IdsInOrder'
    BY <2>1, <2>2, <2>5, <2>6 DEF IdsInOrder
  <2>8. cursor' \in 0 .. Len(entries')
    BY <1>t, <2>1, <2>4 DEF n
  <2>9. nextId' \in Nat \ {0} /\ issued' \subseteq 1 .. (nextId' - 1)
    BY <2>1, <2>2
  <2>10. TypeOK'
    BY <2>1, <2>4, <2>8, <2>9 DEF TypeOK
  <2>11. GestureOnTop'
    BY <2>1 DEF GestureOnTop
  <2> QED BY <2>7, <2>10, <2>11
<1>8. CASE \E c \in Controls : Grab(c)
  BY <1>t, <1>8 DEF Grab, stackVars, TypeOK, IdsInOrder, GestureOnTop
<1>9. CASE Finish
  BY <1>t, <1>9 DEF Finish, stackVars, TypeOK, IdsInOrder, GestureOnTop
<1>10. CASE UNCHANGED vars
  BY <1>10 DEF vars, TypeOK, IdsInOrder, GestureOnTop
<1> QED BY <1>1, <1>2, <1>3, <1>4, <1>5, <1>6, <1>7, <1>8, <1>9, <1>10 DEF Next

LEMMA InvariantHolds == Spec => []IInv
BY InitIsInvariant, NextKeepsInvariant, PTL DEF Spec

\* The engine's list stays a list with a cursor inside it, whatever the host
\* asks and in whatever order.
THEOREM TypeCorrect == Spec => []TypeOK
<1>1. IInv => TypeOK
  BY DEF IInv
<1> QED BY <1>1, InvariantHolds, PTL

\* Entries are numbered in the order they were made, for ever: the identifier
\* the UI holds names one entry (edit_stack.cpp:13).
THEOREM InOrder == Spec => []IdsInOrder
<1>1. IInv => IdsInOrder
  BY DEF IInv
<1> QED BY <1>1, InvariantHolds, PTL

-----------------------------------------------------------------------------
(* Steps.                                                                  *)

\* Every entry of the next history has an old entry's identifier, or the next
\* one to give.
LEMMA ApplyIds ==
  ASSUME TypeOK, NEW op \in Requests, NEW replaceTop \in BOOLEAN, Apply(op, replaceTop)
  PROVE  \A i \in DOMAIN entries' :
           entries'[i].id = nextId \/ \E j \in DOMAIN entries : entries[j].id = entries'[i].id
<1>1. entries \in Seq(Entry) /\ cursor \in 0 .. Len(entries) /\ DOMAIN entries = 1 .. Len(entries)
  BY DEF TypeOK
<1>2. CASE TopAlike(op) /\ Rewrite(op)
  <2>1. /\ entries' \in Seq(Entry) /\ Len(entries') = cursor /\ cursor > 0
        /\ \A i \in 1 .. (cursor - 1) : entries'[i] = entries[i]
        /\ entries'[cursor] = [id |-> entries[cursor].id, op |-> op]
    BY <1>2, RewriteFacts
  <2>2. entries'[cursor].id = entries[cursor].id
    BY <2>1
  <2>3. \A i \in 1 .. cursor : entries'[i].id = entries[i].id /\ i \in DOMAIN entries
    BY <1>1, <2>1, <2>2
  <2>4. DOMAIN entries' = 1 .. cursor
    BY <2>1
  <2> QED BY <2>3, <2>4
<1>3. CASE Push(op)
  <2>1. /\ entries' \in Seq(Entry) /\ Len(entries') = cursor + 1
        /\ \A i \in 1 .. cursor : entries'[i] = entries[i]
        /\ entries'[cursor + 1] = [id |-> nextId, op |-> op]
    BY <1>3, PushFacts
  <2>2. entries'[cursor + 1].id = nextId
    BY <2>1
  <2>3. \A i \in 1 .. cursor : entries'[i].id = entries[i].id /\ i \in DOMAIN entries
    BY <1>1, <2>1
  <2>4. DOMAIN entries' = 1 .. (cursor + 1)
    BY <2>1
  <2>5. \A i \in 1 .. (cursor + 1) : i \in 1 .. cursor \/ i = cursor + 1
    BY <1>1
  <2> QED BY <2>2, <2>3, <2>4, <2>5
<1> QED BY <1>2, <1>3 DEF Apply

\* An identifier that left the history stays away (operation.h: "stable
\* identifier"), through every undo, reset and redo tail thrown away.
THEOREM IdsStayAway == Spec => IdsNeverComeBack
<1> DEFINE Fresh ==
      ~Reopen => \A i \in DOMAIN entries' :
        entries'[i].id \in issued => \E j \in DOMAIN entries : entries[j].id = entries'[i].id
<1>1. IInv /\ [Next]_vars => [Fresh]_vars
  <2> SUFFICES ASSUME IInv, Next, ~Reopen,
                      NEW i \in DOMAIN entries', entries'[i].id \in issued
               PROVE  \E j \in DOMAIN entries : entries[j].id = entries'[i].id
    OBVIOUS
  <2>1. TypeOK /\ nextId \in Nat /\ nextId \notin issued
    BY DEF IInv, TypeOK
  <2>2. ASSUME NEW op \in Requests, NEW replaceTop \in BOOLEAN, Apply(op, replaceTop)
        PROVE  \E j \in DOMAIN entries : entries[j].id = entries'[i].id
    <3>1. entries'[i].id = nextId \/ \E j \in DOMAIN entries : entries[j].id = entries'[i].id
      BY <2>1, <2>2, ApplyIds
    <3> QED BY <2>1, <3>1
  <2>3. ASSUME UNCHANGED entries
        PROVE  \E j \in DOMAIN entries : entries[j].id = entries'[i].id
    BY <2>3
  <2>4. CASE \E op \in Requests : Edit(op)
    BY <2>2, <2>4 DEF Edit
  <2>5. CASE \E op \in SliderRequests : Frame(op)
    <3>1. PICK op \in SliderRequests : Frame(op)
      BY <2>5
    <3>2. op \in Requests /\ dragging \in BOOLEAN
      BY <2>1, SliderRequestsAreRequests DEF TypeOK
    <3>3. Apply(op, dragging) \/ UNCHANGED entries
      BY <3>1 DEF Frame, stackVars
    <3> QED BY <2>2, <2>3, <3>2, <3>3
  <2>6. CASE Undo \/ Redo \/ Finish \/ \E c \in Controls : Grab(c)
    BY <2>3, <2>6 DEF Undo, Redo, Finish, Grab, stackVars
  <2>7. CASE \E n \in 0 .. MaxEntries : Seek(n)
    BY <2>3, <2>7 DEF Seek
  <2>8. CASE Reset
    BY <2>8 DEF Reset
  <2> QED BY <2>4, <2>5, <2>6, <2>7, <2>8 DEF Next
<1> QED BY <1>1, InvariantHolds, PTL DEF Spec, IdsNeverComeBack

\* A gesture nothing interrupts is one step to undo, however many frames it
\* has and whatever was undone before it (edit_stack.h:24-26).
THEOREM GesturesAreSteps == Spec => GestureIsOneEntry
<1> DEFINE OneEntry ==
      \A op \in SliderRequests :
       (Frame(op) /\ dragging /\ ~disturbed) =>
         /\ Len(entries') = Len(entries) /\ cursor' = cursor /\ cursor = Len(entries)
         /\ \A i \in DOMAIN entries : entries'[i].id = entries[i].id
         /\ \A i \in 1 .. (Len(entries) - 1) : entries'[i] = entries[i]
<1>1. IInv => [OneEntry]_vars
  <2> SUFFICES ASSUME IInv, NEW op \in SliderRequests, Frame(op), dragging, ~disturbed
               PROVE  /\ Len(entries') = Len(entries) /\ cursor' = cursor /\ cursor = Len(entries)
                      /\ \A i \in DOMAIN entries : entries'[i].id = entries[i].id
                      /\ \A i \in 1 .. (Len(entries) - 1) : entries'[i] = entries[i]
    OBVIOUS
  <2>1. TypeOK /\ op \in Requests
    BY SliderRequestsAreRequests DEF IInv
  <2>2. entries \in Seq(Entry) /\ cursor = Len(entries) /\ DOMAIN entries = 1 .. Len(entries)
    BY DEF IInv, TypeOK, GestureOnTop
  <2>3. TopAlike(op)
    BY DEF IInv, GestureOnTop, Frame, TopAlike
  <2>4. CASE ~Accepts(op)
    BY <2>2, <2>4 DEF Frame, stackVars
  <2>5. CASE Accepts(op)
    <3>1. Rewrite(op)
      BY <2>3, <2>5 DEF Frame, Apply
    <3>2. /\ cursor > 0 /\ Len(entries') = cursor /\ cursor' = cursor
          /\ \A i \in 1 .. (cursor - 1) : entries'[i] = entries[i]
          /\ entries'[cursor] = [id |-> entries[cursor].id, op |-> op]
      BY <2>1, <2>3, <3>1, RewriteFacts
    <3>3. entries'[cursor].id = entries[cursor].id
      BY <3>2
    <3>4. \A i \in 1 .. cursor : entries'[i].id = entries[i].id
      BY <2>2, <3>2, <3>3
    <3> QED BY <2>2, <3>2, <3>4
  <2> QED BY <2>4, <2>5
<1> QED BY <1>1, InvariantHolds, PTL DEF Spec, GestureIsOneEntry

-----------------------------------------------------------------------------
(* The list with a cursor implements the timeline.                         *)

PastOf(e, c) == [i \in 1 .. c |-> e[i].op]
FutureOf(e, c) == [i \in 1 .. (Len(e) - c) |-> e[c + i].op]

\* A cursor cuts a history in two sequences of operations.
LEMMA CutFacts ==
  ASSUME NEW e \in Seq(Entry), NEW c \in 0 .. Len(e)
  PROVE  /\ PastOf(e, c) \in Seq(Requests) /\ Len(PastOf(e, c)) = c
         /\ \A i \in 1 .. c : PastOf(e, c)[i] = e[i].op
         /\ FutureOf(e, c) \in Seq(Requests) /\ Len(FutureOf(e, c)) = Len(e) - c
         /\ \A i \in 1 .. (Len(e) - c) : FutureOf(e, c)[i] = e[c + i].op
<1>1. Len(e) \in Nat /\ c \in Nat /\ Len(e) - c \in Nat
  OBVIOUS
<1>2. \A i \in 1 .. Len(e) : e[i].op \in Requests
  <2> SUFFICES ASSUME NEW i \in 1 .. Len(e) PROVE e[i].op \in Requests
    OBVIOUS
  <2>1. e[i] \in Entry
    OBVIOUS
  <2> QED BY <2>1 DEF Entry
<1>3. \A i \in 1 .. c : e[i].op \in Requests
  BY <1>1, <1>2
<1>4. PastOf(e, c) \in Seq(Requests) /\ Len(PastOf(e, c)) = c
  BY <1>1, <1>3 DEF PastOf
<1>5. \A i \in 1 .. (Len(e) - c) : e[c + i].op \in Requests
  <2> SUFFICES ASSUME NEW i \in 1 .. (Len(e) - c) PROVE e[c + i].op \in Requests
    OBVIOUS
  <2>1. c + i \in 1 .. Len(e)
    BY <1>1
  <2> QED BY <1>2, <2>1
<1>6. FutureOf(e, c) \in Seq(Requests) /\ Len(FutureOf(e, c)) = Len(e) - c
  BY <1>1, <1>5 DEF FutureOf
<1>7. /\ \A i \in 1 .. c : PastOf(e, c)[i] = e[i].op
      /\ \A i \in 1 .. (Len(e) - c) : FutureOf(e, c)[i] = e[c + i].op
  BY DEF PastOf, FutureOf
<1> QED BY <1>4, <1>6, <1>7

\* Wherever the cursor stands, past and future together are the whole history.
LEMMA CutAndJoined ==
  ASSUME NEW e \in Seq(Entry), NEW c \in 0 .. Len(e), NEW d \in 0 .. Len(e)
  PROVE  PastOf(e, c) \o FutureOf(e, c) = PastOf(e, d) \o FutureOf(e, d)
<1>1. ASSUME NEW k \in 0 .. Len(e)
      PROVE  /\ PastOf(e, k) \o FutureOf(e, k) \in Seq(Requests)
             /\ Len(PastOf(e, k) \o FutureOf(e, k)) = Len(e)
             /\ \A i \in 1 .. Len(e) : (PastOf(e, k) \o FutureOf(e, k))[i] = e[i].op
  <2> DEFINE p == PastOf(e, k)
             f == FutureOf(e, k)
  <2>1. /\ p \in Seq(Requests) /\ Len(p) = k
        /\ \A i \in 1 .. k : p[i] = e[i].op
        /\ f \in Seq(Requests) /\ Len(f) = Len(e) - k
        /\ \A i \in 1 .. (Len(e) - k) : f[i] = e[k + i].op
    BY CutFacts
  <2>2. Len(e) \in Nat /\ k \in 0 .. Len(e)
    OBVIOUS
  <2> HIDE DEF p, f
  <2>3. /\ p \o f \in Seq(Requests)
        /\ Len(p \o f) = Len(p) + Len(f)
        /\ \A i \in 1 .. Len(p) + Len(f) : (p \o f)[i] =
              IF i <= Len(p) THEN p[i] ELSE f[i - Len(p)]
    BY <2>1, ConcatProperties
  <2>4. Len(p \o f) = Len(e)
    BY <2>1, <2>2, <2>3
  <2>5. ASSUME NEW i \in 1 .. Len(e)
        PROVE  (p \o f)[i] = e[i].op
    <3>1. CASE i <= k
      <4>1. i \in 1 .. k /\ i \in 1 .. Len(p) + Len(f) /\ i <= Len(p)
        BY <2>1, <2>2, <3>1
      <4>2. (p \o f)[i] = p[i]
        BY <2>3, <4>1
      <4>3. p[i] = e[i].op
        BY <2>1, <4>1
      <4> QED BY <4>2, <4>3
    <3>2. CASE i > k
      <4>1. (p \o f)[i] = f[i - k] /\ i - k \in 1 .. (Len(e) - k) /\ k + (i - k) = i
        BY <2>1, <2>2, <2>3, <3>2
      <4>2. f[i - k] = e[k + (i - k)].op
        BY <2>1, <4>1
      <4> QED BY <4>1, <4>2
    <3>3. i <= k \/ i > k
      BY <2>2
    <3> QED BY <3>1, <3>2, <3>3
  <2> QED BY <2>3, <2>4, <2>5 DEF p, f
<1> DEFINE x == PastOf(e, c) \o FutureOf(e, c)
           y == PastOf(e, d) \o FutureOf(e, d)
<1>2. /\ x \in Seq(Requests) /\ Len(x) = Len(e)
      /\ \A i \in 1 .. Len(e) : x[i] = e[i].op
  BY <1>1
<1>3. /\ y \in Seq(Requests) /\ Len(y) = Len(e)
      /\ \A i \in 1 .. Len(e) : y[i] = e[i].op
  BY <1>1
<1> HIDE DEF x, y
<1>4. Len(x) = Len(y) /\ \A i \in 1 .. Len(x) : x[i] = y[i]
  BY <1>2, <1>3
<1>5. x = y
  BY <1>2, <1>3, <1>4, SeqEqual
<1> QED BY <1>5 DEF x, y

\* A history cut at its end has nothing to redo.
LEMMA NothingToRedo ==
  ASSUME NEW e \in Seq(Entry), NEW c \in 0 .. Len(e), c = Len(e)
  PROVE  FutureOf(e, c) = <<>>
<1>1. FutureOf(e, c) \in Seq(Requests) /\ Len(FutureOf(e, c)) = 0
  BY CutFacts
<1> HIDE DEF FutureOf
<1> QED BY <1>1

LEMMA RecordImplemented ==
  ASSUME TypeOK, TypeOK', NEW op \in Requests, Push(op)
  PROVE  Timeline!Record(op)
<1>1. /\ entries \in Seq(Entry) /\ cursor \in 0 .. Len(entries)
      /\ entries' \in Seq(Entry) /\ cursor' \in 0 .. Len(entries')
  BY DEF TypeOK
<1>2. /\ Len(entries') = cursor + 1 /\ cursor' = cursor + 1
      /\ \A i \in 1 .. cursor : entries'[i] = entries[i]
      /\ entries'[cursor + 1] = [id |-> nextId, op |-> op]
  BY PushFacts
<1> DEFINE p == PastOf(entries, cursor)
           q == PastOf(entries', cursor')
<1>3. /\ p \in Seq(Requests) /\ Len(p) = cursor
      /\ \A i \in 1 .. cursor : p[i] = entries[i].op
  BY <1>1, CutFacts
<1>4. /\ q \in Seq(Requests) /\ Len(q) = cursor'
      /\ \A i \in 1 .. cursor' : q[i] = entries'[i].op
  BY <1>1, CutFacts
<1> HIDE DEF p, q
<1>5. /\ Append(p, op) \in Seq(Requests) /\ Len(Append(p, op)) = cursor + 1
      /\ \A i \in 1 .. cursor : Append(p, op)[i] = p[i]
      /\ Append(p, op)[cursor + 1] = op
  BY <1>1, <1>3
<1>6. \A i \in 1 .. (cursor + 1) : q[i] = Append(p, op)[i]
  <2> SUFFICES ASSUME NEW i \in 1 .. (cursor + 1) PROVE q[i] = Append(p, op)[i]
    OBVIOUS
  <2>1. CASE i = cursor + 1
    BY <1>2, <1>4, <1>5, <2>1
  <2>2. CASE i \in 1 .. cursor
    BY <1>2, <1>3, <1>4, <1>5, <2>2
  <2>3. cursor \in Nat
    BY <1>1
  <2>4. i = cursor + 1 \/ i \in 1 .. cursor
    BY <2>3
  <2> QED BY <2>1, <2>2, <2>4
<1>7. Len(q) = Len(Append(p, op)) /\ \A i \in 1 .. Len(q) : q[i] = Append(p, op)[i]
  BY <1>2, <1>4, <1>5, <1>6
<1>8. q = Append(p, op)
  BY <1>4, <1>5, <1>7, SeqEqual
<1>9. FutureOf(entries', cursor') = <<>>
  BY <1>1, <1>2, NothingToRedo
<1> QED BY <1>8, <1>9 DEF p, q, Timeline!Record, Point, Undone, PastOf, FutureOf

LEMMA AmendImplemented ==
  ASSUME TypeOK, TypeOK', NEW op \in Requests, TopAlike(op), Rewrite(op)
  PROVE  Timeline!Amend(op)
<1>1. /\ entries \in Seq(Entry) /\ cursor \in 0 .. Len(entries)
      /\ entries' \in Seq(Entry) /\ cursor' \in 0 .. Len(entries')
  BY DEF TypeOK
<1>2. /\ cursor > 0 /\ Len(entries') = cursor /\ cursor' = cursor
      /\ \A i \in 1 .. (cursor - 1) : entries'[i] = entries[i]
      /\ entries'[cursor] = [id |-> entries[cursor].id, op |-> op]
  BY RewriteFacts
<1> DEFINE p == PastOf(entries, cursor)
           q == PastOf(entries', cursor')
<1>3. /\ p \in Seq(Requests) /\ Len(p) = cursor
      /\ \A i \in 1 .. cursor : p[i] = entries[i].op
  BY <1>1, CutFacts
<1>4. /\ q \in Seq(Requests) /\ Len(q) = cursor'
      /\ \A i \in 1 .. cursor' : q[i] = entries'[i].op
  BY <1>1, CutFacts
<1> HIDE DEF p, q
<1>5. cursor \in 1 .. Len(p)
  BY <1>1, <1>2, <1>3
<1>6. /\ [p EXCEPT ![cursor] = op] \in Seq(Requests)
      /\ Len([p EXCEPT ![cursor] = op]) = cursor
      /\ \A i \in 1 .. cursor : [p EXCEPT ![cursor] = op][i] = IF i = cursor THEN op ELSE p[i]
  BY <1>3, <1>5
<1>7. \A i \in 1 .. cursor : q[i] = [p EXCEPT ![cursor] = op][i]
  <2> SUFFICES ASSUME NEW i \in 1 .. cursor PROVE q[i] = [p EXCEPT ![cursor] = op][i]
    OBVIOUS
  <2>1. CASE i = cursor
    BY <1>2, <1>4, <1>6, <2>1
  <2>2. CASE i \in 1 .. (cursor - 1)
    BY <1>2, <1>3, <1>4, <1>6, <2>2
  <2> QED BY <1>1, <2>1, <2>2
<1>8. q = [p EXCEPT ![cursor] = op]
  <2> DEFINE r == [p EXCEPT ![cursor] = op]
  <2>1. r \in Seq(Requests) /\ Len(r) = cursor /\ \A i \in 1 .. cursor : q[i] = r[i]
    BY <1>6, <1>7
  <2> HIDE DEF r
  <2>2. Len(q) = Len(r) /\ \A i \in 1 .. Len(q) : q[i] = r[i]
    BY <1>2, <1>4, <2>1
  <2>3. q = r
    BY <1>4, <2>1, <2>2, SeqEqual
  <2> QED BY <2>3 DEF r
<1>9. FutureOf(entries', cursor') = <<>>
  BY <1>1, <1>2, NothingToRedo
<1>10. p # <<>>
  BY <1>3, <1>5
<1>11. op.kind = p[Len(p)].kind
  BY <1>2, <1>3, <1>5 DEF TopAlike
<1>12. q = [p EXCEPT ![Len(p)] = op]
  BY <1>3, <1>8
<1> QED BY <1>9, <1>10, <1>11, <1>12 DEF p, q, Timeline!Amend, Point, Undone, PastOf, FutureOf

\* Moving the cursor keeps the history and only cuts it elsewhere.
LEMMA MoveImplemented ==
  ASSUME TypeOK, TypeOK', UNCHANGED entries
  PROVE  Timeline!Move
<1>1. /\ entries \in Seq(Entry) /\ cursor \in 0 .. Len(entries)
      /\ cursor' \in 0 .. Len(entries)
  BY DEF TypeOK
<1>2. PastOf(entries, cursor') \o FutureOf(entries, cursor')
        = PastOf(entries, cursor) \o FutureOf(entries, cursor)
  BY <1>1, CutAndJoined
<1> QED BY <1>2 DEF Timeline!Move, Point, Undone, PastOf, FutureOf

\* Saving a project and opening it again leaves every operation where it was.
LEMMA ReopenKeepsTheHistory ==
  ASSUME TypeOK, Reopen
  PROVE  UNCHANGED <<Point(cursor), Undone>>
<1>1. entries \in Seq(Entry) /\ cursor \in 0 .. Len(entries) /\ DOMAIN entries = 1 .. Len(entries)
  BY DEF TypeOK
<1> DEFINE n == Len(entries)
<1>2. /\ entries' = [i \in 1 .. n |-> [id |-> i, op |-> entries[i].op]]
      /\ cursor' = cursor
  BY <1>1 DEF Reopen
<1>3. n \in Nat /\ cursor \in 0 .. n
  BY <1>1
<1> HIDE DEF n
<1>4. Len(entries') = n
  BY <1>2, <1>3
<1>5. \A i \in 1 .. n : entries'[i].op = entries[i].op
  BY <1>2
<1>6. [i \in 1 .. cursor |-> entries'[i].op] = [i \in 1 .. cursor |-> entries[i].op]
  BY <1>3, <1>5
<1>7. \A i \in 1 .. (n - cursor) : entries'[cursor + i].op = entries[cursor + i].op
  <2> SUFFICES ASSUME NEW i \in 1 .. (n - cursor)
               PROVE  entries'[cursor + i].op = entries[cursor + i].op
    OBVIOUS
  <2>1. cursor + i \in 1 .. n
    BY <1>3
  <2> QED BY <1>5, <2>1
<1>8. [i \in 1 .. (n - cursor) |-> entries'[cursor + i].op]
        = [i \in 1 .. (n - cursor) |-> entries[cursor + i].op]
  BY <1>7
<1> QED BY <1>2, <1>4, <1>6, <1>8 DEF Point, Undone, n

LEMMA ApplyImplemented ==
  ASSUME TypeOK, TypeOK', NEW op \in Requests, NEW replaceTop \in BOOLEAN,
         Apply(op, replaceTop)
  PROVE  Timeline!Record(op) \/ Timeline!Amend(op)
<1>1. CASE TopAlike(op) /\ Rewrite(op)
  BY <1>1, AmendImplemented
<1>2. CASE Push(op)
  BY <1>2, RecordImplemented
<1> QED BY <1>1, <1>2 DEF Apply

\* The engine's list with a cursor is the history edit_stack.h describes: undo
\* loses nothing, an edit abandons what was undone, a gesture rewrites the
\* newest entry only, and a project reopened has the history it was saved with.
THEOREM ImplementsTimeline == Spec => IsATimeline
<1>1. Init => Timeline!Init
  <2> SUFFICES ASSUME Init PROVE Timeline!Init
    OBVIOUS
  <2>1. entries \in Seq(Entry) /\ Len(entries) = 0 /\ cursor = 0
    BY DEF Init
  <2>2. Point(cursor) = <<>>
    BY <2>1 DEF Point
  <2>3. Undone = <<>>
    BY <2>1 DEF Undone
  <2> QED BY <2>2, <2>3 DEF Timeline!Init
<1>2. IInv /\ IInv' /\ [Next]_vars => [Timeline!Next]_<<Point(cursor), Undone>>
  <2> SUFFICES ASSUME IInv, IInv', [Next]_vars
               PROVE  Timeline!Next \/ UNCHANGED <<Point(cursor), Undone>>
    OBVIOUS
  <2>1. TypeOK /\ TypeOK'
    BY DEF IInv
  <2>2. ASSUME NEW op \in Requests, NEW replaceTop \in BOOLEAN, Apply(op, replaceTop)
        PROVE  Timeline!Next
    <3>1. Timeline!Record(op) \/ Timeline!Amend(op)
      BY <2>1, <2>2, ApplyImplemented
    <3> QED BY <3>1 DEF Timeline!Next
  <2>3. ASSUME UNCHANGED entries PROVE Timeline!Next
    BY <2>1, <2>3, MoveImplemented DEF Timeline!Next
  <2>4. CASE \E op \in Requests : Edit(op)
    BY <2>2, <2>4 DEF Edit
  <2>5. CASE \E op \in SliderRequests : Frame(op)
    <3>1. PICK op \in SliderRequests : Frame(op)
      BY <2>5
    <3>2. op \in Requests /\ dragging \in BOOLEAN
      BY <2>1, SliderRequestsAreRequests DEF TypeOK
    <3>3. Apply(op, dragging) \/ UNCHANGED entries
      BY <3>1 DEF Frame, stackVars
    <3> QED BY <2>2, <2>3, <3>2, <3>3
  <2>6. CASE Undo \/ Redo \/ Finish \/ \E c \in Controls : Grab(c)
    BY <2>3, <2>6 DEF Undo, Redo, Finish, Grab, stackVars
  <2>7. CASE \E n \in 0 .. MaxEntries : Seek(n)
    BY <2>3, <2>7 DEF Seek
  <2>8. CASE Reset
    <3>1. entries' \in Seq(Entry) /\ Len(entries') = 0 /\ cursor' = 0
      BY <2>8 DEF Reset
    <3>2. Point(cursor)' = <<>> /\ Undone' = <<>>
      BY <3>1 DEF Point, Undone
    <3> QED BY <3>2 DEF Timeline!Next, Timeline!Forget
  <2>9. CASE Reopen
    BY <2>1, <2>9, ReopenKeepsTheHistory
  <2>10. CASE UNCHANGED vars
    BY <2>3, <2>10 DEF vars
  <2> QED BY <2>4, <2>5, <2>6, <2>7, <2>8, <2>9, <2>10 DEF Next
<1> QED BY <1>1, <1>2, InvariantHolds, PTL DEF Spec, IsATimeline, Timeline!Spec

-----------------------------------------------------------------------------
(* The folds are defined on prefixes: what a fold gives for a longer stack *)
(* is its step from what it gives without the last operation.              *)

\* A set of natural numbers with a member has a least one.
Before == {p \in Nat \X Nat : p[1] < p[2]}

LEMMA HasLeast ==
  ASSUME NEW T \in SUBSET Nat, T # {} PROVE \E x \in T : \A y \in T : x <= y
<1>1. IsWellFoundedOn(Before, Nat)
  BY NatLessThanWellFounded DEF OpToRel, Before
<1>2. PICK x \in T : \A y \in T : ~ (<<y, x>> \in Before)
  BY <1>1, WFMin
<1>3. ASSUME NEW y \in T PROVE x <= y
  <2>1. x \in Nat /\ y \in Nat
    OBVIOUS
  <2>2. ~ (y < x)
    BY <1>2, <2>1 DEF Before
  <2> QED BY <2>1, <2>2
<1> QED BY <1>3

\* f is the record of a fold over the first m operations of s.
IsShaping(f, s, m) ==
  f = [n \in 0 .. m |-> IF n = 0 THEN Whole(Width, Height) ELSE Shaped(f[n - 1], s[n])]

Bare == [layers |-> <<Background>>, next |-> 1]

IsLayering(f, s, m) ==
  f = [n \in 0 .. m |-> IF n = 0 THEN Bare ELSE Layered(f[n - 1], s[n])]

Shaping(s) == CHOOSE f : IsShaping(f, s, Len(s))
Layering(s) == CHOOSE f : IsLayering(f, s, Len(s))

\* The state that the layers of a stack are taken from.
Replayed(s) == Layering(s)[Len(s)]

LEMMA ShapingFolds ==
  ASSUME NEW s PROVE FoldGeometry(s, Width, Height) = Shaping(s)[Len(s)]
BY Zenon DEF FoldGeometry, Shaping, IsShaping

LEMMA LayeringFolds ==
  ASSUME NEW s PROVE FoldLayers(s) = Replayed(s).layers
BY Zenon DEF FoldLayers, Replayed, Layering, IsLayering, Bare

\* Every stack can be replayed.
LEMMA ShapingExists ==
  ASSUME NEW s, NEW m \in Nat
  PROVE  \E f : IsShaping(f, s, m)
<1> DEFINE T == {n \in Nat : ~ \E f : IsShaping(f, s, n)}
<1> SUFFICES ASSUME T # {} PROVE FALSE
  OBVIOUS
<1>1. PICK x \in T : \A y \in T : x <= y
  BY HasLeast
<1>2. x # 0
  <2>1. IsShaping([n \in 0 .. 0 |-> Whole(Width, Height)], s, 0)
    BY DEF IsShaping
  <2> QED BY <2>1
<1>3. PICK f : IsShaping(f, s, x - 1)
  <2>1. x - 1 \in Nat /\ x - 1 \notin T
    BY <1>1, <1>2
  <2> QED BY <2>1
<1> DEFINE step(n) == IF n = 0 THEN Whole(Width, Height) ELSE Shaped(f[n - 1], s[n])
           g == [n \in 0 .. x |-> step(n)]
<1>4. \A n \in 0 .. (x - 1) : f[n] = step(n)
  BY <1>3, Zenon DEF IsShaping
<1>5. \A n \in 0 .. x : n # 0 => g[n - 1] = f[n - 1]
  <2> SUFFICES ASSUME NEW n \in 0 .. x, n # 0 PROVE g[n - 1] = f[n - 1]
    OBVIOUS
  <2>1. n - 1 \in 0 .. x /\ n - 1 \in 0 .. (x - 1)
    BY <1>2
  <2> HIDE DEF step
  <2> QED BY <2>1, <1>4
<1>6. \A n \in 0 .. x :
        step(n) = (IF n = 0 THEN Whole(Width, Height) ELSE Shaped(g[n - 1], s[n]))
  BY <1>5, Zenon
<1>7. IsShaping(g, s, x)
  <2> HIDE DEF step
  <2>1. g = [n \in 0 .. x |-> IF n = 0 THEN Whole(Width, Height) ELSE Shaped(g[n - 1], s[n])]
    BY <1>6, Zenon
  <2> HIDE DEF g
  <2> QED BY <2>1, Zenon DEF IsShaping
<1> QED BY <1>7, <1>1

LEMMA ShapingStep ==
  ASSUME NEW f, NEW s, NEW m \in Nat, IsShaping(f, s, m)
  PROVE  /\ f[0] = Whole(Width, Height)
         /\ \A n \in 1 .. m : f[n] = Shaped(f[n - 1], s[n])
<1>1. f[0] = Whole(Width, Height)
  <2>1. 0 \in 0 .. m
    OBVIOUS
  <2> QED BY <2>1, Zenon DEF IsShaping
<1>2. ASSUME NEW n \in 1 .. m PROVE f[n] = Shaped(f[n - 1], s[n])
  <2>1. n \in 0 .. m /\ n # 0
    OBVIOUS
  <2> QED BY <2>1, Zenon DEF IsShaping
<1> QED BY <1>1, <1>2

\* Two replays agree as far as the operations do.
Alike(s, t, m) == \A i \in 1 .. m : s[i] = t[i]

LEMMA ShapingsAgree ==
  ASSUME NEW s, NEW t, NEW m \in Nat, NEW k \in Nat, NEW f, NEW g,
         IsShaping(f, s, m), IsShaping(g, t, k), m <= k,
         Alike(s, t, m)
  PROVE  f[m] = g[m]
<1> DEFINE T == {n \in 0 .. m : f[n] # g[n]}
<1> SUFFICES ASSUME T # {} PROVE FALSE
  <2>1. m \in 0 .. m
    OBVIOUS
  <2> QED BY <2>1
<1>1. PICK x \in T : \A y \in T : x <= y
  <2>1. T \in SUBSET Nat
    OBVIOUS
  <2> HIDE DEF T
  <2> QED BY <2>1, HasLeast
<1>2. x \in 0 .. m /\ x \in 0 .. k /\ f[x] # g[x]
  BY <1>1
<1>3. /\ f[0] = g[0]
      /\ \A n \in 1 .. m : f[n] = Shaped(f[n - 1], s[n])
      /\ \A n \in 1 .. k : g[n] = Shaped(g[n - 1], t[n])
  BY ShapingStep
<1>4. x # 0
  BY <1>2, <1>3, Zenon
<1>5. x - 1 \in 0 .. m /\ x \in 1 .. m /\ x \in 1 .. k /\ ~ (x <= x - 1)
  BY <1>2, <1>4
<1>6. x - 1 \notin T
  BY <1>5, <1>1
<1>7. f[x - 1] = g[x - 1] /\ s[x] = t[x]
  BY <1>5, <1>6 DEF Alike
<1> QED BY <1>2, <1>3, <1>5, <1>7, Zenon

LEMMA ShapingsFold ==
  ASSUME NEW s, Len(s) \in Nat
  PROVE  IsShaping(Shaping(s), s, Len(s))
BY ShapingExists, Zenon DEF Shaping

\* One operation more is one step more.
LEMMA ShapedByOneMore ==
  ASSUME NEW s, NEW t, NEW m \in Nat,
         Len(s) = m, Len(t) = m + 1, \A i \in 1 .. m : t[i] = s[i]
  PROVE  FoldGeometry(t, Width, Height) = Shaped(FoldGeometry(s, Width, Height), t[m + 1])
<1>1. IsShaping(Shaping(s), s, m) /\ IsShaping(Shaping(t), t, m + 1)
  BY ShapingsFold
<1>2. Shaping(s)[m] = Shaping(t)[m]
  <2> DEFINE f == Shaping(s)  g == Shaping(t)  k == m + 1
  <2>1. k \in Nat /\ m <= k /\ IsShaping(f, s, m) /\ IsShaping(g, t, k)
    BY <1>1
  <2>2. Alike(s, t, m)
    BY DEF Alike
  <2> HIDE DEF f, g, k
  <2>3. f[m] = g[m]
    BY <2>1, <2>2, ShapingsAgree
  <2> QED BY <2>3 DEF f, g
<1>3. m + 1 \in 1 .. (m + 1) /\ m + 1 - 1 = m
  OBVIOUS
<1>4. \A n \in 1 .. (m + 1) : Shaping(t)[n] = Shaped(Shaping(t)[n - 1], t[n])
  BY <1>1, ShapingStep
<1>5. Shaping(t)[m + 1] = Shaped(Shaping(t)[m + 1 - 1], t[m + 1])
  BY <1>3, <1>4
<1> QED BY <1>2, <1>3, <1>5, ShapingFolds

LEMMA ShapedByNone ==
  ASSUME NEW s, Len(s) = 0
  PROVE  FoldGeometry(s, Width, Height) = Whole(Width, Height)
<1>1. IsShaping(Shaping(s), s, 0)
  BY ShapingsFold
<1>2. Shaping(s)[0] = Whole(Width, Height)
  BY <1>1, ShapingStep
<1> QED BY <1>2, ShapingFolds

\* The same for the layers.
LEMMA LayeringExists ==
  ASSUME NEW s, NEW m \in Nat
  PROVE  \E f : IsLayering(f, s, m)
<1> DEFINE T == {n \in Nat : ~ \E f : IsLayering(f, s, n)}
<1> SUFFICES ASSUME T # {} PROVE FALSE
  OBVIOUS
<1>1. PICK x \in T : \A y \in T : x <= y
  BY HasLeast
<1>2. x # 0
  <2>1. IsLayering([n \in 0 .. 0 |-> Bare], s, 0)
    BY DEF IsLayering
  <2> QED BY <2>1
<1>3. PICK f : IsLayering(f, s, x - 1)
  <2>1. x - 1 \in Nat /\ x - 1 \notin T
    BY <1>1, <1>2
  <2> QED BY <2>1
<1> DEFINE step(n) == IF n = 0 THEN Bare ELSE Layered(f[n - 1], s[n])
           g == [n \in 0 .. x |-> step(n)]
<1>4. \A n \in 0 .. (x - 1) : f[n] = step(n)
  BY <1>3, Zenon DEF IsLayering
<1>5. \A n \in 0 .. x : n # 0 => g[n - 1] = f[n - 1]
  <2> SUFFICES ASSUME NEW n \in 0 .. x, n # 0 PROVE g[n - 1] = f[n - 1]
    OBVIOUS
  <2>1. n - 1 \in 0 .. x /\ n - 1 \in 0 .. (x - 1)
    BY <1>2
  <2> HIDE DEF step
  <2> QED BY <2>1, <1>4
<1>6. \A n \in 0 .. x :
        step(n) = (IF n = 0 THEN Bare ELSE Layered(g[n - 1], s[n]))
  BY <1>5, Zenon
<1>7. IsLayering(g, s, x)
  <2> HIDE DEF step
  <2>1. g = [n \in 0 .. x |-> IF n = 0 THEN Bare ELSE Layered(g[n - 1], s[n])]
    BY <1>6, Zenon
  <2> HIDE DEF g
  <2> QED BY <2>1, Zenon DEF IsLayering
<1> QED BY <1>7, <1>1

LEMMA LayeringStep ==
  ASSUME NEW f, NEW s, NEW m \in Nat, IsLayering(f, s, m)
  PROVE  /\ f[0] = Bare
         /\ \A n \in 1 .. m : f[n] = Layered(f[n - 1], s[n])
<1>1. f[0] = Bare
  <2>1. 0 \in 0 .. m
    OBVIOUS
  <2> QED BY <2>1, Zenon DEF IsLayering
<1>2. ASSUME NEW n \in 1 .. m PROVE f[n] = Layered(f[n - 1], s[n])
  <2>1. n \in 0 .. m /\ n # 0
    OBVIOUS
  <2> QED BY <2>1, Zenon DEF IsLayering
<1> QED BY <1>1, <1>2

LEMMA LayeringsAgree ==
  ASSUME NEW s, NEW t, NEW m \in Nat, NEW k \in Nat, NEW f, NEW g,
         IsLayering(f, s, m), IsLayering(g, t, k), m <= k,
         Alike(s, t, m)
  PROVE  f[m] = g[m]
<1> DEFINE T == {n \in 0 .. m : f[n] # g[n]}
<1> SUFFICES ASSUME T # {} PROVE FALSE
  <2>1. m \in 0 .. m
    OBVIOUS
  <2> QED BY <2>1
<1>1. PICK x \in T : \A y \in T : x <= y
  <2>1. T \in SUBSET Nat
    OBVIOUS
  <2> HIDE DEF T
  <2> QED BY <2>1, HasLeast
<1>2. x \in 0 .. m /\ x \in 0 .. k /\ f[x] # g[x]
  BY <1>1
<1>3. /\ f[0] = g[0]
      /\ \A n \in 1 .. m : f[n] = Layered(f[n - 1], s[n])
      /\ \A n \in 1 .. k : g[n] = Layered(g[n - 1], t[n])
  BY LayeringStep
<1>4. x # 0
  BY <1>2, <1>3, Zenon
<1>5. x - 1 \in 0 .. m /\ x \in 1 .. m /\ x \in 1 .. k /\ ~ (x <= x - 1)
  BY <1>2, <1>4
<1>6. x - 1 \notin T
  BY <1>5, <1>1
<1>7. f[x - 1] = g[x - 1] /\ s[x] = t[x]
  BY <1>5, <1>6 DEF Alike
<1> QED BY <1>2, <1>3, <1>5, <1>7, Zenon

LEMMA LayeringsFold ==
  ASSUME NEW s, Len(s) \in Nat
  PROVE  IsLayering(Layering(s), s, Len(s))
BY LayeringExists, Zenon DEF Layering

LEMMA LayeredByOneMore ==
  ASSUME NEW s, NEW t, NEW m \in Nat,
         Len(s) = m, Len(t) = m + 1, \A i \in 1 .. m : t[i] = s[i]
  PROVE  Replayed(t) = Layered(Replayed(s), t[m + 1])
<1>1. IsLayering(Layering(s), s, m) /\ IsLayering(Layering(t), t, m + 1)
  BY LayeringsFold
<1>2. Layering(s)[m] = Layering(t)[m]
  <2> DEFINE f == Layering(s)  g == Layering(t)  k == m + 1
  <2>1. k \in Nat /\ m <= k /\ IsLayering(f, s, m) /\ IsLayering(g, t, k)
    BY <1>1
  <2>2. Alike(s, t, m)
    BY DEF Alike
  <2> HIDE DEF f, g, k
  <2>3. f[m] = g[m]
    BY <2>1, <2>2, LayeringsAgree
  <2> QED BY <2>3 DEF f, g
<1>3. m + 1 \in 1 .. (m + 1) /\ m + 1 - 1 = m
  OBVIOUS
<1>4. \A n \in 1 .. (m + 1) : Layering(t)[n] = Layered(Layering(t)[n - 1], t[n])
  BY <1>1, LayeringStep
<1>5. Layering(t)[m + 1] = Layered(Layering(t)[m + 1 - 1], t[m + 1])
  BY <1>3, <1>4
<1> QED BY <1>2, <1>3, <1>5 DEF Replayed

LEMMA BareByNone ==
  ASSUME NEW s, Len(s) = 0
  PROVE  Replayed(s) = Bare
<1>1. IsLayering(Layering(s), s, 0)
  BY LayeringsFold
<1>2. Layering(s)[0] = Bare
  BY <1>1, LayeringStep
<1> QED BY <1>2 DEF Replayed

-----------------------------------------------------------------------------
(* The geometry of every point.                                            *)

\* What the fold's steps read and rewrite is there.
HasFields(g) == {"frame", "base", "angle"} \subseteq DOMAIN g

LEMMA ShapedHasFields ==
  ASSUME NEW g, HasFields(g), NEW op
  PROVE  HasFields(Shaped(g, op))
<1>1. \A o : HasFields(Reorient(g, o))
  BY DEF HasFields, Reorient
<1>2. \A q : HasFields(Rotated(g, q))
  BY <1>1 DEF HasFields, Rotated
<1>3. \A a : HasFields(Straightened(g, a))
  BY DEF HasFields, Straightened
<1>4. \A w, h : HasFields(Resized(g, w, h))
  BY DEF HasFields, Resized
<1>5. \A r : HasFields(Cropped(g, r))
  BY DEF HasFields, Cropped
<1> QED BY <1>1, <1>2, <1>3, <1>4, <1>5 DEF Shaped

LEMMA FoldHasFields ==
  ASSUME NEW s, Len(s) \in Nat
  PROVE  HasFields(FoldGeometry(s, Width, Height))
<1> DEFINE f == Shaping(s)
           m == Len(s)
           T == {n \in 0 .. m : ~ HasFields(f[n])}
<1>1. f[0] = Whole(Width, Height) /\ \A n \in 1 .. m : f[n] = Shaped(f[n - 1], s[n])
  BY ShapingsFold, ShapingStep
<1>2. T = {}
  <2> SUFFICES ASSUME T # {} PROVE FALSE
    OBVIOUS
  <2>1. PICK x \in T : \A y \in T : x <= y
    <3>1. T \in SUBSET Nat
      OBVIOUS
    <3> HIDE DEF T
    <3> QED BY <3>1, HasLeast
  <2>2. x # 0
    <3>1. HasFields(Whole(Width, Height))
      BY DEF HasFields, Whole
    <3> HIDE DEF f
    <3> QED BY <1>1, <2>1, <3>1
  <2>3. x \in 1 .. m /\ x - 1 \in 0 .. m /\ ~ (x <= x - 1)
    BY <2>1, <2>2
  <2>4. HasFields(f[x - 1])
    <3> HIDE DEF f
    <3> QED BY <2>1, <2>3
  <2>5. HasFields(f[x])
    <3> HIDE DEF f
    <3> QED BY <1>1, <2>3, <2>4, ShapedHasFields
  <2> QED BY <2>1, <2>5
<1>3. HasFields(f[m])
  <2>1. m \in 0 .. m
    OBVIOUS
  <2> HIDE DEF f, m
  <2> QED BY <1>2, <2>1
<1> QED BY <1>3, ShapingFolds

\* An angle set over an angle is the second one; no other gesture shapes the
\* picture. So replacing the newest entry by one of its kind leaves the frame that
\* was checked with both in place.
LEMMA GestureReplaces ==
  ASSUME NEW g, HasFields(g), NEW old, NEW op, old.kind = op.kind,
         op.kind \notin {"rotate", "flipHorizontal", "flipVertical", "resize", "crop"}
  PROVE  Shaped(Shaped(g, old), op).frame = Shaped(g, op).frame
<1>1. CASE op.kind = "straighten"
  <2>1. \A h : Shaped(h, op) = Straightened(h, op.angle)
    BY <1>1 DEF Shaped
  <2>2. Shaped(g, old) = Straightened(g, old.angle)
    BY <1>1 DEF Shaped
  <2>3. HasFields(Straightened(g, old.angle)) /\ Straightened(g, old.angle).base = g.base
    BY DEF HasFields, Straightened
  <2>4. \A h : HasFields(h) => Straightened(h, op.angle).frame = InscribedFrame(h.base, op.angle)
    BY DEF HasFields, Straightened
  <2> QED BY <2>1, <2>2, <2>3, <2>4
<1>2. CASE op.kind # "straighten"
  BY <1>2 DEF Shaped
<1> QED BY <1>1, <1>2

\* A prefix of the history.
LEMMA PointFacts ==
  ASSUME TypeOK, NEW n \in 0 .. Len(entries)
  PROVE  Len(Point(n)) = n /\ \A i \in 1 .. n : Point(n)[i] = entries[i].op
<1>1. n \in Nat
  BY DEF TypeOK
<1> QED BY <1>1 DEF Point

Renders(n) == ~IsEmpty(FoldGeometry(Point(n), Width, Height).frame)

\* The same operations have the same geometry.
LEMMA SamePointsRender ==
  ASSUME NEW n, Renders(n), \A i \in 1 .. n : entries'[i].op = entries[i].op
  PROVE  Renders(n)'
<1>1. Point(n)' = Point(n)
  BY DEF Point
<1> QED BY <1>1 DEF Renders

\* What an operation accepted leaves.
LEMMA AcceptedRenders ==
  ASSUME TypeOK, NEW op, Accepts(op)
  PROVE  ~IsEmpty(Shaped(FoldGeometry(Point(cursor), Width, Height), op).frame)
<1> DEFINE s == Point(cursor)
           t == Append(s, op)
<1>1. cursor \in 0 .. Len(entries) /\ cursor \in Nat
  BY DEF TypeOK
<1>2. Len(s) = cursor
  BY <1>1, PointFacts
<1>3. Len(t) = cursor + 1 /\ t[cursor + 1] = op /\ \A i \in 1 .. cursor : t[i] = s[i]
  BY <1>1 DEF Point
<1>4. ~IsEmpty(FoldGeometry(t, Width, Height).frame)
  BY DEF Accepts
<1> HIDE DEF s, t
<1>5. FoldGeometry(t, Width, Height) = Shaped(FoldGeometry(s, Width, Height), op)
  BY <1>1, <1>2, <1>3, ShapedByOneMore
<1> QED BY <1>4, <1>5 DEF s

LEMMA PushRenders ==
  ASSUME TypeOK, EveryPointRenders, NEW op \in Requests, Accepts(op), Push(op)
  PROVE  EveryPointRenders'
<1>1. cursor \in 0 .. Len(entries) /\ cursor \in Nat /\ Len(entries) \in Nat
  BY DEF TypeOK
<1>2. /\ entries' \in Seq(Entry) /\ Len(entries') = cursor + 1
      /\ \A i \in 1 .. cursor : entries'[i] = entries[i]
      /\ entries'[cursor + 1].op = op
  <2>1. entries'[cursor + 1] = [id |-> nextId, op |-> op]
    BY PushFacts
  <2> QED BY <2>1, PushFacts
<1>3. ASSUME NEW n \in 0 .. cursor PROVE Renders(n)'
  <2>1. Renders(n)
    BY <1>1 DEF EveryPointRenders, Renders
  <2>2. \A i \in 1 .. n : entries'[i].op = entries[i].op
    BY <1>1, <1>2
  <2> QED BY <2>1, <2>2, SamePointsRender
<1>4. ASSUME NEW n, n = cursor + 1 PROVE Renders(n)'
  <2> DEFINE s == Point(cursor)
             t == [i \in 1 .. n |-> entries'[i].op]
  <2>1. Len(s) = cursor
    BY <1>1, PointFacts
  <2>2. Len(t) = cursor + 1 /\ t[cursor + 1] = op /\ \A i \in 1 .. cursor : t[i] = s[i]
    BY <1>1, <1>2, <1>4 DEF Point
  <2> HIDE DEF s, t
  <2>3. FoldGeometry(t, Width, Height) = Shaped(FoldGeometry(s, Width, Height), op)
    BY <1>1, <2>1, <2>2, ShapedByOneMore
  <2>4. ~IsEmpty(FoldGeometry(t, Width, Height).frame)
    BY <2>3, AcceptedRenders DEF s
  <2> QED BY <2>4 DEF t, Renders, Point
<1>5. \A n \in 0 .. Len(entries') : n \in 0 .. cursor \/ n = cursor + 1
  BY <1>1, <1>2
<1> QED BY <1>3, <1>4, <1>5 DEF EveryPointRenders, Renders

LEMMA RewriteRenders ==
  ASSUME TypeOK, EveryPointRenders, NEW op \in SliderRequests,
         Accepts(op), TopAlike(op), Rewrite(op)
  PROVE  EveryPointRenders'
<1>1. /\ cursor \in 1 .. Len(entries) /\ cursor \in Nat /\ Len(entries) \in Nat
      /\ entries[cursor].op.kind = op.kind
  BY DEF TypeOK, TopAlike
<1>2. /\ entries' \in Seq(Entry) /\ Len(entries') = cursor
      /\ \A i \in 1 .. (cursor - 1) : entries'[i] = entries[i]
      /\ entries'[cursor].op = op
  <2>1. op \in Requests
    BY SliderRequestsAreRequests
  <2>2. entries'[cursor] = [id |-> entries[cursor].id, op |-> op]
    BY <2>1, RewriteFacts
  <2> QED BY <2>1, <2>2, RewriteFacts
<1>3. ASSUME NEW n \in 0 .. (cursor - 1) PROVE Renders(n)'
  <2>1. Renders(n)
    BY <1>1 DEF EveryPointRenders, Renders
  <2>2. \A i \in 1 .. n : entries'[i].op = entries[i].op
    BY <1>1, <1>2
  <2> QED BY <2>1, <2>2, SamePointsRender
<1>4. ASSUME NEW n, n = cursor PROVE Renders(n)'
  <2> DEFINE m == cursor - 1
             s == Point(m)
             u == Point(cursor)
             t == [i \in 1 .. n |-> entries'[i].op]
             old == entries[cursor].op
  <2>1. m \in Nat /\ m \in 0 .. Len(entries) /\ cursor \in 0 .. Len(entries) /\ m + 1 = cursor
    BY <1>1
  <2>2. Len(s) = m /\ Len(u) = cursor
    BY <2>1, PointFacts
  <2>3. /\ Len(t) = cursor /\ t[cursor] = op /\ \A i \in 1 .. m : t[i] = s[i]
        /\ u[cursor] = old /\ \A i \in 1 .. m : u[i] = s[i]
    BY <1>1, <1>2, <1>4 DEF Point
  <2>4. op.kind \notin {"rotate", "flipHorizontal", "flipVertical", "resize", "crop"}
    BY SliderAssumption DEF SliderRequests
  <2>5. ~IsEmpty(Shaped(FoldGeometry(u, Width, Height), op).frame)
    BY AcceptedRenders, SliderRequestsAreRequests
  <2> HIDE DEF s, t, u, m
  <2>6. FoldGeometry(t, Width, Height) = Shaped(FoldGeometry(s, Width, Height), op)
    BY <2>1, <2>2, <2>3, ShapedByOneMore
  <2>7. FoldGeometry(u, Width, Height) = Shaped(FoldGeometry(s, Width, Height), old)
    BY <2>1, <2>2, <2>3, ShapedByOneMore
  <2>8. HasFields(FoldGeometry(s, Width, Height))
    BY <2>1, <2>2, FoldHasFields
  <2>9. Shaped(FoldGeometry(u, Width, Height), op).frame
          = Shaped(FoldGeometry(s, Width, Height), op).frame
    BY <1>1, <2>4, <2>7, <2>8, GestureReplaces
  <2>10. ~IsEmpty(FoldGeometry(t, Width, Height).frame)
    BY <2>5, <2>6, <2>9
  <2> QED BY <2>10 DEF t, Renders, Point
<1>5. \A n \in 0 .. Len(entries') : n \in 0 .. (cursor - 1) \/ n = cursor
  BY <1>1, <1>2
<1> QED BY <1>3, <1>4, <1>5 DEF EveryPointRenders, Renders

\* A history of the same operations, or of the first of them, renders as before.
LEMMA ShorterRenders ==
  ASSUME TypeOK, EveryPointRenders, Len(entries') \in 0 .. Len(entries),
         \A i \in 1 .. Len(entries') : entries'[i].op = entries[i].op
  PROVE  EveryPointRenders'
<1>1. Len(entries) \in Nat
  BY DEF TypeOK
<1> SUFFICES ASSUME NEW n \in 0 .. Len(entries') PROVE Renders(n)'
  BY DEF EveryPointRenders, Renders
<1>2. Renders(n)
  BY <1>1 DEF EveryPointRenders, Renders
<1>3. \A i \in 1 .. n : entries'[i].op = entries[i].op
  BY <1>1
<1> QED BY <1>2, <1>3, SamePointsRender

LEMMA NextRenders == IInv /\ EveryPointRenders /\ [Next]_vars => EveryPointRenders'
<1> SUFFICES ASSUME IInv, EveryPointRenders, [Next]_vars PROVE EveryPointRenders'
  OBVIOUS
<1>t. TypeOK /\ entries \in Seq(Entry) /\ Len(entries) \in Nat
  BY DEF IInv, TypeOK
<1>s. CASE UNCHANGED entries
  BY <1>t, <1>s, ShorterRenders
<1>1. CASE \E op \in Requests : Edit(op)
  BY <1>t, <1>1, PushRenders DEF Edit, Apply
<1>2. CASE \E op \in SliderRequests : Frame(op)
  <2>1. PICK op \in SliderRequests : Frame(op)
    BY <1>2
  <2>2. op \in Requests
    BY SliderRequestsAreRequests
  <2>3. CASE Accepts(op)
    <3>1. \/ TopAlike(op) /\ Rewrite(op)
          \/ Push(op)
      BY <2>1, <2>3 DEF Frame, Apply
    <3> QED BY <1>t, <2>2, <2>3, <3>1, PushRenders, RewriteRenders
  <2>4. CASE ~Accepts(op)
    BY <1>s, <2>1, <2>4 DEF Frame, stackVars
  <2> QED BY <2>3, <2>4
<1>3. CASE Undo
  BY <1>s, <1>3 DEF Undo
<1>4. CASE Redo
  BY <1>s, <1>4 DEF Redo
<1>5. CASE \E n \in 0 .. MaxEntries : Seek(n)
  BY <1>s, <1>5 DEF Seek
<1>6. CASE Reset
  <2>1. Len(entries') = 0
    BY <1>6 DEF Reset
  <2> QED BY <1>t, <2>1, ShorterRenders
<1>7. CASE Reopen
  <2>1. entries' = [i \in 1 .. Len(entries) |-> [id |-> i, op |-> entries[i].op]]
    BY <1>t, <1>7 DEF Reopen
  <2>2. Len(entries') = Len(entries) /\ \A i \in 1 .. Len(entries) : entries'[i].op = entries[i].op
    BY <1>t, <2>1
  <2> QED BY <1>t, <2>2, ShorterRenders
<1>8. CASE \E c \in Controls : Grab(c)
  BY <1>s, <1>8 DEF Grab, stackVars
<1>9. CASE Finish
  BY <1>s, <1>9 DEF Finish, stackVars
<1>10. CASE UNCHANGED vars
  BY <1>s, <1>10 DEF vars
<1> QED BY <1>1, <1>2, <1>3, <1>4, <1>5, <1>6, <1>7, <1>8, <1>9, <1>10 DEF Next

LEMMA InitRenders == Init => EveryPointRenders
<1> SUFFICES ASSUME Init PROVE EveryPointRenders
  OBVIOUS
<1>1. Len(entries) = 0 /\ Len(Point(0)) = 0
  BY DEF Init, Point
<1>2. FoldGeometry(Point(0), Width, Height) = Whole(Width, Height)
  BY <1>1, ShapedByNone
<1>3. ~IsEmpty(Whole(Width, Height).frame)
  BY PhotoAssumption DEF Whole, Rect, IsEmpty
<1>4. \A n \in 0 .. Len(entries) : n = 0
  BY <1>1
<1> QED BY <1>2, <1>3, <1>4 DEF EveryPointRenders

\* Every point of a history of any length, for any operations the renderer sends,
\* has something to render: undo, redo and the history panel check nothing, and a
\* gesture's frame was checked beside the entry it replaces (Engine::ApplyEdit,
\* EditStack::Apply).
THEOREM PointsRender == Spec => []EveryPointRenders
<1>1. Spec => []IInv
  BY InvariantHolds
<1>2. Init => EveryPointRenders
  BY InitRenders
<1>3. IInv /\ EveryPointRenders /\ [Next]_vars => EveryPointRenders'
  BY NextRenders
<1> QED BY <1>1, <1>2, <1>3, PTL DEF Spec

-----------------------------------------------------------------------------
(* The layers of every point.                                              *)

\* R is the set of operations that may be sent.
Sound(R) ==
  \A op \in R :
    /\ op.kind = "addLayer" => op.layer \in LayerKinds
    /\ op.kind = "reorderLayer" => op.index \in Int

Values(R) == {Unset} \cup {op.value : op \in R}
Tones(R) == {Unset} \cup {op.value : op \in {p \in R : p.kind = "adjust"}}

\* Adjustments come from the operations that adjust.
Layer(R) ==
  {l \in [id : Nat, kind : LayerKinds \cup {"background"}, holds : [Settings -> Values(R)]] :
     l.holds["adjustments"] \in Tones(R)}

\* A replay keeps the background below, and gives each layer a number of its own.
InPlace(R, layers, next) ==
  /\ layers \in Seq(Layer(R)) /\ Len(layers) \in Nat \ {0}
  /\ layers[1] = Background
  /\ \A i \in 2 .. Len(layers) : layers[i].kind \in LayerKinds /\ layers[i].id \in 1 .. (next - 1)
  /\ \A i, j \in 1 .. Len(layers) : layers[i].id = layers[j].id => i = j

Stacked(R, st) ==
  /\ st = [layers |-> st.layers, next |-> st.next]
  /\ st.next \in Nat \ {0}
  /\ InPlace(R, st.layers, st.next)

\* The largest member of a set of places, or zero.
LEMMA LastPlace ==
  ASSUME NEW n \in Nat, NEW S \in SUBSET (1 .. n)
  PROVE  /\ Max({0} \cup S) \in 0 .. n
         /\ Max({0} \cup S) # 0 => Max({0} \cup S) \in S
<1> DEFINE M == {0} \cup S
           T == {m \in Nat : \A s \in M : s <= m}
<1>1. M \in SUBSET Nat /\ \A s \in M : s <= n
  OBVIOUS
<1>2. PICK m \in T : \A y \in T : m <= y
  <2>1. n \in T /\ T \in SUBSET Nat
    BY <1>1
  <2> HIDE DEF T
  <2> QED BY <2>1, HasLeast
<1>3. m \in M
  <2>1. CASE m = 0
    BY <2>1
  <2>2. CASE m # 0 /\ m \notin M
    <3>1. m \in Nat /\ \A s \in M : s \in Nat /\ s <= m /\ s # m
      BY <1>1, <1>2, <2>2
    <3>2. m - 1 \in T
      BY <2>2, <3>1
    <3> QED BY <1>2, <3>1, <3>2
  <2> QED BY <2>1, <2>2
<1>4. Max(M) \in M /\ \A s \in M : Max(M) >= s
  <2>1. \A s \in M : m >= s
    BY <1>1, <1>2
  <2> HIDE DEF M, T
  <2> QED BY <1>3, <2>1 DEF Max
<1>5. \A x \in {0} \cup S : x \in 0 .. n /\ (x # 0 => x \in S)
  OBVIOUS
<1>6. Max({0} \cup S) \in {0} \cup S
  BY <1>4
<1> QED BY <1>5, <1>6, Zenon

\* Neither an operation's target nor the topmost adjustment layer is ever the
\* background.
LEMMA ResolvedAbove ==
  ASSUME NEW R, NEW layers, NEW next, InPlace(R, layers, next), NEW id
  PROVE  Resolve(layers, id) \in {0} \cup 2 .. Len(layers)
<1> DEFINE S == {i \in DOMAIN layers : IF id = 0 THEN layers[i].kind = "adjustment"
                                                ELSE layers[i].id = id}
<1>1. S \in SUBSET (1 .. Len(layers)) /\ Len(layers) \in Nat
  BY DEF InPlace
<1>2. 1 \notin S
  BY DEF InPlace, Background, NewLayer
<1>3. Resolve(layers, id) = Max({0} \cup S)
  BY DEF Resolve
<1> HIDE DEF S
<1> DEFINE r == Max({0} \cup S)
<1>4. r \in 0 .. Len(layers) /\ (r # 0 => r \in S)
  BY <1>1, LastPlace
<1> HIDE DEF r
<1>5. r # 1
  BY <1>2, <1>4
<1> QED BY <1>1, <1>3, <1>4, <1>5 DEF r

LEMMA MovableAbove ==
  ASSUME NEW R, NEW layers, NEW next, InPlace(R, layers, next), NEW id
  PROVE  Movable(layers, id) \in {0} \cup 2 .. Len(layers)
<1> DEFINE S == {i \in DOMAIN layers : layers[i].id = id /\ layers[i].kind # "background"}
<1>1. S \in SUBSET (1 .. Len(layers)) /\ Len(layers) \in Nat
  BY DEF InPlace
<1>2. 1 \notin S
  BY DEF InPlace, Background, NewLayer
<1>3. Movable(layers, id) = Max({0} \cup S)
  BY DEF Movable
<1> HIDE DEF S
<1> DEFINE r == Max({0} \cup S)
<1>4. r \in 0 .. Len(layers) /\ (r # 0 => r \in S)
  BY <1>1, LastPlace
<1> HIDE DEF r
<1>5. r # 1
  BY <1>2, <1>4
<1> QED BY <1>1, <1>3, <1>4, <1>5 DEF r

LEMMA NewLayerType ==
  ASSUME NEW R, NEW id \in Nat, NEW kind \in LayerKinds \cup {"background"}
  PROVE  /\ NewLayer(id, kind) \in Layer(R)
         /\ NewLayer(id, kind).id = id /\ NewLayer(id, kind).kind = kind
BY DEF NewLayer, Layer, Values, Tones, Settings, SettingOf

LEMMA BareStacked ==
  ASSUME NEW R PROVE Stacked(R, Bare)
<1>1. Background \in Layer(R) /\ Background.id = 0
  BY NewLayerType DEF Background
<1> HIDE DEF Background
<1>2. <<Background>> \in Seq(Layer(R)) /\ Len(<<Background>>) = 1 /\ <<Background>>[1] = Background
  BY <1>1
<1> QED BY <1>2 DEF Bare, Stacked, InPlace

LEMMA AddedStacked ==
  ASSUME NEW R, NEW st, Stacked(R, st), NEW kind \in LayerKinds
  PROVE  /\ Stacked(R, Added(st, kind))
         /\ Len(Added(st, kind).layers) \in 2 .. Len(Added(st, kind).layers)
<1> DEFINE layers == st.layers  n == Len(layers)  next == st.next
           new == NewLayer(next, kind)  longer == Append(layers, new)
<1>1. /\ layers \in Seq(Layer(R)) /\ n \in Nat \ {0} /\ next \in Nat \ {0}
      /\ layers[1] = Background /\ Background.id = 0
      /\ \A i \in 2 .. n : layers[i].kind \in LayerKinds /\ layers[i].id \in 1 .. (next - 1)
      /\ \A i, j \in 1 .. n : layers[i].id = layers[j].id => i = j
  BY DEF Stacked, InPlace, Background, NewLayer
<1>2. new \in Layer(R) /\ new.id = next /\ new.kind = kind
  BY <1>1, NewLayerType
<1>3. Added(st, kind) = [layers |-> longer, next |-> next + 1]
  BY DEF Added
<1> HIDE DEF new, layers, next
<1>4. /\ longer \in Seq(Layer(R)) /\ Len(longer) = n + 1 /\ longer[n + 1] = new
      /\ \A i \in 1 .. n : longer[i] = layers[i]
  BY <1>1, <1>2
<1> HIDE DEF longer, n
<1>5. \A i \in 1 .. n : layers[i].id # next
  <2> SUFFICES ASSUME NEW i \in 1 .. n PROVE layers[i].id # next
    OBVIOUS
  <2>1. CASE i = 1
    BY <1>1, <2>1
  <2>2. CASE i # 1
    BY <1>1, <2>2
  <2> QED BY <2>1, <2>2
<1>6. ASSUME NEW i \in 1 .. (n + 1), NEW j \in 1 .. (n + 1), longer[i].id = longer[j].id
      PROVE  i = j
  <2>1. i = n + 1 \/ i \in 1 .. n
    BY <1>1
  <2>2. j = n + 1 \/ j \in 1 .. n
    BY <1>1
  <2> QED BY <1>1, <1>2, <1>4, <1>5, <1>6, <2>1, <2>2
<1>7. ASSUME NEW i \in 2 .. (n + 1)
      PROVE  longer[i].kind \in LayerKinds /\ longer[i].id \in 1 .. (next + 1 - 1)
  <2>1. CASE i = n + 1
    BY <1>1, <1>2, <1>4, <2>1
  <2>2. CASE i \in 2 .. n
    BY <1>1, <1>4, <2>2, SMTT(30)
  <2> QED BY <1>1, <2>1, <2>2
<1>8. InPlace(R, longer, next + 1)
  BY <1>1, <1>4, <1>6, <1>7 DEF InPlace
<1> QED BY <1>1, <1>3, <1>4, <1>8 DEF Stacked

\* A setting changes nothing that places a layer.
LEMMA HoldingStacked ==
  ASSUME NEW R, NEW st, Stacked(R, st), NEW i \in 2 .. Len(st.layers), NEW setting \in Settings,
         NEW value \in Values(R), setting = "adjustments" => value \in Tones(R)
  PROVE  Stacked(R, Holding(st, i, setting, value))
<1> DEFINE layers == st.layers  n == Len(layers)  next == st.next
           layer == [layers[i] EXCEPT !.holds[setting] = value]
           held == [layers EXCEPT ![i] = layer]
<1>1. /\ layers \in Seq(Layer(R)) /\ n \in Nat \ {0} /\ next \in Nat \ {0}
      /\ layers[1] = Background
      /\ \A k \in 2 .. n : layers[k].kind \in LayerKinds /\ layers[k].id \in 1 .. (next - 1)
      /\ \A k, j \in 1 .. n : layers[k].id = layers[j].id => k = j
      /\ i \in 2 .. n
  BY DEF Stacked, InPlace
<1>2. layers[i] \in Layer(R)
  BY <1>1
<1>3. layer \in Layer(R) /\ layer.id = layers[i].id /\ layer.kind = layers[i].kind
  <2> DEFINE old == layers[i]  holds == [old.holds EXCEPT ![setting] = value]
  <2>1. /\ old = [id |-> old.id, kind |-> old.kind, holds |-> old.holds]
        /\ old.id \in Nat /\ old.kind \in LayerKinds \cup {"background"}
        /\ old.holds \in [Settings -> Values(R)] /\ old.holds["adjustments"] \in Tones(R)
    BY <1>2 DEF Layer
  <2>2. layer = [id |-> old.id, kind |-> old.kind, holds |-> holds]
    BY <2>1
  <2>3. "adjustments" \in Settings
    BY DEF Settings, SettingOf
  <2> HIDE DEF old
  <2>4. holds \in [Settings -> Values(R)] /\ holds["adjustments"] \in Tones(R)
    BY <2>1, <2>3
  <2> HIDE DEF holds
  <2>5. layer \in Layer(R) /\ layer.id = old.id /\ layer.kind = old.kind
    BY <2>1, <2>2, <2>4 DEF Layer
  <2> QED BY <2>5 DEF old
<1>4. Holding(st, i, setting, value) = [layers |-> held, next |-> next]
  <2>1. st = [layers |-> layers, next |-> next]
    BY DEF Stacked
  <2>2. Holding(st, i, setting, value) = [st EXCEPT !.layers = held]
    BY Zenon DEF Holding
  <2> HIDE DEF held, layers, next
  <2> QED BY <2>1, <2>2
<1> HIDE DEF layer, layers, next
<1>5. /\ held \in Seq(Layer(R)) /\ Len(held) = n /\ held[i] = layer
      /\ \A k \in 1 .. n : k # i => held[k] = layers[k]
  BY <1>1, <1>3
<1> HIDE DEF held, n
<1>6. \A k \in 1 .. n : held[k].id = layers[k].id /\ held[k].kind = layers[k].kind
  BY <1>3, <1>5
<1>7. held[1] = Background
  BY <1>1, <1>5
<1>8. InPlace(R, held, next)
  BY <1>1, <1>5, <1>6, <1>7 DEF InPlace
<1> QED BY <1>1, <1>4, <1>8 DEF Stacked

\* What taking an element out of a sequence leaves, and what putting one in gives.
LEMMA RemoveAtFacts ==
  ASSUME NEW S, NEW s \in Seq(S), NEW i \in 1 .. Len(s)
  PROVE  /\ RemoveAt(s, i) \in Seq(S)
         /\ Len(RemoveAt(s, i)) = Len(s) - 1
         /\ \A j \in 1 .. (Len(s) - 1) : RemoveAt(s, i)[j] = s[IF j < i THEN j ELSE j + 1]
<1> DEFINE n == Len(s)  a == SubSeq(s, 1, i - 1)  b == SubSeq(s, i + 1, n)
<1>1. n \in Nat /\ i \in 1 .. n
  OBVIOUS
<1>2. /\ a \in Seq(S) /\ Len(a) = i - 1
      /\ \A j \in 1 .. (i - 1) : a[j] = s[j]
  BY <1>1
<1>3. /\ b \in Seq(S) /\ Len(b) = n - i
      /\ \A j \in 1 .. (n - i) : b[j] = s[i + j]
  BY <1>1
<1>4. RemoveAt(s, i) = a \o b
  BY DEF RemoveAt
<1> HIDE DEF a, b, n
<1>5. /\ a \o b \in Seq(S) /\ Len(a \o b) = n - 1
      /\ \A j \in 1 .. (n - 1) : (a \o b)[j] = IF j < i THEN a[j] ELSE b[j - (i - 1)]
  <2>1. /\ a \o b \in Seq(S) /\ Len(a \o b) = Len(a) + Len(b)
        /\ \A j \in 1 .. (Len(a) + Len(b)) :
             (a \o b)[j] = IF j <= Len(a) THEN a[j] ELSE b[j - Len(a)]
    BY <1>2, <1>3, ConcatProperties, Zenon
  <2>2. Len(a) + Len(b) = n - 1 /\ \A j \in 1 .. (n - 1) : j <= Len(a) <=> j < i
    BY <1>1, <1>2, <1>3
  <2> QED BY <1>2, <2>1, <2>2
<1>6. ASSUME NEW j \in 1 .. (n - 1)
      PROVE  (a \o b)[j] = s[IF j < i THEN j ELSE j + 1]
  <2>1. CASE j < i
    BY <1>1, <1>2, <1>5, <2>1
  <2>2. CASE ~ (j < i)
    <3>1. j - (i - 1) \in 1 .. (n - i) /\ i + (j - (i - 1)) = j + 1
      BY <1>1, <2>2
    <3>2. b[j - (i - 1)] = s[j + 1]
      BY <1>3, <3>1
    <3> QED BY <1>5, <2>2, <3>2
  <2> QED BY <2>1, <2>2
<1> QED BY <1>4, <1>5, <1>6 DEF n

Under(i, j) == IF j < i THEN j ELSE j - 1

LEMMA InsertAtFacts ==
  ASSUME NEW S, NEW s \in Seq(S), NEW i \in 1 .. (Len(s) + 1), NEW e \in S,
         NEW k \in 1 .. (Len(s) + 1)
  PROVE  /\ InsertAt(s, i, e) \in Seq(S)
         /\ Len(InsertAt(s, i, e)) = Len(s) + 1
         /\ InsertAt(s, i, e)[i] = e
         /\ k # i => InsertAt(s, i, e)[k] = s[Under(i, k)]
<1> DEFINE n == Len(s)  a == SubSeq(s, 1, i - 1)  b == SubSeq(s, i, n)
           c == a \o <<e>>
<1>1. n \in Nat /\ i \in 1 .. (n + 1)
  OBVIOUS
<1>2. /\ a \in Seq(S) /\ Len(a) = i - 1
      /\ \A j \in 1 .. (i - 1) : a[j] = s[j]
  BY <1>1
<1>3. /\ b \in Seq(S) /\ Len(b) = n + 1 - i
      /\ \A j \in 1 .. (n + 1 - i) : b[j] = s[i + j - 1]
  BY <1>1
<1>4. InsertAt(s, i, e) = c \o b
  BY DEF InsertAt
<1> HIDE DEF a, b, n
<1>5. /\ c \in Seq(S) /\ Len(c) = i /\ c[i] = e
      /\ \A j \in 1 .. (i - 1) : c[j] = a[j]
  BY <1>1, <1>2
<1> HIDE DEF c
<1>6. /\ c \o b \in Seq(S) /\ Len(c \o b) = n + 1
      /\ \A j \in 1 .. (n + 1) : (c \o b)[j] = IF j <= i THEN c[j] ELSE b[j - i]
  <2>1. /\ c \o b \in Seq(S) /\ Len(c \o b) = Len(c) + Len(b)
        /\ \A j \in 1 .. (Len(c) + Len(b)) :
             (c \o b)[j] = IF j <= Len(c) THEN c[j] ELSE b[j - Len(c)]
    BY <1>3, <1>5, ConcatProperties, Zenon
  <2>2. Len(c) + Len(b) = n + 1
    BY <1>1, <1>3, <1>5
  <2> QED BY <1>5, <2>1, <2>2
<1>7. (c \o b)[i] = e
  BY <1>1, <1>5, <1>6
<1>8. ASSUME NEW j \in 1 .. (n + 1), j # i
      PROVE  (c \o b)[j] = s[Under(i, j)]
  <2>1. CASE j < i
    BY <1>1, <1>2, <1>5, <1>6, <2>1 DEF Under
  <2>2. CASE ~ (j < i)
    <3>1. j - i \in 1 .. (n + 1 - i) /\ i + (j - i) - 1 = j - 1 /\ ~ (j <= i)
      BY <1>1, <1>8, <2>2
    <3>2. b[j - i] = s[j - 1]
      BY <1>3, <3>1
    <3> QED BY <1>6, <2>2, <3>1, <3>2 DEF Under
  <2> QED BY <2>1, <2>2
<1> QED BY <1>4, <1>6, <1>7, <1>8 DEF n

\* new takes each of its layers from another place.
Apart(p, m) == \A i, j \in 1 .. m : p[i] = p[j] => i = j
Taken(new, layers, p, m) == \A j \in 1 .. m : new[j] = layers[p[j]]

\* Layers left out or put elsewhere, each at most once, above the background.
LEMMA RearrangedInPlace ==
  ASSUME NEW R, NEW layers, NEW next, InPlace(R, layers, next),
         NEW new \in Seq(Layer(R)), NEW m \in Nat \ {0}, Len(new) = m,
         NEW n, Len(layers) = n,
         NEW p \in [1 .. m -> 1 .. n], p[1] = 1,
         Apart(p, m), Taken(new, layers, p, m)
  PROVE  InPlace(R, new, next)
<1>1. /\ n \in Nat \ {0} /\ m \in Nat \ {0} /\ layers[1] = Background
      /\ \A i \in 2 .. n : layers[i].kind \in LayerKinds /\ layers[i].id \in 1 .. (next - 1)
      /\ \A i, j \in 1 .. n : layers[i].id = layers[j].id => i = j
  BY DEF InPlace
<1>2. p \in [1 .. m -> 1 .. n]
  OBVIOUS
<1>d. /\ \A i, j \in 1 .. m : p[i] = p[j] => i = j
      /\ \A j \in 1 .. m : new[j] = layers[p[j]]
  BY DEF Apart, Taken
<1>3. new[1] = Background
  BY <1>1, <1>d
<1>4. ASSUME NEW i \in 2 .. m
      PROVE  new[i].kind \in LayerKinds /\ new[i].id \in 1 .. (next - 1)
  <2>1. i \in 1 .. m /\ 1 \in 1 .. m /\ i # 1
    BY <1>1
  <2>2. p[i] \in 1 .. n /\ p[i] # 1
    BY <1>2, <1>d, <2>1
  <2>3. p[i] \in 2 .. n
    BY <1>1, <2>2
  <2> QED BY <1>1, <1>d, <2>1, <2>3
<1>5. ASSUME NEW i \in 1 .. m, NEW j \in 1 .. m, new[i].id = new[j].id
      PROVE  i = j
  <2>1. p[i] \in 1 .. n /\ p[j] \in 1 .. n
    BY <1>2
  <2>2. layers[p[i]].id = layers[p[j]].id
    BY <1>5, <1>d
  <2>3. p[i] = p[j]
    BY <1>1, <2>1, <2>2
  <2> QED BY <1>d, <2>3
<1> QED BY <1>1, <1>3, <1>4, <1>5 DEF InPlace

LEMMA RemovedStacked ==
  ASSUME NEW R, NEW st, Stacked(R, st), NEW op
  PROVE  Stacked(R, Removed(st, op))
<1> DEFINE layers == st.layers  n == Len(layers)  next == st.next
           at == Movable(layers, op.target)
           new == RemoveAt(layers, at)
           p == [j \in 1 .. (n - 1) |-> IF j < at THEN j ELSE j + 1]
<1>1. /\ InPlace(R, layers, next) /\ next \in Nat \ {0} /\ st = [layers |-> layers, next |-> next]
      /\ layers \in Seq(Layer(R)) /\ n \in Nat \ {0}
  BY DEF Stacked, InPlace
<1>2. at \in {0} \cup 2 .. n
  BY <1>1, MovableAbove
<1>3. CASE at = 0
  BY <1>3 DEF Removed
<1>4. CASE at # 0
  <2>1. Removed(st, op) = [st EXCEPT !.layers = new]
    BY <1>4 DEF Removed
  <2>2. /\ at \in 2 .. n /\ at \in 1 .. n
    BY <1>1, <1>2, <1>4
  <2> HIDE DEF at, layers, next
  <2>3. /\ new \in Seq(Layer(R)) /\ Len(new) = n - 1
        /\ \A j \in 1 .. (n - 1) : new[j] = layers[IF j < at THEN j ELSE j + 1]
    BY <1>1, <2>2, RemoveAtFacts
  <2> HIDE DEF new, n
  <2>4. p \in [1 .. (n - 1) -> 1 .. n] /\ n - 1 \in Nat \ {0}
    BY <1>1, <2>2
  <2>5. p[1] = 1
    <3>1. 1 \in 1 .. (n - 1) /\ 1 < at
      BY <1>1, <2>2, <2>4
    <3> QED BY <3>1
  <2>6. \A i, j \in 1 .. (n - 1) : p[i] = p[j] => i = j
    BY <1>1, <2>2
  <2>7. \A j \in 1 .. (n - 1) : new[j] = layers[p[j]]
    BY <2>3
  <2> HIDE DEF p
  <2>8. InPlace(R, new, next)
    <3> DEFINE m == n - 1
    <3>1. Len(layers) = n
      BY DEF n
    <3>2. m \in Nat \ {0} /\ Len(new) = m
      BY <2>3, <2>4
    <3>3. p \in [1 .. m -> 1 .. n]
      BY <2>4
    <3>4. Apart(p, m)
      BY <2>6 DEF Apart
    <3>5. Taken(new, layers, p, m)
      BY <2>7 DEF Taken
    <3>6. InPlace(R, layers, next) /\ new \in Seq(Layer(R))
      BY <1>1, <2>3
    <3> HIDE DEF m
    <3> QED BY <2>5, <3>1, <3>2, <3>3, <3>4, <3>5, <3>6, RearrangedInPlace
  <2>9. Removed(st, op) = [layers |-> new, next |-> next]
    BY <1>1, <2>1
  <2> QED BY <1>1, <2>8, <2>9 DEF Stacked
<1> QED BY <1>3, <1>4

\* The index is brought between the background and the top.
LEMMA Clamped ==
  ASSUME NEW i \in Int, NEW m \in Nat \ {0}
  PROVE  Max({1, Min({i, m})}) \in 1 .. m
<1>1. Min({i, m}) \in {i, m} /\ Min({i, m}) <= i /\ Min({i, m}) <= m
  <2>1. \E x \in {i, m} : \A y \in {i, m} : x =< y
    BY i <= m \/ m <= i
  <2>2. Min({i, m}) \in {i, m} /\ \A y \in {i, m} : Min({i, m}) =< y
    BY <2>1 DEF Min
  <2> QED BY <2>2
<1> DEFINE k == Min({i, m})
<1>2. k \in Int /\ k <= m
  BY <1>1
<1> HIDE DEF k
<1>3. \E x \in {1, k} : \A y \in {1, k} : x >= y
  BY <1>2, 1 <= k \/ k <= 1
<1>4. Max({1, k}) \in {1, k} /\ \A y \in {1, k} : Max({1, k}) >= y
  BY <1>3 DEF Max
<1>5. Max({1, k}) \in 1 .. m
  BY <1>2, <1>4
<1> QED BY <1>5 DEF k

LEMMA ReorderedStacked ==
  ASSUME NEW R, NEW st, Stacked(R, st), NEW op, op.index \in Int
  PROVE  Stacked(R, Reordered(st, op))
<1> DEFINE layers == st.layers  n == Len(layers)  next == st.next
           at == Movable(layers, op.target)
           rest == RemoveAt(layers, at)
           place == Max({1, Min({op.index, n - 1})}) + 1
           new == InsertAt(rest, place, layers[at])
           kept(k) == IF k < at THEN k ELSE k + 1
           p == [j \in 1 .. n |-> IF j = place THEN at ELSE kept(IF j < place THEN j ELSE j - 1)]
<1>1. /\ InPlace(R, layers, next) /\ next \in Nat \ {0} /\ st = [layers |-> layers, next |-> next]
      /\ layers \in Seq(Layer(R)) /\ n \in Nat \ {0}
  BY DEF Stacked, InPlace
<1>2. at \in {0} \cup 2 .. n
  BY <1>1, MovableAbove
<1>3. CASE at = 0
  BY <1>3 DEF Reordered
<1>4. CASE at # 0
  <2>1. Reordered(st, op) = [st EXCEPT !.layers = new]
    BY <1>4, Zenon DEF Reordered
  <2>2. /\ at \in 2 .. n /\ at \in 1 .. n /\ n - 1 \in Nat \ {0}
    <3> HIDE DEF at, n
    <3> QED BY <1>1, <1>2, <1>4
  <2>3. place \in 2 .. n
    <3>1. Max({1, Min({op.index, n - 1})}) \in 1 .. (n - 1)
      BY <2>2, Clamped
    <3> QED BY <2>2, <3>1
  <2> HIDE DEF at, layers, next, place
  <2>4. /\ rest \in Seq(Layer(R)) /\ Len(rest) = n - 1 /\ layers[at] \in Layer(R)
        /\ \A j \in 1 .. (n - 1) : rest[j] = layers[kept(j)]
    BY <1>1, <2>2, RemoveAtFacts
  <2> HIDE DEF rest
  <2>5. /\ new \in Seq(Layer(R)) /\ Len(new) = n /\ new[place] = layers[at]
        /\ \A j \in 1 .. n : j # place => new[j] = rest[IF j < place THEN j ELSE j - 1]
    <3>1. place \in 1 .. (Len(rest) + 1) /\ Len(rest) + 1 = n
      BY <2>2, <2>3, <2>4
    <3> HIDE DEF n
    <3> DEFINE e == layers[at]
    <3>2. e \in Layer(R)
      BY <2>4
    <3>3. /\ InsertAt(rest, place, e) \in Seq(Layer(R))
          /\ Len(InsertAt(rest, place, e)) = Len(rest) + 1
          /\ InsertAt(rest, place, e)[place] = e
      <4> HIDE DEF e
      <4> QED BY <2>4, <3>1, <3>2, InsertAtFacts
    <3>4. \A j \in 1 .. (Len(rest) + 1) :
            j # place => InsertAt(rest, place, e)[j] = rest[IF j < place THEN j ELSE j - 1]
      <4> SUFFICES ASSUME NEW j \in 1 .. (Len(rest) + 1), j # place
                   PROVE  InsertAt(rest, place, e)[j] = rest[IF j < place THEN j ELSE j - 1]
        OBVIOUS
      <4>1. rest \in Seq(Layer(R))
        BY <2>4
      <4>2. place \in 1 .. (Len(rest) + 1)
        BY <3>1
      <4> HIDE DEF e
      <4> QED BY <3>2, <4>1, <4>2, InsertAtFacts DEF Under
    <3> QED BY <3>1, <3>3, <3>4
  <2> HIDE DEF new, n
  <2>6. p \in [1 .. n -> 1 .. n]
    BY <1>1, <2>2, <2>3
  <2>7. p[1] = 1
    <3>1. 1 \in 1 .. n /\ 1 < at /\ 1 < place
      BY <1>1, <2>2, <2>3
    <3> QED BY <3>1
  <2>8. \A i, j \in 1 .. n : p[i] = p[j] => i = j
    BY <1>1, <2>2, <2>3
  <2>9. \A j \in 1 .. n : new[j] = layers[p[j]]
    <3> SUFFICES ASSUME NEW j \in 1 .. n PROVE new[j] = layers[p[j]]
      OBVIOUS
    <3>1. CASE j = place
      BY <2>5, <3>1
    <3>2. CASE j # place
      <4> DEFINE k == IF j < place THEN j ELSE j - 1
      <4>1. k \in 1 .. (n - 1)
        BY <1>1, <2>3, <3>2
      <4>2. new[j] = rest[k]
        BY <2>5, <3>2
      <4>3. p[j] = kept(k)
        BY <3>2
      <4> HIDE DEF k, kept, p
      <4> QED BY <2>4, <4>1, <4>2, <4>3
    <3> QED BY <3>1, <3>2
  <2> HIDE DEF p
  <2>10. InPlace(R, new, next)
    <3>1. Len(layers) = n
      BY DEF n
    <3> DEFINE m == n
    <3>2. m \in Nat \ {0} /\ Len(new) = m
      BY <1>1, <2>5
    <3>3. p \in [1 .. m -> 1 .. n]
      BY <2>6
    <3>4. Apart(p, m)
      BY <2>8 DEF Apart
    <3>5. Taken(new, layers, p, m)
      BY <2>9 DEF Taken
    <3>6. InPlace(R, layers, next) /\ new \in Seq(Layer(R))
      BY <1>1, <2>5
    <3> HIDE DEF kept, m
    <3> QED BY <2>7, <3>1, <3>2, <3>3, <3>4, <3>5, <3>6, RearrangedInPlace
  <2>11. Reordered(st, op) = [layers |-> new, next |-> next]
    BY <1>1, <2>1
  <2> QED BY <1>1, <2>10, <2>11 DEF Stacked
<1> QED BY <1>3, <1>4

LEMMA AdjustedStacked ==
  ASSUME NEW R, NEW st, Stacked(R, st), NEW op \in R, op.kind = "adjust"
  PROVE  Stacked(R, Adjusted(st, op))
<1> DEFINE at == Resolve(st.layers, op.target)
           more == Added(st, "adjustment")
<1>1. at \in {0} \cup 2 .. Len(st.layers)
  BY ResolvedAbove DEF Stacked
<1>2. op.value \in Values(R) /\ op.value \in Tones(R) /\ "adjustments" \in Settings
  BY DEF Values, Tones, Settings, SettingOf
<1>3. CASE at = 0
  <2>1. Stacked(R, more) /\ Len(more.layers) \in 2 .. Len(more.layers)
    BY AddedStacked DEF LayerKinds
  <2>2. Adjusted(st, op) = Holding(more, Len(more.layers), "adjustments", op.value)
    BY <1>3 DEF Adjusted
  <2> QED BY <1>2, <2>1, <2>2, HoldingStacked
<1>4. CASE at # 0
  <2>1. Adjusted(st, op) = Holding(st, at, "adjustments", op.value)
    BY <1>4 DEF Adjusted
  <2>2. at \in 2 .. Len(st.layers)
    BY <1>1, <1>4
  <2> HIDE DEF at
  <2> QED BY <1>2, <2>1, <2>2, HoldingStacked
<1> QED BY <1>3, <1>4

LEMMA WithSettingStacked ==
  ASSUME NEW R, NEW st, Stacked(R, st), NEW op \in R, op.kind \in DOMAIN SettingOf \ {"adjust"}
  PROVE  Stacked(R, WithSetting(st, op))
<1> DEFINE at == Resolve(st.layers, op.target)
<1>1. at \in {0} \cup 2 .. Len(st.layers)
  BY ResolvedAbove DEF Stacked
<1>2. /\ op.value \in Values(R) /\ SettingOf[op.kind] \in Settings
      /\ SettingOf[op.kind] # "adjustments"
  BY DEF Values, Settings, SettingOf
<1>3. CASE at = 0
  BY <1>3 DEF WithSetting
<1>4. CASE at # 0
  <2>1. WithSetting(st, op) = Holding(st, at, SettingOf[op.kind], op.value)
    BY <1>4 DEF WithSetting
  <2>2. at \in 2 .. Len(st.layers)
    BY <1>1, <1>4
  <2> HIDE DEF at
  <2> QED BY <1>2, <2>1, <2>2, HoldingStacked
<1> QED BY <1>3, <1>4

LEMMA LayeredStacked ==
  ASSUME NEW R, NEW st, Stacked(R, st), Sound(R), NEW op \in R
  PROVE  Stacked(R, Layered(st, op))
<1>1. CASE op.kind = "addLayer"
  <2>1. op.layer \in LayerKinds
    BY <1>1 DEF Sound
  <2>2. Layered(st, op) = Added(st, op.layer)
    BY <1>1 DEF Layered, SettingOf
  <2> QED BY <2>1, <2>2, AddedStacked
<1>2. CASE op.kind = "adjust"
  BY <1>2, AdjustedStacked DEF Layered
<1>3. CASE op.kind = "removeLayer"
  <2>1. Layered(st, op) = Removed(st, op)
    BY <1>3 DEF Layered, SettingOf
  <2> QED BY <2>1, RemovedStacked
<1>4. CASE op.kind = "reorderLayer"
  <2>1. op.index \in Int
    BY <1>4 DEF Sound
  <2>2. Layered(st, op) = Reordered(st, op)
    BY <1>4 DEF Layered, SettingOf
  <2> QED BY <2>1, <2>2, ReorderedStacked
<1>5. CASE op.kind \notin {"addLayer", "adjust", "removeLayer", "reorderLayer"}
  <2>1. CASE op.kind \in DOMAIN SettingOf
    <3>0. op.kind \in DOMAIN SettingOf \ {"adjust"}
      BY <1>5, <2>1
    <3>1. Layered(st, op) = WithSetting(st, op)
      BY <1>5, <2>1 DEF Layered
    <3> QED BY <3>0, <3>1, WithSettingStacked
  <2>2. CASE op.kind \notin DOMAIN SettingOf
    BY <1>5, <2>2 DEF Layered
  <2> QED BY <2>1, <2>2
<1> QED BY <1>1, <1>2, <1>3, <1>4, <1>5

\* However long the stack.
LEMMA ReplayedStacked ==
  ASSUME NEW R, Sound(R), NEW s, Len(s) \in Nat, \A i \in 1 .. Len(s) : s[i] \in R
  PROVE  Stacked(R, Replayed(s))
<1> DEFINE f == Layering(s)
           m == Len(s)
           T == {n \in 0 .. m : ~ Stacked(R, f[n])}
<1>1. f[0] = Bare /\ \A n \in 1 .. m : f[n] = Layered(f[n - 1], s[n])
  BY LayeringsFold, LayeringStep
<1>2. T = {}
  <2> SUFFICES ASSUME T # {} PROVE FALSE
    OBVIOUS
  <2>1. PICK x \in T : \A y \in T : x <= y
    <3>1. T \in SUBSET Nat
      OBVIOUS
    <3> HIDE DEF T
    <3> QED BY <3>1, HasLeast
  <2> HIDE DEF f
  <2>2. x # 0
    BY <1>1, <2>1, BareStacked
  <2>3. x \in 1 .. m /\ x - 1 \in 0 .. m /\ ~ (x <= x - 1)
    BY <2>1, <2>2
  <2>4. Stacked(R, f[x - 1])
    BY <2>1, <2>3
  <2>5. Stacked(R, f[x])
    BY <1>1, <2>3, <2>4, LayeredStacked
  <2> QED BY <2>1, <2>5
<1>3. Stacked(R, f[m])
  <2>1. m \in 0 .. m
    OBVIOUS
  <2> HIDE DEF f, m
  <2> QED BY <1>2, <2>1
<1> QED BY <1>3 DEF Replayed

\* Such layers are as a render relies on them.
LEMMA StackedWell ==
  ASSUME NEW R, NEW st, Stacked(R, st)
  PROVE  st.layers \in Seq(Layer(R)) /\ WellFormed(st.layers)
<1> DEFINE layers == st.layers
<1>1. InPlace(R, layers, st.next) /\ st.next \in Nat
  BY DEF Stacked
<1> HIDE DEF layers
<1>2. /\ layers \in Seq(Layer(R)) /\ layers[1] = Background
      /\ \A i, j \in 1 .. Len(layers) : layers[i].id = layers[j].id => i = j
  BY <1>1, Zenon DEF InPlace
<1>3. \A i \in 2 .. Len(layers) : layers[i].kind \in LayerKinds /\ layers[i].id # 0
  BY <1>1 DEF InPlace
<1>4. DOMAIN layers = 1 .. Len(layers)
  BY <1>2
<1>5. WellFormed(layers)
  BY <1>2, <1>3, <1>4, Zenon DEF WellFormed
<1> QED BY <1>2, <1>5 DEF layers

\* At every point of a history of any length, for any operations the renderer
\* sends, the background is below as it was decoded and each layer has a number of
\* its own, though layers are numbered afresh at each replay and operations may
\* name layers that are gone (FoldLayers).
THEOREM PointsHaveTheirLayers == Spec => []EveryPointHasItsLayers
<1>1. ASSUME TypeOK PROVE EveryPointHasItsLayers
  <2> SUFFICES ASSUME NEW n \in 0 .. Len(entries) PROVE WellFormed(FoldLayers(Point(n)))
    BY DEF EveryPointHasItsLayers
  <2>1. n \in Nat /\ Len(entries) \in Nat
    BY <1>1 DEF TypeOK
  <2>2. Len(Point(n)) = n /\ \A i \in 1 .. n : Point(n)[i] = entries[i].op
    BY <1>1, PointFacts
  <2>3. \A i \in 1 .. n : Point(n)[i] \in Requests
    <3> SUFFICES ASSUME NEW i \in 1 .. n PROVE Point(n)[i] \in Requests
      OBVIOUS
    <3>1. i \in 1 .. Len(entries)
      BY <2>1
    <3> QED BY <1>1, <2>2, <3>1, EntryFacts
  <2>4. Stacked(Requests, Replayed(Point(n)))
    <3>1. Sound(Requests)
      BY RequestAssumption DEF Sound
    <3> QED BY <2>1, <2>2, <2>3, <3>1, ReplayedStacked
  <2> QED BY <2>4, LayeringFolds, StackedWell
<1>2. IInv => EveryPointHasItsLayers
  BY <1>1 DEF IInv
<1> QED BY <1>2, InvariantHolds, PTL

-----------------------------------------------------------------------------
(* The editor store: the values its state is made of.                      *)

\* The values of a setting that are not another layer's number.
Words == {"turned", "filled", "backdrop", "image"}

\* What an editor sends, and what a project brings.
Ops ==
  UNION {[kind : {"adjust"}, target : Int, value : SUBSET AnyControl],
         [kind : DOMAIN SettingOf \ {"adjust"}, target : Int, value : Int \cup Words],
         [kind : {"addLayer"}, layer : LayerKinds, target : Int],
         [kind : {"reorderLayer"}, target : Int, index : Int],
         [kind : {"removeLayer", "crop", "rotate"}, target : Int],
         Range(ProjectOps)}

Stacks == {e \in [live : BOOLEAN, ops : Seq(Ops), at : Nat] : e.at <= Len(e.ops)}

Lists == {layers \in Seq(Layer(Ops)) : layers # <<>> => WellFormed(layers)}

StoreSteps == EditSteps \cup JobSteps \cup {"replaced", "read", "paint", "toolStored"}

\* The steps that have a tool in hand.
ToolSteps == {"sampled", "toolAdded", "toolStored", "toolMasked", "toolAdjusted", "toolMoved"}

Calls ==
  {c \in [step : StoreSteps \cup {""}, doc : Docs, home : Docs, target : Int, before : SUBSET Int,
          tool : Tools \cup {""}, rest : Seq(Tools), drag : BOOLEAN,
          serial : [opens : Nat, others : Nat]] :
     /\ c.step \in ToolSteps => c.tool \in Tools
     /\ c.step \in {"openImage", "openProject"} => c.doc = c.home}

Replies == [call : {c \in Calls : c.step \in StoreSteps}, ok : BOOLEAN, layers : Lists]

Stores == [document : {0} \cup Docs, history : [doc : {0} \cup Docs, layers : Lists],
           pending : {Unset} \cup SUBSET AnyControl, selected : Int,
           portrait : [found : BOOLEAN, faces : BOOLEAN, tools : [Tools -> Int]],
           busy : BusyNames, crop : BOOLEAN, brush : BOOLEAN, suggested : BOOLEAN]

Worlds == [engine : [Docs -> Stacks], session : {0} \cup Docs, store : Stores,
           jobs : SUBSET {c \in Calls : c.step \in JobSteps}, answers : Seq(Replies)]

\* What a document's stack shows.
Prefix(e) == FoldLayers(SubSeq(e.ops, 1, e.at))

LEMMA OpsAreSound == Sound(Ops)
<1>1. \A op \in Range(ProjectOps) :
        /\ op.kind = "addLayer" => op.layer \in LayerKinds
        /\ op.kind = "reorderLayer" => op.index \in Int
  BY ProjectAssumption
<1> QED BY <1>1 DEF Sound, Ops, SettingOf

\* What an adjustment holds is a set of controls.
LEMMA OpsTones == Tones(Ops) \subseteq {Unset} \cup SUBSET AnyControl
<1> SUFFICES ASSUME NEW op \in Ops, op.kind = "adjust" PROVE op.value \subseteq AnyControl
  BY DEF Tones
<1>1. \A p \in Range(ProjectOps) : p.kind = "adjust" => p.value \subseteq AnyControl
  BY ProjectAssumption
<1> QED BY <1>1 DEF Ops, SettingOf

\* A stack shows layers, and a closed one too.
LEMMA PrefixIsAList ==
  ASSUME NEW e \in Stacks PROVE Prefix(e) \in Lists
<1> DEFINE ops == SubSeq(e.ops, 1, e.at)
<1>1. e.ops \in Seq(Ops) /\ e.at \in Nat /\ e.at <= Len(e.ops)
  BY DEF Stacks
<1>2. Len(ops) \in Nat /\ \A i \in 1 .. Len(ops) : ops[i] \in Ops
  <2>1. e.at \in 0 .. Len(e.ops)
    BY <1>1
  <2>2. ops \in Seq(Ops)
    BY <1>1, <2>1
  <2> HIDE DEF ops
  <2> QED BY <2>2
<1> HIDE DEF ops
<1>3. Stacked(Ops, Replayed(ops))
  BY <1>2, OpsAreSound, ReplayedStacked
<1> DEFINE layers == Replayed(ops).layers
<1>4. layers \in Seq(Layer(Ops)) /\ WellFormed(layers)
  BY <1>3, StackedWell
<1>5. Prefix(e) = layers
  BY LayeringFolds DEF Prefix, ops
<1> HIDE DEF layers
<1> QED BY <1>4, <1>5 DEF Lists
-----------------------------------------------------------------------------
(* The editor store: what its calls, its answers and the engine have to do *)
(* with each other, whatever is in flight.                                 *)

Openers == {"openImage", "openProject"}

\* What follows the opening of a photograph until it is on screen.
Arriving == Openers \cup {"replaced"}

\* The answers whose layers the store takes over.
Adopting == EditSteps \cup {"read"}

\* The calls that answer for a name on the status bar.
Naming == {"openImage", "openProject", "replaced", "segment", "background", "fill",
           "detect", "analyse", "export"}

Places(w) == 1 .. Len(w.answers)
Afoot(w) == w.jobs \cup {w.answers[i].call : i \in Places(w)}

\* Somebody will take the name back.
Named(w) ==
  w.store.busy \notin {"none", "rendering"} => \E c \in Afoot(w) : c.step \in Naming

\* A document no call can change any more, or the one on screen.
AtHand(w, d) == d = w.store.document \/ ~w.engine[d].live

\* The calls that are not openings speak of documents that were on screen: the one
\* that is, and those that were closed.
Mine(w, top, c) ==
  /\ c.doc <= top /\ AtHand(w, c.doc)
  /\ c.home <= top /\ AtHand(w, c.home)
  /\ \A o \in Afoot(w) : o.step \in Arriving => o.home # c.doc /\ o.home # c.home

\* An opening's document was not on screen yet.
Coming(w, top, c) ==
  /\ c.home <= top /\ c.home # w.store.document
  /\ c.step \in Openers => c.doc = c.home

Placed(w, top) ==
  /\ w.store.document <= top
  /\ \A c \in Afoot(w) : IF c.step \in Arriving THEN Coming(w, top, c) ELSE Mine(w, top, c)

\* One opening at a time, and one close of what it replaces, which leaves nothing
\* on screen and comes before the next opening's answer.
OneOpening(w) ==
  /\ \A c, o \in w.jobs : c.step \in Openers /\ o.step \in Openers => c = o
  /\ \A i, j \in Places(w) :
        w.answers[i].call.step \in Openers /\ w.answers[j].call.step \in Openers => i = j
  /\ \A c \in w.jobs, i \in Places(w) :
        ~(c.step \in Openers /\ w.answers[i].call.step \in Openers)

Replacing(w, i) == w.answers[i].call.step = "replaced"

OneClose(w) ==
  \A j \in Places(w) : Replacing(w, j) =>
    /\ w.store.document = 0
    /\ \A i \in Places(w) : Replacing(w, i) => i = j
    /\ \A i \in Places(w) : w.answers[i].call.step \in Openers => j < i
    /\ \A c \in Afoot(w) : c.step \in Openers => c.home # w.answers[j].call.home

\* An answer the store will take over.
Telling(w, i) == w.answers[i].ok /\ w.answers[i].call.step \in Adopting

\* It is about the document on screen, or comes before that one leaves it.
InTime(w) ==
  \A i \in Places(w) : Telling(w, i) =>
    \/ w.answers[i].call.doc = w.store.document
    \/ \E j \in Places(w) : i < j /\ Replacing(w, j)

\* The stack in the panel is the one of the photograph on the canvas.
OnShow(w) ==
  w.store.document # 0 /\ w.store.history.layers # <<>>
    => w.store.history.doc = w.store.document

\* The session is the last document that was opened, of those on their way to the
\* screen and the one there.
Opened(w, i) == w.answers[i].ok /\ w.answers[i].call.step \in Openers

Held(w) ==
  /\ \A i \in Places(w) : Opened(w, i) =>
        /\ w.session = w.answers[i].call.home
        /\ w.engine[w.answers[i].call.home].live
        /\ w.answers[i].layers = LayersOf(w, w.answers[i].call.home)
  /\ \A i \in Places(w) : Replacing(w, i) =>
        /\ w.engine[w.answers[i].call.home].live
        /\ (\A j \in Places(w) : ~Opened(w, j)) => w.session = w.answers[i].call.home
  /\ (\A i \in Places(w) : ~Opened(w, i) /\ ~Replacing(w, i)) => w.session = w.store.document
  /\ w.store.document # 0 => w.engine[w.store.document].live

\* The panel shows the engine's stack, or the last answer about it will.
Newest(w, m) ==
  /\ Telling(w, m) /\ w.answers[m].call.doc = w.store.document
  /\ \A i \in Places(w) : Telling(w, i) => i <= m

Followed(w) ==
  w.store.document # 0 =>
    \/ \E m \in Places(w) : Newest(w, m) /\ w.answers[m].layers = LayersOf(w, w.store.document)
    \/ /\ \A i \in Places(w) : ~Telling(w, i)
       /\ w.store.history = [doc |-> w.store.document, layers |-> LayersOf(w, w.store.document)]

\* A move of the panel's own waits for its answer.
Awaited(w) ==
  w.store.document # 0 /\ w.store.pending # Unset =>
    \E i \in Places(w) : w.answers[i].ok /\ w.answers[i].call.step \in EditSteps

Linked(w, top) ==
  /\ Placed(w, top) /\ OneOpening(w) /\ OneClose(w) /\ InTime(w) /\ OnShow(w) /\ Held(w)
  /\ Followed(w)

OneTool(w) == ~(w.store.crop /\ w.store.brush)

\* top is the number of openings so far, mess whether two of them overlapped.
Sane(w, top, mess) ==
  /\ w \in Worlds /\ Named(w) /\ OneTool(w)
  /\ mess = FALSE => Linked(w, top) /\ Awaited(w)

Fit(w, top, mess, c) == c \in Calls /\ (mess = FALSE => Mine(w, top, c))
-----------------------------------------------------------------------------
(* What a call does: an answer goes to the end of the queue, and the stack *)
(* of its document may be another.                                         *)

Replied(w, v, c, e, ok) ==
  /\ v \in Worlds
  /\ v.session = w.session /\ v.store = w.store /\ v.jobs = w.jobs
  /\ v.engine = [w.engine EXCEPT ![c.doc] = e]
  /\ Len(v.answers) = Len(w.answers) + 1
  /\ \A i \in Places(w) : v.answers[i] = w.answers[i]
  /\ v.answers[Len(w.answers) + 1] = [call |-> c, ok |-> ok, layers |-> Prefix(e)]

Callable(c) == c \in Calls /\ c.step \in StoreSteps

\* A world is a record of its five parts.
LEMMA WorldFields ==
  ASSUME NEW w \in Worlds
  PROVE  /\ w = [engine |-> w.engine, session |-> w.session, store |-> w.store,
                 jobs |-> w.jobs, answers |-> w.answers]
         /\ w.engine \in [Docs -> Stacks] /\ w.session \in {0} \cup Docs /\ w.store \in Stores
         /\ w.jobs \in SUBSET {c \in Calls : c.step \in JobSteps} /\ w.answers \in Seq(Replies)
         /\ Len(w.answers) \in Nat
BY DEF Worlds

LEMMA WorldMade ==
  ASSUME NEW engines \in [Docs -> Stacks], NEW sess \in {0} \cup Docs, NEW st \in Stores,
         NEW js \in SUBSET {c \in Calls : c.step \in JobSteps}, NEW as \in Seq(Replies)
  PROVE  [engine |-> engines, session |-> sess, store |-> st, jobs |-> js, answers |-> as] \in Worlds
BY DEF Worlds

LEMMA AnsweredIs ==
  ASSUME NEW w \in Worlds, NEW c, Callable(c), NEW ok \in BOOLEAN
  PROVE  /\ Answered(w, c, ok) =
              [engine |-> w.engine, session |-> w.session, store |-> w.store, jobs |-> w.jobs,
               answers |-> Append(w.answers, [call |-> c, ok |-> ok,
                                              layers |-> Prefix(w.engine[c.doc])])]
         /\ Answered(w, c, ok) \in Worlds
         /\ [call |-> c, ok |-> ok, layers |-> Prefix(w.engine[c.doc])] \in Replies
<1> DEFINE a == [call |-> c, ok |-> ok, layers |-> Prefix(w.engine[c.doc])]
<1>1. w.engine[c.doc] \in Stacks
  BY WorldFields DEF Callable, Calls
<1>2. Prefix(w.engine[c.doc]) \in Lists
  BY <1>1, PrefixIsAList
<1>3. a \in Replies
  BY <1>2 DEF Replies, Callable
<1>4. LayersOf(w, c.doc) = Prefix(w.engine[c.doc])
  BY DEF LayersOf, Prefix
<1>5. Answered(w, c, ok) = [w EXCEPT !.answers = Append(w.answers, a)]
  BY <1>4, Zenon DEF Answered
<1> HIDE DEF a
<1> DEFINE more == Append(w.answers, a)
<1>w. /\ w = [engine |-> w.engine, session |-> w.session, store |-> w.store,
              jobs |-> w.jobs, answers |-> w.answers]
      /\ w.engine \in [Docs -> Stacks] /\ w.session \in {0} \cup Docs /\ w.store \in Stores
      /\ w.jobs \in SUBSET {x \in Calls : x.step \in JobSteps} /\ w.answers \in Seq(Replies)
  BY WorldFields
<1>7. more \in Seq(Replies)
  BY <1>3, <1>w
<1>6. Answered(w, c, ok) = [engine |-> w.engine, session |-> w.session, store |-> w.store,
                            jobs |-> w.jobs, answers |-> more]
  <2> HIDE DEF more
  <2> QED BY <1>5, <1>w DEF more
<1> HIDE DEF more
<1>8. Answered(w, c, ok) \in Worlds
  BY <1>6, <1>7, <1>w, WorldMade
<1> QED BY <1>3, <1>6, <1>8 DEF a, more

\* With another stack, the answer tells of it.
LEMMA RepliedBy ==
  ASSUME NEW w \in Worlds, NEW c, Callable(c), NEW e \in Stacks, NEW ok \in BOOLEAN
  PROVE  Replied(w, Answered([w EXCEPT !.engine = [w.engine EXCEPT ![c.doc] = e]], c, ok), c, e, ok)
<1> DEFINE x == [w EXCEPT !.engine = [w.engine EXCEPT ![c.doc] = e]]
           a == [call |-> c, ok |-> ok, layers |-> Prefix(e)]
           v == Answered(x, c, ok)
<1>1. c.doc \in Docs
  BY DEF Callable, Calls
<1>2. [w.engine EXCEPT ![c.doc] = e] \in [Docs -> Stacks]
  BY <1>1, WorldFields
<1>3. x = [engine |-> [w.engine EXCEPT ![c.doc] = e], session |-> w.session, store |-> w.store,
           jobs |-> w.jobs, answers |-> w.answers]
  BY WorldFields
<1>4. x \in Worlds
  <2> DEFINE en == [w.engine EXCEPT ![c.doc] = e]
  <2>1. en \in [Docs -> Stacks]
    BY <1>2
  <2>2. /\ w.session \in {0} \cup Docs /\ w.store \in Stores
        /\ w.jobs \in SUBSET {y \in Calls : y.step \in JobSteps} /\ w.answers \in Seq(Replies)
    BY WorldFields
  <2>3. x = [engine |-> en, session |-> w.session, store |-> w.store,
             jobs |-> w.jobs, answers |-> w.answers]
    BY <1>3
  <2> HIDE DEF en, x
  <2> QED BY <2>1, <2>2, <2>3, WorldMade
<1>5. /\ x.engine = [w.engine EXCEPT ![c.doc] = e] /\ x.session = w.session /\ x.store = w.store
      /\ x.jobs = w.jobs /\ x.answers = w.answers
  BY <1>3
<1>6. x.engine[c.doc] = e
  BY <1>1, <1>5, WorldFields
<1> HIDE DEF x
<1>7. /\ v = [engine |-> x.engine, session |-> x.session, store |-> x.store, jobs |-> x.jobs,
              answers |-> Append(x.answers, a)]
      /\ v \in Worlds /\ a \in Replies
  BY <1>4, <1>6, AnsweredIs
<1> HIDE DEF a
<1>8. /\ v.session = w.session /\ v.store = w.store /\ v.jobs = w.jobs
      /\ v.engine = [w.engine EXCEPT ![c.doc] = e] /\ v.answers = Append(w.answers, a)
  BY <1>5, <1>7
<1> HIDE DEF v
<1>9. w.answers \in Seq(Replies) /\ Len(w.answers) \in Nat
  BY WorldFields
<1>10. /\ Len(v.answers) = Len(w.answers) + 1 /\ v.answers[Len(w.answers) + 1] = a
       /\ \A i \in 1 .. Len(w.answers) : v.answers[i] = w.answers[i]
  BY <1>7, <1>8, <1>9
<1> QED BY <1>7, <1>8, <1>10 DEF Replied, Places, a, v, x

\* A call that changes no stack.
LEMMA RepliedAlone ==
  ASSUME NEW w \in Worlds, NEW c, Callable(c), NEW ok \in BOOLEAN
  PROVE  Replied(w, Answered(w, c, ok), c, w.engine[c.doc], ok)
<1>1. c.doc \in Docs
  BY DEF Callable, Calls
<1>2. [w.engine EXCEPT ![c.doc] = w.engine[c.doc]] = w.engine /\ w.engine[c.doc] \in Stacks
  BY <1>1, WorldFields
<1>3. [w EXCEPT !.engine = w.engine] = w
  BY WorldFields
<1>4. Replied(w, Answered([w EXCEPT !.engine = [w.engine EXCEPT ![c.doc] = w.engine[c.doc]]], c, ok),
              c, w.engine[c.doc], ok)
  BY <1>2, RepliedBy
<1> QED BY <1>2, <1>3, <1>4

\* An operation or a place in the history is answered with success where the
\* document is open, and else changes nothing.
Changed(w, v, c) ==
  \E e \in Stacks :
    IF w.engine[c.doc].live THEN e.live /\ Replied(w, v, c, e, TRUE)
                            ELSE e = w.engine[c.doc] /\ Replied(w, v, c, e, FALSE)

LEMMA StackFields ==
  ASSUME NEW e \in Stacks
  PROVE  /\ e = [live |-> e.live, ops |-> e.ops, at |-> e.at]
         /\ e.live \in BOOLEAN /\ e.ops \in Seq(Ops) /\ e.at \in 0 .. Len(e.ops)
         /\ Len(e.ops) \in Nat
BY DEF Stacks

LEMMA StackMade ==
  ASSUME NEW ops \in Seq(Ops), NEW at \in 0 .. Len(ops), NEW live \in BOOLEAN
  PROVE  [live |-> live, ops |-> ops, at |-> at] \in Stacks
BY DEF Stacks

LEMMA EditedChanges ==
  ASSUME NEW w \in Worlds, NEW c, Callable(c), NEW op \in Ops, NEW continuing
  PROVE  Changed(w, Edited(w, c, op, continuing), c)
<1> DEFINE e == w.engine[c.doc]
           kept == SubSeq(e.ops, 1, e.at)
           rewrite == continuing /\ e.at > 0 /\ Last(kept).kind = op.kind
           ops == IF rewrite THEN [kept EXCEPT ![e.at] = op] ELSE Append(kept, op)
           new == [live |-> e.live, ops |-> ops, at |-> Len(ops)]
           y == [w EXCEPT !.engine[c.doc].ops = ops, !.engine[c.doc].at = Len(ops)]
<1>1. e \in Stacks /\ c.doc \in Docs
  BY WorldFields DEF Callable, Calls
<1>2. Edited(w, c, op, continuing) =
        IF ~e.live THEN Answered(w, c, FALSE) ELSE Answered(y, c, TRUE)
  BY Zenon DEF Edited
<1>3. CASE ~e.live
  <2>1. Replied(w, Answered(w, c, FALSE), c, e, FALSE)
    BY RepliedAlone
  <2> QED BY <1>1, <1>2, <1>3, <2>1 DEF Changed
<1>4. CASE e.live
  <2>1. e = [live |-> e.live, ops |-> e.ops, at |-> e.at]
    BY <1>1, StackFields
  <2> HIDE DEF ops
  <2>2. y = [w EXCEPT !.engine = [w.engine EXCEPT ![c.doc] = new]]
    <3> DEFINE en == w.engine  d == c.doc
               half == [en[d] EXCEPT !.ops = ops]
               mid == [w EXCEPT !.engine = [en EXCEPT ![d] = half]]
    <3>1. y = [mid EXCEPT !.engine[d].at = Len(ops)]
      BY Zenon
    <3>2. w = [engine |-> en, session |-> w.session, store |-> w.store, jobs |-> w.jobs,
               answers |-> w.answers] /\ en \in [Docs -> Stacks] /\ d \in Docs
      BY <1>1, WorldFields
    <3>3. half = [live |-> e.live, ops |-> ops, at |-> e.at]
      BY <2>1
    <3> HIDE DEF half, en, d
    <3>4. mid = [engine |-> [en EXCEPT ![d] = half], session |-> w.session, store |-> w.store,
                 jobs |-> w.jobs, answers |-> w.answers]
      BY <3>2
    <3> HIDE DEF mid
    <3>5. mid.engine = [en EXCEPT ![d] = half] /\ mid.engine[d] = half
      BY <3>2, <3>4
    <3>6. [half EXCEPT !.at = Len(ops)] = new
      BY <3>3
    <3>7. y = [mid EXCEPT !.engine = [mid.engine EXCEPT ![d] = [mid.engine[d] EXCEPT !.at = Len(ops)]]]
      BY <3>1, Zenon
    <3> HIDE DEF new, y
    <3>8. y = [mid EXCEPT !.engine = [mid.engine EXCEPT ![d] = new]]
      BY <3>5, <3>6, <3>7
    <3>9. [mid.engine EXCEPT ![d] = new] = [en EXCEPT ![d] = new]
      BY <3>2, <3>5
    <3>10. y = [mid EXCEPT !.engine = [en EXCEPT ![d] = new]]
      BY <3>8, <3>9
    <3>11. y = [w EXCEPT !.engine = [en EXCEPT ![d] = new]]
      BY <3>2, <3>4, <3>10
    <3> QED BY <3>11 DEF en, d
  <2>3. kept \in Seq(Ops) /\ Len(kept) = e.at /\ e.at \in Nat
    <3> HIDE DEF e
    <3> QED BY <1>1, StackFields
  <2>4. ops \in Seq(Ops)
    <3> HIDE DEF kept, e
    <3>1. CASE rewrite
      <4>1. [kept EXCEPT ![e.at] = op] \in Seq(Ops)
        BY <2>3, <3>1
      <4> QED BY <3>1, <4>1 DEF ops
    <3>2. CASE ~rewrite
      <4>1. Append(kept, op) \in Seq(Ops)
        BY <2>3
      <4> QED BY <3>2, <4>1 DEF ops
    <3> QED BY <3>1, <3>2
  <2>5. new \in Stacks /\ new.live
    <3>1. Len(ops) \in 0 .. Len(ops)
      BY <2>4
    <3>2. e.live \in BOOLEAN
      BY <1>1, StackFields
    <3>3. new \in Stacks
      BY <2>4, <3>1, <3>2, StackMade
    <3> QED BY <1>4, <3>3
  <2>6. Replied(w, Answered(y, c, TRUE), c, new, TRUE)
    <3> HIDE DEF new, y
    <3> QED BY <2>2, <2>5, RepliedBy
  <2> HIDE DEF new, y
  <2> QED BY <1>2, <1>4, <2>5, <2>6 DEF Changed
<1> QED BY <1>3, <1>4

\* A cursor cannot leave the list.
LEMMA CursorClamped ==
  ASSUME NEW n \in Int, NEW m \in Nat
  PROVE  Max({0, Min({n, m})}) \in 0 .. m
<1>1. Min({n, m}) \in {n, m} /\ Min({n, m}) <= n /\ Min({n, m}) <= m
  <2>1. \E x \in {n, m} : \A y \in {n, m} : x =< y
    BY n <= m \/ m <= n
  <2>2. Min({n, m}) \in {n, m} /\ \A y \in {n, m} : Min({n, m}) =< y
    BY <2>1 DEF Min
  <2> QED BY <2>2
<1> DEFINE k == Min({n, m})
<1>2. k \in Int /\ k <= m
  BY <1>1
<1> HIDE DEF k
<1>3. \E x \in {0, k} : \A y \in {0, k} : x >= y
  BY <1>2, 0 <= k \/ k <= 0
<1>4. Max({0, k}) \in {0, k} /\ \A y \in {0, k} : Max({0, k}) >= y
  BY <1>3 DEF Max
<1>5. Max({0, k}) \in 0 .. m
  BY <1>2, <1>4
<1> QED BY <1>5 DEF k

LEMMA SoughtChanges ==
  ASSUME NEW w \in Worlds, NEW c, Callable(c), NEW n \in Int
  PROVE  Changed(w, Sought(w, c, n), c)
<1> DEFINE e == w.engine[c.doc]
           at == Max({0, Min({n, Len(e.ops)})})
           new == [live |-> e.live, ops |-> e.ops, at |-> at]
           y == [w EXCEPT !.engine[c.doc].at = at]
<1>1. e \in Stacks /\ c.doc \in Docs
  BY WorldFields DEF Callable, Calls
<1>2. Sought(w, c, n) = IF ~e.live THEN Answered(w, c, FALSE) ELSE Answered(y, c, TRUE)
  BY Zenon DEF Sought
<1>3. CASE ~e.live
  <2>1. Replied(w, Answered(w, c, FALSE), c, e, FALSE)
    BY RepliedAlone
  <2> QED BY <1>1, <1>2, <1>3, <2>1 DEF Changed
<1>4. CASE e.live
  <2>1. /\ e = [live |-> e.live, ops |-> e.ops, at |-> e.at]
        /\ e.live \in BOOLEAN /\ e.ops \in Seq(Ops) /\ Len(e.ops) \in Nat
    BY <1>1, StackFields
  <2>2. at \in 0 .. Len(e.ops)
    <3> HIDE DEF e
    <3> QED BY <2>1, CursorClamped
  <2> HIDE DEF at
  <2>3. y = [w EXCEPT !.engine = [w.engine EXCEPT ![c.doc] = new]]
    <3> DEFINE en == w.engine  d == c.doc
    <3>1. y = [w EXCEPT !.engine = [en EXCEPT ![d] = [en[d] EXCEPT !.at = at]]]
      BY Zenon
    <3>2. [en[d] EXCEPT !.at = at] = new
      BY <2>1
    <3> HIDE DEF new, y
    <3> QED BY <3>1, <3>2
  <2>4. new \in Stacks /\ new.live
    <3>1. new \in Stacks
      BY <2>1, <2>2, StackMade
    <3> QED BY <1>4, <3>1
  <2>5. Replied(w, Answered(y, c, TRUE), c, new, TRUE)
    <3> HIDE DEF new, y
    <3> QED BY <2>3, <2>4, RepliedBy
  <2> HIDE DEF new, y
  <2> QED BY <1>2, <1>4, <2>4, <2>5 DEF Changed
<1> QED BY <1>3, <1>4
-----------------------------------------------------------------------------
(* What keeps the calls, the answers and the engine together.              *)

\* What a step may do to the openings on their way and to the documents that
\* are open: nothing new.
Narrower(w, v) ==
  /\ v.store.document = w.store.document
  /\ \A d \in Docs : v.engine[d].live => w.engine[d].live
  /\ \A o \in Afoot(v) : o.step \in Arriving =>
       \E p \in Afoot(w) : p.step \in Arriving /\ p.home = o.home

LEMMA MineStays ==
  ASSUME NEW w, NEW v, NEW top, NEW c \in Calls, Narrower(w, v), Mine(w, top, c)
  PROVE  Mine(v, top, c)
<1>1. c.doc \in Docs /\ c.home \in Docs
  BY DEF Calls
<1>2. AtHand(v, c.doc) /\ AtHand(v, c.home)
  BY <1>1 DEF Narrower, Mine, AtHand
<1>3. ASSUME NEW o \in Afoot(v), o.step \in Arriving PROVE o.home # c.doc /\ o.home # c.home
  BY <1>3 DEF Narrower, Mine
<1> QED BY <1>2, <1>3 DEF Mine

LEMMA AfootCalls ==
  ASSUME NEW w \in Worlds
  PROVE  /\ \A c \in Afoot(w) : c \in Calls /\ c.step \in StoreSteps
         /\ \A i \in Places(w) : w.answers[i] \in Replies /\ w.answers[i].call \in Afoot(w)
         /\ \A c \in w.jobs : c \in Afoot(w) /\ c.step \in JobSteps
<1>1. \A i \in Places(w) : w.answers[i] \in Replies
  BY WorldFields DEF Places
<1>2. \A c \in w.jobs : c \in Calls /\ c.step \in JobSteps
  BY WorldFields
<1> QED BY <1>1, <1>2 DEF Afoot, Replies, StoreSteps

\* The calls whose method goes on.
LEMMA RepliedAfoot ==
  ASSUME NEW w \in Worlds, NEW v, NEW c, NEW e, NEW ok, Replied(w, v, c, e, ok)
  PROVE  /\ Afoot(v) = Afoot(w) \cup {c}
         /\ Places(v) = Places(w) \cup {Len(w.answers) + 1}
         /\ Len(w.answers) + 1 \notin Places(w)
         /\ \A i \in Places(w) : i < Len(w.answers) + 1
<1>1. Len(w.answers) \in Nat
  BY WorldFields
<1>2. /\ Places(v) = Places(w) \cup {Len(w.answers) + 1} /\ Len(w.answers) + 1 \notin Places(w)
      /\ \A i \in Places(w) : i < Len(w.answers) + 1
  BY <1>1 DEF Places, Replied
<1>3. /\ v.jobs = w.jobs /\ \A i \in Places(w) : v.answers[i].call = w.answers[i].call
      /\ v.answers[Len(w.answers) + 1].call = c
  BY DEF Replied
<1>4. {v.answers[i].call : i \in Places(v)} = {w.answers[i].call : i \in Places(w)} \cup {c}
  BY <1>2, <1>3
<1> QED BY <1>2, <1>3, <1>4 DEF Afoot

\* A name on the status bar keeps somebody who answers for it.
LEMMA NamedGrows ==
  ASSUME NEW w, NEW v, v.store.busy = w.store.busy, Afoot(w) \subseteq Afoot(v), Named(w)
  PROVE  Named(v)
BY DEF Named

LEMMA RepliedPlaced ==
  ASSUME NEW w \in Worlds, NEW v, NEW top, NEW c \in Calls, NEW e, NEW ok, Replied(w, v, c, e, ok),
         e.live = w.engine[c.doc].live,
         Placed(w, top), Mine(w, top, c), c.step \notin Arriving
  PROVE  Placed(v, top)
<1>1. Afoot(v) = Afoot(w) \cup {c}
  BY RepliedAfoot
<1>2. \A d \in Docs : v.engine[d].live = w.engine[d].live
  BY WorldFields DEF Replied, Calls
<1>3. Narrower(w, v)
  BY <1>1, <1>2 DEF Narrower, Replied
<1>4. v.store = w.store
  BY DEF Replied
<1>5. ASSUME NEW x \in Afoot(v), x.step \in Arriving PROVE Coming(v, top, x)
  <2>1. x \in Afoot(w)
    BY <1>1, <1>5
  <2> QED BY <1>4, <1>5, <2>1 DEF Placed, Coming
<1>6. ASSUME NEW x \in Afoot(v), x.step \notin Arriving PROVE Mine(v, top, x)
  <2>1. x \in Calls /\ Mine(w, top, x)
    BY <1>1, <1>6, AfootCalls DEF Placed
  <2> QED BY <1>3, <2>1, MineStays
<1> QED BY <1>4, <1>5, <1>6 DEF Placed

\* What the queue held before is still there, at the same places.
LEMMA RepliedQueue ==
  ASSUME NEW w \in Worlds, NEW v, NEW c, NEW e, NEW ok, Replied(w, v, c, e, ok)
  PROVE  /\ \A i \in Places(w) : /\ Telling(v, i) = Telling(w, i) /\ Opened(v, i) = Opened(w, i)
                                 /\ Replacing(v, i) = Replacing(w, i)
         /\ v.answers[Len(w.answers) + 1].call = c /\ v.answers[Len(w.answers) + 1].ok = ok
         /\ v.answers[Len(w.answers) + 1].layers = Prefix(e)
BY DEF Replied, Telling, Opened, Replacing

LEMMA RepliedOpenings ==
  ASSUME NEW w \in Worlds, NEW v, NEW c, NEW e, NEW ok, Replied(w, v, c, e, ok),
         OneOpening(w), OneClose(w), c.step \notin Arriving
  PROVE  OneOpening(v) /\ OneClose(v)
<1> DEFINE n == Len(w.answers) + 1
<1>1. /\ Places(v) = Places(w) \cup {n} /\ n \notin Places(w)
      /\ \A x \in Afoot(v) : x.step \in Openers => x \in Afoot(w)
  BY RepliedAfoot DEF Arriving
<1>2. v.answers[n].call.step \notin Openers /\ v.answers[n].call.step # "replaced"
  BY DEF Replied, Arriving
<1>3. /\ v.jobs = w.jobs /\ v.store = w.store
      /\ \A i \in Places(w) : v.answers[i] = w.answers[i]
  BY DEF Replied
<1> HIDE DEF n
<1>4. OneOpening(v)
  BY <1>1, <1>2, <1>3 DEF OneOpening
<1>5. OneClose(v)
  BY <1>1, <1>2, <1>3 DEF OneClose, Replacing
<1> QED BY <1>4, <1>5

LEMMA RepliedInTime ==
  ASSUME NEW w \in Worlds, NEW v, NEW c, NEW e, NEW ok, Replied(w, v, c, e, ok),
         InTime(w), ok /\ c.step \in Adopting => c.doc = w.store.document
  PROVE  InTime(v)
<1> DEFINE n == Len(w.answers) + 1
<1>1. Places(v) = Places(w) \cup {n} /\ n \notin Places(w)
  BY RepliedAfoot
<1>2. v.store = w.store /\ \A i \in Places(w) : v.answers[i] = w.answers[i]
  BY DEF Replied
<1>3. v.answers[n].call = c /\ v.answers[n].ok = ok
  BY RepliedQueue
<1> HIDE DEF n
<1>4. ASSUME NEW i \in Places(v), Telling(v, i)
      PROVE  \/ v.answers[i].call.doc = v.store.document
             \/ \E j \in Places(v) : i < j /\ Replacing(v, j)
  <2>1. CASE i = n
    BY <1>2, <1>3, <1>4, <2>1 DEF Telling
  <2>2. CASE i \in Places(w)
    BY <1>1, <1>2, <1>4, <2>2 DEF Telling, Replacing, InTime
  <2> QED BY <1>1, <2>1, <2>2
<1> QED BY <1>4 DEF InTime

LEMMA RepliedHeld ==
  ASSUME NEW w \in Worlds, NEW v, NEW top, NEW c \in Calls, NEW e, NEW ok, Replied(w, v, c, e, ok),
         e.live = w.engine[c.doc].live, c.step \notin Arriving,
         Mine(w, top, c), Held(w)
  PROVE  Held(v)
<1> DEFINE n == Len(w.answers) + 1
<1>1. Places(v) = Places(w) \cup {n} /\ n \notin Places(w)
  BY RepliedAfoot
<1>2. /\ v.store = w.store /\ v.session = w.session
      /\ \A i \in Places(w) : v.answers[i] = w.answers[i]
  BY DEF Replied
<1>3. ~Opened(v, n) /\ ~Replacing(v, n)
  BY RepliedQueue DEF Opened, Replacing, Arriving
<1>4. \A d \in Docs : v.engine[d].live = w.engine[d].live
  BY WorldFields DEF Replied, Calls
<1>5. \A d \in Docs : d # c.doc => v.engine[d] = w.engine[d]
  BY WorldFields DEF Replied, Calls
<1>6. \A i \in Places(w) : w.answers[i].call.home \in Docs
  BY AfootCalls DEF Calls
<1> HIDE DEF n
<1>7. ASSUME NEW i \in Places(v), Opened(v, i)
      PROVE  /\ v.session = v.answers[i].call.home
             /\ v.engine[v.answers[i].call.home].live
             /\ v.answers[i].layers = LayersOf(v, v.answers[i].call.home)
  <2>1. i \in Places(w) /\ Opened(w, i)
    BY <1>1, <1>2, <1>3, <1>7 DEF Opened
  <2> DEFINE h == w.answers[i].call.home
  <2>2. /\ w.session = h /\ w.engine[h].live /\ w.answers[i].layers = LayersOf(w, h)
        /\ v.answers[i] = w.answers[i] /\ h \in Docs
    BY <1>2, <1>6, <2>1 DEF Held
  <2>3. h # c.doc
    <3>1. w.answers[i].call \in Afoot(w) /\ w.answers[i].call.step \in Arriving
      BY <2>1, AfootCalls DEF Opened, Arriving
    <3> QED BY <3>1 DEF Mine
  <2>4. v.engine[h] = w.engine[h]
    BY <1>5, <2>2, <2>3
  <2> QED BY <1>2, <2>2, <2>4 DEF LayersOf
<1>8. ASSUME NEW i \in Places(v), Replacing(v, i)
      PROVE  /\ v.engine[v.answers[i].call.home].live
             /\ (\A j \in Places(v) : ~Opened(v, j)) => v.session = v.answers[i].call.home
  <2>1. i \in Places(w) /\ Replacing(w, i) /\ v.answers[i] = w.answers[i]
    BY <1>1, <1>2, <1>3, <1>8 DEF Replacing
  <2>2. (\A j \in Places(v) : ~Opened(v, j)) => \A j \in Places(w) : ~Opened(w, j)
    BY <1>1, <1>2 DEF Opened
  <2> QED BY <1>2, <1>4, <1>6, <2>1, <2>2 DEF Held
<1>9. (\A i \in Places(v) : ~Opened(v, i) /\ ~Replacing(v, i)) => v.session = v.store.document
  BY <1>1, <1>2 DEF Held, Opened, Replacing
<1>10. v.store.document # 0 => v.engine[v.store.document].live
  <2>1. w.store.document \in {0} \cup Docs
    BY WorldFields DEF Stores
  <2> QED BY <1>2, <1>4, <2>1 DEF Held
<1> QED BY <1>7, <1>8, <1>9, <1>10 DEF Held

\* A new answer about the document on screen is the newest; one that the store
\* does not take over, of a call that changed nothing, leaves things as they are.
LEMMA RepliedFollowed ==
  ASSUME NEW w \in Worlds, NEW v, NEW c \in Calls, NEW e, NEW ok, Replied(w, v, c, e, ok),
         Followed(w),
         \/ ok /\ c.step \in Adopting /\ c.doc = w.store.document
         \/ ~(ok /\ c.step \in Adopting) /\ e = w.engine[c.doc]
  PROVE  Followed(v)
<1> DEFINE n == Len(w.answers) + 1  d == w.store.document
<1>1. Places(v) = Places(w) \cup {n} /\ n \notin Places(w) /\ \A i \in Places(w) : i < n
  BY RepliedAfoot
<1>2. /\ v.store = w.store /\ n \in Nat
      /\ \A i \in Places(w) : v.answers[i] = w.answers[i]
  BY WorldFields DEF Replied
<1>3. v.answers[n].call = c /\ v.answers[n].ok = ok /\ v.answers[n].layers = Prefix(e)
  BY RepliedQueue
<1>4. v.engine = [w.engine EXCEPT ![c.doc] = e] /\ c.doc \in Docs /\ w.engine \in [Docs -> Stacks]
  BY WorldFields DEF Replied, Calls
<1>5. \A x \in Places(w) : x \in Nat
  BY DEF Places
<1> SUFFICES ASSUME d # 0
             PROVE  \/ \E m \in Places(v) : Newest(v, m) /\ v.answers[m].layers = LayersOf(v, d)
                    \/ /\ \A i \in Places(v) : ~Telling(v, i)
                       /\ v.store.history = [doc |-> d, layers |-> LayersOf(v, d)]
  BY <1>2 DEF Followed
<1> HIDE DEF n, d
<1>6. CASE ok /\ c.step \in Adopting /\ c.doc = w.store.document
  <2>1. Newest(v, n)
    BY <1>1, <1>2, <1>3, <1>5, <1>6 DEF Newest, Telling
  <2>2. v.answers[n].layers = LayersOf(v, d)
    BY <1>3, <1>4, <1>6 DEF LayersOf, Prefix, d
  <2> QED BY <1>1, <2>1, <2>2
<1>7. CASE ~(ok /\ c.step \in Adopting) /\ e = w.engine[c.doc]
  <2>1. v.engine = w.engine
    BY <1>4, <1>7
  <2>2. LayersOf(v, d) = LayersOf(w, d)
    BY <2>1 DEF LayersOf
  <2>3. ~Telling(v, n)
    BY <1>3, <1>7 DEF Telling
  <2>4. \A i \in Places(w) : Telling(v, i) <=> Telling(w, i)
    BY <1>2 DEF Telling
  <2>5. CASE \E m \in Places(w) : Newest(w, m) /\ w.answers[m].layers = LayersOf(w, d)
    <3>1. PICK m \in Places(w) : Newest(w, m) /\ w.answers[m].layers = LayersOf(w, d)
      BY <2>5
    <3>2. Newest(v, m)
      BY <1>1, <1>2, <2>3, <2>4, <3>1 DEF Newest
    <3> QED BY <1>1, <1>2, <2>2, <3>1, <3>2
  <2>6. CASE /\ \A i \in Places(w) : ~Telling(w, i)
             /\ w.store.history = [doc |-> d, layers |-> LayersOf(w, d)]
    BY <1>1, <1>2, <2>2, <2>3, <2>4, <2>6
  <2> QED BY <2>5, <2>6 DEF Followed, d
<1> QED BY <1>6, <1>7

\* An edit, an undo, a redo, a seek, a reset: the whole of it.
LEMMA ChangedLinked ==
  ASSUME NEW w \in Worlds, NEW v, NEW top, NEW c, Callable(c), c.step \in EditSteps,
         Changed(w, v, c), Mine(w, top, c), Linked(w, top)
  PROVE  Linked(v, top)
<1> USE DEF Callable
<1>1. PICK e \in Stacks : IF w.engine[c.doc].live
                          THEN e.live /\ Replied(w, v, c, e, TRUE)
                          ELSE e = w.engine[c.doc] /\ Replied(w, v, c, e, FALSE)
  BY DEF Changed
<1>2. c.step \notin Arriving /\ c.step \in Adopting
  BY DEF Arriving, Openers, EditSteps, Adopting
<1>3. w.engine[c.doc].live \in BOOLEAN /\ e.live \in BOOLEAN
  BY WorldFields, StackFields DEF Calls
<1>4. CASE w.engine[c.doc].live
  <2>1. Replied(w, v, c, e, TRUE) /\ e.live = w.engine[c.doc].live
    BY <1>1, <1>3, <1>4
  <2>2. c.doc = w.store.document
    BY <1>4 DEF Mine, AtHand
  <2>3. Placed(v, top) /\ OneOpening(v) /\ OneClose(v)
    BY <1>2, <2>1, RepliedPlaced, RepliedOpenings DEF Linked
  <2>4. InTime(v)
    BY <2>1, <2>2, RepliedInTime DEF Linked
  <2>5. Held(v)
    BY <1>2, <2>1, RepliedHeld DEF Linked
  <2>6. Followed(v)
    BY <1>2, <2>1, <2>2, RepliedFollowed DEF Linked
  <2>7. OnShow(v)
    BY <2>1 DEF Linked, OnShow, Replied
  <2> QED BY <2>3, <2>4, <2>5, <2>6, <2>7 DEF Linked
<1>5. CASE ~w.engine[c.doc].live
  <2>1. Replied(w, v, c, e, FALSE) /\ e = w.engine[c.doc]
    BY <1>1, <1>5
  <2>3. Placed(v, top) /\ OneOpening(v) /\ OneClose(v)
    BY <1>2, <2>1, RepliedPlaced, RepliedOpenings DEF Linked
  <2>4. InTime(v)
    BY <2>1, RepliedInTime DEF Linked
  <2>5. Held(v)
    BY <1>2, <2>1, RepliedHeld DEF Linked
  <2>6. Followed(v)
    BY <2>1, RepliedFollowed DEF Linked
  <2>7. OnShow(v)
    BY <2>1 DEF Linked, OnShow, Replied
  <2> QED BY <2>3, <2>4, <2>5, <2>6, <2>7 DEF Linked
<1> QED BY <1>4, <1>5

\* The calls that only look: the engine is as it was, and the store takes nothing
\* over from the answer.
LEMMA LookedLinked ==
  ASSUME NEW w \in Worlds, NEW top, NEW c, Callable(c), NEW ok \in BOOLEAN,
         c.step \notin Arriving \cup Adopting, Mine(w, top, c), Linked(w, top)
  PROVE  Linked(Answered(w, c, ok), top)
<1> USE DEF Callable
<1> DEFINE v == Answered(w, c, ok)  e == w.engine[c.doc]
<1>1. Replied(w, v, c, e, ok)
  BY RepliedAlone
<1> HIDE DEF v
<1>3. Placed(v, top) /\ OneOpening(v) /\ OneClose(v)
  BY <1>1, RepliedPlaced, RepliedOpenings DEF Linked
<1>4. InTime(v)
  BY <1>1, RepliedInTime DEF Linked
<1>5. Held(v)
  BY <1>1, RepliedHeld DEF Linked
<1>6. Followed(v)
  BY <1>1, RepliedFollowed DEF Linked
<1>7. OnShow(v)
  BY <1>1 DEF Linked, OnShow, Replied
<1> QED BY <1>3, <1>4, <1>5, <1>6, <1>7 DEF Linked, v
-----------------------------------------------------------------------------
(* An answer reaches the store.                                            *)

\* The oldest answer is gone from the queue and the store may have changed, but not
\* the document it shows.
Heard(w, v) ==
  /\ w \in Worlds /\ v \in Worlds /\ w.answers # <<>>
  /\ v.engine = w.engine /\ v.session = w.session /\ v.jobs = w.jobs
  /\ v.answers = Tail(w.answers)
  /\ v.store.document = w.store.document

\* The queue moves up.
MovedUp(w, v) ==
  /\ \A i \in Places(v) : i + 1 \in Places(w) /\ v.answers[i] = w.answers[i + 1]
  /\ \A i \in Places(w) : i # 1 => i - 1 \in Places(v) /\ v.answers[i - 1] = w.answers[i]
  /\ 1 \in Places(w) /\ Head(w.answers) = w.answers[1]
  /\ \A i \in Places(w) \cup Places(v) : i \in Nat /\ i >= 1

LEMMA TailMovesUp ==
  ASSUME NEW w \in Worlds, NEW v \in Worlds, w.answers # <<>>, v.answers = Tail(w.answers)
  PROVE  MovedUp(w, v)
<1>1. w.answers \in Seq(Replies) /\ Len(w.answers) \in Nat
  BY WorldFields
<1> DEFINE s == w.answers
<1>2. /\ Len(s) >= 1 /\ Len(Tail(s)) = Len(s) - 1
      /\ \A i \in 1 .. (Len(s) - 1) : Tail(s)[i] = s[i + 1]
      /\ Head(s) = s[1]
  BY <1>1
<1>3. ASSUME NEW i \in Places(v) PROVE i + 1 \in Places(w) /\ v.answers[i] = w.answers[i + 1]
  BY <1>1, <1>2 DEF Places
<1>4. ASSUME NEW i \in Places(w), i # 1
      PROVE  i - 1 \in Places(v) /\ v.answers[i - 1] = w.answers[i]
  <2>1. i - 1 \in 1 .. (Len(s) - 1) /\ (i - 1) + 1 = i
    BY <1>1, <1>4 DEF Places
  <2> QED BY <1>2, <2>1 DEF Places
<1>5. 1 \in Places(w) /\ \A i \in Places(w) \cup Places(v) : i \in Nat /\ i >= 1
  BY <1>1, <1>2 DEF Places
<1> QED BY <1>2, <1>3, <1>4, <1>5 DEF MovedUp

LEMMA HeardAfoot ==
  ASSUME NEW w, NEW v, Heard(w, v)
  PROVE  /\ MovedUp(w, v)
         /\ Afoot(w) = Afoot(v) \cup {Head(w.answers).call}
         /\ Head(w.answers) \in Replies /\ Head(w.answers).call \in Calls
         /\ Head(w.answers).call.step \in StoreSteps
<1>1. MovedUp(w, v)
  BY TailMovesUp DEF Heard
<1>2. w \in Worlds /\ v \in Worlds /\ v.jobs = w.jobs
  BY DEF Heard
<1>3. ASSUME NEW c \in Afoot(w) PROVE c \in Afoot(v) \cup {Head(w.answers).call}
  <2>1. CASE c \in w.jobs
    BY <1>2, <2>1 DEF Afoot
  <2>2. CASE \E i \in Places(w) : c = w.answers[i].call
    BY <1>1, <2>2 DEF MovedUp, Afoot
  <2> QED BY <2>1, <2>2 DEF Afoot
<1>4. ASSUME NEW c \in Afoot(v) PROVE c \in Afoot(w)
  BY <1>1, <1>2 DEF MovedUp, Afoot
<1>5. Head(w.answers).call \in Afoot(w) /\ Head(w.answers) \in Replies
  BY <1>1, <1>2, AfootCalls DEF MovedUp
<1> QED BY <1>1, <1>3, <1>4, <1>5 DEF Replies

LEMMA HeardNarrows ==
  ASSUME NEW w, NEW v, Heard(w, v)
  PROVE  Narrower(w, v)
<1>1. Afoot(v) \subseteq Afoot(w)
  BY HeardAfoot
<1> QED BY <1>1 DEF Narrower, Heard

LEMMA HeardPlaced ==
  ASSUME NEW w, NEW v, NEW top, Heard(w, v), Placed(w, top)
  PROVE  Placed(v, top)
<1>1. Afoot(v) \subseteq Afoot(w) /\ Narrower(w, v)
  BY HeardAfoot, HeardNarrows
<1>2. v.store.document = w.store.document /\ w \in Worlds
  BY DEF Heard
<1>3. ASSUME NEW x \in Afoot(v), x.step \in Arriving PROVE Coming(v, top, x)
  BY <1>1, <1>2, <1>3 DEF Placed, Coming
<1>4. ASSUME NEW x \in Afoot(v), x.step \notin Arriving PROVE Mine(v, top, x)
  <2>1. x \in Calls /\ Mine(w, top, x)
    BY <1>1, <1>2, <1>4, AfootCalls DEF Placed
  <2> QED BY <1>1, <2>1, MineStays
<1> QED BY <1>2, <1>3, <1>4 DEF Placed

LEMMA HeardOpenings ==
  ASSUME NEW w, NEW v, Heard(w, v), OneOpening(w), OneClose(w)
  PROVE  OneOpening(v) /\ OneClose(v)
<1>1. MovedUp(w, v) /\ v.jobs = w.jobs /\ v.store.document = w.store.document
  BY HeardAfoot DEF Heard
<1>2. OneOpening(v)
  <2>1. ASSUME NEW i \in Places(v), NEW j \in Places(v), v.answers[i].call.step \in Openers,
               v.answers[j].call.step \in Openers
        PROVE  i = j
    <3>1. /\ i + 1 \in Places(w) /\ v.answers[i] = w.answers[i + 1] /\ i \in Nat
          /\ j + 1 \in Places(w) /\ v.answers[j] = w.answers[j + 1] /\ j \in Nat
      BY <1>1 DEF MovedUp
    <3>2. i + 1 = j + 1
      BY <2>1, <3>1, Zenon DEF OneOpening
    <3> QED BY <3>1, <3>2
  <2>2. \A c \in v.jobs, i \in Places(v) : ~(c.step \in Openers /\ v.answers[i].call.step \in Openers)
    BY <1>1 DEF MovedUp, OneOpening
  <2>3. \A c, o \in v.jobs : c.step \in Openers /\ o.step \in Openers => c = o
    BY <1>1 DEF OneOpening
  <2> QED BY <2>1, <2>2, <2>3, Zenon DEF OneOpening
<1>3. ASSUME NEW j \in Places(v), Replacing(v, j)
      PROVE  /\ v.store.document = 0
             /\ \A i \in Places(v) : Replacing(v, i) => i = j
             /\ \A i \in Places(v) : v.answers[i].call.step \in Openers => j < i
             /\ \A c \in Afoot(v) : c.step \in Openers => c.home # v.answers[j].call.home
  <2>1. j + 1 \in Places(w) /\ v.answers[j] = w.answers[j + 1] /\ j \in Nat
    BY <1>1 DEF MovedUp
  <2>2. Replacing(w, j + 1)
    BY <1>3, <2>1 DEF Replacing
  <2> DEFINE k == j + 1
  <2>3. /\ w.store.document = 0
        /\ \A i \in Places(w) : Replacing(w, i) => i = k
        /\ \A i \in Places(w) : w.answers[i].call.step \in Openers => k < i
        /\ \A c \in Afoot(w) : c.step \in Openers => c.home # w.answers[k].call.home
    <3> HIDE DEF k
    <3> QED BY <2>1, <2>2, Zenon DEF OneClose, k
  <2>4. ASSUME NEW i \in Places(v)
        PROVE  /\ Replacing(v, i) => i = j
               /\ v.answers[i].call.step \in Openers => j < i
    <3>1. i + 1 \in Places(w) /\ v.answers[i] = w.answers[i + 1] /\ i \in Nat
      BY <1>1 DEF MovedUp
    <3>2. Replacing(v, i) => i + 1 = k
      BY <2>3, <3>1 DEF Replacing
    <3>3. v.answers[i].call.step \in Openers => k < i + 1
      BY <2>3, <3>1
    <3> QED BY <2>1, <3>1, <3>2, <3>3
  <2>5. Afoot(v) \subseteq Afoot(w)
    BY HeardAfoot
  <2> HIDE DEF k
  <2> QED BY <1>1, <2>1, <2>3, <2>4, <2>5 DEF k
<1>4. OneClose(v)
  BY <1>3, Zenon DEF OneClose
<1> QED BY <1>2, <1>4

LEMMA HeardInTime ==
  ASSUME NEW w, NEW v, Heard(w, v), InTime(w)
  PROVE  InTime(v)
<1>1. MovedUp(w, v) /\ v.store.document = w.store.document
  BY HeardAfoot DEF Heard
<1> SUFFICES ASSUME NEW i \in Places(v), Telling(v, i), v.answers[i].call.doc # v.store.document
             PROVE  \E j \in Places(v) : i < j /\ Replacing(v, j)
  BY DEF InTime
<1>2. i + 1 \in Places(w) /\ v.answers[i] = w.answers[i + 1] /\ i \in Nat /\ i >= 1
  BY <1>1 DEF MovedUp
<1>3. Telling(w, i + 1)
  BY <1>2 DEF Telling
<1>4. PICK j \in Places(w) : i + 1 < j /\ Replacing(w, j)
  BY <1>1, <1>2, <1>3 DEF InTime
<1>5. j \in Nat /\ j # 1
  BY <1>1, <1>2, <1>4 DEF MovedUp
<1>6. j - 1 \in Places(v) /\ v.answers[j - 1] = w.answers[j]
  BY <1>1, <1>5 DEF MovedUp
<1>7. i < j - 1 /\ Replacing(v, j - 1)
  BY <1>2, <1>4, <1>5, <1>6 DEF Replacing
<1> QED BY <1>6, <1>7

LEMMA HeardHeld ==
  ASSUME NEW w, NEW v, Heard(w, v), Held(w), ~Opened(w, 1), ~Replacing(w, 1)
  PROVE  Held(v)
<1>1. /\ MovedUp(w, v) /\ v.store.document = w.store.document /\ v.engine = w.engine
      /\ v.session = w.session
  BY HeardAfoot DEF Heard
<1>2. ASSUME NEW i \in Places(v)
      PROVE  /\ i + 1 \in Places(w) /\ v.answers[i] = w.answers[i + 1]
             /\ Opened(v, i) <=> Opened(w, i + 1)
             /\ Replacing(v, i) <=> Replacing(w, i + 1)
  BY <1>1 DEF MovedUp, Opened, Replacing
<1>3. ASSUME NEW i \in Places(w), Opened(w, i) \/ Replacing(w, i)
      PROVE  /\ i - 1 \in Places(v)
             /\ Opened(v, i - 1) <=> Opened(w, i)
             /\ Replacing(v, i - 1) <=> Replacing(w, i)
  BY <1>1, <1>3 DEF MovedUp, Opened, Replacing
<1>4. \A d : LayersOf(v, d) = LayersOf(w, d)
  BY <1>1 DEF LayersOf
<1>5. ASSUME NEW i \in Places(v), Opened(v, i)
      PROVE  /\ v.session = v.answers[i].call.home
             /\ v.engine[v.answers[i].call.home].live
             /\ v.answers[i].layers = LayersOf(v, v.answers[i].call.home)
  BY <1>1, <1>2, <1>4, <1>5 DEF Held
<1>6. (\A j \in Places(v) : ~Opened(v, j)) => \A j \in Places(w) : ~Opened(w, j)
  BY <1>3
<1>7. ASSUME NEW i \in Places(v), Replacing(v, i)
      PROVE  /\ v.engine[v.answers[i].call.home].live
             /\ (\A j \in Places(v) : ~Opened(v, j)) => v.session = v.answers[i].call.home
  BY <1>1, <1>2, <1>6, <1>7 DEF Held
<1>8. (\A i \in Places(v) : ~Opened(v, i) /\ ~Replacing(v, i)) => v.session = v.store.document
  <2> SUFFICES ASSUME \A i \in Places(v) : ~Opened(v, i) /\ ~Replacing(v, i)
               PROVE  v.session = v.store.document
    OBVIOUS
  <2>1. \A i \in Places(w) : ~Opened(w, i) /\ ~Replacing(w, i)
    BY <1>3
  <2> QED BY <1>1, <2>1 DEF Held
<1> QED BY <1>1, <1>5, <1>7, <1>8 DEF Held

\* What the head said was taken over, or it had nothing to say.
TakenOver(w, v) ==
  IF Telling(w, 1)
  THEN v.store.history = [doc |-> Head(w.answers).call.doc, layers |-> Head(w.answers).layers]
  ELSE v.store.history = w.store.history

LEMMA HeadInTime ==
  ASSUME NEW w, NEW v, Heard(w, v), InTime(w), OneClose(w), Telling(w, 1)
  PROVE  w.store.document = 0 \/ Head(w.answers).call.doc = w.store.document
<1>1. MovedUp(w, v)
  BY HeardAfoot
<1>2. 1 \in Places(w) /\ Head(w.answers) = w.answers[1]
  BY <1>1 DEF MovedUp
<1> QED BY <1>2 DEF InTime, OneClose

LEMMA HeardFollowed ==
  ASSUME NEW w, NEW v, Heard(w, v), TakenOver(w, v), Followed(w), InTime(w), OneClose(w)
  PROVE  Followed(v)
<1> DEFINE d == w.store.document
<1>1. /\ MovedUp(w, v) /\ v.store.document = d /\ v.engine = w.engine
  BY HeardAfoot DEF Heard
<1>2. LayersOf(v, d) = LayersOf(w, d)
  BY <1>1 DEF LayersOf
<1> SUFFICES ASSUME d # 0
             PROVE  \/ \E m \in Places(v) : Newest(v, m) /\ v.answers[m].layers = LayersOf(v, d)
                    \/ /\ \A i \in Places(v) : ~Telling(v, i)
                       /\ v.store.history = [doc |-> d, layers |-> LayersOf(v, d)]
  BY <1>1 DEF Followed
<1>3. ASSUME NEW i \in Places(v)
      PROVE  /\ i + 1 \in Places(w) /\ v.answers[i] = w.answers[i + 1] /\ i \in Nat
             /\ Telling(v, i) <=> Telling(w, i + 1)
  BY <1>1 DEF MovedUp, Telling
<1>4. CASE \E m \in Places(w) : Newest(w, m) /\ w.answers[m].layers = LayersOf(w, d)
  <2>1. PICK m \in Places(w) : Newest(w, m) /\ w.answers[m].layers = LayersOf(w, d)
    BY <1>4
  <2>2. CASE m = 1
    <3>1. ASSUME NEW i \in Places(v) PROVE ~Telling(v, i)
      <4>1. i + 1 \in Places(w) /\ ~ (i + 1 <= 1) /\ (Telling(v, i) => Telling(w, i + 1))
        BY <1>1, <1>3 DEF MovedUp
      <4> QED BY <2>1, <2>2, <4>1 DEF Newest
    <3>2. v.store.history = [doc |-> d, layers |-> LayersOf(v, d)]
      <4>1. Telling(w, 1) /\ w.answers[1].call.doc = d /\ w.answers[1].layers = LayersOf(w, d)
        BY <2>1, <2>2 DEF Newest
      <4>2. Head(w.answers) = w.answers[1]
        BY <1>1 DEF MovedUp
      <4> QED BY <1>2, <4>1, <4>2 DEF TakenOver
    <3> QED BY <3>1, <3>2
  <2>3. CASE m # 1
    <3>1. m - 1 \in Places(v) /\ v.answers[m - 1] = w.answers[m] /\ m \in Nat
      BY <1>1, <2>3 DEF MovedUp
    <3>2. ASSUME NEW i \in Places(v), Telling(v, i) PROVE i <= m - 1
      <4>1. i + 1 \in Places(w) /\ Telling(w, i + 1) /\ i \in Nat
        BY <1>3, <3>2
      <4>2. i + 1 <= m
        BY <2>1, <4>1 DEF Newest
      <4> QED BY <3>1, <4>1, <4>2
    <3>3. Newest(v, m - 1)
      BY <1>1, <2>1, <3>1, <3>2 DEF Newest, Telling
    <3> QED BY <1>2, <2>1, <3>1, <3>3
  <2> QED BY <2>2, <2>3
<1>5. CASE /\ \A i \in Places(w) : ~Telling(w, i)
           /\ w.store.history = [doc |-> d, layers |-> LayersOf(w, d)]
  <2>1. \A i \in Places(v) : ~Telling(v, i)
    BY <1>3, <1>5
  <2>2. ~Telling(w, 1)
    BY <1>1, <1>5 DEF MovedUp
  <2> QED BY <1>2, <1>5, <2>1, <2>2 DEF TakenOver
<1> QED BY <1>4, <1>5 DEF Followed

LEMMA HeardOnShow ==
  ASSUME NEW w, NEW v, Heard(w, v), TakenOver(w, v), OnShow(w), InTime(w), OneClose(w)
  PROVE  OnShow(v)
<1>1. v.store.document = w.store.document
  BY DEF Heard
<1>2. CASE Telling(w, 1)
  BY <1>1, <1>2, HeadInTime DEF TakenOver, OnShow
<1>3. CASE ~Telling(w, 1)
  BY <1>1, <1>3 DEF TakenOver, OnShow
<1> QED BY <1>2, <1>3

\* An answer that is not about an opening was heard.
LEMMA HeardLinked ==
  ASSUME NEW w, NEW v, NEW top, Heard(w, v), TakenOver(w, v), ~Opened(w, 1), ~Replacing(w, 1),
         Linked(w, top)
  PROVE  Linked(v, top)
BY HeardPlaced, HeardOpenings, HeardInTime, HeardHeld, HeardFollowed, HeardOnShow DEF Linked

\* Its method may go on with its documents.
LEMMA HeardMine ==
  ASSUME NEW w, NEW v, NEW top, Heard(w, v), Placed(w, top), Head(w.answers).call.step \notin Arriving
  PROVE  Mine(v, top, Head(w.answers).call)
<1>1. Head(w.answers).call \in Afoot(w) /\ Head(w.answers).call \in Calls
  BY HeardAfoot
<1>2. Mine(w, top, Head(w.answers).call)
  BY <1>1 DEF Placed
<1> QED BY <1>1, <1>2, HeardNarrows, MineStays

\* The move that was waiting for this answer is no longer shown as one's own.
LEMMA HeardAwaited ==
  ASSUME NEW w, NEW v, Heard(w, v), Awaited(w),
         \/ v.store.pending = Unset
         \/ /\ v.store.pending = w.store.pending
            /\ ~(Head(w.answers).ok /\ Head(w.answers).call.step \in EditSteps)
  PROVE  Awaited(v)
<1>1. /\ MovedUp(w, v) /\ v.store.document = w.store.document
  BY HeardAfoot DEF Heard
<1> SUFFICES ASSUME v.store.document # 0, v.store.pending # Unset
             PROVE  \E i \in Places(v) : v.answers[i].ok /\ v.answers[i].call.step \in EditSteps
  BY DEF Awaited
<1>2. PICK i \in Places(w) : w.answers[i].ok /\ w.answers[i].call.step \in EditSteps
  BY <1>1 DEF Awaited
<1>3. i # 1
  BY <1>1, <1>2 DEF MovedUp
<1> QED BY <1>1, <1>2, <1>3 DEF MovedUp

LEMMA HeardNamed ==
  ASSUME NEW w, NEW v, Heard(w, v), Named(w),
         \/ v.store.busy = "none"
         \/ v.store.busy = w.store.busy /\ Head(w.answers).call.step \notin Naming
  PROVE  Named(v)
<1>1. Afoot(w) = Afoot(v) \cup {Head(w.answers).call}
  BY HeardAfoot
<1> QED BY <1>1 DEF Named
-----------------------------------------------------------------------------
(* The store's own fields, and the jobs.                                   *)

LEMMA StoreFields ==
  ASSUME NEW s \in Stores
  PROVE  /\ s = [document |-> s.document, history |-> s.history, pending |-> s.pending,
                 selected |-> s.selected, portrait |-> s.portrait, busy |-> s.busy,
                 crop |-> s.crop, brush |-> s.brush, suggested |-> s.suggested]
         /\ s.document \in {0} \cup Docs
         /\ s.history \in [doc : {0} \cup Docs, layers : Lists]
         /\ s.pending \in {Unset} \cup SUBSET AnyControl /\ s.selected \in Int
         /\ s.portrait \in [found : BOOLEAN, faces : BOOLEAN, tools : [Tools -> Int]]
         /\ s.busy \in BusyNames
         /\ s.crop \in BOOLEAN /\ s.brush \in BOOLEAN /\ s.suggested \in BOOLEAN
BY DEF Stores

\* Only the store is another.
LEMMA WithStore ==
  ASSUME NEW w \in Worlds, NEW s \in Stores
  PROVE  /\ [w EXCEPT !.store = s] \in Worlds
         /\ [w EXCEPT !.store = s].store = s
         /\ [w EXCEPT !.store = s].engine = w.engine
         /\ [w EXCEPT !.store = s].session = w.session
         /\ [w EXCEPT !.store = s].jobs = w.jobs
         /\ [w EXCEPT !.store = s].answers = w.answers
<1> DEFINE v == [w EXCEPT !.store = s]
<1>1. v = [engine |-> w.engine, session |-> w.session, store |-> s, jobs |-> w.jobs,
           answers |-> w.answers]
  BY WorldFields
<1>2. /\ w.engine \in [Docs -> Stacks] /\ w.session \in {0} \cup Docs
      /\ w.jobs \in SUBSET {c \in Calls : c.step \in JobSteps} /\ w.answers \in Seq(Replies)
  BY WorldFields
<1>3. v \in Worlds
  <2> HIDE DEF v
  <2> QED BY <1>1, <1>2, WorldMade
<1> QED BY <1>1, <1>3

\* The document on screen and its layers stay.
Kindred(s, t) == t \in Stores /\ t.document = s.document /\ t.history = s.history

\* The same calls and stacks about the same document.
Beside(w, v) ==
  /\ v.engine = w.engine /\ v.session = w.session /\ v.answers = w.answers /\ v.jobs = w.jobs
  /\ v.store.document = w.store.document /\ v.store.history = w.store.history

LEMMA BesideLinked ==
  ASSUME NEW w \in Worlds, NEW v, NEW top, Beside(w, v), Linked(w, top)
  PROVE  Linked(v, top) /\ \A c \in Calls : Mine(w, top, c) => Mine(v, top, c)
<1>1. Afoot(v) = Afoot(w) /\ Places(v) = Places(w)
  BY DEF Beside, Afoot, Places
<1>2. Narrower(w, v)
  BY <1>1 DEF Beside, Narrower
<1>3. \A c \in Calls : Mine(w, top, c) => Mine(v, top, c)
  BY <1>2, MineStays
<1>4. Placed(v, top)
  <2>1. \A c \in Afoot(w) : c \in Calls
    BY AfootCalls
  <2>2. ASSUME NEW c \in Afoot(v), c.step \in Arriving PROVE Coming(v, top, c)
    BY <1>1, <2>2 DEF Linked, Placed, Coming, Beside
  <2>3. ASSUME NEW c \in Afoot(v), c.step \notin Arriving PROVE Mine(v, top, c)
    BY <1>1, <1>3, <2>1, <2>3 DEF Linked, Placed
  <2> QED BY <2>2, <2>3 DEF Linked, Placed, Beside
<1>5. OneOpening(v)
  BY <1>1 DEF Beside, Linked, OneOpening
<1>6. OneClose(v)
  BY <1>1 DEF Beside, Linked, OneClose, Replacing
<1>7. InTime(v) /\ OnShow(v)
  BY <1>1 DEF Beside, Linked, InTime, OnShow, Telling, Replacing
<1>8. Held(v)
  BY <1>1, ZenonT(40) DEF Beside, Linked, Held, Opened, Replacing, LayersOf
<1>9. Followed(v)
  BY <1>1 DEF Beside, Linked, Followed, Newest, Telling, LayersOf
<1> QED BY <1>3, <1>4, <1>5, <1>6, <1>7, <1>8, <1>9 DEF Linked

\* What a method may set without a word to the engine.
Settable(w, s) ==
  /\ Kindred(w.store, s)
  /\ s.pending = w.store.pending \/ s.pending = Unset
  /\ s.busy \in {w.store.busy, "none", "rendering"}
  /\ ~(s.crop /\ s.brush)

LEMMA SetSane ==
  ASSUME NEW w, NEW top, NEW mess, Sane(w, top, mess), NEW s, Settable(w, s)
  PROVE  /\ Sane([w EXCEPT !.store = s], top, mess)
         /\ \A c : Fit(w, top, mess, c) => Fit([w EXCEPT !.store = s], top, mess, c)
<1> DEFINE v == [w EXCEPT !.store = s]
<1>1. /\ w \in Worlds /\ s \in Stores
  BY DEF Sane, Settable, Kindred
<1>2. /\ v \in Worlds /\ v.store = s /\ v.engine = w.engine /\ v.session = w.session
      /\ v.jobs = w.jobs /\ v.answers = w.answers
  BY <1>1, WithStore
<1> HIDE DEF v
<1>3. Beside(w, v)
  BY <1>2 DEF Beside, Settable, Kindred
<1>4. Afoot(v) = Afoot(w) /\ Places(v) = Places(w)
  BY <1>2 DEF Afoot, Places
<1>5. Named(v) /\ OneTool(v)
  BY <1>2, <1>4 DEF Named, OneTool, Settable, Sane
<1>6. mess = FALSE => Linked(v, top) /\ Awaited(v)
  <2>1. Awaited(w) => Awaited(v)
    BY <1>2, <1>4 DEF Awaited, Settable, Kindred
  <2> QED BY <1>1, <1>3, <2>1, BesideLinked DEF Sane
<1>7. ASSUME NEW c, Fit(w, top, mess, c) PROVE Fit(v, top, mess, c)
  BY <1>1, <1>3, <1>7, BesideLinked DEF Fit, Sane
<1> QED BY <1>2, <1>5, <1>6, <1>7 DEF Sane, v

\* The calls a method may go on with: those it was given, or about the document
\* that is open.
LEMMA FitForDocument ==
  ASSUME NEW w, NEW top, NEW mess, Sane(w, top, mess), w.store.document # 0,
         NEW c, Fit(w, top, mess, c), NEW x \in Calls,
         x.doc \in {c.doc, w.store.document}, x.home \in {c.home, w.store.document}
  PROVE  Fit(w, top, mess, x)
<1> SUFFICES ASSUME mess = FALSE PROVE Mine(w, top, x)
  BY DEF Fit
<1>1. w \in Worlds /\ Placed(w, top) /\ Mine(w, top, c)
  BY DEF Sane, Fit, Linked
<1>2. \A o \in Afoot(w) : o.step \in Arriving => o.home # w.store.document
  BY <1>1 DEF Placed, Coming
<1> QED BY <1>1, <1>2 DEF Mine, Placed, AtHand

LEMMA FitAlike ==
  ASSUME NEW w, NEW top, NEW mess, NEW c, Fit(w, top, mess, c), NEW x \in Calls,
         x.doc \in {c.doc, c.home}, x.home = c.home
  PROVE  Fit(w, top, mess, x)
BY DEF Fit, Mine

\* A document on screen and a call of its own.
LEMMA FitHere ==
  ASSUME NEW w, NEW top, NEW mess, Sane(w, top, mess), w.store.document # 0,
         NEW x \in Calls, x.doc = w.store.document, x.home = w.store.document
  PROVE  Fit(w, top, mess, x)
<1> SUFFICES ASSUME mess = FALSE PROVE Mine(w, top, x)
  BY DEF Fit
<1>1. w \in Worlds /\ Placed(w, top)
  BY DEF Sane, Linked
<1>2. \A o \in Afoot(w) : o.step \in Arriving => o.home # w.store.document
  BY <1>1 DEF Placed, Coming
<1> QED BY <1>1, <1>2 DEF Mine, Placed, AtHand

\* The whole of an edit, for whatever was open or not.
LEMMA ChangedSane ==
  ASSUME NEW w, NEW top, NEW mess, Sane(w, top, mess), NEW c, Fit(w, top, mess, c),
         c.step \in EditSteps, NEW v, Changed(w, v, c)
  PROVE  /\ Sane(v, top, mess) /\ v.store = w.store
         /\ \A x : Fit(w, top, mess, x) => Fit(v, top, mess, x)
<1>1. w \in Worlds /\ Callable(c)
  BY DEF Sane, Callable, Fit, StoreSteps
<1>2. PICK e \in Stacks : IF w.engine[c.doc].live
                          THEN e.live /\ Replied(w, v, c, e, TRUE)
                          ELSE e = w.engine[c.doc] /\ Replied(w, v, c, e, FALSE)
  BY DEF Changed
<1>3. PICK ok \in BOOLEAN : Replied(w, v, c, e, ok)
  BY <1>2
<1>4. e.live = w.engine[c.doc].live
  BY <1>1, <1>2, WorldFields, StackFields DEF Callable, Calls
<1>5. /\ Afoot(v) = Afoot(w) \cup {c} /\ Places(w) \subseteq Places(v)
      /\ v \in Worlds /\ v.store = w.store /\ \A i \in Places(w) : v.answers[i] = w.answers[i]
  <2>1. Afoot(v) = Afoot(w) \cup {c} /\ Places(w) \subseteq Places(v)
    BY <1>1, <1>3, RepliedAfoot
  <2>2. v \in Worlds /\ v.store = w.store /\ \A i \in Places(w) : v.answers[i] = w.answers[i]
    BY <1>3 DEF Replied
  <2> QED BY <2>1, <2>2
<1>6. Named(v) /\ OneTool(v)
  BY <1>5, NamedGrows DEF Sane, OneTool
<1>7. Awaited(w) => Awaited(v)
  BY <1>5 DEF Awaited
<1>8. mess = FALSE => Linked(v, top)
  BY <1>1, ChangedLinked DEF Sane, Fit
<1>9. Narrower(w, v)
  <2>1. c.step \notin Arriving
    BY DEF Arriving, Openers, EditSteps
  <2>2. \A d \in Docs : v.engine[d].live = w.engine[d].live
    BY <1>1, <1>3, <1>4, WorldFields DEF Replied, Callable, Calls
  <2> QED BY <1>5, <2>1, <2>2 DEF Narrower
<1>10. ASSUME NEW x, Fit(w, top, mess, x) PROVE Fit(v, top, mess, x)
  BY <1>9, <1>10, MineStays DEF Fit
<1> QED BY <1>5, <1>6, <1>7, <1>8, <1>10 DEF Sane

\* After an edit that the engine took, whatever the panel shows of its own will be
\* answered.
LEMMA ChangedIsAwaited ==
  ASSUME NEW w \in Worlds, NEW c, Callable(c), c.step \in EditSteps, w.engine[c.doc].live,
         NEW v, Changed(w, v, c)
  PROVE  Awaited(v)
<1>1. PICK e \in Stacks : Replied(w, v, c, e, TRUE)
  BY DEF Changed
<1>2. /\ Len(w.answers) + 1 \in Places(v)
      /\ v.answers[Len(w.answers) + 1].ok /\ v.answers[Len(w.answers) + 1].call = c
  BY <1>1, RepliedAfoot, RepliedQueue
<1> QED BY <1>2 DEF Awaited

LEMMA LookedSane ==
  ASSUME NEW w, NEW top, NEW mess, Sane(w, top, mess), NEW c, Fit(w, top, mess, c),
         c.step \in StoreSteps, c.step \notin Arriving \cup Adopting, NEW ok \in BOOLEAN
  PROVE  Sane(Answered(w, c, ok), top, mess)
<1> DEFINE v == Answered(w, c, ok)
<1>1. w \in Worlds /\ Callable(c)
  BY DEF Sane, Callable, Fit
<1>2. Replied(w, v, c, w.engine[c.doc], ok)
  BY <1>1, RepliedAlone
<1>3. mess = FALSE => Linked(v, top)
  BY <1>1, LookedLinked DEF Sane, Fit
<1> HIDE DEF v
<1>5. /\ Afoot(v) = Afoot(w) \cup {c} /\ Places(w) \subseteq Places(v)
      /\ v \in Worlds /\ v.store = w.store /\ \A i \in Places(w) : v.answers[i] = w.answers[i]
  <2>1. Afoot(v) = Afoot(w) \cup {c} /\ Places(w) \subseteq Places(v)
    BY <1>1, <1>2, RepliedAfoot
  <2>2. v \in Worlds /\ v.store = w.store /\ \A i \in Places(w) : v.answers[i] = w.answers[i]
    BY <1>2 DEF Replied
  <2> QED BY <2>1, <2>2
<1>6. Named(v) /\ OneTool(v)
  BY <1>5, NamedGrows DEF Sane, OneTool
<1>7. Awaited(w) => Awaited(v)
  BY <1>5 DEF Awaited
<1> QED BY <1>3, <1>5, <1>6, <1>7 DEF Sane, v

-----------------------------------------------------------------------------
(* A job is sent to the engine.                                            *)

LEMMA StartedIs ==
  ASSUME NEW w \in Worlds, NEW c \in Calls, c.step \in JobSteps
  PROVE  /\ Started(w, c) \in Worlds
         /\ Started(w, c).engine = w.engine /\ Started(w, c).session = w.session
         /\ Started(w, c).store = w.store /\ Started(w, c).answers = w.answers
         /\ Started(w, c).jobs = w.jobs \cup {c}
         /\ Afoot(Started(w, c)) = Afoot(w) \cup {c} /\ Places(Started(w, c)) = Places(w)
<1> DEFINE v == Started(w, c)  js == w.jobs \cup {c}
<1>0. v = [w EXCEPT !.jobs = js]
  BY Zenon DEF Started
<1>1. v = [engine |-> w.engine, session |-> w.session, store |-> w.store, jobs |-> js,
           answers |-> w.answers]
  <2>1. w = [engine |-> w.engine, session |-> w.session, store |-> w.store,
             jobs |-> w.jobs, answers |-> w.answers]
    BY WorldFields
  <2> HIDE DEF js, v
  <2> QED BY <1>0, <2>1
<1>2. /\ w.engine \in [Docs -> Stacks] /\ w.session \in {0} \cup Docs /\ w.store \in Stores
      /\ js \in SUBSET {x \in Calls : x.step \in JobSteps} /\ w.answers \in Seq(Replies)
  BY WorldFields
<1>3. v \in Worlds
  <2> HIDE DEF js, v
  <2> QED BY <1>1, <1>2, WorldMade
<1>4. /\ v.engine = w.engine /\ v.session = w.session /\ v.store = w.store /\ v.answers = w.answers
      /\ v.jobs = w.jobs \cup {c}
  BY <1>1
<1> HIDE DEF v
<1>5. Afoot(v) = Afoot(w) \cup {c} /\ Places(v) = Places(w)
  BY <1>4 DEF Afoot, Places
<1> QED BY <1>3, <1>4, <1>5 DEF v

LEMMA StartedLinked ==
  ASSUME NEW w \in Worlds, NEW top, NEW c \in Calls, c.step \in JobSteps, c.step \notin Arriving,
         Mine(w, top, c), Linked(w, top)
  PROVE  Linked(Started(w, c), top)
<1> DEFINE v == Started(w, c)
<1>1. /\ v \in Worlds /\ v.engine = w.engine /\ v.session = w.session /\ v.store = w.store
      /\ v.answers = w.answers /\ v.jobs = w.jobs \cup {c}
      /\ Afoot(v) = Afoot(w) \cup {c} /\ Places(v) = Places(w)
  BY StartedIs
<1> HIDE DEF v
<1>2. Narrower(w, v)
  BY <1>1 DEF Narrower
<1>4. Placed(v, top)
  <2>1. \A x \in Afoot(v) : x \in Calls
    BY <1>1, AfootCalls
  <2>2. ASSUME NEW x \in Afoot(v), x.step \in Arriving PROVE Coming(v, top, x)
    BY <1>1, <2>2 DEF Linked, Placed, Coming
  <2>3. ASSUME NEW x \in Afoot(v), x.step \notin Arriving PROVE Mine(v, top, x)
    <3>1. Mine(w, top, x)
      BY <1>1, <2>3 DEF Linked, Placed
    <3> QED BY <1>2, <2>1, <3>1, MineStays
  <2> QED BY <1>1, <2>2, <2>3 DEF Linked, Placed
<1>5. OneOpening(v)
  BY <1>1 DEF Linked, OneOpening, Arriving
<1>6. OneClose(v)
  BY <1>1 DEF Linked, OneClose, Replacing, Arriving
<1>7. InTime(v) /\ OnShow(v)
  BY <1>1 DEF Linked, InTime, OnShow, Telling, Replacing
<1>8. Held(v)
  BY <1>1, ZenonT(40) DEF Linked, Held, Opened, Replacing, LayersOf
<1>9. Followed(v)
  BY <1>1 DEF Linked, Followed, Newest, Telling, LayersOf
<1> QED BY <1>4, <1>5, <1>6, <1>7, <1>8, <1>9 DEF Linked, v

LEMMA StartedSane ==
  ASSUME NEW w, NEW top, NEW mess, Sane(w, top, mess), NEW c, Fit(w, top, mess, c),
         c.step \in JobSteps \ Openers
  PROVE  Sane(Started(w, c), top, mess)
<1> DEFINE v == Started(w, c)
<1>0. w \in Worlds /\ c \in Calls /\ c.step \notin Arriving
  BY DEF Sane, Fit, Arriving, JobSteps
<1>1. /\ v \in Worlds /\ v.store = w.store /\ v.answers = w.answers
      /\ Afoot(v) = Afoot(w) \cup {c} /\ Places(v) = Places(w)
  BY <1>0, StartedIs
<1>2. mess = FALSE => Linked(v, top)
  BY <1>0, StartedLinked DEF Sane, Fit
<1> HIDE DEF v
<1>3. Named(v) /\ OneTool(v) /\ (Awaited(w) => Awaited(v))
  BY <1>1, NamedGrows DEF Sane, OneTool, Awaited
<1> QED BY <1>1, <1>2, <1>3 DEF Sane, v

\* A job that puts its name on the status bar.
LEMMA NamedJobSane ==
  ASSUME NEW w, NEW top, NEW mess, Sane(w, top, mess), NEW c, Fit(w, top, mess, c),
         c.step \in (JobSteps \ Openers) \cap Naming,
         NEW s, Kindred(w.store, s), s.pending = w.store.pending, ~(s.crop /\ s.brush)
  PROVE  Sane(Started([w EXCEPT !.store = s], c), top, mess)
<1> DEFINE u == [w EXCEPT !.store = s]  v == Started(u, c)
<1>0. w \in Worlds /\ c \in Calls /\ c.step \notin Arriving /\ s \in Stores
  BY DEF Sane, Fit, Arriving, JobSteps, Kindred
<1>1. /\ u \in Worlds /\ u.store = s /\ u.engine = w.engine /\ u.session = w.session
      /\ u.jobs = w.jobs /\ u.answers = w.answers
  BY <1>0, WithStore
<1> HIDE DEF u
<1>2. Beside(w, u)
  BY <1>1 DEF Beside, Kindred
<1>3. mess = FALSE => Linked(u, top) /\ Mine(u, top, c)
  BY <1>0, <1>2, BesideLinked DEF Sane, Fit
<1>4. /\ v \in Worlds /\ v.store = s /\ v.answers = w.answers
      /\ Afoot(v) = Afoot(u) \cup {c} /\ Places(v) = Places(w)
  BY <1>0, <1>1, StartedIs DEF Places
<1>5. mess = FALSE => Linked(v, top)
  BY <1>0, <1>1, <1>3, StartedLinked
<1> HIDE DEF v
<1>6. Named(v)
  BY <1>4 DEF Named
<1>7. OneTool(v) /\ (Awaited(w) => Awaited(v))
  BY <1>4 DEF OneTool, Awaited, Kindred
<1> QED BY <1>4, <1>5, <1>6, <1>7 DEF Sane, u, v

-----------------------------------------------------------------------------
(* The methods.  A method that may go on leaves a sane world.               *)

LEMMA OpsMade ==
  ASSUME NEW target \in Int
  PROVE  /\ \A value \in SUBSET AnyControl : [kind |-> "adjust", target |-> target,
              value |-> value] \in Ops
         /\ \A kind \in DOMAIN SettingOf \ {"adjust"}, value \in Int \cup Words :
               [kind |-> kind, target |-> target, value |-> value] \in Ops
         /\ \A kind \in LayerKinds : [kind |-> "addLayer", layer |-> kind, target |-> target] \in Ops
         /\ \A index \in Int : [kind |-> "reorderLayer", target |-> target, index |-> index] \in Ops
         /\ \A kind \in {"removeLayer", "crop", "rotate"} : [kind |-> kind, target |-> target] \in Ops
<1>1. \A value \in SUBSET AnyControl : [kind |-> "adjust", target |-> target, value |-> value] \in Ops
  BY DEF Ops
<1>2. \A kind \in DOMAIN SettingOf \ {"adjust"}, value \in Int \cup Words :
         [kind |-> kind, target |-> target, value |-> value] \in Ops
  BY DEF Ops
<1>3. \A kind \in LayerKinds : [kind |-> "addLayer", layer |-> kind, target |-> target] \in Ops
  BY DEF Ops
<1>4. \A index \in Int : [kind |-> "reorderLayer", target |-> target, index |-> index] \in Ops
  BY DEF Ops
<1>5. \A kind \in {"removeLayer", "crop", "rotate"} : [kind |-> kind, target |-> target] \in Ops
  BY DEF Ops
<1> QED BY <1>1, <1>2, <1>3, <1>4, <1>5

LEMMA EditedSane ==
  ASSUME NEW w, NEW top, NEW mess, Sane(w, top, mess), NEW c, Fit(w, top, mess, c),
         c.step \in EditSteps, NEW op \in Ops, NEW continuing
  PROVE  /\ Sane(Edited(w, c, op, continuing), top, mess)
         /\ Edited(w, c, op, continuing).store = w.store
         /\ \A x : Fit(w, top, mess, x) => Fit(Edited(w, c, op, continuing), top, mess, x)
<1>1. w \in Worlds /\ Callable(c)
  BY DEF Sane, Callable, Fit, StoreSteps
<1>2. Changed(w, Edited(w, c, op, continuing), c)
  BY <1>1, EditedChanges
<1> DEFINE v == Edited(w, c, op, continuing)
<1> HIDE DEF v
<1>3. Changed(w, v, c)
  BY <1>2 DEF v
<1>4. /\ Sane(v, top, mess) /\ v.store = w.store
      /\ \A x : Fit(w, top, mess, x) => Fit(v, top, mess, x)
  BY <1>3, ChangedSane
<1> QED BY <1>4 DEF v

\* A call that knows what layers there were.
LEMMA CallKnowing ==
  ASSUME NEW c \in Calls, NEW ids \in SUBSET Int
  PROVE  /\ [c EXCEPT !.before = ids] \in Calls /\ [c EXCEPT !.before = ids].step = c.step
         /\ [c EXCEPT !.before = ids].doc = c.doc /\ [c EXCEPT !.before = ids].home = c.home
BY DEF Calls

\* The first and the last of some places.
LEMMA FirstPlace ==
  ASSUME NEW n \in Nat, NEW S \in SUBSET (1 .. n), S # {}
  PROVE  Min(S) \in S
<1>1. S \in SUBSET Nat
  OBVIOUS
<1>2. PICK m \in S : \A y \in S : m <= y
  BY <1>1, HasLeast
<1>3. \E x \in S : \A y \in S : x =< y
  BY <1>1, <1>2
<1> QED BY <1>3 DEF Min

LEMMA TopOrZero ==
  ASSUME NEW n \in Nat, NEW S \in SUBSET (0 .. n), S # {}
  PROVE  Max(S) \in S
<1> DEFINE T == {n - s : s \in S}
<1>1. T \in SUBSET Nat /\ T # {}
  <2>1. \A s \in S : n - s \in Nat
    <3> SUFFICES ASSUME NEW s \in S PROVE n - s \in Nat
      OBVIOUS
    <3>1. s \in 0 .. n
      OBVIOUS
    <3> QED BY <3>1
  <2> QED BY <2>1
<1>2. PICK m \in T : \A y \in T : m <= y
  <2> HIDE DEF T
  <2> QED BY <1>1, HasLeast
<1>3. PICK s \in S : m = n - s
  BY <1>2
<1>4. \A y \in S : s >= y
  <2> SUFFICES ASSUME NEW y \in S PROVE s >= y
    OBVIOUS
  <2>1. n - y \in T
    OBVIOUS
  <2>2. m <= n - y
    BY <1>2, <2>1
  <2>3. n \in Nat /\ s \in 0 .. n /\ y \in 0 .. n
    OBVIOUS
  <2> HIDE DEF T
  <2> QED BY <1>3, <2>2, <2>3
<1> QED BY <1>4 DEF Max

LEMMA TopPlace ==
  ASSUME NEW n \in Nat, NEW S \in SUBSET (1 .. n), S # {}
  PROVE  Max(S) \in S
<1>1. S \in SUBSET (0 .. n)
  OBVIOUS
<1> QED BY <1>1, TopOrZero

\* The layers on show.
LEMMA ListFields ==
  ASSUME NEW layers \in Lists
  PROVE  /\ layers \in Seq(Layer(Ops)) /\ Len(layers) \in Nat
         /\ \A i \in DOMAIN layers : layers[i] \in Layer(Ops)
         /\ DOMAIN layers = 1 .. Len(layers)
         /\ {l.id : l \in Range(layers)} \subseteq Int
<1>1. layers \in Seq(Layer(Ops)) /\ Len(layers) \in Nat
  BY DEF Lists
<1>2. DOMAIN layers = 1 .. Len(layers) /\ \A i \in DOMAIN layers : layers[i] \in Layer(Ops)
  BY <1>1
<1>3. \A i \in DOMAIN layers : layers[i].id \in Int
  BY <1>2 DEF Layer
<1> QED BY <1>1, <1>2, <1>3 DEF Range

LEMMA ShownFields ==
  ASSUME NEW w \in Worlds
  PROVE  /\ Layered0(w) \in Lists /\ Ids(w) \subseteq Int
         /\ \A before : Created(w, before) \in Int
<1>1. w.store \in Stores /\ w.store.history \in [doc : {0} \cup Docs, layers : Lists]
  BY WorldFields, StoreFields
<1>2. Layered0(w) \in Lists
  BY <1>1 DEF Layered0
<1> DEFINE layers == Layered0(w)
<1>3. /\ Len(layers) \in Nat /\ \A i \in DOMAIN layers : layers[i] \in Layer(Ops)
      /\ DOMAIN layers = 1 .. Len(layers) /\ {l.id : l \in Range(layers)} \subseteq Int
  BY <1>2, ListFields
<1>4. Ids(w) \subseteq Int
  BY <1>3 DEF Ids
<1> HIDE DEF layers
<1>5. ASSUME NEW before PROVE Created(w, before) \in Int
  <2> DEFINE new == {i \in DOMAIN layers : layers[i].id \notin before}
  <2>1. Created(w, before) = IF new = {} THEN None ELSE layers[Min(new)].id
    BY Zenon DEF Created, layers
  <2>2. CASE new = {}
    BY <2>1, <2>2 DEF None
  <2>3. CASE new # {}
    <3>1. new \in SUBSET (1 .. Len(layers))
      BY <1>3
    <3>2. Min(new) \in new
      BY <1>3, <2>3, <3>1, FirstPlace
    <3>3. layers[Min(new)] \in Layer(Ops)
      BY <1>3, <3>2
    <3>4. layers[Min(new)].id \in Int
      BY <3>3 DEF Layer
    <3> QED BY <2>1, <2>3, <3>4
  <2> QED BY <2>2, <2>3
<1> QED BY <1>2, <1>4, <1>5

LEMMA AddingSane ==
  ASSUME NEW w, NEW top, NEW mess, Sane(w, top, mess), NEW c, Fit(w, top, mess, c),
         c.step \in EditSteps, NEW kind \in LayerKinds
  PROVE  Sane(Adding(w, c, kind), top, mess)
<1>1. w \in Worlds /\ c \in Calls /\ Ids(w) \in SUBSET Int
  BY ShownFields DEF Sane, Fit
<1> DEFINE x == [c EXCEPT !.before = Ids(w)]
           op == [kind |-> "addLayer", layer |-> kind, target |-> 0]
<1>2. x \in Calls /\ x.step = c.step /\ x.doc = c.doc /\ x.home = c.home
  BY <1>1, CallKnowing
<1>3. op \in Ops
  BY 0 \in Int, OpsMade
<1>4. Adding(w, c, kind) = Edited(w, x, op, FALSE)
  BY DEF Adding
<1> HIDE DEF x, op
<1>5. Fit(w, top, mess, x)
  BY <1>2, FitAlike
<1> QED BY <1>2, <1>3, <1>4, <1>5, EditedSane

LEMMA MaskOps ==
  ASSUME NEW id \in Int, NEW mask \in Int
  PROVE  [kind |-> "setLayerMask", target |-> id, value |-> mask] \in Ops
<1>1. "setLayerMask" \in DOMAIN SettingOf \ {"adjust"} /\ mask \in Int \cup Words
  BY DEF SettingOf
<1> QED BY <1>1, OpsMade

\* setLayerMask, where a document is open.
LEMMA MaskedSane ==
  ASSUME NEW w, NEW top, NEW mess, Sane(w, top, mess), NEW c, Fit(w, top, mess, c),
         w.store.document # 0, NEW step \in EditSteps, step \in ToolSteps => c.tool \in Tools,
         NEW id \in Int, NEW mask \in Int
  PROVE  Sane(Masked(w, step, c, id, mask), top, mess)
<1>0. w \in Worlds /\ c \in Calls
  BY DEF Sane, Fit
<1>1. c \in Calls /\ step \in StoreSteps /\ w.store.document \in Docs
  <2>1. step \in StoreSteps
    BY DEF StoreSteps
  <2>2. w.store.document \in Docs
    BY <1>0, WorldFields, StoreFields
  <2> QED BY <1>0, <2>1, <2>2
<1> DEFINE x == [c EXCEPT !.step = step, !.doc = w.store.document]
           op == [kind |-> "setLayerMask", target |-> id, value |-> mask]
<1>2. x \in Calls /\ x.step = step /\ x.doc = w.store.document /\ x.home = c.home
  BY <1>1, ZenonT(40) DEF Calls, StoreSteps, EditSteps, JobSteps
<1>3. op \in Ops
  BY MaskOps
<1>4. Masked(w, step, c, id, mask) = Edited(w, x, op, FALSE)
  BY DEF Masked
<1> HIDE DEF x, op
<1>5. Fit(w, top, mess, x)
  BY <1>2, FitForDocument
<1>6. x.step \in EditSteps
  BY <1>2
<1>7. Sane(Edited(w, x, op, FALSE), top, mess)
  BY <1>3, <1>5, <1>6, EditedSane
<1> QED BY <1>4, <1>7

LEMMA MaskedLastSane ==
  ASSUME NEW w, NEW top, NEW mess, Sane(w, top, mess), NEW c, Fit(w, top, mess, c),
         NEW id \in Int
  PROVE  Sane(MaskedLast(w, c, id, c.home), top, mess)
<1>1. c.home \in Int /\ "adopt" \in EditSteps
  <2>1. c.home \in Docs
    BY DEF Fit, Calls
  <2> QED BY <2>1, EditorAssumption DEF Docs, EditSteps
<1>t. "adopt" \notin ToolSteps
  BY DEF ToolSteps
<1>2. CASE w.store.document = 0
  BY <1>2 DEF MaskedLast
<1>3. CASE w.store.document # 0
  <2>1. Sane(Masked(w, "adopt", c, id, c.home), top, mess)
    BY <1>1, <1>t, <1>3, MaskedSane
  <2> QED BY <1>3, <2>1 DEF MaskedLast
<1> QED BY <1>2, <1>3

LEMMA ToolAdjustingSane ==
  ASSUME NEW w, NEW top, NEW mess, Sane(w, top, mess), NEW c, Fit(w, top, mess, c), c.tool \in Tools
  PROVE  Sane(ToolAdjusting(w, c), top, mess)
<1>1. /\ c \in Calls /\ c.home \in Docs /\ c.target \in Int /\ {c.tool} \in SUBSET AnyControl
      /\ "toolAdjusted" \in EditSteps
  BY DEF Fit, Calls, EditSteps, AnyControl
<1> DEFINE x == [c EXCEPT !.step = "toolAdjusted", !.doc = c.home]
           op == [kind |-> "adjust", target |-> c.target, value |-> {c.tool}]
<1>2. x \in Calls /\ x.step = "toolAdjusted" /\ x.doc = c.home /\ x.home = c.home
  BY <1>1 DEF Calls, StoreSteps, EditSteps, JobSteps
<1>3. op \in Ops
  BY <1>1, OpsMade
<1>4. ToolAdjusting(w, c) = Edited(w, x, op, FALSE)
  BY DEF ToolAdjusting
<1> HIDE DEF x, op
<1>5. Fit(w, top, mess, x)
  BY <1>2, FitAlike
<1> QED BY <1>1, <1>2, <1>3, <1>4, <1>5, EditedSane

LEMMA HeadAndTail ==
  ASSUME NEW S, NEW s \in Seq(S), s # <<>>
  PROVE  Head(s) \in S /\ Tail(s) \in Seq(S)
OBVIOUS

LEMMA TailIs ==
  ASSUME NEW S, NEW s \in Seq(S), s # <<>>
  PROVE  /\ Len(s) \in Nat /\ Len(Tail(s)) = Len(s) - 1
         /\ \A i \in 1 .. (Len(s) - 1) : Tail(s)[i] = s[i + 1]
OBVIOUS

\* The next tool's call is about the document that is open.
LEMMA ToolCall ==
  ASSUME NEW w \in Worlds, w.store.document # 0, NEW c \in Calls, c.rest # <<>>
  PROVE  LET x == [c EXCEPT !.tool = Head(c.rest), !.rest = Tail(@),
                            !.doc = w.store.document, !.home = w.store.document]
         IN  x \in Calls /\ x.tool = Head(c.rest) /\ x.tool \in Tools /\ x.doc = w.store.document
               /\ x.home = w.store.document
<1>1. w.store.document \in Docs
  BY WorldFields, StoreFields
<1>2. /\ c.rest \in Seq(Tools) /\ Head(c.rest) \in Tools /\ Tail(c.rest) \in Seq(Tools)
  <2>1. c.rest \in Seq(Tools)
    BY DEF Calls
  <2> QED BY <2>1, HeadAndTail
<1> DEFINE tool == Head(c.rest)  rest == Tail(c.rest)  d == w.store.document
           x == [c EXCEPT !.tool = tool, !.rest = rest, !.doc = d, !.home = d]
<1>3. tool \in Tools /\ rest \in Seq(Tools) /\ d \in Docs
  BY <1>1, <1>2
<1> HIDE DEF tool, rest, d
<1>5. x \in Calls /\ x.tool = tool /\ x.tool \in Tools /\ x.doc = d /\ x.home = d
  BY <1>3 DEF Calls, StoreSteps, EditSteps, JobSteps
<1> HIDE DEF x
<1> QED BY <1>5 DEF tool, rest, d, x

LEMMA NextToolSane ==
  ASSUME NEW w, NEW top, NEW mess, Sane(w, top, mess), NEW c \in Calls
  PROVE  Sane(NextTool(w, c), top, mess)
<1> DEFINE tool == Head(c.rest)
           x == [c EXCEPT !.tool = tool, !.rest = Tail(@),
                          !.doc = w.store.document, !.home = w.store.document]
           built == w.store.portrait.tools[tool]
           moved == [x EXCEPT !.step = "toolMoved"]
           sampled == [x EXCEPT !.step = "sampled"]
           added == [x EXCEPT !.step = "toolAdded"]
           op == [kind |-> "adjust", target |-> built, value |-> {tool}]
<1>1. CASE c.rest = <<>> \/ w.store.document = 0 \/ ~w.store.portrait.faces
  BY <1>1 DEF NextTool
<1>2. CASE ~(c.rest = <<>> \/ w.store.document = 0 \/ ~w.store.portrait.faces)
  <2>1. NextTool(w, c) =
          IF built # None THEN Edited(w, moved, op, x.drag)
          ELSE IF tool = "teeth" THEN Started(w, sampled) ELSE AddTool(w, x)
    BY <1>2, Zenon DEF NextTool
  <2>2. AddTool(w, x) = Adding(w, added, "adjustment")
    BY Zenon DEF AddTool
  <2>3. w \in Worlds
    BY DEF Sane
  <2>4. x \in Calls /\ x.tool \in Tools /\ x.doc = w.store.document /\ x.home = w.store.document
    BY <1>2, <2>3, ToolCall
  <2> HIDE DEF x
  <2>5. moved \in Calls /\ moved.step = "toolMoved" /\ moved.doc = x.doc /\ moved.home = x.home
    BY <2>4, ZenonT(40) DEF Calls, StoreSteps, EditSteps, JobSteps
  <2>6. sampled \in Calls /\ sampled.step = "sampled" /\ sampled.doc = x.doc /\ sampled.home = x.home
    BY <2>4, ZenonT(40) DEF Calls, StoreSteps, EditSteps, JobSteps
  <2>7. added \in Calls /\ added.step = "toolAdded" /\ added.doc = x.doc /\ added.home = x.home
    BY <2>4, ZenonT(40) DEF Calls, StoreSteps, EditSteps, JobSteps
  <2> HIDE DEF moved, sampled, added
  <2>8. Fit(w, top, mess, moved) /\ Fit(w, top, mess, sampled) /\ Fit(w, top, mess, added)
    <3>1. Fit(w, top, mess, moved)
      BY <1>2, <2>4, <2>5, FitHere
    <3>2. Fit(w, top, mess, sampled)
      BY <1>2, <2>4, <2>6, FitHere
    <3>3. Fit(w, top, mess, added)
      BY <1>2, <2>4, <2>7, FitHere
    <3> QED BY <3>1, <3>2, <3>3
  <2>9. /\ "toolMoved" \in EditSteps /\ "toolAdded" \in EditSteps /\ "sampled" \in JobSteps \ Openers
        /\ "adjustment" \in LayerKinds
    BY DEF EditSteps, JobSteps, Openers, LayerKinds
  <2>10. CASE built # None
    <3>1. tool \in Tools /\ {tool} \in SUBSET AnyControl
      <4>1. c.rest \in Seq(Tools)
        BY DEF Calls, StoreSteps, EditSteps, JobSteps
      <4>2. tool \in Tools
        BY <1>2, <4>1
      <4> QED BY <4>2 DEF AnyControl
    <3>2. built \in Int
      BY <2>3, <3>1, WorldFields, StoreFields
    <3> HIDE DEF built, tool
    <3>3. op \in Ops
      BY <3>1, <3>2, OpsMade
    <3> HIDE DEF op
    <3>4. Sane(Edited(w, moved, op, x.drag), top, mess)
      BY <2>5, <2>8, <2>9, <3>3, EditedSane
    <3> QED BY <2>1, <2>10, <3>4
  <2>11. CASE built = None /\ tool = "teeth"
    <3>1. Sane(Started(w, sampled), top, mess)
      BY <2>6, <2>8, <2>9, StartedSane
    <3> QED BY <2>1, <2>11, <3>1
  <2>12. CASE built = None /\ tool # "teeth"
    <3>1. Sane(Adding(w, added, "adjustment"), top, mess)
      BY <2>7, <2>8, <2>9, AddingSane
    <3> QED BY <2>1, <2>2, <2>12, <3>1
  <2> QED BY <2>10, <2>11, <2>12
<1> QED BY <1>1, <1>2


-----------------------------------------------------------------------------
(* What an answer sets off.                                                *)

\* The store's fields after a record update, for SetSane.
LEMMA Selecting ==
  ASSUME NEW w, NEW top, NEW mess, Sane(w, top, mess), NEW id \in Int
  PROVE  /\ Sane([w EXCEPT !.store.selected = id], top, mess)
         /\ \A c : Fit(w, top, mess, c) => Fit([w EXCEPT !.store.selected = id], top, mess, c)
<1> DEFINE t == w.store  s == [t EXCEPT !.selected = id]
<1>1. w \in Worlds /\ OneTool(w)
  BY DEF Sane
<1>2. t \in Stores
  BY <1>1, WorldFields
<1>3. [w EXCEPT !.store.selected = id] = [w EXCEPT !.store = s]
  BY Zenon
<1>4. ~(t.crop /\ t.brush)
  BY <1>1 DEF OneTool
<1>5. Settable(w, s)
  <2> HIDE DEF t
  <2>1. s \in Stores
    BY <1>2 DEF Stores
  <2>2. /\ s.document = t.document /\ s.history = t.history /\ s.pending = t.pending
        /\ s.busy = t.busy /\ s.crop = t.crop /\ s.brush = t.brush
    BY <1>2 DEF Stores
  <2> HIDE DEF s
  <2> QED BY <1>4, <2>1, <2>2 DEF Settable, Kindred, t
<1> HIDE DEF s
<1> QED BY <1>3, <1>5, SetSane

\* Beginning an object's removal puts the crop away.
LEMMA MarkedSane ==
  ASSUME NEW w, NEW top, NEW mess, Sane(w, top, mess), NEW id \in Int
  PROVE  Sane(Marked(w, id), top, mess)
<1> DEFINE t == w.store  s == [t EXCEPT !.selected = id, !.brush = TRUE, !.crop = FALSE]
           s1 == [t EXCEPT !.selected = id]  s2 == [s1 EXCEPT !.brush = TRUE]
           s3 == [s2 EXCEPT !.crop = FALSE]
<1>1. w \in Worlds /\ OneTool(w)
  BY DEF Sane
<1>2. t \in Stores
  BY <1>1, WorldFields
<1>3. Marked(w, id) = [w EXCEPT !.store = s]
  <2>1. Marked(w, id) = [[[w EXCEPT !.store.selected = id] EXCEPT !.store.brush = TRUE]
                           EXCEPT !.store.crop = FALSE]
    BY DEF Marked, MarkedOver
  <2>2. [w EXCEPT !.store.selected = id] = [w EXCEPT !.store = s1]
    BY Zenon
  <2> DEFINE w1 == [w EXCEPT !.store = s1]  w2 == [w EXCEPT !.store = s2]
  <2>3. s1 \in Stores /\ s2 \in Stores /\ s = s3
    <3> HIDE DEF t
    <3> QED BY <1>2 DEF Stores
  <2> HIDE DEF s, s1, s2
  <2>4. /\ w1 \in Worlds /\ w1.store = s1 /\ [w1 EXCEPT !.store = s2] = w2
        /\ w2 \in Worlds /\ w2.store = s2
    <3>1. w = [engine |-> w.engine, session |-> w.session, store |-> w.store,
               jobs |-> w.jobs, answers |-> w.answers]
      BY <1>1, WorldFields
    <3>2. w1 \in Worlds /\ w1.store = s1 /\ w2 \in Worlds /\ w2.store = s2
      BY <1>1, <2>3, WithStore
    <3>3. [w1 EXCEPT !.store = s2] = w2
      BY <3>1
    <3> QED BY <3>2, <3>3
  <2>5. [w1 EXCEPT !.store.brush = TRUE] = [w1 EXCEPT !.store = s2]
    BY <2>4, Zenon DEF s2
  <2>6. [w2 EXCEPT !.store.crop = FALSE] = [w2 EXCEPT !.store = s3]
    BY <2>4, Zenon
  <2> HIDE DEF s3
  <2>7. [w2 EXCEPT !.store = s3] = [w EXCEPT !.store = s3]
    <3>1. w = [engine |-> w.engine, session |-> w.session, store |-> w.store,
               jobs |-> w.jobs, answers |-> w.answers]
      BY <1>1, WorldFields
    <3> QED BY <3>1
  <2> HIDE DEF w1, w2
  <2> QED BY <2>1, <2>2, <2>3, <2>4, <2>5, <2>6, <2>7 DEF w1
<1>5. Settable(w, s)
  <2> HIDE DEF t
  <2>1. s \in Stores
    BY <1>2 DEF Stores
  <2>2. /\ s.document = t.document /\ s.history = t.history /\ s.pending = t.pending
        /\ s.busy = t.busy /\ s.crop = FALSE
    BY <1>2 DEF Stores
  <2> HIDE DEF s
  <2> QED BY <2>1, <2>2 DEF Settable, Kindred, t
<1> HIDE DEF s
<1> QED BY <1>3, <1>5, SetSane

\* removeBackground, on a matte that is there or a new one.
LEMMA RemovedBackgroundSane ==
  ASSUME NEW w, NEW top, NEW mess, Sane(w, top, mess), NEW c, Fit(w, top, mess, c)
  PROVE  Sane(RemovedBackground(w, c), top, mess)
<1> DEFINE layers == Layered0(w)
           mattes == {i \in DOMAIN layers : layers[i].kind = "matte"}
           id == layers[Min(mattes)].id
           x == [c EXCEPT !.step = "matte"]
<1>1. w \in Worlds /\ c \in Calls
  BY DEF Sane, Fit
<1>2. RemovedBackground(w, c) =
        IF mattes = {} THEN Adding(w, x, "matte")
        ELSE MaskedLast([w EXCEPT !.store.selected = id], c, id, c.home)
  BY Zenon DEF RemovedBackground
<1>3. CASE mattes = {}
  <2>1. x \in Calls /\ x.step = "matte" /\ x.doc = c.doc /\ x.home = c.home
    BY <1>1 DEF Calls, StoreSteps, EditSteps, ToolSteps
  <2> HIDE DEF x
  <2>2. Fit(w, top, mess, x)
    BY <2>1, FitAlike
  <2>3. "matte" \in EditSteps /\ "matte" \in LayerKinds
    BY DEF EditSteps, LayerKinds
  <2>4. Sane(Adding(w, x, "matte"), top, mess)
    BY <2>1, <2>2, <2>3, AddingSane
  <2> QED BY <1>2, <1>3, <2>4
<1>4. CASE mattes # {}
  <2>1. layers \in Lists
    BY <1>1, ShownFields
  <2> HIDE DEF layers
  <2>2. /\ Len(layers) \in Nat /\ DOMAIN layers = 1 .. Len(layers)
        /\ \A i \in DOMAIN layers : layers[i] \in Layer(Ops)
    BY <2>1, ListFields
  <2>3. mattes \in SUBSET (1 .. Len(layers))
    BY <2>2
  <2>4. Min(mattes) \in mattes
    BY <1>4, <2>2, <2>3, FirstPlace
  <2>5. layers[Min(mattes)] \in Layer(Ops)
    BY <2>2, <2>4
  <2>6. id \in Int
    BY <2>5 DEF Layer
  <2> HIDE DEF id, mattes
  <2> DEFINE v == [w EXCEPT !.store.selected = id]
  <2>7. Sane(v, top, mess) /\ Fit(v, top, mess, c)
    BY <2>6, Selecting
  <2> HIDE DEF v
  <2>8. Sane(MaskedLast(v, c, id, c.home), top, mess)
    BY <2>6, <2>7, MaskedLastSane
  <2> QED BY <1>2, <1>4, <2>8 DEF v
<1> QED BY <1>3, <1>4

-----------------------------------------------------------------------------
(* The oldest answer is heard.                                             *)

Unheard(w) == [w EXCEPT !.answers = Tail(@)]

LEMMA UnheardIs ==
  ASSUME NEW w \in Worlds, w.answers # <<>>
  PROVE  /\ Unheard(w) \in Worlds
         /\ Unheard(w).engine = w.engine /\ Unheard(w).session = w.session
         /\ Unheard(w).store = w.store /\ Unheard(w).jobs = w.jobs
         /\ Unheard(w).answers = Tail(w.answers)
<1> DEFINE v == Unheard(w)  rest == Tail(w.answers)
<1>1. /\ w = [engine |-> w.engine, session |-> w.session, store |-> w.store,
              jobs |-> w.jobs, answers |-> w.answers]
      /\ w.engine \in [Docs -> Stacks] /\ w.session \in {0} \cup Docs /\ w.store \in Stores
      /\ w.jobs \in SUBSET {x \in Calls : x.step \in JobSteps} /\ w.answers \in Seq(Replies)
  BY WorldFields
<1>2. rest \in Seq(Replies)
  BY <1>1, HeadAndTail
<1>3. v = [w EXCEPT !.answers = rest]
  BY Zenon DEF Unheard
<1> HIDE DEF v, rest
<1>4. v = [engine |-> w.engine, session |-> w.session, store |-> w.store, jobs |-> w.jobs,
           answers |-> rest]
  BY <1>1, <1>3
<1>5. v \in Worlds
  <2> HIDE <1>4
  <2> QED BY <1>1, <1>2, <1>4, WorldMade
<1> QED BY <1>4, <1>5 DEF v, rest

\* What a method may set of the store when its answer comes.
Answerable(w, s) ==
  LET a == Head(w.answers)
      t == w.store
  IN  /\ s \in Stores /\ s.document = t.document
      /\ s.history = IF a.ok /\ a.call.step \in Adopting
                     THEN [doc |-> a.call.doc, layers |-> a.layers] ELSE t.history
      /\ \/ s.pending = Unset
         \/ s.pending = t.pending /\ ~(a.ok /\ a.call.step \in EditSteps)
      /\ \/ s.busy = "none"
         \/ s.busy = t.busy /\ a.call.step \notin Naming
      /\ ~(s.crop /\ s.brush)

LEMMA HeardSane ==
  ASSUME NEW w, NEW top, NEW mess, Sane(w, top, mess), w.answers # <<>>,
         LET a == Head(w.answers) IN a.call.step \in Arriving => a.call.step \in Openers /\ ~a.ok,
         NEW s, Answerable(w, s)
  PROVE  LET v == [Unheard(w) EXCEPT !.store = s]
         IN  /\ Sane(v, top, mess) /\ v.store = s
             /\ Head(w.answers).call.step \notin Arriving => Fit(v, top, mess, Head(w.answers).call)
<1> DEFINE u == Unheard(w)  v == [u EXCEPT !.store = s]  a == Head(w.answers)
<1>1. w \in Worlds /\ s \in Stores
  BY DEF Sane, Answerable
<1>2. /\ u \in Worlds /\ u.engine = w.engine /\ u.session = w.session /\ u.jobs = w.jobs
      /\ u.answers = Tail(w.answers)
  BY <1>1, UnheardIs
<1> HIDE DEF u
<1>3. /\ v \in Worlds /\ v.store = s /\ v.engine = w.engine /\ v.session = w.session
      /\ v.jobs = w.jobs /\ v.answers = Tail(w.answers)
  BY <1>1, <1>2, WithStore
<1> HIDE DEF v
<1>4. Heard(w, v)
  BY <1>1, <1>3 DEF Heard, Answerable
<1>5. a \in Replies /\ a.call \in Calls /\ a = w.answers[1]
  BY <1>4, HeardAfoot DEF MovedUp
<1>6. /\ Telling(w, 1) <=> a.ok /\ a.call.step \in Adopting
      /\ ~Opened(w, 1) /\ ~Replacing(w, 1)
  BY <1>5 DEF Telling, Opened, Replacing, Arriving, Openers
<1>7. TakenOver(w, v)
  BY <1>3, <1>6 DEF TakenOver, Answerable
<1>8. Named(v)
  BY <1>3, <1>4, HeardNamed DEF Sane, Answerable
<1>9. OneTool(v)
  BY <1>3 DEF OneTool, Answerable
<1>10. mess = FALSE => Linked(v, top)
  BY <1>4, <1>6, <1>7, HeardLinked DEF Sane
<1>11. mess = FALSE => Awaited(v)
  BY <1>3, <1>4, HeardAwaited DEF Sane, Answerable
<1>12. a.call.step \notin Arriving => Fit(v, top, mess, a.call)
  BY <1>4, <1>5, HeardMine DEF Fit, Sane, Linked
<1> QED BY <1>3, <1>8, <1>9, <1>10, <1>11, <1>12 DEF Sane, u, v

LEMMA HeadFields ==
  ASSUME NEW w \in Worlds, w.answers # <<>>
  PROVE  /\ Head(w.answers) \in Replies /\ Head(w.answers).call \in Calls
         /\ Head(w.answers).call.step \in StoreSteps /\ Head(w.answers).layers \in Lists
         /\ Head(w.answers).ok \in BOOLEAN /\ Head(w.answers).call.doc \in Docs
         /\ Head(w.answers).call.home \in Docs /\ Head(w.answers).call.target \in Int
<1>1. Head(w.answers) \in Replies
  BY WorldFields, HeadAndTail
<1> QED BY <1>1 DEF Replies, Calls

\* The same store: an answer the method only waited for.
LEMMA QuietSane ==
  ASSUME NEW w, NEW top, NEW mess, Sane(w, top, mess), w.answers # <<>>,
         Head(w.answers).call.step \notin Arriving \cup Adopting \cup Naming
  PROVE  Sane(Unheard(w), top, mess) /\ Fit(Unheard(w), top, mess, Head(w.answers).call)
<1> DEFINE u == Unheard(w)
<1>1. w \in Worlds /\ OneTool(w) /\ w.store \in Stores
  BY WorldFields DEF Sane
<1>2. u \in Worlds /\ u.store = w.store
  BY <1>1, UnheardIs
<1> HIDE DEF u
<1>3. [u EXCEPT !.store = w.store] = u
  BY <1>2, WorldFields
<1>4. Answerable(w, w.store)
  BY <1>1 DEF Answerable, OneTool, Adopting
<1> QED BY <1>3, <1>4, HeardSane DEF u

\* The name is taken back.
LEMMA IdleSane ==
  ASSUME NEW w, NEW top, NEW mess, Sane(w, top, mess), w.answers # <<>>,
         LET a == Head(w.answers) IN /\ a.call.step \in JobSteps
                                     /\ a.call.step \in Openers => ~a.ok
  PROVE  /\ Sane(Busy(Unheard(w), "none"), top, mess)
         /\ Head(w.answers).call.step \notin Openers
              => Fit(Busy(Unheard(w), "none"), top, mess, Head(w.answers).call)
<1> DEFINE u == Unheard(w)  t == w.store  s == [t EXCEPT !.busy = "none"]
<1>1. w \in Worlds /\ OneTool(w) /\ t \in Stores
  BY WorldFields DEF Sane
<1>2. u \in Worlds /\ u.store = t
  BY <1>1, UnheardIs
<1> HIDE DEF u
<1>3. Busy(u, "none") = [u EXCEPT !.store = s]
  BY <1>2, Zenon DEF Busy
<1>4. Answerable(w, s)
  <2> HIDE DEF t
  <2>1. s \in Stores
    BY <1>1 DEF Stores, BusyNames
  <2>2. /\ s.document = t.document /\ s.history = t.history /\ s.pending = t.pending
        /\ s.busy = "none" /\ s.crop = t.crop /\ s.brush = t.brush
    BY <1>1 DEF Stores
  <2>3. Head(w.answers).call.step \notin Adopting \cup EditSteps
    BY DEF Adopting, EditSteps, JobSteps
  <2> HIDE DEF s
  <2> QED BY <1>1, <2>1, <2>2, <2>3 DEF Answerable, OneTool, t
<1> HIDE DEF s
<1>5. Head(w.answers).call.step \in Arriving => Head(w.answers).call.step \in Openers
  BY DEF Arriving, JobSteps
<1> QED BY <1>3, <1>4, <1>5, HeardSane DEF u

\* An edit's answer is adopted.
LEMMA AdoptedSane ==
  ASSUME NEW w, NEW top, NEW mess, Sane(w, top, mess), w.answers # <<>>,
         Head(w.answers).call.step \in EditSteps
  PROVE  /\ Sane(Adopted(Unheard(w), Head(w.answers)), top, mess)
         /\ Fit(Adopted(Unheard(w), Head(w.answers)), top, mess, Head(w.answers).call)
<1> DEFINE u == Unheard(w)  t == w.store  a == Head(w.answers)
           h == [doc |-> a.call.doc, layers |-> a.layers]
           s1 == [t EXCEPT !.history = h]
           s == IF a.ok THEN [s1 EXCEPT !.pending = Unset] ELSE t
<1>1. w \in Worlds /\ OneTool(w) /\ t \in Stores
  BY WorldFields DEF Sane
<1>2. u \in Worlds /\ u.store = t
  BY <1>1, UnheardIs
<1>3. h \in [doc : {0} \cup Docs, layers : Lists]
  BY <1>1, HeadFields
<1>4. a.call.step \in Adopting /\ a.call.step \notin Arriving /\ a.call.step \notin Naming
  BY DEF Adopting, EditSteps, Arriving, Openers, Naming
<1> HIDE DEF u
<1>5. Adopted(u, a) = [u EXCEPT !.store = s]
  <2>0. u = [engine |-> u.engine, session |-> u.session, store |-> u.store,
             jobs |-> u.jobs, answers |-> u.answers]
    BY <1>2, WorldFields
  <2>1. CASE ~a.ok
    <3>1. Adopted(u, a) = u
      BY <2>1, Zenon DEF Adopted
    <3>2. s = u.store
      BY <1>2, <2>1
    <3> HIDE DEF s
    <3> QED BY <2>0, <3>1, <3>2
  <2>2. CASE a.ok
    <3> DEFINE m == [u EXCEPT !.store = s1]
    <3>1. Adopted(u, a) = [m EXCEPT !.store.pending = Unset]
      BY <1>2, <2>2, Zenon DEF Adopted
    <3>2. s = [s1 EXCEPT !.pending = Unset]
      BY <2>2
    <3> HIDE DEF s1, s
    <3>3. m.store = s1 /\ [m EXCEPT !.store = s] = [u EXCEPT !.store = s]
      BY <2>0
    <3> HIDE DEF m
    <3>4. Adopted(u, a) = [m EXCEPT !.store = s]
      BY <3>1, <3>2, <3>3, Zenon
    <3> QED BY <3>3, <3>4
  <2> QED BY <2>1, <2>2
<1>6. Answerable(w, s)
  <2> HIDE DEF t, h
  <2>1. s \in Stores
    BY <1>1, <1>3 DEF Stores
  <2>2. /\ s.document = t.document /\ s.history = (IF a.ok THEN h ELSE t.history)
        /\ s.pending = (IF a.ok THEN Unset ELSE t.pending)
        /\ s.busy = t.busy /\ s.crop = t.crop /\ s.brush = t.brush
    BY <1>1 DEF Stores
  <2> HIDE DEF s
  <2> QED BY <1>1, <1>4, <2>1, <2>2 DEF Answerable, OneTool, t, h
<1> HIDE DEF s
<1> QED BY <1>4, <1>5, <1>6, HeardSane DEF u

\* A history that was asked for.
LEMMA ReadSane ==
  ASSUME NEW w, NEW top, NEW mess, Sane(w, top, mess), w.answers # <<>>,
         Head(w.answers).call.step = "read"
  PROVE  Sane(Resumed(Unheard(w), Head(w.answers)), top, mess)
<1> DEFINE u == Unheard(w)  t == w.store  a == Head(w.answers)
           h == [doc |-> a.call.doc, layers |-> a.layers]
           s == IF a.ok THEN [t EXCEPT !.history = h] ELSE t
<1>1. w \in Worlds /\ OneTool(w) /\ t \in Stores
  BY WorldFields DEF Sane
<1>2. u \in Worlds /\ u.store = t
  BY <1>1, UnheardIs
<1>3. h \in [doc : {0} \cup Docs, layers : Lists]
  BY <1>1, HeadFields
<1>4. /\ a.call.step \in Adopting /\ a.call.step \notin Arriving /\ a.call.step \notin Naming
      /\ a.call.step \notin EditSteps /\ a.call.step \notin JobSteps
  BY DEF Adopting, EditSteps, JobSteps, Arriving, Openers, Naming
<1> HIDE DEF u
<1>5. Resumed(u, a) = [u EXCEPT !.store = s]
  <2>0. u = [engine |-> u.engine, session |-> u.session, store |-> u.store,
             jobs |-> u.jobs, answers |-> u.answers]
    BY <1>2, WorldFields
  <2>1. Resumed(u, a) = IF a.ok THEN [u EXCEPT !.store.history = h] ELSE u
    BY <1>4 DEF Resumed
  <2>2. CASE ~a.ok
    <3>2. s = u.store /\ Resumed(u, a) = u
      BY <1>2, <2>1, <2>2
    <3> HIDE DEF s
    <3> QED BY <2>0, <3>2
  <2>3. CASE a.ok
    <3>1. [u EXCEPT !.store.history = h] = [u EXCEPT !.store = [t EXCEPT !.history = h]]
      BY <1>2, Zenon
    <3> QED BY <2>1, <2>3, <3>1
  <2> QED BY <2>2, <2>3
<1>6. Answerable(w, s)
  <2> HIDE DEF t, h
  <2>1. s \in Stores
    BY <1>1, <1>3 DEF Stores
  <2>2. /\ s.document = t.document /\ s.history = (IF a.ok THEN h ELSE t.history)
        /\ s.pending = t.pending
        /\ s.busy = t.busy /\ s.crop = t.crop /\ s.brush = t.brush
    BY <1>1 DEF Stores
  <2> HIDE DEF s
  <2> QED BY <1>1, <1>4, <2>1, <2>2 DEF Answerable, OneTool, t, h
<1> HIDE DEF s
<1> QED BY <1>4, <1>5, <1>6, HeardSane DEF u

-----------------------------------------------------------------------------
(* What the methods go on to do.                                           *)

\* The portrait panel knows more.
LEMMA PortrayedSane ==
  ASSUME NEW w, NEW top, NEW mess, Sane(w, top, mess),
         NEW p \in [found : BOOLEAN, faces : BOOLEAN, tools : [Tools -> Int]]
  PROVE  Sane([w EXCEPT !.store.portrait = p], top, mess)
<1> DEFINE t == w.store  s == [t EXCEPT !.portrait = p]
<1>1. w \in Worlds /\ OneTool(w) /\ t \in Stores
  BY WorldFields DEF Sane
<1>2. [w EXCEPT !.store.portrait = p] = [w EXCEPT !.store = s]
  BY Zenon
<1>3. ~(t.crop /\ t.brush)
  BY <1>1 DEF OneTool
<1>4. Settable(w, s)
  <2> HIDE DEF t
  <2>1. s \in Stores
    BY <1>1 DEF Stores
  <2>2. /\ s.document = t.document /\ s.history = t.history /\ s.pending = t.pending
        /\ s.busy = t.busy /\ s.crop = t.crop /\ s.brush = t.brush
    BY <1>1 DEF Stores
  <2> HIDE DEF s
  <2> QED BY <1>3, <2>1, <2>2 DEF Settable, Kindred, t
<1> HIDE DEF s
<1> QED BY <1>2, <1>4, SetSane

\* A detection that is done.
LEMMA DetectedSane ==
  ASSUME NEW w, NEW top, NEW mess, Sane(w, top, mess), NEW faces \in BOOLEAN
  PROVE  Sane([w EXCEPT !.store.portrait.found = TRUE, !.store.portrait.faces = faces], top, mess)
<1> DEFINE p == w.store.portrait  q == [p EXCEPT !.found = TRUE]  r == [q EXCEPT !.faces = faces]
           v == [w EXCEPT !.store.portrait = q]
<1>1. w \in Worlds /\ p \in [found : BOOLEAN, faces : BOOLEAN, tools : [Tools -> Int]]
  BY WorldFields, StoreFields DEF Sane
<1>2. r \in [found : BOOLEAN, faces : BOOLEAN, tools : [Tools -> Int]] /\ q = [p EXCEPT !.found = TRUE]
      /\ q \in [found : BOOLEAN, faces : BOOLEAN, tools : [Tools -> Int]]
  <2> HIDE DEF p
  <2> QED BY <1>1
<1>3. [w EXCEPT !.store.portrait.found = TRUE, !.store.portrait.faces = faces]
        = [v EXCEPT !.store.portrait.faces = faces]
  BY Zenon
<1> HIDE DEF q
<1>4. Sane(v, top, mess)
  BY <1>2, PortrayedSane
<1>5. v.store.portrait = q
  <2> DEFINE t == w.store  s == [t EXCEPT !.portrait = q]
  <2>1. w \in Worlds /\ t \in Stores
    BY <1>1, WorldFields
  <2>2. v = [w EXCEPT !.store = s]
    BY Zenon
  <2>3. s \in Stores /\ s.portrait = q
    <3> HIDE DEF t
    <3> QED BY <1>2, <2>1 DEF Stores
  <2> HIDE DEF s, v
  <2>4. v.store = s
    BY <2>1, <2>2, <2>3, WithStore
  <2> QED BY <2>3, <2>4
<1> HIDE DEF v
<1>6. [v EXCEPT !.store.portrait.faces = faces] = [v EXCEPT !.store.portrait = r]
  BY <1>5, Zenon
<1> HIDE DEF r
<1>7. Sane([v EXCEPT !.store.portrait = r], top, mess)
  BY <1>2, <1>4, PortrayedSane
<1> QED BY <1>3, <1>6, <1>7 DEF v

\* A tool's layer is known.
LEMMA ToolKnownSane ==
  ASSUME NEW w, NEW top, NEW mess, Sane(w, top, mess), NEW tool, NEW id \in Int
  PROVE  Sane([w EXCEPT !.store.portrait.tools[tool] = id], top, mess)
<1> DEFINE p == w.store.portrait  q == [p EXCEPT !.tools = [p.tools EXCEPT ![tool] = id]]
<1>1. w \in Worlds /\ p \in [found : BOOLEAN, faces : BOOLEAN, tools : [Tools -> Int]]
  BY WorldFields, StoreFields DEF Sane
<1>2. q \in [found : BOOLEAN, faces : BOOLEAN, tools : [Tools -> Int]]
  <2> HIDE DEF p
  <2> QED BY <1>1
<1>3. [w EXCEPT !.store.portrait.tools[tool] = id] = [w EXCEPT !.store.portrait = q]
  BY Zenon
<1> HIDE DEF q
<1> QED BY <1>2, <1>3, PortrayedSane

\* The analysis has its suggestions.
LEMMA SuggestedSane ==
  ASSUME NEW w, NEW top, NEW mess, Sane(w, top, mess), NEW b \in BOOLEAN
  PROVE  Sane([w EXCEPT !.store.suggested = b], top, mess)
<1> DEFINE t == w.store  s == [t EXCEPT !.suggested = b]
<1>1. w \in Worlds /\ OneTool(w) /\ t \in Stores
  BY WorldFields DEF Sane
<1>2. [w EXCEPT !.store.suggested = b] = [w EXCEPT !.store = s]
  BY Zenon
<1>3. ~(t.crop /\ t.brush)
  BY <1>1 DEF OneTool
<1>4. Settable(w, s)
  <2> HIDE DEF t
  <2>1. s \in Stores
    BY <1>1 DEF Stores
  <2>2. /\ s.document = t.document /\ s.history = t.history /\ s.pending = t.pending
        /\ s.busy = t.busy /\ s.crop = t.crop /\ s.brush = t.brush
    BY <1>1 DEF Stores
  <2> HIDE DEF s
  <2> QED BY <1>3, <2>1, <2>2 DEF Settable, Kindred, t
<1> HIDE DEF s
<1> QED BY <1>2, <1>4, SetSane

\* mask.store, and the history that is asked for beside it.
LEMMA AskedSane ==
  ASSUME NEW w, NEW top, NEW mess, Sane(w, top, mess), NEW c, Fit(w, top, mess, c),
         c.step \in {"paint", "toolStored"}
  PROVE  Sane(Asked(w, c), top, mess)
<1>1. w \in Worlds /\ c \in Calls
  BY DEF Sane, Fit
<1>2. w.engine[c.doc].live \in BOOLEAN
  <2>1. w.engine \in [Docs -> Stacks] /\ c.doc \in Docs
    BY <1>1, WorldFields DEF Calls
  <2> QED BY <2>1, StackFields
<1>3. c.step \in StoreSteps /\ c.step \notin Arriving \cup Adopting
  BY DEF StoreSteps, Arriving, Openers, Adopting, EditSteps
<1> DEFINE ok == w.engine[c.doc].live
<1>4. Asked(w, c) = Answered(w, c, ok)
  BY DEF Asked
<1> HIDE DEF ok
<1>5. ok \in BOOLEAN
  BY <1>2 DEF ok
<1> QED BY <1>3, <1>4, <1>5, LookedSane

LEMMA AfterEditSane ==
  ASSUME NEW w, NEW top, NEW mess, Sane(w, top, mess), w.answers # <<>>,
         Head(w.answers).call.step \in EditSteps
  PROVE  Sane(AfterEdit(Unheard(w), Head(w.answers)), top, mess)
<1> DEFINE u == Unheard(w)  a == Head(w.answers)  call == a.call
           now == Adopted(u, a)  new == Created(now, call.before)  after == AfterEdit(u, a)
<1> SUFFICES Sane(after, top, mess)
  OBVIOUS
<1>1. Sane(now, top, mess) /\ Fit(now, top, mess, call)
  BY AdoptedSane
<1> HIDE DEF u, a, after
<1>2. now \in Worlds /\ call \in Calls /\ call.target \in Int /\ call.home \in Int
  <2>1. call.home \in Docs /\ now \in Worlds /\ call \in Calls /\ call.target \in Int
    BY <1>1 DEF Sane, Fit, Calls
  <2> QED BY <2>1, EditorAssumption DEF Docs
<1>t. call.step \in ToolSteps => call.tool \in Tools
  BY <1>2 DEF Calls
<1>3. new \in Int
  BY <1>2, ShownFields
<1>4. CASE call.step = "adopt" \/ (new = None /\ call.step \in {"addLayer", "removal", "matte"})
  <2>1. after = now
    BY <1>4, Zenon DEF AfterEdit, after
  <2> QED BY <1>1, <2>1
<1>5. CASE call.step = "addLayer" /\ new # None
  <2>1. after = [now EXCEPT !.store.selected = new]
    BY <1>5 DEF AfterEdit, after
  <2> HIDE DEF now, new
  <2> QED BY <1>1, <1>3, <2>1, Selecting
<1>6. CASE call.step = "removal" /\ new # None
  <2>1. after = Marked(now, new)
    BY <1>6 DEF AfterEdit, after
  <2> HIDE DEF now, new
  <2> QED BY <1>1, <1>3, <2>1, MarkedSane
<1>7. CASE call.step = "matte" /\ new # None
  <2>1. after = MaskedLast([now EXCEPT !.store.selected = new], call, new, call.home)
    BY <1>7 DEF AfterEdit, after
  <2> HIDE DEF now, new, call
  <2> DEFINE chosen == [now EXCEPT !.store.selected = new]
  <2>2. Sane(chosen, top, mess) /\ Fit(chosen, top, mess, call)
    BY <1>1, <1>3, Selecting
  <2> HIDE DEF chosen
  <2>3. Sane(MaskedLast(chosen, call, new, call.home), top, mess)
    BY <1>3, <2>2, MaskedLastSane
  <2> QED BY <2>1, <2>3 DEF chosen
<1>8. CASE call.step = "backdropPlaced"
  <2> DEFINE d == now.store.document
             x == [call EXCEPT !.step = "adopt", !.doc = d]
             op == [kind |-> "setLayerFill", target |-> call.target, value |-> "image"]
  <2>1. after = IF d = 0 THEN now ELSE Edited(now, x, op, FALSE)
    BY <1>8 DEF AfterEdit, after
  <2> HIDE DEF now, call
  <2>2. CASE d = 0
    BY <1>1, <2>1, <2>2
  <2>3. CASE d # 0
    <3>1. d \in Docs
      BY <1>2, <2>3, WorldFields, StoreFields
    <3>2. x \in Calls /\ x.step = "adopt" /\ x.doc = d /\ x.home = call.home
      <4> HIDE DEF d
      <4> QED BY <1>2, <3>1 DEF Calls, StoreSteps, EditSteps, ToolSteps
    <3>3. op \in Ops
      <4>1. "setLayerFill" \in DOMAIN SettingOf \ {"adjust"} /\ "image" \in Int \cup Words
        BY DEF SettingOf, Words
      <4> QED BY <1>2, <4>1, OpsMade
    <3> HIDE DEF x, op
    <3>4. Fit(now, top, mess, x)
      BY <1>1, <2>3, <3>2, FitForDocument
    <3>5. x.step \in EditSteps
      BY <3>2 DEF EditSteps
    <3>6. Sane(Edited(now, x, op, FALSE), top, mess)
      BY <1>1, <3>3, <3>4, <3>5, EditedSane
    <3> QED BY <2>1, <2>3, <3>6
  <2> QED BY <2>2, <2>3
<1>9. CASE call.step = "toolAdded"
  <2> DEFINE x == [call EXCEPT !.step = "toolStored", !.target = new]
  <2>1. after = IF new = None THEN NextTool(now, call) ELSE Asked(now, x)
    BY <1>9 DEF AfterEdit, after
  <2>2. x \in Calls /\ x.step = "toolStored" /\ x.doc = call.doc /\ x.home = call.home
    <3>1. call.tool \in Tools
      BY <1>9, <1>t DEF ToolSteps
    <3> HIDE DEF new, call
    <3> QED BY <1>2, <1>3, <3>1 DEF Calls, StoreSteps
  <2> HIDE DEF now, call, new, x
  <2>3. Sane(NextTool(now, call), top, mess)
    BY <1>1, <1>2, NextToolSane
  <2>4. Fit(now, top, mess, x)
    BY <1>1, <2>2, FitAlike
  <2>5. Sane(Asked(now, x), top, mess)
    BY <1>1, <2>2, <2>4, AskedSane
  <2> QED BY <2>1, <2>3, <2>5
<1>10. CASE call.step = "toolMasked"
  <2>1. after = ToolAdjusting(now, call)
    BY <1>10 DEF AfterEdit, after
  <2>2. call.tool \in Tools
    BY <1>10, <1>t DEF ToolSteps
  <2> HIDE DEF now, call
  <2> QED BY <1>1, <2>1, <2>2, ToolAdjustingSane
<1>11. CASE call.step = "toolAdjusted"
  <2> DEFINE known == IF now.store.portrait.found
                      THEN [now EXCEPT !.store.portrait.tools[call.tool] = call.target] ELSE now
  <2>1. after = NextTool(known, call)
    BY <1>11 DEF AfterEdit, after
  <2> HIDE DEF now, call
  <2>2. Sane(known, top, mess)
    <3>1. Sane([now EXCEPT !.store.portrait.tools[call.tool] = call.target], top, mess)
      BY <1>1, <1>2, ToolKnownSane
    <3> QED BY <1>1, <3>1
  <2> HIDE DEF known
  <2> QED BY <1>2, <2>1, <2>2, NextToolSane
<1>12. CASE call.step = "toolMoved"
  <2>1. after = NextTool(now, call)
    BY <1>12 DEF AfterEdit, after
  <2> HIDE DEF now, call
  <2> QED BY <1>1, <1>2, <2>1, NextToolSane
<1> QED BY <1>4, <1>5, <1>6, <1>7, <1>8, <1>9, <1>10, <1>11, <1>12 DEF EditSteps, a

LEMMA JobFailedSane ==
  ASSUME NEW w, NEW top, NEW mess, Sane(w, top, mess), w.answers # <<>>,
         Head(w.answers).call.step \in JobSteps, ~Head(w.answers).ok
  PROVE  Sane(JobFailed(Unheard(w), Head(w.answers).call), top, mess)
<1> DEFINE u == Unheard(w)  call == Head(w.answers).call
           idle == IF call.step \in {"sampled", "backdrop"} THEN u ELSE Busy(u, "none")
<1>1. call \in Calls
  BY HeadFields DEF Sane
<1>2. JobFailed(u, call) = NextTool(idle, call)
  BY DEF JobFailed
<1>3. Sane(idle, top, mess)
  <2>1. CASE call.step \in {"sampled", "backdrop"}
    <3>1. call.step \notin Arriving \cup Adopting \cup Naming
      BY <2>1 DEF Arriving, Openers, Adopting, EditSteps, Naming
    <3> QED BY <2>1, <3>1, QuietSane
  <2>2. CASE call.step \notin {"sampled", "backdrop"}
    <3>1. Sane(Busy(u, "none"), top, mess)
      BY IdleSane
    <3> QED BY <2>2, <3>1
  <2> QED BY <2>1, <2>2
<1> HIDE DEF idle
<1> QED BY <1>1, <1>2, <1>3, NextToolSane

\* A patch's picture, found or chosen.
LEMMA PatchedSane ==
  ASSUME NEW w, NEW top, NEW mess, Sane(w, top, mess), NEW c, Fit(w, top, mess, c),
         NEW step \in {"adopt", "backdropPlaced"}, NEW value \in Words
  PROVE  Sane(Edited(w, [c EXCEPT !.step = step],
                     [kind |-> "setLayerPatch", target |-> c.target, value |-> value], FALSE), top, mess)
<1> DEFINE x == [c EXCEPT !.step = step]
           op == [kind |-> "setLayerPatch", target |-> c.target, value |-> value]
<1>1. c \in Calls /\ c.target \in Int
  BY DEF Fit, Calls
<1>2. x \in Calls /\ x.step = step /\ x.doc = c.doc /\ x.home = c.home
  BY <1>1 DEF Calls, StoreSteps, EditSteps, ToolSteps
<1>3. op \in Ops
  <2>1. "setLayerPatch" \in DOMAIN SettingOf \ {"adjust"} /\ value \in Int \cup Words
    BY DEF SettingOf
  <2> QED BY <1>1, <2>1, OpsMade
<1> HIDE DEF x, op
<1>4. Fit(w, top, mess, x)
  BY <1>2, FitAlike
<1>5. x.step \in EditSteps
  BY <1>2 DEF EditSteps
<1>6. Sane(Edited(w, x, op, FALSE), top, mess)
  BY <1>3, <1>4, <1>5, EditedSane
<1> QED BY <1>6 DEF x, op

LEMMA JobSucceededSane ==
  ASSUME NEW w, NEW top, NEW mess, Sane(w, top, mess), w.answers # <<>>,
         Head(w.answers).call.step \in JobSteps \ Openers
  PROVE  Sane(JobSucceeded(Unheard(w), Head(w.answers)), top, mess)
<1> DEFINE u == Unheard(w)  a == Head(w.answers)  call == a.call  idle == Busy(u, "none")
           then == JobSucceeded(u, a)
<1> SUFFICES Sane(then, top, mess)
  OBVIOUS
<1>1. Sane(idle, top, mess) /\ Fit(idle, top, mess, call)
  BY IdleSane
<1>2. call.step \in {"backdrop", "sampled"} => Sane(u, top, mess) /\ Fit(u, top, mess, call)
  <2>1. call.step \in {"backdrop", "sampled"} => call.step \notin Arriving \cup Adopting \cup Naming
    BY DEF Arriving, Openers, Adopting, EditSteps, Naming
  <2> QED BY <2>1, QuietSane
<1>3. call \in Calls /\ call.target \in Int /\ (call.step \in ToolSteps => call.tool \in Tools)
  BY <1>1 DEF Fit, Calls
<1> HIDE DEF u, a, then
<1>4. CASE call.step = "segment"
  <2>1. then = MaskedLast(idle, call, call.target, call.home)
    BY <1>4 DEF JobSucceeded, then
  <2> HIDE DEF idle, call
  <2> QED BY <1>1, <1>3, <2>1, MaskedLastSane
<1>5. CASE call.step = "background"
  <2>1. then = RemovedBackground(idle, call)
    BY <1>5 DEF JobSucceeded, then
  <2> HIDE DEF idle, call
  <2> QED BY <1>1, <2>1, RemovedBackgroundSane
<1>6. CASE call.step = "fill"
  <2>1. then = Edited(idle, [call EXCEPT !.step = "adopt"],
                      [kind |-> "setLayerPatch", target |-> call.target, value |-> "filled"], FALSE)
    BY <1>6 DEF JobSucceeded, then
  <2> HIDE DEF idle, call
  <2>2. "filled" \in Words
    BY DEF Words
  <2> QED BY <1>1, <2>1, <2>2, PatchedSane
<1>7. CASE call.step = "backdrop"
  <2>1. then = Edited(u, [call EXCEPT !.step = "backdropPlaced"],
                      [kind |-> "setLayerPatch", target |-> call.target, value |-> "backdrop"], FALSE)
    BY <1>7 DEF JobSucceeded, then
  <2>2. "backdrop" \in Words /\ Sane(u, top, mess) /\ Fit(u, top, mess, call)
    BY <1>2, <1>7 DEF Words
  <2> HIDE DEF call
  <2> QED BY <2>1, <2>2, PatchedSane
<1>8. CASE call.step = "detect"
  <2> DEFINE faces == call.target = 1
             found == [idle EXCEPT !.store.portrait.found = TRUE, !.store.portrait.faces = faces]
  <2>1. then = NextTool(found, call)
    BY <1>8 DEF JobSucceeded, then
  <2>2. faces \in BOOLEAN
    OBVIOUS
  <2> HIDE DEF idle, call, faces
  <2>3. Sane(found, top, mess)
    BY <1>1, <2>2, DetectedSane
  <2> HIDE DEF found
  <2> QED BY <1>3, <2>1, <2>3, NextToolSane
<1>9. CASE call.step = "sampled"
  <2> DEFINE x == [call EXCEPT !.step = "toolAdded"]
  <2>1. then = Adding(u, x, "adjustment")
    BY <1>9 DEF JobSucceeded, AddTool, then
  <2>2. Sane(u, top, mess) /\ Fit(u, top, mess, call) /\ call.tool \in Tools
    BY <1>2, <1>3, <1>9 DEF ToolSteps
  <2>3. x \in Calls /\ x.step = "toolAdded" /\ x.doc = call.doc /\ x.home = call.home
    <3> HIDE DEF call
    <3> QED BY <1>3, <2>2 DEF Calls, StoreSteps, EditSteps
  <2>4. x.step \in EditSteps /\ "adjustment" \in LayerKinds
    BY <2>3 DEF EditSteps, LayerKinds
  <2> HIDE DEF x, call
  <2>5. Fit(u, top, mess, x)
    BY <2>2, <2>3, FitAlike
  <2> QED BY <2>1, <2>2, <2>4, <2>5, AddingSane
<1>10. CASE call.step = "analyse"
  <2>1. then = [idle EXCEPT !.store.suggested = TRUE]
    BY <1>10 DEF JobSucceeded, then
  <2> HIDE DEF idle
  <2> QED BY <1>1, <2>1, SuggestedSane
<1>11. CASE call.step = "export"
  <2>1. then = idle
    BY <1>11 DEF JobSucceeded, then
  <2> QED BY <1>1, <2>1
<1> QED BY <1>4, <1>5, <1>6, <1>7, <1>8, <1>9, <1>10, <1>11 DEF JobSteps, Openers, a

\* A painted mask is in the store of the document; the layer is told of it.
LEMMA PaintedSane ==
  ASSUME NEW w, NEW top, NEW mess, Sane(w, top, mess), w.answers # <<>>,
         Head(w.answers).call.step = "paint"
  PROVE  Sane(Resumed(Unheard(w), Head(w.answers)), top, mess)
<1> DEFINE u == Unheard(w)  a == Head(w.answers)  call == a.call  then == Resumed(u, a)
<1> SUFFICES Sane(then, top, mess)
  OBVIOUS
<1>1. Sane(u, top, mess) /\ Fit(u, top, mess, call)
  <2>1. call.step \notin Arriving \cup Adopting \cup Naming
    BY DEF Arriving, Openers, Adopting, EditSteps, Naming
  <2> QED BY <2>1, QuietSane
<1>2. then = IF a.ok THEN MaskedLast(u, call, call.target, call.home) ELSE u
  BY DEF Resumed, EditSteps, JobSteps
<1>3. call.target \in Int
  BY <1>1 DEF Fit, Calls
<1> HIDE DEF u, call, then
<1>4. Sane(MaskedLast(u, call, call.target, call.home), top, mess)
  BY <1>1, <1>3, MaskedLastSane
<1> QED BY <1>1, <1>2, <1>4

LEMMA ToolStoredSane ==
  ASSUME NEW w, NEW top, NEW mess, Sane(w, top, mess), w.answers # <<>>,
         Head(w.answers).call.step = "toolStored"
  PROVE  Sane(Resumed(Unheard(w), Head(w.answers)), top, mess)
<1> DEFINE u == Unheard(w)  a == Head(w.answers)  call == a.call  then == Resumed(u, a)
<1> SUFFICES Sane(then, top, mess)
  OBVIOUS
<1>1. Sane(u, top, mess) /\ Fit(u, top, mess, call)
  <2>1. call.step \notin Arriving \cup Adopting \cup Naming
    BY DEF Arriving, Openers, Adopting, EditSteps, Naming
  <2> QED BY <2>1, QuietSane
<1>2. then = IF ~a.ok THEN NextTool(u, call)
             ELSE IF u.store.document = 0 THEN ToolAdjusting(u, call)
             ELSE Masked(u, "toolMasked", call, call.target, call.home)
  BY DEF Resumed, EditSteps, JobSteps
<1>3. call \in Calls /\ call.target \in Int /\ call.home \in Int /\ call.tool \in Tools
  <2>1. call \in Calls /\ call.target \in Int /\ call.home \in Docs
    BY <1>1 DEF Fit, Calls
  <2>2. call.tool \in Tools
    BY <2>1 DEF Calls, ToolSteps
  <2> QED BY <2>1, <2>2, EditorAssumption DEF Docs
<1> HIDE DEF u, call, then
<1>4. Sane(NextTool(u, call), top, mess)
  BY <1>1, <1>3, NextToolSane
<1>5. Sane(ToolAdjusting(u, call), top, mess)
  BY <1>1, <1>3, ToolAdjustingSane
<1>6. u.store.document # 0 => Sane(Masked(u, "toolMasked", call, call.target, call.home), top, mess)
  <2>1. "toolMasked" \in EditSteps
    BY DEF EditSteps
  <2> QED BY <1>1, <1>3, <2>1, MaskedSane
<1> QED BY <1>2, <1>4, <1>5, <1>6

-----------------------------------------------------------------------------
(* Openings.                                                               *)

\* The engine is done with an opening.
Finished(w, v, c, x, n) ==
  /\ x \in Calls /\ x.step = c.step /\ x.home = c.home /\ x.doc = c.doc
  /\ v \in Worlds /\ v.store = w.store /\ v.jobs = w.jobs \ {c}
  /\ n = Len(w.answers) + 1 /\ Len(v.answers) = n
  /\ \A i \in Places(w) : v.answers[i] = w.answers[i]
  /\ v.answers[n].call = x
  /\ \A d \in Docs : d # c.home => v.engine[d] = w.engine[d]
  /\ ~v.answers[n].ok => v.engine = w.engine /\ v.session = w.session
  /\ v.answers[n].ok => /\ v.session = c.home /\ v.engine[c.home].live
                        /\ v.answers[n].layers = LayersOf(v, c.home)

LEMMA FinishedAfoot ==
  ASSUME NEW w \in Worlds, NEW v, NEW c \in w.jobs, NEW x, NEW n,
         Finished(w, v, c, x, n)
  PROVE  /\ Places(v) = Places(w) \cup {n}
         /\ n \notin Places(w)
         /\ \A i \in Places(w) : i < n
         /\ Afoot(v) \subseteq Afoot(w) \cup {x} /\ Afoot(w) \subseteq Afoot(v) \cup {c}
         /\ x \in Afoot(v) /\ c \in Afoot(w)
<1>1. Len(w.answers) \in Nat /\ n = Len(w.answers) + 1 /\ Len(v.answers) = n
  BY WorldFields DEF Finished
<1>2. /\ Places(v) = Places(w) \cup {n} /\ n \notin Places(w)
      /\ \A i \in Places(w) : i < n
  BY <1>1 DEF Places
<1>3. /\ \A i \in Places(w) : v.answers[i] = w.answers[i]
      /\ v.answers[n].call = x /\ v.jobs = w.jobs \ {c}
  BY DEF Finished
<1>4. Places(v) = Places(w) \cup {n}
  BY <1>2
<1>5. Afoot(v) \subseteq Afoot(w) \cup {x} /\ Afoot(w) \subseteq Afoot(v) \cup {c}
  BY <1>3, <1>4 DEF Afoot
<1>6. x \in Afoot(v) /\ c \in Afoot(w)
  BY <1>3, <1>4 DEF Afoot
<1> QED BY <1>2, <1>5, <1>6

LEMMA FinishedPlaced ==
  ASSUME NEW w \in Worlds, NEW v, NEW top, NEW c \in w.jobs, NEW x, NEW n,
         Finished(w, v, c, x, n), c.step \in Openers, Placed(w, top)
  PROVE  Placed(v, top) /\ w.store.document # c.home
<1>1. /\ Afoot(v) \subseteq Afoot(w) \cup {x} /\ c \in Afoot(w) /\ c.step \in Arriving
      /\ v.store = w.store /\ x.step = c.step /\ x.home = c.home /\ x.doc = c.doc
  BY FinishedAfoot DEF Finished, Arriving
<1>2. \A d \in Docs : d # c.home => v.engine[d] = w.engine[d]
  BY DEF Finished
<1>3. Coming(w, top, c)
  BY <1>1 DEF Placed
<1>4. Coming(v, top, x)
  BY <1>1, <1>3 DEF Coming
<1>5. \A y \in Afoot(w) : y.step \in Arriving => Coming(v, top, y)
  BY <1>1 DEF Placed, Coming
<1>6. ASSUME NEW y \in Afoot(w), y.step \notin Arriving PROVE Mine(v, top, y)
  <2>1. Mine(w, top, y) /\ y.doc \in Docs /\ y.home \in Docs
    BY <1>6, AfootCalls DEF Placed, Calls
  <2>2. c.home # y.doc /\ c.home # y.home
    BY <1>1, <2>1 DEF Mine
  <2>3. AtHand(v, y.doc) /\ AtHand(v, y.home)
    BY <1>1, <1>2, <2>1, <2>2 DEF AtHand, Mine
  <2> QED BY <1>1, <2>1, <2>2, <2>3 DEF Mine
<1>7. \A y \in Afoot(v) : IF y.step \in Arriving THEN Coming(v, top, y) ELSE Mine(v, top, y)
  BY <1>1, <1>4, <1>5, <1>6
<1> QED BY <1>1, <1>3, <1>7 DEF Placed, Coming

\* What the others in the queue are not.
LEMMA FinishedQueue ==
  ASSUME NEW w \in Worlds, NEW v, NEW c \in w.jobs, NEW x, NEW n,
         Finished(w, v, c, x, n), c.step \in Openers, OneOpening(w)
  PROVE  /\ \A i \in Places(w) : w.answers[i].call.step \notin Openers
         /\ \A y \in w.jobs : y.step \in Openers => y = c
         /\ \A i \in Places(w) : /\ Telling(v, i) = Telling(w, i) /\ ~Opened(v, i)
                                 /\ Replacing(v, i) = Replacing(w, i)
         /\ \A i \in Places(w) : ~Opened(w, i)
         /\ ~Telling(v, n) /\ ~Replacing(v, n)
         /\ Opened(v, n) <=> v.answers[n].ok
<1>1. /\ \A i \in Places(w) : v.answers[i] = w.answers[i]
      /\ v.answers[n].call = x
      /\ x.step = c.step
  BY DEF Finished
<1>2. /\ \A i \in Places(w) : w.answers[i].call.step \notin Openers
      /\ \A y \in w.jobs : y.step \in Openers => y = c
  BY DEF OneOpening
<1>3. c.step \notin Adopting /\ c.step # "replaced"
  BY DEF Openers, Adopting, EditSteps
<1>4. \A i \in Places(w) : /\ Telling(v, i) = Telling(w, i) /\ ~Opened(v, i) /\ ~Opened(w, i)
                           /\ Replacing(v, i) = Replacing(w, i)
  BY <1>1, <1>2 DEF Telling, Opened, Replacing
<1>5. /\ ~Telling(v, n) /\ ~Replacing(v, n)
      /\ Opened(v, n) <=> v.answers[n].ok
  BY <1>1, <1>3 DEF Telling, Opened, Replacing
<1> QED BY <1>2, <1>4, <1>5

LEMMA FinishedLinked ==
  ASSUME NEW w \in Worlds, NEW v, NEW top, NEW c \in w.jobs, NEW x, NEW n,
         Finished(w, v, c, x, n), c.step \in Openers, Linked(w, top)
  PROVE  Linked(v, top)
<1>1. /\ Placed(w, top) /\ OneOpening(w) /\ OneClose(w) /\ InTime(w) /\ OnShow(w) /\ Held(w)
      /\ Followed(w)
  BY DEF Linked
<1>2. Placed(v, top) /\ w.store.document # c.home
  BY <1>1, FinishedPlaced
<1>3. /\ Places(v) = Places(w) \cup {n} /\ n \notin Places(w) /\ \A i \in Places(w) : i < n
      /\ Afoot(v) \subseteq Afoot(w) \cup {x} /\ c \in Afoot(w)
  <2>1. Places(v) = Places(w) \cup {n}
    <3>1. Len(w.answers) \in Nat /\ n = Len(w.answers) + 1 /\ Len(v.answers) = n
      BY WorldFields DEF Finished
    <3> QED BY <3>1 DEF Places
  <2>4. n \notin Places(w)
    BY FinishedAfoot, ZenonT(40)
  <2>2. \A i \in Places(w) : i < n
    BY FinishedAfoot, ZenonT(40)
  <2>3. Afoot(v) \subseteq Afoot(w) \cup {x} /\ c \in Afoot(w)
    BY FinishedAfoot, ZenonT(40)
  <2> QED BY <2>1, <2>2, <2>3, <2>4
<1>4. /\ v.store = w.store /\ v.jobs = w.jobs \ {c} /\ v.answers[n].call = x
      /\ x.step = c.step /\ x.home = c.home
      /\ \A i \in Places(w) : v.answers[i] = w.answers[i]
      /\ \A d \in Docs : d # c.home => v.engine[d] = w.engine[d]
      /\ ~v.answers[n].ok => v.engine = w.engine /\ v.session = w.session
      /\ v.answers[n].ok => /\ v.session = c.home /\ v.engine[c.home].live
               /\ v.answers[n].layers = LayersOf(v, c.home)
  BY DEF Finished
<1>5. /\ \A i \in Places(w) : w.answers[i].call.step \notin Openers
      /\ \A y \in w.jobs : y.step \in Openers => y = c
      /\ \A i \in Places(w) : /\ Telling(v, i) = Telling(w, i) /\ ~Opened(v, i)
                              /\ Replacing(v, i) = Replacing(w, i)
      /\ \A i \in Places(w) : ~Opened(w, i)
      /\ ~Telling(v, n) /\ ~Replacing(v, n)
      /\ Opened(v, n) <=> v.answers[n].ok
  BY <1>1, FinishedQueue
<1>6. OneOpening(v)
  BY <1>3, <1>4, <1>5 DEF OneOpening
<1>7. OneClose(v)
  <2> SUFFICES ASSUME NEW j \in Places(v), Replacing(v, j)
               PROVE  /\ v.store.document = 0
                      /\ \A i \in Places(v) : Replacing(v, i) => i = j
                      /\ \A i \in Places(v) : v.answers[i].call.step \in Openers => j < i
                      /\ \A y \in Afoot(v) : y.step \in Openers => y.home # v.answers[j].call.home
    BY DEF OneClose
  <2>1. j \in Places(w) /\ Replacing(w, j)
    BY <1>3, <1>5
  <2>2. /\ w.store.document = 0
        /\ \A i \in Places(w) : Replacing(w, i) => i = j
        /\ \A y \in Afoot(w) : y.step \in Openers => y.home # w.answers[j].call.home
    BY <1>1, <2>1 DEF OneClose
  <2>3. \A i \in Places(v) : Replacing(v, i) => i = j
    BY <1>3, <1>5, <2>2
  <2>4. \A i \in Places(v) : v.answers[i].call.step \in Openers => j < i
    BY <1>3, <1>4, <1>5, <2>1
  <2>5. \A y \in Afoot(v) : y.step \in Openers => y.home # v.answers[j].call.home
    BY <1>3, <1>4, <2>1, <2>2
  <2> QED BY <1>4, <2>2, <2>3, <2>4, <2>5
<1>8. InTime(v)
  <2> SUFFICES ASSUME NEW i \in Places(v), Telling(v, i), v.answers[i].call.doc # v.store.document
               PROVE  \E j \in Places(v) : i < j /\ Replacing(v, j)
    BY DEF InTime
  <2>1. i \in Places(w) /\ Telling(w, i) /\ w.answers[i].call.doc # w.store.document
    BY <1>3, <1>4, <1>5
  <2>2. PICK j \in Places(w) : i < j /\ Replacing(w, j)
    BY <1>1, <2>1 DEF InTime
  <2> QED BY <1>3, <1>5, <2>2
<1>9. OnShow(v)
  BY <1>1, <1>4 DEF OnShow
<1>s. w.store.document # 0 =>
        /\ w.store.document \in Docs
        /\ v.engine[w.store.document] = w.engine[w.store.document]
        /\ LayersOf(v, w.store.document) = LayersOf(w, w.store.document)
  <2>1. w.store.document # 0 => w.store.document \in Docs
    BY WorldFields, StoreFields
  <2>2. w.store.document # 0 => v.engine[w.store.document] = w.engine[w.store.document]
    BY <1>2, <1>4, <2>1
  <2> QED BY <2>1, <2>2 DEF LayersOf
<1>10. Held(v)
  <2>1. ASSUME NEW i \in Places(v), Opened(v, i)
        PROVE  /\ v.session = v.answers[i].call.home
               /\ v.engine[v.answers[i].call.home].live
               /\ v.answers[i].layers = LayersOf(v, v.answers[i].call.home)
    <3>1. i = n /\ v.answers[n].ok
      BY <1>3, <1>5, <2>1
    <3> QED BY <1>4, <3>1
  <2>2. ASSUME NEW i \in Places(v), Replacing(v, i)
        PROVE  /\ v.engine[v.answers[i].call.home].live
               /\ (\A j \in Places(v) : ~Opened(v, j)) => v.session = v.answers[i].call.home
    <3>1. i \in Places(w) /\ Replacing(w, i) /\ v.answers[i] = w.answers[i]
      BY <1>3, <1>4, <1>5, <2>2
    <3>2. w.engine[w.answers[i].call.home].live /\ w.session = w.answers[i].call.home
      BY <1>1, <1>5, <3>1 DEF Held
    <3>3. w.answers[i].call.home # c.home /\ w.answers[i].call.home \in Docs
      <4>1. w.answers[i].call \in Calls
        BY <3>1, AfootCalls
      <4> QED BY <1>1, <1>3, <3>1, <4>1 DEF OneClose, Calls
    <3>4. v.engine[v.answers[i].call.home].live
      BY <1>4, <3>1, <3>2, <3>3
    <3>5. (\A j \in Places(v) : ~Opened(v, j)) => v.session = v.answers[i].call.home
      BY <1>3, <1>4, <1>5, <3>1, <3>2
    <3> QED BY <3>4, <3>5
  <2>3. ASSUME \A i \in Places(v) : ~Opened(v, i) /\ ~Replacing(v, i)
        PROVE  v.session = v.store.document
    <3>1. ~v.answers[n].ok /\ \A i \in Places(w) : ~Opened(w, i) /\ ~Replacing(w, i)
      BY <1>3, <1>5, <2>3
    <3>2. w.session = w.store.document
      BY <1>1, <3>1 DEF Held
    <3> QED BY <1>4, <3>1, <3>2
  <2>4. v.store.document # 0 => v.engine[v.store.document].live
    BY <1>1, <1>4, <1>s DEF Held
  <2> QED BY <2>1, <2>2, <2>3, <2>4 DEF Held
<1>11. Followed(v)
  <2> SUFFICES ASSUME v.store.document # 0
               PROVE  \/ \E m \in Places(v) : Newest(v, m)
                        /\ v.answers[m].layers = LayersOf(v, v.store.document)
                      \/ /\ \A i \in Places(v) : ~Telling(v, i)
                         /\ v.store.history = [doc |-> v.store.document,
                                               layers |-> LayersOf(v, v.store.document)]
    BY DEF Followed
  <2>1. CASE \E m \in Places(w) : Newest(w, m) /\ w.answers[m].layers = LayersOf(w, w.store.document)
    <3>1. PICK m \in Places(w) : Newest(w, m) /\ w.answers[m].layers = LayersOf(w, w.store.document)
      BY <2>1
    <3>2. Newest(v, m)
      BY <1>3, <1>4, <1>5, <3>1 DEF Newest
    <3> QED BY <1>3, <1>4, <1>s, <3>1, <3>2
  <2>2. CASE /\ \A i \in Places(w) : ~Telling(w, i)
             /\ w.store.history = [doc |-> w.store.document, layers |-> LayersOf(w, w.store.document)]
    BY <1>3, <1>4, <1>5, <1>s, <2>2
  <2> QED BY <1>1, <1>4, <2>1, <2>2 DEF Followed
<1> QED BY <1>2, <1>6, <1>7, <1>8, <1>9, <1>10, <1>11 DEF Linked

Withdrawn(w, c) == [w EXCEPT !.jobs = @ \ {c}]

\* The main process has the document, and the engine its first stack.
FirstStack(c) ==
  LET ops == IF c.step = "openProject" THEN ProjectOps ELSE <<>>
  IN  [live |-> TRUE, ops |-> ops, at |-> Len(ops)]

Begun(w, c) == [Withdrawn(w, c) EXCEPT !.engine[c.home] = FirstStack(c), !.session = c.home]

LEMMA FirstStackIs ==
  ASSUME NEW c
  PROVE  FirstStack(c) \in Stacks /\ FirstStack(c).live
<1> DEFINE ops == IF c.step = "openProject" THEN ProjectOps ELSE <<>>
<1>1. Range(ProjectOps) \subseteq Ops
  BY DEF Ops
<1>2. ProjectOps \in Seq(Ops)
  BY <1>1, ProjectAssumption
<1>3. <<>> \in Seq(Ops)
  OBVIOUS
<1>4. ops \in Seq(Ops)
  BY <1>2, <1>3
<1> HIDE DEF ops
<1>5. Len(ops) \in 0 .. Len(ops) /\ TRUE \in BOOLEAN
  BY <1>4
<1>6. [live |-> TRUE, ops |-> ops, at |-> Len(ops)] \in Stacks
  BY <1>4, <1>5, StackMade
<1> QED BY <1>6 DEF FirstStack, ops

LEMMA WithdrawnIs ==
  ASSUME NEW w \in Worlds, NEW c
  PROVE  /\ Withdrawn(w, c) \in Worlds
         /\ Withdrawn(w, c) = [engine |-> w.engine, session |-> w.session, store |-> w.store,
                               jobs |-> w.jobs \ {c}, answers |-> w.answers]
<1> DEFINE v == Withdrawn(w, c)  js == w.jobs \ {c}
<1>1. /\ w = [engine |-> w.engine, session |-> w.session, store |-> w.store,
              jobs |-> w.jobs, answers |-> w.answers]
      /\ w.engine \in [Docs -> Stacks] /\ w.session \in {0} \cup Docs /\ w.store \in Stores
      /\ w.jobs \in SUBSET {x \in Calls : x.step \in JobSteps} /\ w.answers \in Seq(Replies)
  BY WorldFields
<1>2. js \in SUBSET {x \in Calls : x.step \in JobSteps}
  BY <1>1
<1>3. v = [w EXCEPT !.jobs = js]
  BY Zenon DEF Withdrawn
<1> HIDE DEF v, js
<1>4. v = [engine |-> w.engine, session |-> w.session, store |-> w.store, jobs |-> js,
           answers |-> w.answers]
  BY <1>1, <1>3
<1>5. v \in Worlds
  <2> HIDE <1>4
  <2> QED BY <1>1, <1>2, <1>4, WorldMade
<1> QED BY <1>4, <1>5 DEF v, js

LEMMA BegunIs ==
  ASSUME NEW w \in Worlds, NEW c \in Calls
  PROVE  /\ Begun(w, c) \in Worlds
         /\ Begun(w, c) = [engine |-> [w.engine EXCEPT ![c.home] = FirstStack(c)],
                           session |-> c.home, store |-> w.store,
                           jobs |-> w.jobs \ {c}, answers |-> w.answers]
<1> DEFINE u == Withdrawn(w, c)  v == Begun(w, c)  js == w.jobs \ {c}  first == FirstStack(c)
           en == [w.engine EXCEPT ![c.home] = first]
           mid == [u EXCEPT !.engine = [u.engine EXCEPT ![c.home] = first]]
<1>1. /\ w.engine \in [Docs -> Stacks] /\ w.store \in Stores /\ w.answers \in Seq(Replies)
  BY WorldFields
<1>2. /\ u = [engine |-> w.engine, session |-> w.session, store |-> w.store, jobs |-> js,
              answers |-> w.answers]
      /\ u \in Worlds
  BY WithdrawnIs
<1>3. js \in SUBSET {x \in Calls : x.step \in JobSteps}
  <2>1. u.jobs = js
    BY <1>2
  <2> HIDE DEF u, js
  <2> QED BY <1>2, <2>1, WorldFields
<1>4. v = [mid EXCEPT !.session = c.home]
  BY Zenon DEF Begun
<1>5. c.home \in Docs /\ c.home \in {0} \cup Docs /\ first \in Stacks
  BY FirstStackIs DEF Calls
<1>6. en \in [Docs -> Stacks] /\ u.engine = w.engine
  BY <1>1, <1>2, <1>5
<1> HIDE DEF u, js, first
<1>7. mid = [engine |-> [u.engine EXCEPT ![c.home] = first], session |-> w.session,
        store |-> w.store, jobs |-> js,
             answers |-> w.answers]
  BY <1>2
<1>8. mid = [engine |-> en, session |-> w.session, store |-> w.store, jobs |-> js,
             answers |-> w.answers]
  BY <1>6, <1>7
<1> HIDE DEF mid, v, en
<1>9. v = [engine |-> en, session |-> c.home, store |-> w.store, jobs |-> js, answers |-> w.answers]
  BY <1>4, <1>8
<1>10. v \in Worlds
  <2> DEFINE h == c.home
  <2>1. h \in {0} \cup Docs
          /\ v = [engine |-> en, session |-> h, store |-> w.store, jobs |-> js, answers |-> w.answers]
    BY <1>5, <1>9
  <2> HIDE DEF h
  <2> QED BY <1>1, <1>3, <1>6, <2>1, WorldMade
<1> QED BY <1>9, <1>10 DEF v, en, js, first

\* A job that is not an opening is done: its answer is on its way.
LEMMA WithdrawnLinked ==
  ASSUME NEW w \in Worlds, NEW top, NEW c, Linked(w, top)
  PROVE  /\ Linked(Withdrawn(w, c), top)
         /\ \A x \in Calls : Mine(w, top, x) => Mine(Withdrawn(w, c), top, x)
<1> DEFINE u == Withdrawn(w, c)
<1>1. /\ u \in Worlds /\ u.engine = w.engine /\ u.session = w.session /\ u.store = w.store
      /\ u.answers = w.answers /\ u.jobs = w.jobs \ {c}
  BY WithdrawnIs
<1> HIDE DEF u
<1>2. Places(u) = Places(w) /\ Afoot(u) \subseteq Afoot(w)
  BY <1>1 DEF Places, Afoot
<1>3. Narrower(w, u)
  BY <1>1, <1>2 DEF Narrower
<1>4. \A x \in Calls : Mine(w, top, x) => Mine(u, top, x)
  BY <1>3, MineStays
<1>5. Placed(u, top)
  <2>1. \A x \in Afoot(w) : x \in Calls
    BY AfootCalls
  <2>2. ASSUME NEW x \in Afoot(u), x.step \in Arriving PROVE Coming(u, top, x)
    BY <1>1, <1>2, <2>2 DEF Linked, Placed, Coming
  <2>3. ASSUME NEW x \in Afoot(u), x.step \notin Arriving PROVE Mine(u, top, x)
    BY <1>2, <1>4, <2>1, <2>3 DEF Linked, Placed
  <2> QED BY <1>1, <2>2, <2>3 DEF Linked, Placed
<1>6. OneOpening(u)
  BY <1>1, <1>2 DEF Linked, OneOpening
<1>7. OneClose(u)
  BY <1>1, <1>2 DEF Linked, OneClose, Replacing
<1>8. InTime(u) /\ OnShow(u)
  BY <1>1, <1>2 DEF Linked, InTime, OnShow, Telling, Replacing
<1>9. Held(u)
  BY <1>1, <1>2, ZenonT(40) DEF Linked, Held, Opened, Replacing, LayersOf
<1>10. Followed(u)
  BY <1>1, <1>2 DEF Linked, Followed, Newest, Telling, LayersOf
<1> QED BY <1>4, <1>5, <1>6, <1>7, <1>8, <1>9, <1>10 DEF Linked, u

\* A name is still answered for, and a move still waits for its answer.
LEMMA NamedOn ==
  ASSUME NEW w, NEW v, NEW c, NEW x, Named(w), v.store = w.store,
         Afoot(w) \subseteq Afoot(v) \cup {c}, x \in Afoot(v), x.step = c.step
  PROVE  Named(v)
BY DEF Named

LEMMA AwaitedOn ==
  ASSUME NEW w, NEW v, Awaited(w), v.store = w.store, Places(w) \subseteq Places(v),
         \A i \in Places(w) : v.answers[i] = w.answers[i]
  PROVE  Awaited(v)
BY DEF Awaited

Told(w, c, ok, target) ==
  Answered(IF ok /\ c.step \in {"openImage", "openProject"} THEN Begun(w, c) ELSE Withdrawn(w, c),
           [c EXCEPT !.target = target], ok)

LEMMA WithdrawnAfoot ==
  ASSUME NEW w \in Worlds, NEW c
  PROVE  Afoot(w) \subseteq Afoot(Withdrawn(w, c)) \cup {c}
<1> DEFINE u == Withdrawn(w, c)
<1>1. u.answers = w.answers /\ u.jobs = w.jobs \ {c}
  BY WithdrawnIs
<1> HIDE DEF u
<1>2. Afoot(w) \subseteq Afoot(u) \cup {c}
  BY <1>1 DEF Afoot, Places
<1> QED BY <1>2 DEF u

LEMMA ToldOther ==
  ASSUME NEW w, NEW top, NEW mess, Sane(w, top, mess), NEW c \in w.jobs, c.step \notin Openers,
         NEW x \in Calls, x.step = c.step, x.doc = c.doc, x.home = c.home, NEW ok \in BOOLEAN
  PROVE  Sane(Answered(Withdrawn(w, c), x, ok), top, mess)
<1> DEFINE u == Withdrawn(w, c)  v == Answered(u, x, ok)
<1>1. /\ w \in Worlds /\ c \in Calls /\ c.step \in JobSteps /\ c \in Afoot(w)
  BY AfootCalls DEF Sane
<1>2. /\ u \in Worlds /\ u.engine = w.engine /\ u.session = w.session /\ u.store = w.store
      /\ u.answers = w.answers /\ Afoot(w) \subseteq Afoot(u) \cup {c}
  BY <1>1, WithdrawnIs, WithdrawnAfoot
<1>3. mess = FALSE => Linked(u, top) /\ (\A y \in Calls : Mine(w, top, y) => Mine(u, top, y))
  BY <1>1, WithdrawnLinked DEF Sane
<1>4. Callable(x) /\ x.step \notin Arriving \cup Adopting
  BY <1>1 DEF Callable, StoreSteps, JobSteps, Arriving, Openers, Adopting, EditSteps
<1> HIDE DEF u
<1>5. mess = FALSE => Mine(u, top, x)
  <2>1. mess = FALSE => Mine(w, top, c)
    BY <1>1, <1>4 DEF Sane, Linked, Placed
  <2> QED BY <1>1, <1>3, <2>1 DEF Mine
<1>6. mess = FALSE => Linked(v, top)
  BY <1>2, <1>3, <1>4, <1>5, LookedLinked
<1>7. Replied(u, v, x, u.engine[x.doc], ok)
  BY <1>2, <1>4, RepliedAlone
<1> HIDE DEF v
<1>8. Afoot(v) = Afoot(u) \cup {x} /\ Places(u) \subseteq Places(v)
  BY <1>2, <1>7, RepliedAfoot
<1>9. v \in Worlds /\ v.store = u.store /\ \A i \in Places(u) : v.answers[i] = u.answers[i]
  BY <1>7 DEF Replied
<1>10. Places(u) = Places(w)
  BY <1>2 DEF Places
<1>11. Named(v)
  <2>1. Afoot(w) \subseteq Afoot(v) \cup {c} /\ x \in Afoot(v) /\ v.store = w.store
    BY <1>2, <1>8, <1>9
  <2> QED BY <2>1, NamedOn DEF Sane
<1>12. OneTool(v)
  BY <1>2, <1>9 DEF Sane, OneTool
<1>13. Awaited(w) => Awaited(v)
  <2>1. v.store = w.store /\ Places(w) \subseteq Places(v)
          /\ \A i \in Places(w) : v.answers[i] = w.answers[i]
    BY <1>2, <1>8, <1>9, <1>10
  <2> QED BY <2>1, AwaitedOn
<1> QED BY <1>6, <1>9, <1>11, <1>12, <1>13 DEF Sane, u, v

\* What the answer to an opening comes with.
LEMMA FinishedBy ==
  ASSUME NEW w \in Worlds, NEW c \in w.jobs, c.step \in Openers,
         NEW x \in Calls, x.step = c.step, x.doc = c.doc, x.home = c.home,
         NEW ok \in BOOLEAN
  PROVE  Finished(w, Answered(IF ok THEN Begun(w, c) ELSE Withdrawn(w, c), x, ok), c, x,
                  Len(w.answers) + 1)
<1> DEFINE u == IF ok THEN Begun(w, c) ELSE Withdrawn(w, c)  v == Answered(u, x, ok)
           n == Len(w.answers) + 1
<1>1. c \in Calls /\ c.home \in Docs /\ c.doc = c.home /\ Callable(x)
  <2>1. c \in Calls /\ c.step \in JobSteps
    BY AfootCalls
  <2> QED BY <2>1 DEF Calls, Callable, StoreSteps, Openers
<1>2. /\ u \in Worlds /\ u.store = w.store /\ u.jobs = w.jobs \ {c} /\ u.answers = w.answers
      /\ ~ok => u.engine = w.engine /\ u.session = w.session
      /\ ok => u.engine = [w.engine EXCEPT ![c.home] = FirstStack(c)] /\ u.session = c.home
  <2>1. CASE ok
    <3>1. u = Begun(w, c)
      BY <2>1
    <3>2. Begun(w, c) \in Worlds
      BY <1>1, BegunIs
    <3>3. Begun(w, c) = [engine |-> [w.engine EXCEPT ![c.home] = FirstStack(c)],
                         session |-> c.home, store |-> w.store,
                         jobs |-> w.jobs \ {c}, answers |-> w.answers]
      BY <1>1, BegunIs
    <3> DEFINE en == [w.engine EXCEPT ![c.home] = FirstStack(c)]
    <3> HIDE DEF u, en
    <3>4. /\ u.engine = en /\ u.session = c.home /\ u.store = w.store
          /\ u.jobs = w.jobs \ {c} /\ u.answers = w.answers
      BY <3>1, <3>3 DEF en
    <3> QED BY <2>1, <3>1, <3>2, <3>4 DEF en
  <2>2. CASE ~ok
    <3>1. u = Withdrawn(w, c)
      BY <2>2
    <3> HIDE DEF u
    <3> QED BY <1>1, <2>2, <3>1, WithdrawnIs
  <2> QED BY <2>1, <2>2
<1> HIDE DEF u
<1>3. w.engine \in [Docs -> Stacks] /\ w.answers \in Seq(Replies) /\ Len(w.answers) \in Nat
  BY WorldFields
<1>4. /\ \A d \in Docs : d # c.home => u.engine[d] = w.engine[d]
      /\ ok => u.engine[c.home].live
  <2>1. CASE ok
    <3>1. u.engine = [w.engine EXCEPT ![c.home] = FirstStack(c)] /\ FirstStack(c).live
      BY <1>2, <2>1, FirstStackIs
    <3> QED BY <1>1, <1>3, <3>1
  <2>2. CASE ~ok
    BY <1>2, <2>2
  <2> QED BY <2>1, <2>2
<1>5. Replied(u, v, x, u.engine[x.doc], ok)
  BY <1>1, <1>2, RepliedAlone
<1> HIDE DEF v
<1>6. /\ v \in Worlds /\ v.session = u.session /\ v.store = u.store /\ v.jobs = u.jobs
      /\ v.engine = [u.engine EXCEPT ![x.doc] = u.engine[x.doc]]
      /\ Len(v.answers) = Len(u.answers) + 1
      /\ \A i \in Places(u) : v.answers[i] = u.answers[i]
      /\ v.answers[Len(u.answers) + 1] = [call |-> x, ok |-> ok, layers |-> Prefix(u.engine[x.doc])]
  BY <1>5 DEF Replied
<1>7. v.engine = u.engine
  BY <1>2, <1>6, WorldFields
<1>8. Places(u) = Places(w)
  BY <1>2 DEF Places
<1>9. v.answers[n] = [call |-> x, ok |-> ok, layers |-> Prefix(v.engine[c.home])] /\ Len(v.answers) = n
  BY <1>1, <1>2, <1>6, <1>7
<1>10. LayersOf(v, c.home) = Prefix(v.engine[c.home])
  BY DEF LayersOf, Prefix
<1> HIDE DEF n
<1>11. v.answers[n].call = x /\ v.answers[n].ok = ok /\ v.answers[n].layers = LayersOf(v, c.home)
  BY <1>9, <1>10
<1>12. /\ \A i \in Places(w) : v.answers[i] = w.answers[i]
       /\ \A d \in Docs : d # c.home => v.engine[d] = w.engine[d]
       /\ ~ok => v.engine = w.engine /\ v.session = w.session
       /\ ok => v.session = c.home /\ v.engine[c.home].live
       /\ v.store = w.store /\ v.jobs = w.jobs \ {c}
  BY <1>2, <1>4, <1>6, <1>7, <1>8
<1>13. n = Len(w.answers) + 1
  BY DEF n
<1>14. Finished(w, v, c, x, n)
  BY <1>6, <1>9, <1>11, <1>12, <1>13 DEF Finished
<1> QED BY <1>14 DEF u, v, n

LEMMA ToldOpening ==
  ASSUME NEW w, NEW top, NEW mess, Sane(w, top, mess), NEW c \in w.jobs, c.step \in Openers,
         NEW x \in Calls, x.step = c.step, x.doc = c.doc, x.home = c.home, NEW ok \in BOOLEAN
  PROVE  Sane(Answered(IF ok THEN Begun(w, c) ELSE Withdrawn(w, c), x, ok), top, mess)
<1> DEFINE v == Answered(IF ok THEN Begun(w, c) ELSE Withdrawn(w, c), x, ok)
<1>1. w \in Worlds /\ c \in Afoot(w) /\ c \in Calls /\ c.step \in JobSteps
  BY AfootCalls DEF Sane
<1>2. PICK n : Finished(w, v, c, x, n)
  BY <1>1, FinishedBy
<1> HIDE DEF v
<1>3. mess = FALSE => Linked(v, top)
  BY <1>1, <1>2, FinishedLinked DEF Sane
<1>4. Afoot(w) \subseteq Afoot(v) \cup {c} /\ x \in Afoot(v)
  BY <1>1, <1>2, FinishedAfoot
<1>5. v \in Worlds /\ v.store = w.store /\ \A i \in Places(w) : v.answers[i] = w.answers[i]
  BY <1>2 DEF Finished
<1>6. Places(w) \subseteq Places(v)
  <2>1. Len(w.answers) \in Nat /\ n = Len(w.answers) + 1 /\ Len(v.answers) = n
    BY <1>1, <1>2, WorldFields DEF Finished
  <2> QED BY <2>1 DEF Places
<1>7. Named(v) /\ OneTool(v)
  BY <1>4, <1>5, NamedOn DEF Sane, OneTool
<1>8. Awaited(w) => Awaited(v)
  BY <1>5, <1>6, AwaitedOn
<1> QED BY <1>3, <1>5, <1>7, <1>8 DEF Sane, v

\* The store when a document comes on screen, and when the one there is closed.
LEMMA EmptiedIs ==
  ASSUME NEW w \in Worlds, NEW d \in Docs
  PROVE  /\ Emptied(w, d) \in Worlds
         /\ Emptied(w, d).engine = w.engine /\ Emptied(w, d).session = w.session
         /\ Emptied(w, d).jobs = w.jobs /\ Emptied(w, d).answers = w.answers
         /\ Emptied(w, d).store.document = d /\ Emptied(w, d).store.history = Blank
         /\ Emptied(w, d).store.pending = Unset /\ Emptied(w, d).store.crop = FALSE
         /\ Emptied(w, d).store.busy = "none"
<1> DEFINE t == w.store
           s == [t EXCEPT !.document = d, !.history = Blank, !.pending = Unset,
                       !.selected = None, !.crop = FALSE, !.busy = "none"]
<1>1. t \in Stores
  BY WorldFields
<1>2. Blank \in [doc : {0} \cup Docs, layers : Lists]
  BY DEF Blank, Lists
<1>3. /\ None \in Int /\ "none" \in BusyNames /\ Unset \in {Unset} \cup SUBSET AnyControl
      /\ d \in {0} \cup Docs
  BY DEF None, BusyNames
<1>4. Emptied(w, d) = [w EXCEPT !.store = s]
  BY Zenon DEF Emptied
<1> HIDE DEF t
<1>5. s \in Stores
  BY <1>1, <1>2, <1>3 DEF Stores
<1>6. /\ s.document = d /\ s.history = Blank /\ s.pending = Unset /\ s.crop = FALSE
      /\ s.busy = "none"
  BY <1>1 DEF Stores
<1> HIDE DEF s
<1> QED BY <1>4, <1>5, <1>6, WithStore DEF t

LEMMA DroppedIs ==
  ASSUME NEW w \in Worlds
  PROVE  /\ Dropped(w) \in Worlds
         /\ Dropped(w).engine = w.engine /\ Dropped(w).session = w.session
         /\ Dropped(w).jobs = w.jobs /\ Dropped(w).answers = w.answers
         /\ Dropped(w).store.document = 0 /\ Dropped(w).store.history = Blank
         /\ Dropped(w).store.pending = Unset /\ Dropped(w).store.crop = FALSE
         /\ Dropped(w).store.busy = w.store.busy
<1> DEFINE t == w.store
           s == [t EXCEPT !.document = 0, !.history = Blank, !.pending = Unset, !.crop = FALSE]
<1>1. t \in Stores
  BY WorldFields
<1>2. Blank \in [doc : {0} \cup Docs, layers : Lists]
  BY DEF Blank, Lists
<1>3. /\ None \in Int /\ "none" \in BusyNames /\ Unset \in {Unset} \cup SUBSET AnyControl
      /\ 0 \in {0} \cup Docs
  BY DEF None, BusyNames
<1>4. Dropped(w) = [w EXCEPT !.store = s]
  BY Zenon DEF Dropped
<1> HIDE DEF t
<1>5. s \in Stores
  BY <1>1, <1>2, <1>3 DEF Stores
<1>6. /\ s.document = 0 /\ s.history = Blank /\ s.pending = Unset /\ s.crop = FALSE
      /\ s.busy = t.busy
  BY <1>1 DEF Stores
<1> HIDE DEF s
<1> QED BY <1>4, <1>5, <1>6, WithStore DEF t

\* Nothing is on screen, and nothing in the queue speaks of a photograph.
Clear(u, top, c) ==
  /\ u.store.document = 0 /\ OneOpening(u)
  /\ \A i \in Places(u) : ~Telling(u, i) /\ ~Replacing(u, i)
  /\ u.engine[c.home].live /\ c.home <= top
  /\ \A i \in Places(u) : Opened(u, i) =>
        /\ u.session = u.answers[i].call.home
        /\ u.engine[u.answers[i].call.home].live
        /\ u.answers[i].layers = LayersOf(u, u.answers[i].call.home)
  /\ (\A i \in Places(u) : ~Opened(u, i)) => u.session = c.home
  /\ \A o \in Afoot(u) : IF o.step \in Arriving THEN o.home # c.home /\ o.home <= top
                                                ELSE Mine(u, top, o)

LEMMA InstalledIs ==
  ASSUME NEW u \in Worlds, NEW c \in Calls
  PROVE  \E e \in Worlds, x \in Calls :
           /\ x.step = "read" /\ x.doc = c.home /\ x.home = c.home
           /\ e = Emptied(u, c.home)
           /\ Replied(e, Installed(u, c), x, e.engine[c.home], e.engine[c.home].live)
<1> DEFINE e == Emptied(u, c.home)  x == [c EXCEPT !.step = "read", !.doc = c.home]
           v == Installed(u, c)  ok == e.engine[x.doc].live
<1>1. c.home \in Docs
  BY DEF Calls
<1>2. e \in Worlds
  BY <1>1, EmptiedIs
<1>3. x \in Calls /\ x.step = "read" /\ x.doc = c.home /\ x.home = c.home
  BY <1>1 DEF Calls, StoreSteps, ToolSteps
<1>4. v = Answered(e, x, ok)
  BY Zenon DEF Installed, Asked
<1> HIDE DEF e, x, v
<1>5. Callable(x)
  BY <1>3 DEF Callable, StoreSteps
<1>6. ok \in BOOLEAN
  <2>1. e.engine[x.doc] \in Stacks
    BY <1>1, <1>2, <1>3, WorldFields
  <2> QED BY <2>1, StackFields
<1> HIDE DEF ok
<1>7. Replied(e, v, x, e.engine[x.doc], ok)
  BY <1>2, <1>4, <1>5, <1>6, RepliedAlone
<1> QED BY <1>2, <1>3, <1>7 DEF ok, e, v

\* What installing a document comes to: the world but for the store and one more
\* answer.
Shows(u, v, x, n, d) ==
  /\ v \in Worlds /\ x \in Calls /\ x.step = "read" /\ x.doc = d /\ x.home = d /\ d \in Docs
  /\ v.engine = u.engine /\ v.session = u.session /\ v.jobs = u.jobs
  /\ v.store.document = d /\ v.store.history = Blank /\ v.store.pending = Unset
  /\ v.store.crop = FALSE /\ v.store.busy = "none"
  /\ n = Len(u.answers) + 1 /\ Len(v.answers) = n
  /\ \A i \in Places(u) : v.answers[i] = u.answers[i]
  /\ v.answers[n] = [call |-> x, ok |-> u.engine[d].live, layers |-> Prefix(u.engine[d])]

LEMMA InstalledShows ==
  ASSUME NEW u \in Worlds, NEW c \in Calls
  PROVE  \E x, n : Shows(u, Installed(u, c), x, n, c.home)
<1>1. PICK e \in Worlds, x \in Calls :
        /\ x.step = "read" /\ x.doc = c.home /\ x.home = c.home
        /\ e = Emptied(u, c.home)
        /\ Replied(e, Installed(u, c), x, e.engine[c.home], e.engine[c.home].live)
  BY InstalledIs
<1> DEFINE v == Installed(u, c)  d == c.home  n == Len(u.answers) + 1
<1>2. d \in Docs
  BY DEF Calls
<1>3. /\ e.engine = u.engine /\ e.session = u.session /\ e.jobs = u.jobs /\ e.answers = u.answers
      /\ e.store.document = d /\ e.store.history = Blank
      /\ e.store.pending = Unset /\ e.store.crop = FALSE /\ e.store.busy = "none"
  <2>1. e = Emptied(u, d) /\ Emptied(u, d).store.busy = "none"
    BY <1>1, <1>2, EmptiedIs
  <2> QED BY <1>2, <2>1, EmptiedIs
<1> HIDE DEF v
<1>4. Replied(e, v, x, u.engine[d], u.engine[d].live)
  BY <1>1, <1>3 DEF v
<1> HIDE DEF d
<1>5. /\ v \in Worlds /\ v.session = e.session /\ v.store = e.store /\ v.jobs = e.jobs
      /\ v.engine = [e.engine EXCEPT ![x.doc] = u.engine[d]]
      /\ Len(v.answers) = Len(e.answers) + 1
      /\ \A i \in Places(e) : v.answers[i] = e.answers[i]
      /\ v.answers[Len(e.answers) + 1] = [call |-> x, ok |-> u.engine[d].live,
           layers |-> Prefix(u.engine[d])]
  BY <1>4 DEF Replied
<1>6. v.engine = u.engine
  <2>1. x.doc = d /\ u.engine \in [Docs -> Stacks]
    BY <1>1, WorldFields DEF d
  <2> QED BY <1>2, <1>3, <1>5, <2>1
<1>7. Places(e) = Places(u)
  BY <1>3 DEF Places
<1>8. v.answers[n] = [call |-> x, ok |-> u.engine[d].live, layers |-> Prefix(u.engine[d])]
        /\ Len(v.answers) = n
  BY <1>3, <1>5
<1>9. x \in Calls /\ x.step = "read" /\ x.doc = d /\ x.home = d
  BY <1>1 DEF d
<1>10. n = Len(u.answers) + 1
  OBVIOUS
<1> HIDE DEF n
<1>11. \A i \in Places(u) : v.answers[i] = u.answers[i]
  BY <1>3, <1>5, <1>7
<1>12. Shows(u, v, x, n, d)
  BY <1>2, <1>3, <1>5, <1>6, <1>8, <1>9, <1>10, <1>11 DEF Shows
<1> QED BY <1>12 DEF v, d

LEMMA ShowsAfoot ==
  ASSUME NEW u \in Worlds, NEW v, NEW x, NEW n, NEW d, Shows(u, v, x, n, d)
  PROVE  /\ \A i \in Places(v) : i \in Places(u) \/ i = n
         /\ n \in Places(v) /\ n \notin Places(u) /\ \A i \in Places(u) : i \in Places(v) /\ i < n
         /\ \A o \in Afoot(v) : o \in Afoot(u) \/ o = x
<1>1. Len(u.answers) \in Nat /\ n = Len(u.answers) + 1 /\ Len(v.answers) = n
  BY WorldFields DEF Shows
<1>2. /\ \A i \in Places(v) : i \in Places(u) \/ i = n
      /\ n \in Places(v) /\ n \notin Places(u) /\ \A i \in Places(u) : i \in Places(v) /\ i < n
  BY <1>1 DEF Places
<1>3. \A o \in Afoot(v) : o \in Afoot(u) \/ o = x
  BY <1>2 DEF Shows, Afoot
<1> QED BY <1>2, <1>3

LEMMA ShowsLinked ==
  ASSUME NEW u \in Worlds, NEW v, NEW x, NEW n, NEW top, NEW c \in Calls,
         Shows(u, v, x, n, c.home), Clear(u, top, c)
  PROVE  Linked(v, top)
<1> DEFINE d == c.home
<1>1. /\ v \in Worlds /\ x \in Calls /\ x.step = "read" /\ x.doc = d /\ x.home = d /\ d \in Docs
      /\ v.engine = u.engine /\ v.session = u.session /\ v.jobs = u.jobs
      /\ v.store.document = d /\ v.store.history = Blank
      /\ \A i \in Places(u) : v.answers[i] = u.answers[i]
      /\ v.answers[n] = [call |-> x, ok |-> u.engine[d].live, layers |-> Prefix(u.engine[d])]
  BY DEF Shows
<1>2. /\ \A i \in Places(v) : i \in Places(u) \/ i = n
      /\ n \in Places(v) /\ n \notin Places(u) /\ \A i \in Places(u) : i \in Places(v) /\ i < n
      /\ \A o \in Afoot(v) : o \in Afoot(u) \/ o = x
  BY ShowsAfoot
<1>3. /\ u.store.document = 0 /\ OneOpening(u)
      /\ \A i \in Places(u) : ~Telling(u, i) /\ ~Replacing(u, i)
      /\ u.engine[d].live /\ d <= top
      /\ \A i \in Places(u) : Opened(u, i) =>
            /\ u.session = u.answers[i].call.home
            /\ u.engine[u.answers[i].call.home].live
            /\ u.answers[i].layers = LayersOf(u, u.answers[i].call.home)
      /\ (\A i \in Places(u) : ~Opened(u, i)) => u.session = d
      /\ \A o \in Afoot(u) : IF o.step \in Arriving THEN o.home # d /\ o.home <= top
                                                    ELSE Mine(u, top, o)
  BY DEF Clear
<1> HIDE DEF d
<1>4. "read" \notin Arriving /\ "read" \in Adopting /\ "read" \notin Openers /\ "read" # "replaced"
  BY DEF Arriving, Openers, Adopting
<1>5. v.answers[n].call = x /\ v.answers[n].ok = u.engine[d].live
        /\ v.answers[n].layers = Prefix(u.engine[d])
  BY <1>1
<1>6. \A i \in Places(u) : ~Telling(v, i) /\ ~Replacing(v, i) /\ (Opened(v, i) <=> Opened(u, i))
  BY <1>1, <1>3 DEF Telling, Replacing, Opened
<1>7. Telling(v, n) /\ ~Replacing(v, n) /\ ~Opened(v, n)
  BY <1>1, <1>3, <1>4, <1>5 DEF Telling, Replacing, Opened
<1>8. LayersOf(v, d) = Prefix(u.engine[d]) /\ \A y : LayersOf(v, y) = LayersOf(u, y)
  BY <1>1 DEF LayersOf, Prefix
<1>9. Placed(v, top)
  <2>1. ASSUME NEW o \in Afoot(v), o.step \in Arriving PROVE Coming(v, top, o)
    <3>1. o \in Afoot(u)
      BY <1>1, <1>2, <1>4, <2>1
    <3>2. o \in Calls
      BY <3>1, AfootCalls
    <3> QED BY <1>1, <1>3, <2>1, <3>1, <3>2 DEF Coming, Calls, Openers
  <2>2. ASSUME NEW o \in Afoot(v), o.step \notin Arriving PROVE Mine(v, top, o)
    <3>1. \A p \in Afoot(v) : p.step \in Arriving => p \in Afoot(u) /\ p.home # d
      BY <1>1, <1>2, <1>3, <1>4
    <3>2. CASE o = x
      <4>1. AtHand(v, d)
        BY <1>1 DEF AtHand
      <4> QED BY <1>1, <1>3, <3>1, <3>2, <4>1 DEF Mine
    <3>3. CASE o \in Afoot(u)
      <4>1. Mine(u, top, o) /\ o \in Calls
        BY <1>3, <2>2, <3>3, AfootCalls
      <4>2. o.doc \in Docs /\ o.home \in Docs /\ 0 \notin Docs
        <5>1. o.doc \in Docs /\ o.home \in Docs
          BY <4>1 DEF Calls
        <5>2. 0 \notin Docs
          BY EditorAssumption DEF Docs
        <5> QED BY <5>1, <5>2
      <4>3. AtHand(v, o.doc) /\ AtHand(v, o.home)
        BY <1>1, <1>3, <4>1, <4>2 DEF Mine, AtHand
      <4> QED BY <3>1, <4>1, <4>3 DEF Mine
    <3> QED BY <1>2, <3>2, <3>3
  <2> QED BY <1>1, <1>3, <2>1, <2>2 DEF Placed
<1>10. OneOpening(v)
  <2>1. /\ \A p, o \in u.jobs : p.step \in Openers /\ o.step \in Openers => p = o
        /\ \A i, j \in Places(u) :
              u.answers[i].call.step \in Openers /\ u.answers[j].call.step \in Openers => i = j
        /\ \A p \in u.jobs, i \in Places(u) :
              ~(p.step \in Openers /\ u.answers[i].call.step \in Openers)
    BY <1>3 DEF OneOpening
  <2>2. \A i \in Places(v) : v.answers[i].call.step \in Openers
                                => i \in Places(u) /\ v.answers[i] = u.answers[i]
    BY <1>1, <1>2, <1>4, <1>5
  <2> QED BY <1>1, <2>1, <2>2 DEF OneOpening
<1>11. \A i \in Places(v) : ~Replacing(v, i)
  BY <1>2, <1>6, <1>7
<1>12. OneClose(v)
  BY <1>11 DEF OneClose
<1>13. InTime(v)
  <2>1. \A i \in Places(v) : Telling(v, i) => v.answers[i].call.doc = v.store.document
    BY <1>1, <1>2, <1>5, <1>6
  <2> QED BY <2>1 DEF InTime
<1>14. OnShow(v)
  BY <1>1 DEF OnShow, Blank
<1>15. Held(v)
  <2>1. ASSUME NEW i \in Places(v), Opened(v, i)
        PROVE  /\ v.session = v.answers[i].call.home
               /\ v.engine[v.answers[i].call.home].live
               /\ v.answers[i].layers = LayersOf(v, v.answers[i].call.home)
    <3>1. i \in Places(u) /\ Opened(u, i) /\ v.answers[i] = u.answers[i]
      BY <1>1, <1>2, <1>6, <1>7, <2>1
    <3> QED BY <1>1, <1>3, <1>8, <3>1
  <2>2. (\A i \in Places(v) : ~Opened(v, i)) => v.session = v.store.document
    BY <1>1, <1>2, <1>3, <1>6
  <2>3. v.engine[v.store.document].live
    BY <1>1, <1>3
  <2> QED BY <1>11, <2>1, <2>2, <2>3 DEF Held
<1>16. Followed(v)
  <2>1. \A i \in Places(v) : Telling(v, i) => i = n
    BY <1>2, <1>6
  <2>2. n <= n
    <3>1. n \in Nat
      BY WorldFields DEF Shows
    <3> QED BY <3>1
  <2>3. Newest(v, n)
    BY <1>1, <1>5, <1>7, <2>1, <2>2 DEF Newest
  <2>4. v.answers[n].layers = LayersOf(v, v.store.document)
    BY <1>1, <1>5, <1>8
  <2> QED BY <1>2, <2>3, <2>4 DEF Followed
<1> QED BY <1>9, <1>10, <1>12, <1>13, <1>14, <1>15, <1>16 DEF Linked

LEMMA InstalledSane ==
  ASSUME NEW u \in Worlds, NEW top, NEW mess, NEW c \in Calls,
         mess = FALSE => Clear(u, top, c)
  PROVE  Sane(Installed(u, c), top, mess)
<1> DEFINE v == Installed(u, c)
<1>1. PICK x, n : Shows(u, v, x, n, c.home)
  BY InstalledShows
<1> HIDE DEF v
<1>2. v \in Worlds /\ v.store.busy = "none" /\ v.store.crop = FALSE /\ v.store.pending = Unset
  BY <1>1 DEF Shows
<1>3. mess = FALSE => Linked(v, top)
  BY <1>1, ShowsLinked
<1> QED BY <1>2, <1>3 DEF Sane, Named, OneTool, Awaited, v

\* The close of the photograph before was heard of, or there was none to close.
LEMMA HeardClear ==
  ASSUME NEW w \in Worlds, NEW top, Linked(w, top), w.answers # <<>>, w.store.document = 0,
         Replacing(w, 1) \/ Opened(w, 1)
  PROVE  Clear(Unheard(w), top, Head(w.answers).call)
<1> DEFINE u == Unheard(w)  c == Head(w.answers).call  d == c.home
<1>1. /\ u \in Worlds /\ u.engine = w.engine /\ u.session = w.session /\ u.store = w.store
      /\ u.jobs = w.jobs /\ u.answers = Tail(w.answers)
  BY UnheardIs
<1> HIDE DEF u
<1>2. Heard(w, u)
  BY <1>1 DEF Heard
<1>3. MovedUp(w, u) /\ Afoot(w) = Afoot(u) \cup {c} /\ c \in Calls
  BY <1>2, HeardAfoot
<1>4. 1 \in Places(w) /\ w.answers[1].call = c /\ \A i \in Places(u) : i + 1 \in Places(w)
        /\ u.answers[i] = w.answers[i + 1] /\ i \in Nat /\ i >= 1
  BY <1>3 DEF MovedUp
<1>5. /\ Placed(w, top) /\ OneOpening(w) /\ OneClose(w) /\ InTime(w) /\ Held(w)
  BY DEF Linked
<1>6. c.step \in Arriving /\ (c.step \in Openers <=> Opened(w, 1)) /\ (Replacing(w, 1) <=> ~Opened(w, 1))
  BY <1>4 DEF Replacing, Opened, Arriving, Openers
<1>7. \A i \in Places(w) : Replacing(w, i) => i = 1
  <2>1. CASE Replacing(w, 1)
    BY <1>4, <1>5, <2>1 DEF OneClose
  <2>2. CASE Opened(w, 1)
    <3> SUFFICES ASSUME NEW i \in Places(w), Replacing(w, i), i # 1 PROVE FALSE
      OBVIOUS
    <3>1. i < 1
      BY <1>4, <1>5, <1>6, <2>2 DEF OneClose
    <3> QED BY <3>1 DEF Places
  <2> QED BY <2>1, <2>2
<1>8. \A i \in Places(u) : Telling(u, i) = Telling(w, i + 1) /\ Replacing(u, i) = Replacing(w, i + 1)
                           /\ Opened(u, i) = Opened(w, i + 1)
  BY <1>4 DEF Telling, Replacing, Opened
<1>9. \A i \in Places(u) : ~Replacing(u, i)
  <2> SUFFICES ASSUME NEW i \in Places(u), Replacing(u, i) PROVE FALSE
    OBVIOUS
  <2>1. i + 1 = 1 /\ i \in Nat /\ i >= 1
    BY <1>4, <1>7, <1>8
  <2> QED BY <2>1
<1>10. \A i \in Places(u) : ~Telling(u, i)
  <2> SUFFICES ASSUME NEW i \in Places(u), Telling(u, i) PROVE FALSE
    OBVIOUS
  <2>1. Telling(w, i + 1) /\ i + 1 \in Places(w) /\ i \in Nat /\ i >= 1
    BY <1>4, <1>8
  <2>2. w.answers[i + 1].call.doc # 0
    <3>1. w.answers[i + 1].call \in Calls
      BY <2>1, AfootCalls
    <3>2. w.answers[i + 1].call.doc \in Docs
      BY <3>1 DEF Calls
    <3> QED BY <3>2, EditorAssumption DEF Docs
  <2>3. PICK j \in Places(w) : i + 1 < j /\ Replacing(w, j)
    BY <1>5, <2>1, <2>2 DEF InTime
  <2>4. j = 1
    BY <1>7, <2>3
  <2> QED BY <2>1, <2>3, <2>4
<1>11. OneOpening(u)
  BY <1>2, <1>5, HeardOpenings
<1>12. u.engine[d].live
  BY <1>1, <1>4, <1>5, <1>6 DEF Held
<1>13. ASSUME NEW i \in Places(u), Opened(u, i)
       PROVE  /\ u.session = u.answers[i].call.home
              /\ u.engine[u.answers[i].call.home].live
              /\ u.answers[i].layers = LayersOf(u, u.answers[i].call.home)
  <2>1. i + 1 \in Places(w) /\ Opened(w, i + 1) /\ u.answers[i] = w.answers[i + 1]
    BY <1>4, <1>8, <1>13
  <2>2. /\ w.session = w.answers[i + 1].call.home
        /\ w.engine[w.answers[i + 1].call.home].live
        /\ w.answers[i + 1].layers = LayersOf(w, w.answers[i + 1].call.home)
    BY <1>5, <2>1 DEF Held
  <2>3. LayersOf(u, u.answers[i].call.home) = LayersOf(w, u.answers[i].call.home)
    BY <1>1 DEF LayersOf
  <2> QED BY <1>1, <2>1, <2>2, <2>3
<1>14. ASSUME \A i \in Places(u) : ~Opened(u, i) PROVE u.session = d
  <2>1. CASE Opened(w, 1)
    BY <1>1, <1>4, <1>5, <2>1 DEF Held
  <2>2. CASE ~Opened(w, 1)
    <3>1. \A i \in Places(w) : ~Opened(w, i)
      <4> SUFFICES ASSUME NEW i \in Places(w), Opened(w, i) PROVE FALSE
        OBVIOUS
      <4>1. i # 1
        BY <2>2
      <4>2. i - 1 \in Places(u) /\ u.answers[i - 1] = w.answers[i]
        BY <1>3, <4>1 DEF MovedUp
      <4>3. Opened(u, i - 1)
        BY <4>2 DEF Opened
      <4> QED BY <1>14, <4>2, <4>3
    <3>2. Replacing(w, 1)
      BY <1>6, <2>2
    <3> QED BY <1>1, <1>4, <1>5, <3>1, <3>2 DEF Held
  <2> QED BY <2>1, <2>2
<1>15. ASSUME NEW o \in Afoot(u), o.step \in Arriving PROVE o.home # d /\ o.home <= top
  <2>1. o \in Afoot(w) /\ Coming(w, top, o)
    BY <1>3, <1>5, <1>15 DEF Placed
  <2>2. CASE o \in u.jobs
    <3>1. o \in w.jobs /\ o.step \in Openers
      <4>1. o \in w.jobs /\ o.step \in JobSteps
        BY <1>1, <2>2, AfootCalls
      <4> QED BY <1>15, <4>1 DEF Arriving, JobSteps
    <3>2. c.step \notin Openers
      BY <1>4, <1>5, <3>1 DEF OneOpening
    <3> QED BY <1>4, <1>5, <1>6, <2>1, <3>1, <3>2 DEF OneClose, Coming
  <2>3. CASE o \notin u.jobs
    <3>1. PICK i \in Places(u) : o = u.answers[i].call
      BY <2>3 DEF Afoot
    <3>2. o.step \in Openers
      BY <1>9, <1>15, <3>1 DEF Replacing, Arriving
    <3>3. c.step \notin Openers
      <4> SUFFICES ASSUME c.step \in Openers PROVE FALSE
        OBVIOUS
      <4>1. 1 = i + 1
        BY <1>4, <1>5, <3>1, <3>2 DEF OneOpening
      <4> QED BY <1>4, <4>1
    <3> QED BY <1>4, <1>5, <1>6, <2>1, <3>2, <3>3 DEF OneClose, Coming
  <2> QED BY <2>2, <2>3
<1>16. ASSUME NEW o \in Afoot(u), o.step \notin Arriving PROVE Mine(u, top, o)
  <2>1. Mine(w, top, o) /\ o \in Calls
    BY <1>3, <1>5, <1>16, AfootCalls DEF Placed
  <2>2. Narrower(w, u)
    BY <1>2, HeardNarrows
  <2> QED BY <2>1, <2>2, MineStays
<1>17. d <= top
  BY <1>3, <1>5, <1>6 DEF Placed, Coming
<1>18. Clear(u, top, c)
  BY <1>1, <1>9, <1>10, <1>11, <1>12, <1>13, <1>14, <1>15, <1>16, <1>17 DEF Clear
<1> QED BY <1>18 DEF u

\* The document before is closed, and what it replaces comes on screen.
LEMMA ReplacedSane ==
  ASSUME NEW w, NEW top, NEW mess, Sane(w, top, mess), w.answers # <<>>,
         Head(w.answers).call.step = "replaced"
  PROVE  Sane(Resumed(Unheard(w), Head(w.answers)), top, mess)
<1> DEFINE u == Unheard(w)  c == Head(w.answers).call
<1>1. w \in Worlds /\ c \in Calls
  BY HeadFields DEF Sane
<1>2. Resumed(u, Head(w.answers)) = Installed(u, c)
  BY DEF Resumed, EditSteps, JobSteps
<1>3. u \in Worlds
  BY <1>1, UnheardIs
<1>4. mess = FALSE => Clear(u, top, c)
  <2> SUFFICES ASSUME mess = FALSE PROVE Clear(u, top, c)
    OBVIOUS
  <2>1. Linked(w, top)
    BY DEF Sane
  <2>2. 1 \in Places(w) /\ Replacing(w, 1)
    <3>1. Heard(w, u)
      BY <1>1, UnheardIs DEF Heard
    <3>2. MovedUp(w, u)
      BY <3>1, HeardAfoot
    <3> QED BY <3>2 DEF MovedUp, Replacing
  <2>3. w.store.document = 0
    BY <2>1, <2>2 DEF Linked, OneClose
  <2> QED BY <1>1, <2>1, <2>2, <2>3, HeardClear
<1> HIDE DEF u, c
<1>5. Sane(Installed(u, c), top, mess)
  BY <1>1, <1>3, <1>4, InstalledSane
<1> QED BY <1>2, <1>5 DEF u

LEMMA ClosedIs ==
  ASSUME NEW r \in Worlds, NEW x, Callable(x)
  PROVE  \E y \in Worlds, e \in Stacks :
           /\ y.engine = r.engine /\ y.store = r.store /\ y.jobs = r.jobs /\ y.answers = r.answers
           /\ y.session = IF r.session = x.doc THEN 0 ELSE r.session
           /\ ~e.live /\ Replied(y, Closed(r, x), x, e, TRUE)
<1> DEFINE d == x.doc  en == r.engine
           s == IF r.session = d THEN 0 ELSE r.session
           e == [en[d] EXCEPT !.live = FALSE]
           more == [en EXCEPT ![d] = e]
           y == [r EXCEPT !.session = s]
           mid == [r EXCEPT !.engine = more]
           z == [y EXCEPT !.engine = [y.engine EXCEPT ![x.doc] = e]]
<1>1. /\ r = [engine |-> en, session |-> r.session, store |-> r.store, jobs |-> r.jobs,
              answers |-> r.answers]
      /\ en \in [Docs -> Stacks] /\ r.session \in {0} \cup Docs /\ r.store \in Stores
      /\ r.jobs \in SUBSET {c \in Calls : c.step \in JobSteps} /\ r.answers \in Seq(Replies)
  BY WorldFields
<1>2. d \in Docs
  BY DEF Callable, Calls
<1>3. e \in Stacks /\ ~e.live
  <2>1. en[d] \in Stacks
    BY <1>1, <1>2
  <2>2. /\ en[d] = [live |-> en[d].live, ops |-> en[d].ops, at |-> en[d].at]
        /\ en[d].ops \in Seq(Ops) /\ en[d].at \in 0 .. Len(en[d].ops)
    BY <2>1, StackFields
  <2>3. e = [live |-> FALSE, ops |-> en[d].ops, at |-> en[d].at]
    <3> DEFINE g == en[d]
    <3>1. g = [live |-> g.live, ops |-> g.ops, at |-> g.at] /\ e = [g EXCEPT !.live = FALSE]
      BY <2>2
    <3> HIDE DEF g, e
    <3>2. e = [live |-> FALSE, ops |-> g.ops, at |-> g.at]
      BY <3>1
    <3> QED BY <3>2 DEF g
  <2> HIDE DEF e
  <2>4. e \in Stacks
    BY <2>2, <2>3, StackMade
  <2> QED BY <2>3, <2>4
<1>4. s \in {0} \cup Docs
  BY <1>1
<1>5. Closed(r, x) = Answered([mid EXCEPT !.session =
        IF mid.session = x.doc THEN 0 ELSE mid.session], x, TRUE)
  BY Zenon DEF Closed
<1> HIDE DEF s, e
<1>6. y = [engine |-> en, session |-> s, store |-> r.store, jobs |-> r.jobs, answers |-> r.answers]
  <2> HIDE DEF en
  <2> QED BY <1>1
<1>7. y \in Worlds
  <2> HIDE DEF y, en
  <2> QED BY <1>1, <1>4, <1>6, WorldMade
<1>8. z = [engine |-> more, session |-> s, store |-> r.store, jobs |-> r.jobs, answers |-> r.answers]
  <2>1. y.engine = en
    BY <1>6
  <2>2. z = [y EXCEPT !.engine = more]
    BY <2>1
  <2> HIDE DEF y, more, z, en
  <2> QED BY <1>6, <2>2
<1>9. mid = [engine |-> more, session |-> r.session, store |-> r.store, jobs |-> r.jobs,
        answers |-> r.answers]
  <2> HIDE DEF more, en
  <2> QED BY <1>1
<1> HIDE DEF mid, more, z
<1>10. [mid EXCEPT !.session = IF mid.session = x.doc THEN 0 ELSE mid.session] = z
  <2>1. s = IF mid.session = x.doc THEN 0 ELSE mid.session
    BY <1>9 DEF s
  <2> QED BY <1>8, <1>9, <2>1
<1>11. Closed(r, x) = Answered(z, x, TRUE)
  BY <1>5, <1>10
<1>12. Replied(y, Answered(z, x, TRUE), x, e, TRUE)
  <2> HIDE DEF y
  <2> QED BY <1>3, <1>7, RepliedBy DEF z
<1>13. y.engine = r.engine /\ y.store = r.store /\ y.jobs = r.jobs /\ y.answers = r.answers
         /\ y.session = s
  BY <1>6
<1> HIDE DEF y, d
<1> QED BY <1>3, <1>7, <1>11, <1>12, <1>13 DEF s, d

\* The photograph on screen goes, and what replaces it waits for that.
Leaves(w, v, c, x, n) ==
  /\ v \in Worlds /\ x \in Calls /\ x.step = "replaced" /\ x.home = c.home
  /\ v.store.document = 0 /\ v.store.pending = Unset /\ v.store.crop = FALSE
  /\ v.store.busy = w.store.busy /\ v.jobs = w.jobs
  /\ \A d \in Docs : d # w.store.document => v.engine[d] = w.engine[d]
  /\ ~v.engine[w.store.document].live
  /\ v.session = IF w.session = w.store.document THEN 0 ELSE w.session
  /\ n = Len(w.answers) /\ Len(v.answers) = n
  /\ \A i \in 1 .. (n - 1) : v.answers[i] = w.answers[i + 1]
  /\ v.answers[n].call = x /\ v.answers[n].ok

LEMMA OpenedLeaves ==
  ASSUME NEW w \in Worlds, w.answers # <<>>, w.store.document # 0
  PROVE  LET c == Head(w.answers).call
         IN  \E x, n : Leaves(w, OpenedImage(Unheard(w), c), c, x, n)
<1> DEFINE u == Unheard(w)  c == Head(w.answers).call  old == w.store.document
           x == [c EXCEPT !.step = "replaced", !.doc = old]
           r == Dropped(u)  v == OpenedImage(u, c)  n == Len(w.answers)
<1>1. /\ u \in Worlds /\ u.engine = w.engine /\ u.session = w.session /\ u.store = w.store
      /\ u.jobs = w.jobs /\ u.answers = Tail(w.answers)
  BY UnheardIs
<1>2. c \in Calls /\ old \in Docs
  BY HeadFields, WorldFields, StoreFields
<1>3. v = Closed(r, x)
  BY <1>1 DEF OpenedImage
<1>4. x \in Calls /\ x.step = "replaced" /\ x.home = c.home /\ x.doc = old
  <2> HIDE DEF old, c
  <2> QED BY <1>2 DEF Calls, StoreSteps, ToolSteps
<1>5. Callable(x)
  BY <1>4 DEF Callable, StoreSteps
<1> HIDE DEF u, x, v
<1>6. /\ r \in Worlds /\ r.engine = u.engine /\ r.session = u.session
      /\ r.jobs = u.jobs /\ r.answers = u.answers
      /\ r.store.document = 0 /\ r.store.pending = Unset /\ r.store.crop = FALSE
      /\ r.store.busy = u.store.busy
  BY <1>1, DroppedIs
<1> HIDE DEF r
<1>7. PICK y \in Worlds, e \in Stacks :
           /\ y.engine = r.engine /\ y.store = r.store /\ y.jobs = r.jobs /\ y.answers = r.answers
           /\ y.session = IF r.session = x.doc THEN 0 ELSE r.session
           /\ ~e.live /\ Replied(y, v, x, e, TRUE)
  BY <1>3, <1>5, <1>6, ClosedIs
<1>8. /\ v \in Worlds /\ v.session = y.session /\ v.store = y.store /\ v.jobs = y.jobs
      /\ v.engine = [y.engine EXCEPT ![x.doc] = e]
      /\ Len(v.answers) = Len(y.answers) + 1
      /\ \A i \in 1 .. Len(y.answers) : v.answers[i] = y.answers[i]
      /\ v.answers[Len(y.answers) + 1] = [call |-> x, ok |-> TRUE, layers |-> Prefix(e)]
  BY <1>7 DEF Replied, Places
<1>9. y.answers = Tail(w.answers)
  BY <1>1, <1>6, <1>7
<1>10. /\ Len(Tail(w.answers)) = n - 1 /\ n \in Nat
       /\ \A i \in 1 .. (n - 1) : Tail(w.answers)[i] = w.answers[i + 1]
  <2>1. w.answers \in Seq(Replies)
    BY WorldFields
  <2> QED BY <2>1, TailIs
<1> HIDE DEF n
<1>11. Len(y.answers) = n - 1 /\ Len(y.answers) + 1 = n
  BY <1>9, <1>10
<1>12. /\ Len(v.answers) = n /\ v.answers[n].call = x /\ v.answers[n].ok
       /\ \A i \in 1 .. (n - 1) : v.answers[i] = w.answers[i + 1]
  BY <1>8, <1>9, <1>10, <1>11
<1>13. /\ \A d \in Docs : d # old => v.engine[d] = w.engine[d]
       /\ ~v.engine[old].live
  <2>1. v.engine = [w.engine EXCEPT ![old] = e] /\ w.engine \in [Docs -> Stacks]
    BY <1>1, <1>4, <1>6, <1>7, <1>8, WorldFields
  <2> QED BY <1>2, <1>7, <2>1
<1>14. v.session = IF w.session = old THEN 0 ELSE w.session
  BY <1>1, <1>4, <1>6, <1>7, <1>8
<1>15. /\ v.store.document = 0 /\ v.store.pending = Unset /\ v.store.crop = FALSE
       /\ v.store.busy = w.store.busy /\ v.jobs = w.jobs
  BY <1>1, <1>6, <1>7, <1>8
<1>16. n = Len(w.answers)
  BY DEF n
<1>17. Leaves(w, v, c, x, n)
  BY <1>4, <1>8, <1>12, <1>13, <1>14, <1>15, <1>16 DEF Leaves
<1> QED BY <1>17 DEF v, u

\* What was on its way to the screen besides it: nothing.
LEMMA LeavesAfoot ==
  ASSUME NEW w \in Worlds, w.answers # <<>>, w.store.document # 0, NEW v, NEW x, NEW n,
         Leaves(w, v, Head(w.answers).call, x, n), OneOpening(w), OneClose(w), Opened(w, 1)
  PROVE  /\ n \in Places(v)
         /\ \A i \in Places(v) : i = n \/ (i < n /\ i + 1 \in Places(w) /\ v.answers[i] = w.answers[i + 1]
                                           /\ v.answers[i].call.step \notin Arriving)
         /\ \A o \in Afoot(v) : o = x \/ (o \in Afoot(w) /\ o.step \notin Arriving)
         /\ \A o \in v.jobs : o.step \notin Openers
         /\ Head(w.answers).call = w.answers[1].call /\ 1 \in Places(w)
         /\ w.answers[1].call \in Afoot(w)
<1>1. w.answers \in Seq(Replies) /\ Len(w.answers) \in Nat
  BY WorldFields
<1>2. Len(w.answers) > 0 /\ Head(w.answers) = w.answers[1]
  BY <1>1
<1>3. /\ n = Len(w.answers) /\ Len(v.answers) = n /\ v.answers[n].call = x /\ v.jobs = w.jobs
      /\ \A i \in 1 .. (n - 1) : v.answers[i] = w.answers[i + 1]
  BY DEF Leaves
<1>4. 1 \in Places(w) /\ n \in Places(v)
  BY <1>1, <1>2, <1>3 DEF Places
<1>5. w.answers[1].call.step \in Openers
  BY DEF Opened
<1>6. \A i \in Places(w) : ~Replacing(w, i)
  BY DEF OneClose
<1>7. \A i \in Places(w) : i # 1 => w.answers[i].call.step \notin Arriving
  BY <1>4, <1>5, <1>6 DEF OneOpening, Arriving, Replacing
<1>8. ASSUME NEW i \in Places(v), i # n
      PROVE  /\ i < n /\ i + 1 \in Places(w) /\ v.answers[i] = w.answers[i + 1]
             /\ v.answers[i].call.step \notin Arriving
  <2>1. i \in 1 .. (n - 1) /\ i + 1 \in Places(w) /\ i < n /\ i + 1 # 1
    BY <1>1, <1>3, <1>8 DEF Places
  <2> QED BY <1>3, <1>7, <2>1
<1>9. \A o \in v.jobs : o.step \notin Openers /\ o.step \notin Arriving /\ o \in Afoot(w)
  <2>1. \A o \in w.jobs : o.step \in JobSteps /\ o \in Afoot(w)
    BY AfootCalls
  <2>2. \A o \in w.jobs : o.step \notin Openers
    BY <1>4, <1>5 DEF OneOpening
  <2> QED BY <1>3, <2>1, <2>2 DEF Arriving, JobSteps
<1>10. ASSUME NEW o \in Afoot(v), o # x PROVE o \in Afoot(w) /\ o.step \notin Arriving
  <2>1. CASE o \in v.jobs
    BY <1>9, <2>1
  <2>2. CASE o \notin v.jobs
    <3>1. PICK i \in Places(v) : o = v.answers[i].call
      BY <2>2 DEF Afoot
    <3>2. i # n
      BY <1>3, <1>10, <3>1
    <3>3. w.answers[i + 1].call \in Afoot(w)
      BY <1>8, <3>2, AfootCalls
    <3> QED BY <1>8, <3>1, <3>2, <3>3
  <2> QED BY <2>1, <2>2
<1>11. w.answers[1].call \in Afoot(w)
  BY <1>4, AfootCalls
<1> QED BY <1>2, <1>4, <1>8, <1>9, <1>10, <1>11

LEMMA LeavesLinked ==
  ASSUME NEW w \in Worlds, w.answers # <<>>, w.store.document # 0, NEW v, NEW x, NEW n, NEW top \in Nat,
         Leaves(w, v, Head(w.answers).call, x, n), Linked(w, top), Opened(w, 1)
  PROVE  Linked(v, top)
<1> DEFINE c == w.answers[1].call  old == w.store.document
<1>1. /\ Placed(w, top) /\ OneOpening(w) /\ OneClose(w) /\ InTime(w) /\ OnShow(w) /\ Held(w)
  BY DEF Linked
<1>2. /\ n \in Places(v)
      /\ \A i \in Places(v) : i = n \/ (i < n /\ i + 1 \in Places(w) /\ v.answers[i] = w.answers[i + 1]
                                        /\ v.answers[i].call.step \notin Arriving)
      /\ \A o \in Afoot(v) : o = x \/ (o \in Afoot(w) /\ o.step \notin Arriving)
      /\ \A o \in v.jobs : o.step \notin Openers
      /\ Head(w.answers).call = c /\ 1 \in Places(w) /\ c \in Afoot(w)
  BY <1>1, LeavesAfoot
<1>3. /\ v \in Worlds /\ x \in Calls /\ x.step = "replaced" /\ x.home = c.home
      /\ v.store.document = 0
      /\ \A d \in Docs : d # old => v.engine[d] = w.engine[d]
      /\ ~v.engine[old].live
      /\ v.session = IF w.session = old THEN 0 ELSE w.session
      /\ v.answers[n].call = x
  BY <1>2 DEF Leaves
<1>4. c.step \in Openers /\ c.step \in Arriving /\ "replaced" \notin Openers /\ "replaced" \in Arriving
      /\ "replaced" \notin Adopting
  BY DEF Opened, Openers, Arriving, Adopting, EditSteps
<1>5. Coming(w, top, c) /\ c \in Calls
  BY <1>1, <1>2, <1>4, AfootCalls DEF Placed
<1>6. c.home \in Docs /\ c.home # old /\ c.home <= top /\ old \in Docs /\ 0 \notin Docs
  <2>0. c.home \in Docs
    BY <1>5 DEF Calls
  <2>1. c.home \in Docs /\ 0 \notin Docs
    BY <2>0, EditorAssumption DEF Docs
  <2> QED BY <1>5, <2>1, WorldFields, StoreFields DEF Coming
<1>7. w.session = c.home /\ w.engine[c.home].live
  BY <1>1, <1>2 DEF Held
<1> HIDE DEF c, old
<1>8. Placed(v, top)
  <2>1. 0 <= top
    OBVIOUS
  <2>2. Coming(v, top, x)
    BY <1>3, <1>4, <1>6 DEF Coming
  <2>3. ASSUME NEW o \in Afoot(v), o # x PROVE Mine(v, top, o) /\ o.step \notin Arriving
    <3>1. Mine(w, top, o) /\ o \in Calls /\ o.step \notin Arriving
      BY <1>1, <1>2, <2>3, AfootCalls DEF Placed
    <3>2. o.doc \in Docs /\ o.home \in Docs
      BY <3>1 DEF Calls
    <3>3. AtHand(v, o.doc) /\ AtHand(v, o.home)
      BY <1>3, <3>1, <3>2 DEF Mine, AtHand, old
    <3>4. \A p \in Afoot(v) : p.step \in Arriving => p.home = c.home
      BY <1>2, <1>3
    <3>5. c.home # o.doc /\ c.home # o.home
      BY <1>2, <1>4, <3>1 DEF Mine
    <3>6. o.doc <= top /\ o.home <= top
      BY <3>1 DEF Mine
    <3> QED BY <3>1, <3>3, <3>4, <3>5, <3>6 DEF Mine
  <2> QED BY <1>3, <1>4, <2>1, <2>2, <2>3 DEF Placed
<1>9. \A i \in Places(v) : v.answers[i].call.step \notin Openers
  BY <1>2, <1>3, <1>4 DEF Arriving
<1>10. OneOpening(v)
  BY <1>2, <1>9 DEF OneOpening
<1>11. \A i \in Places(v) : Replacing(v, i) <=> i = n
  BY <1>2, <1>3, <1>4 DEF Replacing
<1>12. OneClose(v)
  <2>1. \A o \in Afoot(v) : o.step \notin Openers
    BY <1>2, <1>3, <1>4 DEF Arriving
  <2> QED BY <1>3, <1>9, <1>11, <2>1 DEF OneClose
<1>13. InTime(v)
  <2> SUFFICES ASSUME NEW i \in Places(v), Telling(v, i)
               PROVE  \E j \in Places(v) : i < j /\ Replacing(v, j)
    BY DEF InTime
  <2>1. i # n
    BY <1>3, <1>4 DEF Telling
  <2> QED BY <1>2, <1>11, <2>1
<1>14. OnShow(v)
  BY <1>3 DEF OnShow
<1>15. Held(v)
  <2>1. \A i \in Places(v) : ~Opened(v, i)
    BY <1>9 DEF Opened
  <2>2. v.session = c.home /\ v.engine[c.home].live
    BY <1>3, <1>6, <1>7
  <2>3. \A i \in Places(v) : Replacing(v, i) => v.answers[i].call.home = c.home
    BY <1>3, <1>11
  <2> QED BY <1>2, <1>3, <1>11, <2>1, <2>2, <2>3 DEF Held
<1>16. Followed(v)
  BY <1>3 DEF Followed
<1> QED BY <1>8, <1>10, <1>12, <1>13, <1>14, <1>15, <1>16 DEF Linked

\* image.open is answered.
LEMMA OpenedImageSane ==
  ASSUME NEW w, NEW top \in Nat, NEW mess, Sane(w, top, mess), w.answers # <<>>,
         Head(w.answers).call.step = "openImage", Head(w.answers).ok
  PROVE  Sane(Resumed(Unheard(w), Head(w.answers)), top, mess)
<1> DEFINE u == Unheard(w)  c == Head(w.answers).call  v == OpenedImage(u, c)
<1>1. w \in Worlds /\ c \in Calls
  BY HeadFields DEF Sane
<1>2. u \in Worlds /\ u.store = w.store
  BY <1>1, UnheardIs
<1>3. Resumed(u, Head(w.answers)) = v
  BY DEF Resumed, EditSteps, JobSteps, JobSucceeded
<1>4. 1 \in Places(w) /\ Opened(w, 1)
  <2>1. w.answers \in Seq(Replies) /\ Len(w.answers) \in Nat
    BY <1>1, WorldFields
  <2>2. 1 \in Places(w) /\ Head(w.answers) = w.answers[1]
    BY <2>1 DEF Places
  <2> QED BY <2>2 DEF Opened, Openers
<1>5. CASE w.store.document = 0
  <2>1. v = Installed(u, c)
    BY <1>2, <1>5 DEF OpenedImage
  <2>2. mess = FALSE => Clear(u, top, c)
    <3>1. mess = FALSE => Linked(w, top)
      BY DEF Sane
    <3> QED BY <1>1, <1>4, <1>5, <3>1, HeardClear
  <2> HIDE DEF u, c, v
  <2>3. Sane(Installed(u, c), top, mess)
    BY <1>1, <1>2, <2>2, InstalledSane
  <2> QED BY <1>3, <2>1, <2>3 DEF u
<1>6. CASE w.store.document # 0
  <2>1. PICK x, n : Leaves(w, v, c, x, n)
    BY <1>1, <1>6, OpenedLeaves
  <2> HIDE DEF v
  <2>2. mess = FALSE => Linked(v, top)
    <3>1. mess = FALSE => Linked(w, top)
      BY DEF Sane
    <3> QED BY <1>1, <1>4, <1>6, <2>1, <3>1, LeavesLinked
  <2>3. x \in Afoot(v) /\ x.step = "replaced"
    <3>1. w.answers \in Seq(Replies) /\ Len(w.answers) \in Nat
      BY <1>1, WorldFields
    <3>2. n = Len(w.answers) /\ Len(v.answers) = n /\ v.answers[n].call = x
      BY <2>1 DEF Leaves
    <3>3. n \in Places(v)
      BY <3>1, <3>2 DEF Places
    <3>4. x.step = "replaced"
      BY <2>1 DEF Leaves
    <3> QED BY <3>2, <3>3, <3>4 DEF Afoot
  <2>4. v \in Worlds /\ v.store.document = 0 /\ v.store.crop = FALSE
    BY <2>1 DEF Leaves
  <2>5. Named(v)
    BY <2>3 DEF Named, Naming
  <2> QED BY <1>3, <2>2, <2>4, <2>5 DEF Sane, OneTool, Awaited
<1> QED BY <1>5, <1>6

\* adoptProject: the layers come with the answer.
LEMMA OpenedProjectIs ==
  ASSUME NEW u \in Worlds, NEW a \in Replies
  PROVE  LET v == OpenedProject(u, a)
         IN  /\ v \in Worlds /\ v.engine = u.engine /\ v.session = u.session /\ v.jobs = u.jobs
             /\ v.answers = u.answers /\ v.store.document = a.call.home
             /\ v.store.history = [doc |-> a.call.home, layers |-> a.layers]
             /\ v.store.pending = Unset /\ v.store.crop = FALSE /\ v.store.busy = "none"
<1> DEFINE d == a.call.home  e == Emptied(u, d)  t == e.store
           h == [doc |-> d, layers |-> a.layers]
           s == [t EXCEPT !.history = h]  v == OpenedProject(u, a)
<1>1. d \in Docs /\ a.layers \in Lists
  <2>1. a.call \in Calls /\ a.layers \in Lists
    BY DEF Replies
  <2> QED BY <2>1 DEF Calls
<1>2. /\ e \in Worlds /\ e.engine = u.engine /\ e.session = u.session /\ e.jobs = u.jobs
      /\ e.answers = u.answers /\ t.document = d /\ t.pending = Unset /\ t.crop = FALSE
      /\ t.busy = "none"
  BY <1>1, EmptiedIs
<1>3. v = [e EXCEPT !.store = s]
  BY Zenon DEF OpenedProject
<1> HIDE DEF d, e
<1>4. h \in [doc : {0} \cup Docs, layers : Lists]
  BY <1>1
<1>5. t \in Stores
  BY <1>2, WorldFields
<1> HIDE DEF h, t, v
<1>6. /\ s \in Stores /\ s.history = h /\ s.document = t.document /\ s.pending = t.pending
      /\ s.crop = t.crop /\ s.busy = t.busy
  BY <1>4, <1>5 DEF Stores
<1> HIDE DEF s
<1>7. /\ v \in Worlds /\ v.store = s /\ v.engine = e.engine /\ v.session = e.session
      /\ v.jobs = e.jobs /\ v.answers = e.answers
  BY <1>2, <1>3, <1>6, WithStore
<1> QED BY <1>2, <1>6, <1>7 DEF v, h, d

\* A project that is opened while nothing else is on its way.
LEMMA OpenedProjectSane ==
  ASSUME NEW w, NEW top, NEW mess, Sane(w, top, mess), w.answers # <<>>,
         Head(w.answers).call.step = "openProject", Head(w.answers).ok,
         NEW mess2, mess2 = FALSE => mess = FALSE /\ w.jobs = {} /\ ~(Len(w.answers) > 1)
  PROVE  Sane(Resumed(Unheard(w), Head(w.answers)), top, mess2)
<1> DEFINE u == Unheard(w)  a == Head(w.answers)  d == a.call.home  v == OpenedProject(u, a)
<1>1. w \in Worlds /\ a \in Replies /\ a.call \in Calls
  BY HeadFields DEF Sane
<1>2. /\ u \in Worlds /\ u.engine = w.engine /\ u.session = w.session /\ u.jobs = w.jobs
      /\ u.answers = Tail(w.answers)
  BY <1>1, UnheardIs
<1>3. Resumed(u, a) = v
  BY DEF Resumed, EditSteps, JobSteps, JobSucceeded
<1>4. w.answers \in Seq(Replies) /\ Len(w.answers) \in Nat
  BY <1>1, WorldFields
<1>5. Len(w.answers) >= 1 /\ 1 \in Places(w) /\ a = w.answers[1]
  BY <1>4 DEF Places
<1>6. Opened(w, 1) /\ a.call \in Afoot(w) /\ a.call.step \in Openers /\ a.call.step \in Arriving
  BY <1>1, <1>5, AfootCalls DEF Opened, Openers, Arriving
<1> HIDE DEF u, a
<1>7. /\ v \in Worlds /\ v.engine = u.engine /\ v.session = u.session /\ v.jobs = u.jobs
      /\ v.answers = u.answers /\ v.store.document = d
      /\ v.store.history = [doc |-> d, layers |-> a.layers]
      /\ v.store.pending = Unset /\ v.store.crop = FALSE /\ v.store.busy = "none"
  BY <1>1, <1>2, OpenedProjectIs
<1> HIDE DEF v, d
<1>8. ASSUME mess2 = FALSE PROVE Linked(v, top)
  <2>1. Linked(w, top) /\ w.jobs = {} /\ ~(Len(w.answers) > 1)
    BY <1>8 DEF Sane
  <2>2. Places(v) = {} /\ Afoot(v) = {}
    <3>1. Len(w.answers) = 1
      <4> DEFINE m == Len(w.answers)
      <4>1. m \in Nat /\ m >= 1 /\ ~(m > 1)
        BY <1>4, <1>5, <2>1
      <4> HIDE DEF m
      <4>2. m = 1
        BY <4>1
      <4> QED BY <4>2 DEF m
    <3>2. Len(Tail(w.answers)) = 0 /\ v.answers = Tail(w.answers)
      BY <1>2, <1>4, <1>7, <3>1
    <3>3. Len(v.answers) = 0
      BY <3>2
    <3>4. 1 .. 0 = {}
      OBVIOUS
    <3>5. Places(v) = {}
      BY <3>3, <3>4 DEF Places
    <3> QED BY <1>2, <1>7, <2>1, <3>5 DEF Afoot
  <2>3. w.session = d /\ w.engine[d].live /\ a.layers = LayersOf(w, d)
    BY <1>5, <1>6, <2>1 DEF Linked, Held, d
  <2>4. d <= top
    BY <1>6, <2>1 DEF Linked, Placed, Coming, d
  <2>5. LayersOf(v, d) = LayersOf(w, d)
    BY <1>2, <1>7 DEF LayersOf
  <2>6. Placed(v, top) /\ OnShow(v)
    BY <1>7, <2>2, <2>4 DEF Placed, OnShow
  <2>7. OneOpening(v) /\ OneClose(v) /\ InTime(v)
    BY <1>2, <1>7, <2>1, <2>2 DEF OneOpening, OneClose, InTime
  <2>8. Held(v)
    BY <1>2, <1>7, <2>2, <2>3 DEF Held
  <2>9. Followed(v)
    BY <1>7, <2>2, <2>3, <2>5 DEF Followed
  <2> QED BY <2>6, <2>7, <2>8, <2>9 DEF Linked
<1>9. Sane(v, top, mess2)
  BY <1>7, <1>8 DEF Sane, Named, OneTool, Awaited
<1> QED BY <1>3, <1>9 DEF u, a

\* An answer reaches its method, whichever it is.
LEMMA ResumedSane ==
  ASSUME NEW w, NEW top \in Nat, NEW mess, Sane(w, top, mess), w.answers # <<>>,
         NEW mess2, mess2 = FALSE => mess = FALSE,
         mess2 = FALSE => ~(/\ Head(w.answers).ok /\ Head(w.answers).call.step = "openProject"
                            /\ w.jobs # {} \/ Len(w.answers) > 1)
  PROVE  Sane(Resumed(Unheard(w), Head(w.answers)), top, mess2)
<1> DEFINE u == Unheard(w)  a == Head(w.answers)  step == a.call.step
<1>1. step \in StoreSteps /\ a.ok \in BOOLEAN
  BY HeadFields DEF Sane
<1>2. \A v : Sane(v, top, mess) => Sane(v, top, mess2)
  BY DEF Sane
<1>3. CASE step \in EditSteps
  <2>1. Resumed(u, a) = AfterEdit(u, a)
    BY <1>3 DEF Resumed, EditSteps, JobSteps
  <2> QED BY <1>2, <1>3, <2>1, AfterEditSane
<1>4. CASE step \in JobSteps /\ ~a.ok
  <2>1. Resumed(u, a) = JobFailed(u, a.call)
    BY <1>4 DEF Resumed, EditSteps, JobSteps
  <2> QED BY <1>2, <1>4, <2>1, JobFailedSane
<1>5. CASE step \in JobSteps \ Openers /\ a.ok
  <2>1. Resumed(u, a) = JobSucceeded(u, a)
    BY <1>5 DEF Resumed, EditSteps, JobSteps
  <2> QED BY <1>2, <1>5, <2>1, JobSucceededSane
<1>6. CASE step = "openImage" /\ a.ok
  BY <1>2, <1>6, OpenedImageSane
<1>7. CASE step = "openProject" /\ a.ok
  <2>1. mess2 = FALSE => mess = FALSE /\ w.jobs = {} /\ ~(Len(w.answers) > 1)
    BY <1>7
  <2> HIDE DEF u
  <2> QED BY <1>7, <2>1, OpenedProjectSane DEF u
<1>8. CASE step = "replaced"
  BY <1>2, <1>8, ReplacedSane
<1>9. CASE step = "read"
  BY <1>2, <1>9, ReadSane
<1>10. CASE step = "paint"
  BY <1>2, <1>10, PaintedSane
<1>11. CASE step = "toolStored"
  BY <1>2, <1>11, ToolStoredSane
<1>12. \/ step \in EditSteps \/ step \in JobSteps
       \/ step \in {"replaced", "read", "paint", "toolStored"}
  BY <1>1 DEF StoreSteps
<1> QED BY <1>1, <1>3, <1>4, <1>5, <1>6, <1>7, <1>8, <1>9, <1>10, <1>11, <1>12 DEF Openers

\* A new opening, of a photograph that no call speaks of yet.
LEMMA OpeningLinked ==
  ASSUME NEW u \in Worlds, NEW top \in Nat, Linked(u, top), NEW c \in Calls, c.step \in Openers,
         c.home = top + 1, \A o \in Afoot(u) : o.step \notin Openers
  PROVE  Linked(Started(u, c), top + 1)
<1> DEFINE v == Started(u, c)  d == top + 1
<1>1. c.step \in JobSteps /\ c.step \in Arriving /\ c.doc = d /\ d \in Nat /\ top < d
  <2>1. c.step \in JobSteps /\ c.step \in Arriving
    BY DEF Openers, JobSteps, Arriving
  <2>2. c.doc = c.home
    BY DEF Openers, Calls
  <2> QED BY <2>1, <2>2
<1>2. /\ v \in Worlds /\ v.engine = u.engine /\ v.session = u.session /\ v.store = u.store
      /\ v.answers = u.answers /\ v.jobs = u.jobs \cup {c}
      /\ Afoot(v) = Afoot(u) \cup {c} /\ Places(v) = Places(u)
  BY <1>1, StartedIs
<1>3. /\ Placed(u, top) /\ OneOpening(u) /\ OneClose(u) /\ InTime(u) /\ OnShow(u) /\ Held(u)
      /\ Followed(u)
  BY DEF Linked
<1> HIDE DEF v
<1>4. /\ \A o \in Afoot(u) : o \in Calls
      /\ \A i \in Places(u) : u.answers[i].call \in Afoot(u)
      /\ \A o \in u.jobs : o \in Afoot(u)
  BY AfootCalls
<1>5. \A o \in Afoot(u) : o.home \in Int /\ o.doc \in Int
  <2>1. \A o \in Afoot(u) : o.home \in Docs /\ o.doc \in Docs
    BY <1>4 DEF Calls
  <2> QED BY <2>1 DEF Docs
<1>6. u.store.document \in Int /\ u.store.document <= top
  <2>1. u.store.document \in {0} \cup Docs
    BY WorldFields, StoreFields
  <2>2. u.store.document \in Int
    BY <2>1 DEF Docs
  <2> QED BY <1>3, <2>2 DEF Placed
<1>7. Coming(v, d, c)
  BY <1>1, <1>2, <1>6 DEF Coming
<1>8. ASSUME NEW o \in Afoot(u), o.step \in Arriving PROVE Coming(v, d, o) /\ o.home < d
  <2>1. Coming(u, top, o) /\ o.home \in Int
    BY <1>3, <1>5, <1>8 DEF Placed
  <2>2. o.home <= top
    BY <2>1 DEF Coming
  <2>3. o.home < d /\ o.home <= d
    BY <2>1, <2>2
  <2> QED BY <1>2, <2>1, <2>3 DEF Coming
<1>9. ASSUME NEW o \in Afoot(u), o.step \notin Arriving PROVE Mine(v, d, o)
  <2>1. Mine(u, top, o) /\ o.home \in Int /\ o.doc \in Int
    BY <1>3, <1>5, <1>9 DEF Placed
  <2>2. o.doc <= top /\ o.home <= top
    BY <2>1 DEF Mine
  <2>3. o.doc <= d /\ o.home <= d /\ o.doc # d /\ o.home # d
    BY <2>1, <2>2
  <2>4. AtHand(v, o.doc) /\ AtHand(v, o.home)
    BY <1>2, <2>1 DEF Mine, AtHand
  <2>5. \A p \in Afoot(v) : p.step \in Arriving => p.home # o.doc /\ p.home # o.home
    BY <1>2, <2>1, <2>3 DEF Mine
  <2> QED BY <2>3, <2>4, <2>5 DEF Mine
<1>10. Placed(v, d)
  <2>1. v.store.document <= d
    BY <1>2, <1>6
  <2> HIDE DEF d
  <2> QED BY <1>1, <1>2, <1>7, <1>8, <1>9, <2>1 DEF Placed
<1>11. OneOpening(v)
  BY <1>2, <1>4 DEF OneOpening
<1>12. OneClose(v)
  <2> SUFFICES ASSUME NEW j \in Places(v), Replacing(v, j)
               PROVE  /\ v.store.document = 0
                      /\ \A i \in Places(v) : Replacing(v, i) => i = j
                      /\ \A i \in Places(v) : v.answers[i].call.step \in Openers => j < i
                      /\ \A o \in Afoot(v) : o.step \in Openers => o.home # v.answers[j].call.home
    BY DEF OneClose
  <2>1. j \in Places(u) /\ Replacing(u, j) /\ \A i \in Places(u) : Replacing(v, i) => Replacing(u, i)
    BY <1>2 DEF Replacing
  <2>2. u.answers[j].call \in Afoot(u) /\ u.answers[j].call.step \in Arriving
    BY <1>4, <2>1 DEF Replacing, Arriving
  <2>3. u.answers[j].call.home < d /\ u.answers[j].call.home \in Int
    BY <1>5, <1>8, <2>2
  <2>4. c.home # v.answers[j].call.home
    BY <1>2, <2>3
  <2>5. /\ v.store.document = 0 /\ \A i \in Places(v) : Replacing(v, i) => i = j
    BY <1>2, <1>3, <2>1 DEF OneClose
  <2> QED BY <1>2, <1>4, <2>4, <2>5
<1>13. InTime(v) /\ OnShow(v)
  BY <1>2, <1>3 DEF InTime, OnShow, Telling, Replacing
<1>14. Held(v)
  BY <1>2, <1>3, ZenonT(40) DEF Held, Opened, Replacing, LayersOf
<1>15. Followed(v)
  BY <1>2, <1>3 DEF Followed, Newest, Telling, LayersOf
<1> QED BY <1>10, <1>11, <1>12, <1>13, <1>14, <1>15 DEF Linked, v, d

LEMMA OpeningSane ==
  ASSUME NEW w, NEW top \in Nat, NEW mess, Sane(w, top, mess), NEW c \in Calls, c.step \in Openers,
         c.home = top + 1, NEW s, Kindred(w.store, s), s.pending = w.store.pending,
         ~(s.crop /\ s.brush),
         NEW mess2, mess2 = FALSE => mess = FALSE,
         mess2 = FALSE => \A o \in Afoot(w) : o.step \notin Openers
  PROVE  Sane(Started([w EXCEPT !.store = s], c), top + 1, mess2)
<1> DEFINE u == [w EXCEPT !.store = s]  v == Started(u, c)
<1>0. w \in Worlds /\ c.step \in JobSteps /\ c.step \in Naming /\ s \in Stores
  BY DEF Sane, Naming, JobSteps, Openers, Kindred
<1>1. /\ u \in Worlds /\ u.store = s /\ u.engine = w.engine /\ u.session = w.session
      /\ u.jobs = w.jobs /\ u.answers = w.answers
  BY <1>0, WithStore
<1> HIDE DEF u
<1>2. Beside(w, u)
  BY <1>1 DEF Beside, Kindred
<1>3. mess = FALSE => Linked(u, top) /\ Awaited(w)
  BY <1>0, <1>2, BesideLinked DEF Sane
<1>4. /\ v \in Worlds /\ v.store = s /\ v.answers = w.answers
      /\ Afoot(v) = Afoot(u) \cup {c} /\ Places(v) = Places(w)
  BY <1>0, <1>1, StartedIs DEF Places
<1>5. Afoot(u) = Afoot(w)
  BY <1>1 DEF Afoot, Places
<1>6. mess2 = FALSE => Linked(v, top + 1)
  BY <1>1, <1>3, <1>5, OpeningLinked
<1> HIDE DEF v
<1>7. Named(v)
  BY <1>0, <1>4 DEF Named
<1>8. OneTool(v) /\ (Awaited(w) => Awaited(v))
  BY <1>4 DEF OneTool, Awaited, Kindred
<1> QED BY <1>3, <1>4, <1>6, <1>7, <1>8 DEF Sane, u, v

-----------------------------------------------------------------------------
(* The steps.                                                              *)

StoreInv ==
  /\ Sane(World, gestures.opens, tangled)
  /\ tangled \in BOOLEAN
  /\ gestures \in [opens : Nat, others : Nat]

LEMMA StoreInvFields ==
  ASSUME StoreInv
  PROVE  /\ Sane(World, gestures.opens, tangled) /\ World \in Worlds
         /\ World.engine = engine /\ World.session = session /\ World.store = store
         /\ World.jobs = jobs /\ World.answers = answers
         /\ gestures.opens \in Nat /\ tangled \in BOOLEAN
         /\ store \in Stores /\ engine \in [Docs -> Stacks] /\ session \in {0} \cup Docs
<1>1. World \in Worlds
  BY DEF StoreInv, Sane
<1>2. /\ World.engine = engine /\ World.session = session /\ World.store = store
      /\ World.jobs = jobs /\ World.answers = answers
  BY DEF World
<1>3. /\ store \in Stores /\ engine \in [Docs -> Stacks] /\ session \in {0} \cup Docs
  BY <1>1, <1>2, WorldFields
<1> QED BY <1>1, <1>2, <1>3 DEF StoreInv

\* A world that is reached.
LEMMA Reaches ==
  ASSUME NEW STATE w, w \in Worlds, Become(w)
  PROVE  World' = w
<1>1. w = [engine |-> w.engine, session |-> w.session, store |-> w.store,
           jobs |-> w.jobs, answers |-> w.answers]
  BY WorldFields
<1> QED BY <1>1 DEF Become, World

\* What the user does leaves a sane world.
LEMMA GestureKeeps ==
  ASSUME StoreInv, NEW STATE w, Gesture(w), Sane(w, gestures.opens, tangled)
  PROVE  StoreInv'
<1>1. w \in Worlds
  BY DEF Sane
<1>2. World' = w
  BY <1>1, Reaches DEF Gesture
<1>3. tangled' = tangled /\ gestures' = [gestures EXCEPT !.others = @ + 1]
  BY DEF Gesture
<1>4. gestures \in [opens : Nat, others : Nat] /\ tangled \in BOOLEAN
  BY DEF StoreInv
<1>5. gestures' \in [opens : Nat, others : Nat] /\ gestures'.opens = gestures.opens
  BY <1>3, <1>4
<1>6. Sane(World', gestures'.opens, tangled')
  BY <1>2, <1>3, <1>5
<1> QED BY <1>3, <1>4, <1>5, <1>6 DEF StoreInv

LEMMA CancelCropKeeps ==
  ASSUME StoreInv, CancelCrop
  PROVE  StoreInv'
<1> DEFINE s == [store EXCEPT !.crop = FALSE]  w == [World EXCEPT !.store = s]
<1>1. [World EXCEPT !.store.crop = FALSE] = w
  BY StoreInvFields, Zenon
<1>2. Settable(World, s)
  BY StoreInvFields DEF Settable, Kindred, Stores
<1>3. Sane(w, gestures.opens, tangled)
  <2> HIDE DEF s
  <2> QED BY <1>2, StoreInvFields, SetSane
<1>4. Gesture(w)
  BY <1>1 DEF CancelCrop
<1> HIDE DEF w
<1> QED BY <1>3, <1>4, GestureKeeps

\* The calls in flight, as the properties name them.
LEMMA InFlightIs ==
  ASSUME StoreInv
  PROVE  /\ InFlight = Afoot(World)
         /\ Openings = {c \in Afoot(World) : c.step \in Openers}
<1>1. answers \in Seq(Replies) /\ World.answers = answers /\ World.jobs = jobs
  BY StoreInvFields, WorldFields
<1>2. Range(answers) = {answers[i] : i \in 1 .. Len(answers)}
  BY <1>1 DEF Range
<1>3. {a.call : a \in Range(answers)} = {answers[i].call : i \in 1 .. Len(answers)}
  BY <1>2
<1> QED BY <1>1, <1>3 DEF InFlight, Openings, Afoot, Places, Openers

\* The oldest answer is heard.
LEMMA DeliverKeeps ==
  ASSUME StoreInv, Deliver
  PROVE  StoreInv'
<1> DEFINE a == Head(answers)  w == Resumed(Unheard(World), a)
           also == tangled \/ (a.ok /\ a.call.step = "openProject"
                                    /\ (jobs # {} \/ Len(answers) > 1))
<1>1. answers # <<>> /\ tangled' = also /\ gestures' = gestures
  BY DEF Deliver
<1>2. Become(w)
  BY Zenon DEF Deliver, Unheard
<1>3. tangled \in BOOLEAN /\ also \in BOOLEAN
  BY StoreInvFields
<1>4. also = FALSE => tangled = FALSE
  BY <1>3
<1>5. also = FALSE => ~(/\ a.ok /\ a.call.step = "openProject"
                        /\ (jobs # {} \/ Len(answers) > 1))
  OBVIOUS
<1> HIDE DEF also
<1>6. Sane(w, gestures.opens, also)
  BY <1>1, <1>4, <1>5, StoreInvFields, ResumedSane
<1> HIDE DEF w
<1>7. World' = w
  BY <1>2, <1>6, Reaches DEF Sane
<1> QED BY <1>1, <1>3, <1>6, <1>7 DEF StoreInv

\* The engine is done with a job.
LEMMA JobDoneKeeps ==
  ASSUME StoreInv, NEW call \in jobs, NEW ok \in BOOLEAN,
         NEW target \in {0, 1} \cup {call.target}, JobDone(call, ok, target)
  PROVE  StoreInv'
<1> DEFINE x == [call EXCEPT !.target = target]
           opens == ok /\ call.step \in {"openImage", "openProject"}
           w == Answered(IF opens THEN Begun(World, call) ELSE Withdrawn(World, call), x, ok)
<1>1. Become(w) /\ gestures' = gestures /\ tangled' = tangled
  BY Zenon DEF JobDone, Begun, Withdrawn, FirstStack
<1>2. call \in Calls /\ call \in World.jobs
  BY StoreInvFields, AfootCalls
<1>3. x \in Calls /\ x.step = call.step /\ x.doc = call.doc /\ x.home = call.home
  <2>1. call.target \in Int
    BY <1>2 DEF Calls
  <2>2. target \in Int
    BY <2>1
  <2> QED BY <1>2, <2>2 DEF Calls, StoreSteps, ToolSteps
<1> HIDE DEF x
<1>4. Sane(w, gestures.opens, tangled)
  <2>1. CASE call.step \in Openers
    <3>1. w = Answered(IF ok THEN Begun(World, call) ELSE Withdrawn(World, call), x, ok)
      BY <2>1 DEF Openers
    <3> HIDE DEF w
    <3> QED BY <1>2, <1>3, <2>1, <3>1, StoreInvFields, ToldOpening
  <2>2. CASE call.step \notin Openers
    <3>1. w = Answered(Withdrawn(World, call), x, ok)
      BY <2>2 DEF Openers
    <3> HIDE DEF w
    <3> QED BY <1>2, <1>3, <2>2, <3>1, StoreInvFields, ToldOther
  <2> QED BY <2>1, <2>2
<1> HIDE DEF w
<1>5. World' = w
  BY <1>1, <1>4, Reaches DEF Sane
<1> QED BY <1>1, <1>4, <1>5 DEF StoreInv

\* The status bar names a render.
LEMMA RenderKeeps ==
  ASSUME StoreInv, Render
  PROVE  StoreInv'
<1>1. PICK name \in {"rendering", "none"} : store' = [store EXCEPT !.busy = name]
  BY DEF Render
<1> DEFINE s == [store EXCEPT !.busy = name]  w == [World EXCEPT !.store = s]
<1>2. Settable(World, s)
  <2>1. name \in BusyNames
    BY DEF BusyNames
  <2>2. OneTool(World)
    BY DEF StoreInv, Sane
  <2> QED BY <2>1, <2>2, StoreInvFields DEF Settable, Kindred, Stores, OneTool
<1> HIDE DEF s
<1>3. Sane(w, gestures.opens, tangled)
  BY <1>2, StoreInvFields, SetSane
<1>4. World' = w
  BY <1>1 DEF World, Render, s
<1>5. gestures' = gestures /\ tangled' = tangled
  BY DEF Render
<1> HIDE DEF w
<1> QED BY <1>3, <1>4, <1>5 DEF StoreInv

\* A call that the user's gesture makes.
Plain == (StoreSteps \cup {""}) \ ToolSteps

LEMMA EmptyIsASeq == ASSUME NEW S PROVE <<>> \in Seq(S)
OBVIOUS

LEMMA CallIs ==
  ASSUME StoreInv, NEW step \in Plain, NEW d \in Docs, NEW target \in Int
  PROVE  /\ Call(step, d, target) \in Calls /\ Call(step, d, target).step = step
         /\ Call(step, d, target).doc = d /\ Call(step, d, target).home = d
         /\ Call(step, d, target).target = target
         /\ Call(step, d, target).drag = FALSE
<1> DEFINE c == Call(step, d, target)
<1>1. c = [step |-> step, doc |-> d, home |-> d, target |-> target, before |-> {},
           tool |-> "", rest |-> <<>>, drag |-> FALSE, serial |-> gestures]
  BY DEF Call
<1>2. /\ gestures \in [opens : Nat, others : Nat] /\ {} \in SUBSET Int /\ "" \in Tools \cup {""}
      /\ <<>> \in Seq(Tools) /\ FALSE \in BOOLEAN
  <2>1. gestures \in [opens : Nat, others : Nat]
    BY DEF StoreInv
  <2>2. <<>> \in Seq(Tools)
    BY EmptyIsASeq
  <2> QED BY <2>1, <2>2
<1> HIDE DEF c
<1>3. c.step = step /\ c.doc = d /\ c.home = d /\ c.target = target /\ c.drag = FALSE
  BY <1>1
<1>4. c \in [step : StoreSteps \cup {""}, doc : Docs, home : Docs, target : Int,
            before : SUBSET Int, tool : Tools \cup {""}, rest : Seq(Tools), drag : BOOLEAN,
            serial : [opens : Nat, others : Nat]]
  BY <1>1, <1>2 DEF Plain
<1> QED BY <1>3, <1>4 DEF Calls, Plain, ToolSteps, c

\* A photograph or a project is opened.
LEMMA OpeningKeeps ==
  ASSUME StoreInv, NEW step \in Openers, Opening(step)
  PROVE  StoreInv'
<1> DEFINE top == gestures.opens  c == Call(step, top + 1, 0)
           s == [store EXCEPT !.busy = "opening"]
           w == Started([World EXCEPT !.store = s], c)
           also == tangled \/ Openings # {}
<1>1. [World EXCEPT !.store.busy = "opening"] = [World EXCEPT !.store = s]
  BY StoreInvFields, Zenon
<1>2. /\ top < MaxOpens /\ gestures' = [gestures EXCEPT !.opens = top + 1]
      /\ Become(w) /\ tangled' = also
  BY <1>1 DEF Opening
<1>3. gestures \in [opens : Nat, others : Nat] /\ top \in Nat /\ tangled \in BOOLEAN
  BY DEF StoreInv
<1>4. top + 1 \in Docs
  BY <1>2, <1>3, EditorAssumption DEF Docs
<1>5. c \in Calls /\ c.step \in Openers /\ c.home = top + 1
  <2> DEFINE d == top + 1
  <2>1. d \in Docs
    BY <1>4
  <2> HIDE DEF d
  <2>2. step \in Plain
    BY DEF Plain, StoreSteps, JobSteps, Openers, ToolSteps
  <2>3. 0 \in Int
    OBVIOUS
  <2>4. Call(step, d, 0) \in Calls /\ Call(step, d, 0).step = step /\ Call(step, d, 0).home = d
    BY <2>1, <2>2, <2>3, CallIs, ZenonT(40)
  <2> QED BY <2>4 DEF d
<1>6. Kindred(World.store, s) /\ s.pending = World.store.pending /\ ~(s.crop /\ s.brush)
  <2>1. "opening" \in BusyNames
    BY DEF BusyNames
  <2>2. OneTool(World)
    BY DEF StoreInv, Sane
  <2> QED BY <2>1, <2>2, StoreInvFields DEF Kindred, Stores, OneTool
<1>7. also \in BOOLEAN /\ (also = FALSE => tangled = FALSE)
  BY <1>3
<1>8. also = FALSE => \A o \in Afoot(World) : o.step \notin Openers
  BY InFlightIs
<1> HIDE DEF c, s, also
<1>9. Sane(w, top + 1, also)
  BY <1>3, <1>5, <1>6, <1>7, <1>8, StoreInvFields, OpeningSane
<1>10. World' = w
  <2> HIDE DEF w
  <2> QED BY <1>2, <1>9, Reaches DEF Sane
<1> HIDE DEF w
<1>11. gestures' \in [opens : Nat, others : Nat] /\ gestures'.opens = top + 1
  BY <1>2, <1>3
<1> QED BY <1>2, <1>7, <1>9, <1>10, <1>11 DEF StoreInv

-----------------------------------------------------------------------------
(* The user's gestures.                                                    *)

\* A move of the panel's own, sent to the engine: it waits for its answer.
LEMMA PendingSane ==
  ASSUME NEW w, NEW top, NEW mess, Sane(w, top, mess), w.store.document # 0,
         NEW c \in Calls, c.doc = w.store.document, c.home = w.store.document, c.step \in EditSteps,
         NEW s, Kindred(w.store, s), s.busy = w.store.busy, ~(s.crop /\ s.brush),
         NEW v, Changed([w EXCEPT !.store = s], v, c)
  PROVE  Sane(v, top, mess)
<1> DEFINE u == [w EXCEPT !.store = s]
<1>0. w \in Worlds /\ s \in Stores /\ Callable(c)
  BY DEF Sane, Kindred, Callable, StoreSteps
<1>1. /\ u \in Worlds /\ u.store = s /\ u.engine = w.engine /\ u.session = w.session
      /\ u.jobs = w.jobs /\ u.answers = w.answers
  BY <1>0, WithStore
<1> HIDE DEF u
<1>2. Beside(w, u)
  BY <1>1 DEF Beside, Kindred
<1>3. Changed(u, v, c)
  BY DEF u
<1>4. Fit(w, top, mess, c)
  BY FitHere
<1>5. mess = FALSE => Linked(u, top) /\ Mine(u, top, c) /\ Linked(w, top)
  BY <1>0, <1>2, <1>4, BesideLinked DEF Sane, Fit
<1>6. mess = FALSE => Linked(v, top)
  BY <1>0, <1>1, <1>3, <1>5, ChangedLinked
<1>7. mess = FALSE => Awaited(v)
  <2>1. mess = FALSE => u.engine[c.doc].live
    BY <1>1, <1>5 DEF Linked, Held
  <2> QED BY <1>0, <1>1, <1>3, <2>1, ChangedIsAwaited
<1>8. PICK e, ok : Replied(u, v, c, e, ok)
  BY <1>3 DEF Changed
<1>9. Afoot(v) = Afoot(u) \cup {c} /\ v \in Worlds /\ v.store = s
  <2>1. Afoot(v) = Afoot(u) \cup {c}
    BY <1>1, <1>8, RepliedAfoot
  <2> QED BY <1>1, <1>8, <2>1 DEF Replied
<1>10. Afoot(u) = Afoot(w)
  BY <1>1 DEF Afoot, Places
<1>11. Named(v) /\ OneTool(v)
  BY <1>9, <1>10, NamedGrows DEF Sane, OneTool
<1> QED BY <1>6, <1>7, <1>9, <1>11 DEF Sane

LEMMA HereFits ==
  ASSUME StoreInv, store.document # 0, NEW step \in Plain, NEW target \in Int
  PROVE  /\ Here(step, target) \in Calls /\ Here(step, target).step = step
         /\ Here(step, target).doc = store.document /\ Here(step, target).home = store.document
         /\ Here(step, target).target = target
         /\ Fit(World, gestures.opens, tangled, Here(step, target))
<1> DEFINE d == store.document  c == Here(step, target)
<1>1. d \in Docs
  BY StoreInvFields, StoreFields
<1>2. c = Call(step, d, target)
  BY DEF Here, Document
<1> HIDE DEF d
<1>3. c \in Calls /\ c.step = step /\ c.doc = d /\ c.home = d /\ c.target = target
  <2> DEFINE k == Call(step, d, target)
  <2>1. k \in Calls
    BY <1>1, CallIs, ZenonT(40)
  <2>3. k.step = step
    BY <1>1, CallIs, ZenonT(40)
  <2>4. k.doc = d
    BY <1>1, CallIs, ZenonT(40)
  <2>5. k.home = d
    BY <1>1, CallIs, ZenonT(40)
  <2>6. k.target = target
    BY <1>1, CallIs, ZenonT(40)
  <2> HIDE DEF k
  <2>2. c = k
    BY <1>2 DEF k
  <2> QED BY <2>1, <2>2, <2>3, <2>4, <2>5, <2>6
<1> HIDE DEF c
<1>4. c.doc = World.store.document /\ c.home = World.store.document /\ World.store.document # 0
  BY <1>3, StoreInvFields DEF d
<1>5. Fit(World, gestures.opens, tangled, c)
  BY <1>3, <1>4, StoreInvFields, FitHere
<1> QED BY <1>3, <1>5 DEF c, d

LEMMA PlainSteps ==
  /\ "adopt" \in Plain \cap EditSteps /\ "addLayer" \in Plain \cap EditSteps
  /\ "removal" \in Plain \cap EditSteps /\ "paint" \in Plain /\ "" \in Plain
  /\ \A step \in {"analyse", "detect", "segment", "background", "fill", "export"} :
        step \in Plain /\ step \in (JobSteps \ Openers) \cap Naming
  /\ "backdrop" \in Plain /\ "backdrop" \in JobSteps \ Openers
BY DEF Plain, StoreSteps, EditSteps, JobSteps, Openers, Naming, ToolSteps

\* An operation the user sends, and what the store sets before.
LEMMA SentSane ==
  ASSUME StoreInv, store.document # 0, NEW s, Kindred(store, s), s.busy = store.busy,
         ~(s.crop /\ s.brush), NEW target \in Int, NEW op \in Ops, NEW continuing
  PROVE  Sane(Edited([World EXCEPT !.store = s], Here("adopt", target), op, continuing),
              gestures.opens, tangled)
<1> DEFINE c == Here("adopt", target)  u == [World EXCEPT !.store = s]
           v == Edited(u, c, op, continuing)
<1>1. c \in Calls /\ c.step = "adopt" /\ c.doc = store.document /\ c.home = store.document
  <2>1. "adopt" \in Plain
    BY PlainSteps
  <2> QED BY <2>1, HereFits
<1>2. u \in Worlds /\ Callable(c)
  BY <1>1, StoreInvFields, WithStore DEF Kindred, Callable, StoreSteps, EditSteps
<1>3. c.step \in EditSteps
  BY <1>1 DEF EditSteps
<1> HIDE DEF c
<1>4. Changed(u, v, c)
  <2> HIDE DEF u
  <2> QED BY <1>2, EditedChanges
<1> HIDE DEF v
<1>5. Sane(v, gestures.opens, tangled)
  <2>1. World.store = store /\ Sane(World, gestures.opens, tangled)
    BY StoreInvFields
  <2> QED BY <1>1, <1>3, <1>4, <2>1, PendingSane
<1> QED BY <1>5 DEF v, c

LEMMA SentKeeps ==
  ASSUME StoreInv, NEW STATE s, Kindred(store, s), s.busy = store.busy,
         ~(s.crop /\ s.brush), NEW STATE target, target \in Int, NEW STATE op, op \in Ops,
         NEW CONSTANT continuing,
         Gesture(Edited([World EXCEPT !.store = s], Here("adopt", target), op, continuing))
  PROVE  StoreInv'
<1>1. store.document # 0
  BY DEF Gesture
<1>2. Sane(Edited([World EXCEPT !.store = s], Here("adopt", target), op, continuing),
           gestures.opens, tangled)
  BY <1>1, SentSane
<1> QED BY <1>2, GestureKeeps

\* The store itself, when nothing is set before.
LEMMA StoreKin ==
  ASSUME StoreInv
  PROVE  /\ Kindred(store, store) /\ ~(store.crop /\ store.brush)
         /\ [World EXCEPT !.store = store] = World
<1>1. OneTool(World) /\ World.store = store
  BY StoreInvFields DEF StoreInv, Sane
<1> QED BY <1>1, StoreInvFields DEF Kindred, OneTool, World

\* Only the move that is shown before it is confirmed.
LEMMA StoreWithPending ==
  ASSUME StoreInv, NEW value \in {Unset} \cup SUBSET AnyControl
  PROVE  LET s == [store EXCEPT !.pending = value]
         IN  /\ Kindred(store, s) /\ s.busy = store.busy /\ ~(s.crop /\ s.brush)
             /\ [World EXCEPT !.store.pending = value] = [World EXCEPT !.store = s]
<1> DEFINE t == store  s == [t EXCEPT !.pending = value]
<1>1. t \in Stores /\ ~(t.crop /\ t.brush) /\ World.store = t
  BY StoreInvFields, StoreKin
<1>2. [World EXCEPT !.store.pending = value] = [World EXCEPT !.store = s]
  BY <1>1, Zenon
<1> HIDE DEF t
<1>3. s \in Stores /\ s.document = t.document /\ s.history = t.history /\ s.busy = t.busy
      /\ s.crop = t.crop /\ s.brush = t.brush
  BY <1>1 DEF Stores
<1> HIDE DEF s
<1>4. Kindred(t, s) /\ s.busy = t.busy /\ ~(s.crop /\ s.brush)
  BY <1>1, <1>3 DEF Kindred
<1> QED BY <1>2, <1>4 DEF s, t

LEMMA TurnKeeps ==
  ASSUME StoreInv, Turn
  PROVE  StoreInv'
<1> DEFINE op == [kind |-> "rotate", target |-> 0]
<1>1. op \in Ops
  BY 0 \in Int, OpsMade
<1> HIDE DEF op
<1>2. Gesture(Edited([World EXCEPT !.store = store], Here("adopt", 0), op, FALSE))
  BY StoreKin DEF Turn, op
<1>3. 0 \in Int /\ store.busy = store.busy
  OBVIOUS
<1> QED BY <1>1, <1>2, <1>3, StoreKin, SentKeeps

LEMMA ConfirmCropKeeps ==
  ASSUME StoreInv, ConfirmCrop
  PROVE  StoreInv'
<1> DEFINE op == [kind |-> "crop", target |-> 0]  s == [store EXCEPT !.crop = FALSE]
<1>1. op \in Ops
  BY 0 \in Int, OpsMade
<1>2. [World EXCEPT !.store.crop = FALSE] = [World EXCEPT !.store = s]
  BY StoreInvFields, Zenon
<1>3. Kindred(store, s) /\ s.busy = store.busy /\ ~(s.crop /\ s.brush)
  BY StoreInvFields DEF Kindred, Stores
<1> HIDE DEF s, op
<1>4. Gesture(Edited([World EXCEPT !.store = s], Here("adopt", 0), op, FALSE))
  BY <1>2 DEF ConfirmCrop, op
<1>5. 0 \in Int
  OBVIOUS
<1> QED BY <1>1, <1>3, <1>4, <1>5, SentKeeps

\* The layer on show and what the panel shows of it.
LEMMA ShownIsALayer ==
  ASSUME NEW s \in Stores, s.history.layers # <<>>
  PROVE  Shown(s) \in Layer(Ops)
<1> DEFINE layers == s.history.layers
           chosen == {i \in DOMAIN layers : layers[i].id = s.selected}
           adjust == {i \in DOMAIN layers : layers[i].kind = "adjustment"}
<1>1. layers \in Lists
  BY StoreFields
<1>2. /\ Len(layers) \in Nat /\ layers \in Seq(Layer(Ops)) /\ DOMAIN layers = 1 .. Len(layers)
      /\ \A i \in DOMAIN layers : layers[i] \in Layer(Ops)
  BY <1>1, ListFields
<1>3. Shown(s) = IF chosen # {} THEN layers[Min(chosen)]
                 ELSE IF adjust # {} THEN layers[Max(adjust)] ELSE layers[1]
  BY Zenon DEF Shown
<1>4. layers # <<>>
  OBVIOUS
<1>5. 1 \in DOMAIN layers
  <2> HIDE DEF layers
  <2> QED BY <1>2, <1>4
<1> HIDE DEF layers
<1>6. CASE chosen # {}
  <2>1. chosen \in SUBSET (1 .. Len(layers))
    BY <1>2
  <2> HIDE DEF chosen
  <2>2. Min(chosen) \in chosen
    BY <1>2, <1>6, <2>1, FirstPlace
  <2> QED BY <1>2, <1>3, <1>6, <2>1, <2>2
<1>7. CASE chosen = {} /\ adjust # {}
  <2>1. adjust \in SUBSET (1 .. Len(layers))
    BY <1>2
  <2> HIDE DEF adjust, chosen
  <2>2. Max(adjust) \in adjust
    BY <1>2, <1>7, <2>1, TopPlace
  <2> QED BY <1>2, <1>3, <1>7, <2>1, <2>2
<1>8. CASE chosen = {} /\ adjust = {}
  <2> HIDE DEF adjust, chosen
  <2> QED BY <1>2, <1>3, <1>5, <1>8
<1> QED BY <1>6, <1>7, <1>8

LEMMA CurrentControls ==
  ASSUME NEW s \in Stores
  PROVE  Current(s) \subseteq AnyControl
<1>1. s.pending \in {Unset} \cup SUBSET AnyControl
  BY StoreFields
<1>2. CASE s.pending # Unset
  BY <1>1, <1>2 DEF Current
<1>3. CASE s.pending = Unset /\ (s.history.layers = <<>> \/ Shown(s).holds["adjustments"] = Unset)
  BY <1>3 DEF Current
<1>4. CASE s.pending = Unset /\ s.history.layers # <<>> /\ Shown(s).holds["adjustments"] # Unset
  <2>1. Shown(s) \in Layer(Ops)
    BY <1>4, ShownIsALayer
  <2>2. Shown(s).holds["adjustments"] \in Tones(Ops)
    BY <2>1 DEF Layer
  <2>3. Shown(s).holds["adjustments"] \in SUBSET AnyControl
    BY <1>4, <2>2, OpsTones
  <2> QED BY <1>4, <2>3 DEF Current
<1> QED BY <1>2, <1>3, <1>4

LEMMA ListedIs ==
  ASSUME StoreInv, NEW id, NEW kinds, Listed(id, kinds)
  PROVE  id \in Int
<1>1. store.history.layers \in Lists
  BY StoreInvFields, StoreFields
<1>2. {l.id : l \in Range(store.history.layers)} \subseteq Int
  BY <1>1, ListFields
<1> QED BY <1>2 DEF Listed

\* commitAdjustments.
LEMMA CommitSane ==
  ASSUME StoreInv, store.document # 0, NEW value \in SUBSET AnyControl, NEW continuing
  PROVE  Sane(Commit(value, continuing), gestures.opens, tangled)
<1> DEFINE k == Max({0, store.selected})  op == [kind |-> "adjust", target |-> k, value |-> value]
           s == [store EXCEPT !.pending = value]
<1>1. k \in Int
  <2> DEFINE n == store.selected
  <2>1. n \in Int
    BY StoreInvFields, StoreFields
  <2> HIDE DEF n
  <2>2. \E x \in {0, n} : \A y \in {0, n} : x >= y
    BY <2>1, 0 <= n \/ n <= 0
  <2>3. Max({0, n}) \in {0, n}
    BY <2>2 DEF Max
  <2>4. Max({0, n}) \in Int
    BY <2>1, <2>3
  <2> QED BY <2>4 DEF n
<1> HIDE DEF k
<1>2. op \in Ops
  BY <1>1, OpsMade
<1>3. value \in {Unset} \cup SUBSET AnyControl
  OBVIOUS
<1>4. /\ Kindred(store, s) /\ s.busy = store.busy /\ ~(s.crop /\ s.brush)
      /\ [World EXCEPT !.store.pending = value] = [World EXCEPT !.store = s]
  BY <1>3, StoreWithPending
<1>5. Commit(value, continuing) = Edited([World EXCEPT !.store = s], Here("adopt", 0), op, continuing)
  BY <1>4, Zenon DEF Commit, k
<1> HIDE DEF s, op
<1>6. 0 \in Int
  OBVIOUS
<1>7. Sane(Edited([World EXCEPT !.store = s], Here("adopt", 0), op, continuing), gestures.opens, tangled)
  BY <1>2, <1>4, <1>6, SentSane
<1> QED BY <1>5, <1>7

LEMMA CommitKeeps ==
  ASSUME StoreInv, NEW STATE value, value \in SUBSET AnyControl, NEW CONSTANT continuing,
         Gesture(Commit(value, continuing))
  PROVE  StoreInv'
<1>1. store.document # 0
  BY DEF Gesture
<1>2. Sane(Commit(value, continuing), gestures.opens, tangled)
  BY <1>1, CommitSane
<1> QED BY <1>2, GestureKeeps

LEMMA SlideKeeps ==
  ASSUME StoreInv, NEW slider \in Sliders, NEW continuing \in BOOLEAN, Slide(slider, continuing)
  PROVE  StoreInv'
<1> DEFINE value == Current(store) \cup {slider}
<1>1. value \in SUBSET AnyControl
  BY StoreInvFields, CurrentControls DEF AnyControl
<1>2. Gesture(Commit(value, continuing))
  BY DEF Slide
<1> HIDE DEF value
<1> QED BY <1>1, <1>2, CommitKeeps

LEMMA PresetKeeps ==
  ASSUME StoreInv, ApplyPreset \/ PasteAdjustments
  PROVE  StoreInv'
<1>1. PICK value \in SUBSET AnyControl : Gesture(Commit(value, FALSE))
  <2>1. CASE ApplyPreset
    <3>1. {"preset"} \in SUBSET AnyControl /\ Gesture(Commit({"preset"}, FALSE))
      BY <2>1 DEF ApplyPreset, AnyControl
    <3> QED BY <3>1
  <2>2. CASE PasteAdjustments
    <3>1. {"pasted"} \in SUBSET AnyControl /\ Gesture(Commit({"pasted"}, FALSE))
      BY <2>2 DEF PasteAdjustments, AnyControl
    <3> QED BY <3>1
  <2> QED BY <2>1, <2>2
<1> QED BY <1>1, CommitKeeps

LEMMA EnhanceKeeps ==
  ASSUME StoreInv, ApplyEnhancements
  PROVE  StoreInv'
<1> DEFINE value == Current(store) \cup {"enhanced"}  w == Commit(value, FALSE)
           v == [w EXCEPT !.store.suggested = FALSE]
<1>1. value \in SUBSET AnyControl
  BY StoreInvFields, CurrentControls DEF AnyControl
<1>2. Gesture(v)
  BY Zenon DEF ApplyEnhancements
<1>3. store.document # 0
  BY <1>2 DEF Gesture
<1> HIDE DEF value
<1>4. Sane(w, gestures.opens, tangled)
  BY <1>1, <1>3, CommitSane
<1> HIDE DEF w
<1>5. Sane(v, gestures.opens, tangled)
  BY <1>4, FALSE \in BOOLEAN, SuggestedSane
<1> HIDE DEF v
<1> QED BY <1>2, <1>5, GestureKeeps

LEMMA ResetAdjustmentsKeeps ==
  ASSUME StoreInv, ResetAdjustments
  PROVE  StoreInv'
<1> DEFINE op == [kind |-> "adjust", target |-> 0, value |-> {}]
           s == [store EXCEPT !.pending = {}]
<1>1. op \in Ops
  BY 0 \in Int, {} \in SUBSET AnyControl, OpsMade
<1>2. {} \in {Unset} \cup SUBSET AnyControl
  OBVIOUS
<1>3. /\ Kindred(store, s) /\ s.busy = store.busy /\ ~(s.crop /\ s.brush)
      /\ [World EXCEPT !.store.pending = {}] = [World EXCEPT !.store = s]
  BY <1>2, StoreWithPending
<1> HIDE DEF s
<1>4. Gesture(Edited([World EXCEPT !.store = s], Here("adopt", 0), op, FALSE))
  BY <1>3, Zenon DEF ResetAdjustments
<1> HIDE DEF op
<1>5. 0 \in Int
  OBVIOUS
<1> QED BY <1>1, <1>3, <1>4, <1>5, SentKeeps

\* Another layer is chosen.
LEMMA SelectLayerKeeps ==
  ASSUME StoreInv, NEW id, SelectLayer(id)
  PROVE  StoreInv'
<1> DEFINE t == store  s == [t EXCEPT !.selected = id, !.pending = Unset]
           w == [World EXCEPT !.store = s]
<1>1. id \in Int
  BY ListedIs DEF SelectLayer
<1>2. t \in Stores /\ ~(t.crop /\ t.brush) /\ World.store = t
  BY StoreInvFields, StoreKin
<1>3. [World EXCEPT !.store.selected = id, !.store.pending = Unset] = w
  <2> DEFINE half == [t EXCEPT !.selected = id]  mid == [World EXCEPT !.store = half]
  <2>1. [World EXCEPT !.store.selected = id, !.store.pending = Unset]
          = [mid EXCEPT !.store = [mid.store EXCEPT !.pending = Unset]]
    BY <1>2, Zenon
  <2>2. s = [half EXCEPT !.pending = Unset]
    BY Zenon
  <2>3. World = [engine |-> engine, session |-> session, store |-> store, jobs |-> jobs,
                 answers |-> answers]
    BY DEF World
  <2> HIDE DEF half, s
  <2>4. mid.store = half
    BY <2>3
  <2>5. [World EXCEPT !.store.selected = id, !.store.pending = Unset] = [mid EXCEPT !.store = s]
    BY <2>1, <2>2, <2>4
  <2>6. [mid EXCEPT !.store = s] = [World EXCEPT !.store = s]
    BY <2>3
  <2> QED BY <2>5, <2>6
<1>4. Settable(World, s)
  <2> HIDE DEF t
  <2>1. s \in Stores
    BY <1>1, <1>2 DEF Stores
  <2>2. /\ s.document = t.document /\ s.history = t.history /\ s.pending = Unset
        /\ s.busy = t.busy /\ s.crop = t.crop /\ s.brush = t.brush
    BY <1>2 DEF Stores
  <2> HIDE DEF s
  <2> QED BY <1>2, <2>1, <2>2 DEF Settable, Kindred
<1> HIDE DEF s
<1>5. Sane(w, gestures.opens, tangled)
  BY <1>4, StoreInvFields, SetSane
<1>6. Gesture(w)
  BY <1>3 DEF SelectLayer
<1> HIDE DEF w
<1> QED BY <1>5, <1>6, GestureKeeps

LEMMA AddLayerKeeps ==
  ASSUME StoreInv, AddLayer
  PROVE  StoreInv'
<1> DEFINE c == Here("addLayer", 0)  w == Adding(World, c, "adjustment")
<1>1. Gesture(w) /\ store.document # 0
  BY DEF AddLayer, Gesture
<1>2. "addLayer" \in Plain /\ "addLayer" \in EditSteps
  BY PlainSteps
<1>3. Fit(World, gestures.opens, tangled, c) /\ c.step = "addLayer"
  BY <1>1, <1>2, 0 \in Int, HereFits
<1>4. "adjustment" \in LayerKinds
  BY DEF LayerKinds
<1> HIDE DEF c
<1>5. Sane(w, gestures.opens, tangled)
  BY <1>2, <1>3, <1>4, StoreInvFields, AddingSane
<1> HIDE DEF w
<1> QED BY <1>1, <1>5, GestureKeeps

LEMMA RemoveLayerKeeps ==
  ASSUME StoreInv, NEW id, RemoveLayer(id)
  PROVE  StoreInv'
<1> DEFINE op == [kind |-> "removeLayer", target |-> id]  t == store
           to == IF t.selected = id THEN None ELSE t.selected
           s == [t EXCEPT !.selected = to]
<1>1. id \in Int
  BY ListedIs DEF RemoveLayer
<1>2. op \in Ops
  BY <1>1, OpsMade
<1>3. t \in Stores /\ ~(t.crop /\ t.brush) /\ World.store = t
  BY StoreInvFields, StoreKin
<1>4. [World EXCEPT !.store.selected = IF @ = id THEN None ELSE @] = [World EXCEPT !.store = s]
  BY <1>3, Zenon
<1>5. to \in Int
  BY <1>3, StoreFields DEF None
<1> HIDE DEF t, to
<1>6. /\ s \in Stores /\ s.document = t.document /\ s.history = t.history
      /\ s.busy = t.busy /\ s.crop = t.crop /\ s.brush = t.brush
  BY <1>3, <1>5 DEF Stores
<1> HIDE DEF s
<1>7. Kindred(store, s) /\ s.busy = store.busy /\ ~(s.crop /\ s.brush)
  BY <1>3, <1>6 DEF Kindred, t
<1>8. Gesture(Edited([World EXCEPT !.store = s], Here("adopt", id), op, FALSE))
  BY <1>4, Zenon DEF RemoveLayer
<1> HIDE DEF op
<1> QED BY <1>1, <1>2, <1>7, <1>8, SentKeeps

LEMMA MoveLayerKeeps ==
  ASSUME StoreInv, NEW id, NEW delta \in {-1, 1}, MoveLayer(id, delta)
  PROVE  StoreInv'
<1> DEFINE layers == store.history.layers
           places == {0} \cup {i \in DOMAIN layers : layers[i].id = id}
           at == Max(places) - 1
           index == Min({Max({1, at + delta}), Len(layers) - 1})
           op == [kind |-> "reorderLayer", target |-> id, index |-> index]
<1>1. id \in Int
  BY ListedIs DEF MoveLayer
<1>2. Len(layers) \in Nat /\ DOMAIN layers = 1 .. Len(layers)
  BY StoreInvFields, StoreFields, ListFields
<1>3. at \in Int
  <2>1. places \in SUBSET (0 .. Len(layers)) /\ places # {}
    BY <1>2
  <2> HIDE DEF places
  <2>2. Max(places) \in places
    BY <1>2, <2>1, TopOrZero
  <2> DEFINE m == Max(places)
  <2>3. m \in 0 .. Len(layers)
    BY <2>1, <2>2
  <2> HIDE DEF m
  <2>4. m - 1 \in Int
    BY <1>2, <2>3
  <2> QED BY <2>4 DEF m
<1> HIDE DEF at
<1>4. index \in Int
  <2> DEFINE n == at + delta  k == Max({1, n})  m == Len(layers) - 1
  <2>1. n \in Int /\ m \in Int
    BY <1>2, <1>3
  <2> HIDE DEF n, m
  <2>2. \E x \in {1, n} : \A y \in {1, n} : x >= y
    BY <2>1, 1 <= n \/ n <= 1
  <2>3. k \in {1, n}
    BY <2>2 DEF Max
  <2>4. k \in Int
    BY <2>1, <2>3
  <2> HIDE DEF k
  <2>5. \E x \in {k, m} : \A y \in {k, m} : x =< y
    BY <2>1, <2>4, k <= m \/ m <= k
  <2>6. Min({k, m}) \in {k, m}
    BY <2>5 DEF Min
  <2>7. Min({k, m}) \in Int
    BY <2>1, <2>4, <2>6
  <2> QED BY <2>7 DEF k, n, m
<1>5. op \in Ops
  <2> HIDE DEF index
  <2> QED BY <1>1, <1>4, OpsMade
<1>6. Gesture(Edited(World, Here("adopt", id), op, FALSE))
  BY Zenon DEF MoveLayer, at
<1> HIDE DEF op
<1>7. Gesture(Edited([World EXCEPT !.store = store], Here("adopt", id), op, FALSE))
  BY <1>6, StoreKin
<1>8. store.busy = store.busy
  OBVIOUS
<1> QED BY <1>1, <1>5, <1>7, <1>8, StoreKin, SentKeeps

LEMMA TurnKnobKeeps ==
  ASSUME StoreInv, NEW kind \in LayerKnobs, NEW id, TurnKnob(kind, id)
  PROVE  StoreInv'
<1> DEFINE value == IF kind = "setLayerMask" THEN 0 ELSE "turned"
           op == [kind |-> kind, target |-> id, value |-> value]
<1>1. id \in Int
  BY ListedIs DEF TurnKnob
<1>2. kind \in DOMAIN SettingOf \ {"adjust"}
  BY EditorAssumption
<1>3. value \in Int \cup Words
  BY DEF Words
<1>4. Gesture(Edited(World, Here("adopt", id), op, FALSE))
  BY Zenon DEF TurnKnob
<1> HIDE DEF value
<1>5. op \in Ops
  BY <1>1, <1>2, <1>3, OpsMade
<1> HIDE DEF op
<1>6. Gesture(Edited([World EXCEPT !.store = store], Here("adopt", id), op, FALSE))
  BY <1>4, StoreKin
<1>7. store.busy = store.busy
  OBVIOUS
<1> QED BY <1>1, <1>5, <1>6, <1>7, StoreKin, SentKeeps

\* A world with a store set twice.
LEMMA SetTwice ==
  ASSUME NEW w \in Worlds, NEW s, NEW t
  PROVE  /\ [[w EXCEPT !.store = s] EXCEPT !.store = t] = [w EXCEPT !.store = t]
         /\ [w EXCEPT !.store = s].store = s
<1> DEFINE m == [w EXCEPT !.store = s]
<1>1. w = [engine |-> w.engine, session |-> w.session, store |-> w.store, jobs |-> w.jobs,
           answers |-> w.answers]
  BY WorldFields
<1>2. m = [engine |-> w.engine, session |-> w.session, store |-> s, jobs |-> w.jobs,
           answers |-> w.answers]
  BY <1>1
<1> HIDE DEF m
<1>3. [m EXCEPT !.store = t] = [engine |-> w.engine, session |-> w.session, store |-> t,
                                jobs |-> w.jobs, answers |-> w.answers]
  BY <1>2
<1>4. [w EXCEPT !.store = t] = [engine |-> w.engine, session |-> w.session, store |-> t,
                                jobs |-> w.jobs, answers |-> w.answers]
  BY <1>1
<1>5. m.store = s
  BY <1>2
<1> QED BY <1>3, <1>4, <1>5 DEF m

\* A job that names itself on the status bar.
LEMMA NamedJobKeeps ==
  ASSUME StoreInv, NEW STATE s, Kindred(store, s), s.pending = store.pending,
         ~(s.crop /\ s.brush),
         NEW CONSTANT step \in {"analyse", "detect", "segment", "background", "fill", "export"},
         NEW CONSTANT target \in Int,
         Gesture(Started([World EXCEPT !.store = s], Here(step, target)))
  PROVE  StoreInv'
<1> DEFINE c == Here(step, target)  w == Started([World EXCEPT !.store = s], c)
<1>1. store.document # 0 /\ World.store = store /\ Sane(World, gestures.opens, tangled)
  BY StoreInvFields DEF Gesture
<1>2. step \in Plain /\ step \in (JobSteps \ Openers) \cap Naming
  BY PlainSteps
<1>3. Fit(World, gestures.opens, tangled, c) /\ c.step = step
  BY <1>1, <1>2, HereFits
<1> HIDE DEF c
<1>4. Sane(w, gestures.opens, tangled)
  BY <1>1, <1>2, <1>3, NamedJobSane
<1>5. Gesture(w)
  BY DEF c
<1> HIDE DEF w
<1> QED BY <1>4, <1>5, GestureKeeps

LEMMA BusyIs ==
  ASSUME StoreInv, NEW name \in BusyNames
  PROVE  LET s == [store EXCEPT !.busy = name]
         IN  /\ Busy(World, name) = [World EXCEPT !.store = s]
             /\ Kindred(store, s) /\ s.pending = store.pending /\ ~(s.crop /\ s.brush)
<1> DEFINE t == store  s == [t EXCEPT !.busy = name]
<1>1. t \in Stores /\ ~(t.crop /\ t.brush) /\ World.store = t
  BY StoreInvFields, StoreKin
<1>2. Busy(World, name) = [World EXCEPT !.store = s]
  BY <1>1, Zenon DEF Busy
<1> HIDE DEF t
<1>3. /\ s \in Stores /\ s.document = t.document /\ s.history = t.history
      /\ s.pending = t.pending /\ s.crop = t.crop /\ s.brush = t.brush
  BY <1>1 DEF Stores
<1> HIDE DEF s
<1>4. Kindred(t, s) /\ s.pending = t.pending /\ ~(s.crop /\ s.brush)
  BY <1>1, <1>3 DEF Kindred
<1> QED BY <1>2, <1>4 DEF s, t

LEMMA BusyJobKeeps ==
  ASSUME StoreInv, NEW CONSTANT name \in BusyNames,
         NEW CONSTANT step \in {"analyse", "detect", "segment", "background", "fill", "export"},
         NEW CONSTANT target \in Int,
         Gesture(Started(Busy(World, name), Here(step, target)))
  PROVE  StoreInv'
<1> DEFINE s == [store EXCEPT !.busy = name]
<1>1. /\ Busy(World, name) = [World EXCEPT !.store = s]
      /\ Kindred(store, s) /\ s.pending = store.pending /\ ~(s.crop /\ s.brush)
  BY BusyIs
<1> HIDE DEF s
<1>2. Gesture(Started([World EXCEPT !.store = s], Here(step, target)))
  BY <1>1
<1> QED BY <1>1, <1>2, NamedJobKeeps

LEMMA DetectFacesKeeps ==
  ASSUME StoreInv, DetectFaces
  PROVE  StoreInv'
<1>1. "detecting" \in BusyNames /\ 0 \in Int
  BY DEF BusyNames
<1>2. Gesture(Started(Busy(World, "detecting"), Here("detect", 0)))
  BY DEF DetectFaces
<1> QED BY <1>1, <1>2, BusyJobKeeps

LEMMA SegmentKeeps ==
  ASSUME StoreInv, NEW id, SegmentIntoMask(id)
  PROVE  StoreInv'
<1>1. "segmenting" \in BusyNames
  BY DEF BusyNames
<1>2. id \in Int
  BY ListedIs DEF SegmentIntoMask
<1>3. Gesture(Started(Busy(World, "segmenting"), Here("segment", id)))
  BY DEF SegmentIntoMask
<1> QED BY <1>1, <1>2, <1>3, BusyJobKeeps

LEMMA BackgroundKeeps ==
  ASSUME StoreInv, RemoveBackground
  PROVE  StoreInv'
<1>1. "segmenting" \in BusyNames /\ 0 \in Int
  BY DEF BusyNames
<1>2. Gesture(Started(Busy(World, "segmenting"), Here("background", 0)))
  BY DEF RemoveBackground
<1> QED BY <1>1, <1>2, BusyJobKeeps

LEMMA ExportKeeps ==
  ASSUME StoreInv, Export
  PROVE  StoreInv'
<1>1. "exporting" \in BusyNames /\ 0 \in Int
  BY DEF BusyNames
<1>2. Gesture(Started(Busy(World, "exporting"), Here("export", 0)))
  BY DEF Export
<1> QED BY <1>1, <1>2, BusyJobKeeps

LEMMA FillKeeps ==
  ASSUME StoreInv, NEW id, FillMarked(id)
  PROVE  StoreInv'
<1>1. "filling" \in BusyNames
  BY DEF BusyNames
<1>2. Listed(id, {"patch"})
  BY DEF FillMarked, Listed
<1>3. id \in Int
  BY <1>2, ListedIs
<1>4. Gesture(Started(Busy(World, "filling"), Here("fill", id)))
  BY DEF FillMarked
<1> QED BY <1>1, <1>3, <1>4, BusyJobKeeps

LEMMA AnalyseKeeps ==
  ASSUME StoreInv, Analyse
  PROVE  StoreInv'
<1> DEFINE t == store  half == [t EXCEPT !.busy = "analysing"]
           s == [half EXCEPT !.suggested = FALSE]  mid == [World EXCEPT !.store = half]
<1>1. t \in Stores /\ ~(t.crop /\ t.brush) /\ World.store = t /\ World \in Worlds
  BY StoreInvFields, StoreKin
<1>2. [World EXCEPT !.store.busy = "analysing", !.store.suggested = FALSE]
        = [mid EXCEPT !.store = [mid.store EXCEPT !.suggested = FALSE]]
  BY <1>1, Zenon
<1> HIDE DEF t
<1>3. /\ s \in Stores /\ s.document = t.document /\ s.history = t.history
      /\ s.pending = t.pending /\ s.crop = t.crop /\ s.brush = t.brush
  BY <1>1 DEF Stores, BusyNames
<1> HIDE DEF half
<1>4. mid.store = half
  BY <1>1, SetTwice
<1>5. [mid EXCEPT !.store = s] = [World EXCEPT !.store = s]
  <2> HIDE DEF s
  <2> QED BY <1>1, SetTwice
<1>6. [World EXCEPT !.store.busy = "analysing", !.store.suggested = FALSE] = [World EXCEPT !.store = s]
  BY <1>2, <1>4, <1>5
<1> HIDE DEF s
<1>7. Kindred(store, s) /\ s.pending = store.pending /\ ~(s.crop /\ s.brush)
  BY <1>1, <1>3 DEF Kindred, t
<1>8. Gesture(Started([World EXCEPT !.store = s], Here("analyse", 0)))
  BY <1>6 DEF Analyse
<1>9. 0 \in Int
  OBVIOUS
<1> QED BY <1>7, <1>8, <1>9, NamedJobKeeps

LEMMA ChooseBackgroundKeeps ==
  ASSUME StoreInv, NEW id, ChooseBackground(id)
  PROVE  StoreInv'
<1> DEFINE c == Here("backdrop", id)  w == Started(World, c)
<1>1. Gesture(w) /\ store.document # 0 /\ id \in Int
  BY ListedIs DEF ChooseBackground, Gesture
<1>2. "backdrop" \in Plain /\ "backdrop" \in JobSteps \ Openers
  BY PlainSteps
<1>3. Fit(World, gestures.opens, tangled, c) /\ c.step = "backdrop"
  BY <1>1, <1>2, HereFits
<1> HIDE DEF c
<1>4. Sane(w, gestures.opens, tangled)
  BY <1>2, <1>3, StoreInvFields, StartedSane
<1> HIDE DEF w
<1> QED BY <1>1, <1>4, GestureKeeps

LEMMA RemovalKeeps ==
  ASSUME StoreInv, BeginObjectRemoval
  PROVE  StoreInv'
<1> DEFINE c == Here("removal", 0)  w == Adding(World, c, "patch")
<1>1. Gesture(w) /\ store.document # 0
  BY DEF BeginObjectRemoval, Gesture
<1>2. "removal" \in Plain /\ "removal" \in EditSteps
  BY PlainSteps
<1>3. Fit(World, gestures.opens, tangled, c) /\ c.step = "removal"
  BY <1>1, <1>2, 0 \in Int, HereFits
<1>4. "patch" \in LayerKinds
  BY DEF LayerKinds
<1> HIDE DEF c
<1>5. Sane(w, gestures.opens, tangled)
  BY <1>2, <1>3, <1>4, StoreInvFields, AddingSane
<1> HIDE DEF w
<1> QED BY <1>1, <1>5, GestureKeeps

LEMMA PaintKeeps ==
  ASSUME StoreInv, Paint
  PROVE  StoreInv'
<1> DEFINE id == Shown(store).id  c == Here("paint", id)  w == Asked(World, c)
<1>1. Gesture(w) /\ store.document # 0 /\ store.history.layers # <<>>
  BY DEF Paint, Gesture
<1>2. "paint" \in Plain
  BY PlainSteps
<1>3. id \in Int
  <2>1. Shown(store) \in Layer(Ops)
    BY <1>1, StoreInvFields, ShownIsALayer
  <2> QED BY <2>1 DEF Layer
<1> HIDE DEF id
<1>4. Fit(World, gestures.opens, tangled, c) /\ c.step = "paint"
  BY <1>1, <1>2, <1>3, HereFits
<1> HIDE DEF c
<1>5. Sane(w, gestures.opens, tangled)
  BY <1>4, StoreInvFields, AskedSane
<1> HIDE DEF w
<1> QED BY <1>1, <1>5, GestureKeeps

LEMMA NoStep ==
  ASSUME StoreInv, store.document # 0
  PROVE  Here("", 0) \in Calls
<1> DEFINE step == ""
<1>1. step \in Plain
  BY PlainSteps
<1> HIDE DEF step
<1>2. Here(step, 0) \in Calls
  BY <1>1, 0 \in Int, HereFits
<1> QED BY <1>2 DEF step

\* The portrait's tools.
LEMMA ToolsKeep ==
  ASSUME StoreInv, NEW CONSTANT rest \in Seq(Tools), NEW CONSTANT drag \in BOOLEAN,
         Gesture(NextTool(World, [Here("", 0) EXCEPT !.rest = rest, !.drag = drag]))
  PROVE  StoreInv'
<1> DEFINE h == Here("", 0)  c == [h EXCEPT !.rest = rest, !.drag = drag]  w == NextTool(World, c)
<1>1. Gesture(w) /\ store.document # 0
  BY DEF Gesture
<1>3. h \in Calls
  BY <1>1, NoStep
<1> HIDE DEF h
<1>4. c \in Calls
  BY <1>3 DEF Calls
<1> HIDE DEF c
<1>5. Sane(w, gestures.opens, tangled)
  BY <1>4, StoreInvFields, NextToolSane
<1> HIDE DEF w
<1> QED BY <1>1, <1>5, GestureKeeps

LEMMA PortraitToolKeeps ==
  ASSUME StoreInv, NEW tool \in Tools, NEW continuing \in BOOLEAN, PortraitTool(tool, continuing)
  PROVE  StoreInv'
<1>1. <<tool>> \in Seq(Tools)
  OBVIOUS
<1>2. Gesture(NextTool(World, [Here("", 0) EXCEPT !.rest = <<tool>>, !.drag = continuing]))
  BY DEF PortraitTool
<1> DEFINE rest == <<tool>>
<1> HIDE DEF rest
<1>3. rest \in Seq(Tools)
        /\ Gesture(NextTool(World, [Here("", 0) EXCEPT !.rest = rest, !.drag = continuing]))
  BY <1>1, <1>2 DEF rest
<1> QED BY <1>3, ToolsKeep

LEMMA PortraitAutoKeeps ==
  ASSUME StoreInv, PortraitAuto
  PROVE  StoreInv'
<1> DEFINE h == Here("", 0)  c == [h EXCEPT !.rest = ToolOrder]  w == NextTool(World, c)
<1>1. Gesture(w) /\ store.document # 0
  BY DEF PortraitAuto, Gesture
<1>2. ToolOrder \in Seq(Tools)
  BY EditorAssumption
<1>3. h \in Calls
  BY <1>1, NoStep
<1> HIDE DEF h
<1>4. c \in Calls
  BY <1>2, <1>3 DEF Calls
<1> HIDE DEF c
<1>5. Sane(w, gestures.opens, tangled)
  BY <1>4, StoreInvFields, NextToolSane
<1> HIDE DEF w
<1> QED BY <1>1, <1>5, GestureKeeps

\* The crop tool and the brush.
LEMMA SettingKeeps ==
  ASSUME StoreInv, NEW STATE s, s \in Stores, s.document = store.document, s.history = store.history,
         s.pending = store.pending, s.busy = store.busy, ~(s.crop /\ s.brush),
         Gesture([World EXCEPT !.store = s])
  PROVE  StoreInv'
<1>1. Settable(World, s)
  BY StoreInvFields DEF Settable, Kindred
<1>2. Sane([World EXCEPT !.store = s], gestures.opens, tangled)
  BY <1>1, StoreInvFields, SetSane
<1> QED BY <1>2, GestureKeeps

LEMMA BeginCropKeeps ==
  ASSUME StoreInv, BeginCrop
  PROVE  StoreInv'
<1> DEFINE t == store  half == [t EXCEPT !.crop = TRUE]
           s == [half EXCEPT !.brush = FALSE]  mid == [World EXCEPT !.store = half]
<1>1. t \in Stores /\ World.store = t /\ World \in Worlds
  BY StoreInvFields, StoreKin
<1>2. [World EXCEPT !.store.crop = TRUE, !.store.brush = FALSE]
        = [mid EXCEPT !.store = [mid.store EXCEPT !.brush = FALSE]]
  BY <1>1, Zenon
<1> HIDE DEF t
<1>3. /\ s \in Stores /\ s.document = t.document /\ s.history = t.history
      /\ s.pending = t.pending /\ s.busy = t.busy /\ s.brush = FALSE
  BY <1>1 DEF Stores
<1> HIDE DEF half
<1>4. mid.store = half
  BY <1>1, SetTwice
<1>5. [mid EXCEPT !.store = s] = [World EXCEPT !.store = s]
  <2> HIDE DEF s
  <2> QED BY <1>1, SetTwice
<1>6. [World EXCEPT !.store.crop = TRUE, !.store.brush = FALSE] = [World EXCEPT !.store = s]
  BY <1>2, <1>4, <1>5
<1> HIDE DEF s
<1>7. Gesture([World EXCEPT !.store = s])
  BY <1>6 DEF BeginCrop
<1> QED BY <1>3, <1>7, SettingKeeps DEF t

LEMMA ToggleBrushKeeps ==
  ASSUME StoreInv, ToggleBrush
  PROVE  StoreInv'
<1> DEFINE t == store  half == [t EXCEPT !.brush = ~t.brush]
           s == [half EXCEPT !.crop = t.brush /\ half.crop]  mid == [World EXCEPT !.store = half]
<1>1. t \in Stores /\ World.store = t /\ World \in Worlds
  BY StoreInvFields, StoreKin
<1>2. [World EXCEPT !.store.brush = ~@, !.store.crop = store.brush /\ @]
        = [mid EXCEPT !.store = [mid.store EXCEPT !.crop = t.brush /\ mid.store.crop]]
  BY <1>1, Zenon
<1> HIDE DEF t
<1>3. /\ s \in Stores /\ s.document = t.document /\ s.history = t.history
      /\ s.pending = t.pending /\ s.busy = t.busy /\ ~(s.crop /\ s.brush)
  <2> DEFINE b == ~t.brush  k == t.brush /\ half.crop
  <2>1. b \in BOOLEAN /\ k \in BOOLEAN /\ ~(k /\ b)
    OBVIOUS
  <2>2. half = [t EXCEPT !.brush = b] /\ s = [half EXCEPT !.crop = k]
    OBVIOUS
  <2> HIDE DEF b, k, half, s
  <2>3. half \in Stores /\ half.document = t.document /\ half.history = t.history
        /\ half.pending = t.pending /\ half.busy = t.busy /\ half.brush = b
    BY <1>1, <2>1, <2>2 DEF Stores
  <2>4. s \in Stores /\ s.document = half.document /\ s.history = half.history
        /\ s.pending = half.pending /\ s.busy = half.busy /\ s.brush = half.brush /\ s.crop = k
    <3> HIDE <2>2
    <3>1. s = [half EXCEPT !.crop = k]
      BY <2>2
    <3> QED BY <2>1, <2>3, <3>1 DEF Stores
  <2> QED BY <2>1, <2>3, <2>4
<1> HIDE DEF half
<1>4. mid.store = half
  BY <1>1, SetTwice
<1>5. [mid EXCEPT !.store = s] = [World EXCEPT !.store = s]
  <2> HIDE DEF s
  <2> QED BY <1>1, SetTwice
<1>6. [World EXCEPT !.store.brush = ~@, !.store.crop = store.brush /\ @] = [World EXCEPT !.store = s]
  BY <1>2, <1>4, <1>5
<1> HIDE DEF s
<1>7. Gesture([World EXCEPT !.store = s])
  BY <1>6 DEF ToggleBrush
<1> QED BY <1>3, <1>7, SettingKeeps DEF t

\* The history's cursor.
LEMMA SoughtKeeps ==
  ASSUME StoreInv, NEW STATE n, n \in Int, Gesture(Sought(World, Here("adopt", 0), n))
  PROVE  StoreInv'
<1> DEFINE c == Here("adopt", 0)  w == Sought(World, c, n)
<1>1. Gesture(w) /\ store.document # 0
  BY DEF Gesture
<1>2. "adopt" \in Plain /\ "adopt" \in EditSteps
  BY PlainSteps
<1>3. Fit(World, gestures.opens, tangled, c) /\ c.step = "adopt"
  BY <1>1, <1>2, 0 \in Int, HereFits
<1> HIDE DEF c
<1>4. Callable(c)
  BY <1>2, <1>3 DEF Callable, Fit, StoreSteps
<1>5. Changed(World, w, c)
  BY <1>4, StoreInvFields, SoughtChanges
<1> HIDE DEF w
<1>6. Sane(w, gestures.opens, tangled)
  BY <1>2, <1>3, <1>5, StoreInvFields, ChangedSane
<1> QED BY <1>1, <1>6, GestureKeeps

LEMMA UndoKeeps ==
  ASSUME StoreInv, UndoEdit \/ RedoEdit
  PROVE  StoreInv'
<1>1. store.document # 0
  BY DEF UndoEdit, RedoEdit, Gesture
<1>2. Reached \in Nat
  <2>1. store.document \in Docs
    BY <1>1, StoreInvFields, StoreFields
  <2>2. engine[store.document] \in Stacks
    BY <2>1, StoreInvFields
  <2>3. engine[store.document].at \in Nat
    BY <2>2 DEF Stacks
  <2> QED BY <2>3 DEF Reached, Document
<1> DEFINE m == Reached - 1  n == Reached + 1
<1>3. m \in Int /\ n \in Int
  BY <1>2
<1>4. Gesture(Sought(World, Here("adopt", 0), m)) \/ Gesture(Sought(World, Here("adopt", 0), n))
  BY DEF UndoEdit, RedoEdit
<1> HIDE DEF m, n
<1> QED BY <1>3, <1>4, SoughtKeeps

LEMMA SeekKeeps ==
  ASSUME StoreInv, NEW n \in Int, SeekEdit(n)
  PROVE  StoreInv'
<1>1. Gesture(Sought(World, Here("adopt", 0), n))
  BY DEF SeekEdit
<1> QED BY <1>1, SoughtKeeps

LEMMA ResetEditsKeeps ==
  ASSUME StoreInv, ResetEdits
  PROVE  StoreInv'
<1> DEFINE c == Here("adopt", 0)  d == store.document  en == engine  e == en[d]  live == e.live
           ops == IF live THEN <<>> ELSE e.ops  at == IF live THEN 0 ELSE e.at
           new == [live |-> live, ops |-> ops, at |-> at]
           half == [e EXCEPT !.ops = ops]
           w == [World EXCEPT !.engine[d].ops = IF live THEN <<>> ELSE @,
                              !.engine[d].at = IF live THEN 0 ELSE @]
           mid == [World EXCEPT !.engine = [en EXCEPT ![d] = half]]
           v == Answered(w, c, live)
<1>1. Gesture(v) /\ store.document # 0
  BY Zenon DEF ResetEdits, Gesture, Document
<1>2. "adopt" \in Plain /\ "adopt" \in EditSteps
  BY PlainSteps
<1>3. Fit(World, gestures.opens, tangled, c) /\ c.step = "adopt" /\ c.doc = d
  BY <1>1, <1>2, 0 \in Int, HereFits
<1> HIDE DEF c
<1>4. Callable(c)
  BY <1>2, <1>3 DEF Callable, Fit, StoreSteps
<1>5. d \in Docs /\ en \in [Docs -> Stacks] /\ World.engine = en
  BY <1>1, StoreInvFields, StoreFields
<1>6. e \in Stacks
  BY <1>5
<1>7. /\ e = [live |-> e.live, ops |-> e.ops, at |-> e.at]
      /\ live \in BOOLEAN /\ e.ops \in Seq(Ops) /\ e.at \in 0 .. Len(e.ops)
  BY <1>6, StackFields
<1>8. new \in Stacks
  <2>1. ops \in Seq(Ops) /\ at \in 0 .. Len(ops)
    <3> HIDE DEF e
    <3>1. CASE live
      <4>1. ops = <<>> /\ at = 0 /\ Len(<<>>) = 0
        BY <3>1
      <4>2. <<>> \in Seq(Ops)
        BY EmptyIsASeq
      <4> HIDE DEF ops, at
      <4> QED BY <4>1, <4>2
    <3>2. CASE ~live
      BY <1>7, <3>2
    <3> QED BY <3>1, <3>2
  <2> HIDE DEF ops, at, live
  <2> QED BY <1>7, <2>1, StackMade
<1>9. World = [engine |-> en, session |-> session, store |-> store, jobs |-> jobs,
               answers |-> answers]
  BY DEF World
<1>10. w = [mid EXCEPT !.engine = [mid.engine EXCEPT ![d] = [mid.engine[d] EXCEPT
                                       !.at = IF live THEN 0 ELSE mid.engine[d].at]]]
  BY <1>5, ZenonT(30)
<1> HIDE DEF w
<1>11. half = [live |-> live, ops |-> ops, at |-> e.at]
  <2> HIDE DEF e, ops
  <2> QED BY <1>7
<1> HIDE DEF half, e
<1>12. mid = [engine |-> [en EXCEPT ![d] = half], session |-> session, store |-> store,
              jobs |-> jobs, answers |-> answers]
  <2> HIDE DEF en, d
  <2> QED BY <1>9
<1> HIDE DEF mid, en, d, ops
<1>13. mid.engine = [en EXCEPT ![d] = half] /\ mid.engine[d] = half
  BY <1>5, <1>12
<1>14. [half EXCEPT !.at = IF live THEN 0 ELSE half.at] = new
  <2> HIDE DEF live
  <2> QED BY <1>11
<1> HIDE DEF live, new
<1>15. w = [mid EXCEPT !.engine = [mid.engine EXCEPT ![d] = new]]
  BY <1>10, <1>13, <1>14
<1>16. [mid.engine EXCEPT ![d] = new] = [en EXCEPT ![d] = new]
  BY <1>5, <1>13
<1>17. w = [World EXCEPT !.engine = [World.engine EXCEPT ![c.doc] = new]]
  BY <1>3, <1>5, <1>9, <1>12, <1>15, <1>16
<1>18. Replied(World, v, c, new, live)
  BY <1>4, <1>7, <1>8, <1>17, StoreInvFields, RepliedBy DEF live
<1>19. Changed(World, v, c)
  <2>1. World.engine[c.doc] = e
    BY <1>3, <1>5 DEF e
  <2>2. live => new.live
    BY DEF new
  <2>3. ~live => new = e
    BY <1>7 DEF new, live, ops
  <2>4. live = e.live /\ live \in BOOLEAN
    BY <1>7 DEF live
  <2> HIDE DEF v
  <2> QED BY <1>8, <1>18, <2>1, <2>2, <2>3, <2>4 DEF Changed
<1> HIDE DEF v
<1>20. Sane(v, gestures.opens, tangled)
  BY <1>2, <1>3, <1>19, StoreInvFields, ChangedSane
<1> QED BY <1>1, <1>20, GestureKeeps

-----------------------------------------------------------------------------
(* The whole.                                                              *)

LEMMA OnLayerKeeps ==
  ASSUME StoreInv, NEW id, OnLayer(id)
  PROVE  StoreInv'
<1>1. CASE SelectLayer(id)
  BY <1>1, SelectLayerKeeps
<1>2. CASE \E kind \in LayerKnobs : TurnKnob(kind, id)
  BY <1>2, TurnKnobKeeps
<1>3. CASE RemoveLayer(id)
  BY <1>3, RemoveLayerKeeps
<1>4. CASE SegmentIntoMask(id)
  BY <1>4, SegmentKeeps
<1>5. CASE FillMarked(id)
  BY <1>5, FillKeeps
<1>6. CASE ChooseBackground(id)
  BY <1>6, ChooseBackgroundKeeps
<1>7. CASE \E delta \in {-1, 1} : MoveLayer(id, delta)
  BY <1>7, MoveLayerKeeps
<1> QED BY <1>1, <1>2, <1>3, <1>4, <1>5, <1>6, <1>7 DEF OnLayer

LEMMA PanelsKeep ==
  ASSUME StoreInv, Panels
  PROVE  StoreInv'
<1>1. CASE \E slider \in Sliders, continuing \in BOOLEAN : Slide(slider, continuing)
  BY <1>1, SlideKeeps
<1>2. CASE ApplyPreset
  BY <1>2, PresetKeeps
<1>3. CASE ResetAdjustments
  BY <1>3, ResetAdjustmentsKeeps
<1>4. CASE Analyse
  BY <1>4, AnalyseKeeps
<1>5. CASE ApplyEnhancements
  BY <1>5, EnhanceKeeps
<1>6. CASE \E id \in Ids(World) : OnLayer(id)
  BY <1>6, OnLayerKeeps
<1>7. CASE AddLayer
  BY <1>7, AddLayerKeeps
<1>8. CASE DetectFaces
  BY <1>8, DetectFacesKeeps
<1>9. CASE PortraitAuto
  BY <1>9, PortraitAutoKeeps
<1>10. CASE \E tool \in Tools, continuing \in BOOLEAN : PortraitTool(tool, continuing)
  BY <1>10, PortraitToolKeeps
<1>11. CASE \E n \in 0 .. Len(engine[Max({1, Document})].ops) : SeekEdit(n)
  <2>1. PICK n \in 0 .. Len(engine[Max({1, Document})].ops) : SeekEdit(n)
    BY <1>11
  <2>2. n \in Int
    BY <2>1
  <2> QED BY <2>1, <2>2, SeekKeeps
<1> QED BY <1>1, <1>2, <1>3, <1>4, <1>5, <1>6, <1>7, <1>8, <1>9, <1>10, <1>11 DEF Panels

LEMMA RailKeeps ==
  ASSUME StoreInv, Rail
  PROVE  StoreInv'
BY BackgroundKeeps, RemovalKeeps, BeginCropKeeps, CancelCropKeeps, ToggleBrushKeeps, TurnKeeps
   DEF Rail

LEMMA KeysKeep ==
  ASSUME StoreInv, Keys
  PROVE  StoreInv'
<1>1. "openImage" \in Openers /\ "openProject" \in Openers
  BY DEF Openers
<1>2. CASE OpenImage
  BY <1>1, <1>2, OpeningKeeps DEF OpenImage
<1>3. CASE OpenProject
  BY <1>1, <1>3, OpeningKeeps DEF OpenProject
<1>4. CASE PasteAdjustments
  BY <1>4, PresetKeeps
<1>5. CASE ConfirmCrop
  BY <1>5, ConfirmCropKeeps
<1>6. CASE UndoEdit \/ RedoEdit
  BY <1>6, UndoKeeps
<1> QED BY <1>2, <1>3, <1>4, <1>5, <1>6 DEF Keys

LEMMA StoreStarts ==
  ASSUME StoreInit
  PROVE  StoreInv
<1> DEFINE closed == [live |-> FALSE, ops |-> <<>>, at |-> 0]  w == World
<1>1. closed \in Stacks
  <2>1. <<>> \in Seq(Ops) /\ 0 \in 0 .. Len(<<>>) /\ FALSE \in BOOLEAN
    BY EmptyIsASeq
  <2> QED BY <2>1, StackMade
<1>2. engine \in [Docs -> Stacks] /\ session \in {0} \cup Docs
  <2> HIDE DEF closed
  <2>1. engine = [d \in Docs |-> closed]
    BY DEF StoreInit, closed
  <2> QED BY <1>1, <2>1 DEF StoreInit
<1>3. Blank \in [doc : {0} \cup Docs, layers : Lists]
  BY EmptyIsASeq DEF Blank, Lists
<1>4. Unknown \in [found : BOOLEAN, faces : BOOLEAN, tools : [Tools -> Int]]
  BY DEF Unknown, None
<1>5. store \in Stores
  <2>1. "none" \in BusyNames /\ None \in Int /\ Unset \in {Unset} \cup SUBSET AnyControl
    BY DEF BusyNames, None
  <2>2. store = [document |-> 0, history |-> Blank, pending |-> Unset, selected |-> None,
                 portrait |-> Unknown, busy |-> "none", crop |-> FALSE, brush |-> FALSE,
                 suggested |-> FALSE]
    BY DEF StoreInit
  <2> QED BY <1>3, <1>4, <2>1, <2>2 DEF Stores
<1>6. jobs = {} /\ answers = <<>> /\ <<>> \in Seq(Replies)
  BY EmptyIsASeq DEF StoreInit
<1>7. w \in Worlds
  <2>1. jobs \in SUBSET {c \in Calls : c.step \in JobSteps}
    BY <1>6
  <2>2. answers \in Seq(Replies)
    BY <1>6
  <2> QED BY <1>2, <1>5, <2>1, <2>2, WorldMade DEF World
<1>8. /\ w.engine = engine /\ w.session = session /\ w.store = store /\ w.jobs = jobs
      /\ w.answers = answers
  BY DEF World
<1>9. /\ store.document = 0 /\ store.busy = "none" /\ store.crop = FALSE /\ session = 0
      /\ gestures = [opens |-> 0, others |-> 0] /\ tangled = FALSE
  BY DEF StoreInit
<1> HIDE DEF w
<1>10. Places(w) = {} /\ Afoot(w) = {}
  <2>1. Places(w) = 1 .. 0
    BY <1>6, <1>8 DEF Places
  <2>2. Places(w) = {}
    BY <2>1
  <2> QED BY <1>6, <1>8, <2>2 DEF Afoot
<1>11. Placed(w, 0) /\ OneOpening(w) /\ OneClose(w) /\ InTime(w)
  BY <1>6, <1>8, <1>9, <1>10 DEF Placed, OneOpening, OneClose, InTime
<1>12. OnShow(w) /\ Held(w) /\ Followed(w)
  BY <1>8, <1>9, <1>10 DEF OnShow, Held, Followed
<1>13. Named(w) /\ OneTool(w) /\ Awaited(w)
  BY <1>8, <1>9 DEF Named, OneTool, Awaited
<1>14. Sane(w, 0, FALSE)
  BY <1>7, <1>11, <1>12, <1>13 DEF Sane, Linked
<1> QED BY <1>9, <1>14 DEF StoreInv, w

LEMMA StoreStepKeeps ==
  ASSUME StoreInv, [StoreNext]_storeVars
  PROVE  StoreInv'
<1>1. CASE Panels
  BY <1>1, PanelsKeep
<1>2. CASE Rail
  BY <1>2, RailKeeps
<1>3. CASE Keys
  BY <1>3, KeysKeep
<1>4. CASE Paint \/ Export \/ ResetEdits
  BY <1>4, PaintKeeps, ExportKeeps, ResetEditsKeeps
<1>5. CASE Deliver
  BY <1>5, DeliverKeeps
<1>6. CASE \E call \in jobs, ok \in BOOLEAN :
             \E target \in {0, 1} \cup {call.target} : JobDone(call, ok, target)
  BY <1>6, JobDoneKeeps
<1>7. CASE Render
  BY <1>7, RenderKeeps
<1>8. CASE UNCHANGED storeVars
  BY <1>8 DEF storeVars, StoreInv, World
<1> QED BY <1>1, <1>2, <1>3, <1>4, <1>5, <1>6, <1>7, <1>8 DEF StoreNext

\* What the invariant says of the properties.
LEMMA StoreInvInOrder ==
  ASSUME StoreInv
  PROVE  StoreInOrder
<1>1. /\ World \in Worlds /\ store \in Stores /\ session \in {0} \cup Docs
      /\ tangled \in BOOLEAN
  BY StoreInvFields
<1>2. InFlight = Afoot(World)
  BY InFlightIs
<1>3. /\ store.document \in {0} \cup Docs /\ store.history \in [doc : {0} \cup Docs, layers : Lists]
      /\ store.pending \in {Unset} \cup SUBSET AnyControl
      /\ store.portrait \in [found : BOOLEAN, faces : BOOLEAN, tools : [Tools -> Int]]
      /\ store.busy \in BusyNames
      /\ store.crop \in BOOLEAN /\ store.brush \in BOOLEAN /\ store.suggested \in BOOLEAN
  BY <1>1, StoreFields
<1>4. store.history.layers # <<>> => WellFormed(store.history.layers)
  BY <1>3 DEF Lists
<1>5. \A c \in InFlight : c.step \in EditSteps \cup JobSteps \cup {"replaced", "read", "paint",
        "toolStored"}
  BY <1>1, <1>2, AfootCalls DEF StoreSteps
<1>6. \A c \in jobs : c.step \in JobSteps
  BY <1>1, AfootCalls, StoreInvFields
<1>7. {store.crop, store.brush, store.suggested, store.portrait.found,
        store.portrait.faces} \subseteq BOOLEAN
  BY <1>3
<1>8. StoreTypeOK
  BY <1>1, <1>3, <1>4, <1>5, <1>6, <1>7 DEF StoreTypeOK
<1>9. OneToolAtATime /\ JobNameNeverSticks
  <2>1. OneTool(World) /\ Named(World) /\ World.store = store
    BY StoreInvFields DEF StoreInv, Sane
  <2>2. OneToolAtATime
    BY <2>1 DEF OneTool, OneToolAtATime
  <2>3. JobNameNeverSticks
    BY <1>2, <2>1 DEF JobNameNeverSticks, Named, AtRest
  <2> QED BY <2>2, <2>3
<1> QED BY <1>8, <1>9 DEF StoreInOrder

LEMMA StoreInvSays ==
  ASSUME StoreInv
  PROVE  StackShownIsTheDocuments /\ SavedIsShown /\ PanelShowsTheEngine
<1> SUFFICES ASSUME ~tangled
             PROVE  /\ store.document # 0 /\ store.history.layers # <<>>
                         => store.history.doc = store.document
                    /\ AtRest => session = store.document
                    /\ AtRest /\ store.document # 0 =>
                         /\ store.history = [doc |-> store.document,
                                             layers |-> LayersOf(World, store.document)]
                         /\ store.pending = Unset
  BY DEF StackShownIsTheDocuments, SavedIsShown, PanelShowsTheEngine
<1>1. tangled = FALSE
  BY StoreInvFields
<1>2. Linked(World, gestures.opens) /\ Awaited(World)
  BY <1>1 DEF StoreInv, Sane
<1>3. /\ World.store = store /\ World.session = session /\ World \in Worlds
  BY StoreInvFields
<1>4. OnShow(World) /\ Held(World) /\ Followed(World)
  BY <1>2 DEF Linked
<1>5. AtRest => Places(World) = {}
  <2>1. AtRest => Afoot(World) = {}
    BY InFlightIs DEF AtRest
  <2> QED BY <2>1 DEF Afoot
<1>6. store.document # 0 /\ store.history.layers # <<>> => store.history.doc = store.document
  BY <1>3, <1>4 DEF OnShow
<1>7. AtRest => session = store.document
  BY <1>3, <1>4, <1>5 DEF Held
<1>8. AtRest /\ store.document # 0 =>
        store.history = [doc |-> store.document, layers |-> LayersOf(World, store.document)]
  BY <1>3, <1>4, <1>5 DEF Followed
<1>9. AtRest /\ store.document # 0 => store.pending = Unset
  BY <1>2, <1>3, <1>5 DEF Awaited
<1> QED BY <1>6, <1>7, <1>8, <1>9

\* The store's inductive invariant: every name on the status bar has a call that
\* will take it back, the crop and the brush are never both out, and, as long as no
\* two openings overlapped, every answer on its way belongs to the document it is
\* about to reach (openPath, adoptHistory and the jobs' methods of editor.ts).
THEOREM StoreIsSane == StoreSpec => []StoreInv
<1>1. StoreInit => StoreInv
  BY StoreStarts
<1>2. StoreInv /\ [StoreNext]_storeVars => StoreInv'
  BY StoreStepKeeps
<1> QED BY <1>1, <1>2, PTL DEF StoreSpec

\* The store keeps its shape, one canvas tool at a time is out, and a job's name
\* never stays on the status bar once nothing is in flight: each method's finally
\* takes it back whichever of its calls failed.
THEOREM StoreStaysInOrder == StoreSpec => []StoreInOrder
<1>1. StoreInv => StoreInOrder
  BY StoreInvInOrder
<1> QED BY <1>1, StoreIsSane, PTL

\* Unless two openings overlapped or a project came in under calls in flight, the
\* stack in the panel is never another photograph's: an answer that comes after
\* the document left the screen finds it gone, and a new document brings its own
\* history with it.
THEOREM PanelIsTheDocuments == StoreSpec => []StackShownIsTheDocuments
<1>1. StoreInv => StackShownIsTheDocuments
  BY StoreInvSays
<1> QED BY <1>1, StoreIsSane, PTL

\* With the same proviso, once every call has answered, what the main process would
\* save is the document on the canvas, whichever openings failed on the way.
THEOREM SavedIsWhatIsShown == StoreSpec => []SavedIsShown
<1>1. StoreInv => SavedIsShown
  BY StoreInvSays
<1> QED BY <1>1, StoreIsSane, PTL

\* With the same proviso, once every call has answered, the panel shows the engine's
\* stack for the document on the canvas and no move of its own is still pending,
\* whatever order the answers were asked for in.
THEOREM PanelIsTheEngines == StoreSpec => []PanelShowsTheEngine
<1>1. StoreInv => PanelShowsTheEngine
  BY StoreInvSays
<1> QED BY <1>1, StoreIsSane, PTL
==============================================================================
