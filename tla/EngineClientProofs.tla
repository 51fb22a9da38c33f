-------------------------- MODULE EngineClientProofs --------------------------
(***************************************************************************)
(* EngineClient proved for any requests, any frame lengths, any limits and *)
(* any chunking: its type invariant, that nobody waits for a child that is *)
(* not there, and that the parser keeps up with the stream.                *)
(*                                                                         *)
(* The strengthening is what the code takes for granted of the stream:     *)
(* until a buffer is dropped in the middle of a frame, #chunks begins where *)
(* a frame begins, the frames follow one another without a gap, and with   *)
(* none to come #need is back at a frame's fixed part.                     *)
(***************************************************************************)
EXTENDS EngineClient, SequenceTheorems, TLAPS

\* Before the 'spawn' event there is a child, and nothing has come from it.
Young ==
  /\ proc = "spawning" => child
  /\ proc \in {"none", "spawning"} => written = 0 /\ wire = <<>> /\ ~skewed

\* The frames on the wire follow one another from the start of the buffer.
Chained ==
  ~skewed =>
    /\ \A i \in 1..Len(wire) : wire[i].first = IF i = 1 THEN base ELSE End(wire[i - 1])
    /\ written = IF wire = <<>> THEN base ELSE End(wire[Len(wire)])
    /\ wire = <<>> => need = 8

IInv == TypeOK /\ Young /\ NobodyWaitsOnTheDead /\ Chained /\ ParserKeepsUp

-----------------------------------------------------------------------------
(* Lemmas.                                                                 *)

\* No, one more or one fewer stop() waiting is within the bound.
LEMMA StopsBounds ==
  /\ 0 \in 0..MaxStops
  /\ \A k \in 0..MaxStops : k < MaxStops => k + 1 \in 0..MaxStops
  /\ \A k \in 0..MaxStops : k > 0 => k - 1 \in 0..MaxStops
<1>1. MaxStops \in Nat
  BY BoundAssumption
<1> QED
  BY <1>1

\* After failAllPending every call is settled, and stays a call.
LEMMA FailAllSettles ==
  ASSUME NEW settled \in [Calls -> CallStates]
  PROVE  /\ FailAll(settled) \in [Calls -> CallStates]
         /\ \A c \in Calls : FailAll(settled)[c] # "waiting"
BY DEF FailAll, CallStates

\* Answers only ever take requests out of #pending.
LEMMA SettledShrinks ==
  ASSUME call \in [Calls -> CallStates], NEW n
  PROVE  /\ Settled(n) \in [Calls -> CallStates]
         /\ \A c \in Calls : Settled(n)[c] = "waiting" => call[c] = "waiting"
BY DEF Settled, CallStates

\* A frame has at least nine bytes, and its end is a position.
LEMMA EndOfFrame ==
  ASSUME NEW f \in Frames
  PROVE  End(f) \in Nat /\ End(f) >= f.first + 9
BY DEF End, Frames

\* Nothing is settled about a frame before its fixed part is there.
LEMMA EnoughIsEnough ==
  ASSUME NEW f \in Frames
  PROVE  Enough(f) \in Nat /\ Enough(f) >= 8
<1>1. f.first \in Nat /\ f.header \in Nat \ {0} /\ f.payload \in Nat
  BY DEF Frames
<1>2. End(f) - f.first = 8 + f.header + f.payload
  BY <1>1 DEF End
<1> QED
  BY <1>1, <1>2 DEF Enough

\* What the parser asks for is more than it has and no more than the frame at
\* the head of the stream brings, when that frame is neither whole nor
\* condemned.
LEMMA NeedIsRight ==
  ASSUME NEW rest \in Seq(Frames), rest # <<>>, NEW end \in Nat,
         end >= Head(rest).first, MaxHeader \in Nat, MaxPayload \in Nat,
         ~Whole(Head(rest), end), ~Condemned(Head(rest), end)
  PROVE  /\ end - Head(rest).first < NeedFor(rest, end)
         /\ NeedFor(rest, end) <= Enough(Head(rest))
<1> DEFINE f == Head(rest)
<1>1. f \in Frames
  OBVIOUS
<1>2. f.first \in Nat /\ f.header \in Nat \ {0} /\ f.payload \in Nat
  BY <1>1 DEF Frames
<1> HIDE DEF f
<1>3. /\ ~(HeaderFits(f) /\ PayloadFits(f) /\ End(f) <= end)
      /\ ~(end - f.first >= 8 /\ ~HeaderFits(f))
      /\ ~(end - f.first >= 8 + f.header /\ HeaderFits(f) /\ ~PayloadFits(f))
  BY DEF Whole, Condemned, f
<1>4. NeedFor(rest, end) = IF end - f.first < 8 THEN 8
                           ELSE IF end - f.first < 8 + f.header THEN 8 + f.header
                           ELSE End(f) - f.first
  BY DEF NeedFor, NeedInside, f
<1>5. Enough(f) = IF ~HeaderFits(f) THEN 8
                  ELSE IF ~PayloadFits(f) THEN 8 + f.header
                  ELSE End(f) - f.first
  BY DEF Enough
<1>6. End(f) = f.first + 8 + f.header + f.payload
  BY DEF End
<1>7. end >= f.first
  BY DEF f
<1>8. end - f.first < NeedFor(rest, end) /\ NeedFor(rest, end) <= Enough(f)
  <2> DEFINE gap == end - f.first  h == f.header  p == f.payload  whole == End(f) - f.first
             need1 == NeedFor(rest, end)  enough == Enough(f)  hf == HeaderFits(f)  pf == PayloadFits(f)
  <2>1. /\ gap \in Nat /\ h \in Nat /\ p \in Nat /\ whole = 8 + h + p
        /\ End(f) <= end <=> whole <= gap
    <3> DEFINE a == f.first  e == End(f)
    <3>1. /\ a \in Nat /\ h \in Nat /\ p \in Nat /\ e = a + 8 + h + p /\ a <= end
          /\ gap = end - a /\ whole = e - a
      BY <1>2, <1>6, <1>7
    <3> HIDE DEF a, e, gap, h, p, whole
    <3>2. gap \in Nat /\ whole = 8 + h + p
      BY <3>1
    <3>3. e <= end <=> whole <= gap
      BY <3>1
    <3> QED BY <3>1, <3>2, <3>3 DEF e
  <2>2. /\ ~(hf /\ pf /\ whole <= gap) /\ ~(gap >= 8 /\ ~hf)
        /\ ~(gap >= 8 + h /\ hf /\ ~pf)
    BY <1>3, <2>1
  <2>3. need1 = IF gap < 8 THEN 8 ELSE IF gap < 8 + h THEN 8 + h ELSE whole
    BY <1>4
  <2>4. enough = IF ~hf THEN 8 ELSE IF ~pf THEN 8 + h ELSE whole
    BY <1>5
  <2> HIDE DEF gap, h, p, whole, need1, enough, hf, pf
  <2>5. gap < need1 /\ need1 <= enough
    BY <2>1, <2>2, <2>3, <2>4
  <2> QED BY <2>5 DEF gap, need1, enough
<1> QED
  BY <1>8 DEF f

\* What it asks for is a number of bytes, at least a frame's fixed part.
LEMMA NeedIsEnough ==
  ASSUME NEW rest \in Seq(Frames), NEW end \in Nat
  PROVE  NeedFor(rest, end) \in Nat /\ NeedFor(rest, end) >= 8
<1>1. CASE rest = <<>>
  BY <1>1 DEF NeedFor
<1>2. CASE rest # <<>>
  <2>1. Head(rest) \in Frames
    BY <1>2
  <2>2. /\ Head(rest).first \in Nat /\ Head(rest).header \in Nat \ {0}
        /\ Head(rest).payload \in Nat
    BY <2>1 DEF Frames
  <2>3. End(Head(rest)) - Head(rest).first = 8 + Head(rest).header + Head(rest).payload
    BY <2>2 DEF End
  <2>4. NeedFor(rest, end) \in {8, 8 + Head(rest).header, End(Head(rest)) - Head(rest).first}
    BY DEF NeedFor, NeedInside
  <2> QED
    BY <2>2, <2>3, <2>4
<1> QED
  BY <1>1, <1>2

-----------------------------------------------------------------------------
(* The parser.                                                             *)

\* Once a byte has come the child is past its 'spawn' event.
LEMMA NotYoung ==
  ASSUME TypeOK, Young, NEW n \in 1..(written - got)
  PROVE  proc \notin {"none", "spawning"} /\ got + n \in Nat /\ got + n <= written
         /\ base <= got + n
<1>1. written \in Nat /\ got \in Nat /\ base \in Nat /\ base <= got
  BY DEF TypeOK
<1>2. n \in Nat /\ n >= 1 /\ n <= written - got
  BY <1>1
<1>3. written > 0
  BY <1>1, <1>2
<1> QED
  BY <1>1, <1>2, <1>3 DEF Young

\* The frames left after n were taken, and where they begin.
LEMMA RestOfWire ==
  ASSUME wire \in Seq(Frames), NEW n \in 0..Len(wire), NEW rest,
         rest = SubSeq(wire, n + 1, Len(wire))
  PROVE  /\ rest \in Seq(Frames) /\ Len(rest) = Len(wire) - n
         /\ \A k \in 1..(Len(wire) - n) : rest[k] = wire[k + n]
         /\ rest = <<>> <=> n = Len(wire)
         /\ n < Len(wire) => Head(rest) = wire[n + 1]
<1>1. Len(wire) \in Nat
  OBVIOUS
<1>2. /\ rest \in Seq(Frames) /\ Len(rest) = Len(wire) - n
      /\ \A k \in 1..(Len(wire) - n) : rest[k] = wire[k + n]
  BY <1>1
<1>3. rest = <<>> <=> n = Len(wire)
  <2>1. rest = <<>> <=> Len(rest) = 0
    BY <1>2, EmptySeq
  <2> QED
    BY <2>1, <1>1, <1>2
<1>4. ASSUME n < Len(wire) PROVE Head(rest) = wire[n + 1]
  <2>1. 1 \in 1..(Len(wire) - n) /\ rest # <<>>
    BY <1>1, <1>3, <1>4
  <2> QED
    BY <2>1, <1>2
<1> QED
  BY <1>2, <1>3, <1>4

\* #consume stops at a frame that is not all there.
LEMMA TakeStep ==
  ASSUME IInv, ~skewed, NEW n \in 1..(written - got), got' = got + n, written' = written,
         NEW i \in 0..Len(wire), Cut(i), Take(i)
  PROVE  IInv'
<1>1. /\ got' \in Nat /\ got' <= written /\ base <= got'
      /\ proc \notin {"none", "spawning"}
  BY NotYoung DEF IInv
<1>2. /\ wire \in Seq(Frames) /\ base \in Nat /\ written \in Nat /\ Len(wire) \in Nat
      /\ call \in [Calls -> CallStates]
  BY DEF IInv, TypeOK
<1>3. /\ call' = Settled(i) /\ base' = IF i = 0 THEN base ELSE End(wire[i])
      /\ wire' = SubSeq(wire, i + 1, Len(wire)) /\ need' = NeedFor(wire', got')
      /\ UNCHANGED <<child, state, stopping, stops, proc, stdin, inbox, working, skewed>>
  BY DEF Take, clientVars, childVars
<1>4. /\ wire' \in Seq(Frames) /\ Len(wire') = Len(wire) - i
      /\ \A k \in 1..(Len(wire) - i) : wire'[k] = wire[k + i]
      /\ wire' = <<>> <=> i = Len(wire)
      /\ i < Len(wire) => Head(wire') = wire[i + 1]
  <2> DEFINE rest == wire'
  <2>1. wire \in Seq(Frames) /\ rest = SubSeq(wire, i + 1, Len(wire))
    BY <1>2, <1>3
  <2> HIDE DEF rest
  <2>2. /\ rest \in Seq(Frames) /\ Len(rest) = Len(wire) - i
        /\ \A k \in 1..(Len(wire) - i) : rest[k] = wire[k + i]
        /\ rest = <<>> <=> i = Len(wire)
        /\ i < Len(wire) => Head(rest) = wire[i + 1]
    BY <2>1, RestOfWire
  <2> QED BY <2>2 DEF rest
<1>5. base' \in Nat /\ base' <= got'
  <2>1. CASE i = 0
    BY <2>1, <1>1, <1>2, <1>3
  <2>2. CASE i # 0
    <3>1. i \in 1..i /\ i \in 1..Len(wire) /\ wire[i] \in Frames
      BY <2>2, <1>2
    <3>2. Whole(wire[i], got')
      BY <3>1 DEF Cut
    <3> QED
      BY <3>1, <3>2, <2>2, <1>3, EndOfFrame DEF Whole
  <2> QED
    BY <2>1, <2>2
<1>6. TypeOK'
  <2>1. need' \in Nat /\ need' >= 8
    BY <1>1, <1>3, <1>4, NeedIsEnough
  <2>2. call' \in [Calls -> CallStates]
    BY <1>2, <1>3, SettledShrinks
  <2> QED
    BY <2>1, <2>2, <1>1, <1>3, <1>4, <1>5 DEF IInv, TypeOK
<1>7. Young'
  BY <1>1, <1>3 DEF Young
<1>8. NobodyWaitsOnTheDead'
  <2>1. \A c \in Calls : call'[c] = "waiting" => call[c] = "waiting"
    BY <1>2, <1>3, SettledShrinks
  <2> QED
    BY <2>1, <1>3 DEF IInv, NobodyWaitsOnTheDead, Pending
<1>9. Chained'
  <2>1. /\ \A k \in 1..Len(wire) : wire[k].first = IF k = 1 THEN base ELSE End(wire[k - 1])
        /\ written = IF wire = <<>> THEN base ELSE End(wire[Len(wire)])
    BY DEF IInv, Chained
  <2>2. ASSUME NEW k \in 1..Len(wire')
        PROVE  wire'[k].first = IF k = 1 THEN base' ELSE End(wire'[k - 1])
    <3>1. k \in 1..(Len(wire) - i) /\ k + i \in 1..Len(wire)
      BY <1>2, <1>4
    <3>2. wire'[k] = wire[k + i]
      BY <3>1, <1>4
    <3>3. wire[k + i].first = IF k + i = 1 THEN base ELSE End(wire[k + i - 1])
      BY <3>1, <2>1
    <3>4. CASE k = 1
      BY <3>2, <3>3, <3>4, <1>3
    <3>5. CASE k # 1
      <4>1. k - 1 \in 1..(Len(wire) - i) /\ k + i # 1 /\ (k - 1) + i = k + i - 1
        BY <3>1, <3>5, <1>2
      <4>2. wire'[k - 1] = wire[k + i - 1]
        BY <4>1, <1>4
      <4> QED
        BY <3>2, <3>3, <3>5, <4>1, <4>2
    <3> QED
      BY <3>4, <3>5
  <2>3. written = IF wire' = <<>> THEN base' ELSE End(wire'[Len(wire')])
    <3>1. CASE i = Len(wire)
      BY <3>1, <2>1, <1>2, <1>3, <1>4
    <3>2. CASE i # Len(wire)
      <4>1. Len(wire) - i \in 1..(Len(wire) - i) /\ (Len(wire) - i) + i = Len(wire)
        BY <3>2, <1>2
      <4>2. wire'[Len(wire')] = wire[Len(wire)]
        BY <4>1, <1>4
      <4> QED
        BY <3>2, <4>2, <2>1, <1>2, <1>4
    <3> QED
      BY <3>1, <3>2
  <2>4. wire' = <<>> => need' = 8
    BY <1>3 DEF NeedFor
  <2> QED
    BY <2>2, <2>3, <2>4 DEF Chained
<1>10. ParserKeepsUp'
  <2> SUFFICES ASSUME wire' # <<>>
               PROVE  got' - base' < need' /\ need' <= Enough(Head(wire'))
    BY DEF ParserKeepsUp
  <2>1. i < Len(wire) /\ 1 \in 1..Len(wire')
    BY <1>2, <1>4
  <2>2. Head(wire').first = base'
    <3>1. wire'[1].first = base'
      BY <2>1, <1>3, <1>9 DEF Chained
    <3> QED
      BY <3>1, <1>4
  <2>3. ~Whole(Head(wire'), got') /\ ~Condemned(Head(wire'), got')
    BY <2>1, <1>4 DEF Cut, Take
  <2> QED
    BY <2>2, <2>3, <1>1, <1>3, <1>4, <1>5, NeedIsRight, BoundAssumption
<1> QED
  BY <1>6, <1>7, <1>8, <1>9, <1>10 DEF IInv

\* #consume stops at a frame it cannot trust.
LEMMA AbortStep ==
  ASSUME IInv, ~skewed, NEW n \in 1..(written - got), got' = got + n, written' = written,
         NEW i \in 0..Len(wire), Cut(i), Abort(i)
  PROVE  IInv'
<1>1. /\ got' \in Nat /\ got' <= written /\ base <= got'
      /\ proc \notin {"none", "spawning"}
  BY NotYoung DEF IInv
<1>2. /\ call' = FailAll(Settled(i)) /\ child' = FALSE /\ state' = "failed"
      /\ base' = got' /\ need' = 8 /\ wire' = <<>> /\ skewed'
      /\ UNCHANGED <<stopping, stops>>
  BY DEF Abort
<1>3. /\ proc' \in ProcStates /\ proc' \notin {"none", "spawning"}
      /\ stdin' \in BOOLEAN /\ inbox' \in Seq(Calls) /\ working' \subseteq Calls
  <2>1. \/ proc' = "gone" /\ stdin' = FALSE /\ inbox' = <<>> /\ working' = {}
        \/ UNCHANGED <<proc, stdin, inbox, working>>
    BY DEF Abort, Kill, Perish, childVars
  <2>2. /\ proc \in ProcStates /\ stdin \in BOOLEAN
        /\ inbox \in Seq(Calls) /\ working \subseteq Calls
    BY DEF IInv, TypeOK
  <2>3. <<>> \in Seq(Calls) /\ "gone" \in ProcStates
    BY DEF ProcStates
  <2> QED
    BY <2>1, <2>2, <2>3, <1>1
<1>4. call' \in [Calls -> CallStates] /\ \A c \in Calls : call'[c] # "waiting"
  BY <1>2, SettledShrinks, FailAllSettles DEF IInv, TypeOK
<1>5. TypeOK'
  <2>1. child' \in BOOLEAN /\ state' \in States /\ skewed' \in BOOLEAN
    BY <1>2 DEF Abort, States
  <2>2. stopping' \in BOOLEAN /\ stops' \in 0..MaxStops
    BY <1>2 DEF IInv, TypeOK
  <2>3. wire' \in Seq(Frames) /\ base' = got' /\ need' \in Nat /\ need' >= 8
    BY <1>2
  <2>4. written' \in Nat
    BY DEF IInv, TypeOK
  <2> QED
    BY <2>1, <2>2, <2>3, <2>4, <1>1, <1>3, <1>4 DEF TypeOK
<1>6. Young'
  BY <1>3 DEF Young
<1>7. NobodyWaitsOnTheDead'
  <2>1. Pending' = {}
    BY <1>4 DEF Pending
  <2>2. child' = FALSE /\ (state' \in {"starting", "ready"}) = FALSE
    BY <1>2
  <2> QED
    BY ONLY <2>1, <2>2 DEF NobodyWaitsOnTheDead
<1> QED
  BY <1>2, <1>5, <1>6, <1>7 DEF IInv, Chained, ParserKeepsUp

\* A chunk arrives.
LEMMA ConsumeStep ==
  ASSUME IInv, NEW n \in 1..(written - got), Consume(n)
  PROVE  IInv'
<1>1. ~skewed /\ got' = got + n /\ written' = written
  BY DEF Consume
<1>2. CASE got' - base < need
  <2>1. UNCHANGED <<clientVars, call, childVars, wire, base, need, skewed>>
    BY <1>2 DEF Consume
  <2>2. got' \in Nat /\ got' <= written /\ base <= got'
    BY <1>1, NotYoung DEF IInv
  <2>3. TypeOK'
    BY <1>1, <2>1, <2>2 DEF IInv, TypeOK, clientVars, childVars
  <2>4. Young' /\ NobodyWaitsOnTheDead' /\ Chained'
    BY <1>1, <2>1 DEF IInv, Young, NobodyWaitsOnTheDead, Chained, Pending, clientVars, childVars
  <2>5. ParserKeepsUp'
    BY <1>2, <1>1, <2>1 DEF IInv, ParserKeepsUp
  <2> QED
    BY <2>3, <2>4, <2>5 DEF IInv
<1>3. CASE ~(got' - base < need)
  <2>1. PICK i \in 0..Len(wire) : Cut(i) /\ (Take(i) \/ Abort(i))
    BY <1>3 DEF Consume
  <2> QED
    BY <2>1, <1>1, TakeStep, AbortStep
<1> QED
  BY <1>2, <1>3

-----------------------------------------------------------------------------
(* The invariant.                                                          *)

LEMMA Initially == Init => IInv
<1> SUFFICES ASSUME Init PROVE IInv
  OBVIOUS
<1>1. TypeOK
  <2>1. child \in BOOLEAN /\ state \in States /\ stopping \in BOOLEAN /\ stops \in 0..MaxStops
    <3>1. 0 \in 0..MaxStops
      BY StopsBounds
    <3> QED
      BY <3>1 DEF Init, States
  <2>2. call \in [Calls -> CallStates]
    BY DEF Init, CallStates
  <2>3. /\ proc \in ProcStates /\ stdin \in BOOLEAN
        /\ inbox \in Seq(Calls) /\ working \subseteq Calls
    BY EmptySeq DEF Init, ProcStates
  <2>4. /\ wire \in Seq(Frames) /\ written \in Nat /\ base \in Nat /\ got \in Nat
        /\ need \in Nat /\ base <= got /\ got <= written /\ need >= 8 /\ skewed \in BOOLEAN
    <3>1. wire \in Seq(Frames)
      BY EmptySeq DEF Init
    <3>2. skewed \in BOOLEAN
      BY DEF Init
    <3>3. written = 0 /\ base = 0 /\ got = 0 /\ need = 8
      BY DEF Init
    <3>4. /\ written \in Nat /\ base \in Nat /\ got \in Nat /\ need \in Nat
          /\ base <= got /\ got <= written /\ need >= 8
      BY ONLY <3>3
    <3> QED
      BY <3>1, <3>2, <3>4
  <2> QED
    BY <2>1, <2>2, <2>3, <2>4 DEF TypeOK
<1>2. Young
  BY DEF Init, Young
<1>3. NobodyWaitsOnTheDead
  <2>1. Pending = {}
    BY DEF Init, Pending
  <2>2. child = FALSE /\ (state \in {"starting", "ready"}) = FALSE
    BY DEF Init
  <2> QED
    BY ONLY <2>1, <2>2 DEF NobodyWaitsOnTheDead
<1>4. Chained /\ ParserKeepsUp
  BY DEF Init, Chained, ParserKeepsUp
<1> QED
  BY <1>1, <1>2, <1>3, <1>4 DEF IInv

\* The steps that leave the stream alone and take nobody's call.
LEMMA Preserved ==
  ASSUME IInv, TypeOK', NobodyWaitsOnTheDead', Young', UNCHANGED streamVars
  PROVE  IInv'
BY DEF IInv, Chained, ParserKeepsUp, streamVars

LEMMA StartStep == ASSUME IInv, Start PROVE IInv'
<1>1. TypeOK'
  BY DEF IInv, TypeOK, Start, States, ProcStates, streamVars
<1>2. NobodyWaitsOnTheDead'
  <2>1. child' = TRUE /\ (state' \in {"starting", "ready"}) = TRUE
    BY DEF Start
  <2> QED
    BY ONLY <2>1 DEF NobodyWaitsOnTheDead
<1>3. Young'
  BY DEF IInv, Young, Start, streamVars
<1> QED
  BY <1>1, <1>2, <1>3, Preserved DEF Start

LEMMA SpawnedStep == ASSUME IInv, Spawned PROVE IInv'
<1>1. TypeOK'
  BY DEF IInv, TypeOK, Spawned, States, ProcStates, streamVars
<1>2. NobodyWaitsOnTheDead'
  <2>1. child' = TRUE /\ (state' \in {"starting", "ready"}) = TRUE
    BY DEF IInv, TypeOK, Young, Spawned
  <2> QED
    BY ONLY <2>1 DEF NobodyWaitsOnTheDead
<1>3. Young'
  BY DEF Young, Spawned
<1> QED
  BY <1>1, <1>2, <1>3, Preserved DEF Spawned

LEMMA SpawnErrorStep == ASSUME IInv, SpawnError PROVE IInv'
<1>1. call' \in [Calls -> CallStates] /\ \A c \in Calls : call'[c] # "waiting"
  BY FailAllSettles DEF IInv, TypeOK, SpawnError
<1>2. TypeOK'
  <2>1. child' \in BOOLEAN /\ state' \in States /\ UNCHANGED <<stopping, stops>>
    BY DEF SpawnError, States
  <2>2. /\ proc' \in ProcStates /\ stdin' \in BOOLEAN
        /\ inbox' \in Seq(Calls) /\ working' \subseteq Calls
    BY EmptySeq DEF IInv, TypeOK, SpawnError, ProcStates
  <2>3. UNCHANGED streamVars
    BY DEF SpawnError
  <2> QED
    BY <2>1, <2>2, <2>3, <1>1 DEF IInv, TypeOK, streamVars
<1>3. NobodyWaitsOnTheDead'
  <2>1. Pending' = {}
    BY <1>1 DEF Pending
  <2>2. child' = FALSE /\ (state' \in {"starting", "ready"}) = FALSE
    BY DEF SpawnError
  <2> QED
    BY ONLY <2>1, <2>2 DEF NobodyWaitsOnTheDead
<1>4. Young'
  BY DEF Young, SpawnError
<1> QED
  BY <1>2, <1>3, <1>4, Preserved DEF SpawnError

LEMMA ExitedStep == ASSUME IInv, Exited PROVE IInv'
<1>1. call' \in [Calls -> CallStates] /\ \A c \in Calls : call'[c] # "waiting"
  BY FailAllSettles DEF IInv, TypeOK, Exited
<1>2. /\ got' = got /\ base' = got /\ need' = 8 /\ written' = written
      /\ skewed' = (skewed \/ base # got)
      /\ wire' = IF base = got THEN wire ELSE <<>>
  BY DEF Exited, DropBuffer
<1>3. TypeOK'
  <2>1. wire' \in Seq(Frames) /\ skewed' \in BOOLEAN
    BY <1>2 DEF IInv, TypeOK
  <2>2. child' \in BOOLEAN /\ state' \in States /\ stopping' \in BOOLEAN /\ stops' \in 0..MaxStops
    <3>1. state' \in {"stopped", "failed"}
      BY DEF Exited
    <3>2. stops' = 0 /\ stopping' = FALSE /\ child' = FALSE
      BY DEF Exited
    <3>3. 0 \in 0..MaxStops
      BY StopsBounds
    <3> QED
      BY <3>1, <3>2, <3>3 DEF States
  <2>3. proc' \in ProcStates /\ UNCHANGED <<stdin, inbox, working>>
    BY DEF Exited, ProcStates
  <2> QED
    BY <2>1, <2>2, <2>3, <1>1, <1>2 DEF IInv, TypeOK
<1>4. NobodyWaitsOnTheDead'
  <2>1. Pending' = {}
    BY <1>1 DEF Pending
  <2>2. child' = FALSE /\ (state' \in {"starting", "ready"}) = FALSE
    BY DEF Exited
  <2> QED
    BY ONLY <2>1, <2>2 DEF NobodyWaitsOnTheDead
<1>5. Young'
  BY DEF Young, Exited
<1>6. Chained'
  BY <1>2 DEF IInv, Chained
<1>7. ParserKeepsUp'
  <2> SUFFICES ASSUME ~skewed', wire' # <<>>
               PROVE  got' - base' < need' /\ need' <= Enough(Head(wire'))
    BY DEF ParserKeepsUp
  <2>1. wire' = wire /\ need' = 8 /\ got' - base' = 0
    BY <1>2 DEF IInv, TypeOK
  <2>2. Head(wire) \in Frames
    BY <2>1 DEF IInv, TypeOK
  <2>3. Enough(Head(wire)) >= 8
    BY <2>2, EnoughIsEnough
  <2> QED
    BY <2>1, <2>3
<1> QED
  BY <1>3, <1>4, <1>5, <1>6, <1>7 DEF IInv

LEMMA StopStep == ASSUME IInv, Stop \/ StopNothing PROVE IInv'
<1>1. /\ UNCHANGED <<child, call, proc, inbox, working>> /\ UNCHANGED streamVars
      /\ stopping' \in BOOLEAN /\ stops' \in 0..MaxStops /\ stdin' \in BOOLEAN
  <2>1. stops \in 0..MaxStops /\ stopping \in BOOLEAN /\ stdin \in BOOLEAN
    BY DEF IInv, TypeOK
  <2>2. CASE Stop
    <3>1. stops < MaxStops /\ stops' = stops + 1
      BY <2>2 DEF Stop
    <3>2. stops' \in 0..MaxStops
      BY <2>1, <3>1, StopsBounds
    <3> QED
      BY <2>2, <3>2 DEF Stop
  <2>3. CASE StopNothing
    BY <2>1, <2>3 DEF StopNothing, childVars
  <2> QED
    BY <2>2, <2>3
<1>2. state' = state \/ (~child /\ state' = "stopped")
  BY DEF Stop, StopNothing
<1>3. TypeOK'
  <2>1. state' \in States
    BY <1>2 DEF IInv, TypeOK, States
  <2> QED
    BY <1>1, <2>1 DEF IInv, TypeOK, streamVars
<1>4. NobodyWaitsOnTheDead'
  <2>1. Pending' = Pending
    BY <1>1 DEF Pending
  <2>2. child' = (state' \in {"starting", "ready"})
    <3>1. CASE state' = state
      BY <3>1, <1>1 DEF IInv, NobodyWaitsOnTheDead
    <3>2. CASE ~child /\ state' = "stopped"
      <4>1. child' = FALSE /\ (state' \in {"starting", "ready"}) = FALSE
        BY <3>2, <1>1 DEF IInv, TypeOK
      <4> QED
        BY ONLY <4>1
    <3> QED
      BY <3>1, <3>2, <1>2
  <2> QED
    BY <2>1, <2>2, <1>1 DEF IInv, NobodyWaitsOnTheDead
<1>5. Young'
  BY <1>1 DEF IInv, Young, streamVars
<1> QED
  BY <1>1, <1>3, <1>4, <1>5, Preserved

\* Steps that leave the client and its calls as they are, or only settle calls.
LEMMA ClientUnmoved ==
  ASSUME IInv, UNCHANGED <<child, state>>,
         \A c \in Calls : call'[c] = "waiting" => call[c] = "waiting"
  PROVE  NobodyWaitsOnTheDead'
<1>1. Pending' \subseteq Pending
  BY DEF Pending
<1> QED
  BY <1>1 DEF IInv, NobodyWaitsOnTheDead

LEMMA StopTimeoutStep == ASSUME IInv, StopTimeout PROVE IInv'
<1>1. /\ UNCHANGED <<child, state, call>> /\ UNCHANGED streamVars
      /\ stopping' = FALSE /\ stops' = stops - 1 /\ stops > 0 /\ proc # "spawning"
  BY DEF StopTimeout
<1>2. /\ proc' \in ProcStates /\ stdin' \in BOOLEAN
      /\ inbox' \in Seq(Calls) /\ working' \subseteq Calls
      /\ proc' = proc \/ proc' = "gone"
  <2>1. \/ proc' = "gone" /\ stdin' = FALSE /\ inbox' = <<>> /\ working' = {}
        \/ UNCHANGED <<proc, stdin, inbox, working>>
    BY DEF StopTimeout, Kill, Perish, childVars
  <2>2. /\ proc \in ProcStates /\ stdin \in BOOLEAN
        /\ inbox \in Seq(Calls) /\ working \subseteq Calls
    BY DEF IInv, TypeOK
  <2>3. <<>> \in Seq(Calls) /\ "gone" \in ProcStates
    BY EmptySeq DEF ProcStates
  <2> QED
    BY <2>1, <2>2, <2>3
<1>3. TypeOK'
  <2>1. stops \in 0..MaxStops
    BY DEF IInv, TypeOK
  <2>2. stops' \in 0..MaxStops
    BY <1>1, <2>1, StopsBounds
  <2>3. child' \in BOOLEAN /\ state' \in States /\ call' \in [Calls -> CallStates]
    BY <1>1 DEF IInv, TypeOK
  <2> QED
    BY <2>2, <2>3, <1>1, <1>2 DEF IInv, TypeOK, streamVars
<1>4. NobodyWaitsOnTheDead'
  BY <1>1, ClientUnmoved
<1>5. Young'
  BY <1>1, <1>2 DEF IInv, Young, streamVars
<1> QED
  BY <1>1, <1>3, <1>4, <1>5, Preserved

LEMMA RequestStep == ASSUME IInv, NEW c \in Calls, Request(c) PROVE IInv'
<1>1. UNCHANGED clientVars /\ UNCHANGED <<proc, stdin, working>> /\ UNCHANGED streamVars
  BY DEF Request
<1>2. /\ call' \in [Calls -> CallStates]
      /\ ~child => \A d \in Calls : call'[d] = "waiting" => call[d] = "waiting"
  BY DEF IInv, TypeOK, Request, CallStates
<1>3. inbox' \in Seq(Calls)
  <2>1. inbox \in Seq(Calls)
    BY DEF IInv, TypeOK
  <2>2. inbox' = inbox \/ inbox' = Append(inbox, c)
    BY DEF Request
  <2> QED
    BY <2>1, <2>2
<1>4. TypeOK'
  BY <1>1, <1>2, <1>3 DEF IInv, TypeOK, clientVars, streamVars
<1>5. NobodyWaitsOnTheDead'
  <2>1. CASE child
    BY <2>1, <1>1 DEF IInv, NobodyWaitsOnTheDead, clientVars
  <2>2. CASE ~child
    BY <2>2, <1>1, <1>2, ClientUnmoved DEF clientVars
  <2> QED
    BY <2>1, <2>2
<1>6. Young'
  BY <1>1 DEF IInv, Young, clientVars, streamVars
<1> QED
  BY <1>1, <1>4, <1>5, <1>6, Preserved

LEMMA TimeoutStep == ASSUME IInv, NEW c \in Calls, Timeout(c) PROVE IInv'
<1>1. UNCHANGED clientVars /\ UNCHANGED childVars /\ UNCHANGED streamVars
  BY DEF Timeout
<1>2. /\ call' \in [Calls -> CallStates]
      /\ \A d \in Calls : call'[d] = "waiting" => call[d] = "waiting"
  BY DEF IInv, TypeOK, Timeout, CallStates
<1>3. TypeOK'
  BY <1>1, <1>2 DEF IInv, TypeOK, clientVars, childVars, streamVars
<1>4. NobodyWaitsOnTheDead'
  BY <1>1, <1>2, ClientUnmoved DEF clientVars
<1>5. Young'
  BY <1>1 DEF IInv, Young, clientVars, childVars, streamVars
<1> QED
  BY <1>1, <1>3, <1>4, <1>5, Preserved

LEMMA RubbishStep == ASSUME IInv, ConsumeRubbish PROVE IInv'
<1>1. /\ call' = FailAll(call) /\ child' = FALSE /\ state' = "failed"
      /\ UNCHANGED <<stopping, stops>> /\ UNCHANGED streamVars /\ skewed
  BY DEF ConsumeRubbish
<1>2. call' \in [Calls -> CallStates] /\ \A c \in Calls : call'[c] # "waiting"
  BY <1>1, FailAllSettles DEF IInv, TypeOK
<1>3. /\ proc' \in ProcStates /\ stdin' \in BOOLEAN
      /\ inbox' \in Seq(Calls) /\ working' \subseteq Calls
      /\ proc' = proc \/ proc' = "gone"
  <2>1. \/ proc' = "gone" /\ stdin' = FALSE /\ inbox' = <<>> /\ working' = {}
        \/ UNCHANGED <<proc, stdin, inbox, working>>
    BY DEF ConsumeRubbish, Kill, Perish, childVars
  <2>2. /\ proc \in ProcStates /\ stdin \in BOOLEAN
        /\ inbox \in Seq(Calls) /\ working \subseteq Calls
    BY DEF IInv, TypeOK
  <2>3. <<>> \in Seq(Calls) /\ "gone" \in ProcStates
    BY EmptySeq DEF ProcStates
  <2> QED
    BY <2>1, <2>2, <2>3
<1>4. TypeOK'
  <2>1. child' \in BOOLEAN /\ state' \in States
    BY <1>1 DEF States
  <2> QED
    BY <2>1, <1>1, <1>2, <1>3 DEF IInv, TypeOK, streamVars
<1>5. NobodyWaitsOnTheDead'
  <2>1. Pending' = {}
    BY <1>2 DEF Pending
  <2>2. child' = FALSE /\ (state' \in {"starting", "ready"}) = FALSE
    BY <1>1
  <2> QED
    BY ONLY <2>1, <2>2 DEF NobodyWaitsOnTheDead
<1>6. Young'
  BY <1>1, <1>3 DEF IInv, Young, streamVars
<1> QED
  BY <1>1, <1>4, <1>5, <1>6, Preserved

LEMMA AcceptStep == ASSUME IInv, Accept PROVE IInv'
<1>1. /\ UNCHANGED clientVars /\ UNCHANGED <<call, proc, stdin>> /\ UNCHANGED streamVars
      /\ inbox # <<>> /\ inbox' = Tail(inbox) /\ working' = working \cup {Head(inbox)}
  BY DEF Accept
<1>2. inbox' \in Seq(Calls) /\ working' \subseteq Calls
  <2>1. inbox \in Seq(Calls) /\ working \subseteq Calls
    BY DEF IInv, TypeOK
  <2>2. Head(inbox) \in Calls /\ Tail(inbox) \in Seq(Calls)
    BY <1>1, <2>1
  <2> QED
    BY <1>1, <2>1, <2>2
<1>3. TypeOK'
  BY <1>1, <1>2 DEF IInv, TypeOK, clientVars, streamVars
<1>4. NobodyWaitsOnTheDead'
  BY <1>1, ClientUnmoved DEF clientVars
<1>5. Young'
  BY <1>1 DEF IInv, Young, clientVars, streamVars
<1> QED
  BY <1>1, <1>3, <1>4, <1>5, Preserved

\* A frame appended leaves the buffer, the head of the stream and the chain as
\* they are.
LEMMA WriteStep ==
  ASSUME IInv, NEW id \in Calls \cup {Event}, Write(id), proc = "up",
         UNCHANGED clientVars, UNCHANGED <<call, proc, stdin, inbox>>,
         working' \subseteq Calls
  PROVE  IInv'
<1>1. PICK size \in Sizes :
        /\ wire' = Append(wire, [id |-> id, first |-> written,
                                 header |-> size[1], payload |-> size[2]])
        /\ written' = written + 8 + size[1] + size[2]
  BY DEF Write
<1>2. UNCHANGED <<base, got, need, skewed>>
  BY DEF Write
<1> DEFINE f == [id |-> id, first |-> written, header |-> size[1], payload |-> size[2]]
<1>3. /\ wire \in Seq(Frames) /\ written \in Nat /\ Len(wire) \in Nat
      /\ base \in Nat /\ got \in Nat
  BY DEF IInv, TypeOK
<1>4. size[1] \in Nat \ {0} /\ size[2] \in Nat
  BY SizesAssumption
<1>5. f \in Frames /\ f.first = written /\ End(f) = written'
  BY <1>1, <1>3, <1>4 DEF Frames, End
<1> HIDE DEF f
<1>6. /\ wire' = Append(wire, f) /\ wire' \in Seq(Frames) /\ Len(wire') = Len(wire) + 1
      /\ \A k \in 1..Len(wire) : wire'[k] = wire[k]
      /\ wire'[Len(wire) + 1] = f /\ wire' # <<>>
  BY <1>1, <1>3, <1>5 DEF f
<1>7. TypeOK'
  <2>1. written' \in Nat /\ written <= written'
    BY <1>1, <1>3, <1>4
  <2>2. got' <= written'
    BY <2>1, <1>2, <1>3 DEF IInv, TypeOK
  <2> QED
    BY <2>1, <2>2, <1>2, <1>6 DEF IInv, TypeOK, clientVars
<1>8. Young' /\ NobodyWaitsOnTheDead'
  BY ClientUnmoved DEF Young, clientVars
<1>9. Chained'
  <2> SUFFICES ASSUME ~skewed
               PROVE  /\ \A k \in 1..Len(wire') :
                           wire'[k].first = IF k = 1 THEN base ELSE End(wire'[k - 1])
                      /\ written' = End(wire'[Len(wire')])
    BY <1>2, <1>6 DEF Chained
  <2>1. /\ \A k \in 1..Len(wire) : wire[k].first = IF k = 1 THEN base ELSE End(wire[k - 1])
        /\ written = IF wire = <<>> THEN base ELSE End(wire[Len(wire)])
    BY DEF IInv, Chained
  <2>2. written' = End(wire'[Len(wire')])
    BY <1>5, <1>6
  <2>3. ASSUME NEW k \in 1..Len(wire')
        PROVE  wire'[k].first = IF k = 1 THEN base ELSE End(wire'[k - 1])
    <3>0. k = Len(wire) + 1 \/ k \in 1..Len(wire)
      BY <1>3, <1>6
    <3>1. CASE k \in 1..Len(wire)
      <4>1. wire'[k] = wire[k] /\ (k = 1 \/ wire'[k - 1] = wire[k - 1])
        BY <3>1, <1>3, <1>6
      <4> QED
        BY <3>1, <4>1, <2>1
    <3>2. CASE k = Len(wire) + 1
      <4>1. wire'[k].first = written
        BY <3>2, <1>5, <1>6
      <4>2. CASE wire = <<>>
        BY <4>1, <4>2, <3>2, <2>1
      <4>3. CASE wire # <<>>
        <5>1. Len(wire) # 0
          BY <4>3, <1>3, EmptySeq
        <5>2. k # 1 /\ k - 1 = Len(wire) /\ Len(wire) \in 1..Len(wire)
          BY <5>1, <3>2, <1>3
        <5> QED
          BY <5>2, <4>1, <4>3, <1>6, <2>1
      <4> QED
        BY <4>2, <4>3
    <3> QED
      BY <3>0, <3>1, <3>2
  <2> QED
    BY <2>2, <2>3
<1>10. ParserKeepsUp'
  <2> SUFFICES ASSUME ~skewed
               PROVE  got - base < need /\ need <= Enough(Head(wire'))
    BY <1>2 DEF ParserKeepsUp
  <2>1. CASE wire # <<>>
    <3>1. Head(wire') = Head(wire)
      BY <2>1, <1>3, <1>6
    <3> QED
      BY <2>1, <3>1 DEF IInv, ParserKeepsUp
  <2>2. CASE wire = <<>>
    <3>1. written = base /\ need = 8
      BY <2>2 DEF IInv, Chained
    <3>2. got = base
      BY <3>1, <1>3 DEF IInv, TypeOK
    <3>3. Head(wire') = f
      BY <2>2, <1>3, <1>6
    <3>4. Enough(f) >= 8
      BY <1>5, EnoughIsEnough
    <3> QED
      BY <3>1, <3>2, <3>3, <3>4, <1>3
  <2> QED
    BY <2>1, <2>2
<1> QED
  BY <1>7, <1>8, <1>9, <1>10 DEF IInv

LEMMA AnswerStep == ASSUME IInv, NEW c \in Calls, Answer(c) PROVE IInv'
<1>1. working' \subseteq Calls
  BY DEF IInv, TypeOK, Answer
<1>2. /\ c \in Calls \cup {Event} /\ Write(c) /\ proc = "up"
      /\ UNCHANGED clientVars /\ UNCHANGED <<call, proc, stdin, inbox>>
  BY DEF Answer
<1> QED
  BY <1>1, <1>2, WriteStep

LEMMA EmitStep == ASSUME IInv, Emit PROVE IInv'
<1>1. working' \subseteq Calls
  BY DEF IInv, TypeOK, Emit, childVars
<1>2. /\ Event \in Calls \cup {Event} /\ Write(Event) /\ proc = "up"
      /\ UNCHANGED clientVars /\ UNCHANGED <<call, proc, stdin, inbox>>
  BY DEF Emit, childVars
<1> QED
  BY <1>1, <1>2, WriteStep

LEMMA GoneStep == ASSUME IInv, Leave \/ Die PROVE IInv'
<1>1. /\ UNCHANGED clientVars /\ call' = call /\ UNCHANGED streamVars /\ proc' = "gone"
  BY DEF Leave, Die, Perish
<1>2. stdin' \in BOOLEAN /\ inbox' \in Seq(Calls) /\ working' \subseteq Calls
  <2>1. stdin \in BOOLEAN /\ inbox \in Seq(Calls) /\ working \subseteq Calls
    BY DEF IInv, TypeOK
  <2>2. CASE Leave
    BY <2>1, <2>2 DEF Leave
  <2>3. CASE Die
    BY <2>3, EmptySeq DEF Die, Perish
  <2> QED
    BY <2>2, <2>3
<1>3. TypeOK'
  <2>1. proc' \in ProcStates
    BY <1>1 DEF ProcStates
  <2> QED
    BY <2>1, <1>1, <1>2 DEF IInv, TypeOK, clientVars, streamVars
<1>4. NobodyWaitsOnTheDead'
  BY <1>1, ClientUnmoved DEF clientVars
<1>5. Young'
  BY <1>1 DEF Young
<1> QED
  BY <1>1, <1>3, <1>4, <1>5, Preserved

LEMMA StutterStep == ASSUME IInv, UNCHANGED vars PROVE IInv'
BY DEF IInv, TypeOK, Young, NobodyWaitsOnTheDead, Pending, Chained, ParserKeepsUp, vars

LEMMA Inductive == IInv /\ [Next]_vars => IInv'
<1> SUFFICES ASSUME IInv, [Next]_vars PROVE IInv'
  OBVIOUS
<1>1. CASE Start
  BY <1>1, StartStep
<1>2. CASE Stop \/ StopNothing
  BY <1>2, StopStep
<1>3. CASE StopTimeout
  BY <1>3, StopTimeoutStep
<1>4. CASE \E c \in Calls : Request(c) \/ Timeout(c)
  BY <1>4, RequestStep, TimeoutStep
<1>5. CASE Delivery
  BY <1>5, SpawnedStep, SpawnErrorStep, ExitedStep, ConsumeStep DEF Delivery
<1>6. CASE ConsumeRubbish
  BY <1>6, RubbishStep
<1>7. CASE ChildStep
  BY <1>7, AcceptStep, AnswerStep, GoneStep DEF ChildStep
<1>8. CASE Emit
  BY <1>8, EmitStep
<1>9. CASE Die
  BY <1>9, GoneStep
<1>10. CASE Finished
  BY <1>10, StutterStep DEF Finished
<1>11. CASE UNCHANGED vars
  BY <1>11, StutterStep
<1> QED
  BY <1>1, <1>2, <1>3, <1>4, <1>5, <1>6, <1>7, <1>8, <1>9, <1>10, <1>11 DEF Next

\* The inductive invariant holds of every reachable state.
THEOREM Invariant == Spec => []IInv
BY Initially, Inductive, PTL DEF Spec

\* Variables keep their types: the buffer is a stretch of what the engine wrote.
THEOREM TypeCorrect == Spec => []TypeOK
<1>1. IInv => TypeOK
  BY DEF IInv
<1> QED
  BY Invariant, <1>1, PTL

\* Whatever ends the child or its stream ends the promises that hung on it, and
\* the state shown says whether there is a child (engine-client.ts:93-107,
\* 219-227).
THEOREM NobodyIsLeftWaiting == Spec => []NobodyWaitsOnTheDead
<1>1. IInv => NobodyWaitsOnTheDead
  BY DEF IInv
<1> QED
  BY Invariant, <1>1, PTL

\* For every cutting of every stream into chunks, the parser has taken what has
\* arrived and waits for no byte beyond the frame it is in
\* (engine-client.ts:156-193).
THEOREM ParserNeverStalls == Spec => []ParserKeepsUp
<1>1. IInv => ParserKeepsUp
  BY DEF IInv
<1> QED
  BY Invariant, <1>1, PTL
=============================================================================
