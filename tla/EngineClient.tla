----------------------------- MODULE EngineClient -----------------------------
(***************************************************************************)
(* The main process's end of the engine (engine/engine-client.ts): it      *)
(* spawns the child, frames requests onto its stdin, cuts frames out of    *)
(* whatever chunks its stdout arrives in, settles the promises, times them *)
(* out, and stops the child.  The child is the engine's read loop          *)
(* (main.cpp) between the two pipes (stdio_transport.cpp): it answers every *)
(* request it takes once, in any order, and may die at any moment.          *)
(*                                                                         *)
(* The two events a dead child leaves are apart, as they are in Node: the  *)
(* process is "gone" before 'exit' is delivered, and its pipe may deliver   *)
(* data after that.  A position is an offset in the child's stdout.        *)
(*                                                                         *)
(* Abstracted: what a frame says beyond whose answer it is.  The program   *)
(* starts one child and never calls restart(), so there is one child.      *)
(***************************************************************************)
EXTENDS Naturals, Sequences

CONSTANTS
  Calls,       \* requests; #nextId never repeats, so a request is its id
  Event,       \* the "id" of a frame that answers nobody
  Sizes,       \* header and payload lengths a frame may have, as pairs
  MaxHeader,   \* MAX_HEADER_BYTES
  MaxPayload,  \* MAX_PAYLOAD_BYTES
  MaxWritten,  \* bound: the position past which the child emits no event
  MaxStops     \* bound: stop() calls waiting at once (one per 'before-quit')

ASSUME EventAssumption == Event \notin Calls
ASSUME SizesAssumption == Sizes \subseteq (Nat \ {0}) \X Nat
ASSUME BoundAssumption ==
  /\ MaxHeader \in Nat \ {0} /\ MaxPayload \in Nat
  /\ MaxWritten \in Nat /\ MaxStops \in Nat

VARIABLES
  child,     \* #child is not null
  state,     \* #state
  stopping,  \* #stopping
  stops,     \* stop() calls whose promise has not resolved
  call,      \* how each request stands with its caller; #pending is the waiting
  proc,      \* the child process, and which of its events were delivered
  stdin,     \* the child's stdin is open
  inbox,     \* requests written and not yet read by the child
  working,   \* requests read and not yet answered
  wire,      \* frames written of which some bytes were not consumed
  written,   \* position after the last frame written
  base,      \* position of the first byte of #chunks
  got,       \* position after the last byte received
  need,      \* #need
  skewed     \* the bytes still to come begin in the middle of a frame

clientVars == <<child, state, stopping, stops>>
childVars == <<proc, stdin, inbox, working>>
streamVars == <<wire, written, base, got, need, skewed>>
vars == <<child, state, stopping, stops, call, proc, stdin, inbox, working,
          wire, written, base, got, need, skewed>>

States == {"stopped", "starting", "ready", "failed"}

\* idle: not made yet; the rest but "waiting" are ways to be settled.
CallStates == {"idle", "waiting", "answered", "rejected", "timedOut", "refused"}

ProcStates == {"none", "spawning", "up", "gone", "exited"}

Pending == {c \in Calls : call[c] = "waiting"}

Frames == [id : Calls \cup {Event}, first : Nat, header : Nat \ {0}, payload : Nat]

\* Where a frame ends.  Its length is 4 + header + 4 + payload.
End(f) == f.first + 8 + f.header + f.payload

Init ==
  /\ child = FALSE /\ state = "stopped" /\ stopping = FALSE /\ stops = 0
  /\ call = [c \in Calls |-> "idle"]
  /\ proc = "none" /\ stdin = FALSE /\ inbox = <<>> /\ working = {}
  /\ wire = <<>> /\ written = 0 /\ base = 0 /\ got = 0 /\ need = 8 /\ skewed = FALSE

-----------------------------------------------------------------------------
(* Starting, failing, stopping.                                            *)

\* #failAllPending, after some calls were settled already.
FailAll(settled) == [c \in Calls |-> IF settled[c] = "waiting" THEN "rejected" ELSE settled[c]]

\* Dropping #chunks: what was in them is lost, and the frame it belonged to
\* with it.
DropBuffer ==
  /\ base' = got' /\ need' = 8
  /\ skewed' = (skewed \/ base # got')
  /\ wire' = IF base = got' THEN wire ELSE <<>>

Start ==
  /\ proc = "none"
  /\ child' = TRUE /\ state' = "starting"
  /\ proc' = "spawning" /\ stdin' = TRUE
  /\ UNCHANGED <<stopping, stops, call, inbox, working, streamVars>>

\* The 'spawn' event.
Spawned ==
  /\ proc = "spawning"
  /\ proc' = "up" /\ state' = "ready"
  /\ UNCHANGED <<child, stopping, stops, call, stdin, inbox, working, streamVars>>

\* The 'error' event: the executable did not start, and there is no 'exit'.
SpawnError ==
  /\ proc = "spawning"
  /\ proc' = "exited" /\ stdin' = FALSE /\ inbox' = <<>>
  /\ call' = FailAll(call)
  /\ child' = FALSE /\ state' = "failed"
  /\ UNCHANGED <<stopping, stops, working, streamVars>>

\* Broken variant: the 'exit' handler leaves the promises to their timers.
ExitLeavesPending ==
  /\ proc = "gone"
  /\ proc' = "exited"
  /\ child' = FALSE
  /\ got' = got /\ DropBuffer
  /\ state' = IF stopping THEN "stopped" ELSE "failed"
  /\ stops' = 0 /\ stopping' = FALSE
  /\ UNCHANGED <<call, stdin, inbox, working, written>>

\* The 'exit' event.  Every stop() still waiting resolves by it.
Exited ==
  /\ proc = "gone"
  /\ proc' = "exited"
  /\ child' = FALSE
  /\ got' = got /\ DropBuffer
  /\ call' = FailAll(call)
  /\ state' = IF stopping THEN "stopped" ELSE "failed"
  /\ stops' = 0 /\ stopping' = FALSE
  /\ UNCHANGED <<stdin, inbox, working, written>>

\* A process that is killed, crashes, or meets a frame it cannot read: what it
\* had read or was to read is lost.
Perish == proc' = "gone" /\ stdin' = FALSE /\ inbox' = <<>> /\ working' = {}

\* child.kill(), which a process that has died already ignores.
Kill == IF proc = "up" THEN Perish ELSE UNCHANGED childVars

\* stop() with no child.
StopNothing ==
  /\ ~child
  /\ state' = "stopped"
  /\ UNCHANGED <<child, stopping, stops, call, childVars, streamVars>>

\* stop(), up to its await: closing stdin is the engine's clean shutdown path.
Stop ==
  /\ child
  /\ stops < MaxStops
  /\ stopping' = TRUE /\ stops' = stops + 1
  /\ stdin' = FALSE
  /\ UNCHANGED <<child, state, call, proc, inbox, working, streamVars>>

\* The two seconds are over: kill, resolve, and reset #stopping.  The outcome of
\* a spawn is known long before.
StopTimeout ==
  /\ stops > 0
  /\ proc # "spawning"
  /\ Kill
  /\ stops' = stops - 1 /\ stopping' = FALSE
  /\ UNCHANGED <<child, state, call, streamVars>>

-----------------------------------------------------------------------------
(* Requests.                                                               *)

\* request(): a write that a closed or dead stdin does not take is lost.
Request(c) ==
  /\ call[c] = "idle"
  /\ IF child
     THEN /\ call' = [call EXCEPT ![c] = "waiting"]
          /\ inbox' = IF stdin THEN Append(inbox, c) ELSE inbox
     ELSE /\ call' = [call EXCEPT ![c] = "refused"]
          /\ UNCHANGED inbox
  /\ UNCHANGED <<clientVars, proc, stdin, working, streamVars>>

\* The timer of a request.  The engine is not told.
Timeout(c) ==
  /\ call[c] = "waiting"
  /\ call' = [call EXCEPT ![c] = "timedOut"]
  /\ UNCHANGED <<clientVars, childVars, streamVars>>

-----------------------------------------------------------------------------
(* The stream of frames coming back.                                       *)

HeaderFits(f) == f.header <= MaxHeader
PayloadFits(f) == f.payload <= MaxPayload

\* All of the frame is in the buffer, and the parser takes it.
Whole(f, end) == HeaderFits(f) /\ PayloadFits(f) /\ End(f) <= end

\* Enough of it is there for a length that is out of range to be seen.
Condemned(f, end) ==
  \/ end - f.first >= 8 /\ ~HeaderFits(f)
  \/ end - f.first >= 8 + f.header /\ HeaderFits(f) /\ ~PayloadFits(f)

\* Past its fixed part, a frame takes its header and then its payload.
NeedInside(f, end) == IF end - f.first < 8 + f.header THEN 8 + f.header ELSE End(f) - f.first

\* Broken variants: #need is not reset after a frame; an empty buffer is worth
\* a look.
NeedKept(rest, end) ==
  IF rest = <<>> \/ end - Head(rest).first < 8 THEN need ELSE NeedInside(Head(rest), end)

\* How many bytes it takes before the stream is worth another look.
NeedFor(rest, end) ==
  IF rest = <<>> \/ end - Head(rest).first < 8 THEN 8 ELSE NeedInside(Head(rest), end)

\* The requests answered by the first n frames, settled if anyone waits.
Settled(n) ==
  [c \in Calls |->
     IF call[c] = "waiting" /\ (\E k \in 1..n : wire[k].id = c) THEN "answered" ELSE call[c]]

\* #consume's loop stops after n frames.
Cut(n) ==
  /\ n \in 0..Len(wire)
  /\ \A k \in 1..n : Whole(wire[k], got')
  /\ n < Len(wire) => ~Whole(wire[n + 1], got')

\* It stops because the next frame is not all there.
Take(n) ==
  /\ n < Len(wire) => ~Condemned(wire[n + 1], got')
  /\ call' = Settled(n)
  /\ wire' = SubSeq(wire, n + 1, Len(wire))
  /\ base' = IF n = 0 THEN base ELSE End(wire[n])
  /\ need' = NeedFor(wire', got')
  /\ UNCHANGED <<clientVars, childVars, skewed>>

\* Broken variant: the stream is dropped and the promises are not.
AbortLeavesPending(n) ==
  /\ n < Len(wire) /\ Condemned(wire[n + 1], got')
  /\ call' = Settled(n)
  /\ child' = FALSE /\ state' = "failed"
  /\ IF child THEN Kill ELSE UNCHANGED childVars
  /\ base' = got' /\ need' = 8 /\ wire' = <<>> /\ skewed' = TRUE
  /\ UNCHANGED <<stopping, stops>>

\* It stops at a frame it cannot trust: #abortStream.
Abort(n) ==
  /\ n < Len(wire) /\ Condemned(wire[n + 1], got')
  /\ call' = FailAll(Settled(n))
  /\ child' = FALSE /\ state' = "failed"
  /\ IF child THEN Kill ELSE UNCHANGED childVars
  /\ base' = got' /\ need' = 8 /\ wire' = <<>> /\ skewed' = TRUE
  /\ UNCHANGED <<stopping, stops>>

\* #consume: a chunk of any length arrives and every frame it completes is cut
\* out.  Nothing is looked at before #need bytes are there.
Consume(n) ==
  /\ ~skewed
  /\ n \in 1..(written - got)
  /\ got' = got + n
  /\ IF got' - base < need
     THEN UNCHANGED <<clientVars, call, childVars, wire, base, need, skewed>>
     ELSE \E i \in 0..Len(wire) : Cut(i) /\ (Take(i) \/ Abort(i))
  /\ UNCHANGED written

\* What still comes out of the pipe once a frame was cut in two is rubbish, and
\* the parser may say so once more.
ConsumeRubbish ==
  /\ skewed
  /\ call' = FailAll(call)
  /\ child' = FALSE /\ state' = "failed"
  /\ IF child THEN Kill ELSE UNCHANGED childVars
  /\ UNCHANGED <<stopping, stops, streamVars>>

-----------------------------------------------------------------------------
(* The child process.                                                      *)

\* StdioTransport::Write, under its lock: whole frames, one after the other.
Write(id) ==
  /\ \E size \in Sizes :
       /\ wire' = Append(wire, [id |-> id, first |-> written,
                                header |-> size[1], payload |-> size[2]])
       /\ written' = written + 8 + size[1] + size[2]
  /\ UNCHANGED <<base, got, need, skewed>>

\* The read loop takes a request.
Accept ==
  /\ proc = "up" /\ inbox # <<>>
  /\ inbox' = Tail(inbox)
  /\ working' = working \cup {Head(inbox)}
  /\ UNCHANGED <<clientVars, call, proc, stdin, streamVars>>

\* The reader or a worker answers it.
Answer(c) ==
  /\ proc = "up" /\ c \in working
  /\ working' = working \ {c}
  /\ Write(c)
  /\ UNCHANGED <<clientVars, call, proc, stdin, inbox>>

\* A job reports what it is doing.
Emit ==
  /\ proc = "up" /\ working # {}
  /\ written <= MaxWritten
  /\ Write(Event)
  /\ UNCHANGED <<clientVars, call, childVars>>

\* End of input: the queue is drained and main returns.
Leave ==
  /\ proc = "up" /\ ~stdin /\ inbox = <<>> /\ working = {}
  /\ proc' = "gone"
  /\ UNCHANGED <<clientVars, call, stdin, inbox, working, streamVars>>

\* It dies, with whatever it had written still in the pipe.
Die ==
  /\ proc = "up"
  /\ Perish
  /\ UNCHANGED <<clientVars, call, streamVars>>

-----------------------------------------------------------------------------

Finished == proc = "exited" /\ UNCHANGED vars

ChildStep == Accept \/ (\E c \in Calls : Answer(c)) \/ Leave

Delivery == Spawned \/ SpawnError \/ Exited \/ (\E n \in 1..(written - got) : Consume(n))

Next ==
  \/ Start \/ Stop \/ StopNothing \/ StopTimeout
  \/ \E c \in Calls : Request(c) \/ Timeout(c)
  \/ Delivery \/ ConsumeRubbish
  \/ ChildStep \/ Emit \/ Die
  \/ Finished

\* The engine works and the operating system delivers.  No timer, no stop and
\* no death has to happen.
Fairness == WF_vars(ChildStep) /\ WF_vars(Delivery)

Spec == Init /\ [][Next]_vars
FairSpec == Spec /\ Fairness

-----------------------------------------------------------------------------
(* Properties.                                                             *)

\* Type invariant.  The buffer is a stretch of what was written, and #need is
\* never less than the shortest frame there could be, short of one byte.
TypeOK ==
  /\ child \in BOOLEAN /\ state \in States
  /\ stopping \in BOOLEAN /\ stops \in 0..MaxStops
  /\ call \in [Calls -> CallStates]
  /\ proc \in ProcStates /\ stdin \in BOOLEAN
  /\ inbox \in Seq(Calls) /\ working \subseteq Calls
  /\ wire \in Seq(Frames)
  /\ written \in Nat /\ base \in Nat /\ got \in Nat /\ need \in Nat
  /\ base <= got /\ got <= written /\ need >= 8
  /\ skewed \in BOOLEAN

\* Nobody is left waiting for a child that is not there, and the state shown to
\* the user says whether one is: whatever ends the child or the stream, in
\* whatever order the events of its end arrive (engine-client.ts:93-107,
\* 219-227), its promises end with it and not two minutes later.
NobodyWaitsOnTheDead ==
  /\ ~child => Pending = {}
  /\ child = (state \in {"starting", "ready"})

\* The bytes that settle the frame at the head of the stream.
Enough(f) ==
  IF ~HeaderFits(f) THEN 8
  ELSE IF ~PayloadFits(f) THEN 8 + f.header
  ELSE End(f) - f.first

\* However the stream is cut into chunks, a frame that has arrived has been taken
\* (or condemned), and the parser never waits for more bytes than the frame it
\* is looking at will bring (engine-client.ts:160-193): otherwise an answer
\* would sit in the buffer until some later frame pushed it out.
ParserKeepsUp ==
  ~skewed /\ wire # <<>> => got - base < need /\ need <= Enough(Head(wire))

\* Every request is settled, by the engine, by the end of the child or by the
\* end of the stream: no caller depends on its timer (engine-client.ts:254-261),
\* not even one whose write was lost between a death and its 'exit'.
CallsSettle == \A c \in Calls : call[c] = "waiting" ~> call[c] # "waiting"
=============================================================================
