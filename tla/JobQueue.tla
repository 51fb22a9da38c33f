------------------------------- MODULE JobQueue -------------------------------
(***************************************************************************)
(* The native engine's job queue: one reader thread that takes requests    *)
(* off the pipe (main.cpp), a mutex-guarded queue with a condition         *)
(* variable (jobs/job_queue.cpp), and worker threads that run each job's   *)
(* task (the lambda of Engine::Dispatch) and answer it.                    *)
(*                                                                         *)
(* One action is one critical section, or one step outside the lock that   *)
(* others can observe.  A thread waiting on the condition variable is      *)
(* "asleep"; a notification makes it "awake", and an awake thread          *)
(* evaluates the wait predicate when it gets the lock.                     *)
(*                                                                         *)
(* Abstracted: what a task computes and how it ends, the events it emits,  *)
(* and the two high-water marks kept for statistics.                       *)
(***************************************************************************)
EXTENDS Naturals, Sequences, FiniteSets, SequencesExt

CONSTANTS
  Jobs,        \* request ids
  Recurring,   \* ids that stand for an endless stream of requests alike: such
               \* an id may be submitted again once its job is gone
  Workers,     \* worker threads
  Keys,        \* coalescing keys
  NoKey,       \* the empty coalescing key
  NoJob,       \* a worker that holds no entry
  KeyOf,       \* the coalescing key of a request
  Estimate,    \* its memory estimate, in units
  Budget       \* budget_bytes_, in the same units

ASSUME WorkersAssumption  == IsFiniteSet(Workers) /\ Workers # {}
ASSUME JobsAssumption     == NoJob \notin Jobs /\ Recurring \subseteq Jobs
ASSUME KeyAssumption      == NoKey \notin Keys /\ KeyOf \in [Jobs -> Keys \cup {NoKey}]
ASSUME EstimateAssumption == Estimate \in [Jobs -> Nat] /\ Budget \in Nat

VARIABLES
  pending,    \* pending_: the queue
  live,       \* keys of live_: jobs queued or running whose token can be found;
              \* keys_ holds the members with a key
  cancelled,  \* jobs whose token is set
  charged,    \* taken jobs whose estimate was counted (Entry::charged)
  admitted,   \* admitted_bytes_
  running,    \* running_
  stopping,   \* stopping_
  reader,     \* where the reader thread is
  worker,     \* where each worker thread is
  job,        \* the entry a worker holds
  answers     \* responses written for each request

queueVars == <<pending, live, cancelled, charged, admitted, running, stopping>>
vars == <<pending, live, cancelled, charged, admitted, running, stopping,
          reader, worker, job, answers>>

ReaderStates == {"reading", "notifying", "stopping", "joining", "stopped"}

\* taken: has the entry, has not looked at its token yet; body: working;
\* answered: response written, lock not taken yet; released: budget returned,
\* notify_all still to come.
WorkerStates == {"awake", "asleep", "taken", "body", "answered", "released", "exited"}

\* Between the two critical sections of Work.
Holding == {"taken", "body", "answered"}

Busy == {w \in Workers : worker[w] \in Holding}

Asleep == {w \in Workers : worker[w] = "asleep"}

Outstanding(j) == j \in Range(pending) \/ \E w \in Busy : job[w] = j

Init ==
  /\ pending = <<>>
  /\ live = {} /\ cancelled = {} /\ charged = {}
  /\ admitted = 0 /\ running = 0
  /\ stopping = FALSE
  /\ reader = "reading"
  /\ worker = [w \in Workers |-> "awake"]
  /\ job = [w \in Workers |-> NoJob]
  /\ answers = [j \in Jobs |-> 0]

-----------------------------------------------------------------------------
(* The reader thread.                                                      *)

\* Broken variant: only queued jobs are superseded, running ones are missed.
SupersededQueuedOnly(j) ==
  IF KeyOf[j] = NoKey THEN {} ELSE {i \in Range(pending) : KeyOf[i] = KeyOf[j]}

\* CancelKeyLocked: the tracked jobs that share the key of j.
Superseded(j) == IF KeyOf[j] = NoKey THEN {} ELSE {i \in live : KeyOf[i] = KeyOf[j]}

\* A request is new, or the next of a stream.
Fresh(j) == ~Outstanding(j) /\ (answers[j] = 0 \/ j \in Recurring)

\* Submit, up to the unlock.  (The branch for a stopping queue is in the code;
\* the only caller stops reading before it calls Shutdown.)
Submit(j) ==
  /\ reader = "reading"
  /\ Fresh(j)
  /\ IF stopping
     THEN cancelled' = cancelled \cup {j} /\ UNCHANGED live
     ELSE /\ cancelled' = (cancelled \cup Superseded(j)) \ {j}
          /\ live' = live \cup {j}
  /\ pending' = Append(pending, j)
  /\ charged' = charged \ {j}
  /\ answers' = [answers EXCEPT ![j] = 0]
  /\ reader' = "notifying"
  /\ UNCHANGED <<admitted, running, stopping, worker, job>>

\* Broken variant: Submit forgets the notification.
NotifyNobody ==
  /\ reader = "notifying"
  /\ reader' = "reading"
  /\ UNCHANGED <<queueVars, worker, job, answers>>

\* Submit's notify_one, after the unlock: one sleeping worker wakes, if any.
NotifyOne ==
  /\ reader = "notifying"
  /\ reader' = "reading"
  /\ \/ Asleep = {} /\ UNCHANGED worker
     \/ \E w \in Asleep : worker' = [worker EXCEPT ![w] = "awake"]
  /\ UNCHANGED <<queueVars, job, answers>>

\* JobQueue::Cancel of a job it can still find (otherwise it changes nothing).
Cancel(j) ==
  /\ reader = "reading"
  /\ j \in live
  /\ cancelled' = cancelled \cup {j}
  /\ UNCHANGED <<pending, live, charged, admitted, running, stopping,
                 reader, worker, job, answers>>

\* The host closed the pipe: main leaves the read loop and calls Shutdown.
BeginShutdown ==
  /\ reader = "reading"
  /\ stopping' = TRUE
  /\ cancelled' = cancelled \cup live
  /\ reader' = "stopping"
  /\ UNCHANGED <<pending, live, charged, admitted, running, worker, job, answers>>

WakeAll == [w \in Workers |-> IF worker[w] = "asleep" THEN "awake" ELSE worker[w]]

\* Broken variant: Shutdown joins without waking anyone.
ShutdownSilently ==
  /\ reader = "stopping"
  /\ reader' = "joining"
  /\ UNCHANGED <<queueVars, worker, job, answers>>

\* Shutdown's notify_all.
ShutdownNotify ==
  /\ reader = "stopping"
  /\ reader' = "joining"
  /\ worker' = WakeAll
  /\ UNCHANGED <<queueVars, job, answers>>

\* Every worker joined; Engine::Shutdown goes on to unload the models.
Joined ==
  /\ reader = "joining"
  /\ \A w \in Workers : worker[w] = "exited"
  /\ reader' = "stopped"
  /\ UNCHANGED <<queueVars, worker, job, answers>>

-----------------------------------------------------------------------------
(* Worker threads.                                                         *)

\* A cancelled job allocates nothing: it exists only to report back.
FreeOfCharge(j) == j \in cancelled

Fits(j) == admitted + Estimate[j] <= Budget

\* Broken variants: an oversized job is refused for ever, or admitted beside
\* whatever is running.
AloneNever(i) == FALSE
AloneWhenOldest(i) == i = 1

\* The oldest job, with nothing running, is admitted whatever its size.
Alone(i) == running = 0 /\ i = 1

Runnable(i) == FreeOfCharge(pending[i]) \/ Fits(pending[i]) \/ Alone(i)

\* TakeRunnableLocked's loop stops at the first runnable entry.
FirstRunnable(i) ==
  /\ i \in DOMAIN pending
  /\ Runnable(i)
  /\ \A k \in 1..(i - 1) : ~Runnable(k)

\* An entry is charged unless its token is set when it is taken.
Charge(j) == IF FreeOfCharge(j) THEN 0 ELSE Estimate[j]

\* The wait predicate finds an entry.
Take(w) ==
  /\ worker[w] = "awake"
  /\ \E i \in DOMAIN pending :
       /\ FirstRunnable(i)
       /\ job' = [job EXCEPT ![w] = pending[i]]
       /\ pending' = RemoveAt(pending, i)
       /\ charged' = IF FreeOfCharge(pending[i]) THEN charged ELSE charged \cup {pending[i]}
       /\ admitted' = admitted + Charge(pending[i])
  /\ running' = running + 1
  /\ worker' = [worker EXCEPT ![w] = "taken"]
  /\ UNCHANGED <<live, cancelled, stopping, reader, answers>>

\* The predicate is false: the worker waits.
Sleep(w) ==
  /\ worker[w] = "awake"
  /\ ~(stopping /\ pending = <<>>)
  /\ \A i \in DOMAIN pending : ~Runnable(i)
  /\ worker' = [worker EXCEPT ![w] = "asleep"]
  /\ UNCHANGED <<queueVars, reader, job, answers>>

\* A condition variable may wake a waiter that nobody notified.
SpuriousWake(w) ==
  /\ worker[w] = "asleep"
  /\ worker' = [worker EXCEPT ![w] = "awake"]
  /\ UNCHANGED <<queueVars, reader, job, answers>>

\* Broken variant: a worker leaves as soon as the queue is stopping.
ExitAtOnce(w) ==
  /\ worker[w] = "awake"
  /\ stopping
  /\ worker' = [worker EXCEPT ![w] = "exited"]
  /\ UNCHANGED <<queueVars, reader, job, answers>>

\* Stopping with nothing left: Work returns.
Exit(w) ==
  /\ worker[w] = "awake"
  /\ stopping /\ pending = <<>>
  /\ worker' = [worker EXCEPT ![w] = "exited"]
  /\ UNCHANGED <<queueVars, reader, job, answers>>

Respond(w) == answers' = [answers EXCEPT ![job[w]] = @ + 1]

\* Broken variant: the refusal is written and the task goes on.
DeclineAndCarryOn(w) ==
  /\ worker[w] = "taken"
  /\ job[w] \in cancelled
  /\ Respond(w)
  /\ worker' = [worker EXCEPT ![w] = "body"]
  /\ UNCHANGED <<queueVars, reader, job>>

\* The task finds its token set and answers "superseded before it started".
Decline(w) ==
  /\ worker[w] = "taken"
  /\ job[w] \in cancelled
  /\ Respond(w)
  /\ worker' = [worker EXCEPT ![w] = "answered"]
  /\ UNCHANGED <<queueVars, reader, job>>

\* Broken variant: the task starts without looking at its token.
BeginUnchecked(w) ==
  /\ worker[w] = "taken"
  /\ worker' = [worker EXCEPT ![w] = "body"]
  /\ UNCHANGED <<queueVars, reader, job, answers>>

\* The task's token is clear: it announces "running" and starts the work.
Begin(w) ==
  /\ worker[w] = "taken"
  /\ job[w] \notin cancelled
  /\ worker' = [worker EXCEPT ![w] = "body"]
  /\ UNCHANGED <<queueVars, reader, job, answers>>

\* The work returns or throws; either way one response is written.
Finish(w) ==
  /\ worker[w] = "body"
  /\ Respond(w)
  /\ worker' = [worker EXCEPT ![w] = "answered"]
  /\ UNCHANGED <<queueVars, reader, job>>

\* Broken variants: the estimate is given back whether or not it was charged,
\* with and without the guard against an underflow.
RefundUncharged(j) == IF admitted >= Estimate[j] THEN Estimate[j] ELSE 0
RefundAlways(j) == Estimate[j]

\* The estimate an entry gives back: its charge, unless that would underflow.
Refund(j) == IF j \in charged /\ admitted >= Estimate[j] THEN Estimate[j] ELSE 0

\* Work's second critical section.
Release(w) ==
  /\ worker[w] = "answered"
  /\ admitted' = admitted - Refund(job[w])
  /\ running' = running - 1
  /\ live' = live \ {job[w]}
  /\ job' = [job EXCEPT ![w] = NoJob]
  /\ worker' = [worker EXCEPT ![w] = "released"]
  /\ UNCHANGED <<pending, cancelled, charged, stopping, reader, answers>>

\* Freeing budget may unblock more than one waiter.
NotifyAll(w) ==
  /\ worker[w] = "released"
  /\ worker' = [WakeAll EXCEPT ![w] = "awake"]
  /\ UNCHANGED <<queueVars, reader, job, answers>>

-----------------------------------------------------------------------------

Terminated == reader = "stopped" /\ UNCHANGED vars

ReaderStep == NotifyOne \/ ShutdownNotify \/ Joined

WorkerStep(w) ==
  Take(w) \/ Sleep(w) \/ Exit(w) \/ Decline(w) \/ Begin(w) \/ Finish(w)
  \/ Release(w) \/ NotifyAll(w)

Next ==
  \/ \E j \in Jobs : Submit(j) \/ Cancel(j)
  \/ BeginShutdown
  \/ ReaderStep
  \/ \E w \in Workers : WorkerStep(w) \/ SpuriousWake(w)
  \/ Terminated

\* Threads are scheduled and tasks end.  Nothing makes a request, a cancel, a
\* closed pipe or a spurious wake-up happen.
Fairness == WF_vars(ReaderStep) /\ \A w \in Workers : WF_vars(WorkerStep(w))

Spec == Init /\ [][Next]_vars
FairSpec == Spec /\ Fairness

-----------------------------------------------------------------------------
(* Properties.                                                             *)

\* Type invariant.  Variables keep the shapes of job_queue.h:93-106.
TypeOK ==
  /\ pending \in Seq(Jobs)
  /\ live \subseteq Jobs /\ cancelled \subseteq Jobs /\ charged \subseteq Jobs
  /\ admitted \in Nat /\ running \in Nat
  /\ stopping \in BOOLEAN
  /\ reader \in ReaderStates
  /\ worker \in [Workers -> WorkerStates]
  /\ job \in [Workers -> Jobs \cup {NoJob}]
  /\ answers \in [Jobs -> Nat]

\* "Every request gets exactly one response" (job_queue.h:62-63): a job waits
\* in one place only, is not answered before it ends, and never twice.
OneResponse ==
  /\ \A i, k \in DOMAIN pending : pending[i] = pending[k] => i = k
  /\ \A w \in Busy : job[w] \notin Range(pending)
  /\ \A v, w \in Busy : job[v] = job[w] => v = w
  /\ \A j \in Range(pending) : answers[j] = 0
  /\ \A w \in Busy : answers[job[w]] = IF worker[w] = "answered" THEN 1 ELSE 0
  /\ \A j \in Jobs : answers[j] <= 1

\* The jobs whose memory counts, by the worker that holds them.
Payers == {w \in Busy : job[w] \in charged}

\* The memory held: one element for each unit that a worker holds.
HeldUnits == UNION {{w} \X (1..Estimate[job[w]]) : w \in Payers}

\* admitted_bytes_ is what the running jobs were charged, to the byte, and
\* running_ their number, at every unlock (job_queue.cpp:134-140, 163-170): a
\* byte never given back would starve the queue, one given back twice would
\* let it over-commit.
AccountingExact ==
  /\ admitted = Cardinality(HeldUnits)
  /\ running = Cardinality(Busy)

\* Admission is governed by memory (job_queue.h:35-40): more than the budget is
\* out only while one single job holds all of it.
BudgetRespected ==
  admitted <= Budget \/ \E w \in Payers : Payers = {w}

\* A job taken free of charge never starts its work: the queue skipped the
\* budget for it and the task's own look at the token has to agree
\* (job_queue.cpp:121-123, engine.cpp:305).
FreeRidersNeverWork == \A w \in Workers : worker[w] = "body" => job[w] \in charged

\* Of the tracked jobs that share a key at most one is still wanted
\* (job_queue.h:61): a dragged slider never has two live renders.
OneWantedPerKey ==
  \A i, j \in live :
    KeyOf[i] = KeyOf[j] /\ KeyOf[i] # NoKey /\ i # j => i \in cancelled \/ j \in cancelled

\* A thread that will look at the queue without anyone's help, or that is about
\* to notify.
WakeupComing ==
  \/ reader \in {"notifying", "stopping"}
  \/ \E w \in Workers : worker[w] \in {"awake", "released"}

\* No lost wake-up: with jobs queued and none running, somebody is on the way
\* to the queue (notify_one at job_queue.cpp:101 and notify_all at 172 and 185
\* come after the unlock, so a worker may look and sleep in between).
NoLostWakeup == pending # <<>> /\ running = 0 => WakeupComing

\* Shutdown drains (main.cpp:45-46): when the engine unloads its models nothing
\* is queued, tracked, charged or unanswered, and no worker is left.
DrainedWhenStopped ==
  reader = "stopped" =>
    /\ pending = <<>> /\ live = {} /\ admitted = 0 /\ running = 0
    /\ \A w \in Workers : worker[w] = "exited"

\* The queue's book-keeping, as its lock leaves it (job_queue.h:35-63): one
\* response each, exact accounts, free riders that never work, one wanted render
\* for each key, no runnable work with everybody asleep, a drained end.
QueueInOrder ==
  /\ TypeOK
  /\ OneResponse
  /\ AccountingExact /\ BudgetRespected /\ FreeRidersNeverWork
  /\ OneWantedPerKey
  /\ NoLostWakeup
  /\ DrainedWhenStopped

\* Every submitted request is answered, under whatever supersedes it, and
\* when the stream of requests is finite.
EveryRequestAnswered == \A j \in Jobs : Outstanding(j) ~> answers[j] = 1

\* Once the pipe is closed the engine stops.
ShutdownCompletes == stopping ~> reader = "stopped"
=============================================================================
