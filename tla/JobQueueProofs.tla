---------------------------- MODULE JobQueueProofs ----------------------------
(***************************************************************************)
(* Proofs about JobQueue, for every set of jobs, keys and workers, every   *)
(* estimate and every budget.                                              *)
(***************************************************************************)
EXTENDS JobQueue, FiniteSetTheorems, SequenceTheorems, TLAPS

-----------------------------------------------------------------------------
(* Sequences of distinct elements.                                         *)

Distinct(s) == \A i, k \in DOMAIN s : s[i] = s[k] => i = k

\* Submit's push_back: the queue gains one element, which was not in it.
LEMMA AppendDistinct ==
  ASSUME NEW S, NEW s \in Seq(S), NEW x \in S
  PROVE  /\ Append(s, x) \in Seq(S)
         /\ Range(Append(s, x)) = Range(s) \cup {x}
         /\ Distinct(s) /\ x \notin Range(s) => Distinct(Append(s, x))
         /\ Append(s, x) # <<>>
<1> DEFINE t == Append(s, x)
<1>1. /\ t \in Seq(S) /\ Len(t) = Len(s) + 1 /\ DOMAIN t = 1..(Len(s) + 1)
      /\ DOMAIN s = 1..Len(s) /\ Len(s) \in Nat
      /\ t[Len(s) + 1] = x /\ \A i \in 1..Len(s) : t[i] = s[i]
  OBVIOUS
<1>2. Range(t) = Range(s) \cup {x}
  BY <1>1 DEF Range
<1>3. ASSUME Distinct(s), x \notin Range(s) PROVE Distinct(t)
  BY <1>1, <1>3 DEF Distinct, Range
<1>4. t # <<>>
  BY <1>1
<1> QED BY <1>1, <1>2, <1>3, <1>4

\* TakeRunnableLocked's erase: the queue loses exactly the element taken.
LEMMA RemoveAtDistinct ==
  ASSUME NEW S, NEW s \in Seq(S), NEW i \in DOMAIN s
  PROVE  /\ RemoveAt(s, i) \in Seq(S)
         /\ s[i] \in S
         /\ Range(RemoveAt(s, i)) \subseteq Range(s)
         /\ Range(s) \subseteq Range(RemoveAt(s, i)) \cup {s[i]}
         /\ Distinct(s) => Distinct(RemoveAt(s, i)) /\ s[i] \notin Range(RemoveAt(s, i))
<1> DEFINE a == SubSeq(s, 1, i - 1)
           b == SubSeq(s, i + 1, Len(s))
           t == RemoveAt(s, i)
<1>0. Len(s) \in Nat /\ DOMAIN s = 1..Len(s) /\ i \in 1..Len(s) /\ s[i] \in S
  OBVIOUS
<1>1. /\ a \in Seq(S) /\ Len(a) = i - 1
      /\ \A k \in 1..(i - 1) : a[k] = s[k]
  BY <1>0
<1>2. /\ b \in Seq(S) /\ Len(b) = Len(s) - i
      /\ \A k \in 1..(Len(s) - i) : b[k] = s[k + i]
  BY <1>0
<1>3. t = a \o b
  BY DEF RemoveAt
<1>4. /\ t \in Seq(S) /\ Len(t) = Len(s) - 1 /\ DOMAIN t = 1..(Len(s) - 1)
      /\ \A k \in 1..(Len(s) - 1) : t[k] = IF k < i THEN s[k] ELSE s[k + 1]
  <2> HIDE DEF a, b
  <2>1. /\ a \o b \in Seq(S) /\ Len(a \o b) = Len(s) - 1
        /\ \A k \in 1..(Len(s) - 1) : (a \o b)[k] = IF k <= i - 1 THEN a[k] ELSE b[k - (i - 1)]
    <3>1. a \in Seq(S) /\ b \in Seq(S)
      BY <1>1, <1>2
    <3>2. /\ a \o b \in Seq(S) /\ Len(a \o b) = Len(a) + Len(b)
          /\ \A k \in 1..(Len(a) + Len(b)) :
               (a \o b)[k] = IF k <= Len(a) THEN a[k] ELSE b[k - Len(a)]
      BY ONLY <3>1, ConcatProperties, Zenon
    <3>3. Len(a) = i - 1 /\ Len(b) = Len(s) - i /\ Len(a) + Len(b) = Len(s) - 1
      BY <1>0, <1>1, <1>2
    <3> QED BY ONLY <3>2, <3>3
  <2>2. ASSUME NEW k \in 1..(Len(s) - 1) PROVE (a \o b)[k] = IF k < i THEN s[k] ELSE s[k + 1]
    <3>1. CASE k < i
      BY <1>0, <1>1, <2>1, <3>1
    <3>2. CASE ~(k < i)
      <4>1. k - (i - 1) \in 1..(Len(s) - i) /\ k - (i - 1) + i = k + 1
        BY <1>0, <3>2
      <4>2. (a \o b)[k] = b[k - (i - 1)]
        BY <1>0, <2>1, <3>2
      <4>3. b[k - (i - 1)] = s[k + 1]
        BY <1>2, <4>1
      <4> QED BY <3>2, <4>2, <4>3
    <3> QED BY <3>1, <3>2
  <2> QED BY <1>3, <2>1, <2>2
<1> HIDE DEF t
<1>5. Range(t) \subseteq Range(s)
  BY <1>0, <1>4 DEF Range
<1>6. Range(s) \subseteq Range(t) \cup {s[i]}
  <2>1. ASSUME NEW k \in 1..Len(s), k # i PROVE s[k] \in Range(t)
    <3>1. CASE k < i
      BY <1>0, <1>4, <3>1 DEF Range
    <3>2. CASE k > i
      <4>1. k - 1 \in 1..(Len(s) - 1) /\ t[k - 1] = s[k]
        BY <1>0, <1>4, <3>2
      <4> QED BY <1>4, <4>1 DEF Range
    <3> QED BY <1>0, <2>1, <3>1, <3>2
  <2> QED BY <1>0, <2>1 DEF Range
<1>7. ASSUME Distinct(s) PROVE Distinct(t) /\ s[i] \notin Range(t)
  <2> DEFINE origin(k) == IF k < i THEN k ELSE k + 1
  <2>1. \A k \in 1..(Len(s) - 1) :
          /\ origin(k) \in 1..Len(s) /\ origin(k) # i
          /\ t[k] = s[origin(k)]
    BY <1>0, <1>4
  <2>2. \A k, m \in 1..(Len(s) - 1) : origin(k) = origin(m) => k = m
    BY <1>0
  <2>3. \A k, m \in 1..Len(s) : s[k] = s[m] => k = m
    BY <1>0, <1>7 DEF Distinct
  <2> HIDE DEF origin
  <2>4. Distinct(t)
    BY <1>4, <2>1, <2>2, <2>3 DEF Distinct
  <2>5. s[i] \notin Range(t)
    BY <1>0, <1>4, <2>1, <2>3 DEF Range
  <2> QED BY <2>4, <2>5
<1> QED BY ONLY <1>0, <1>4, <1>5, <1>6, <1>7, Zenon DEF t

-----------------------------------------------------------------------------
(* The inductive invariant.                                                *)

\* What ties the queue's tables to the workers: an entry held is a job, only
\* taken jobs are charged, a job taken free of charge keeps its token set until
\* the task has looked at it, and only outstanding jobs are tracked.
Tracking ==
  /\ \A w \in Busy : job[w] \in Jobs
  /\ \A j \in Range(pending) : j \notin charged
  /\ \A w \in Workers : worker[w] = "taken" => job[w] \in charged \cup cancelled
  /\ \A j \in live : Outstanding(j)
  /\ IsFiniteSet(HeldUnits)

\* Workers leave only once the queue has stopped and is empty, and the reader
\* waits for all of them.
Leaving ==
  /\ stopping <=> reader \in {"stopping", "joining", "stopped"}
  /\ \A w \in Workers : worker[w] = "exited" => stopping /\ pending = <<>>
  /\ reader = "stopped" => \A w \in Workers : worker[w] = "exited"

IInv ==
  /\ TypeOK /\ OneResponse /\ Tracking /\ Leaving /\ AccountingExact /\ BudgetRespected
  /\ FreeRidersNeverWork /\ OneWantedPerKey /\ NoLostWakeup

LEMMA InitIInv == Init => IInv
<1> SUFFICES ASSUME Init PROVE IInv
  OBVIOUS
<1> USE WorkersAssumption, JobsAssumption DEF Init
<1>1. Busy = {} /\ Range(pending) = {} /\ pending \in Seq(Jobs)
  BY DEF Busy, Holding, Range
<1>2. Payers = {} /\ HeldUnits = {}
  BY <1>1 DEF Payers, HeldUnits
<1>3. TypeOK
  BY <1>1 DEF TypeOK, ReaderStates, WorkerStates
<1>4. OneResponse
  BY <1>1 DEF OneResponse, Range
<1>5. Tracking
  BY <1>1, <1>2, FS_EmptySet DEF Tracking
<1>8. Leaving
  BY DEF Leaving
<1>6. AccountingExact
  BY <1>1, <1>2, FS_EmptySet DEF AccountingExact
<1>7. BudgetRespected /\ FreeRidersNeverWork /\ OneWantedPerKey /\ NoLostWakeup
  BY EstimateAssumption DEF BudgetRespected, FreeRidersNeverWork, OneWantedPerKey, NoLostWakeup
<1> QED BY <1>3, <1>4, <1>5, <1>6, <1>7, <1>8 DEF IInv

-----------------------------------------------------------------------------
(* Steps that neither touch the queue nor start or end a job: threads that *)
(* sleep, wake, leave and notify.                                          *)

Quiet ==
  /\ UNCHANGED <<queueVars, job, answers>>
  /\ \A w \in Workers :
       worker'[w] # worker[w] => worker[w] \notin Holding /\ worker'[w] \notin Holding

QuietActions ==
  \/ ReaderStep
  \/ \E w \in Workers : Sleep(w) \/ Exit(w) \/ NotifyAll(w) \/ SpuriousWake(w)
  \/ UNCHANGED vars

LEMMA QuietSteps ==
  ASSUME TypeOK, QuietActions
  PROVE  Quiet /\ reader' \in ReaderStates /\ worker' \in [Workers -> WorkerStates]
<1> USE DEF TypeOK, Quiet, Holding, ReaderStates, WorkerStates
<1>1. CASE NotifyOne
  BY <1>1 DEF NotifyOne, Asleep
<1>2. CASE ShutdownNotify
  BY <1>2 DEF ShutdownNotify, WakeAll
<1>3. CASE Joined
  BY <1>3 DEF Joined
<1>4. ASSUME NEW w \in Workers, Sleep(w) \/ Exit(w) \/ SpuriousWake(w)
      PROVE  Quiet /\ reader' \in ReaderStates /\ worker' \in [Workers -> WorkerStates]
  BY <1>4 DEF Sleep, Exit, SpuriousWake
<1>5. ASSUME NEW w \in Workers, NotifyAll(w)
      PROVE  Quiet /\ reader' \in ReaderStates /\ worker' \in [Workers -> WorkerStates]
  BY <1>5 DEF NotifyAll, WakeAll
<1>6. CASE UNCHANGED vars
  BY <1>6 DEF vars, queueVars
<1> QED BY <1>1, <1>2, <1>3, <1>4, <1>5, <1>6 DEF QuietActions, ReaderStep

\* A step that keeps who holds what, and whether it was charged, keeps the
\* memory held.
LEMMA SameHoldings ==
  ASSUME Busy' = Busy,
         \A w \in Busy : job'[w] = job[w] /\ (job[w] \in charged' <=> job[w] \in charged)
  PROVE  Payers' = Payers /\ HeldUnits' = HeldUnits
<1>1. Payers' = Payers
  BY DEF Payers
<1>2. \A w \in Payers : job'[w] = job[w]
  BY DEF Payers
<1>3. HeldUnits' = HeldUnits
  BY <1>1, <1>2 DEF HeldUnits
<1> QED BY <1>1, <1>3

LEMMA QuietHoldings ==
  ASSUME Quiet
  PROVE  Busy' = Busy /\ Payers' = Payers /\ HeldUnits' = HeldUnits
<1>1. Busy' = Busy
  BY DEF Quiet, Busy
<1> QED BY <1>1, SameHoldings DEF Quiet, queueVars

\* A quiet step keeps the whole invariant.  The wake-up is what takes care: a
\* worker goes to sleep only when the oldest job is blocked by a running one,
\* and a notification is dropped only when nobody sleeps.
LEMMA QuietIInv ==
  ASSUME IInv, QuietActions
  PROVE  IInv'
<1> USE DEF IInv
<1>0. Quiet /\ reader' \in ReaderStates /\ worker' \in [Workers -> WorkerStates]
  BY QuietSteps
<1>q. /\ Busy' = Busy /\ Payers' = Payers /\ HeldUnits' = HeldUnits
      /\ UNCHANGED <<pending, live, cancelled, charged, admitted, running, stopping, job, answers>>
  BY <1>0, QuietHoldings DEF Quiet, queueVars
<1>w. \A w \in Workers : worker'[w] \in Holding \/ worker[w] \in Holding => worker'[w] = worker[w]
  BY <1>0 DEF Quiet
<1>1. TypeOK'
  BY <1>0, <1>q DEF TypeOK
<1>2. OneResponse'
  <2>1. \A w \in Busy : worker'[w] = worker[w]
    BY <1>w DEF Busy
  <2> QED BY <1>q, <2>1 DEF OneResponse
<1>3. Tracking'
  <2>1. (\A j \in live : Outstanding(j))'
    BY <1>q DEF Tracking, Outstanding
  <2>2. \A w \in Workers : worker'[w] = "taken" => worker[w] = "taken"
    BY <1>w DEF Holding
  <2> QED BY <1>q, <2>1, <2>2 DEF Tracking
<1>9. Leaving'
  <2>1. CASE NotifyOne
    BY <2>1, <1>q DEF NotifyOne, Asleep, Leaving, TypeOK
  <2>2. CASE ShutdownNotify
    BY <2>2, <1>q DEF ShutdownNotify, WakeAll, Leaving, TypeOK
  <2>3. CASE Joined
    BY <2>3, <1>q DEF Joined, Leaving, TypeOK
  <2>4. ASSUME NEW w \in Workers, Sleep(w) \/ Exit(w) \/ NotifyAll(w) \/ SpuriousWake(w)
        PROVE  Leaving'
    BY <2>4, <1>q DEF Sleep, Exit, NotifyAll, WakeAll, SpuriousWake, Leaving, TypeOK
  <2>5. CASE UNCHANGED vars
    BY <2>5 DEF vars, Leaving
  <2> QED BY <2>1, <2>2, <2>3, <2>4, <2>5 DEF QuietActions, ReaderStep
<1>4. AccountingExact'
  BY <1>q DEF AccountingExact
<1>5. BudgetRespected'
  BY <1>q DEF BudgetRespected
<1>6. FreeRidersNeverWork'
  BY <1>q, <1>w DEF FreeRidersNeverWork, Holding
<1>7. OneWantedPerKey'
  BY <1>q DEF OneWantedPerKey
<1>8. NoLostWakeup'
  <2> SUFFICES ASSUME pending # <<>>, running = 0 PROVE WakeupComing'
    BY <1>q DEF NoLostWakeup
  <2>1. Busy = {}
    <3>1. IsFiniteSet(Busy)
      BY WorkersAssumption, FS_Subset DEF Busy
    <3> QED BY <3>1, FS_EmptySet DEF AccountingExact
  <2>2. \A w \in Workers : worker[w] \in {"awake", "asleep", "released"}
    BY <2>1 DEF Busy, Holding, Leaving, TypeOK, WorkerStates
  <2>3. CASE NotifyOne
    BY <2>2, <2>3, WorkersAssumption DEF NotifyOne, Asleep, WakeupComing, TypeOK
  <2>4. CASE ShutdownNotify
    BY <2>2, <2>4, WorkersAssumption DEF ShutdownNotify, WakeAll, WakeupComing, TypeOK
  <2>5. CASE Joined
    BY <2>2, <2>5, WorkersAssumption DEF Joined
  <2>6. ASSUME NEW w \in Workers, Sleep(w) PROVE FALSE
    <3>1. 1 \in DOMAIN pending
      BY EmptySeq DEF TypeOK
    <3> QED BY <2>6, <3>1 DEF Sleep, Runnable, Alone
  <2>7. ASSUME NEW w \in Workers, Exit(w) PROVE FALSE
    BY <2>7 DEF Exit
  <2>8. ASSUME NEW w \in Workers, NotifyAll(w) \/ SpuriousWake(w) PROVE WakeupComing'
    BY <2>8 DEF NotifyAll, WakeAll, SpuriousWake, WakeupComing, TypeOK
  <2>9. CASE UNCHANGED vars
    BY <2>9 DEF vars, NoLostWakeup, WakeupComing
  <2> QED BY <2>3, <2>4, <2>5, <2>6, <2>7, <2>8, <2>9 DEF QuietActions, ReaderStep
<1> QED BY <1>1, <1>2, <1>3, <1>4, <1>5, <1>6, <1>7, <1>8, <1>9

-----------------------------------------------------------------------------
(* The reader's steps.                                                     *)

LEMMA SubmitIInv ==
  ASSUME IInv, NEW j \in Jobs, Submit(j)
  PROVE  IInv'
<1> USE DEF IInv
<1>1. /\ pending' = Append(pending, j) /\ charged' = charged \ {j}
      /\ cancelled' = (cancelled \cup Superseded(j)) \ {j} /\ live' = live \cup {j}
      /\ answers' = [answers EXCEPT ![j] = 0] /\ reader' = "notifying"
      /\ UNCHANGED <<admitted, running, stopping, worker, job>>
  BY DEF Submit, Leaving
<1>2. j \notin Range(pending) /\ \A w \in Busy : job[w] # j
  BY DEF Submit, Fresh, Outstanding
<1>3. /\ Distinct(pending) /\ pending \in Seq(Jobs)
      /\ pending' \in Seq(Jobs) /\ pending' # <<>>
      /\ Range(pending') = Range(pending) \cup {j}
      /\ Distinct(pending')
  <2>1. Distinct(pending) /\ pending \in Seq(Jobs)
    BY DEF OneResponse, Distinct, TypeOK
  <2> QED BY <2>1, <1>1, <1>2, AppendDistinct
<1>4. Busy' = Busy /\ Payers' = Payers /\ HeldUnits' = HeldUnits
  <2>1. Busy' = Busy
    BY <1>1 DEF Busy
  <2> QED BY <2>1, <1>1, <1>2, SameHoldings
<1>5. TypeOK'
  BY <1>1, <1>3 DEF TypeOK, Superseded, ReaderStates
<1>6. OneResponse'
  BY <1>1, <1>2, <1>3, <1>4 DEF OneResponse, Distinct, TypeOK, Tracking
<1>7. Tracking'
  <2>1. (\A w \in Workers : worker[w] = "taken" => job[w] \in charged \cup cancelled)'
    <3>1. \A w \in Workers : worker[w] = "taken" => job[w] # j
      BY <1>2 DEF Busy, Holding
    <3> QED BY <1>1, <3>1 DEF Tracking
  <2>2. (\A i \in live : Outstanding(i))'
    BY <1>1, <1>3, <1>4 DEF Tracking, Outstanding
  <2> QED BY <1>1, <1>2, <1>3, <1>4, <2>1, <2>2 DEF Tracking
<1>8. Leaving'
  BY <1>1 DEF Leaving, Submit
<1>9. AccountingExact' /\ BudgetRespected'
  BY <1>1, <1>4 DEF AccountingExact, BudgetRespected
<1>10. FreeRidersNeverWork'
  <2>1. \A w \in Workers : worker[w] = "body" => job[w] # j
    BY <1>2 DEF Busy, Holding
  <2> QED BY <1>1, <2>1 DEF FreeRidersNeverWork
<1>11. OneWantedPerKey'
  BY <1>1 DEF OneWantedPerKey, Superseded
<1>12. NoLostWakeup'
  BY <1>1 DEF NoLostWakeup, WakeupComing
<1> QED BY <1>5, <1>6, <1>7, <1>8, <1>9, <1>10, <1>11, <1>12

\* Setting tokens disturbs nothing but the set of set tokens.
LEMMA TokenIInv ==
  ASSUME IInv, NEW C \in SUBSET Jobs,
         cancelled' = cancelled \cup C,
         UNCHANGED <<pending, live, charged, admitted, running, worker, job, answers>>
  PROVE  /\ TypeOK' <=> (reader' \in ReaderStates /\ stopping' \in BOOLEAN)
         /\ OneResponse' /\ Tracking' /\ AccountingExact' /\ BudgetRespected'
         /\ FreeRidersNeverWork' /\ OneWantedPerKey'
<1> USE DEF IInv
<1>1. Busy' = Busy /\ Payers' = Payers /\ HeldUnits' = HeldUnits
  <2>1. Busy' = Busy
    BY DEF Busy
  <2> QED BY <2>1, SameHoldings
<1>2. TypeOK' <=> (reader' \in ReaderStates /\ stopping' \in BOOLEAN)
  BY DEF TypeOK
<1>3. OneResponse'
  BY <1>1 DEF OneResponse
<1>4. Tracking'
  BY <1>1 DEF Tracking, Outstanding
<1>5. AccountingExact' /\ BudgetRespected'
  BY <1>1 DEF AccountingExact, BudgetRespected
<1>6. FreeRidersNeverWork' /\ OneWantedPerKey'
  BY DEF FreeRidersNeverWork, OneWantedPerKey
<1> QED BY <1>2, <1>3, <1>4, <1>5, <1>6

LEMMA CancelIInv ==
  ASSUME IInv, NEW j \in Jobs, Cancel(j)
  PROVE  IInv'
<1>1. UNCHANGED <<stopping, reader>>
  BY DEF Cancel
<1>2. /\ TypeOK' /\ OneResponse' /\ Tracking' /\ AccountingExact' /\ BudgetRespected'
      /\ FreeRidersNeverWork' /\ OneWantedPerKey'
  <2>1. {j} \in SUBSET Jobs
    OBVIOUS
  <2> QED BY <1>1, <2>1, TokenIInv DEF Cancel, IInv, TypeOK
<1>3. Leaving' /\ NoLostWakeup'
  BY DEF IInv, Cancel, Leaving, NoLostWakeup, WakeupComing
<1> QED BY <1>2, <1>3 DEF IInv

LEMMA BeginShutdownIInv ==
  ASSUME IInv, BeginShutdown
  PROVE  IInv'
<1>1. /\ TypeOK' /\ OneResponse' /\ Tracking' /\ AccountingExact' /\ BudgetRespected'
      /\ FreeRidersNeverWork' /\ OneWantedPerKey'
  <2>1. live \in SUBSET Jobs
    BY DEF IInv, TypeOK
  <2> QED BY <2>1, TokenIInv DEF BeginShutdown, ReaderStates
<1>2. Leaving' /\ NoLostWakeup'
  BY DEF IInv, BeginShutdown, Leaving, NoLostWakeup, WakeupComing
<1> QED BY <1>1, <1>2 DEF IInv

-----------------------------------------------------------------------------
(* The worker's steps while it holds an entry: it looks at the token,      *)
(* works, answers.                                                         *)

LEMMA TaskIInv ==
  ASSUME IInv, NEW w \in Workers, Decline(w) \/ Begin(w) \/ Finish(w)
  PROVE  IInv'
<1> USE DEF IInv
<1>1. /\ UNCHANGED <<pending, live, cancelled, charged, admitted, running, stopping, reader, job>>
      /\ worker[w] \in {"taken", "body"} /\ worker'[w] \in {"body", "answered"}
      /\ worker' \in [Workers -> WorkerStates]
      /\ \A v \in Workers : v # w => worker'[v] = worker[v]
  BY DEF Decline, Begin, Finish, queueVars, TypeOK, WorkerStates
<1>2. w \in Busy /\ Busy' = Busy
  BY <1>1 DEF Busy, Holding, TypeOK
<1>3. Payers' = Payers /\ HeldUnits' = HeldUnits
  BY <1>1, <1>2, SameHoldings
<1>4. job[w] \in Jobs /\ answers[job[w]] = 0
  BY <1>1, <1>2 DEF Tracking, OneResponse
<1>5. TypeOK'
  <2>1. answers' \in [Jobs -> Nat]
    BY <1>4 DEF TypeOK, Decline, Begin, Finish, Respond
  <2> QED BY <1>1, <2>1 DEF TypeOK
<1>6. OneResponse'
  <2>1. CASE Begin(w)
    BY <1>1, <1>2, <2>1 DEF OneResponse, Begin, TypeOK
  <2>2. CASE Decline(w) \/ Finish(w)
    <3>1. answers' = [answers EXCEPT ![job[w]] = @ + 1] /\ worker'[w] = "answered"
      BY <2>2 DEF Decline, Finish, Respond, TypeOK
    <3>2. job[w] \notin Range(pending) /\ \A v \in Busy : v # w => job[v] # job[w]
      BY <1>2 DEF OneResponse
    <3>3. \A j \in Range(pending) : j \in Jobs
      BY DEF TypeOK, Range
    <3>4. (\A j \in Range(pending) : answers[j] = 0)' /\ (\A j \in Jobs : answers[j] <= 1)'
      BY <1>1, <1>4, <3>1, <3>2, <3>3 DEF OneResponse, TypeOK
    <3>5. (\A v \in Busy : answers[job[v]] = IF worker[v] = "answered" THEN 1 ELSE 0)'
      <4> SUFFICES ASSUME NEW v \in Busy
                   PROVE  answers'[job[v]] = IF worker'[v] = "answered" THEN 1 ELSE 0
        BY <1>1, <1>2
      <4>1. CASE v = w
        BY <1>4, <3>1, <4>1 DEF TypeOK
      <4>2. CASE v # w
        <5>1. worker'[v] = worker[v] /\ job[v] # job[w]
          BY <1>1, <3>2, <4>2 DEF Busy
        <5>2. answers'[job[v]] = answers[job[v]]
          BY <3>1, <5>1 DEF TypeOK, Tracking
        <5> QED BY <5>1, <5>2 DEF OneResponse
      <4> QED BY <4>1, <4>2
    <3> QED BY <1>1, <1>2, <3>4, <3>5 DEF OneResponse
  <2> QED BY <2>1, <2>2
<1>7. Tracking'
  BY <1>1, <1>2, <1>3 DEF Tracking, Outstanding, TypeOK
<1>8. Leaving'
  BY <1>1 DEF Leaving, TypeOK
<1>9. AccountingExact' /\ BudgetRespected'
  BY <1>1, <1>2, <1>3 DEF AccountingExact, BudgetRespected
<1>10. FreeRidersNeverWork'
  <2>1. CASE Begin(w)
    BY <1>1, <2>1 DEF Begin, FreeRidersNeverWork, Tracking, TypeOK
  <2>2. CASE Decline(w) \/ Finish(w)
    BY <1>1, <2>2 DEF Decline, Finish, FreeRidersNeverWork, TypeOK
  <2> QED BY <2>1, <2>2
<1>11. OneWantedPerKey'
  BY <1>1 DEF OneWantedPerKey
<1>12. NoLostWakeup'
  <2>1. IsFiniteSet(Busy)
    BY WorkersAssumption, FS_Subset DEF Busy
  <2>2. running # 0
    BY <1>2, <2>1, FS_EmptySet DEF AccountingExact
  <2> QED BY <1>1, <2>2 DEF NoLostWakeup
<1> QED BY <1>5, <1>6, <1>7, <1>8, <1>9, <1>10, <1>11, <1>12

-----------------------------------------------------------------------------
(* Admission and release: the memory held changes.                         *)

\* The units one worker holds are as many as its job's estimate.
LEMMA UnitsOfOne ==
  ASSUME NEW w, NEW n \in Nat
  PROVE  IsFiniteSet({w} \X (1..n)) /\ Cardinality({w} \X (1..n)) = n
<1>1. IsFiniteSet({w}) /\ Cardinality({w}) = 1
  BY FS_Singleton
<1>2. IsFiniteSet(1..n) /\ Cardinality(1..n) = n
  BY FS_Interval
<1>3. /\ IsFiniteSet({w} \X (1..n))
      /\ Cardinality({w} \X (1..n)) = Cardinality({w}) * Cardinality(1..n)
  BY ONLY <1>1, <1>2, FS_Product
<1> QED BY <1>1, <1>2, <1>3

\* Two disjoint finite sets add up.
LEMMA DisjointUnion ==
  ASSUME NEW S, NEW T, IsFiniteSet(S), IsFiniteSet(T), S \cap T = {}
  PROVE  /\ IsFiniteSet(S \cup T)
         /\ Cardinality(S \cup T) = Cardinality(S) + Cardinality(T)
         /\ Cardinality(S) \in Nat /\ Cardinality(T) \in Nat
<1>1. Cardinality(S) \in Nat /\ Cardinality(T) \in Nat
  BY FS_CardinalityType
<1>2. Cardinality(S \cap T) = 0
  BY FS_EmptySet
<1>3. IsFiniteSet(S \cup T) /\ Cardinality(S \cup T) = Cardinality(S) + Cardinality(T) - Cardinality(S \cap T)
  BY FS_Union
<1> QED BY <1>1, <1>2, <1>3

\* A worker that pays holds its estimate apart from what the others hold.
LEMMA OnePayerMore ==
  ASSUME NEW P, NEW w, w \notin P, NEW f, NEW n \in Nat, f[w] = n,
         IsFiniteSet(UNION {{v} \X (1..f[v]) : v \in P})
  PROVE  LET U(Q) == UNION {{v} \X (1..f[v]) : v \in Q} IN
         /\ IsFiniteSet(U(P \cup {w}))
         /\ Cardinality(U(P \cup {w})) = Cardinality(U(P)) + n
         /\ Cardinality(U(P)) \in Nat
<1> DEFINE U(Q) == UNION {{v} \X (1..f[v]) : v \in Q}
<1>1. U(P \cup {w}) = U(P) \cup ({w} \X (1..n))
  OBVIOUS
<1>2. U(P) \cap ({w} \X (1..n)) = {}
  <2>1. \A u \in U(P) : u[1] \in P
    OBVIOUS
  <2>2. \A u \in {w} \X (1..n) : u[1] = w
    OBVIOUS
  <2> QED BY <2>1, <2>2
<1>3. IsFiniteSet({w} \X (1..n)) /\ Cardinality({w} \X (1..n)) = n
  BY UnitsOfOne
<1> HIDE DEF U
<1>4. IsFiniteSet(U(P))
  BY DEF U
<1>5. /\ IsFiniteSet(U(P \cup {w})) /\ Cardinality(U(P \cup {w})) = Cardinality(U(P)) + n
      /\ Cardinality(U(P)) \in Nat
  <2>1. /\ IsFiniteSet(U(P) \cup ({w} \X (1..n)))
        /\ Cardinality(U(P) \cup ({w} \X (1..n))) = Cardinality(U(P)) + Cardinality({w} \X (1..n))
        /\ Cardinality(U(P)) \in Nat
    BY ONLY <1>2, <1>3, <1>4, DisjointUnion
  <2> QED BY ONLY <1>1, <1>3, <2>1
<1> QED BY <1>5 DEF U

LEMMA TakeIInv ==
  ASSUME IInv, NEW w \in Workers, Take(w)
  PROVE  IInv'
<1> USE DEF IInv
<1>1. PICK i \in DOMAIN pending :
        /\ FirstRunnable(i)
        /\ job' = [job EXCEPT ![w] = pending[i]]
        /\ pending' = RemoveAt(pending, i)
        /\ charged' = IF FreeOfCharge(pending[i]) THEN charged ELSE charged \cup {pending[i]}
        /\ admitted' = admitted + Charge(pending[i])
  BY DEF Take
<1> DEFINE j == pending[i]
<1>2. /\ worker[w] = "awake" /\ worker' = [worker EXCEPT ![w] = "taken"]
      /\ running' = running + 1
      /\ UNCHANGED <<live, cancelled, stopping, reader, answers>>
  BY DEF Take
<1>3. /\ pending \in Seq(Jobs) /\ pending' \in Seq(Jobs) /\ j \in Jobs /\ j \in Range(pending)
      /\ Range(pending') \subseteq Range(pending) /\ Range(pending) \subseteq Range(pending') \cup {j}
      /\ Distinct(pending') /\ j \notin Range(pending')
  <2>1. Distinct(pending) /\ pending \in Seq(Jobs) /\ i \in DOMAIN pending
    BY DEF OneResponse, Distinct, TypeOK
  <2>2. j \in Range(pending)
    BY DEF Range
  <2> QED BY ONLY <2>1, <2>2, <1>1, RemoveAtDistinct
<1> HIDE DEF j
<1>4. /\ w \notin Busy /\ Busy' = Busy \cup {w}
      /\ job'[w] = j /\ \A v \in Busy : v # w /\ job'[v] = job[v] /\ worker'[v] = worker[v]
  BY <1>1, <1>2 DEF j, Busy, Holding, TypeOK
<1>5. j \notin charged /\ answers[j] = 0 /\ \A v \in Busy : job[v] # j
  BY <1>3 DEF Tracking, OneResponse
<1>6. Payers' = IF FreeOfCharge(j) THEN Payers ELSE Payers \cup {w}
  BY <1>1, <1>4, <1>5 DEF j, Payers
<1>7. /\ IsFiniteSet(HeldUnits') /\ Cardinality(HeldUnits') = Cardinality(HeldUnits) + Charge(j)
      /\ Cardinality(HeldUnits) \in Nat
  <2> DEFINE f == [v \in Workers |-> Estimate[job'[v]]]
             U(Q) == UNION {{v} \X (1..f[v]) : v \in Q}
  <2>1. Payers \subseteq Busy /\ Busy \subseteq Workers
    BY DEF Payers, Busy
  <2>2. HeldUnits = U(Payers)
    <3>1. \A v \in Payers : f[v] = Estimate[job[v]]
      BY <1>4, <2>1
    <3> QED BY <3>1 DEF HeldUnits
  <2>3. HeldUnits' = U(Payers')
    <3>1. Payers' \subseteq Workers
      BY <1>6, <2>1
    <3>2. \A v \in Payers' : f[v] = Estimate[job'[v]]
      BY <3>1
    <3> DEFINE P == Payers'
    <3>3. HeldUnits' = UNION {{v} \X (1..Estimate[job'[v]]) : v \in P}
      BY DEF HeldUnits
    <3>4. \A v \in P : f[v] = Estimate[job'[v]]
      BY <3>2
    <3> HIDE DEF P, f
    <3>5. {{v} \X (1..f[v]) : v \in P} = {{v} \X (1..Estimate[job'[v]]) : v \in P}
      BY <3>4
    <3> QED BY <3>3, <3>5 DEF P
  <2>4. f[w] = Estimate[j] /\ Estimate[j] \in Nat
    BY <1>3, <1>4, EstimateAssumption
  <2>5. IsFiniteSet(HeldUnits)
    BY DEF Tracking
  <2> HIDE DEF f
  <2>6. w \notin Payers
    BY <1>4, <2>1
  <2>7. /\ IsFiniteSet(U(Payers \cup {w}))
        /\ Cardinality(U(Payers \cup {w})) = Cardinality(U(Payers)) + Estimate[j]
    <3>1. IsFiniteSet(UNION {{v} \X (1..f[v]) : v \in Payers})
      BY <2>2, <2>5
    <3> QED BY ONLY <2>4, <2>6, <3>1, OnePayerMore
  <2> HIDE DEF U
  <2>8. Cardinality(HeldUnits) \in Nat
    BY <2>5, FS_CardinalityType
  <2> QED BY <1>6, <2>2, <2>3, <2>5, <2>7, <2>8 DEF Charge
<1>8. TypeOK'
  <2>1. Charge(j) \in Nat
    BY <1>3, EstimateAssumption DEF Charge
  <2> QED BY <1>1, <1>2, <1>3, <2>1 DEF j, TypeOK, WorkerStates
<1>9. OneResponse'
  <2>1. (\A v \in Busy : job[v] \notin Range(pending))'
    BY <1>3, <1>4 DEF OneResponse
  <2>2. (\A u, v \in Busy : job[u] = job[v] => u = v)'
    BY <1>4, <1>5 DEF OneResponse
  <2>3. (\A v \in Busy : answers[job[v]] = IF worker[v] = "answered" THEN 1 ELSE 0)'
    BY <1>2, <1>4, <1>5 DEF OneResponse, TypeOK
  <2>4. (\A k \in Range(pending) : answers[k] = 0)' /\ (\A k \in Jobs : answers[k] <= 1)'
    BY <1>2, <1>3 DEF OneResponse
  <2> QED BY <1>3, <2>1, <2>2, <2>3, <2>4 DEF OneResponse, Distinct
<1>10. Tracking'
  <2>1. (\A v \in Busy : job[v] \in Jobs)'
    BY <1>3, <1>4 DEF Tracking
  <2>2. (\A k \in Range(pending) : k \notin charged)'
    BY <1>1, <1>3 DEF j, Tracking
  <2>3. (\A v \in Workers : worker[v] = "taken" => job[v] \in charged \cup cancelled)'
    BY <1>1, <1>2 DEF FreeOfCharge, Tracking, TypeOK
  <2>4. (\A k \in live : Outstanding(k))'
    <3> SUFFICES ASSUME NEW k \in live PROVE Outstanding(k)'
      BY <1>2
    <3>1. Outstanding(k)
      BY DEF Tracking
    <3>2. CASE k \in Range(pending)
      BY <1>3, <1>4, <3>2 DEF Outstanding
    <3>3. CASE \E v \in Busy : job[v] = k
      BY <1>4, <3>3 DEF Outstanding
    <3> QED BY <3>1, <3>2, <3>3 DEF Outstanding
  <2> QED BY <1>7, <2>1, <2>2, <2>3, <2>4 DEF Tracking
<1>11. Leaving'
  <2>1. pending # <<>>
    BY EmptySeq, <1>3 DEF Range
  <2> QED BY <1>2, <2>1 DEF Leaving, TypeOK
<1>12. AccountingExact'
  <2>1. Cardinality(Busy \cup {w}) = Cardinality(Busy) + 1
    <3>1. IsFiniteSet(Busy)
      BY WorkersAssumption, FS_Subset DEF Busy
    <3> QED BY <1>4, <3>1, FS_AddElement
  <2> QED BY <1>1, <1>2, <1>4, <1>7, <2>1 DEF j, AccountingExact
<1>13. BudgetRespected'
  <2>1. CASE FreeOfCharge(j)
    <3>1. admitted' = admitted /\ Payers' = Payers
      BY <1>1, <1>6, <2>1 DEF j, Charge, TypeOK
    <3> QED BY <3>1 DEF BudgetRespected
  <2>2. CASE ~FreeOfCharge(j) /\ Fits(j)
    BY <1>1, <2>2 DEF j, Fits, Charge, BudgetRespected
  <2>3. CASE ~FreeOfCharge(j) /\ Alone(i)
    <3>1. Busy = {}
      <4>1. IsFiniteSet(Busy)
        BY WorkersAssumption, FS_Subset DEF Busy
      <4> QED BY <2>3, <4>1, FS_EmptySet DEF Alone, AccountingExact
    <3>2. Payers' = {w} /\ w \in Payers'
      BY <1>6, <2>3, <3>1 DEF Payers
    <3> QED BY <3>2 DEF BudgetRespected
  <2> QED BY <1>1, <2>1, <2>2, <2>3 DEF j, FirstRunnable, Runnable
<1>14. FreeRidersNeverWork'
  <2>1. \A v \in Workers : worker'[v] = "body" => v \in Busy /\ worker[v] = "body"
    BY <1>2 DEF Busy, Holding, TypeOK
  <2> QED BY <1>1, <1>4, <2>1 DEF FreeRidersNeverWork
<1>15. OneWantedPerKey'
  BY <1>2 DEF OneWantedPerKey
<1>16. NoLostWakeup'
  BY <1>2 DEF NoLostWakeup, TypeOK
<1> QED BY <1>8, <1>9, <1>10, <1>11, <1>12, <1>13, <1>14, <1>15, <1>16

LEMMA ReleaseIInv ==
  ASSUME IInv, NEW w \in Workers, Release(w)
  PROVE  IInv'
<1> USE DEF IInv
<1> DEFINE j == job[w]
<1>1. /\ worker[w] = "answered" /\ worker' = [worker EXCEPT ![w] = "released"]
      /\ admitted' = admitted - Refund(j) /\ running' = running - 1
      /\ live' = live \ {j} /\ job' = [job EXCEPT ![w] = NoJob]
      /\ UNCHANGED <<pending, cancelled, charged, stopping, reader, answers>>
  BY DEF Release
<1>2. /\ w \in Busy /\ Busy' = Busy \ {w}
      /\ \A v \in Busy' : v # w /\ job'[v] = job[v] /\ worker'[v] = worker[v]
  BY <1>1 DEF Busy, Holding, TypeOK
<1>3. j \in Jobs /\ \A v \in Busy' : job[v] # j
  BY <1>2 DEF Tracking, OneResponse
<1> HIDE DEF j
<1>4. Payers' = Payers \ {w} /\ (w \in Payers <=> j \in charged)
  BY <1>1, <1>2 DEF j, Payers
<1>5. /\ IsFiniteSet(HeldUnits') /\ Cardinality(HeldUnits') \in Nat
      /\ Cardinality(HeldUnits) =
           Cardinality(HeldUnits') + (IF j \in charged THEN Estimate[j] ELSE 0)
  <2> DEFINE f == [v \in Workers |-> Estimate[job[v]]]
             U(Q) == UNION {{v} \X (1..f[v]) : v \in Q}
  <2>1. Payers \subseteq Busy /\ Busy \subseteq Workers /\ Payers' \subseteq Payers
    BY <1>4 DEF Payers, Busy
  <2>2. HeldUnits = U(Payers)
    <3>1. \A v \in Payers : f[v] = Estimate[job[v]]
      BY <2>1
    <3> QED BY <3>1 DEF HeldUnits
  <2>3. HeldUnits' = U(Payers')
    <3>1. \A v \in Payers' : v \in Workers /\ v # w
      BY <1>4, <2>1
    <3>2. \A v \in Payers' : f[v] = Estimate[job'[v]]
      BY <1>1, <3>1 DEF TypeOK
    <3> QED BY <3>2 DEF HeldUnits
  <2>4. f[w] = Estimate[j] /\ Estimate[j] \in Nat
    BY <1>3, EstimateAssumption DEF j
  <2>5. IsFiniteSet(HeldUnits)
    BY DEF Tracking
  <2> HIDE DEF f
  <2>6. U(Payers') \subseteq U(Payers)
    BY <2>1
  <2>7. IsFiniteSet(HeldUnits') /\ Cardinality(HeldUnits') \in Nat
    BY <2>2, <2>3, <2>5, <2>6, FS_Subset, FS_CardinalityType
  <2>8. CASE w \in Payers
    <3> DEFINE R == Payers \ {w}
    <3>0. w \notin R
      OBVIOUS
    <3>1. Payers = R \cup {w} /\ Payers' = R
      BY <1>4, <2>8
    <3>2. IsFiniteSet(UNION {{v} \X (1..f[v]) : v \in R})
      BY <2>3, <2>7, <3>1
    <3> HIDE DEF R
    <3>3. /\ IsFiniteSet(U(R \cup {w}))
          /\ Cardinality(U(R \cup {w})) = Cardinality(U(R)) + Estimate[j]
      BY ONLY <2>4, <3>0, <3>2, OnePayerMore
    <3> HIDE DEF U
    <3> QED BY <1>4, <2>2, <2>3, <2>7, <2>8, <3>1, <3>3
  <2>9. CASE w \notin Payers
    <3>1. Payers' = Payers
      BY <1>4, <2>9
    <3> HIDE DEF U
    <3> QED BY <1>4, <2>2, <2>3, <2>7, <2>9, <3>1
  <2> QED BY <2>8, <2>9
<1>6. admitted' = Cardinality(HeldUnits') /\ admitted' \in Nat
  <2>1. admitted = Cardinality(HeldUnits) /\ Estimate[j] \in Nat
    BY <1>3, EstimateAssumption DEF AccountingExact
  <2>2. Refund(j) = IF j \in charged THEN Estimate[j] ELSE 0
    BY <1>5, <2>1 DEF Refund
  <2> QED BY <1>1, <1>5, <2>1, <2>2
<1>7. running' = Cardinality(Busy') /\ running' \in Nat
  <2>1. IsFiniteSet(Busy)
    BY WorkersAssumption, FS_Subset DEF Busy
  <2>2. Cardinality(Busy') = Cardinality(Busy) - 1 /\ IsFiniteSet(Busy')
    BY <1>2, <2>1, FS_RemoveElement
  <2>3. Cardinality(Busy') \in Nat
    BY <2>2, FS_CardinalityType
  <2> QED BY <1>1, <2>2, <2>3 DEF AccountingExact
<1>8. TypeOK'
  BY <1>1, <1>6, <1>7 DEF TypeOK, WorkerStates
<1>9. OneResponse'
  BY <1>1, <1>2 DEF OneResponse
<1>10. Tracking'
  <2>1. (\A v \in Workers : worker[v] = "taken" => job[v] \in charged \cup cancelled)'
    BY <1>1 DEF Tracking, TypeOK
  <2>2. (\A k \in live : Outstanding(k))'
    <3> SUFFICES ASSUME NEW k \in live, k # j PROVE Outstanding(k)'
      BY <1>1
    <3>1. Outstanding(k)
      BY DEF Tracking
    <3>2. CASE k \in Range(pending)
      BY <1>1, <3>2 DEF Outstanding
    <3>3. CASE \E v \in Busy : job[v] = k
      BY <1>2, <3>3 DEF j, Outstanding
    <3> QED BY <3>1, <3>2, <3>3 DEF Outstanding
  <2>3. (\A v \in Busy : job[v] \in Jobs)' /\ (\A k \in Range(pending) : k \notin charged)'
    BY <1>1, <1>2 DEF Tracking
  <2> QED BY <1>5, <2>1, <2>2, <2>3 DEF Tracking
<1>11. Leaving'
  BY <1>1 DEF Leaving, TypeOK
<1>12. AccountingExact'
  BY <1>6, <1>7 DEF AccountingExact
<1>13. BudgetRespected'
  <2>1. CASE admitted <= Budget
    <3>1. Refund(j) \in Nat
      BY <1>3, EstimateAssumption DEF Refund
    <3> QED BY <1>1, <2>1, <3>1, EstimateAssumption DEF BudgetRespected, TypeOK
  <2>2. ASSUME NEW v \in Payers, Payers = {v} PROVE BudgetRespected'
    <3>1. CASE v = w
      <4>1. Payers' = {}
        BY <1>4, <2>2, <3>1
      <4>2. HeldUnits' = {}
        BY <4>1 DEF HeldUnits
      <4> QED BY <1>6, <4>2, FS_EmptySet, EstimateAssumption DEF BudgetRespected
    <3>2. CASE v # w
      BY <1>4, <2>2, <3>2 DEF BudgetRespected
    <3> QED BY <3>1, <3>2
  <2> QED BY <2>1, <2>2 DEF BudgetRespected
<1>14. FreeRidersNeverWork' /\ OneWantedPerKey'
  BY <1>1 DEF FreeRidersNeverWork, OneWantedPerKey, TypeOK
<1>15. NoLostWakeup'
  BY <1>1 DEF NoLostWakeup, WakeupComing, TypeOK
<1> QED BY <1>8, <1>9, <1>10, <1>11, <1>12, <1>13, <1>14, <1>15

-----------------------------------------------------------------------------
(* The theorems.                                                           *)

LEMMA NextIInv == IInv /\ [Next]_vars => IInv'
<1> SUFFICES ASSUME IInv, [Next]_vars PROVE IInv'
  OBVIOUS
<1>1. ASSUME NEW j \in Jobs, Submit(j) PROVE IInv'
  BY <1>1, SubmitIInv
<1>2. ASSUME NEW j \in Jobs, Cancel(j) PROVE IInv'
  BY <1>2, CancelIInv
<1>3. CASE BeginShutdown
  BY <1>3, BeginShutdownIInv
<1>4. ASSUME NEW w \in Workers, Take(w) PROVE IInv'
  BY <1>4, TakeIInv
<1>5. ASSUME NEW w \in Workers, Decline(w) \/ Begin(w) \/ Finish(w) PROVE IInv'
  BY <1>5, TaskIInv
<1>6. ASSUME NEW w \in Workers, Release(w) PROVE IInv'
  BY <1>6, ReleaseIInv
<1>7. CASE QuietActions
  BY <1>7, QuietIInv
<1> QED BY <1>1, <1>2, <1>3, <1>4, <1>5, <1>6, <1>7
      DEF Next, WorkerStep, QuietActions, Terminated

\* What the reader finds once it has joined the workers follows from the
\* invariant: nobody holds an entry, so nothing is charged or tracked.
LEMMA StoppedIsDrained == IInv => DrainedWhenStopped
<1> SUFFICES ASSUME IInv, reader = "stopped"
             PROVE  /\ pending = <<>> /\ live = {} /\ admitted = 0 /\ running = 0
                    /\ \A w \in Workers : worker[w] = "exited"
  BY DEF DrainedWhenStopped
<1>1. \A w \in Workers : worker[w] = "exited"
  BY DEF IInv, Leaving
<1>2. pending = <<>>
  BY <1>1, WorkersAssumption DEF IInv, Leaving
<1>3. Busy = {} /\ Payers = {} /\ HeldUnits = {}
  <2>1. Busy = {}
    BY <1>1 DEF Busy, Holding
  <2>2. Payers = {}
    BY <2>1 DEF Payers
  <2> QED BY <2>1, <2>2 DEF HeldUnits
<1>4. admitted = 0 /\ running = 0
  BY <1>3, FS_EmptySet DEF IInv, AccountingExact
<1>5. live = {}
  BY <1>2, <1>3 DEF IInv, Tracking, Outstanding, Range
<1> QED BY <1>1, <1>2, <1>4, <1>5

\* The inductive invariant holds for every instance of the queue.
THEOREM Invariant == Spec => []IInv
BY InitIInv, NextIInv, PTL DEF Spec

\* Type correctness: in particular the guarded subtraction of Work never leaves
\* the naturals (admitted_bytes_ is unsigned).
THEOREM TypeCorrect == Spec => []TypeOK
<1>1. IInv => TypeOK
  BY DEF IInv
<1> QED BY <1>1, Invariant, PTL

\* Every request is answered at most once, and not before its job is over.
THEOREM AnsweredOnce == Spec => []OneResponse
<1>1. IInv => OneResponse
  BY DEF IInv
<1> QED BY <1>1, Invariant, PTL

\* The book-keeping of the queue, whole, for any number of workers and jobs, any
\* budget and any estimates.
THEOREM BooksBalance == Spec => []QueueInOrder
<1>1. IInv => QueueInOrder
  BY StoppedIsDrained DEF IInv, QueueInOrder
<1> QED BY <1>1, Invariant, PTL

\* The bytes admitted are exactly those of the jobs that run, whatever is
\* cancelled, superseded or stopped meanwhile.
THEOREM Accounting == Spec => []AccountingExact
<1>1. IInv => AccountingExact
  BY DEF IInv
<1> QED BY <1>1, Invariant, PTL

\* The budget is exceeded only by one job that is charged alone.
THEOREM Admission == Spec => []BudgetRespected
<1>1. IInv => BudgetRespected
  BY DEF IInv
<1> QED BY <1>1, Invariant, PTL

\* A job let past the budget because its token was set never does any work.
THEOREM FreeRiders == Spec => []FreeRidersNeverWork
<1>1. IInv => FreeRidersNeverWork
  BY DEF IInv
<1> QED BY <1>1, Invariant, PTL

\* Of the jobs under one coalescing key at most one is still wanted.
THEOREM Coalescing == Spec => []OneWantedPerKey
<1>1. IInv => OneWantedPerKey
  BY DEF IInv
<1> QED BY <1>1, Invariant, PTL

\* No wake-up is lost: with work queued and nothing running somebody comes.
THEOREM Wakeups == Spec => []NoLostWakeup
<1>1. IInv => NoLostWakeup
  BY DEF IInv
<1> QED BY <1>1, Invariant, PTL

\* When the engine unloads its models, nothing is left in the queue.
THEOREM ShutdownDrains == Spec => []DrainedWhenStopped
BY StoppedIsDrained, Invariant, PTL
=============================================================================
