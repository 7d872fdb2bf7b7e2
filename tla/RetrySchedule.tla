--------------------------- MODULE RetrySchedule ----------------------------
(***************************************************************************)
(* The timing of delivery attempts: workers (app/worker.py) that poll      *)
(* outbound_jobs, attempt what is due one job after the other, and put off *)
(* what fails by outbound.retry_schedule_seconds.                          *)
(*                                                                         *)
(* Time is that of the database and advances by Tick, in a unit of the     *)
(* instance's choice, only while everybody sleeps or waits for a partner.  *)
(* The workers' clocks may differ from it: next_attempt_at is computed     *)
(* with the worker's datetime.now() and compared with the database's       *)
(* now().  Crashes and the partner are OutboundQueue's matter.             *)
(***************************************************************************)
EXTENDS Integers, FiniteSets, Sequences

CONSTANTS
  Jobs, Workers,
  Schedule,      \* outbound.retry_schedule_seconds
  PollInterval,  \* outbound.worker_poll_interval_seconds
  MaxAttempt,    \* the longest one call of send_once takes
  ClaimLimit,    \* claim_due_jobs(limit=10)
  Skews,         \* by how much a worker's clock may be ahead of the database's
  LastEnqueue,   \* bound: no job is created after this time
  MinOffset,     \* MinOffset[n]: the delays up to attempt n, clocks at their worst
  MaxOffset,     \* ... and with the clocks at their other extreme
  WindowMin, WindowMax,  \* gap between the first and the last attempt
  NoJob

N == Len(Schedule)
Last == IF N = 0 THEN 1 ELSE N  \* the attempts a job may have

ASSUME ScheduleAssumption ==
  /\ Schedule \in Seq(Nat)
  /\ Skews \subseteq Int
  /\ PollInterval \in Nat /\ MaxAttempt \in Nat /\ ClaimLimit \in Nat /\ LastEnqueue \in Nat
  /\ NoJob \notin Jobs
  /\ MinOffset \in [1..Last -> Int] /\ MinOffset[1] = 0
  /\ \A n \in 2..N, s \in Skews : MinOffset[n] <= MinOffset[n-1] + Schedule[n] + s
  /\ WindowMin \in Int /\ WindowMin <= MinOffset[Last]

(* What WindowKept rests on: even if every attempt of every job, and the   *)
(* sleep after it, falls between the first and the last of one job, the    *)
(* window is not over.                                                     *)
ASSUME WindowAssumption ==
  /\ IsFiniteSet(Jobs) /\ ClaimLimit >= 1 /\ WindowMax \in Int
  /\ MaxOffset \in [1..Last -> Nat]
  /\ \A n \in 2..N : MaxOffset[n-1] <= MaxOffset[n]
  /\ \A n \in 2..N, s \in Skews : MaxOffset[n-1] + Schedule[n] + s <= MaxOffset[n]
  /\ \A n \in 1..Last :
       MaxOffset[n] + (PollInterval + MaxAttempt) * (Cardinality(Jobs) * Last) <= WindowMax

VARIABLES
  now,            \* the database's clock
  skew,           \* how far each worker's clock is ahead of it
  status, attempts, nextAttemptAt,   \* columns of outbound_jobs
  wakeAt,         \* when each worker's asyncio.sleep ends
  claimed,        \* the jobs a worker has claimed and not dealt with
  cur,            \* the one it is attempting
  endsBy,         \* when that attempt ends at the latest
  firstAt, lastAt \* when a job's first and latest attempt began (history)

jobVars == <<status, attempts, nextAttemptAt>>
workerVars == <<wakeAt, claimed, cur, endsBy>>
vars == <<now, skew, jobVars, workerVars, firstAt, lastAt>>

Terminal == {"delivered", "failed_nack", "exchange_failure"}

Init ==
  /\ now = 0
  /\ skew \in [Workers -> Skews]
  /\ status = [j \in Jobs |-> "absent"]
  /\ attempts = [j \in Jobs |-> 0]
  /\ nextAttemptAt = [j \in Jobs |-> 0]
  /\ wakeAt = [w \in Workers |-> 0]
  /\ claimed = [w \in Workers |-> {}]
  /\ cur = [w \in Workers |-> NoJob]
  /\ endsBy = [w \in Workers |-> 0]
  /\ firstAt = [j \in Jobs |-> 0]
  /\ lastAt = [j \in Jobs |-> 0]

-----------------------------------------------------------------------------
(* create: next_attempt_at is the database's now() *)
Enqueue(j) ==
  /\ status[j] = "absent"
  /\ now <= LastEnqueue
  /\ status' = [status EXCEPT ![j] = "queued"]
  /\ nextAttemptAt' = [nextAttemptAt EXCEPT ![j] = now]
  /\ UNCHANGED <<now, skew, attempts, workerVars, firstAt, lastAt>>

\* Mutant: WHERE status <> 'delivered'.
Due_Undelivered == {j \in Jobs : status[j] \notin {"absent", "delivered"} /\ nextAttemptAt[j] <= now}

Due == {j \in Jobs : status[j] = "queued" /\ nextAttemptAt[j] <= now}

(* ORDER BY next_attempt_at LIMIT ClaimLimit *)
Earliest(S) ==
  /\ S \subseteq Due
  /\ Cardinality(S) <= ClaimLimit
  /\ Cardinality(S) = ClaimLimit \/ S = Due
  /\ \A i \in S, k \in Due \ S : nextAttemptAt[i] <= nextAttemptAt[k]

(* claim_due_jobs of a worker that has slept its poll interval; with       *)
(* nothing due it sleeps again                                             *)
Poll(w) ==
  /\ claimed[w] = {}
  /\ wakeAt[w] <= now
  /\ \E S \in SUBSET Due :
       /\ Earliest(S)
       /\ claimed' = [claimed EXCEPT ![w] = S]
       /\ status' = [j \in Jobs |-> IF j \in S THEN "in_progress" ELSE status[j]]
       /\ attempts' = [j \in Jobs |-> IF j \in S THEN attempts[j] + 1 ELSE attempts[j]]
       /\ wakeAt' = [wakeAt EXCEPT ![w] = IF S = {} THEN now + PollInterval ELSE @]
  /\ UNCHANGED <<now, skew, nextAttemptAt, cur, endsBy, firstAt, lastAt>>

(* send_once of the next job of the batch *)
BeginAttempt(w, j) ==
  /\ cur[w] = NoJob
  /\ j \in claimed[w]
  /\ \A k \in claimed[w] : nextAttemptAt[j] <= nextAttemptAt[k]
  /\ cur' = [cur EXCEPT ![w] = j]
  /\ endsBy' = [endsBy EXCEPT ![w] = now + MaxAttempt]
  /\ firstAt' = [firstAt EXCEPT ![j] = IF attempts[j] = 1 THEN now ELSE @]
  /\ lastAt' = [lastAt EXCEPT ![j] = now]
  /\ UNCHANGED <<now, skew, jobVars, wakeAt, claimed>>

(* the job is written back; after the batch's last the worker sleeps *)
EndAttempt(w, newStatus) ==
  /\ cur[w] # NoJob
  /\ status' = [status EXCEPT ![cur[w]] = newStatus]
  /\ claimed' = [claimed EXCEPT ![w] = @ \ {cur[w]}]
  /\ cur' = [cur EXCEPT ![w] = NoJob]
  /\ wakeAt' = [wakeAt EXCEPT ![w] =
                  IF claimed[w] = {cur[w]} THEN now + PollInterval ELSE @]
  /\ UNCHANGED <<now, skew, attempts, endsBy, firstAt, lastAt>>

(* a receipt: mark_delivered or mark_failed_nack *)
Receipt(w) ==
  /\ \E s \in {"delivered", "failed_nack"} : EndAttempt(w, s)
  /\ UNCHANGED nextAttemptAt

\* Mutants: the delay of the attempt that failed; the local time an hour ahead
\* taken for UTC.
RetryDelay_Previous(j) == Schedule[attempts[j]]
RetryDelay_LocalTime(j) == Schedule[attempts[j] + 1] + 60

(* _handle_failure *)
Exhausted(j) == attempts[j] >= N
RetryDelay(j) == Schedule[attempts[j] + 1]  \* schedule[job.attempt_count]

ExchangeFailure(w) ==
  /\ cur[w] # NoJob /\ Exhausted(cur[w])
  /\ EndAttempt(w, "exchange_failure")
  /\ UNCHANGED nextAttemptAt

Reschedule(w) ==
  /\ cur[w] # NoJob /\ ~Exhausted(cur[w])
  /\ EndAttempt(w, "queued")
  /\ nextAttemptAt' =
       [nextAttemptAt EXCEPT ![cur[w]] = now + skew[w] + RetryDelay(cur[w])]

-----------------------------------------------------------------------------
(* A worker that is awake acts at once, an attempt ends in time, and the   *)
(* clock stands still when there is nothing to wait for.                   *)
Tick ==
  /\ \A w \in Workers :
       /\ claimed[w] = {} => now < wakeAt[w]
       /\ cur[w] = NoJob => claimed[w] = {}
       /\ cur[w] # NoJob => now < endsBy[w]
  /\ now < LastEnqueue \/ \E j \in Jobs : status[j] \in {"queued", "in_progress"}
  /\ now' = now + 1
  /\ UNCHANGED <<skew, jobVars, workerVars, firstAt, lastAt>>

Next ==
  \/ \E j \in Jobs : Enqueue(j)
  \/ \E w \in Workers : \/ Poll(w) \/ Receipt(w) \/ ExchangeFailure(w) \/ Reschedule(w)
                        \/ \E j \in Jobs : BeginAttempt(w, j)
  \/ Tick

Spec == Init /\ [][Next]_vars

TypeOK ==
  /\ now \in Nat
  /\ skew \in [Workers -> Skews]
  /\ status \in [Jobs -> {"absent", "queued", "in_progress"} \cup Terminal]
  /\ attempts \in [Jobs -> Nat]
  /\ nextAttemptAt \in [Jobs -> Int]
  /\ wakeAt \in [Workers -> Nat] /\ endsBy \in [Workers -> Nat]
  /\ claimed \in [Workers -> SUBSET Jobs]
  /\ cur \in [Workers -> Jobs \cup {NoJob}]
  /\ firstAt \in [Jobs -> Nat] /\ lastAt \in [Jobs -> Nat]

-----------------------------------------------------------------------------
(* Standards 12.3.10/12.3.11, settings.py: an Exchange Failure is declared *)
(* only after the gap between the first and the last attempt has reached   *)
(* the window of 30 to 120 minutes, whatever the workers' clocks say.      *)
WindowReached ==
  \A j \in Jobs : status[j] = "exchange_failure" => lastAt[j] - firstAt[j] >= WindowMin

(* ... and the last attempt comes before that window is over: polling,     *)
(* slow attempts and the jobs ahead in a batch do not push it out.         *)
WindowKept ==
  \A j \in Jobs : status[j] # "absent" => lastAt[j] - firstAt[j] <= WindowMax

(* The queue with a clock is the queue of docs/outbound-flow.md.           *)
Lifecycle == INSTANCE JobLifecycle WITH AttemptLimit <- Last

ImplementsLifecycle == Lifecycle!LSpec
=============================================================================
