------------------------ MODULE RetryScheduleProofs -------------------------
(***************************************************************************)
(* Proofs about RetrySchedule, for any schedule, number of jobs and        *)
(* workers, poll interval, duration of an attempt and skew of the clocks.  *)
(***************************************************************************)
EXTENDS RetrySchedule, FiniteSetTheorems, TLAPS

LEMMA DelayType == ASSUME NEW n \in 1..N PROVE Schedule[n] \in Nat
  BY ScheduleAssumption DEF N

(* Every variable keeps its type. *)
THEOREM TypeCorrect == Spec => []TypeOK
<1>1. Init => TypeOK
  BY ScheduleAssumption DEF Init, TypeOK
<1>2. TypeOK /\ [Next]_vars => TypeOK'
  <2> SUFFICES ASSUME TypeOK, [Next]_vars PROVE TypeOK'
    OBVIOUS
  <2> USE ScheduleAssumption DEF TypeOK, Terminal
  <2>1. ASSUME NEW j \in Jobs, Enqueue(j) PROVE TypeOK'
    BY <2>1 DEF Enqueue, workerVars
  <2>2. ASSUME NEW w \in Workers, Poll(w) PROVE TypeOK'
    BY <2>2, SMTT(30) DEF Poll, Due
  <2>3. ASSUME NEW w \in Workers, Receipt(w) PROVE TypeOK'
    BY <2>3, SMTT(30) DEF Receipt, EndAttempt
  <2>4. ASSUME NEW w \in Workers, ExchangeFailure(w) PROVE TypeOK'
    BY <2>4, SMTT(30) DEF ExchangeFailure, EndAttempt
  <2>5. ASSUME NEW w \in Workers, Reschedule(w) PROVE TypeOK'
    <3>1. cur[w] \in Jobs
      BY <2>5 DEF Reschedule
    <3>2. attempts[cur[w]] + 1 \in 1..N
      BY <2>5, <3>1 DEF Reschedule, Exhausted, N
    <3>3. RetryDelay(cur[w]) \in Nat
      BY <3>2, DelayType DEF RetryDelay
    <3>4. skew[w] \in Int
      OBVIOUS
    <3>5. nextAttemptAt' \in [Jobs -> Int]
      BY <2>5, <3>1, <3>3, <3>4 DEF Reschedule
    <3> QED
      BY <2>5, <3>5, SMTT(30) DEF Reschedule, EndAttempt
  <2>6. ASSUME NEW w \in Workers, NEW j \in Jobs, BeginAttempt(w, j) PROVE TypeOK'
    BY <2>6 DEF BeginAttempt, jobVars
  <2>7. ASSUME Tick PROVE TypeOK'
    BY <2>7 DEF Tick, jobVars, workerVars
  <2>8. CASE UNCHANGED vars
    BY <2>8 DEF vars, jobVars, workerVars
  <2> QED
    BY <2>1, <2>2, <2>3, <2>4, <2>5, <2>6, <2>7, <2>8 DEF Next
<1> QED
  BY <1>1, <1>2, PTL DEF Spec

-----------------------------------------------------------------------------
(* A job in a worker's batch is in progress, and in no other batch. *)
Claims ==
  /\ \A w \in Workers : \A j \in claimed[w] : status[j] = "in_progress"
  /\ \A w \in Workers : cur[w] # NoJob => cur[w] \in claimed[w]
  /\ \A v, w \in Workers : v # w => claimed[v] \cap claimed[w] = {}

(* How many attempts a job has had goes with its status. *)
CountsJob(j) ==
  /\ attempts[j] <= Last
  /\ status[j] = "absent" => attempts[j] = 0
  /\ status[j] = "queued" => attempts[j] < Last
  /\ status[j] \notin {"absent", "queued"} => attempts[j] >= 1
  /\ status[j] = "exchange_failure" => attempts[j] = Last

Counts == \A j \in Jobs : CountsJob(j)

(* The job has been claimed, and the attempt that was counted has yet to   *)
(* begin.                                                                  *)
Pending(j) == \E w \in Workers : j \in claimed[w] /\ cur[w] # j

(* The attempts so far are as far apart as the schedule says, the next one *)
(* is due no earlier, and a claimed one was due.                           *)
SpacedJob(j) ==
  /\ firstAt[j] <= now /\ lastAt[j] <= now
  /\ attempts[j] >= 1 /\ ~Pending(j) => lastAt[j] - firstAt[j] >= MinOffset[attempts[j]]
  /\ attempts[j] >= 1 /\ status[j] = "queued" =>
       nextAttemptAt[j] - firstAt[j] >= MinOffset[attempts[j] + 1]
  /\ attempts[j] >= 2 /\ Pending(j) => now - firstAt[j] >= MinOffset[attempts[j]]

Spaced == \A j \in Jobs : SpacedJob(j)

IInv == Claims /\ Counts /\ Spaced

LEMMA InitInvariant == Init => IInv
  BY ScheduleAssumption DEF Init, IInv, Claims, Counts, CountsJob, Spaced, SpacedJob, Pending, Last, N

LEMMA LastType == Last \in Nat /\ Last >= 1 /\ N \in Nat /\ (N > 0 => Last = N)
  BY ScheduleAssumption DEF Last, N

LEMMA ClaimsStep == ASSUME TypeOK, Claims, [Next]_vars PROVE Claims'
<1> USE ScheduleAssumption DEF TypeOK, Claims
<1>1. ASSUME NEW j \in Jobs, Enqueue(j) PROVE Claims'
  BY <1>1 DEF Enqueue, workerVars
<1>2. ASSUME NEW w \in Workers, Poll(w) PROVE Claims'
  BY <1>2, SMTT(30) DEF Poll, Due
<1>3. ASSUME NEW w \in Workers, NEW s, EndAttempt(w, s) PROVE Claims'
  BY <1>3, SMTT(30) DEF EndAttempt
<1>4. ASSUME NEW w \in Workers, NEW j \in Jobs, BeginAttempt(w, j) PROVE Claims'
  BY <1>4 DEF BeginAttempt, jobVars
<1>5. ASSUME Tick PROVE Claims'
  BY <1>5 DEF Tick, jobVars, workerVars
<1>6. CASE UNCHANGED vars
  BY <1>6 DEF vars, jobVars, workerVars
<1> QED
  BY <1>1, <1>2, <1>3, <1>4, <1>5, <1>6 DEF Next, Receipt, ExchangeFailure, Reschedule

LEMMA CountsUnchanged ==
  ASSUME NEW j \in Jobs, CountsJob(j), status'[j] = status[j], attempts'[j] = attempts[j]
  PROVE  CountsJob(j)'
  BY DEF CountsJob

LEMMA CountsAfterPoll ==
  ASSUME TypeOK, NEW w \in Workers, Poll(w), NEW j \in Jobs, CountsJob(j) PROVE CountsJob(j)'
<1>1. PICK S \in SUBSET Due :
        /\ status' = [k \in Jobs |-> IF k \in S THEN "in_progress" ELSE status[k]]
        /\ attempts' = [k \in Jobs |-> IF k \in S THEN attempts[k] + 1 ELSE attempts[k]]
  BY DEF Poll
<1>2. CASE j \in S
  <2>1. status'[j] = "in_progress" /\ attempts'[j] = attempts[j] + 1
    BY <1>1, <1>2
  <2>2. attempts[j] \in Nat /\ attempts[j] < Last
    BY <1>1, <1>2 DEF Due, TypeOK, CountsJob
  <2> QED
    BY <2>1, <2>2, LastType DEF CountsJob
<1>3. CASE j \notin S
  BY <1>1, <1>3, CountsUnchanged
<1> QED
  BY <1>2, <1>3

(* The end of an attempt changes the status of one job, which has had one. *)
LEMMA CountsAfterEnd ==
  ASSUME TypeOK, Claims, Counts, NEW w \in Workers, NEW s, EndAttempt(w, s),
         s \in {"queued"} \cup Terminal,
         s = "queued" => attempts[cur[w]] < Last,
         s = "exchange_failure" => attempts[cur[w]] >= Last
  PROVE  Counts'
<1>1. cur[w] \in Jobs /\ status[cur[w]] = "in_progress"
  BY DEF EndAttempt, Claims, TypeOK
<1>2. attempts' = attempts /\ status' = [status EXCEPT ![cur[w]] = s]
  BY DEF EndAttempt
<1>3. ASSUME NEW j \in Jobs PROVE CountsJob(j)'
  <2>1. CountsJob(j)
    BY DEF Counts
  <2>2. CASE j = cur[w]
    <3>1. status'[j] = s /\ attempts'[j] = attempts[j]
      BY <1>2, <2>2 DEF TypeOK
    <3>2. attempts[j] \in Nat /\ attempts[j] >= 1 /\ attempts[j] <= Last
      BY <1>1, <2>1, <2>2 DEF CountsJob, TypeOK
    <3> QED
      BY <2>2, <3>1, <3>2, LastType DEF CountsJob, Terminal
  <2>3. CASE j # cur[w]
    <3>1. status'[j] = status[j] /\ attempts'[j] = attempts[j]
      BY <1>2, <2>3 DEF TypeOK
    <3> QED
      BY <2>1, <3>1, CountsUnchanged
  <2> QED
    BY <2>2, <2>3
<1> QED
  BY <1>3 DEF Counts

LEMMA CountsStep == ASSUME TypeOK, Claims, Counts, [Next]_vars PROVE Counts'
<1>1. ASSUME NEW k \in Jobs, Enqueue(k) PROVE Counts'
  <2>1. attempts' = attempts /\ status[k] = "absent" /\ status' = [status EXCEPT ![k] = "queued"]
    BY <1>1 DEF Enqueue
  <2>2. ASSUME NEW j \in Jobs PROVE CountsJob(j)'
    <3>1. CountsJob(j)
      BY DEF Counts
    <3>2. CASE j = k
      BY <2>1, <3>1, <3>2, LastType DEF CountsJob, TypeOK
    <3>3. CASE j # k
      BY <2>1, <3>1, <3>3, CountsUnchanged DEF TypeOK
    <3> QED
      BY <3>2, <3>3
  <2> QED
    BY <2>2 DEF Counts
<1>2. ASSUME NEW w \in Workers, Poll(w) PROVE Counts'
  BY <1>2, CountsAfterPoll DEF Counts
<1>3. ASSUME NEW w \in Workers, Receipt(w) PROVE Counts'
  <2>1. PICK s \in {"delivered", "failed_nack"} : EndAttempt(w, s)
    BY <1>3 DEF Receipt
  <2> QED
    BY <2>1, CountsAfterEnd DEF Terminal
<1>4. ASSUME NEW w \in Workers, ExchangeFailure(w) PROVE Counts'
  <2>1. cur[w] \in Jobs /\ status[cur[w]] = "in_progress"
    BY <1>4 DEF ExchangeFailure, Claims, TypeOK
  <2>2. attempts[cur[w]] \in Nat /\ attempts[cur[w]] >= 1
    BY <2>1 DEF Counts, CountsJob, TypeOK
  <2>3. attempts[cur[w]] >= Last
    BY <1>4, <2>2 DEF ExchangeFailure, Exhausted, Last
  <2> QED
    BY <1>4, <2>3, CountsAfterEnd DEF ExchangeFailure, Terminal
<1>5. ASSUME NEW w \in Workers, Reschedule(w) PROVE Counts'
  <2>1. cur[w] \in Jobs /\ attempts[cur[w]] \in Nat
    BY <1>5 DEF Reschedule, TypeOK
  <2>2. attempts[cur[w]] < Last
    BY <1>5, <2>1, LastType DEF Reschedule, Exhausted
  <2> QED
    BY <1>5, <2>2, CountsAfterEnd DEF Reschedule
<1>6. ASSUME NEW w \in Workers, NEW j \in Jobs, BeginAttempt(w, j) PROVE Counts'
  BY <1>6 DEF BeginAttempt, jobVars, Counts, CountsJob
<1>7. ASSUME Tick PROVE Counts'
  BY <1>7 DEF Tick, jobVars, Counts, CountsJob
<1>8. CASE UNCHANGED vars
  BY <1>8 DEF vars, jobVars, Counts, CountsJob
<1> QED
  BY <1>1, <1>2, <1>3, <1>4, <1>5, <1>6, <1>7, <1>8 DEF Next

(* The end of an attempt leaves everybody else's claims as they were.      *)
LEMMA PendingAfterEnd ==
  ASSUME TypeOK, Claims, NEW w \in Workers, NEW s, EndAttempt(w, s)
  PROVE  /\ cur[w] \in Jobs /\ ~Pending(cur[w])
         /\ \A j \in Jobs : Pending(j)' <=> Pending(j)
<1>1. cur[w] \in Jobs /\ cur[w] \in claimed[w]
  BY ScheduleAssumption DEF TypeOK, Claims, EndAttempt
<1>2. \A v \in Workers \ {w} : cur[w] \notin claimed[v]
  BY <1>1 DEF Claims, TypeOK
<1>3. ~Pending(cur[w])
  BY <1>2 DEF Pending
<1>4. /\ claimed'[w] = claimed[w] \ {cur[w]} /\ cur'[w] = NoJob
      /\ \A v \in Workers \ {w} : claimed'[v] = claimed[v] /\ cur'[v] = cur[v]
  BY DEF EndAttempt, TypeOK
<1>5. ASSUME NEW j \in Jobs PROVE Pending(j)' <=> Pending(j)
  <2>1. (j \in claimed'[w] /\ cur'[w] # j) <=> (j \in claimed[w] /\ cur[w] # j)
    BY <1>4, ScheduleAssumption
  <2>2. \A v \in Workers : (j \in claimed'[v] /\ cur'[v] # j) <=> (j \in claimed[v] /\ cur[v] # j)
    BY <1>4, <2>1
  <2> QED
    BY <2>2 DEF Pending
<1> QED
  BY <1>1, <1>3, <1>5

LEMMA PendingAfterPoll ==
  ASSUME TypeOK, Claims, NEW w \in Workers, Poll(w), NEW j \in Jobs
  PROVE  /\ status'[j] # status[j] =>
              /\ Pending(j)' /\ status[j] = "queued" /\ nextAttemptAt[j] <= now
              /\ attempts'[j] = attempts[j] + 1 /\ status'[j] = "in_progress"
         /\ status'[j] = status[j] => (Pending(j)' <=> Pending(j)) /\ attempts'[j] = attempts[j]
  <1>1. cur[w] = NoJob /\ claimed[w] = {}
    BY DEF Poll, Claims
  <1>2. PICK S \in SUBSET Due :
          /\ claimed' = [claimed EXCEPT ![w] = S]
          /\ status' = [k \in Jobs |-> IF k \in S THEN "in_progress" ELSE status[k]]
          /\ attempts' = [k \in Jobs |-> IF k \in S THEN attempts[k] + 1 ELSE attempts[k]]
    BY DEF Poll
  <1>3. cur' = cur /\ cur[w] # j
    BY <1>1, ScheduleAssumption DEF Poll
  <1>4. CASE j \in S
    BY <1>1, <1>2, <1>3, <1>4 DEF Due, Pending, TypeOK
  <1>5. CASE j \notin S
    BY <1>1, <1>2, <1>3, <1>5 DEF Pending, TypeOK
  <1> QED
    BY <1>4, <1>5

LEMMA PendingAfterBegin ==
  ASSUME TypeOK, Claims, NEW w \in Workers, NEW j \in Jobs, BeginAttempt(w, j)
  PROVE  /\ Pending(j) /\ ~Pending(j)'
         /\ \A k \in Jobs \ {j} : Pending(k)' <=> Pending(k)
  BY ScheduleAssumption, SMTT(30) DEF TypeOK, Claims, BeginAttempt, Pending, jobVars

LEMMA SpacedStep == ASSUME TypeOK, TypeOK', Claims, Counts, Spaced, [Next]_vars PROVE Spaced'
<1> SUFFICES ASSUME NEW k \in Jobs PROVE SpacedJob(k)'
  BY DEF Spaced
<1>k. SpacedJob(k)
  BY DEF Spaced
<1>m. MinOffset \in [1..Last -> Int] /\ MinOffset[1] = 0
  BY ScheduleAssumption
<1>c. /\ attempts[k] \in Nat /\ attempts[k] <= Last
      /\ status[k] = "queued" => attempts[k] < Last
      /\ status[k] = "in_progress" => attempts[k] >= 1
  BY DEF Counts, CountsJob, TypeOK
<1>t. /\ firstAt[k] \in Nat /\ lastAt[k] \in Nat /\ nextAttemptAt[k] \in Int /\ now \in Nat
      /\ attempts[k] \in Nat
  BY DEF TypeOK
<1> USE LastType
<1>1. ASSUME NEW j \in Jobs, Enqueue(j) PROVE SpacedJob(k)'
  <2>1. Pending(k)' <=> Pending(k)
    BY <1>1 DEF Enqueue, workerVars, Pending
  <2> QED
    BY <1>1, <1>k, <1>t, <2>1 DEF Enqueue, SpacedJob, Counts, CountsJob, TypeOK
<1>2. ASSUME NEW w \in Workers, Poll(w) PROVE SpacedJob(k)'
  <2>1. UNCHANGED <<now, nextAttemptAt, firstAt, lastAt>>
    BY <1>2 DEF Poll
  <2>2. CASE status'[k] = status[k]
    BY <1>2, <1>k, <1>t, <2>1, <2>2, PendingAfterPoll DEF SpacedJob
  <2>3. CASE status'[k] # status[k]
    <3>1. /\ Pending(k)' /\ status[k] = "queued" /\ nextAttemptAt[k] <= now
          /\ attempts'[k] = attempts[k] + 1 /\ status'[k] = "in_progress"
      BY <1>2, <2>3, PendingAfterPoll
    <3>2. MinOffset[attempts[k] + 1] \in Int
      BY <1>m, <1>c, <3>1
    <3> QED
      BY <1>k, <1>t, <2>1, <3>1, <3>2 DEF SpacedJob
  <2> QED
    BY <2>2, <2>3
<1>3. ASSUME NEW w \in Workers, NEW s, EndAttempt(w, s), UNCHANGED nextAttemptAt, s # "queued"
      PROVE SpacedJob(k)'
  <2>1. UNCHANGED <<now, attempts, firstAt, lastAt>> /\ (Pending(k)' <=> Pending(k))
    BY <1>3, PendingAfterEnd DEF EndAttempt
  <2>2. status'[k] = "queued" => status[k] = "queued"
    BY <1>3 DEF EndAttempt, TypeOK
  <2> QED
    BY <1>3, <1>k, <1>t, <2>1, <2>2 DEF SpacedJob
<1>4. ASSUME NEW w \in Workers, Reschedule(w) PROVE SpacedJob(k)'
  <2>1. EndAttempt(w, "queued")
    BY <1>4 DEF Reschedule
  <2>2. UNCHANGED <<now, attempts, firstAt, lastAt>> /\ (Pending(k)' <=> Pending(k))
    BY <2>1, PendingAfterEnd DEF EndAttempt
  <2>3. CASE k # cur[w]
    <3>1. nextAttemptAt'[k] = nextAttemptAt[k] /\ status'[k] = status[k]
      BY <1>4, <2>1, <2>3, PendingAfterEnd DEF Reschedule, EndAttempt, TypeOK
    <3> QED
      BY <1>k, <1>t, <2>2, <3>1 DEF SpacedJob
  <2>4. CASE k = cur[w]
    <3>1. ~Pending(k) /\ status[k] = "in_progress" /\ attempts[k] >= 1
      BY <2>1, <2>4, <1>c, PendingAfterEnd DEF Claims, EndAttempt
    <3>2. attempts[k] + 1 \in 2..N
      BY <1>4, <2>4, <1>t, <3>1 DEF Reschedule, Exhausted
    <3>3. Schedule[attempts[k] + 1] \in Nat /\ skew[w] \in Int /\ skew[w] \in Skews
      <4>1. attempts[k] + 1 \in 1..N
        BY <3>2
      <4>2. Schedule[attempts[k] + 1] \in Nat
        BY <4>1, DelayType
      <4>3. skew[w] \in Skews
        BY DEF TypeOK
      <4> QED
        BY <4>2, <4>3, ScheduleAssumption
    <3>4. nextAttemptAt'[k] = now + skew[w] + Schedule[attempts[k] + 1]
      BY <1>4, <2>4 DEF Reschedule, RetryDelay, TypeOK
    <3>5. MinOffset[attempts[k] + 1] <=
            MinOffset[attempts[k]] + Schedule[attempts[k] + 1] + skew[w]
      <4>1. \A n \in 2..N : MinOffset[n] <= MinOffset[n-1] + Schedule[n] + skew[w]
        BY <3>3, ScheduleAssumption
      <4>2. (attempts[k] + 1) - 1 = attempts[k]
        BY <1>t
      <4> QED
        BY <3>2, <4>1, <4>2
    <3>6. MinOffset[attempts[k] + 1] \in Int /\ MinOffset[attempts[k]] \in Int
      BY <1>m, <1>c, <3>1, <3>2
    <3> QED
      BY <1>k, <1>t, <2>2, <3>1, <3>3, <3>4, <3>5, <3>6 DEF SpacedJob
  <2> QED
    BY <2>3, <2>4
<1>5. ASSUME NEW w \in Workers, NEW j \in Jobs, BeginAttempt(w, j) PROVE SpacedJob(k)'
  <2>1. UNCHANGED <<now, status, attempts, nextAttemptAt>>
    BY <1>5 DEF BeginAttempt, jobVars
  <2>2. CASE k # j
    <3>1. firstAt'[k] = firstAt[k] /\ lastAt'[k] = lastAt[k]
      BY <1>5, <2>2 DEF BeginAttempt, TypeOK
    <3>2. Pending(k)' <=> Pending(k)
      BY <1>5, <2>2, PendingAfterBegin
    <3> QED
      BY <1>k, <2>1, <3>1, <3>2 DEF SpacedJob
  <2>3. CASE k = j
    <3>1. Pending(k) /\ ~Pending(k)' /\ status[k] = "in_progress" /\ attempts[k] >= 1
      BY <1>5, <1>c, <2>3, PendingAfterBegin DEF Claims, BeginAttempt
    <3>2. lastAt'[k] = now /\ firstAt'[k] = IF attempts[k] = 1 THEN now ELSE firstAt[k]
      BY <1>5, <2>3 DEF BeginAttempt, TypeOK
    <3> QED
      BY <1>k, <1>t, <1>m, <2>1, <3>1, <3>2 DEF SpacedJob
  <2> QED
    BY <2>2, <2>3
<1>6. ASSUME Tick PROVE SpacedJob(k)'
  <2>1. now' = now + 1 /\ UNCHANGED <<jobVars, firstAt, lastAt>> /\ (Pending(k)' <=> Pending(k))
    BY <1>6 DEF Tick, workerVars, Pending
  <2>2. attempts[k] >= 1 => MinOffset[attempts[k]] \in Int
    BY <1>m, <1>c
  <2> QED
    BY <1>k, <1>t, <2>1, <2>2 DEF SpacedJob, jobVars
<1>7. CASE UNCHANGED vars
  BY <1>7, <1>k DEF vars, jobVars, workerVars, SpacedJob, Pending
<1> QED
  BY <1>1, <1>2, <1>3, <1>4, <1>5, <1>6, <1>7 DEF Next, Receipt, ExchangeFailure

LEMMA Invariant == Spec => []IInv
<1>1. IInv /\ TypeOK /\ TypeOK' /\ [Next]_vars => IInv'
  BY ClaimsStep, CountsStep, SpacedStep DEF IInv
<1> QED
  BY <1>1, InitInvariant, TypeCorrect, PTL DEF Spec
-----------------------------------------------------------------------------
(* An Exchange Failure is declared only after the window has been reached. *)
THEOREM WindowReachedHolds == Spec => []WindowReached
<1>1. IInv /\ TypeOK => WindowReached
  <2> SUFFICES ASSUME IInv, TypeOK, NEW j \in Jobs, status[j] = "exchange_failure"
               PROVE  lastAt[j] - firstAt[j] >= WindowMin
    BY DEF WindowReached
  <2>1. attempts[j] = Last /\ ~Pending(j)
    BY DEF IInv, Counts, CountsJob, Claims, Pending
  <2>2. lastAt[j] - firstAt[j] >= MinOffset[Last]
    BY <2>1, LastType DEF IInv, Spaced, SpacedJob
  <2>3. MinOffset[Last] \in Int /\ WindowMin \in Int /\ WindowMin <= MinOffset[Last]
    BY LastType, ScheduleAssumption
  <2> QED
    BY <2>2, <2>3 DEF TypeOK
<1> QED
  BY <1>1, Invariant, TypeCorrect, PTL

-----------------------------------------------------------------------------
(* The attempts that are over: the n-th of a job is, once it has been      *)
(* counted and the job is not in progress on its account.                  *)
Ended(j) == IF status[j] = "in_progress" THEN attempts[j] - 1 ELSE attempts[j]
EndedAttempts == {a \in Jobs \X (1..Last) : a[2] <= Ended(a[1])}

(* The time they and the sleeps after them have taken at most.             *)
Spent == (PollInterval + MaxAttempt) * Cardinality(EndedAttempts)

(* How many attempts of a job have begun. *)
Begun(j) == IF Pending(j) THEN attempts[j] - 1 ELSE attempts[j]

(* Until when a worker may be asleep; of one at work on a batch, when its  *)
(* latest attempt began or its next one will.                              *)
FreeBy(w) ==
  IF cur[w] # NoJob THEN endsBy[w] - MaxAttempt
  ELSE IF claimed[w] = {} THEN wakeAt[w] ELSE now

Awake ==
  \A w \in Workers :
    /\ cur[w] # NoJob => /\ endsBy[w] = lastAt[cur[w]] + MaxAttempt
                         /\ lastAt[cur[w]] <= now /\ now <= endsBy[w]
    /\ claimed[w] = {} => now <= wakeAt[w] /\ wakeAt[w] <= now + PollInterval

(* The latest moment at which the next attempt of a job begins.            *)
NextBy(j) == firstAt[j] + MaxOffset[Begun(j) + 1] + Spent

(* Whoever may come to send a job again does so in time.                   *)
KeptJob(j) ==
  /\ Begun(j) = 0 => firstAt[j] = lastAt[j]
  /\ Begun(j) >= 1 => lastAt[j] - firstAt[j] <= MaxOffset[Begun(j)] + Spent
  /\ status[j] = "queued" /\ Begun(j) >= 1 =>
       /\ nextAttemptAt[j] + PollInterval <= NextBy(j)
       /\ \A w \in Workers : FreeBy(w) <= NextBy(j)
  /\ Begun(j) >= 1 =>
       \A w \in Workers : j \in claimed[w] /\ cur[w] # j => FreeBy(w) <= NextBy(j)

Kept == \A j \in Jobs : KeptJob(j)

LEMMA ConstantTypes ==
  /\ PollInterval \in Nat /\ MaxAttempt \in Nat /\ PollInterval + MaxAttempt \in Nat
  /\ MaxOffset \in [1..Last -> Nat] /\ \A n \in 1..Last : MaxOffset[n] \in Nat
  /\ IsFiniteSet(Jobs) /\ Cardinality(Jobs) \in Nat
<1>1. PollInterval \in Nat /\ MaxAttempt \in Nat
  BY ScheduleAssumption
<1>2. MaxOffset \in [1..Last -> Nat] /\ IsFiniteSet(Jobs)
  BY WindowAssumption
<1>3. Cardinality(Jobs) \in Nat
  BY <1>2, FS_CardinalityType
<1> QED
  BY <1>1, <1>2, <1>3

(* There are no more attempts than jobs times attempts of a job.           *)
LEMMA EndedFinite ==
  /\ IsFiniteSet(EndedAttempts) /\ Cardinality(EndedAttempts) \in Nat
  /\ Cardinality(EndedAttempts) <= Cardinality(Jobs) * Last
<1>1. IsFiniteSet(1..Last) /\ Cardinality(1..Last) = Last
  BY LastType, FS_Interval
<1>2. /\ IsFiniteSet(Jobs \X (1..Last))
      /\ Cardinality(Jobs \X (1..Last)) = Cardinality(Jobs) * Last
  BY <1>1, ConstantTypes, FS_Product
<1>3. EndedAttempts \subseteq Jobs \X (1..Last)
  BY DEF EndedAttempts
<1> QED
  BY <1>2, <1>3, FS_Subset, FS_CardinalityType

LEMMA MoreTimes == ASSUME NEW a \in Nat, NEW m \in Nat, NEW n \in Nat
                   PROVE  /\ a * m \in Nat /\ a * (m + 1) = a * m + a
                          /\ m <= n => a * m <= a * n
  BY SMT

LEMMA SpentType == /\ Spent \in Nat
                   /\ Spent <= (PollInterval + MaxAttempt) * (Cardinality(Jobs) * Last)
<1>1. Cardinality(Jobs) * Last \in Nat
  BY ConstantTypes, LastType, MoreTimes
<1> QED
  BY <1>1, ConstantTypes, EndedFinite, MoreTimes DEF Spent

(* As long as no attempt ends, none counts more than before.               *)
LEMMA SpentStays ==
  ASSUME \A j \in Jobs : Ended(j)' = Ended(j) PROVE Spent' = Spent
<1>1. EndedAttempts' = EndedAttempts
  BY DEF EndedAttempts
<1> QED
  BY <1>1 DEF Spent

(* One that ends adds its length and the sleep after it.                   *)
LEMMA SpentGrows ==
  ASSUME TypeOK, Claims, Counts, NEW w \in Workers, NEW s, EndAttempt(w, s), s # "in_progress"
  PROVE  Spent' = Spent + (PollInterval + MaxAttempt)
<1> DEFINE a == <<cur[w], attempts[cur[w]]>>
<1>1. /\ cur[w] \in Jobs /\ status[cur[w]] = "in_progress" /\ attempts[cur[w]] \in 1..Last
      /\ attempts' = attempts /\ status' = [status EXCEPT ![cur[w]] = s]
  <2>1. cur[w] \in Jobs /\ cur[w] \in claimed[w]
    BY ScheduleAssumption DEF TypeOK, Claims, EndAttempt
  <2>2. status[cur[w]] = "in_progress"
    BY <2>1 DEF Claims
  <2>3. attempts[cur[w]] \in 1..Last
    BY <2>1, <2>2, LastType DEF TypeOK, Counts, CountsJob
  <2> QED
    BY <2>1, <2>2, <2>3 DEF EndAttempt
<1>2. \A j \in Jobs : /\ j # cur[w] => Ended(j)' = Ended(j)
                      /\ j = cur[w] => Ended(j)' = attempts[j] /\ Ended(j) = attempts[j] - 1
  <2>1. status'[cur[w]] = s /\ \A j \in Jobs \ {cur[w]} : status'[j] = status[j]
    BY <1>1 DEF TypeOK
  <2> QED
    BY <1>1, <2>1 DEF Ended
<1>3. a \notin EndedAttempts /\ EndedAttempts' = EndedAttempts \cup {a}
  <2>1. a \in Jobs \X (1..Last) /\ a[1] = cur[w] /\ a[2] = attempts[cur[w]]
    BY <1>1
  <2>2. a \notin EndedAttempts
    BY <1>1, <1>2, <2>1 DEF EndedAttempts
  <2>3. ASSUME NEW b \in Jobs \X (1..Last) 
        PROVE  (b[2] <= Ended(b[1])') <=> (b[2] <= Ended(b[1]) \/ b = a)
    <3>1. b = <<b[1], b[2]>> /\ b[1] \in Jobs /\ b[2] \in 1..Last
      OBVIOUS
    <3>2. CASE b[1] # cur[w]
      BY <1>2, <3>1, <3>2
    <3>3. CASE b[1] = cur[w]
      <4>1. (b[2] <= attempts[cur[w]]) <=> (b[2] <= attempts[cur[w]] - 1 \/ b[2] = attempts[cur[w]])
        BY <1>1, <3>1
      <4> QED
        <5>1. b = a <=> b[2] = attempts[cur[w]]
          BY <3>1, <3>3
        <5> QED
          BY <1>2, <3>3, <4>1, <5>1
    <3> QED
      BY <3>2, <3>3
  <2>4. EndedAttempts' = {b \in Jobs \X (1..Last) : b[2] <= Ended(b[1])'}
    BY DEF EndedAttempts
  <2> QED
    BY <2>1, <2>2, <2>3, <2>4 DEF EndedAttempts
<1>4. Cardinality(EndedAttempts') = Cardinality(EndedAttempts) + 1
  BY <1>3, EndedFinite, FS_AddElement
<1> QED
  BY <1>4, EndedFinite, ConstantTypes, MoreTimes DEF Spent

LEMMA TickOn == ASSUME NEW n \in Int, NEW m \in Int, NEW p \in Nat, n < m, m <= n + p
                PROVE  n + 1 <= m /\ m <= (n + 1) + p
  OBVIOUS

(* A worker that is free acts at once, so the clock outruns nobody.        *)
LEMMA AwakeStep == ASSUME TypeOK, Claims, Awake, [Next]_vars PROVE Awake'
<1> USE ConstantTypes, ScheduleAssumption DEF TypeOK
<1>1. ASSUME NEW j \in Jobs, Enqueue(j) PROVE Awake'
  BY <1>1 DEF Enqueue, workerVars, Awake
<1>2. ASSUME NEW w \in Workers, Poll(w) PROVE Awake'
  <2>1. PICK S \in SUBSET Due :
          /\ claimed' = [claimed EXCEPT ![w] = S]
          /\ wakeAt' = [wakeAt EXCEPT ![w] = IF S = {} THEN now + PollInterval ELSE @]
    BY <1>2 DEF Poll
  <2>2. UNCHANGED <<now, cur, endsBy, lastAt>> /\ claimed[w] = {}
    BY <1>2 DEF Poll
  <2> SUFFICES ASSUME NEW v \in Workers
               PROVE  /\ cur'[v] # NoJob => /\ endsBy'[v] = lastAt'[cur'[v]] + MaxAttempt
                                            /\ lastAt'[cur'[v]] <= now' /\ now' <= endsBy'[v]
                      /\ claimed'[v] = {} => now' <= wakeAt'[v] /\ wakeAt'[v] <= now' + PollInterval
    BY DEF Awake
  <2>3. CASE v = w
    BY <2>1, <2>2, <2>3 DEF Awake
  <2>4. CASE v # w
    BY <2>1, <2>2, <2>4 DEF Awake
  <2> QED
    BY <2>3, <2>4
<1>3. ASSUME NEW w \in Workers, NEW s, EndAttempt(w, s) PROVE Awake'
  <2>1. /\ cur[w] # NoJob /\ UNCHANGED <<now, endsBy, lastAt>>
        /\ cur' = [cur EXCEPT ![w] = NoJob]
        /\ claimed' = [claimed EXCEPT ![w] = @ \ {cur[w]}]
        /\ wakeAt' = [wakeAt EXCEPT ![w] =
                        IF claimed[w] = {cur[w]} THEN now + PollInterval ELSE @]
    BY <1>3, SMTT(30) DEF EndAttempt
  <2>2. cur[w] \in claimed[w]
    BY <2>1 DEF Claims
  <2>3. claimed'[w] = {} => wakeAt'[w] = now + PollInterval
    BY <2>1, <2>2
  <2>4. cur'[w] = NoJob /\ \A v \in Workers \ {w} :
          cur'[v] = cur[v] /\ claimed'[v] = claimed[v] /\ wakeAt'[v] = wakeAt[v]
    BY <2>1
  <2>5. ASSUME NEW v \in Workers
        PROVE  /\ cur'[v] # NoJob => /\ endsBy'[v] = lastAt'[cur'[v]] + MaxAttempt
                                     /\ lastAt'[cur'[v]] <= now' /\ now' <= endsBy'[v]
               /\ claimed'[v] = {} => now' <= wakeAt'[v] /\ wakeAt'[v] <= now' + PollInterval
    <3>1. CASE v = w
      BY <2>1, <2>3, <2>4, <3>1
    <3>2. CASE v # w
      BY <2>1, <2>4, <3>2 DEF Awake
    <3> QED
      BY <3>1, <3>2
  <2> QED
    BY <2>5 DEF Awake
<1>4. ASSUME NEW w \in Workers, NEW j \in Jobs, BeginAttempt(w, j) PROVE Awake'
  <2>1. /\ j \in claimed[w] /\ UNCHANGED <<now, wakeAt, claimed>>
        /\ cur' = [cur EXCEPT ![w] = j] /\ endsBy' = [endsBy EXCEPT ![w] = now + MaxAttempt]
        /\ lastAt' = [lastAt EXCEPT ![j] = now]
    BY <1>4 DEF BeginAttempt
  <2>2. \A v \in Workers \ {w} : cur[v] # j
    BY <2>1 DEF Claims
  <2>3. ASSUME NEW v \in Workers
        PROVE  /\ cur'[v] # NoJob => /\ endsBy'[v] = lastAt'[cur'[v]] + MaxAttempt
                                     /\ lastAt'[cur'[v]] <= now' /\ now' <= endsBy'[v]
               /\ claimed'[v] = {} => now' <= wakeAt'[v] /\ wakeAt'[v] <= now' + PollInterval
    <3>1. CASE v = w
      BY <2>1, <3>1
    <3>2. CASE v # w
      BY <2>1, <2>2, <3>2 DEF Awake
    <3> QED
      BY <3>1, <3>2
  <2> QED
    BY <2>3 DEF Awake
<1>5. ASSUME Tick PROVE Awake'
  <2>1. now' = now + 1 /\ UNCHANGED <<cur, claimed, wakeAt, endsBy, lastAt>>
    BY <1>5 DEF Tick, workerVars
  <2>2. \A w \in Workers : /\ claimed[w] = {} => now < wakeAt[w]
                           /\ cur[w] # NoJob => now < endsBy[w]
    BY <1>5 DEF Tick
  <2>3. \A w \in Workers : /\ now \in Nat /\ wakeAt[w] \in Nat /\ endsBy[w] \in Nat
                           /\ cur[w] # NoJob => lastAt[cur[w]] \in Nat
    OBVIOUS
  <2>4. ASSUME NEW v \in Workers
        PROVE  /\ cur[v] # NoJob => /\ endsBy[v] = lastAt[cur[v]] + MaxAttempt
                                    /\ lastAt[cur[v]] <= now + 1 /\ now + 1 <= endsBy[v]
               /\ claimed[v] = {} => now + 1 <= wakeAt[v] /\ wakeAt[v] <= (now + 1) + PollInterval
    <3>1. cur[v] # NoJob => /\ endsBy[v] = lastAt[cur[v]] + MaxAttempt
                            /\ lastAt[cur[v]] <= now
      BY DEF Awake
    <3>2. claimed[v] = {} => wakeAt[v] <= now + PollInterval
      BY DEF Awake
    <3>3. /\ now \in Int /\ wakeAt[v] \in Int /\ endsBy[v] \in Int
          /\ cur[v] # NoJob => lastAt[cur[v]] \in Int
      BY <2>3
    <3>4. claimed[v] = {} => now + 1 <= wakeAt[v] /\ wakeAt[v] <= (now + 1) + PollInterval
      <4>1. CASE claimed[v] = {}
        <5>1. now < wakeAt[v] /\ wakeAt[v] <= now + PollInterval
          BY <2>2, <3>2, <4>1
        <5> QED
          BY ONLY <3>3, <5>1, TickOn, ConstantTypes
      <4> QED
        BY <4>1
    <3>5. cur[v] # NoJob => lastAt[cur[v]] <= now + 1 /\ now + 1 <= endsBy[v]
      BY <2>2, <3>1, <3>3
    <3> QED
      BY <3>1, <3>4, <3>5
  <2> QED
    BY <2>1, <2>4 DEF Awake
<1>6. CASE UNCHANGED vars
  BY <1>6 DEF vars, jobVars, workerVars, Awake
<1> QED
  BY <1>1, <1>2, <1>3, <1>4, <1>5, <1>6 DEF Next, Receipt, ExchangeFailure, Reschedule

(* What KeptJob says of a job stands while it and what has been spent      *)
(* stay the same and nobody who may come to send it is busy any longer.    *)
LEMMA KeptStays ==
  ASSUME TypeOK, TypeOK', NEW k \in Jobs, KeptJob(k), Counts,
         Pending(k)' <=> Pending(k), attempts'[k] = attempts[k],
         Pending(k) => attempts[k] >= 1,
         status'[k] = "queued" => status[k] = "queued" /\ nextAttemptAt'[k] = nextAttemptAt[k],
         firstAt'[k] = firstAt[k], lastAt'[k] = lastAt[k],
         NEW d \in Nat, Spent' = Spent + d,
         \A v \in Workers : status[k] = "queued" /\ status'[k] = "queued" =>
           \/ FreeBy(v)' <= FreeBy(v) + d
           \/ FreeBy(v)' <= nextAttemptAt[k] + PollInterval,
         \A v \in Workers : k \in claimed'[v] /\ cur'[v] # k =>
           k \in claimed[v] /\ cur[v] # k /\ FreeBy(v)' <= FreeBy(v) + d
  PROVE  KeptJob(k)'
<1>1. Begun(k)' = Begun(k) /\ Begun(k) \in Nat /\ Begun(k) <= Last
  BY LastType DEF Begun, Counts, CountsJob, TypeOK
<1>2. /\ firstAt[k] \in Nat /\ lastAt[k] \in Nat /\ nextAttemptAt[k] \in Int /\ Spent \in Nat
      /\ \A v \in Workers : FreeBy(v) \in Int /\ FreeBy(v)' \in Int
  <2>1. ASSUME NEW v \in Workers PROVE FreeBy(v) \in Int /\ FreeBy(v)' \in Int
    <3>1. /\ endsBy[v] \in Int /\ wakeAt[v] \in Int /\ now \in Int
          /\ endsBy'[v] \in Int /\ wakeAt'[v] \in Int /\ now' \in Int
      BY DEF TypeOK
    <3> QED
      BY <3>1, ConstantTypes DEF FreeBy
  <2> QED
    BY <2>1, SpentType DEF TypeOK
<1>3. Begun(k) >= 1 => MaxOffset[Begun(k)] \in Nat
  BY <1>1, ConstantTypes
<1>4. CASE Begun(k) >= 1 /\ (status[k] = "queued" \/ Pending(k))
  <2>1. Begun(k) + 1 \in 1..Last
    BY <1>1, <1>4, LastType DEF Begun, Counts, CountsJob, TypeOK
  <2>2. NextBy(k) \in Int /\ NextBy(k)' = NextBy(k) + d
    BY <1>1, <1>2, <2>1, ConstantTypes DEF NextBy
  <2>3. status'[k] = "queued" =>
          /\ nextAttemptAt'[k] + PollInterval <= NextBy(k)'
          /\ \A v \in Workers : FreeBy(v)' <= NextBy(k)'
    <3> SUFFICES ASSUME status'[k] = "queued"
                 PROVE  /\ nextAttemptAt'[k] + PollInterval <= NextBy(k)'
                        /\ \A v \in Workers : FreeBy(v)' <= NextBy(k)'
      OBVIOUS
    <3>1. /\ status[k] = "queued" /\ nextAttemptAt'[k] = nextAttemptAt[k]
          /\ nextAttemptAt[k] + PollInterval <= NextBy(k)
          /\ \A v \in Workers : FreeBy(v) <= NextBy(k)
      BY <1>4 DEF KeptJob
    <3>2. PollInterval \in Int
      BY ConstantTypes
    <3>3. nextAttemptAt[k] + PollInterval <= NextBy(k)'
      BY <1>2, <2>2, <3>1, <3>2
    <3>4. ASSUME NEW v \in Workers PROVE FreeBy(v)' <= NextBy(k)'
      <4>1. CASE FreeBy(v)' <= FreeBy(v) + d
        BY <1>2, <2>2, <3>1, <4>1
      <4>2. CASE FreeBy(v)' <= nextAttemptAt[k] + PollInterval
        BY <1>2, <2>2, <3>2, <3>3, <4>2
      <4> QED
        BY <3>1, <4>1, <4>2
    <3> QED
      BY <3>1, <3>3, <3>4
  <2>4. \A v \in Workers : k \in claimed'[v] /\ cur'[v] # k => FreeBy(v)' <= NextBy(k)'
    BY <1>1, <1>2, <1>4, <2>2 DEF KeptJob
  <2> QED
    BY <1>1, <1>2, <1>3, <1>4, <2>3, <2>4 DEF KeptJob
<1>5. CASE ~(Begun(k) >= 1 /\ (status[k] = "queued" \/ Pending(k)))
  <2>1. Begun(k) >= 1 => status'[k] # "queued" /\ ~Pending(k)
    BY <1>5
  <2>2. Begun(k) >= 1 => \A v \in Workers : ~(k \in claimed'[v] /\ cur'[v] # k)
    BY <2>1 DEF Pending
  <2> QED
    BY <1>1, <1>2, <1>3, <2>1, <2>2 DEF KeptJob
<1> QED
  BY <1>4, <1>5

LEMMA FreeByType == ASSUME TypeOK, NEW v \in Workers PROVE FreeBy(v) \in Int
  BY ConstantTypes DEF TypeOK, FreeBy

(* Nobody is away for longer than a sleep. *)
LEMMA FreeSoon ==
  ASSUME TypeOK, Claims, Awake, NEW v \in Workers PROVE FreeBy(v) <= now + PollInterval
<1>1. CASE cur[v] # NoJob
  <2>1. endsBy[v] = lastAt[cur[v]] + MaxAttempt /\ lastAt[cur[v]] <= now
    BY <1>1 DEF Awake
  <2>2. lastAt[cur[v]] \in Nat /\ now \in Nat
    BY <1>1 DEF TypeOK
  <2> QED
    BY <1>1, <2>1, <2>2, ConstantTypes DEF FreeBy
<1>2. CASE cur[v] = NoJob /\ claimed[v] = {}
  BY <1>2 DEF Awake, FreeBy
<1>3. CASE cur[v] = NoJob /\ claimed[v] # {}
  BY <1>3, ConstantTypes DEF FreeBy, TypeOK
<1> QED
  BY <1>1, <1>2, <1>3

(* The end of an attempt makes the worker free an attempt and a sleep      *)
(* later than that attempt began, at most.                                 *)
LEMMA FreeAfterEnd ==
  ASSUME TypeOK, TypeOK', Claims, Awake, NEW w \in Workers, NEW s, EndAttempt(w, s)
  PROVE  /\ FreeBy(w)' <= now + PollInterval
         /\ now + PollInterval <= FreeBy(w) + (PollInterval + MaxAttempt)
         /\ \A v \in Workers \ {w} : FreeBy(v)' = FreeBy(v)
<1>1. /\ cur[w] # NoJob /\ cur[w] \in claimed[w] /\ now' = now /\ endsBy' = endsBy
      /\ cur' = [cur EXCEPT ![w] = NoJob]
      /\ claimed' = [claimed EXCEPT ![w] = @ \ {cur[w]}]
      /\ wakeAt' = [wakeAt EXCEPT ![w] =
                      IF claimed[w] = {cur[w]} THEN now + PollInterval ELSE @]
  BY DEF EndAttempt, Claims
<1>2. now \in Nat /\ endsBy[w] \in Nat
  BY DEF TypeOK
<1>3. FreeBy(w)' <= now + PollInterval
  <2>1. cur'[w] = NoJob /\ (claimed'[w] = {} => wakeAt'[w] = now + PollInterval)
    BY <1>1 DEF TypeOK
  <2> QED
    BY <1>1, <1>2, <2>1, ConstantTypes DEF FreeBy
<1>4. now <= endsBy[w] /\ FreeBy(w) = endsBy[w] - MaxAttempt
  BY <1>1 DEF Awake, FreeBy
<1>5. \A v \in Workers \ {w} : FreeBy(v)' = FreeBy(v)
  <2>1. \A v \in Workers \ {w} : cur'[v] = cur[v] /\ claimed'[v] = claimed[v] /\ wakeAt'[v] = wakeAt[v]
    BY <1>1 DEF TypeOK
  <2> QED
    BY <1>1, <2>1 DEF FreeBy
<1> QED
  BY <1>2, <1>3, <1>4, <1>5, ConstantTypes

(* A job that is sent again was waiting for as long as it should be.       *)
LEMMA KeptAfterEnd ==
  ASSUME TypeOK, TypeOK', Claims, Claims', Counts, Awake, Kept,
         NEW w \in Workers, NEW s, EndAttempt(w, s), s # "in_progress",
         NEW k \in Jobs, k = cur[w] => s # "queued",
         k # cur[w] => nextAttemptAt'[k] = nextAttemptAt[k]
  PROVE  KeptJob(k)'
<1>1. /\ attempts' = attempts /\ firstAt' = firstAt /\ lastAt' = lastAt /\ cur[w] # NoJob
      /\ status' = [status EXCEPT ![cur[w]] = s] /\ cur' = [cur EXCEPT ![w] = NoJob]
      /\ claimed' = [claimed EXCEPT ![w] = @ \ {cur[w]}]
  BY DEF EndAttempt
<1>2. cur[w] \in Jobs /\ cur[w] \in claimed[w] /\ (Pending(k)' <=> Pending(k))
  BY PendingAfterEnd, ScheduleAssumption DEF EndAttempt, TypeOK, Claims
<1>3. Spent' = Spent + (PollInterval + MaxAttempt)
  BY SpentGrows
<1>4. Pending(k) => attempts[k] >= 1
  BY DEF Pending, Claims, Counts, CountsJob
<1>5. status'[k] = "queued" => status[k] = "queued" /\ nextAttemptAt'[k] = nextAttemptAt[k]
  BY <1>1, <1>2 DEF TypeOK
<1>6. ASSUME NEW v \in Workers
      PROVE  FreeBy(v)' <= FreeBy(v) + (PollInterval + MaxAttempt)
  <2>1. FreeBy(v) \in Int /\ FreeBy(v)' \in Int /\ now \in Int
    <3>1. FreeBy(v)' \in Int
      <4>1. endsBy'[v] \in Int /\ wakeAt'[v] \in Int /\ now' \in Int
        BY DEF TypeOK
      <4> QED
        BY <4>1, ConstantTypes DEF FreeBy
    <3> QED
      BY <3>1, FreeByType DEF TypeOK
  <2>2. CASE v = w
    BY <2>1, <2>2, FreeAfterEnd, ConstantTypes
  <2>3. CASE v # w
    BY <2>1, <2>3, FreeAfterEnd, ConstantTypes
  <2> QED
    BY <2>2, <2>3
<1>7. ASSUME NEW v \in Workers, k \in claimed'[v], cur'[v] # k
      PROVE  k \in claimed[v] /\ cur[v] # k
  BY <1>1, <1>2, <1>7 DEF TypeOK
<1>8. KeptJob(k) /\ attempts'[k] = attempts[k] /\ firstAt'[k] = firstAt[k] /\ lastAt'[k] = lastAt[k]
  BY <1>1 DEF Kept
<1>9. PollInterval + MaxAttempt \in Nat
  BY ConstantTypes
<1> QED
  BY <1>2, <1>3, <1>4, <1>5, <1>6, <1>7, <1>8, <1>9, KeptStays

(* What is put off is due again in time, and nobody is away too long to    *)
(* take it up then.                                                        *)
LEMMA KeptAfterReschedule ==
  ASSUME TypeOK, TypeOK', Claims, Claims', Counts, Awake, Kept,
         NEW w \in Workers, Reschedule(w), NEW k \in Jobs, k = cur[w]
  PROVE  KeptJob(k)'
<1>1. EndAttempt(w, "queued") /\ cur[w] # NoJob
  BY DEF Reschedule
<1>2. /\ attempts' = attempts /\ firstAt' = firstAt /\ lastAt' = lastAt /\ now' = now
      /\ ~Pending(k) /\ ~Pending(k)' /\ status[k] = "in_progress"
  BY <1>1, PendingAfterEnd DEF EndAttempt, Claims
<1>3. /\ attempts[k] \in 1..N /\ attempts[k] + 1 \in 2..N /\ attempts[k] + 1 \in 1..N /\ N = Last
  <2>1. attempts[k] \in Nat /\ attempts[k] >= 1 /\ attempts[k] < N
    BY <1>2, LastType DEF TypeOK, Counts, CountsJob, Reschedule, Exhausted
  <2> QED
    BY <2>1, LastType
<1>4. Begun(k) = attempts[k] /\ Begun(k)' = attempts[k]
  BY <1>2 DEF Begun
<1>5. /\ MaxOffset[attempts[k]] \in Nat /\ MaxOffset[attempts[k] + 1] \in Nat
      /\ Schedule[attempts[k] + 1] \in Nat /\ skew[w] \in Int
      /\ MaxOffset[attempts[k]] <= MaxOffset[attempts[k] + 1]
      /\ MaxOffset[attempts[k]] + Schedule[attempts[k] + 1] + skew[w] <= MaxOffset[attempts[k] + 1]
  <2>1. MaxOffset[attempts[k]] \in Nat /\ MaxOffset[attempts[k] + 1] \in Nat
    BY <1>3, ConstantTypes
  <2>2. Schedule[attempts[k] + 1] \in Nat
    BY <1>3, DelayType
  <2>3. skew[w] \in Skews
    BY DEF TypeOK
  <2>4. skew[w] \in Int
    BY <2>3, ScheduleAssumption
  <2>5. (attempts[k] + 1) - 1 = attempts[k]
    BY <1>3
  <2>6. \A n \in 2..N : MaxOffset[n-1] <= MaxOffset[n]
    BY WindowAssumption
  <2>7. \A n \in 2..N : MaxOffset[n-1] + Schedule[n] + skew[w] <= MaxOffset[n]
    BY <2>3, WindowAssumption
  <2> QED
    BY <1>3, <2>1, <2>2, <2>4, <2>5, <2>6, <2>7
<1>6. nextAttemptAt'[k] = now + skew[w] + Schedule[attempts[k] + 1]
  BY DEF Reschedule, RetryDelay, TypeOK
<1>7. /\ firstAt[k] \in Nat /\ lastAt[k] \in Nat /\ now \in Nat /\ Spent \in Nat
      /\ PollInterval \in Nat /\ MaxAttempt \in Nat
  BY SpentType, ConstantTypes DEF TypeOK
<1>8. Spent' = Spent + (PollInterval + MaxAttempt)
  BY <1>1, SpentGrows
<1>9. lastAt[k] - firstAt[k] <= MaxOffset[attempts[k]] + Spent
  BY <1>3, <1>4 DEF Kept, KeptJob
<1>10. now <= lastAt[k] + MaxAttempt
  BY <1>1 DEF Awake
<1>11. NextBy(k)' = firstAt[k] + MaxOffset[attempts[k] + 1] + Spent'
  BY <1>2, <1>4 DEF NextBy
<1>12. now + PollInterval <= NextBy(k)'
  BY <1>5, <1>7, <1>8, <1>9, <1>10, <1>11
<1>13. nextAttemptAt'[k] + PollInterval <= NextBy(k)'
  BY <1>5, <1>6, <1>7, <1>8, <1>9, <1>10, <1>11
<1>14. ASSUME NEW v \in Workers PROVE FreeBy(v)' <= NextBy(k)'
  <2>1. FreeBy(v)' <= now + PollInterval
    BY <1>1, FreeAfterEnd, FreeSoon
  <2>2. FreeBy(v)' \in Int /\ NextBy(k)' \in Int
    <3>1. FreeBy(v)' \in Int
      <4>1. endsBy'[v] \in Int /\ wakeAt'[v] \in Int /\ now' \in Int
        BY DEF TypeOK
      <4> QED
        BY <4>1, ConstantTypes DEF FreeBy
    <3> QED
      BY <3>1, <1>5, <1>7, <1>8, <1>11
  <2> QED
    BY <1>7, <1>12, <2>1, <2>2
<1>15. lastAt'[k] - firstAt'[k] <= MaxOffset[attempts[k]] + Spent'
  BY <1>2, <1>5, <1>7, <1>8, <1>9
<1>16. Begun(k)' >= 1 /\ Begun(k)' # 0
  BY <1>3, <1>4
<1> QED
  BY <1>4, <1>13, <1>14, <1>15, <1>16 DEF KeptJob

(* The job that is sent is sent in time. *)
LEMMA KeptAfterBegin ==
  ASSUME TypeOK, TypeOK', Claims, Claims', Counts, Awake, Kept,
         NEW w \in Workers, NEW k \in Jobs, BeginAttempt(w, k), Spent' = Spent
  PROVE  KeptJob(k)'
<1>1. /\ k \in claimed[w] /\ cur[w] = NoJob /\ cur[w] # k /\ status[k] = "in_progress"
      /\ UNCHANGED <<now, status, attempts, claimed>> /\ lastAt'[k] = now
      /\ firstAt'[k] = IF attempts[k] = 1 THEN now ELSE firstAt[k]
  BY ScheduleAssumption DEF BeginAttempt, Claims, TypeOK, jobVars
<1>2. Pending(k) /\ ~Pending(k)'
  BY PendingAfterBegin
<1>3. attempts[k] \in Nat /\ attempts[k] \in 1..Last
  BY <1>1, LastType DEF Counts, CountsJob, TypeOK
<1>4. Begun(k) = attempts[k] - 1 /\ Begun(k)' = attempts[k] /\ Begun(k) + 1 = attempts[k]
  BY <1>1, <1>2, <1>3 DEF Begun
<1>5. MaxOffset[attempts[k]] \in Nat /\ Spent \in Nat /\ now \in Nat /\ firstAt[k] \in Nat
  BY <1>3, ConstantTypes, SpentType DEF TypeOK
<1>6. lastAt'[k] - firstAt'[k] <= MaxOffset[attempts[k]] + Spent
  <2>1. CASE attempts[k] = 1
    BY <1>1, <1>5, <2>1
  <2>2. CASE attempts[k] # 1
    <3>1. FreeBy(w) = now
      BY <1>1 DEF FreeBy
    <3>2. FreeBy(w) <= NextBy(k)
      BY <1>1, <1>3, <1>4, <2>2 DEF Kept, KeptJob
    <3> QED
      BY <1>1, <1>4, <1>5, <2>2, <3>1, <3>2 DEF NextBy
  <2> QED
    BY <2>1, <2>2
<1>7. status'[k] # "queued" /\ \A v \in Workers : ~(k \in claimed'[v] /\ cur'[v] # k)
  BY <1>1, <1>2 DEF Pending
<1>8. Begun(k)' # 0 /\ Begun(k)' >= 1
  BY <1>3, <1>4
<1> QED
  BY <1>4, <1>6, <1>7, <1>8 DEF KeptJob

(* A worker that is awake claims what is due, so whoever goes back to      *)
(* sleep leaves nothing behind.                                            *)
LEMMA KeptAfterPoll ==
  ASSUME TypeOK, TypeOK', Claims, Claims', Counts, Awake, Kept,
         NEW w \in Workers, Poll(w), NEW k \in Jobs, Spent' = Spent
  PROVE  KeptJob(k)'
<1>1. PICK S \in SUBSET Due :
        /\ Earliest(S)
        /\ claimed' = [claimed EXCEPT ![w] = S]
        /\ status' = [j \in Jobs |-> IF j \in S THEN "in_progress" ELSE status[j]]
        /\ attempts' = [j \in Jobs |-> IF j \in S THEN attempts[j] + 1 ELSE attempts[j]]
        /\ wakeAt' = [wakeAt EXCEPT ![w] = IF S = {} THEN now + PollInterval ELSE @]
  BY DEF Poll
<1>2. /\ claimed[w] = {} /\ cur[w] = NoJob /\ wakeAt[w] <= now
      /\ UNCHANGED <<now, nextAttemptAt, cur, endsBy, firstAt, lastAt>>
  BY DEF Poll, Claims
<1>3. wakeAt[w] = now /\ FreeBy(w) = now
  <2>1. now <= wakeAt[w]
    BY <1>2 DEF Awake
  <2> QED
    BY <1>2, <2>1 DEF FreeBy, TypeOK
<1>4. /\ S # {} => FreeBy(w)' = now
      /\ S = {} => FreeBy(w)' = now + PollInterval
      /\ \A v \in Workers \ {w} : FreeBy(v)' = FreeBy(v)
  BY <1>1, <1>2 DEF FreeBy, TypeOK
<1>5. KeptJob(k) /\ now \in Nat /\ nextAttemptAt[k] \in Int
  BY DEF Kept, TypeOK
<1>6. CASE k \in S
  <2>1. status[k] = "queued" /\ status'[k] = "in_progress" /\ attempts'[k] = attempts[k] + 1
    BY <1>1, <1>6 DEF Due
  <2>2. ~Pending(k) /\ Pending(k)'
    BY <2>1, <1>6, PendingAfterPoll DEF Claims, Pending
  <2>3. attempts[k] \in Nat
    BY DEF TypeOK
  <2>4. Begun(k) = attempts[k] /\ Begun(k)' = attempts[k]
    BY <2>1, <2>2, <2>3 DEF Begun
  <2>5. NextBy(k)' = NextBy(k)
    BY <1>2, <2>4 DEF NextBy
  <2>6. ASSUME NEW v \in Workers, k \in claimed'[v], Begun(k) >= 1
        PROVE  FreeBy(v)' <= NextBy(k)'
    <3>1. v = w
      BY <1>1, <1>6, <2>1, <2>6 DEF Claims, TypeOK
    <3>2. FreeBy(w) <= NextBy(k)
      BY <2>1, <2>6, <1>5 DEF KeptJob
    <3> QED
      BY <1>3, <1>4, <1>6, <2>5, <3>1, <3>2
  <2> QED
    BY <1>2, <1>5, <2>1, <2>4, <2>6 DEF KeptJob
<1>7. CASE k \notin S
  <2>1. status'[k] = status[k] /\ attempts'[k] = attempts[k]
    BY <1>1, <1>7
  <2>2. Pending(k)' <=> Pending(k)
    BY <2>1, PendingAfterPoll
  <2>3. Pending(k) => attempts[k] >= 1
    BY DEF Pending, Claims, Counts, CountsJob
  <2>4. S = {} => Due = {}
    <3>1. ASSUME S = {} PROVE Cardinality(S) # ClaimLimit
      BY <3>1, FS_EmptySet, WindowAssumption
    <3> QED
      BY <1>1, <3>1 DEF Earliest
  <2>5. S = {} /\ status[k] = "queued" => now < nextAttemptAt[k]
    BY <1>5, <2>4 DEF Due
  <2>6. ASSUME NEW v \in Workers, status[k] = "queued"
        PROVE  FreeBy(v)' <= FreeBy(v) + 0 \/ FreeBy(v)' <= nextAttemptAt[k] + PollInterval
    <3>1. FreeBy(v) \in Int
      BY FreeByType
    <3>2. CASE v # w
      BY <1>4, <3>1, <3>2
    <3>3. CASE v = w /\ S # {}
      BY <1>3, <1>4, <1>5, <3>3
    <3>4. CASE v = w /\ S = {}
      BY <1>4, <1>5, <2>5, <2>6, <3>4, ConstantTypes
    <3> QED
      BY <3>2, <3>3, <3>4
  <2>7. ASSUME NEW v \in Workers, k \in claimed'[v], cur'[v] # k
        PROVE  k \in claimed[v] /\ cur[v] # k /\ FreeBy(v)' <= FreeBy(v) + 0
    <3>1. v # w /\ k \in claimed[v]
      BY <1>1, <1>7, <2>7 DEF TypeOK
    <3> QED
      BY <1>2, <1>4, <2>7, <3>1, FreeByType
  <2>8. 0 \in Nat /\ Spent' = Spent + 0
    BY SpentType
  <2>9. firstAt'[k] = firstAt[k] /\ lastAt'[k] = lastAt[k] /\ nextAttemptAt'[k] = nextAttemptAt[k]
    BY <1>2
  <2> QED
    BY <1>5, <2>1, <2>2, <2>3, <2>6, <2>7, <2>8, <2>9, KeptStays
<1> QED
  BY <1>6, <1>7

(* Steps that concern others only. *)
LEMMA KeptOfOthers ==
  ASSUME TypeOK, TypeOK', Claims, Counts, Kept, NEW k \in Jobs, Spent' = Spent,
         UNCHANGED claimed, attempts'[k] = attempts[k],
         status'[k] = status[k], nextAttemptAt'[k] = nextAttemptAt[k],
         firstAt'[k] = firstAt[k], lastAt'[k] = lastAt[k],
         \A v \in Workers : FreeBy(v)' = FreeBy(v) /\ (cur'[v] = k <=> cur[v] = k)
  PROVE  KeptJob(k)'
<1>1. Pending(k)' <=> Pending(k)
  BY DEF Pending
<1>2. Pending(k) => attempts[k] >= 1
  BY DEF Pending, Claims, Counts, CountsJob
<1>3. 0 \in Nat /\ Spent' = Spent + 0
  BY SpentType
<1>4. \A v \in Workers : FreeBy(v)' <= FreeBy(v) + 0
  BY FreeByType
<1> QED
  BY <1>1, <1>2, <1>3, <1>4, KeptStays DEF Kept

LEMMA KeptStep ==
  ASSUME TypeOK, TypeOK', Claims, Claims', Counts, Awake, Kept, [Next]_vars PROVE Kept'
<1> SUFFICES ASSUME NEW k \in Jobs PROVE KeptJob(k)'
  BY DEF Kept
<1>1. ASSUME NEW j \in Jobs, Enqueue(j) PROVE KeptJob(k)'
  <2>1. /\ status[j] = "absent" /\ status' = [status EXCEPT ![j] = "queued"]
        /\ UNCHANGED <<now, attempts, wakeAt, claimed, cur, endsBy, firstAt, lastAt>>
        /\ nextAttemptAt' = [nextAttemptAt EXCEPT ![j] = now]
    BY <1>1 DEF Enqueue, workerVars
  <2>2. Spent' = Spent
    <3>1. \A i \in Jobs : Ended(i)' = Ended(i)
      BY <2>1 DEF Ended, TypeOK
    <3> QED
      BY <3>1, SpentStays
  <2>3. CASE k = j
    <3>1. attempts[k] = 0 /\ ~Pending(k) /\ ~Pending(k)'
      BY <2>1, <2>3 DEF Pending, Claims, Counts, CountsJob
    <3>2. Begun(k) = 0 /\ Begun(k)' = 0
      BY <2>1, <3>1 DEF Begun
    <3> QED
      BY <2>1, <3>2 DEF Kept, KeptJob
  <2>4. CASE k # j
    BY <2>1, <2>2, <2>4, KeptOfOthers DEF FreeBy, TypeOK
  <2> QED
    BY <2>3, <2>4
<1>2. ASSUME NEW w \in Workers, Poll(w) PROVE KeptJob(k)'
  <2>1. ASSUME NEW i \in Jobs PROVE Ended(i)' = Ended(i)
    <3>1. attempts[i] \in Nat
      BY DEF TypeOK
    <3> QED
      BY <1>2, <3>1, PendingAfterPoll DEF Ended
  <2> QED
    BY <1>2, <2>1, SpentStays, KeptAfterPoll
<1>3. ASSUME NEW w \in Workers, NEW s \in Terminal, EndAttempt(w, s), UNCHANGED nextAttemptAt
      PROVE  KeptJob(k)'
  BY <1>3, KeptAfterEnd DEF Terminal
<1>4. ASSUME NEW w \in Workers, Reschedule(w) PROVE KeptJob(k)'
  <2>1. CASE k = cur[w]
    BY <1>4, <2>1, KeptAfterReschedule
  <2>2. CASE k # cur[w]
    <3>1. EndAttempt(w, "queued") /\ nextAttemptAt'[k] = nextAttemptAt[k]
      BY <1>4, <2>2 DEF Reschedule, TypeOK
    <3> QED
      BY <2>2, <3>1, KeptAfterEnd
  <2> QED
    BY <2>1, <2>2
<1>5. ASSUME NEW w \in Workers, NEW j \in Jobs, BeginAttempt(w, j) PROVE KeptJob(k)'
  <2>1. /\ cur[w] = NoJob /\ j \in claimed[w]
        /\ UNCHANGED <<now, status, attempts, nextAttemptAt, wakeAt, claimed>>
        /\ cur' = [cur EXCEPT ![w] = j] /\ endsBy' = [endsBy EXCEPT ![w] = now + MaxAttempt]
        /\ firstAt' = [firstAt EXCEPT ![j] = IF attempts[j] = 1 THEN now ELSE @]
        /\ lastAt' = [lastAt EXCEPT ![j] = now]
    BY <1>5 DEF BeginAttempt, jobVars
  <2>2. Spent' = Spent
    <3>1. \A i \in Jobs : Ended(i)' = Ended(i)
      BY <2>1 DEF Ended
    <3> QED
      BY <3>1, SpentStays
  <2>3. CASE k = j
    BY <1>5, <2>2, <2>3, KeptAfterBegin
  <2>4. CASE k # j
    <3>1. FreeBy(w)' = FreeBy(w)
      <4>1. FreeBy(w) = now /\ now \in Nat
        BY <2>1 DEF FreeBy, TypeOK
      <4>2. FreeBy(w)' = (now + MaxAttempt) - MaxAttempt
        BY <2>1, ScheduleAssumption DEF FreeBy, TypeOK
      <4> QED
        BY <4>1, <4>2, ConstantTypes
    <3>2. \A v \in Workers \ {w} : FreeBy(v)' = FreeBy(v) /\ cur'[v] = cur[v]
      BY <2>1 DEF FreeBy, TypeOK
    <3>3. cur'[w] # k /\ cur[w] # k
      BY <2>1, <2>4, ScheduleAssumption DEF TypeOK
    <3>4. firstAt'[k] = firstAt[k] /\ lastAt'[k] = lastAt[k]
      BY <2>1, <2>4 DEF TypeOK
    <3> QED
      BY <2>1, <2>2, <3>1, <3>2, <3>3, <3>4, KeptOfOthers
  <2> QED
    BY <2>3, <2>4
<1>6. ASSUME Tick PROVE KeptJob(k)'
  <2>1. UNCHANGED <<status, attempts, nextAttemptAt, wakeAt, claimed, cur, endsBy, firstAt, lastAt>>
    BY <1>6 DEF Tick, jobVars, workerVars
  <2>2. \A v \in Workers : FreeBy(v)' = FreeBy(v)
    <3>1. \A v \in Workers : cur[v] = NoJob => claimed[v] = {}
      BY <1>6 DEF Tick
    <3> QED
      BY <2>1, <3>1 DEF FreeBy
  <2>3. Spent' = Spent
    <3>1. \A i \in Jobs : Ended(i)' = Ended(i)
      BY <2>1 DEF Ended
    <3> QED
      BY <3>1, SpentStays
  <2> QED
    BY <2>1, <2>2, <2>3, KeptOfOthers
<1>7. CASE UNCHANGED vars
  <2>1. UNCHANGED <<now, status, attempts, nextAttemptAt, wakeAt, claimed, cur, endsBy, firstAt, lastAt>>
    BY <1>7 DEF vars, jobVars, workerVars
  <2>2. (\A v \in Workers : FreeBy(v)' = FreeBy(v)) /\ Spent' = Spent
    BY <2>1 DEF FreeBy, Spent, EndedAttempts, Ended
  <2> QED
    BY <2>1, <2>2, KeptOfOthers
<1> QED
  BY <1>1, <1>2, <1>3, <1>4, <1>5, <1>6, <1>7
  DEF Next, Receipt, ExchangeFailure, Terminal

LEMMA KeptInit == Init => Awake /\ Kept
<1> SUFFICES ASSUME Init PROVE Awake /\ Kept
  OBVIOUS
<1>1. Awake
  BY ConstantTypes DEF Init, Awake
<1>2. ASSUME NEW j \in Jobs PROVE Begun(j) = 0 /\ status[j] # "queued" /\ firstAt[j] = lastAt[j]
  BY DEF Init, Begun, Pending
<1> QED
  BY <1>1, <1>2 DEF Kept, KeptJob

LEMMA KeptInvariant == Spec => [](Awake /\ Kept)
<1>1. /\ IInv /\ IInv' /\ TypeOK /\ TypeOK' /\ (Awake /\ Kept) /\ [Next]_vars
      => (Awake /\ Kept)'
  BY AwakeStep, KeptStep DEF IInv
<1> QED
  BY <1>1, KeptInit, Invariant, TypeCorrect, PTL DEF Spec

(* The last attempt of a job comes before the window is over, however the  *)
(* attempts of the other jobs fall.                                        *)
THEOREM WindowKeptHolds == Spec => []WindowKept
<1>1. IInv /\ TypeOK /\ Kept => WindowKept
  <2> SUFFICES ASSUME IInv, TypeOK, Kept, NEW j \in Jobs
               PROVE  lastAt[j] - firstAt[j] <= WindowMax
    BY DEF WindowKept
  <2> DEFINE most == (PollInterval + MaxAttempt) * (Cardinality(Jobs) * Last)
  <2>1. Begun(j) \in Nat /\ Begun(j) <= Last
    <3>1. attempts[j] \in Nat /\ attempts[j] <= Last /\ (Pending(j) => attempts[j] >= 1)
      BY DEF IInv, Claims, Counts, CountsJob, Pending, TypeOK
    <3> QED
      BY <3>1, LastType DEF Begun
  <2>2. \A n \in 1..Last : MaxOffset[n] \in Nat /\ MaxOffset[n] + most <= WindowMax
    BY WindowAssumption, ConstantTypes
  <2>3. Spent \in Nat /\ Spent <= most
    BY SpentType
  <2>4. most \in Nat /\ WindowMax \in Int /\ lastAt[j] \in Nat /\ firstAt[j] \in Nat
    BY LastType, ConstantTypes, MoreTimes, WindowAssumption DEF TypeOK
  <2> HIDE DEF most
  <2>5. CASE Begun(j) = 0
    <3>1. firstAt[j] = lastAt[j] /\ MaxOffset[1] \in Nat /\ MaxOffset[1] + most <= WindowMax
      BY <2>2, <2>5, LastType DEF Kept, KeptJob
    <3> QED
      BY <2>4, <3>1
  <2>6. CASE Begun(j) # 0
    <3>1. lastAt[j] - firstAt[j] <= MaxOffset[Begun(j)] + Spent
      BY <2>1, <2>6 DEF Kept, KeptJob
    <3>2. MaxOffset[Begun(j)] \in Nat /\ MaxOffset[Begun(j)] + most <= WindowMax
      BY <2>1, <2>2, <2>6
    <3> QED
      BY <2>3, <2>4, <3>1, <3>2
  <2> QED
    BY <2>5, <2>6
<1> QED
  BY <1>1, KeptInvariant, Invariant, TypeCorrect, PTL

-----------------------------------------------------------------------------
(* Refinement: every step of the timed queue is one of JobLifecycle, or    *)
(* leaves its variables alone.                                             *)
LifecycleStep == [Lifecycle!LNext]_(Lifecycle!lifecycleVars)

LEMMA RefinementStep == IInv /\ TypeOK /\ [Next]_vars => LifecycleStep
<1> SUFFICES ASSUME IInv, TypeOK, [Next]_vars PROVE LifecycleStep
  OBVIOUS
<1> USE DEF LifecycleStep, Lifecycle!lifecycleVars
<1>1. ASSUME NEW j \in Jobs, Enqueue(j) PROVE LifecycleStep
  BY <1>1 DEF Enqueue, Lifecycle!LNext, Lifecycle!Enqueue
<1>2. ASSUME NEW w \in Workers, Poll(w) PROVE LifecycleStep
  <2>1. PICK S \in SUBSET Due :
          /\ status' = [j \in Jobs |-> IF j \in S THEN "in_progress" ELSE status[j]]
          /\ attempts' = [j \in Jobs |-> IF j \in S THEN attempts[j] + 1 ELSE attempts[j]]
    BY <1>2 DEF Poll
  <2>2. S \in SUBSET Jobs /\ \A j \in S : status[j] = "queued" /\ attempts[j] < Last
    BY DEF Due, IInv, Counts, CountsJob
  <2>3. Lifecycle!Attempt(S)
    BY <2>1, <2>2 DEF Lifecycle!Attempt
  <2> QED
    BY <2>2, <2>3 DEF Lifecycle!LNext
<1>3. ASSUME NEW w \in Workers, NEW s \in Terminal, EndAttempt(w, s) PROVE LifecycleStep
  <2>1. cur[w] \in Jobs /\ status[cur[w]] = "in_progress"
    BY <1>3, ScheduleAssumption DEF EndAttempt, IInv, Claims, TypeOK
  <2>2. Lifecycle!Conclude(cur[w], s)
    BY <1>3, <2>1 DEF EndAttempt, Lifecycle!Conclude
  <2> QED
    BY <2>1, <2>2 DEF Lifecycle!LNext, Terminal, Lifecycle!TerminalStatus
<1>4. ASSUME NEW w \in Workers, Reschedule(w) PROVE LifecycleStep
  <2>1. cur[w] \in Jobs /\ status[cur[w]] = "in_progress"
    BY <1>4, ScheduleAssumption DEF Reschedule, EndAttempt, IInv, Claims, TypeOK
  <2>2. attempts[cur[w]] < Last
    BY <1>4, <2>1, LastType DEF Reschedule, Exhausted, TypeOK
  <2>3. Lifecycle!Retry(cur[w])
    BY <1>4, <2>1, <2>2 DEF Reschedule, EndAttempt, Lifecycle!Retry
  <2> QED
    BY <2>1, <2>3 DEF Lifecycle!LNext
<1>5. ASSUME NEW w \in Workers, NEW j \in Jobs, BeginAttempt(w, j) PROVE LifecycleStep
  BY <1>5 DEF BeginAttempt, jobVars
<1>6. ASSUME Tick PROVE LifecycleStep
  BY <1>6 DEF Tick, jobVars
<1>7. CASE UNCHANGED vars
  BY <1>7 DEF vars, jobVars
<1> QED
  BY <1>1, <1>2, <1>3, <1>4, <1>5, <1>6, <1>7
  DEF Next, Receipt, ExchangeFailure, Terminal

(* The queue with a clock implements the job lifecycle of the docs.        *)
THEOREM LifecycleHolds == Spec => ImplementsLifecycle
<1>1. Init => Lifecycle!LInit
  BY DEF Init, Lifecycle!LInit
<1> QED
  BY <1>1, RefinementStep, Invariant, TypeCorrect, PTL
  DEF Spec, ImplementsLifecycle, Lifecycle!LSpec, LifecycleStep
=============================================================================
