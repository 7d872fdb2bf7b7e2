------------------------- MODULE OutboundQueueProofs ------------------------
(* Proofs about OutboundQueue, for every set of jobs, workers and partners, *)
(* every schedule and claim limit and any number of crashes.               *)
EXTENDS OutboundQueue, TLAPS

Holds(w) == Claimed(w) \cup locked[w]

(* w has called send_once for job object j and not yet written the outcome *)
Begun(w, j) == /\ pc[w] \in {"sending", "concluding"}
               /\ cur[w] = j
               /\ outcome[w] # "unknown_partner"

(* Row locks and job objects are exclusive, and mirror the rows.           *)
HoldInv ==
  /\ \A v, w \in Workers : v # w => Holds(v) \cap Holds(w) = {}
  /\ \A w \in Workers : \A j \in locked[w] : jobStatus[j] = "queued"
  /\ \A w \in Workers : \A j \in Claimed(w) :
       jobStatus[j] = "in_progress" /\ batch[w][j] = attemptCount[j]

(* Where a worker is tells what cur and outcome hold.                      *)
WorkerInv ==
  \A w \in Workers :
    /\ pc[w] \in {"sending", "concluding"} => cur[w] \in Claimed(w)
    /\ pc[w] \notin {"concluding", "tracking"} => outcome[w] = "none"
    /\ pc[w] = "tracking" => /\ cur[w] \in Jobs
                             /\ outcome[w] \in {"ok", "nack", "error"}
                             /\ jobStatus[cur[w]] = TrackedStatus(outcome[w])

(* Every attempt counted against a job is a call of send_once, except the  *)
(* one just claimed and not begun.                                         *)
AttemptInv ==
  /\ \A j \in Jobs :
       /\ sends[j] <= attemptCount[j]
       /\ attemptCount[j] <= AttemptLimit
       /\ jobStatus[j] \in {"absent", "queued"} =>
            attemptCount[j] < AttemptLimit /\ sends[j] = attemptCount[j]
       /\ jobStatus[j] = "exchange_failure" /\ lastError[j] # "unknown_partner"
            => sends[j] = AttemptLimit
  /\ \A w \in Workers : \A j \in Claimed(w) :
       /\ Begun(w, j) => sends[j] = attemptCount[j]
       /\ ~Begun(w, j) => sends[j] + 1 = attemptCount[j]

MessageInv == MessageNeverAhead

(* An ok receipt, on its way, read or written down, is one the partner     *)
(* issued when it accepted the message.                                    *)
ReceiptInv ==
  /\ \A w \in Workers : /\ answer[w] = "ok" => pc[w] = "sending" /\ cur[w] \in accepted
                        /\ outcome[w] = "ok" => cur[w] \in accepted
  /\ DeliveredWasAccepted

IInv == TypeOK /\ HoldInv /\ WorkerInv /\ AttemptInv /\ MessageInv /\ ReceiptInv

(* The retry schedule bounds the attempts, an empty schedule included: one*)
(* attempt is made all the same (_handle_failure).                        *)
LEMMA LimitFacts ==
  /\ AttemptLimit \in Nat \ {0}
  /\ \A n \in Nat \ {0} : n <= AttemptLimit /\ n >= ScheduleLength => n = AttemptLimit
  /\ \A n \in Nat \ {0} : ~(n >= ScheduleLength) => n < AttemptLimit
BY ConstantsAssumption DEF AttemptLimit

(* Every step of a worker, a caller or the partner writes values of the   *)
(* declared types.                                                        *)
LEMMA TypeStep == IInv /\ [Next]_vars => TypeOK'
<1> SUFFICES ASSUME IInv, [Next]_vars PROVE TypeOK' OBVIOUS
<1> USE ConstantsAssumption DEF vars, dbVars, workerVars, historyVars, IInv, TypeOK, Terminal, Steps, Outcomes, WorkerInv, Claimed
<1>1. ASSUME NEW j \in Jobs, EnqueueMessage(j) PROVE TypeOK'
  BY <1>1 DEF EnqueueMessage
<1>2. ASSUME NEW j \in Jobs, EnqueueJob(j) PROVE TypeOK'
  BY <1>2 DEF EnqueueJob
<1>3. ASSUME NEW j \in Jobs, BecomesDue(j) PROVE TypeOK'
  BY <1>3 DEF BecomesDue
<1>4. ASSUME NEW w \in Workers, WorkerStart(w) PROVE TypeOK'
  BY <1>4 DEF WorkerStart
<1>5. ASSUME NEW w \in Workers, SelectDue(w) PROVE TypeOK'
  BY <1>5 DEF SelectDue, Claimable
<1>6. ASSUME NEW w \in Workers, CommitClaim(w) PROVE TypeOK'
  BY <1>6 DEF CommitClaim
<1>7. ASSUME NEW w \in Workers, BatchDone(w) PROVE TypeOK'
  BY <1>7 DEF BatchDone
<1>8. ASSUME NEW w \in Workers, NEW j \in Jobs, TakeUnknownPartner(w, j) PROVE TypeOK'
  BY <1>8 DEF TakeUnknownPartner
<1>9. ASSUME NEW w \in Workers, NEW j \in Jobs, BeginSend(w, j) PROVE TypeOK'
  BY <1>9 DEF BeginSend
<1>10. ASSUME NEW w \in Workers, ReceiptRead(w) PROVE TypeOK'
  BY <1>10 DEF ReceiptRead, SendReturns
<1>11. ASSUME NEW w \in Workers, AttemptFails(w) PROVE TypeOK'
  BY <1>11 DEF AttemptFails, SendReturns
<1>12. ASSUME NEW w \in Workers, MarkDelivered(w) PROVE TypeOK'
  BY <1>12 DEF MarkDelivered, ConcludeJob, ThenTrack
<1>13. ASSUME NEW w \in Workers, MarkFailedNack(w) PROVE TypeOK'
  BY <1>13 DEF MarkFailedNack, ConcludeJob, ThenTrack
<1>14. ASSUME NEW w \in Workers, MarkExchangeFailure(w) PROVE TypeOK'
  BY <1>14 DEF MarkExchangeFailure, ConcludeJob, ThenTrack, RetriesExhausted
<1>15. ASSUME NEW w \in Workers, Reschedule(w) PROVE TypeOK'
  BY <1>15 DEF Reschedule, ConcludeJob, ThenNextJob, RetriesExhausted
<1>16. ASSUME NEW w \in Workers, MarkUnknownPartner(w) PROVE TypeOK'
  BY <1>16 DEF MarkUnknownPartner, ConcludeJob, ThenNextJob
<1>17. ASSUME NEW w \in Workers, TrackMessage(w) PROVE TypeOK'
  BY <1>17 DEF TrackMessage, ThenNextJob, TrackedStatus
<1>18. ASSUME NEW w \in Workers, PartnerReceives(w) PROVE TypeOK'
  <2>1. cur[w] \in Jobs BY <1>18 DEF PartnerReceives
  <2>2. accepted' \subseteq Jobs /\ answer' \in [Workers -> {"none", "ok", "nack"}]
    BY <1>18, <2>1, ZenonT(30) DEF PartnerReceives
  <2> QED BY <1>18, <2>2 DEF PartnerReceives
<1>19. ASSUME NEW w \in Workers, Crash(w) PROVE TypeOK'
  BY <1>19 DEF Crash, ProcessEnds, EmptyBatch
<1>20. ASSUME NEW w \in Workers, SendRaises(w) PROVE TypeOK'
  BY <1>20 DEF SendRaises, ProcessEnds, EmptyBatch
<1>21. CASE UNCHANGED vars BY <1>21
<1>22. ASSUME NEW j \in Jobs, PartnerAcceptsLate(j) PROVE TypeOK'
  BY <1>22 DEF PartnerAcceptsLate
<1> QED BY <1>1, <1>2, <1>3, <1>4, <1>5, <1>6, <1>7, <1>8, <1>9, <1>10, <1>11, <1>12, <1>13, <1>14, <1>15, <1>16, <1>17, <1>18, <1>19, <1>20, <1>21, <1>22 DEF Next, WorkerStep, ProcessJob

(* Claims keep jobs apart, and a held job keeps the attempt_count its     *)
(* holder believes in.                                                    *)
LEMMA HoldStep == IInv /\ [Next]_vars => HoldInv'
<1> SUFFICES ASSUME IInv, [Next]_vars PROVE HoldInv' OBVIOUS
<1> USE ConstantsAssumption DEF vars, dbVars, workerVars, historyVars, IInv, TypeOK, HoldInv, WorkerInv, Holds, Claimed, Terminal
<1>1. ASSUME NEW j \in Jobs, EnqueueMessage(j) PROVE HoldInv'
  BY <1>1 DEF EnqueueMessage
<1>2. ASSUME NEW j \in Jobs, EnqueueJob(j) PROVE HoldInv'
  BY <1>2 DEF EnqueueJob
<1>3. ASSUME NEW j \in Jobs, BecomesDue(j) PROVE HoldInv'
  BY <1>3 DEF BecomesDue
<1>4. ASSUME NEW w \in Workers, WorkerStart(w) PROVE HoldInv'
  BY <1>4 DEF WorkerStart
<1>5. ASSUME NEW w \in Workers, SelectDue(w) PROVE HoldInv'
  BY <1>5 DEF SelectDue, Claimable
<1>6. ASSUME NEW w \in Workers, CommitClaim(w) PROVE HoldInv'
  BY <1>6 DEF CommitClaim
<1>7. ASSUME NEW w \in Workers, BatchDone(w) PROVE HoldInv'
  BY <1>7 DEF BatchDone
<1>8. ASSUME NEW w \in Workers, NEW j \in Jobs, TakeUnknownPartner(w, j) PROVE HoldInv'
  BY <1>8 DEF TakeUnknownPartner
<1>9. ASSUME NEW w \in Workers, NEW j \in Jobs, BeginSend(w, j) PROVE HoldInv'
  BY <1>9 DEF BeginSend
<1>10. ASSUME NEW w \in Workers, ReceiptRead(w) PROVE HoldInv'
  BY <1>10 DEF ReceiptRead, SendReturns
<1>11. ASSUME NEW w \in Workers, AttemptFails(w) PROVE HoldInv'
  BY <1>11 DEF AttemptFails, SendReturns
<1>12. ASSUME NEW w \in Workers, MarkDelivered(w) PROVE HoldInv'
  BY <1>12 DEF MarkDelivered, ConcludeJob, ThenTrack
<1>13. ASSUME NEW w \in Workers, MarkFailedNack(w) PROVE HoldInv'
  BY <1>13 DEF MarkFailedNack, ConcludeJob, ThenTrack
<1>14. ASSUME NEW w \in Workers, MarkExchangeFailure(w) PROVE HoldInv'
  BY <1>14 DEF MarkExchangeFailure, ConcludeJob, ThenTrack, RetriesExhausted
<1>15. ASSUME NEW w \in Workers, Reschedule(w) PROVE HoldInv'
  BY <1>15 DEF Reschedule, ConcludeJob, ThenNextJob, RetriesExhausted
<1>16. ASSUME NEW w \in Workers, MarkUnknownPartner(w) PROVE HoldInv'
  BY <1>16 DEF MarkUnknownPartner, ConcludeJob, ThenNextJob
<1>17. ASSUME NEW w \in Workers, TrackMessage(w) PROVE HoldInv'
  BY <1>17 DEF TrackMessage, ThenNextJob, TrackedStatus
<1>18. ASSUME NEW w \in Workers, PartnerReceives(w) PROVE HoldInv'
  BY <1>18 DEF PartnerReceives
<1>19. ASSUME NEW w \in Workers, Crash(w) PROVE HoldInv'
  BY <1>19 DEF Crash, ProcessEnds, EmptyBatch
<1>20. ASSUME NEW w \in Workers, SendRaises(w) PROVE HoldInv'
  BY <1>20 DEF SendRaises, ProcessEnds, EmptyBatch
<1>21. CASE UNCHANGED vars BY <1>21
<1>22. ASSUME NEW j \in Jobs, PartnerAcceptsLate(j) PROVE HoldInv'
  BY <1>22 DEF PartnerAcceptsLate
<1> QED BY <1>1, <1>2, <1>3, <1>4, <1>5, <1>6, <1>7, <1>8, <1>9, <1>10, <1>11, <1>12, <1>13, <1>14, <1>15, <1>16, <1>17, <1>18, <1>19, <1>20, <1>21, <1>22 DEF Next, WorkerStep, ProcessJob

(* Where a worker is tells what it holds: a current job while it sends,   *)
(* concludes or tracks one, and none otherwise.                           *)
LEMMA WorkerInvStep == IInv /\ [Next]_vars => WorkerInv'
<1> SUFFICES ASSUME IInv, [Next]_vars PROVE WorkerInv' OBVIOUS
<1> USE ConstantsAssumption DEF vars, dbVars, workerVars, historyVars, IInv, TypeOK, HoldInv, WorkerInv, Holds, Claimed, TrackedStatus
<1>1. ASSUME NEW j \in Jobs, EnqueueMessage(j) PROVE WorkerInv'
  BY <1>1 DEF EnqueueMessage
<1>2. ASSUME NEW j \in Jobs, EnqueueJob(j) PROVE WorkerInv'
  BY <1>2 DEF EnqueueJob
<1>3. ASSUME NEW j \in Jobs, BecomesDue(j) PROVE WorkerInv'
  BY <1>3 DEF BecomesDue
<1>4. ASSUME NEW w \in Workers, WorkerStart(w) PROVE WorkerInv'
  BY <1>4 DEF WorkerStart
<1>5. ASSUME NEW w \in Workers, SelectDue(w) PROVE WorkerInv'
  BY <1>5 DEF SelectDue, Claimable
<1>6. ASSUME NEW w \in Workers, CommitClaim(w) PROVE WorkerInv'
  BY <1>6 DEF CommitClaim
<1>7. ASSUME NEW w \in Workers, BatchDone(w) PROVE WorkerInv'
  BY <1>7 DEF BatchDone
<1>8. ASSUME NEW w \in Workers, NEW j \in Jobs, TakeUnknownPartner(w, j) PROVE WorkerInv'
  BY <1>8 DEF TakeUnknownPartner
<1>9. ASSUME NEW w \in Workers, NEW j \in Jobs, BeginSend(w, j) PROVE WorkerInv'
  BY <1>9 DEF BeginSend
<1>10. ASSUME NEW w \in Workers, ReceiptRead(w) PROVE WorkerInv'
  BY <1>10 DEF ReceiptRead, SendReturns
<1>11. ASSUME NEW w \in Workers, AttemptFails(w) PROVE WorkerInv'
  BY <1>11 DEF AttemptFails, SendReturns
<1>12. ASSUME NEW w \in Workers, MarkDelivered(w) PROVE WorkerInv'
  BY <1>12 DEF MarkDelivered, ConcludeJob, ThenTrack
<1>13. ASSUME NEW w \in Workers, MarkFailedNack(w) PROVE WorkerInv'
  BY <1>13 DEF MarkFailedNack, ConcludeJob, ThenTrack
<1>14. ASSUME NEW w \in Workers, MarkExchangeFailure(w) PROVE WorkerInv'
  BY <1>14 DEF MarkExchangeFailure, ConcludeJob, ThenTrack, RetriesExhausted
<1>15. ASSUME NEW w \in Workers, Reschedule(w) PROVE WorkerInv'
  BY <1>15 DEF Reschedule, ConcludeJob, ThenNextJob, RetriesExhausted
<1>16. ASSUME NEW w \in Workers, MarkUnknownPartner(w) PROVE WorkerInv'
  BY <1>16 DEF MarkUnknownPartner, ConcludeJob, ThenNextJob
<1>17. ASSUME NEW w \in Workers, TrackMessage(w) PROVE WorkerInv'
  BY <1>17 DEF TrackMessage, ThenNextJob, TrackedStatus
<1>18. ASSUME NEW w \in Workers, PartnerReceives(w) PROVE WorkerInv'
  BY <1>18 DEF PartnerReceives
<1>19. ASSUME NEW w \in Workers, Crash(w) PROVE WorkerInv'
  BY <1>19 DEF Crash, ProcessEnds, EmptyBatch
<1>20. ASSUME NEW w \in Workers, SendRaises(w) PROVE WorkerInv'
  BY <1>20 DEF SendRaises, ProcessEnds, EmptyBatch
<1>21. CASE UNCHANGED vars BY <1>21
<1>22. ASSUME NEW j \in Jobs, PartnerAcceptsLate(j) PROVE WorkerInv'
  BY <1>22 DEF PartnerAcceptsLate
<1> QED BY <1>1, <1>2, <1>3, <1>4, <1>5, <1>6, <1>7, <1>8, <1>9, <1>10, <1>11, <1>12, <1>13, <1>14, <1>15, <1>16, <1>17, <1>18, <1>19, <1>20, <1>21, <1>22 DEF Next, WorkerStep, ProcessJob

(* The accounting of attempts survives every step, a crash between the    *)
(* claim and the send included.                                           *)
LEMMA AttemptStep == IInv /\ [Next]_vars => AttemptInv'
<1> SUFFICES ASSUME IInv, [Next]_vars PROVE AttemptInv' OBVIOUS
<1> USE ConstantsAssumption, LimitFacts DEF vars, dbVars, workerVars, historyVars, IInv, TypeOK, HoldInv, WorkerInv, Holds, Claimed, AttemptInv, Begun
<1>1. ASSUME NEW j \in Jobs, EnqueueMessage(j) PROVE AttemptInv'
  BY <1>1 DEF EnqueueMessage
<1>2. ASSUME NEW j \in Jobs, EnqueueJob(j) PROVE AttemptInv'
  BY <1>2 DEF EnqueueJob
<1>3. ASSUME NEW j \in Jobs, BecomesDue(j) PROVE AttemptInv'
  BY <1>3 DEF BecomesDue
<1>4. ASSUME NEW w \in Workers, WorkerStart(w) PROVE AttemptInv'
  BY <1>4 DEF WorkerStart
<1>5. ASSUME NEW w \in Workers, SelectDue(w) PROVE AttemptInv'
  BY <1>5 DEF SelectDue, Claimable
<1>6. ASSUME NEW w \in Workers, CommitClaim(w) PROVE AttemptInv'
  BY <1>6 DEF CommitClaim
<1>7. ASSUME NEW w \in Workers, BatchDone(w) PROVE AttemptInv'
  BY <1>7 DEF BatchDone
<1>8. ASSUME NEW w \in Workers, NEW j \in Jobs, TakeUnknownPartner(w, j) PROVE AttemptInv'
  BY <1>8 DEF TakeUnknownPartner
<1>9. ASSUME NEW w \in Workers, NEW j \in Jobs, BeginSend(w, j) PROVE AttemptInv'
  <2>1. /\ j \in Claimed(w) /\ pc[w] = "working" /\ outcome[w] = "none"
        /\ sends' = [sends EXCEPT ![j] = sends[j] + 1]
        /\ pc' = [pc EXCEPT ![w] = "sending"] /\ cur' = [cur EXCEPT ![w] = j]
        /\ UNCHANGED <<jobStatus, attemptCount, lastError, batch, outcome>>
    BY <1>9 DEF BeginSend
  <2>2. sends[j] + 1 = attemptCount[j] /\ jobStatus[j] = "in_progress" BY <2>1
  <2>3. \A k \in Jobs : k # j => sends'[k] = sends[k] BY <2>1
  <2>4. sends'[j] = attemptCount[j] BY <2>1, <2>2
  <2>5. ASSUME NEW v \in Workers, NEW k \in Claimed(v)
        PROVE  /\ Begun(v, k)' => sends'[k] = attemptCount[k]
              /\ ~Begun(v, k)' => sends'[k] + 1 = attemptCount[k]
    <3>1. CASE v # w BY <2>1, <2>3, <3>1
    <3>2. CASE v = w /\ k # j
      <4>1. ~Begun(v, k) /\ ~Begun(v, k)' BY <2>1, <3>2
      <4>2. sends[k] + 1 = attemptCount[k] BY <4>1
      <4> QED BY <2>3, <3>2, <4>1, <4>2
    <3>3. CASE v = w /\ k = j BY <2>1, <2>4, <3>3
    <3> QED BY <3>1, <3>2, <3>3
  <2>6. \A k \in Jobs :
          /\ sends'[k] <= attemptCount[k]
          /\ jobStatus[k] # "in_progress" => sends'[k] = sends[k]
    BY <2>2, <2>3, <2>4
  <2> QED BY <2>1, <2>5, <2>6
<1>10. ASSUME NEW w \in Workers, ReceiptRead(w) PROVE AttemptInv'
  <2>1. /\ pc[w] = "sending" /\ outcome[w] = "none"
        /\ pc' = [pc EXCEPT ![w] = "concluding"]
        /\ outcome' = [outcome EXCEPT ![w] = answer[w]]
        /\ UNCHANGED <<jobStatus, attemptCount, lastError, batch, sends, cur>>
    BY <1>10 DEF ReceiptRead, SendReturns
  <2>2. \A v \in Workers, k \in Jobs : Begun(v, k)' <=> Begun(v, k)
    BY <2>1
  <2> QED BY <2>1, <2>2
<1>11. ASSUME NEW w \in Workers, AttemptFails(w) PROVE AttemptInv'
  <2>1. /\ pc[w] = "sending" /\ outcome[w] = "none"
        /\ pc' = [pc EXCEPT ![w] = "concluding"]
        /\ outcome' = [outcome EXCEPT ![w] = "error"]
        /\ UNCHANGED <<jobStatus, attemptCount, lastError, batch, sends, cur>>
    BY <1>11 DEF AttemptFails, SendReturns
  <2>2. \A v \in Workers, k \in Jobs : Begun(v, k)' <=> Begun(v, k)
    BY <2>1
  <2> QED BY <2>1, <2>2
<1>12. ASSUME NEW w \in Workers, MarkDelivered(w) PROVE AttemptInv'
  BY <1>12 DEF MarkDelivered, ConcludeJob, ThenTrack
<1>13. ASSUME NEW w \in Workers, MarkFailedNack(w) PROVE AttemptInv'
  BY <1>13 DEF MarkFailedNack, ConcludeJob, ThenTrack
<1>14. ASSUME NEW w \in Workers, MarkExchangeFailure(w) PROVE AttemptInv'
  <2> DEFINE c == cur[w]
  <2>1. /\ c \in Claimed(w) /\ Begun(w, c) /\ batch[w][c] >= ScheduleLength
        /\ jobStatus' = [jobStatus EXCEPT ![c] = "exchange_failure"]
        /\ lastError' = [lastError EXCEPT ![c] = "attempt"]
        /\ batch' = [batch EXCEPT ![w][c] = 0]
        /\ pc' = [pc EXCEPT ![w] = "tracking"]
        /\ UNCHANGED <<attemptCount, sends, cur, outcome>>
    BY <1>14 DEF MarkExchangeFailure, ConcludeJob, ThenTrack, RetriesExhausted
  <2>2. sends[c] = AttemptLimit
    <3>1. sends[c] = attemptCount[c] /\ batch[w][c] = attemptCount[c] /\ batch[w][c] > 0 BY <2>1
    <3>2. attemptCount[c] <= AttemptLimit /\ attemptCount[c] \in Nat BY <2>1
    <3>3. attemptCount[c] \in Nat \ {0} /\ attemptCount[c] >= ScheduleLength
      BY <2>1, <3>1, <3>2
    <3> QED BY <3>1, <3>2, <3>3
  <2>3. ASSUME NEW v \in Workers, NEW k \in Claimed(v)'
        PROVE  k \in Claimed(v) /\ (Begun(v, k)' <=> Begun(v, k))
    BY <2>1, <2>3
  <2>4. \A k \in Jobs : k # c => jobStatus'[k] = jobStatus[k] /\ lastError'[k] = lastError[k]
    BY <2>1
  <2> QED BY <2>1, <2>2, <2>3, <2>4
<1>15. ASSUME NEW w \in Workers, Reschedule(w) PROVE AttemptInv'
  <2> DEFINE c == cur[w]
  <2>1. /\ c \in Claimed(w) /\ Begun(w, c) /\ ~(batch[w][c] >= ScheduleLength)
        /\ jobStatus' = [jobStatus EXCEPT ![c] = "queued"]
        /\ batch' = [batch EXCEPT ![w][c] = 0]
        /\ pc' = [pc EXCEPT ![w] = "working"]
        /\ lastError' = [lastError EXCEPT ![c] = "attempt"]
        /\ \A v \in Workers : v # w => cur'[v] = cur[v] /\ outcome'[v] = outcome[v]
        /\ UNCHANGED <<attemptCount, sends>>
    BY <1>15 DEF Reschedule, ConcludeJob, ThenNextJob, RetriesExhausted
  <2>2. sends[c] = attemptCount[c] /\ attemptCount[c] < AttemptLimit
    <3>1. sends[c] = attemptCount[c] /\ batch[w][c] = attemptCount[c] /\ batch[w][c] > 0 BY <2>1
    <3>2. attemptCount[c] \in Nat \ {0} /\ ~(attemptCount[c] >= ScheduleLength) BY <2>1, <3>1
    <3> QED BY <3>1, <3>2
  <2>3. ASSUME NEW v \in Workers, NEW k \in Claimed(v)'
        PROVE  k \in Claimed(v) /\ (Begun(v, k)' <=> Begun(v, k))
    <3>1. k \in Claimed(v) /\ ~(v = w /\ k = c) BY <2>1, <2>3
    <3>2. CASE v # w BY <2>1, <3>1, <3>2
    <3>3. CASE v = w /\ k # c BY <2>1, <3>1, <3>3
    <3> QED BY <3>1, <3>2, <3>3
  <2>4. \A k \in Jobs : k # c => jobStatus'[k] = jobStatus[k] /\ lastError'[k] = lastError[k]
    BY <2>1
  <2> QED BY <2>1, <2>2, <2>3, <2>4
<1>16. ASSUME NEW w \in Workers, MarkUnknownPartner(w) PROVE AttemptInv'
  BY <1>16 DEF MarkUnknownPartner, ConcludeJob, ThenNextJob
<1>17. ASSUME NEW w \in Workers, TrackMessage(w) PROVE AttemptInv'
  BY <1>17 DEF TrackMessage, ThenNextJob, TrackedStatus
<1>18. ASSUME NEW w \in Workers, PartnerReceives(w) PROVE AttemptInv'
  BY <1>18 DEF PartnerReceives
<1>19. ASSUME NEW w \in Workers, Crash(w) PROVE AttemptInv'
  BY <1>19 DEF Crash, ProcessEnds, EmptyBatch
<1>20. ASSUME NEW w \in Workers, SendRaises(w) PROVE AttemptInv'
  BY <1>20 DEF SendRaises, ProcessEnds, EmptyBatch
<1>21. CASE UNCHANGED vars BY <1>21
<1>22. ASSUME NEW j \in Jobs, PartnerAcceptsLate(j) PROVE AttemptInv'
  BY <1>22 DEF PartnerAcceptsLate
<1> QED BY <1>1, <1>2, <1>3, <1>4, <1>5, <1>6, <1>7, <1>8, <1>9, <1>10, <1>11, <1>12, <1>13, <1>14, <1>15, <1>16, <1>17, <1>18, <1>19, <1>20, <1>21, <1>22 DEF Next, WorkerStep, ProcessJob

(* The audit row is written after the job's row, by the job's holder.     *)
LEMMA MessageStep == IInv /\ [Next]_vars => MessageInv'
<1> SUFFICES ASSUME IInv, [Next]_vars PROVE MessageInv' OBVIOUS
<1> USE ConstantsAssumption DEF vars, dbVars, workerVars, historyVars, IInv, TypeOK, HoldInv, WorkerInv, Holds, Claimed, MessageInv, MessageNeverAhead, Terminal, TrackedStatus
<1>1. ASSUME NEW j \in Jobs, EnqueueMessage(j) PROVE MessageInv'
  BY <1>1 DEF EnqueueMessage
<1>2. ASSUME NEW j \in Jobs, EnqueueJob(j) PROVE MessageInv'
  BY <1>2 DEF EnqueueJob
<1>3. ASSUME NEW j \in Jobs, BecomesDue(j) PROVE MessageInv'
  BY <1>3 DEF BecomesDue
<1>4. ASSUME NEW w \in Workers, WorkerStart(w) PROVE MessageInv'
  BY <1>4 DEF WorkerStart
<1>5. ASSUME NEW w \in Workers, SelectDue(w) PROVE MessageInv'
  BY <1>5 DEF SelectDue, Claimable
<1>6. ASSUME NEW w \in Workers, CommitClaim(w) PROVE MessageInv'
  BY <1>6 DEF CommitClaim
<1>7. ASSUME NEW w \in Workers, BatchDone(w) PROVE MessageInv'
  BY <1>7 DEF BatchDone
<1>8. ASSUME NEW w \in Workers, NEW j \in Jobs, TakeUnknownPartner(w, j) PROVE MessageInv'
  BY <1>8 DEF TakeUnknownPartner
<1>9. ASSUME NEW w \in Workers, NEW j \in Jobs, BeginSend(w, j) PROVE MessageInv'
  BY <1>9 DEF BeginSend
<1>10. ASSUME NEW w \in Workers, ReceiptRead(w) PROVE MessageInv'
  BY <1>10 DEF ReceiptRead, SendReturns
<1>11. ASSUME NEW w \in Workers, AttemptFails(w) PROVE MessageInv'
  BY <1>11 DEF AttemptFails, SendReturns
<1>12. ASSUME NEW w \in Workers, MarkDelivered(w) PROVE MessageInv'
  BY <1>12 DEF MarkDelivered, ConcludeJob, ThenTrack
<1>13. ASSUME NEW w \in Workers, MarkFailedNack(w) PROVE MessageInv'
  BY <1>13 DEF MarkFailedNack, ConcludeJob, ThenTrack
<1>14. ASSUME NEW w \in Workers, MarkExchangeFailure(w) PROVE MessageInv'
  BY <1>14 DEF MarkExchangeFailure, ConcludeJob, ThenTrack, RetriesExhausted
<1>15. ASSUME NEW w \in Workers, Reschedule(w) PROVE MessageInv'
  BY <1>15 DEF Reschedule, ConcludeJob, ThenNextJob, RetriesExhausted
<1>16. ASSUME NEW w \in Workers, MarkUnknownPartner(w) PROVE MessageInv'
  BY <1>16 DEF MarkUnknownPartner, ConcludeJob, ThenNextJob
<1>17. ASSUME NEW w \in Workers, TrackMessage(w) PROVE MessageInv'
  BY <1>17 DEF TrackMessage, ThenNextJob, TrackedStatus
<1>18. ASSUME NEW w \in Workers, PartnerReceives(w) PROVE MessageInv'
  BY <1>18 DEF PartnerReceives
<1>19. ASSUME NEW w \in Workers, Crash(w) PROVE MessageInv'
  BY <1>19 DEF Crash, ProcessEnds, EmptyBatch
<1>20. ASSUME NEW w \in Workers, SendRaises(w) PROVE MessageInv'
  BY <1>20 DEF SendRaises, ProcessEnds, EmptyBatch
<1>21. CASE UNCHANGED vars BY <1>21
<1>22. ASSUME NEW j \in Jobs, PartnerAcceptsLate(j) PROVE MessageInv'
  BY <1>22 DEF PartnerAcceptsLate
<1> QED BY <1>1, <1>2, <1>3, <1>4, <1>5, <1>6, <1>7, <1>8, <1>9, <1>10, <1>11, <1>12, <1>13, <1>14, <1>15, <1>16, <1>17, <1>18, <1>19, <1>20, <1>21, <1>22 DEF Next, WorkerStep, ProcessJob

(* An ok outcome stands for a message the partner has accepted.           *)
LEMMA ReceiptStep == IInv /\ [Next]_vars => ReceiptInv'
<1> SUFFICES ASSUME IInv, [Next]_vars PROVE ReceiptInv' OBVIOUS
<1> USE ConstantsAssumption DEF vars, dbVars, workerVars, historyVars, IInv, TypeOK, HoldInv, WorkerInv, Holds, Claimed, ReceiptInv, DeliveredWasAccepted, TrackedStatus
<1>1. ASSUME NEW j \in Jobs, EnqueueMessage(j) PROVE ReceiptInv'
  BY <1>1 DEF EnqueueMessage
<1>2. ASSUME NEW j \in Jobs, EnqueueJob(j) PROVE ReceiptInv'
  BY <1>2 DEF EnqueueJob
<1>3. ASSUME NEW j \in Jobs, BecomesDue(j) PROVE ReceiptInv'
  BY <1>3 DEF BecomesDue
<1>4. ASSUME NEW w \in Workers, WorkerStart(w) PROVE ReceiptInv'
  BY <1>4 DEF WorkerStart
<1>5. ASSUME NEW w \in Workers, SelectDue(w) PROVE ReceiptInv'
  BY <1>5 DEF SelectDue, Claimable
<1>6. ASSUME NEW w \in Workers, CommitClaim(w) PROVE ReceiptInv'
  BY <1>6 DEF CommitClaim
<1>7. ASSUME NEW w \in Workers, BatchDone(w) PROVE ReceiptInv'
  BY <1>7 DEF BatchDone
<1>8. ASSUME NEW w \in Workers, NEW j \in Jobs, TakeUnknownPartner(w, j) PROVE ReceiptInv'
  BY <1>8 DEF TakeUnknownPartner
<1>9. ASSUME NEW w \in Workers, NEW j \in Jobs, BeginSend(w, j) PROVE ReceiptInv'
  <2>1. /\ pc[w] = "working" /\ outcome[w] = "none"
        /\ UNCHANGED <<jobStatus, msgStatus, accepted, outcome, answer>>
        /\ \A v \in Workers : v # w => pc'[v] = pc[v] /\ cur'[v] = cur[v]
    BY <1>9 DEF BeginSend
  <2> QED BY <2>1
<1>10. ASSUME NEW w \in Workers, ReceiptRead(w) PROVE ReceiptInv'
  BY <1>10 DEF ReceiptRead, SendReturns
<1>11. ASSUME NEW w \in Workers, AttemptFails(w) PROVE ReceiptInv'
  BY <1>11 DEF AttemptFails, SendReturns
<1>12. ASSUME NEW w \in Workers, MarkDelivered(w) PROVE ReceiptInv'
  BY <1>12 DEF MarkDelivered, ConcludeJob, ThenTrack
<1>13. ASSUME NEW w \in Workers, MarkFailedNack(w) PROVE ReceiptInv'
  BY <1>13 DEF MarkFailedNack, ConcludeJob, ThenTrack
<1>14. ASSUME NEW w \in Workers, MarkExchangeFailure(w) PROVE ReceiptInv'
  BY <1>14 DEF MarkExchangeFailure, ConcludeJob, ThenTrack, RetriesExhausted
<1>15. ASSUME NEW w \in Workers, Reschedule(w) PROVE ReceiptInv'
  BY <1>15 DEF Reschedule, ConcludeJob, ThenNextJob, RetriesExhausted
<1>16. ASSUME NEW w \in Workers, MarkUnknownPartner(w) PROVE ReceiptInv'
  BY <1>16 DEF MarkUnknownPartner, ConcludeJob, ThenNextJob
<1>17. ASSUME NEW w \in Workers, TrackMessage(w) PROVE ReceiptInv'
  BY <1>17 DEF TrackMessage, ThenNextJob, TrackedStatus
<1>18. ASSUME NEW w \in Workers, PartnerReceives(w) PROVE ReceiptInv'
  BY <1>18 DEF PartnerReceives
<1>19. ASSUME NEW w \in Workers, Crash(w) PROVE ReceiptInv'
  BY <1>19 DEF Crash, ProcessEnds, EmptyBatch
<1>20. ASSUME NEW w \in Workers, SendRaises(w) PROVE ReceiptInv'
  BY <1>20 DEF SendRaises, ProcessEnds, EmptyBatch
<1>21. CASE UNCHANGED vars BY <1>21
<1>22. ASSUME NEW j \in Jobs, PartnerAcceptsLate(j) PROVE ReceiptInv'
  BY <1>22 DEF PartnerAcceptsLate
<1> QED BY <1>1, <1>2, <1>3, <1>4, <1>5, <1>6, <1>7, <1>8, <1>9, <1>10, <1>11, <1>12, <1>13, <1>14, <1>15, <1>16, <1>17, <1>18, <1>19, <1>20, <1>21, <1>22 DEF Next, WorkerStep, ProcessJob

-----------------------------------------------------------------------------
(* The invariant. *)

(* The invariant holds of an empty database with every worker down.       *)
LEMMA InitInv == Init => IInv
<1> SUFFICES ASSUME Init PROVE IInv OBVIOUS
<1>1. TypeOK
  BY ConstantsAssumption DEF Init, TypeOK, Terminal, Steps, Outcomes, EmptyBatch
<1>2. HoldInv BY DEF Init, HoldInv, Holds, Claimed, EmptyBatch
<1>3. WorkerInv BY DEF Init, WorkerInv
<1>4. AttemptInv BY LimitFacts DEF Init, AttemptInv, Claimed, EmptyBatch
<1>5. MessageInv BY DEF Init, MessageInv, MessageNeverAhead, Terminal
<1>6. ReceiptInv BY DEF Init, ReceiptInv, DeliveredWasAccepted
<1> QED BY <1>1, <1>2, <1>3, <1>4, <1>5, <1>6 DEF IInv

(* The inductive invariant holds in every reachable state.                 *)
THEOREM Inductive == Spec => []IInv
<1>1. IInv /\ [Next]_vars => IInv'
  BY TypeStep, HoldStep, WorkerInvStep, AttemptStep, MessageStep, ReceiptStep DEF IInv
<1> QED BY InitInv, <1>1, PTL DEF Spec

(* Every variable keeps its type: no worker writes a status the CHECK      *)
(* constraint of outbound_jobs refuses.                                    *)
THEOREM TypeCorrect == Spec => []TypeOK
BY Inductive, PTL DEF IInv

(* No two workers hold one job, and a job object in memory agrees with its *)
(* row, whatever the number of workers and the claim limit.                *)
THEOREM OneHolder == Spec => []SingleHolder
<1>1. IInv => SingleHolder
  BY DEF IInv, HoldInv, SingleHolder, Holds
<1> QED BY Inductive, <1>1, PTL

(* The attempts of a job are counted and bounded by the retry schedule,    *)
(* through any number of crashes.                                          *)
THEOREM AttemptsBounded == Spec => []AttemptsAccounted
<1>1. IInv => AttemptsAccounted
  BY DEF IInv, AttemptInv, AttemptsAccounted
<1> QED BY Inductive, <1>1, PTL

(* An Exchange Failure is declared after the whole schedule only.          *)
THEOREM ExchangeFailureIsEarned == Spec => []ExchangeFailureAfterAllAttempts
<1>1. IInv => ExchangeFailureAfterAllAttempts
  BY DEF IInv, AttemptInv, ExchangeFailureAfterAllAttempts
<1> QED BY Inductive, <1>1, PTL

(* The audit trail never runs ahead of the queue.                          *)
THEOREM MessageFollowsJob == Spec => []MessageNeverAhead
<1>1. IInv => MessageNeverAhead
  BY DEF IInv, MessageInv
<1> QED BY Inductive, <1>1, PTL

(* Nothing is reported delivered that the partner did not accept.          *)
THEOREM DeliveredIsAccepted == Spec => []DeliveredWasAccepted
<1>1. IInv => DeliveredWasAccepted
  BY DEF IInv, ReceiptInv
<1> QED BY Inductive, <1>1, PTL

-----------------------------------------------------------------------------
(* Steps. *)

(* OutcomeIsFinal, of one step *)
OutcomeKept ==
  \A j \in Jobs :
    /\ jobStatus[j] \in Terminal => jobStatus'[j] = jobStatus[j] /\ sends'[j] = sends[j]
    /\ msgStatus[j] \in Terminal => msgStatus'[j] = msgStatus[j]

(* No step overwrites the outcome of a concluded job.                     *)
LEMMA FinalStep == IInv /\ [Next]_vars => OutcomeKept
<1> SUFFICES ASSUME IInv, [Next]_vars PROVE OutcomeKept OBVIOUS
<1> USE DEF vars, dbVars, workerVars, historyVars, IInv, TypeOK, Terminal, OutcomeKept
<1>1. ASSUME NEW j \in Jobs, EnqueueMessage(j) PROVE OutcomeKept
  BY <1>1 DEF EnqueueMessage
<1>2. ASSUME NEW j \in Jobs, EnqueueJob(j) PROVE OutcomeKept
  BY <1>2 DEF EnqueueJob
<1>3. ASSUME NEW j \in Jobs, BecomesDue(j) PROVE OutcomeKept
  BY <1>3 DEF BecomesDue
<1>4. ASSUME NEW w \in Workers, WorkerStart(w) PROVE OutcomeKept
  BY <1>4 DEF WorkerStart
<1>5. ASSUME NEW w \in Workers, SelectDue(w) PROVE OutcomeKept
  BY <1>5 DEF SelectDue, Claimable, HoldInv, WorkerInv, Claimed
<1>6. ASSUME NEW w \in Workers, CommitClaim(w) PROVE OutcomeKept
  BY <1>6 DEF CommitClaim, HoldInv, WorkerInv, Claimed
<1>7. ASSUME NEW w \in Workers, BatchDone(w) PROVE OutcomeKept
  BY <1>7 DEF BatchDone, HoldInv, WorkerInv, Claimed
<1>8. ASSUME NEW w \in Workers, NEW j \in Jobs, TakeUnknownPartner(w, j) PROVE OutcomeKept
  BY <1>8 DEF TakeUnknownPartner, HoldInv, WorkerInv, Claimed
<1>9. ASSUME NEW w \in Workers, NEW j \in Jobs, BeginSend(w, j) PROVE OutcomeKept
  BY <1>9 DEF BeginSend, HoldInv, WorkerInv, Claimed
<1>10. ASSUME NEW w \in Workers, ReceiptRead(w) PROVE OutcomeKept
  BY <1>10 DEF ReceiptRead, SendReturns, HoldInv, WorkerInv, Claimed
<1>11. ASSUME NEW w \in Workers, AttemptFails(w) PROVE OutcomeKept
  BY <1>11 DEF AttemptFails, SendReturns, HoldInv, WorkerInv, Claimed
<1>12. ASSUME NEW w \in Workers, MarkDelivered(w) PROVE OutcomeKept
  BY <1>12 DEF MarkDelivered, ConcludeJob, ThenTrack, HoldInv, WorkerInv, Claimed
<1>13. ASSUME NEW w \in Workers, MarkFailedNack(w) PROVE OutcomeKept
  BY <1>13 DEF MarkFailedNack, ConcludeJob, ThenTrack, HoldInv, WorkerInv, Claimed
<1>14. ASSUME NEW w \in Workers, MarkExchangeFailure(w) PROVE OutcomeKept
  BY <1>14 DEF MarkExchangeFailure, ConcludeJob, ThenTrack, RetriesExhausted, HoldInv, WorkerInv, Claimed
<1>15. ASSUME NEW w \in Workers, Reschedule(w) PROVE OutcomeKept
  BY <1>15 DEF Reschedule, ConcludeJob, ThenNextJob, RetriesExhausted, HoldInv, WorkerInv, Claimed
<1>16. ASSUME NEW w \in Workers, MarkUnknownPartner(w) PROVE OutcomeKept
  BY <1>16 DEF MarkUnknownPartner, ConcludeJob, ThenNextJob, HoldInv, WorkerInv, Claimed
<1>17. ASSUME NEW w \in Workers, TrackMessage(w) PROVE OutcomeKept
  BY <1>17 DEF TrackMessage, ThenNextJob, TrackedStatus, HoldInv, WorkerInv, Claimed, MessageInv, MessageNeverAhead
<1>18. ASSUME NEW w \in Workers, PartnerReceives(w) PROVE OutcomeKept
  BY <1>18 DEF PartnerReceives, HoldInv, WorkerInv, Claimed
<1>19. ASSUME NEW w \in Workers, Crash(w) PROVE OutcomeKept
  BY <1>19 DEF Crash, ProcessEnds, EmptyBatch
<1>20. ASSUME NEW w \in Workers, SendRaises(w) PROVE OutcomeKept
  BY <1>20 DEF SendRaises, ProcessEnds, EmptyBatch
<1>21. CASE UNCHANGED vars BY <1>21
<1>22. ASSUME NEW j \in Jobs, PartnerAcceptsLate(j) PROVE OutcomeKept
  BY <1>22 DEF PartnerAcceptsLate
<1> QED BY <1>1, <1>2, <1>3, <1>4, <1>5, <1>6, <1>7, <1>8, <1>9, <1>10, <1>11, <1>12, <1>13, <1>14, <1>15, <1>16, <1>17, <1>18, <1>19, <1>20, <1>21, <1>22 DEF Next, WorkerStep, ProcessJob

(* A concluded job keeps its outcome, in outbound_jobs and in messages.    *)
THEOREM ConcludedIsFinal == Spec => OutcomeIsFinal
<1>1. IInv /\ [Next]_vars =>
        [\A j \in Jobs :
          /\ jobStatus[j] \in Terminal => jobStatus'[j] = jobStatus[j] /\ sends'[j] = sends[j]
          /\ msgStatus[j] \in Terminal => msgStatus'[j] = msgStatus[j]]_vars
  BY FinalStep DEF OutcomeKept
<1> QED BY Inductive, <1>1, PTL DEF Spec, OutcomeIsFinal

-----------------------------------------------------------------------------
(* Between its batches a worker has no job objects; a job in_progress is   *)
(* held as long as no worker has died.                                     *)
HeldInv ==
  /\ \A w \in Workers : pc[w] \in {"down", "polling", "claiming"} => Claimed(w) = {}
  /\ InProgressIsHeld

(* Everything but the end of a process moves a job out of in_progress as   *)
(* it lets go of it.                                                       *)
LEMMA HeldStep ==
  ASSUME IInv, HeldInv, [Next]_vars
  PROVE  HeldInv'
<1> DEFINE EmptyHanded == \A w \in Workers : pc[w] \in {"down", "polling", "claiming"} => Claimed(w) = {}
<1>0. TypeOK /\ HoldInv /\ WorkerInv /\ EmptyHanded /\ InProgressIsHeld
  BY DEF IInv, HeldInv
<1> USE ConstantsAssumption
    DEF TypeOK, HoldInv, WorkerInv, Claimed, InProgressIsHeld, Abandoned, Terminal, vars, dbVars, workerVars, historyVars
<1>1. ASSUME NEW j \in Jobs,
             EnqueueMessage(j) \/ EnqueueJob(j) \/ BecomesDue(j) \/ PartnerAcceptsLate(j)
      PROVE HeldInv'
  BY <1>0, <1>1, SMTT(30)
  DEF HeldInv, EnqueueMessage, EnqueueJob, BecomesDue, PartnerAcceptsLate
<1>2. ASSUME NEW w \in Workers,
             WorkerStart(w) \/ SelectDue(w) \/ BatchDone(w) \/ PartnerReceives(w)
      PROVE HeldInv'
  BY <1>0, <1>2 DEF HeldInv, WorkerStart, SelectDue, BatchDone, PartnerReceives
<1>3. ASSUME NEW w \in Workers, CommitClaim(w) PROVE HeldInv'
  <2>1. Claimed(w) = {} /\ pc[w] = "claiming"
    BY <1>0, <1>3 DEF CommitClaim
  <2>2. \A j \in locked[w] : batch'[w][j] > 0
    BY <1>0, <1>3 DEF CommitClaim
  <2>3. \A v \in Workers \ {w} : batch'[v] = batch[v]
    BY <1>0, <1>3 DEF CommitClaim
  <2>4. EmptyHanded'
    BY <1>0, <1>3, <2>3 DEF CommitClaim
  <2>5. ASSUME crashes = 0, NEW j \in Jobs, jobStatus'[j] = "in_progress"
        PROVE \E v \in Workers : batch'[v][j] > 0
    <3>1. CASE j \in locked[w]
      BY <2>2, <3>1
    <3>2. CASE j \notin locked[w]
      <4>1. jobStatus[j] = "in_progress"
        BY <1>3, <2>5, <3>2 DEF CommitClaim
      <4>2. PICK v \in Workers : batch[v][j] > 0
        BY <1>0, <2>5, <4>1
      <4>3. v # w
        BY <2>1, <4>2
      <4> QED
        BY <2>3, <4>2, <4>3
    <3> QED
      BY <3>1, <3>2
  <2> QED
    BY <1>0, <1>3, <2>4, <2>5 DEF HeldInv, CommitClaim
<1>4. ASSUME NEW w \in Workers,
             \/ \E j \in Jobs : TakeUnknownPartner(w, j) \/ BeginSend(w, j)
             \/ ReceiptRead(w) \/ AttemptFails(w)
      PROVE HeldInv'
  <2>1. /\ UNCHANGED <<jobStatus, batch, crashes>>
        /\ \A v \in Workers : pc'[v] = pc[v] \/ pc'[v] \in {"concluding", "sending"}
    BY <1>0, <1>4 DEF TakeUnknownPartner, BeginSend, ReceiptRead, AttemptFails, SendReturns
  <2>2. ASSUME NEW v \in Workers, pc'[v] \in {"down", "polling", "claiming"} PROVE Claimed(v)' = {}
    <3>1. pc[v] \in {"down", "polling", "claiming"}
      BY <2>1, <2>2
    <3>2. Claimed(v) = {}
      BY <1>0, <3>1
    <3> QED
      BY <2>1, <3>2
  <2>3. InProgressIsHeld'
    BY <1>0, <2>1
  <2> QED
    BY <2>2, <2>3 DEF HeldInv
<1>5. ASSUME NEW w \in Workers, NEW result, NEW status \in Terminal \cup {"queued"}, NEW error,
             ConcludeJob(w, result, status, error), pc' = [pc EXCEPT ![w] = "tracking"] \/ pc' = [pc EXCEPT ![w] = "working"]
      PROVE HeldInv'
  <2>1. cur[w] \in Jobs /\ jobStatus' = [jobStatus EXCEPT ![cur[w]] = status]
        /\ batch' = [batch EXCEPT ![w][cur[w]] = 0] /\ crashes' = crashes
    BY <1>0, <1>5 DEF ConcludeJob
  <2>2. EmptyHanded'
    BY <1>0, <1>5, <2>1
  <2>3. ASSUME crashes = 0, NEW j \in Jobs, jobStatus'[j] = "in_progress"
        PROVE \E v \in Workers : batch'[v][j] > 0
    <3>1. j # cur[w] /\ jobStatus[j] = "in_progress"
      BY <1>0, <2>1, <2>3
    <3>2. PICK v \in Workers : batch[v][j] > 0
      BY <1>0, <2>3, <3>1
    <3> QED
      BY <1>0, <2>1, <3>1, <3>2
  <2> QED
    BY <1>0, <2>1, <2>2, <2>3 DEF HeldInv
<1>6. ASSUME NEW w \in Workers,
             \/ MarkDelivered(w) \/ MarkFailedNack(w) \/ MarkExchangeFailure(w)
             \/ Reschedule(w) \/ MarkUnknownPartner(w)
      PROVE HeldInv'
  BY <1>5, <1>6 DEF MarkDelivered, MarkFailedNack, MarkExchangeFailure, Reschedule,
                    MarkUnknownPartner, ThenTrack, ThenNextJob
<1>7. ASSUME NEW w \in Workers, TrackMessage(w) PROVE HeldInv'
  BY <1>0, <1>7 DEF HeldInv, TrackMessage, ThenNextJob
<1>8. ASSUME NEW w \in Workers, Crash(w) \/ SendRaises(w) PROVE HeldInv'
  <2>1. crashes' > 0
    BY <1>0, <1>8 DEF Crash, SendRaises
  <2>2. pc' = [pc EXCEPT ![w] = "down"] /\ batch' = [batch EXCEPT ![w] = EmptyBatch]
    BY <1>8 DEF Crash, SendRaises, ProcessEnds
  <2>3. ASSUME NEW v \in Workers, pc'[v] \in {"down", "polling", "claiming"}
        PROVE Claimed(v)' = {}
    <3>1. CASE v = w
      BY <1>0, <2>2, <3>1 DEF EmptyBatch
    <3>2. CASE v # w
      BY <1>0, <2>2, <2>3, <3>2
    <3> QED
      BY <3>1, <3>2
  <2> QED
    BY <2>1, <2>3 DEF HeldInv
<1>9. CASE UNCHANGED vars
  BY <1>0, <1>9 DEF HeldInv
<1> QED
  BY <1>1, <1>2, <1>3, <1>4, <1>6, <1>7, <1>8, <1>9 DEF Next, WorkerStep, ProcessJob

(* A job stays in_progress in nobody's hands only once a worker has died,  *)
(* of a kill or of what send_once raised (docstring of claim_due_jobs).    *)
THEOREM InProgressIsHeldAlways == Spec => []InProgressIsHeld
<1>1. Init => HeldInv
  BY DEF Init, HeldInv, InProgressIsHeld, Abandoned, Claimed, EmptyBatch
<1>2. IInv /\ HeldInv /\ [Next]_vars => HeldInv'
  BY HeldStep
<1>3. HeldInv => InProgressIsHeld
  BY DEF HeldInv
<1> QED
  BY <1>1, <1>2, <1>3, Inductive, PTL DEF Spec

-----------------------------------------------------------------------------
(* Refinement: every step of the queue is a step of JobLifecycle or leaves *)
(* the status and attempts of every job alone.                             *)

LifecycleStep == [Lifecycle!LNext]_(Lifecycle!lifecycleVars)

(* Every step of the queue is a lifecycle step of one job, of the jobs one*)
(* claim takes, or of none.                                               *)
LEMMA RefinementStep == IInv /\ [Next]_vars => LifecycleStep
<1> SUFFICES ASSUME IInv, [Next]_vars PROVE LifecycleStep OBVIOUS
<1> USE DEF LifecycleStep, Lifecycle!lifecycleVars, vars, dbVars, workerVars, historyVars
<1>1. ASSUME NEW j \in Jobs, EnqueueMessage(j) PROVE LifecycleStep
  BY <1>1 DEF EnqueueMessage
<1>2. ASSUME NEW j \in Jobs, EnqueueJob(j) PROVE LifecycleStep
  <2>1. Lifecycle!Enqueue(j) BY <1>2 DEF EnqueueJob, Lifecycle!Enqueue
  <2> QED BY <2>1 DEF Lifecycle!LNext
<1>3. ASSUME NEW j \in Jobs, BecomesDue(j) PROVE LifecycleStep
  BY <1>3 DEF BecomesDue
<1>4. ASSUME NEW w \in Workers, WorkerStart(w) PROVE LifecycleStep
  BY <1>4 DEF WorkerStart
<1>5. ASSUME NEW w \in Workers, SelectDue(w) PROVE LifecycleStep
  BY <1>5 DEF SelectDue, Claimable
<1>6. ASSUME NEW w \in Workers, CommitClaim(w) PROVE LifecycleStep
  <2>1. locked[w] \in SUBSET Jobs BY DEF IInv, TypeOK
  <2>2. Lifecycle!Attempt(locked[w])
    BY <1>6, <2>1 DEF CommitClaim, Lifecycle!Attempt, IInv, TypeOK, HoldInv, AttemptInv
  <2> QED BY <2>1, <2>2 DEF Lifecycle!LNext
<1>7. ASSUME NEW w \in Workers, BatchDone(w) PROVE LifecycleStep
  BY <1>7 DEF BatchDone
<1>8. ASSUME NEW w \in Workers, NEW j \in Jobs, TakeUnknownPartner(w, j) PROVE LifecycleStep
  BY <1>8 DEF TakeUnknownPartner
<1>9. ASSUME NEW w \in Workers, NEW j \in Jobs, BeginSend(w, j) PROVE LifecycleStep
  BY <1>9 DEF BeginSend
<1>10. ASSUME NEW w \in Workers, ReceiptRead(w) PROVE LifecycleStep
  BY <1>10 DEF ReceiptRead, SendReturns
<1>11. ASSUME NEW w \in Workers, AttemptFails(w) PROVE LifecycleStep
  BY <1>11 DEF AttemptFails, SendReturns
<1>12. ASSUME NEW w \in Workers, MarkDelivered(w) PROVE LifecycleStep
  <2>1. cur[w] \in Jobs /\ jobStatus[cur[w]] = "in_progress"
    BY <1>12 DEF MarkDelivered, ConcludeJob, IInv, HoldInv, WorkerInv, Claimed
  <2>2. Lifecycle!Conclude(cur[w], "delivered")
    BY <1>12, <2>1 DEF MarkDelivered, ConcludeJob, Lifecycle!Conclude
  <2> QED BY <2>1, <2>2 DEF Lifecycle!LNext, Lifecycle!TerminalStatus
<1>13. ASSUME NEW w \in Workers, MarkFailedNack(w) PROVE LifecycleStep
  <2>1. cur[w] \in Jobs /\ jobStatus[cur[w]] = "in_progress"
    BY <1>13 DEF MarkFailedNack, ConcludeJob, IInv, HoldInv, WorkerInv, Claimed
  <2>2. Lifecycle!Conclude(cur[w], "failed_nack")
    BY <1>13, <2>1 DEF MarkFailedNack, ConcludeJob, Lifecycle!Conclude
  <2> QED BY <2>1, <2>2 DEF Lifecycle!LNext, Lifecycle!TerminalStatus
<1>14. ASSUME NEW w \in Workers, MarkExchangeFailure(w) PROVE LifecycleStep
  <2>1. cur[w] \in Jobs /\ jobStatus[cur[w]] = "in_progress"
    BY <1>14 DEF MarkExchangeFailure, ConcludeJob, IInv, HoldInv, WorkerInv, Claimed
  <2>2. Lifecycle!Conclude(cur[w], "exchange_failure")
    BY <1>14, <2>1 DEF MarkExchangeFailure, ConcludeJob, Lifecycle!Conclude
  <2> QED BY <2>1, <2>2 DEF Lifecycle!LNext, Lifecycle!TerminalStatus
<1>15. ASSUME NEW w \in Workers, Reschedule(w) PROVE LifecycleStep
  <2> DEFINE c == cur[w]
  <2>1. c \in Jobs /\ jobStatus[c] = "in_progress" /\ attemptCount[c] = batch[w][c] /\ batch[w][c] > 0
    BY <1>15 DEF Reschedule, ConcludeJob, ThenNextJob, RetriesExhausted, IInv, HoldInv, WorkerInv, Claimed
  <2>2. attemptCount[c] \in Nat \ {0} /\ ~(attemptCount[c] >= ScheduleLength)
    BY <1>15, <2>1 DEF Reschedule, ConcludeJob, ThenNextJob, RetriesExhausted, IInv, TypeOK
  <2>3. attemptCount[c] < AttemptLimit BY <2>2, LimitFacts
  <2>4. Lifecycle!Retry(c)
    BY <1>15, <2>1, <2>3 DEF Reschedule, ConcludeJob, ThenNextJob, RetriesExhausted, Lifecycle!Retry
  <2> QED BY <2>1, <2>4 DEF Lifecycle!LNext
<1>16. ASSUME NEW w \in Workers, MarkUnknownPartner(w) PROVE LifecycleStep
  <2>1. cur[w] \in Jobs /\ jobStatus[cur[w]] = "in_progress"
    BY <1>16 DEF MarkUnknownPartner, ConcludeJob, IInv, HoldInv, WorkerInv, Claimed
  <2>2. Lifecycle!Conclude(cur[w], "exchange_failure")
    BY <1>16, <2>1 DEF MarkUnknownPartner, ConcludeJob, Lifecycle!Conclude
  <2> QED BY <2>1, <2>2 DEF Lifecycle!LNext, Lifecycle!TerminalStatus
<1>17. ASSUME NEW w \in Workers, TrackMessage(w) PROVE LifecycleStep
  BY <1>17 DEF TrackMessage, ThenNextJob, TrackedStatus
<1>18. ASSUME NEW w \in Workers, PartnerReceives(w) PROVE LifecycleStep
  BY <1>18 DEF PartnerReceives
<1>19. ASSUME NEW w \in Workers, Crash(w) PROVE LifecycleStep
  BY <1>19 DEF Crash, ProcessEnds, EmptyBatch
<1>20. ASSUME NEW w \in Workers, SendRaises(w) PROVE LifecycleStep
  BY <1>20 DEF SendRaises, ProcessEnds, EmptyBatch
<1>21. CASE UNCHANGED vars BY <1>21
<1>22. ASSUME NEW j \in Jobs, PartnerAcceptsLate(j) PROVE LifecycleStep
  BY <1>22 DEF PartnerAcceptsLate
<1> QED BY <1>1, <1>2, <1>3, <1>4, <1>5, <1>6, <1>7, <1>8, <1>9, <1>10, <1>11, <1>12, <1>13, <1>14, <1>15, <1>16, <1>17, <1>18, <1>19, <1>20, <1>21, <1>22 DEF Next, WorkerStep, ProcessJob

(* The queue implements the lifecycle docs/outbound-flow.md draws.         *)
THEOREM Refinement == Spec => ImplementsLifecycle
<1>1. Init => Lifecycle!LInit BY DEF Init, Lifecycle!LInit
<1>2. IInv /\ [Next]_vars => [Lifecycle!LNext]_(Lifecycle!lifecycleVars)
  BY RefinementStep DEF LifecycleStep
<1> QED BY Inductive, <1>1, <1>2, PTL DEF Spec, ImplementsLifecycle, Lifecycle!LSpec
=============================================================================
