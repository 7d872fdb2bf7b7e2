--------------------------- MODULE ExchangeProofs ---------------------------
(***************************************************************************)
(* Proofs about Exchange, for any number of jobs and workers, any retry    *)
(* schedule and set of durable sinks, and any number of crashes, failures  *)
(* and lost POSTs or receipts on either side.                              *)
(***************************************************************************)
EXTENDS Exchange, TLAPS

SenderTypes ==
  /\ jobStatus \in [Jobs -> {"absent", "queued", "in_progress"} \cup Sender!Terminal]
  /\ workerPc \in [Workers -> Sender!Steps]
  /\ cur \in [Workers -> Jobs \cup {NoJob}]
  /\ outcome \in [Workers -> Sender!Outcomes]
  /\ answer \in [Workers -> {"none", "ok", "nack"}]
  /\ sends \in [Jobs -> Nat]

ReceiverTypes ==
  /\ rowStatus \in [Posts -> {"absent", "processing", "accepted", "rejected", "processed"}]
  /\ handlerPc \in [Posts -> Receiver!Stages]
  /\ verdict \in [Posts -> {"none"} \cup Receiver!Verdicts]
  /\ stored \in [Posts -> SUBSET DurableSinks]
  /\ reply \in [Posts -> {"none", "http500", "dropped"} \cup Receiver!Verdicts]

(* A handler stores nothing before it has its row, stores once, and says   *)
(* ok only of what it has stored.                                          *)
StoredInv ==
  \A p \in Posts :
    /\ handlerPc[p] \in {"idle", "parsing", "dedupe", "inserting"} => rowStatus[p] = "absent"
    /\ handlerPc[p] \in {"idle", "parsing", "dedupe", "inserting", "decrypting", "delivering"} =>
         stored[p] = {}
    /\ handlerPc[p] = "rejecting" => verdict[p] # "ok"
    /\ handlerPc[p] \in {"decrypting", "delivering", "recording", "deciding", "rejecting",
                          "recovering"} => rowStatus[p] # "absent"
    /\ handlerPc[p] = "deciding" => stored[p] # {}
    /\ stored[p] # {} => rowStatus[p] # "absent"
    /\ verdict[p] = "ok" => stored[p] # {}
    /\ reply[p] = "ok" => stored[p] # {}

(* The UNIQUE constraint on the digest: one row for all attempts of a job. *)
RowsApart ==
  \A p, q \in Posts :
    rowStatus[p] # "absent" /\ rowStatus[q] # "absent" /\ p[1] = q[1] => p = q

(* What has arrived was sent. *)
ArrivedInv == \A p \in Posts : handlerPc[p] # "idle" => p[2] <= sends[p[1]]

(* An ok on its way to the sender, read or written down, is of a job whose *)
(* plaintext the receiver holds.                                           *)
OkInv ==
  /\ \A w \in Workers :
       /\ answer[w] = "ok" => workerPc[w] = "sending" /\ cur[w] \in Retained
       /\ outcome[w] = "ok" => workerPc[w] \in {"concluding", "tracking"} /\ cur[w] \in Retained
  /\ DeliveredIsRetained

ReceiverInv == ReceiverTypes /\ StoredInv /\ RowsApart
SenderInv == SenderTypes /\ ArrivedInv /\ OkInv
IInv == ReceiverInv /\ SenderInv

-----------------------------------------------------------------------------
(* The receiver by itself.                                                 *)
ReceiverNext ==
  \/ \E p \in Posts : Receiver!Arrive(p) \/ Receiver!Handle(p)
  \/ \E R \in SUBSET Posts : Receiver!MarkProcessed(R)
  \/ Receiver!Crash

LEMMA ReceiverStep == ASSUME ReceiverInv, ReceiverNext PROVE ReceiverTypes' /\ StoredInv'
<1> USE ExchangeAssumption
    DEF ReceiverInv, ReceiverTypes, StoredInv, Receiver!Stages, Receiver!Verdicts,
        Receiver!Duplicate, Receiver!Refused, Receiver!rowVars, Receiver!Goto
<1> DEFINE Good == ReceiverTypes /\ StoredInv
<1>1. ASSUME NEW p \in Posts, Receiver!Arrive(p) PROVE Good'
  BY <1>1 DEF Receiver!Arrive
<1>2. ASSUME NEW p \in Posts, Receiver!RefuseEnvelope(p) PROVE Good'
  BY <1>2 DEF Receiver!RefuseEnvelope, Receiver!Reject
<1>3. ASSUME NEW p \in Posts, Receiver!PassEnvelope(p) PROVE Good'
  BY <1>3 DEF Receiver!PassEnvelope
<1>4. ASSUME NEW p \in Posts, Receiver!FindDuplicate(p) PROVE Good'
  BY <1>4 DEF Receiver!FindDuplicate, Receiver!Reject, Receiver!DuplicateCode
<1>5. ASSUME NEW p \in Posts, Receiver!Insert(p) PROVE Good'
  BY <1>5 DEF Receiver!Insert
<1>6. ASSUME NEW p \in Posts, Receiver!InsertRefused(p) PROVE Good'
  BY <1>6 DEF Receiver!InsertRefused, Receiver!Reject, Receiver!DuplicateCode
<1>7. ASSUME NEW p \in Posts, Receiver!Decrypt(p) PROVE Good'
  BY <1>7 DEF Receiver!Decrypt, Receiver!DecryptRefusals
<1>8. ASSUME NEW p \in Posts, Receiver!FanOut(p) PROVE Good'
  BY <1>8 DEF Receiver!FanOut
<1>9. ASSUME NEW p \in Posts, Receiver!RecordSinks(p) PROVE Good'
  BY <1>9 DEF Receiver!RecordSinks, Receiver!Retained
<1>10. ASSUME NEW p \in Posts, Receiver!Accept(p) PROVE Good'
  BY <1>10 DEF Receiver!Accept, Receiver!UpdateStatus
<1>11. ASSUME NEW p \in Posts, Receiver!RejectRow(p) PROVE Good'
  BY <1>11 DEF Receiver!RejectRow, Receiver!UpdateStatus
<1>12. ASSUME NEW p \in Posts, Receiver!Recover(p) PROVE Good'
  BY <1>12 DEF Receiver!Recover, Receiver!UpdateStatus
<1>13. ASSUME NEW p \in Posts, Receiver!Reply(p) PROVE Good'
  BY <1>13 DEF Receiver!Reply, Receiver!Respond
<1>14. ASSUME NEW p \in Posts, Receiver!SignFails(p) PROVE Good'
  BY <1>14 DEF Receiver!SignFails, Receiver!Respond, Receiver!InTry, Receiver!Row
<1>15. ASSUME NEW p \in Posts, Receiver!DbFails(p) PROVE Good'
  BY <1>15 DEF Receiver!DbFails, Receiver!Respond
<1>16. ASSUME NEW R \in SUBSET Posts, Receiver!MarkProcessed(R) PROVE Good'
  BY <1>16 DEF Receiver!MarkProcessed
<1>17. ASSUME Receiver!Crash PROVE Good'
  BY <1>17 DEF Receiver!Crash, Receiver!Running
<1> QED
  BY <1>1, <1>2, <1>3, <1>4, <1>5, <1>6, <1>7, <1>8, <1>9, <1>10, <1>11, <1>12, <1>13, <1>14,
     <1>15, <1>16, <1>17 DEF ReceiverNext, Receiver!Handle

(* Only Insert makes a row.                                                *)
LEMMA OnlyInsert ==
  ASSUME ReceiverInv, ReceiverNext, \A p \in Posts : ~Receiver!Insert(p)
  PROVE  \A q \in Posts : rowStatus'[q] # "absent" => rowStatus[q] # "absent"
<1> DEFINE NoNewRow == \A q \in Posts : rowStatus'[q] # "absent" => rowStatus[q] # "absent"
<1>0. ReceiverTypes /\ StoredInv
  BY DEF ReceiverInv
<1>1. ASSUME NEW p \in Posts, NEW from \in {"deciding", "rejecting", "recovering"},
             NEW status, NEW code, NEW result,
             Receiver!UpdateStatus(p, from, status, code, result)
      PROVE NoNewRow
  BY <1>0, <1>1 DEF Receiver!UpdateStatus, Receiver!Goto, ReceiverTypes, StoredInv
<1>2. ASSUME NEW p \in Posts,
             Receiver!Accept(p) \/ Receiver!RejectRow(p) \/ Receiver!Recover(p)
      PROVE NoNewRow
  BY <1>1, <1>2 DEF Receiver!Accept, Receiver!RejectRow, Receiver!Recover
<1>3. ASSUME NEW R \in SUBSET Posts, Receiver!MarkProcessed(R) PROVE NoNewRow
  BY <1>0, <1>3 DEF Receiver!MarkProcessed, ReceiverTypes
<1>4. ASSUME NEW p \in Posts,
             \/ Receiver!Arrive(p) \/ Receiver!RefuseEnvelope(p) \/ Receiver!PassEnvelope(p)
             \/ Receiver!FindDuplicate(p) \/ Receiver!InsertRefused(p) \/ Receiver!Decrypt(p)
             \/ Receiver!FanOut(p) \/ Receiver!RecordSinks(p) \/ Receiver!Reply(p)
             \/ Receiver!SignFails(p) \/ Receiver!DbFails(p)
      PROVE rowStatus' = rowStatus
  BY <1>4 DEF Receiver!Arrive, Receiver!RefuseEnvelope, Receiver!PassEnvelope,
    Receiver!FindDuplicate, Receiver!InsertRefused, Receiver!Decrypt, Receiver!FanOut,
    Receiver!RecordSinks, Receiver!Reply, Receiver!SignFails, Receiver!DbFails, Receiver!rowVars
<1>5. ASSUME Receiver!Crash PROVE rowStatus' = rowStatus
  BY <1>5 DEF Receiver!Crash, Receiver!rowVars
<1> QED
  BY <1>2, <1>3, <1>4, <1>5 DEF ReceiverNext, Receiver!Handle

(* ... and it does not make one beside another of the same ciphertext.     *)
LEMMA RowsStep == ASSUME ReceiverInv, ReceiverNext PROVE RowsApart'
<1>0. ReceiverTypes /\ RowsApart
  BY DEF ReceiverInv
<1>1. ASSUME NEW p \in Posts, Receiver!Insert(p) PROVE RowsApart'
  <2>1. \A q \in Posts \ {p} : rowStatus[q] # "absent" => q[1] # p[1]
    BY <1>1 DEF Receiver!Insert, Receiver!Violates, Receiver!Row, Receiver!Clash,
                Receiver!SameDigest, CiphertextOf
  <2>2. \A q \in Posts \ {p} : rowStatus'[q] = rowStatus[q]
    BY <1>0, <1>1 DEF Receiver!Insert, ReceiverTypes
  <2> QED
    BY <1>0, <2>1, <2>2 DEF RowsApart
<1>2. CASE \A p \in Posts : ~Receiver!Insert(p)
  BY <1>0, <1>2, OnlyInsert DEF RowsApart
<1> QED
  BY <1>1, <1>2

-----------------------------------------------------------------------------
(* What a step of the receiver means to the sender: nothing, or that the   *)
(* plaintext of one more job, which was sent, is held.                     *)
LEMMA RetainedStep ==
  ASSUME ReceiverInv, ReceiverNext
  PROVE  \/ Retained' = Retained
         \/ \E p \in Posts : handlerPc[p] # "idle" /\ Retained' = Retained \cup {p[1]}
<1>0. ReceiverTypes /\ StoredInv
  BY DEF ReceiverInv
<1>1. ASSUME NEW p \in Posts, Receiver!FanOut(p)
      PROVE \/ Retained' = Retained
            \/ handlerPc[p] # "idle" /\ Retained' = Retained \cup {p[1]}
  <2>1. handlerPc[p] = "delivering" /\ stored[p] = {}
    BY <1>0, <1>1 DEF Receiver!FanOut, Receiver!Goto, StoredInv
  <2>2. PICK S \in SUBSET DurableSinks : stored' = [stored EXCEPT ![p] = S]
    BY <1>1 DEF Receiver!FanOut
  <2>3. stored'[p] = S /\ \A q \in Posts \ {p} : stored'[q] = stored[q]
    BY <1>0, <2>2 DEF ReceiverTypes
  <2>4. p[1] \in Jobs
    BY DEF Posts
  <2>5. CASE S = {}
    <3>1. \A q \in Posts : stored'[q] = stored[q]
      BY <2>1, <2>3, <2>5
    <3> QED
      BY <3>1 DEF Retained
  <2>6. CASE S # {}
    <3>1. Retained' = Retained \cup {p[1]}
      BY <2>1, <2>3, <2>4, <2>6 DEF Retained
    <3> QED
      BY <2>1, <3>1
  <2> QED
    BY <2>5, <2>6
<1>2. ASSUME \A p \in Posts : ~Receiver!FanOut(p) PROVE stored' = stored
  BY <1>2 DEF ReceiverNext, Receiver!Handle, Receiver!Arrive, Receiver!RefuseEnvelope,
    Receiver!PassEnvelope, Receiver!FindDuplicate, Receiver!Insert, Receiver!InsertRefused,
    Receiver!Decrypt, Receiver!RecordSinks, Receiver!Accept, Receiver!RejectRow,
    Receiver!Recover, Receiver!UpdateStatus, Receiver!Reply, Receiver!SignFails,
    Receiver!DbFails, Receiver!MarkProcessed, Receiver!Crash
<1>3. stored' = stored => Retained' = Retained
  BY DEF Retained
<1> QED
  BY <1>1, <1>2, <1>3

(* A handler leaves idle for good, and only for its own request.           *)
LEMMA IdleStep ==
  ASSUME ReceiverTypes, NEW p \in Posts, Receiver!Arrive(p) \/ Receiver!Handle(p)
  PROVE  \A q \in Posts : handlerPc'[q] # "idle" => q = p \/ handlerPc[q] # "idle"
<1>1. \A q \in Posts \ {p} : handlerPc'[q] = handlerPc[q]
  BY DEF ReceiverTypes, Receiver!Handle, Receiver!Goto, Receiver!Reject,
    Receiver!Respond, Receiver!UpdateStatus, Receiver!Arrive, Receiver!RefuseEnvelope,
    Receiver!PassEnvelope, Receiver!FindDuplicate, Receiver!Insert, Receiver!InsertRefused,
    Receiver!Decrypt, Receiver!FanOut, Receiver!RecordSinks, Receiver!Accept,
    Receiver!RejectRow, Receiver!Recover, Receiver!Reply, Receiver!SignFails, Receiver!DbFails
<1> QED
  BY <1>1

(* The steps of Exchange, by whose they are.                               *)
SenderMoves ==
  /\ UNCHANGED receiverVars
  /\ \/ \E j \in Jobs : Sender!EnqueueMessage(j) \/ Sender!EnqueueJob(j) \/ Sender!BecomesDue(j)
     \/ \E w \in Workers : Sender!WorkerStart(w) \/ Sender!WorkerStep(w) \/ Sender!Crash(w)

ReceiverMoves ==
  /\ UNCHANGED senderVars
  /\ \/ \E p \in Posts : Sent(p) /\ (Receiver!Arrive(p) \/ Receiver!Handle(p))
     \/ \E R \in SUBSET Posts : Receiver!MarkProcessed(R)
     \/ Receiver!Crash

LEMMA Moves ==
  Next <=> SenderMoves \/ ReceiverMoves \/ \E w \in Workers : ReceiptArrives(w)
  BY DEF Next, SenderMoves, ReceiverMoves, SenderEnqueues, SenderClock, SenderStart, SenderStep,
         SenderCrash, PostArrives, ReceiverHandles, Consumer, ReceiverCrash

LEMMA ReceiverMovesNext == ReceiverMoves => ReceiverNext
  BY DEF ReceiverMoves, ReceiverNext

(* The sender while the receiver moves: a request that arrives was sent,   *)
(* and what the receiver holds it keeps.                                   *)
LEMMA SenderStands == ASSUME IInv, ReceiverMoves PROVE SenderInv'
<1>0. ReceiverInv /\ ReceiverTypes /\ SenderTypes /\ ArrivedInv /\ OkInv
  BY DEF IInv, ReceiverInv, SenderInv
<1>1. UNCHANGED <<jobStatus, workerPc, cur, outcome, answer, sends>>
  BY DEF ReceiverMoves, senderVars
<1>2. SenderTypes'
  BY <1>0, <1>1 DEF SenderTypes
<1>3. ArrivedInv'
  <2>1. ASSUME NEW p \in Posts, Sent(p), Receiver!Arrive(p) \/ Receiver!Handle(p) PROVE ArrivedInv'
    BY <1>0, <1>1, <2>1, IdleStep DEF ArrivedInv, Sent
  <2>2. ASSUME NEW R \in SUBSET Posts, Receiver!MarkProcessed(R) PROVE ArrivedInv'
    BY <1>0, <1>1, <2>2 DEF Receiver!MarkProcessed, ArrivedInv
  <2>3. ASSUME Receiver!Crash PROVE ArrivedInv'
    BY <1>0, <1>1, <2>3 DEF Receiver!Crash, Receiver!Running, ArrivedInv, ReceiverTypes
  <2> QED
    BY <2>1, <2>2, <2>3 DEF ReceiverMoves
<1>4. Retained \subseteq Retained'
  BY <1>0, ReceiverMovesNext, RetainedStep
<1>5. OkInv'
  BY <1>0, <1>1, <1>4 DEF OkInv, DeliveredIsRetained
<1> QED
  BY <1>2, <1>3, <1>5 DEF SenderInv

(* A receipt that comes back is the one the receiver gave.                 *)
LEMMA AnswerStep ==
  ASSUME IInv, NEW w \in Workers, ReceiptArrives(w)
  PROVE  /\ SenderInv'
         /\ workerPc[w] = "sending" /\ answer[w] = "none" /\ cur[w] \in Jobs
         /\ \/ answer' = [answer EXCEPT ![w] = "ok"] /\ cur[w] \in Retained
            \/ answer' = [answer EXCEPT ![w] = "nack"]
<1>0. SenderTypes /\ ArrivedInv /\ OkInv /\ StoredInv
  BY DEF IInv, ReceiverInv, SenderInv
<1>1. PICK p \in Posts :
        /\ p = <<cur[w], sends[cur[w]]>>
        /\ answer' = [answer EXCEPT ![w] = IF reply[p] = "ok" THEN "ok" ELSE "nack"]
  BY DEF ReceiptArrives
<1>2. p[1] = cur[w] /\ cur[w] \in Jobs
  BY <1>1 DEF Posts
<1>3. reply[p] = "ok" => cur[w] \in Retained
  BY <1>0, <1>2 DEF StoredInv, Retained
<1>4. UNCHANGED <<jobStatus, workerPc, cur, outcome, sends, handlerPc, stored>>
  BY DEF ReceiptArrives, receiverVars
<1>5. Retained' = Retained
  BY <1>4 DEF Retained
<1>6. workerPc[w] = "sending" /\ answer[w] = "none"
  BY DEF ReceiptArrives
<1>7. SenderTypes' /\ ArrivedInv'
  BY <1>0, <1>1, <1>4 DEF SenderTypes, ArrivedInv
<1>8. OkInv'
  BY <1>0, <1>1, <1>3, <1>4, <1>5, <1>6 DEF OkInv, DeliveredIsRetained, SenderTypes
<1> QED
  BY <1>1, <1>2, <1>3, <1>6, <1>7, <1>8 DEF SenderInv

(* The sender by itself: it writes down as delivered only what it was told *)
(* is held.                                                                *)
LEMMA SenderMovesStep == ASSUME IInv, SenderMoves PROVE SenderInv'
<1>0. SenderTypes /\ ArrivedInv /\ OkInv
  BY DEF IInv, SenderInv
<1>1. UNCHANGED <<handlerPc, stored>> /\ Retained' = Retained
  BY DEF SenderMoves, receiverVars, Retained
<1> DEFINE Written == SenderTypes /\ OkInv
<1> USE <1>0, <1>1, ExchangeAssumption
    DEF SenderTypes, OkInv, DeliveredIsRetained, Sender!Terminal, Sender!Steps, Sender!Outcomes,
        Sender!dbVars, Sender!workerVars, Sender!historyVars
<1>2. ASSUME NEW j \in Jobs, Sender!EnqueueMessage(j) PROVE Written' /\ sends' = sends
  BY <1>2 DEF Sender!EnqueueMessage
<1>3. ASSUME NEW j \in Jobs, Sender!EnqueueJob(j) PROVE Written' /\ sends' = sends
  BY <1>3 DEF Sender!EnqueueJob
<1>4. ASSUME NEW j \in Jobs, Sender!BecomesDue(j) PROVE Written' /\ sends' = sends
  BY <1>4 DEF Sender!BecomesDue
<1>5. ASSUME NEW w \in Workers, Sender!WorkerStart(w) PROVE Written' /\ sends' = sends
  BY <1>5 DEF Sender!WorkerStart
<1>6. ASSUME NEW w \in Workers, Sender!SelectDue(w) PROVE Written' /\ sends' = sends
  BY <1>6 DEF Sender!SelectDue
<1>7. ASSUME NEW w \in Workers, Sender!CommitClaim(w) PROVE Written' /\ sends' = sends
  BY <1>7 DEF Sender!CommitClaim
<1>8. ASSUME NEW w \in Workers, Sender!BatchDone(w) PROVE Written' /\ sends' = sends
  BY <1>8 DEF Sender!BatchDone
<1>9. ASSUME NEW w \in Workers, NEW j \in Jobs, Sender!TakeUnknownPartner(w, j)
      PROVE Written' /\ sends' = sends
  BY <1>9 DEF Sender!TakeUnknownPartner
<1>10. ASSUME NEW w \in Workers, NEW j \in Jobs, Sender!BeginSend(w, j)
       PROVE Written' /\ sends' = [sends EXCEPT ![j] = @ + 1]
  BY <1>10 DEF Sender!BeginSend
<1>11. ASSUME NEW w \in Workers, Sender!ReceiptRead(w) PROVE Written' /\ sends' = sends
  BY <1>11 DEF Sender!ReceiptRead, Sender!SendReturns
<1>12. ASSUME NEW w \in Workers, Sender!AttemptFails(w) PROVE Written' /\ sends' = sends
  BY <1>12 DEF Sender!AttemptFails, Sender!SendReturns
<1>13. ASSUME NEW w \in Workers, Sender!MarkDelivered(w) PROVE Written' /\ sends' = sends
  BY <1>13 DEF Sender!MarkDelivered, Sender!ConcludeJob, Sender!ThenTrack
<1>14. ASSUME NEW w \in Workers, Sender!MarkFailedNack(w) PROVE Written' /\ sends' = sends
  BY <1>14 DEF Sender!MarkFailedNack, Sender!ConcludeJob, Sender!ThenTrack
<1>15. ASSUME NEW w \in Workers, Sender!MarkExchangeFailure(w) PROVE Written' /\ sends' = sends
  BY <1>15 DEF Sender!MarkExchangeFailure, Sender!ConcludeJob, Sender!ThenTrack
<1>16. ASSUME NEW w \in Workers, Sender!Reschedule(w) PROVE Written' /\ sends' = sends
  BY <1>16 DEF Sender!Reschedule, Sender!ConcludeJob, Sender!ThenNextJob
<1>17. ASSUME NEW w \in Workers, Sender!MarkUnknownPartner(w) PROVE Written' /\ sends' = sends
  BY <1>17 DEF Sender!MarkUnknownPartner, Sender!ConcludeJob, Sender!ThenNextJob
<1>18. ASSUME NEW w \in Workers, Sender!TrackMessage(w) PROVE Written' /\ sends' = sends
  BY <1>18 DEF Sender!TrackMessage, Sender!ThenNextJob
<1>19. ASSUME NEW w \in Workers, Sender!Crash(w) PROVE Written' /\ sends' = sends
  BY <1>19 DEF Sender!Crash, Sender!ProcessEnds
<1>20. Written' /\ (sends' = sends \/ \E j \in Jobs : sends' = [sends EXCEPT ![j] = @ + 1])
  BY <1>2, <1>3, <1>4, <1>5, <1>6, <1>7, <1>8, <1>9, <1>10, <1>11, <1>12, <1>13, <1>14, <1>15,
     <1>16, <1>17, <1>18, <1>19 DEF SenderMoves, Sender!WorkerStep, Sender!ProcessJob
<1>21. \A j \in Jobs : sends[j] \in Nat /\ sends'[j] \in Nat /\ sends[j] <= sends'[j]
  BY <1>20
<1>22. ArrivedInv'
  <2>1. ASSUME NEW p \in Posts PROVE p[1] \in Jobs /\ p[2] \in Nat
    BY DEF Posts
  <2> QED
    BY <1>1, <1>21, <2>1 DEF ArrivedInv
<1> QED
  BY <1>20, <1>22 DEF SenderInv

-----------------------------------------------------------------------------
LEMMA InitInvariant == Init => IInv
<1> SUFFICES ASSUME Init PROVE IInv
  OBVIOUS
<1>1. ReceiverInv
  BY DEF Init, ReceiverInit, Receiver!Init, ReceiverInv, ReceiverTypes, StoredInv, RowsApart, Receiver!Stages
<1>2. SenderTypes /\ OkInv
  BY DEF Init, SenderInit, Sender!Init, SenderTypes, OkInv, DeliveredIsRetained, Sender!Steps,
         Sender!Outcomes, Sender!Terminal
<1>3. ArrivedInv
  BY DEF Init, ReceiverInit, Receiver!Init, ArrivedInv
<1> QED
  BY <1>1, <1>2, <1>3 DEF IInv, SenderInv

LEMMA ReceiverStands == ASSUME ReceiverInv, UNCHANGED receiverVars PROVE ReceiverInv'
  BY DEF ReceiverInv, ReceiverTypes, StoredInv, RowsApart, receiverVars

LEMMA InvariantStep == IInv /\ [Next]_vars => IInv'
<1> SUFFICES ASSUME IInv, [Next]_vars PROVE IInv'
  OBVIOUS
<1>0. ReceiverInv
  BY DEF IInv
<1>1. CASE SenderMoves
  BY <1>0, <1>1, SenderMovesStep, ReceiverStands DEF IInv, SenderMoves
<1>2. CASE ReceiverMoves
  BY <1>0, <1>2, ReceiverMovesNext, ReceiverStep, RowsStep, SenderStands DEF IInv, ReceiverInv
<1>3. ASSUME NEW w \in Workers, ReceiptArrives(w) PROVE IInv'
  BY <1>0, <1>3, AnswerStep, ReceiverStands DEF IInv, ReceiptArrives, receiverVars
<1>4. CASE UNCHANGED vars
  <2>1. UNCHANGED receiverVars /\ UNCHANGED senderVars
    BY <1>4 DEF vars
  <2>2. SenderInv'
    BY <2>1 DEF IInv, SenderInv, SenderTypes, ArrivedInv, OkInv, DeliveredIsRetained, Retained,
                senderVars, receiverVars
  <2> QED
    BY <1>0, <2>1, <2>2, ReceiverStands DEF IInv
<1> QED
  BY <1>1, <1>2, <1>3, <1>4, Moves

(* What the conjuncts of IInv say holds of every reachable state of two    *)
(* gateways.                                                               *)
THEOREM Inductive == Spec => []IInv
  BY InitInvariant, InvariantStep, PTL DEF Spec

(* A job is reported delivered only if the receiver's sinks hold its       *)
(* plaintext.                                                              *)
THEOREM DeliveredIsRetainedAlways == Spec => []DeliveredIsRetained
<1>1. IInv => DeliveredIsRetained
  BY DEF IInv, SenderInv, OkInv
<1> QED
  BY <1>1, Inductive, PTL

(* However often a job is sent, and in whatever order its POSTs arrive, it *)
(* reaches the sinks of one request only.                                  *)
THEOREM HandedOnOncePerJobAlways == Spec => []HandedOnOncePerJob
<1>1. IInv => HandedOnOncePerJob
  BY DEF IInv, ReceiverInv, StoredInv, RowsApart, HandedOnOncePerJob
<1> QED
  BY <1>1, Inductive, PTL

-----------------------------------------------------------------------------
(* Every step of the two gateways is a step OutboundQueue allows, the      *)
(* pipeline taking the part of its partner.                                *)
SenderAllows == [Sender!Next]_(Sender!vars)

LEMMA RefinementStep == IInv /\ [Next]_vars => SenderAllows
<1> SUFFICES ASSUME IInv, [Next]_vars PROVE SenderAllows
  OBVIOUS
<1>1. CASE SenderMoves
  BY <1>1 DEF SenderMoves, SenderAllows, Sender!Next
<1>2. CASE ReceiverMoves
  <2>1. UNCHANGED senderVars
    BY <1>2 DEF ReceiverMoves
  <2>2. CASE Retained' = Retained
    BY <2>1, <2>2 DEF SenderAllows, senderVars, Sender!vars, Sender!dbVars, Sender!workerVars,
                      Sender!historyVars
  <2>3. ASSUME NEW p \in Posts, handlerPc[p] # "idle", Retained' = Retained \cup {p[1]}
        PROVE SenderAllows
    <3>1. p[1] \in Jobs /\ p[2] \in Nat /\ p[2] > 0
      BY DEF Posts
    <3>2. sends[p[1]] \in Nat /\ sends[p[1]] > 0
      BY <2>3, <3>1 DEF IInv, SenderInv, SenderTypes, ArrivedInv
    <3>3. Sender!PartnerAcceptsLate(p[1])
      BY <2>1, <2>3, <3>2 DEF Sender!PartnerAcceptsLate, senderVars, Sender!dbVars, Sender!workerVars
    <3> QED
      BY <3>1, <3>3 DEF SenderAllows, Sender!Next
  <2> QED
    BY <1>2, <2>2, <2>3, ReceiverMovesNext, RetainedStep DEF IInv
<1>3. ASSUME NEW w \in Workers, ReceiptArrives(w) PROVE SenderAllows
  <2>1. UNCHANGED <<jobStatus, attemptCount, due, lastError, msgStatus, workerPc, registry, locked,
                    batch, cur, outcome, sends, workerCrashes>> /\ Retained' = Retained
    BY <1>3 DEF ReceiptArrives, receiverVars, Retained
  <2>2. CASE answer' = [answer EXCEPT ![w] = "ok"] /\ cur[w] \in Retained
    <3>1. Retained' = Retained \cup {cur[w]}
      BY <2>1, <2>2
    <3>2. Sender!PartnerReceives(w)
      BY <1>3, <2>1, <2>2, <3>1, AnswerStep DEF Sender!PartnerReceives, Sender!dbVars
    <3> QED
      BY <3>2 DEF SenderAllows, Sender!Next
  <2>3. CASE answer' = [answer EXCEPT ![w] = "nack"]
    <3>1. Sender!PartnerReceives(w)
      BY <1>3, <2>1, <2>3, AnswerStep DEF Sender!PartnerReceives, Sender!dbVars
    <3> QED
      BY <3>1 DEF SenderAllows, Sender!Next
  <2> QED
    BY <1>3, <2>2, <2>3, AnswerStep
<1>4. CASE UNCHANGED vars
  BY <1>4 DEF vars, senderVars, receiverVars, Retained, SenderAllows, Sender!vars,
              Sender!dbVars, Sender!workerVars, Sender!historyVars
<1> QED
  BY <1>1, <1>2, <1>3, <1>4, Moves

(* The pipeline behaves as OutboundQueue expects of a partner, so that     *)
(* what is proved of OutboundQueue holds between two gateways.             *)
THEOREM SenderRefinement == Spec => ImplementsSender
<1>1. Init => Sender!Init
  BY DEF Init, SenderInit
<1> QED
  BY <1>1, RefinementStep, Inductive, PTL DEF Spec, ImplementsSender, Sender!Spec, SenderAllows

-----------------------------------------------------------------------------
(* Why a job was refused.  What a handler answers is its verdict, and what *)
(* it has stored it disowns only for a system error.                       *)
AnswerInv ==
  \A p \in Posts :
    /\ reply[p] \in Receiver!Verdicts => handlerPc[p] = "done" /\ reply[p] = verdict[p]
    /\ handlerPc[p] \in {"idle", "parsing", "dedupe", "inserting", "decrypting", "delivering",
                          "recording", "deciding"} => verdict[p] = "none"
    /\ handlerPc[p] = "rejecting" => stored[p] = {}
    /\ stored[p] # {} => verdict[p] \in {"none", "ok", "SYSTEM_ERROR"}

(* What a handler takes for a duplicate has no row of its own, and the row *)
(* it found is of another attempt at the same job.                         *)
OriginalInv ==
  \A p \in Posts :
    verdict[p] \in Receiver!Duplicate =>
      /\ handlerPc[p] \in {"signing", "done"}
      /\ rowStatus[p] = "absent"
      /\ \E q \in Posts : q[1] = p[1] /\ rowStatus[q] # "absent"

(* A job is in one worker's hands, and is not sent by anybody else.        *)
Holds(w) == locked[w] \cup {j \in Jobs : batch[w][j] > 0}
HoldInv ==
  /\ batch \in [Workers -> [Jobs -> Nat]] /\ locked \in [Workers -> SUBSET Jobs]
  /\ attemptCount \in [Jobs -> Nat] /\ due \subseteq Jobs
  /\ \A v, w \in Workers : v # w => Holds(v) \cap Holds(w) = {}
  /\ \A w \in Workers :
       /\ \A j \in locked[w] : jobStatus[j] = "queued"
       /\ \A j \in Jobs : batch[w][j] > 0 => jobStatus[j] = "in_progress"
       /\ workerPc[w] \in {"sending", "concluding"} => cur[w] \in Jobs /\ batch[w][cur[w]] > 0

(* A refusal on its way, read or written down, is the receiver's answer to *)
(* the last POST of the job.                                               *)
RefusedPosts == {p \in Posts : reply[p] \in Receiver!Verdicts \ {"ok"}}
Nacked(j) == <<j, sends[j]>> \in RefusedPosts
NackInv ==
  /\ \A w \in Workers :
       /\ answer[w] # "none" => workerPc[w] = "sending"
       /\ answer[w] = "nack" => Nacked(cur[w])
       /\ outcome[w] # "none" => workerPc[w] \in {"concluding", "tracking"}
       /\ workerPc[w] = "concluding" /\ outcome[w] = "nack" => Nacked(cur[w])
  /\ \A j \in Jobs : jobStatus[j] = "failed_nack" => Nacked(j)

ExplainedInv == AnswerInv /\ OriginalInv /\ HoldInv /\ NackInv

(* A verdict is given once, and after the last thing a handler stores.     *)
LEMMA AnswerInvStep == ASSUME ReceiverInv, AnswerInv, ReceiverNext PROVE AnswerInv'
<1> USE ExchangeAssumption
    DEF ReceiverInv, ReceiverTypes, StoredInv, AnswerInv, Receiver!Stages, Receiver!Verdicts,
        Receiver!Duplicate, Receiver!Refused, Receiver!rowVars, Receiver!Goto
<1>1. ASSUME NEW p \in Posts, Receiver!Arrive(p) PROVE AnswerInv'
  BY <1>1 DEF Receiver!Arrive
<1>2. ASSUME NEW p \in Posts, Receiver!RefuseEnvelope(p) PROVE AnswerInv'
  BY <1>2 DEF Receiver!RefuseEnvelope, Receiver!Reject
<1>3. ASSUME NEW p \in Posts, Receiver!PassEnvelope(p) PROVE AnswerInv'
  BY <1>3 DEF Receiver!PassEnvelope
<1>4. ASSUME NEW p \in Posts, Receiver!FindDuplicate(p) PROVE AnswerInv'
  BY <1>4 DEF Receiver!FindDuplicate, Receiver!Reject, Receiver!DuplicateCode
<1>5. ASSUME NEW p \in Posts, Receiver!Insert(p) PROVE AnswerInv'
  BY <1>5 DEF Receiver!Insert
<1>6. ASSUME NEW p \in Posts, Receiver!InsertRefused(p) PROVE AnswerInv'
  BY <1>6 DEF Receiver!InsertRefused, Receiver!Reject, Receiver!DuplicateCode
<1>7. ASSUME NEW p \in Posts, Receiver!Decrypt(p) PROVE AnswerInv'
  BY <1>7 DEF Receiver!Decrypt, Receiver!DecryptRefusals
<1>8. ASSUME NEW p \in Posts, Receiver!FanOut(p) PROVE AnswerInv'
  BY <1>8 DEF Receiver!FanOut
<1>9. ASSUME NEW p \in Posts, Receiver!RecordSinks(p) PROVE AnswerInv'
  BY <1>9 DEF Receiver!RecordSinks, Receiver!Retained
<1>10. ASSUME NEW p \in Posts, Receiver!Accept(p) PROVE AnswerInv'
  BY <1>10 DEF Receiver!Accept, Receiver!UpdateStatus
<1>11. ASSUME NEW p \in Posts, Receiver!RejectRow(p) PROVE AnswerInv'
  BY <1>11 DEF Receiver!RejectRow, Receiver!UpdateStatus
<1>12. ASSUME NEW p \in Posts, Receiver!Recover(p) PROVE AnswerInv'
  BY <1>12 DEF Receiver!Recover, Receiver!UpdateStatus
<1>13. ASSUME NEW p \in Posts, Receiver!Reply(p) PROVE AnswerInv'
  BY <1>13 DEF Receiver!Reply, Receiver!Respond
<1>14. ASSUME NEW p \in Posts, Receiver!SignFails(p) PROVE AnswerInv'
  BY <1>14 DEF Receiver!SignFails, Receiver!Respond, Receiver!InTry, Receiver!Row
<1>15. ASSUME NEW p \in Posts, Receiver!DbFails(p) PROVE AnswerInv'
  BY <1>15 DEF Receiver!DbFails, Receiver!Respond
<1>16. ASSUME NEW R \in SUBSET Posts, Receiver!MarkProcessed(R) PROVE AnswerInv'
  BY <1>16 DEF Receiver!MarkProcessed
<1>17. ASSUME Receiver!Crash PROVE AnswerInv'
  BY <1>17 DEF Receiver!Crash, Receiver!Running
<1> QED
  BY <1>1, <1>2, <1>3, <1>4, <1>5, <1>6, <1>7, <1>8, <1>9, <1>10, <1>11, <1>12, <1>13, <1>14,
     <1>15, <1>16, <1>17 DEF ReceiverNext, Receiver!Handle

(* No row is ever deleted.                                                 *)
LEMMA RowsStay ==
  ASSUME ReceiverTypes, ReceiverNext
  PROVE  \A q \in Posts : rowStatus[q] # "absent" => rowStatus'[q] # "absent"
<1> DEFINE Stay == \A q \in Posts : rowStatus[q] # "absent" => rowStatus'[q] # "absent"
<1>1. ASSUME NEW p \in Posts,
             \/ Receiver!Insert(p) \/ Receiver!Accept(p) \/ Receiver!RejectRow(p)
             \/ Receiver!Recover(p)
      PROVE Stay
  BY <1>1 DEF ReceiverTypes, Receiver!Insert, Receiver!Accept, Receiver!RejectRow,
              Receiver!Recover, Receiver!UpdateStatus
<1>2. ASSUME NEW R \in SUBSET Posts, Receiver!MarkProcessed(R) PROVE Stay
  BY <1>2 DEF Receiver!MarkProcessed, ReceiverTypes
<1>3. ASSUME NEW p \in Posts,
             \/ Receiver!Arrive(p) \/ Receiver!RefuseEnvelope(p) \/ Receiver!PassEnvelope(p)
             \/ Receiver!FindDuplicate(p) \/ Receiver!InsertRefused(p) \/ Receiver!Decrypt(p)
             \/ Receiver!FanOut(p) \/ Receiver!RecordSinks(p) \/ Receiver!Reply(p)
             \/ Receiver!SignFails(p) \/ Receiver!DbFails(p)
      PROVE rowStatus' = rowStatus
  BY <1>3 DEF Receiver!Arrive, Receiver!RefuseEnvelope, Receiver!PassEnvelope,
    Receiver!FindDuplicate, Receiver!InsertRefused, Receiver!Decrypt, Receiver!FanOut,
    Receiver!RecordSinks, Receiver!Reply, Receiver!SignFails, Receiver!DbFails, Receiver!rowVars
<1>4. ASSUME Receiver!Crash PROVE rowStatus' = rowStatus
  BY <1>4 DEF Receiver!Crash, Receiver!rowVars
<1> QED
  BY <1>1, <1>2, <1>3, <1>4 DEF ReceiverNext, Receiver!Handle

(* The row that find_refnum_reuse, find_duplicate or a UNIQUE constraint   *)
(* comes upon is of the same job: one job, one ciphertext, one refnum.     *)
LEMMA OriginalFact ==
  ASSUME NEW p \in Posts, NEW q \in Posts, Receiver!SameDigest(p, q) \/ Receiver!SameRefnum(p, q)
  PROVE  q[1] = p[1]
<1>1. p[1] \in Jobs /\ q[1] \in Jobs
  BY DEF Posts
<1> QED
  BY <1>1, ExchangeAssumption DEF Receiver!SameDigest, Receiver!SameRefnum, CiphertextOf

(* Only the UNIQUE constraints and the queries before them make duplicates. *)
LEMMA OriginalInvStep ==
  ASSUME ReceiverInv, OriginalInv, ReceiverNext
  PROVE  OriginalInv'
<1> DEFINE Found(p) == \E q \in Posts : q[1] = p[1] /\ rowStatus[q] # "absent"
<1>0. /\ ReceiverTypes /\ StoredInv
      /\ \A q \in Posts : rowStatus[q] # "absent" => rowStatus'[q] # "absent"
  BY RowsStay DEF ReceiverInv
<1>18. ASSUME NEW p \in Posts, Receiver!Seen(p) \/ Receiver!Violates(p) PROVE Found(p)
  <2>1. CASE Receiver!Seen(p)
    BY <2>1, OriginalFact DEF Receiver!Seen, Receiver!Row
  <2>2. CASE Receiver!Violates(p)
    BY <2>2, OriginalFact DEF Receiver!Violates, Receiver!Clash, Receiver!Row
  <2> QED
    BY <1>18, <2>1, <2>2
<1> HIDE DEF Found
<1>19. \A p \in Posts : Found(p) => \E q \in Posts : q[1] = p[1] /\ rowStatus'[q] # "absent"
  BY <1>0 DEF Found
<1> USE <1>0, <1>19
    DEF ReceiverTypes, StoredInv, OriginalInv, Found, Receiver!Duplicate, Receiver!rowVars,
        Receiver!Goto
<1>1. ASSUME NEW p \in Posts, Receiver!Arrive(p) PROVE OriginalInv'
  BY <1>1 DEF Receiver!Arrive
<1>2. ASSUME NEW p \in Posts, Receiver!RefuseEnvelope(p) PROVE OriginalInv'
  BY <1>2 DEF Receiver!RefuseEnvelope, Receiver!Reject
<1>3. ASSUME NEW p \in Posts, Receiver!PassEnvelope(p) PROVE OriginalInv'
  BY <1>3 DEF Receiver!PassEnvelope
<1>4. ASSUME NEW p \in Posts, Receiver!FindDuplicate(p) PROVE OriginalInv'
  BY <1>4, <1>18 DEF Receiver!FindDuplicate, Receiver!Reject, Receiver!DuplicateCode
<1>5. ASSUME NEW p \in Posts, Receiver!Insert(p) PROVE OriginalInv'
  BY <1>5 DEF Receiver!Insert
<1>6. ASSUME NEW p \in Posts, Receiver!InsertRefused(p) PROVE OriginalInv'
  BY <1>6, <1>18 DEF Receiver!InsertRefused, Receiver!Reject, Receiver!DuplicateCode
<1>7. ASSUME NEW p \in Posts, Receiver!Decrypt(p) PROVE OriginalInv'
  BY <1>7 DEF Receiver!Decrypt, Receiver!DecryptRefusals
<1>8. ASSUME NEW p \in Posts, Receiver!FanOut(p) PROVE OriginalInv'
  BY <1>8 DEF Receiver!FanOut
<1>9. ASSUME NEW p \in Posts, Receiver!RecordSinks(p) PROVE OriginalInv'
  BY <1>9 DEF Receiver!RecordSinks, Receiver!Retained
<1>10. ASSUME NEW p \in Posts, Receiver!Accept(p) PROVE OriginalInv'
  BY <1>10 DEF Receiver!Accept, Receiver!UpdateStatus
<1>11. ASSUME NEW p \in Posts, Receiver!RejectRow(p) PROVE OriginalInv'
  BY <1>11 DEF Receiver!RejectRow, Receiver!UpdateStatus
<1>12. ASSUME NEW p \in Posts, Receiver!Recover(p) PROVE OriginalInv'
  BY <1>12 DEF Receiver!Recover, Receiver!UpdateStatus
<1>13. ASSUME NEW p \in Posts, Receiver!Reply(p) PROVE OriginalInv'
  BY <1>13 DEF Receiver!Reply, Receiver!Respond
<1>14. ASSUME NEW p \in Posts, Receiver!SignFails(p) PROVE OriginalInv'
  BY <1>14 DEF Receiver!SignFails, Receiver!Respond, Receiver!InTry, Receiver!Row
<1>15. ASSUME NEW p \in Posts, Receiver!DbFails(p) PROVE OriginalInv'
  BY <1>15 DEF Receiver!DbFails, Receiver!Respond
<1>16. ASSUME NEW R \in SUBSET Posts, Receiver!MarkProcessed(R) PROVE OriginalInv'
  BY <1>16 DEF Receiver!MarkProcessed
<1>17. ASSUME Receiver!Crash PROVE OriginalInv'
  BY <1>17 DEF Receiver!Crash, Receiver!Running
<1> QED
  BY <1>1, <1>2, <1>3, <1>4, <1>5, <1>6, <1>7, <1>8, <1>9, <1>10, <1>11, <1>12, <1>13, <1>14,
     <1>15, <1>16, <1>17 DEF ReceiverNext, Receiver!Handle

(* Claims lock what is queued and free, and a job leaves a worker's hands  *)
(* with the transaction that concludes it.                                 *)
LEMMA HoldInvStep == ASSUME SenderTypes, HoldInv, SenderMoves PROVE HoldInv'
<1> USE ExchangeAssumption
    DEF SenderTypes, HoldInv, Holds, Sender!dbVars, Sender!workerVars, Sender!historyVars,
        Sender!Steps, Sender!Terminal
<1>1. ASSUME NEW j \in Jobs, Sender!EnqueueMessage(j) PROVE HoldInv'
  BY <1>1 DEF Sender!EnqueueMessage
<1>2. ASSUME NEW j \in Jobs, Sender!EnqueueJob(j) PROVE HoldInv'
  BY <1>2 DEF Sender!EnqueueJob
<1>3. ASSUME NEW j \in Jobs, Sender!BecomesDue(j) PROVE HoldInv'
  BY <1>3 DEF Sender!BecomesDue
<1>4. ASSUME NEW w \in Workers, Sender!WorkerStart(w) PROVE HoldInv'
  BY <1>4 DEF Sender!WorkerStart
<1>5. ASSUME NEW w \in Workers, Sender!SelectDue(w) PROVE HoldInv'
  <2>1. PICK S \in SUBSET Jobs :
          /\ \A j \in S : jobStatus[j] = "queued" /\ \A v \in Workers \ {w} : j \notin locked[v]
          /\ locked' = [locked EXCEPT ![w] = S]
    BY <1>5 DEF Sender!SelectDue, Sender!Claimable
  <2>2. \A j \in S : \A v \in Workers \ {w} : j \notin Holds(v)
    BY <2>1
  <2>3. UNCHANGED <<jobStatus, attemptCount, batch, cur>>
    BY <1>5 DEF Sender!SelectDue
  <2> QED
    BY <1>5, <2>1, <2>2, <2>3 DEF Sender!SelectDue
<1>6. ASSUME NEW w \in Workers, Sender!CommitClaim(w) PROVE HoldInv'
  BY <1>6 DEF Sender!CommitClaim
<1>7. ASSUME NEW w \in Workers, Sender!BatchDone(w) PROVE HoldInv'
  BY <1>7 DEF Sender!BatchDone
<1>8. ASSUME NEW w \in Workers, NEW j \in Jobs, Sender!TakeUnknownPartner(w, j) PROVE HoldInv'
  BY <1>8 DEF Sender!TakeUnknownPartner, Sender!Claimed
<1>9. ASSUME NEW w \in Workers, NEW j \in Jobs, Sender!BeginSend(w, j) PROVE HoldInv'
  BY <1>9 DEF Sender!BeginSend, Sender!Claimed
<1>10. ASSUME NEW w \in Workers, Sender!ReceiptRead(w) PROVE HoldInv'
  BY <1>10 DEF Sender!ReceiptRead, Sender!SendReturns
<1>11. ASSUME NEW w \in Workers, Sender!AttemptFails(w) PROVE HoldInv'
  BY <1>11 DEF Sender!AttemptFails, Sender!SendReturns
<1>12. ASSUME NEW w \in Workers, Sender!MarkDelivered(w) PROVE HoldInv'
  BY <1>12 DEF Sender!MarkDelivered, Sender!ConcludeJob, Sender!ThenTrack
<1>13. ASSUME NEW w \in Workers, Sender!MarkFailedNack(w) PROVE HoldInv'
  BY <1>13 DEF Sender!MarkFailedNack, Sender!ConcludeJob, Sender!ThenTrack
<1>14. ASSUME NEW w \in Workers, Sender!MarkExchangeFailure(w) PROVE HoldInv'
  BY <1>14 DEF Sender!MarkExchangeFailure, Sender!ConcludeJob, Sender!ThenTrack
<1>15. ASSUME NEW w \in Workers, Sender!Reschedule(w) PROVE HoldInv'
  BY <1>15 DEF Sender!Reschedule, Sender!ConcludeJob, Sender!ThenNextJob
<1>16. ASSUME NEW w \in Workers, Sender!MarkUnknownPartner(w) PROVE HoldInv'
  BY <1>16 DEF Sender!MarkUnknownPartner, Sender!ConcludeJob, Sender!ThenNextJob
<1>17. ASSUME NEW w \in Workers, Sender!TrackMessage(w) PROVE HoldInv'
  BY <1>17 DEF Sender!TrackMessage, Sender!ThenNextJob
<1>18. ASSUME NEW w \in Workers, Sender!Crash(w) PROVE HoldInv'
  BY <1>18 DEF Sender!Crash, Sender!ProcessEnds, Sender!EmptyBatch
<1> QED
  BY <1>1, <1>2, <1>3, <1>4, <1>5, <1>6, <1>7, <1>8, <1>9,
     <1>10, <1>11, <1>12, <1>13, <1>14, <1>15, <1>16, <1>17, <1>18
  DEF SenderMoves, Sender!WorkerStep, Sender!ProcessJob

(* No other attempt of the job begins while a refusal is on its way, and   *)
(* none after it was written down.                                         *)
LEMMA NackInvStep == ASSUME SenderTypes, HoldInv, NackInv, SenderMoves PROVE NackInv'
<1>0. RefusedPosts' = RefusedPosts
  BY DEF SenderMoves, receiverVars, RefusedPosts
<1> USE <1>0, ExchangeAssumption
    DEF SenderTypes, HoldInv, Holds, NackInv, Nacked, Sender!dbVars, Sender!workerVars, Sender!historyVars,
        Sender!Steps, Sender!Terminal, Sender!Outcomes
<1>1. ASSUME NEW j \in Jobs, Sender!EnqueueMessage(j) PROVE NackInv'
  BY <1>1 DEF Sender!EnqueueMessage
<1>2. ASSUME NEW j \in Jobs, Sender!EnqueueJob(j) PROVE NackInv'
  BY <1>2 DEF Sender!EnqueueJob
<1>3. ASSUME NEW j \in Jobs, Sender!BecomesDue(j) PROVE NackInv'
  BY <1>3 DEF Sender!BecomesDue
<1>4. ASSUME NEW w \in Workers, Sender!WorkerStart(w) PROVE NackInv'
  BY <1>4 DEF Sender!WorkerStart
<1>5. ASSUME NEW w \in Workers, Sender!SelectDue(w) PROVE NackInv'
  BY <1>5 DEF Sender!SelectDue
<1>6. ASSUME NEW w \in Workers, Sender!CommitClaim(w) PROVE NackInv'
  BY <1>6 DEF Sender!CommitClaim
<1>7. ASSUME NEW w \in Workers, Sender!BatchDone(w) PROVE NackInv'
  BY <1>7 DEF Sender!BatchDone
<1>8. ASSUME NEW w \in Workers, NEW j \in Jobs, Sender!TakeUnknownPartner(w, j) PROVE NackInv'
  BY <1>8 DEF Sender!TakeUnknownPartner, Sender!Claimed
<1>9. ASSUME NEW w \in Workers, NEW j \in Jobs, Sender!BeginSend(w, j) PROVE NackInv'
  <2>1. /\ batch[w][j] > 0 /\ jobStatus[j] = "in_progress" /\ workerPc[w] = "working"
        /\ sends' = [sends EXCEPT ![j] = @ + 1] /\ cur' = [cur EXCEPT ![w] = j]
        /\ workerPc' = [workerPc EXCEPT ![w] = "sending"]
        /\ UNCHANGED <<jobStatus, answer, outcome>>
    BY <1>9 DEF Sender!BeginSend, Sender!Claimed
  <2>2. ASSUME NEW i \in Jobs \ {j}, Nacked(i) PROVE Nacked(i)'
    BY <2>1, <2>2
  <2>3. ASSUME NEW v \in Workers \ {w}, workerPc[v] \in {"sending", "concluding"}
        PROVE  cur'[v] = cur[v] /\ cur[v] \in Jobs \ {j}
    BY <2>1, <2>3
  <2>4. answer[w] = "none" /\ outcome[w] = "none"
    BY <2>1
  <2>5. ASSUME NEW v \in Workers
        PROVE  /\ answer'[v] # "none" => workerPc'[v] = "sending"
               /\ answer'[v] = "nack" => Nacked(cur[v])'
               /\ outcome'[v] # "none" => workerPc'[v] \in {"concluding", "tracking"}
               /\ workerPc'[v] = "concluding" /\ outcome'[v] = "nack" => Nacked(cur[v])'
    <3>1. CASE v = w
      BY <2>1, <2>4, <3>1
    <3>2. CASE v # w
      <4>1. workerPc'[v] = workerPc[v] /\ answer'[v] = answer[v] /\ outcome'[v] = outcome[v]
        BY <2>1, <3>2
      <4>2. CASE workerPc[v] \in {"sending", "concluding"}
        BY <2>1, <2>3, <3>2, <4>1, <4>2
      <4>3. CASE workerPc[v] \notin {"sending", "concluding"}
        BY <4>1, <4>3
      <4> QED
        BY <4>2, <4>3
    <3> QED
      BY <3>1, <3>2
  <2>6. ASSUME NEW i \in Jobs, jobStatus'[i] = "failed_nack" PROVE Nacked(i)'
    BY <2>1, <2>2, <2>6
  <2> QED
    BY <2>5, <2>6
<1>10. ASSUME NEW w \in Workers, Sender!ReceiptRead(w) PROVE NackInv'
  BY <1>10 DEF Sender!ReceiptRead, Sender!SendReturns
<1>11. ASSUME NEW w \in Workers, Sender!AttemptFails(w) PROVE NackInv'
  BY <1>11 DEF Sender!AttemptFails, Sender!SendReturns
<1>12. ASSUME NEW w \in Workers, Sender!MarkDelivered(w) PROVE NackInv'
  BY <1>12 DEF Sender!MarkDelivered, Sender!ConcludeJob, Sender!ThenTrack
<1>13. ASSUME NEW w \in Workers, Sender!MarkFailedNack(w) PROVE NackInv'
  BY <1>13 DEF Sender!MarkFailedNack, Sender!ConcludeJob, Sender!ThenTrack
<1>14. ASSUME NEW w \in Workers, Sender!MarkExchangeFailure(w) PROVE NackInv'
  BY <1>14 DEF Sender!MarkExchangeFailure, Sender!ConcludeJob, Sender!ThenTrack
<1>15. ASSUME NEW w \in Workers, Sender!Reschedule(w) PROVE NackInv'
  BY <1>15 DEF Sender!Reschedule, Sender!ConcludeJob, Sender!ThenNextJob
<1>16. ASSUME NEW w \in Workers, Sender!MarkUnknownPartner(w) PROVE NackInv'
  BY <1>16 DEF Sender!MarkUnknownPartner, Sender!ConcludeJob, Sender!ThenNextJob
<1>17. ASSUME NEW w \in Workers, Sender!TrackMessage(w) PROVE NackInv'
  BY <1>17 DEF Sender!TrackMessage, Sender!ThenNextJob
<1>18. ASSUME NEW w \in Workers, Sender!Crash(w) PROVE NackInv'
  BY <1>18 DEF Sender!Crash, Sender!ProcessEnds, Sender!EmptyBatch
<1> QED
  BY <1>1, <1>2, <1>3, <1>4, <1>5, <1>6, <1>7, <1>8, <1>9,
     <1>10, <1>11, <1>12, <1>13, <1>14, <1>15, <1>16, <1>17, <1>18
  DEF SenderMoves, Sender!WorkerStep, Sender!ProcessJob

(* An answer given is final.                                               *)
LEMMA RefusedStay ==
  ASSUME ReceiverTypes, AnswerInv, ReceiverNext
  PROVE  RefusedPosts \subseteq RefusedPosts'
<1> SUFFICES ASSUME NEW q \in Posts, reply[q] \in Receiver!Verdicts PROVE reply'[q] = reply[q]
  BY DEF RefusedPosts
<1>0. handlerPc[q] = "done" /\ reply \in [Posts -> {"none", "http500", "dropped"} \cup Receiver!Verdicts]
  BY DEF AnswerInv, ReceiverTypes
<1>1. ASSUME NEW p \in Posts, NEW from \in Receiver!Stages \ {"done"}, NEW response,
             Receiver!Respond(p, from, response)
      PROVE reply'[q] = reply[q]
  BY <1>0, <1>1 DEF Receiver!Respond, Receiver!Goto
<1>2. ASSUME NEW p \in Posts, Receiver!Reply(p) \/ Receiver!SignFails(p) \/ Receiver!DbFails(p)
      PROVE reply'[q] = reply[q]
  BY <1>1, <1>2 DEF Receiver!Reply, Receiver!SignFails, Receiver!DbFails, Receiver!Stages
<1>3. ASSUME Receiver!Crash PROVE reply'[q] = reply[q]
  BY <1>0, <1>3 DEF Receiver!Crash, Receiver!Running
<1>4. ASSUME NEW p \in Posts,
             \/ Receiver!Arrive(p) \/ Receiver!RefuseEnvelope(p) \/ Receiver!PassEnvelope(p)
             \/ Receiver!FindDuplicate(p) \/ Receiver!Insert(p) \/ Receiver!InsertRefused(p)
             \/ Receiver!Decrypt(p) \/ Receiver!FanOut(p) \/ Receiver!RecordSinks(p)
             \/ Receiver!Accept(p) \/ Receiver!RejectRow(p) \/ Receiver!Recover(p)
      PROVE reply' = reply
  BY <1>4 DEF Receiver!Arrive, Receiver!RefuseEnvelope, Receiver!PassEnvelope,
    Receiver!FindDuplicate, Receiver!Insert, Receiver!InsertRefused, Receiver!Decrypt,
    Receiver!FanOut, Receiver!RecordSinks, Receiver!Accept, Receiver!RejectRow,
    Receiver!Recover, Receiver!UpdateStatus
<1>5. ASSUME NEW R \in SUBSET Posts, Receiver!MarkProcessed(R) PROVE reply' = reply
  BY <1>5 DEF Receiver!MarkProcessed
<1> QED
  BY <1>2, <1>3, <1>4, <1>5 DEF ReceiverNext, Receiver!Handle

(* Nobody holds, has sent or has answered anything at first.               *)
LEMMA ExplainedInit == Init => ExplainedInv
<1> SUFFICES ASSUME Init PROVE ExplainedInv
  OBVIOUS
<1>1. AnswerInv /\ OriginalInv
  BY DEF Init, ReceiverInit, Receiver!Init, AnswerInv, OriginalInv, Receiver!Verdicts, Receiver!Duplicate,
         Receiver!Refused
<1>2. HoldInv
  BY DEF Init, SenderInit, Sender!Init, HoldInv, Holds, Sender!EmptyBatch
<1>3. NackInv
  BY DEF Init, SenderInit, Sender!Init, NackInv
<1> QED
  BY <1>1, <1>2, <1>3 DEF ExplainedInv

(* What explains a refusal is disturbed by neither side.                   *)
LEMMA ExplainedStep == IInv /\ ExplainedInv /\ [Next]_vars => ExplainedInv'
<1> SUFFICES ASSUME IInv, ExplainedInv, [Next]_vars PROVE ExplainedInv'
  OBVIOUS
<1>0. /\ ReceiverInv /\ ReceiverTypes /\ SenderTypes
      /\ AnswerInv /\ OriginalInv /\ HoldInv /\ NackInv
  BY DEF IInv, ReceiverInv, SenderInv, ExplainedInv
<1>1. UNCHANGED receiverVars => AnswerInv' /\ OriginalInv' /\ RefusedPosts' = RefusedPosts
  BY <1>0 DEF receiverVars, AnswerInv, OriginalInv, RefusedPosts
<1>2. UNCHANGED senderVars => HoldInv'
  BY <1>0 DEF senderVars, HoldInv, Holds
<1>3. UNCHANGED senderVars /\ RefusedPosts \subseteq RefusedPosts' => NackInv'
  BY <1>0 DEF senderVars, NackInv, Nacked
<1>4. CASE SenderMoves
  BY <1>0, <1>1, <1>4, HoldInvStep, NackInvStep DEF SenderMoves, ExplainedInv
<1>5. CASE ReceiverMoves
  <2>1. ReceiverNext
    BY <1>5, ReceiverMovesNext
  <2>2. RefusedPosts \subseteq RefusedPosts' /\ AnswerInv' /\ OriginalInv'
    BY <1>0, <2>1, RefusedStay, AnswerInvStep, OriginalInvStep
  <2> QED
    BY <1>2, <1>3, <1>5, <2>2 DEF ReceiverMoves, ExplainedInv
<1>6. ASSUME NEW w \in Workers, ReceiptArrives(w) PROVE ExplainedInv'
  <2>1. /\ UNCHANGED <<jobStatus, attemptCount, due, workerPc, locked, batch, cur, outcome, sends>>
        /\ UNCHANGED receiverVars
    BY <1>6 DEF ReceiptArrives, receiverVars
  <2>2. HoldInv'
    BY <1>0, <2>1 DEF HoldInv, Holds
  <2>3. PICK p \in Posts :
          /\ p = <<cur[w], sends[cur[w]]>> /\ reply[p] \in Receiver!Verdicts
          /\ answer' = [answer EXCEPT ![w] = IF reply[p] = "ok" THEN "ok" ELSE "nack"]
    BY <1>6 DEF ReceiptArrives
  <2>4. reply[p] = "ok" \/ Nacked(cur[w])
    BY <2>3 DEF Nacked, RefusedPosts
  <2>5. workerPc[w] = "sending"
    BY <1>6 DEF ReceiptArrives
  <2>6. NackInv'
    BY <1>0, <1>1, <2>1, <2>3, <2>4, <2>5 DEF NackInv, Nacked, SenderTypes
  <2> QED
    BY <1>1, <2>1, <2>2, <2>6 DEF ExplainedInv
<1>7. CASE UNCHANGED vars
  BY <1>1, <1>2, <1>3, <1>7 DEF vars, ExplainedInv
<1> QED
  BY <1>4, <1>5, <1>6, <1>7, Moves

(* A job ends as failed_nack only when its last POST was refused; as a     *)
(* duplicate only after an earlier attempt, and after that very attempt    *)
(* was stored only for a failure of the receiver in between (_process_job, *)
(* the except clause of receive).                                          *)
THEOREM NackIsExplainedAlways == Spec => []NackIsExplained
<1>1. IInv /\ ExplainedInv => NackIsExplained
  <2> SUFFICES ASSUME IInv, ExplainedInv, NEW j \in Jobs, jobStatus[j] = "failed_nack"
               PROVE  LET last == <<j, sends[j]>> IN
                      /\ reply[last] \in Receiver!Verdicts \ {"ok"}
                      /\ reply[last] \in Receiver!Duplicate =>
                           \E post \in Posts :
                             post[1] = j /\ post[2] < last[2] /\ Receiver!Row(post)
                      /\ stored[last] # {} => reply[last] = "SYSTEM_ERROR"
    BY DEF NackIsExplained
  <2> DEFINE last == <<j, sends[j]>>
  <2>1. last \in Posts /\ reply[last] \in Receiver!Verdicts \ {"ok"}
    BY DEF ExplainedInv, NackInv, Nacked, RefusedPosts
  <2>2. verdict[last] = reply[last]
    BY <2>1 DEF ExplainedInv, AnswerInv
  <2>3. stored[last] # {} => reply[last] = "SYSTEM_ERROR"
    BY <2>1, <2>2 DEF ExplainedInv, AnswerInv, Receiver!Verdicts, Receiver!Refused, Receiver!Duplicate
  <2>4. ASSUME reply[last] \in Receiver!Duplicate
        PROVE  \E post \in Posts : post[1] = j /\ post[2] < sends[j] /\ rowStatus[post] # "absent"
    <3>1. PICK post \in Posts : post[1] = j /\ rowStatus[post] # "absent"
      BY <2>1, <2>2, <2>4 DEF ExplainedInv, OriginalInv
    <3>2. rowStatus[last] = "absent"
      BY <2>1, <2>2, <2>4 DEF ExplainedInv, OriginalInv
    <3>3. post = <<post[1], post[2]>> /\ post[2] \in Nat /\ sends[j] \in Nat
      BY DEF Posts, IInv, SenderInv, SenderTypes
    <3>4. post[2] # sends[j]
      BY <3>1, <3>2, <3>3
    <3>5. post[2] <= sends[j]
      BY <3>1 DEF IInv, ReceiverInv, SenderInv, StoredInv, ArrivedInv
    <3> QED
      BY <3>1, <3>3, <3>4, <3>5
  <2> QED
    BY <2>1, <2>3, <2>4 DEF Receiver!Row
<1> QED
  BY <1>1, ExplainedInit, ExplainedStep, Inductive, PTL DEF Spec
=============================================================================
