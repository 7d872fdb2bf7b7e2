------------------------------ MODULE Exchange ------------------------------
(***************************************************************************)
(* Two gateways and the network between them: the delivery workers of one  *)
(* (OutboundQueue) POST to the inbound pipeline of the other               *)
(* (InboundPipeline), once per attempt.                                    *)
(*                                                                         *)
(* OutboundQueue lets the partner do as it pleases; here it is replaced by *)
(* the pipeline.  The network may lose a POST, deliver it after the worker *)
(* has stopped waiting, in any order with others, and lose the receipt; it *)
(* does not repeat a POST (HTTP over one connection).                      *)
(***************************************************************************)
EXTENDS Naturals

CONSTANTS
  Jobs, Workers, ScheduleLength, ClaimLimit, MaxWorkerCrashes, NoJob,  \* the sender
  JobRefnum,          \* outbound_jobs.refnum, or NoRefnum
  NoRefnum,
  RefnumsAgreed,      \* does the receiver have use_refnum set for the sender
  DurableSinks, MaxReceiverCrashes, MaxDbFailures, SignMayFail         \* the receiver

(* The receiver has a durable sink: without one it acknowledges what       *)
(* nothing retains (has_durable_success of no durable results).  No two    *)
(* jobs for it share a refnum: enqueue_outbound inserts the messages row   *)
(* first, and UNIQUE (partner_name, refnum, direction) of 0004 refuses it. *)
ASSUME ExchangeAssumption ==
  /\ DurableSinks # {}
  /\ ScheduleLength \in Nat
  /\ NoJob \notin Jobs
  /\ \A i, j \in Jobs : JobRefnum[i] = JobRefnum[j] /\ JobRefnum[i] # NoRefnum => i = j

VARIABLES
  \* of the sender
  jobStatus, attemptCount, due, lastError, msgStatus,
  workerPc, registry, locked, batch, cur, outcome, answer, sends, workerCrashes,
  \* of the receiver
  rowStatus, errorCode, sinksStatus, transSeq, transId,
  handlerPc, verdict, stored, reply, receiverCrashes, dbFailures

senderVars == <<jobStatus, attemptCount, due, lastError, msgStatus, workerPc, registry, locked,
                batch, cur, outcome, answer, sends, workerCrashes>>
receiverVars == <<rowStatus, errorCode, sinksStatus, transSeq, transId, handlerPc, verdict,
                  stored, reply, receiverCrashes, dbFailures>>
vars == <<senderVars, receiverVars>>

-----------------------------------------------------------------------------
(* the n-th POST of a job, while the schedule allows one *)
Posts == Jobs \X (1 .. IF ScheduleLength = 0 THEN 1 ELSE ScheduleLength)

\* Mutant: every attempt encrypts the payload again.
CiphertextOf_Fresh(post) == post

(* enqueue_outbound encrypts once; every attempt sends payload_ciphertext *)
CiphertextOf(post) == post[1]

(* the jobs whose plaintext the receiver holds *)
Retained == {j \in Jobs : \E post \in Posts : post[1] = j /\ stored[post] # {}}

Sender == INSTANCE OutboundQueue WITH
  Partners <- {"receiver"}, PartnerOf <- [j \in Jobs |-> "receiver"],
  Registries <- {{"receiver"}}, MaxCrashes <- MaxWorkerCrashes, SendMayRaise <- FALSE,
  pc <- workerPc, accepted <- Retained, crashes <- workerCrashes

Receiver == INSTANCE InboundPipeline WITH
  Requests <- Posts, PartnerOf <- [post \in Posts |-> "sender"],
  DigestOf <- [post \in Posts |-> CiphertextOf(post)],
  RefnumOf <- [post \in Posts |-> JobRefnum[post[1]]],
  UsesRefnum <- IF RefnumsAgreed THEN {"sender"} ELSE {}, RequiresSignature <- {"sender"},
  RequireDurable <- TRUE, MaxCrashes <- MaxReceiverCrashes,
  Unsignable <- IF SignMayFail THEN Posts ELSE {},
  pc <- handlerPc, crashes <- receiverCrashes

ReceiverInit == Receiver!Init
SenderInit == Sender!Init
Init == ReceiverInit /\ SenderInit

-----------------------------------------------------------------------------
(* what the sender does without hearing from the receiver *)
SenderStep(w) == UNCHANGED receiverVars /\ Sender!WorkerStep(w)
SenderStart(w) == UNCHANGED receiverVars /\ Sender!WorkerStart(w)
SenderCrash(w) == UNCHANGED receiverVars /\ Sender!Crash(w)
SenderEnqueues(j) ==
  UNCHANGED receiverVars /\ (Sender!EnqueueMessage(j) \/ Sender!EnqueueJob(j))
SenderClock(j) == UNCHANGED receiverVars /\ Sender!BecomesDue(j)

Sent(post) == post[2] <= sends[post[1]]

(* the POST of attempt n reaches the receiver, now or long after *)
PostArrives(post) == Sent(post) /\ Receiver!Arrive(post) /\ UNCHANGED senderVars

(* ... and is handled; on arrival, the database may fail *)
ReceiverHandles(post) == Sent(post) /\ Receiver!Handle(post) /\ UNCHANGED senderVars
ReceiverCrash == Receiver!Crash /\ UNCHANGED senderVars
Consumer(R) == Receiver!MarkProcessed(R) /\ UNCHANGED senderVars

(* The receipt of the POST that a worker is waiting for comes back.  An    *)
(* HTTP error, or a connection that breaks, is the sender's AttemptFails,  *)
(* as is a timeout.                                                        *)
ReceiptArrives(w) ==
  /\ workerPc[w] = "sending"
  /\ answer[w] = "none"
  /\ \E post \in Posts :
       /\ post = <<cur[w], sends[cur[w]]>>
       /\ reply[post] \in Receiver!Verdicts
       /\ answer' = [answer EXCEPT ![w] = IF reply[post] = "ok" THEN "ok" ELSE "nack"]
  /\ UNCHANGED <<jobStatus, attemptCount, due, lastError, msgStatus, workerPc, registry, locked,
                 batch, cur, outcome, sends, workerCrashes, receiverVars>>

-----------------------------------------------------------------------------
Next ==
  \/ \E j \in Jobs : SenderEnqueues(j) \/ SenderClock(j)
  \/ \E w \in Workers : SenderStart(w) \/ SenderStep(w) \/ SenderCrash(w) \/ ReceiptArrives(w)
  \/ \E post \in Posts : PostArrives(post) \/ ReceiverHandles(post)
  \/ \E R \in SUBSET Posts : Consumer(R)
  \/ ReceiverCrash

Spec == Init /\ [][Next]_vars

(* The sender is as fair as its own module says.  The network owes nothing,*)
(* neither a POST nor a receipt, and the receiver no answer.               *)
FairSpec ==
  /\ Spec
  /\ \A w \in Workers : WF_vars(SenderStep(w)) /\ WF_vars(SenderStart(w))
  /\ \A j \in Jobs : WF_vars(SenderClock(j))

-----------------------------------------------------------------------------
(* The pipeline behaves as OutboundQueue expects of a partner: everything  *)
(* shown of OutboundQueue holds between two gateways, "accepted" being     *)
(* what the receiver has retained.                                         *)
ImplementsSender == Sender!Spec

(* README: "delivered" end to end.  A job is reported delivered only if    *)
(* the receiver's sinks hold its plaintext (mark_delivered, the signed ok  *)
(* receipt, has_durable_success).                                          *)
DeliveredIsRetained ==
  \A j \in Jobs : jobStatus[j] = "delivered" => j \in Retained

(* docs/outbound-flow.md section 2: the ciphertext is "reused for every    *)
(* retry attempt, specifically so a partner's own content-digest dedup     *)
(* still recognizes repeated deliveries": however often a job is sent, and *)
(* in whatever order the POSTs arrive, it reaches the sinks once.          *)
HandedOnOncePerJob ==
  \A j \in Jobs : \A p, q \in Posts :
    p[1] = j /\ q[1] = j /\ stored[p] # {} /\ stored[q] # {} => p = q

(* A job that ends as failed_nack was refused on its last attempt; as a    *)
(* duplicate only after an earlier attempt whose receipt the sender never  *)
(* saw, and after that very attempt was stored only because the receiver   *)
(* failed in between (_process_job, the except clause of receive).         *)
NackIsExplained ==
  \A j \in Jobs : jobStatus[j] = "failed_nack" =>
    LET last == <<j, sends[j]>> IN
    /\ reply[last] \in Receiver!Verdicts \ {"ok"}
    /\ reply[last] \in Receiver!Duplicate =>
         \E post \in Posts : post[1] = j /\ post[2] < last[2] /\ Receiver!Row(post)
    /\ stored[last] # {} => reply[last] = "SYSTEM_ERROR"

(* docs/outbound-flow.md section 4: failed_nack means that "the partner    *)
(* actively rejected the message".                                         *)
NackMeansRefused ==
  \A j \in Jobs : jobStatus[j] = "failed_nack" => j \notin Retained

(* Whatever the network loses and the receiver suffers, the sender comes   *)
(* to a conclusion about every job (_handle_failure, timeout_seconds),     *)
(* unless a worker of its own dies.                                        *)
ExchangeEnds ==
  \A j \in Jobs :
    jobStatus[j] = "queued" ~> jobStatus[j] \in Sender!Terminal \/ workerCrashes > 0
=============================================================================
