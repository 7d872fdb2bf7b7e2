---------------------------- MODULE OutboundQueue ---------------------------
(***************************************************************************)
(* The outbound delivery queue: enqueue_outbound (app/outbound/enqueue.py) *)
(* inserts a messages row and then an outbound_jobs row; worker processes  *)
(* (app/worker.py) claim due jobs, make one delivery attempt of each       *)
(* (app/outbound/client.py::send_once) and write the outcome back, first   *)
(* to outbound_jobs and then, in a second transaction, to messages.        *)
(*                                                                         *)
(* A step is one database transaction, or one exchange with the partner.   *)
(* A job and the messages row it was enqueued with share one identity, an  *)
(* element of Jobs: enqueue_outbound makes a fresh row of each per call.   *)
(* Time is abstracted: "due" holds the jobs with next_attempt_at <= now(). *)
(* An exception that escapes run_worker, a database error included, ends   *)
(* the process; so does a kill.  Both are the action Crash.                *)
(***************************************************************************)
EXTENDS Naturals, FiniteSets

CONSTANTS
  Jobs,            \* calls of enqueue_outbound
  Workers,         \* worker processes, "python -m app.worker"
  Partners,        \* trading partners
  PartnerOf,       \* the partner each job is for
  Registries,      \* contents partners.yaml may have when a worker starts
  ScheduleLength,  \* len(settings.outbound.retry_schedule_seconds)
  ClaimLimit,      \* claim_due_jobs(limit=10)
  MaxCrashes,      \* bound on the worker processes that die
  SendMayRaise,    \* may send_once raise something other than DeliveryAttemptError
  NoJob            \* not a job

ASSUME ConstantsAssumption ==
  /\ PartnerOf \in [Jobs -> Partners]
  /\ Registries \subseteq SUBSET Partners
  /\ ScheduleLength \in Nat
  /\ ClaimLimit \in Nat \ {0}
  /\ MaxCrashes \in Nat
  /\ SendMayRaise \in BOOLEAN
  /\ NoJob \notin Jobs

VARIABLES
  jobStatus,     \* outbound_jobs.status, "absent" before the INSERT
  attemptCount,  \* outbound_jobs.attempt_count
  due,           \* the jobs with next_attempt_at <= now()
  lastError,     \* outbound_jobs.last_error_description: why the job last failed
  msgStatus,     \* messages.status of the job's audit row
  pc,            \* where each worker is
  registry,      \* the partners each worker read at its start
  locked,        \* rows a worker's claim transaction holds FOR UPDATE
  batch,         \* batch[w][j]: attempt_count in the job object for j in w's memory, or 0
  cur,           \* the job _process_job is working on
  outcome,       \* what became of it, before it is written down
  answer,        \* the partner's receipt on its way back
  sends,         \* calls of send_once per job (history)
  accepted,      \* jobs whose message the partner has accepted (the partner's state)
  crashes        \* processes that died so far

dbVars == <<jobStatus, attemptCount, due, lastError, msgStatus>>
workerVars == <<pc, registry, locked, batch, cur, outcome, answer>>
historyVars == <<sends, accepted, crashes>>
vars == <<dbVars, workerVars, historyVars>>

Terminal == {"delivered", "failed_nack", "exchange_failure"}
Steps == {"down", "polling", "claiming", "working", "sending", "concluding", "tracking"}
Outcomes == {"none", "ok", "nack", "error", "unknown_partner"}

(* attempt_count >= len(schedule) ends the retries; the first attempt is   *)
(* made even with an empty schedule.                                       *)
AttemptLimit == IF ScheduleLength = 0 THEN 1 ELSE ScheduleLength

(* The job objects claim_due_jobs returned and _process_job has not dealt  *)
(* with yet.  attempt_count is at least 1 in each; 0 stands for no object. *)
EmptyBatch == [j \in Jobs |-> 0]
Claimed(w) == {j \in Jobs : batch[w][j] > 0}

TypeOK ==
  /\ jobStatus \in [Jobs -> {"absent", "queued", "in_progress"} \cup Terminal]
  /\ attemptCount \in [Jobs -> Nat]
  /\ due \subseteq Jobs
  /\ lastError \in [Jobs -> {"none", "attempt", "nack", "unknown_partner"}]
  /\ msgStatus \in [Jobs -> {"absent", "queued"} \cup Terminal]
  /\ pc \in [Workers -> Steps]
  /\ registry \in [Workers -> SUBSET Partners]
  /\ locked \in [Workers -> SUBSET Jobs]
  /\ batch \in [Workers -> [Jobs -> Nat]]
  /\ cur \in [Workers -> Jobs \cup {NoJob}]
  /\ outcome \in [Workers -> Outcomes]
  /\ answer \in [Workers -> {"none", "ok", "nack"}]
  /\ sends \in [Jobs -> Nat]
  /\ accepted \subseteq Jobs
  /\ crashes \in Nat

Init ==
  /\ jobStatus = [j \in Jobs |-> "absent"]
  /\ attemptCount = [j \in Jobs |-> 0]
  /\ due = {}
  /\ lastError = [j \in Jobs |-> "none"]
  /\ msgStatus = [j \in Jobs |-> "absent"]
  /\ pc = [w \in Workers |-> "down"]
  /\ registry = [w \in Workers |-> {}]
  /\ locked = [w \in Workers |-> {}]
  /\ batch = [w \in Workers |-> EmptyBatch]
  /\ cur = [w \in Workers |-> NoJob]
  /\ outcome = [w \in Workers |-> "none"]
  /\ answer = [w \in Workers |-> "none"]
  /\ sends = [j \in Jobs |-> 0]
  /\ accepted = {}
  /\ crashes = 0

-----------------------------------------------------------------------------
(* enqueue_outbound: two INSERTs, each committed on its own.  The caller   *)
(* may die between them: EnqueueJob then never comes (it has no fairness). *)

EnqueueMessage(j) ==
  /\ msgStatus[j] = "absent"
  /\ msgStatus' = [msgStatus EXCEPT ![j] = "queued"]
  /\ UNCHANGED <<jobStatus, attemptCount, due, lastError, workerVars, historyVars>>

(* next_attempt_at defaults to now(): a fresh job is due at once.          *)
EnqueueJob(j) ==
  /\ msgStatus[j] = "queued"
  /\ jobStatus[j] = "absent"
  /\ jobStatus' = [jobStatus EXCEPT ![j] = "queued"]
  /\ due' = due \cup {j}
  /\ UNCHANGED <<attemptCount, lastError, msgStatus, workerVars, historyVars>>

(* the clock passes next_attempt_at *)
BecomesDue(j) ==
  /\ jobStatus[j] = "queued"
  /\ j \notin due
  /\ due' = due \cup {j}
  /\ UNCHANGED <<jobStatus, attemptCount, lastError, msgStatus, workerVars, historyVars>>

-----------------------------------------------------------------------------
(* run_worker *)

WorkerStart(w) ==
  /\ pc[w] = "down"
  /\ pc' = [pc EXCEPT ![w] = "polling"]
  /\ \E known \in Registries : registry' = [registry EXCEPT ![w] = known]
  /\ UNCHANGED <<dbVars, locked, batch, cur, outcome, answer, historyVars>>

\* Mutants: no FOR UPDATE SKIP LOCKED; in_progress rows reclaimed; no filter on status.
Claimable_Unlocked(w) == {j \in due : jobStatus[j] = "queued"}
Claimable_Reclaim(w) ==
  {j \in due : /\ jobStatus[j] \in {"queued", "in_progress"}
               /\ \A v \in Workers \ {w} : j \notin locked[v]}
Claimable_AnyStatus(w) == {j \in due : \A v \in Workers \ {w} : j \notin locked[v]}

(* SKIP LOCKED: a row locked by another claim is passed over *)
Claimable(w) ==
  {j \in due : jobStatus[j] = "queued" /\ \A v \in Workers \ {w} : j \notin locked[v]}

(* SELECT ... LIMIT ... FOR UPDATE SKIP LOCKED.  The order by              *)
(* next_attempt_at is abstracted: any ClaimLimit of the claimable rows.    *)
SelectDue(w) ==
  /\ pc[w] = "polling"
  /\ \E S \in SUBSET Claimable(w) :
       /\ S # {}
       /\ Cardinality(S) <= ClaimLimit
       /\ Cardinality(S) = ClaimLimit \/ S = Claimable(w)
       /\ locked' = [locked EXCEPT ![w] = S]
  /\ pc' = [pc EXCEPT ![w] = "claiming"]
  /\ UNCHANGED <<dbVars, registry, batch, cur, outcome, answer, historyVars>>

(* the UPDATE, the commit that releases the locks, and the job objects     *)
(* returned with their attempt_count incremented in memory                 *)
CommitClaim(w) ==
  /\ pc[w] = "claiming"
  /\ jobStatus' = [j \in Jobs |-> IF j \in locked[w] THEN "in_progress" ELSE jobStatus[j]]
  /\ attemptCount' =
       [j \in Jobs |-> IF j \in locked[w] THEN attemptCount[j] + 1 ELSE attemptCount[j]]
  /\ batch' = [batch EXCEPT ![w] =
                 [j \in Jobs |-> IF j \in locked[w] THEN attemptCount[j] + 1 ELSE 0]]
  /\ locked' = [locked EXCEPT ![w] = {}]
  /\ pc' = [pc EXCEPT ![w] = "working"]
  /\ UNCHANGED <<due, lastError, msgStatus, registry, cur, outcome, answer, historyVars>>

(* the for loop is through; the worker sleeps and polls again *)
BatchDone(w) ==
  /\ pc[w] = "working"
  /\ Claimed(w) = {}
  /\ pc' = [pc EXCEPT ![w] = "polling"]
  /\ UNCHANGED <<dbVars, registry, locked, batch, cur, outcome, answer, historyVars>>

-----------------------------------------------------------------------------
(* _process_job *)

TakeUnknownPartner(w, j) ==
  /\ pc[w] = "working"
  /\ j \in Claimed(w)
  /\ PartnerOf[j] \notin registry[w]
  /\ pc' = [pc EXCEPT ![w] = "concluding"]
  /\ cur' = [cur EXCEPT ![w] = j]
  /\ outcome' = [outcome EXCEPT ![w] = "unknown_partner"]
  /\ UNCHANGED <<dbVars, registry, locked, batch, answer, historyVars>>

BeginSend(w, j) ==
  /\ pc[w] = "working"
  /\ j \in Claimed(w)
  /\ PartnerOf[j] \in registry[w]
  /\ pc' = [pc EXCEPT ![w] = "sending"]
  /\ cur' = [cur EXCEPT ![w] = j]
  /\ sends' = [sends EXCEPT ![j] = @ + 1]
  /\ UNCHANGED <<dbVars, registry, locked, batch, outcome, answer, accepted, crashes>>

(* The partner takes the POST and issues a receipt: it accepts the message *)
(* or rejects it; it may reject one it has accepted before, as a duplicate *)
(* (the content digest is the same on every attempt).                      *)
PartnerReceives(w) ==
  /\ pc[w] = "sending"
  /\ answer[w] = "none"
  /\ \/ /\ answer' = [answer EXCEPT ![w] = "ok"]
        /\ accepted' = accepted \cup {cur[w]}
     \/ /\ answer' = [answer EXCEPT ![w] = "nack"]
        /\ UNCHANGED accepted
  /\ UNCHANGED <<dbVars, pc, registry, locked, batch, cur, outcome, sends, crashes>>

(* A POST the worker no longer waits for, timed out or cut off by a crash, *)
(* may still reach the partner and be accepted.                            *)
PartnerAcceptsLate(j) ==
  /\ sends[j] > 0
  /\ accepted' = accepted \cup {j}
  /\ UNCHANGED <<dbVars, workerVars, sends, crashes>>

SendReturns(w, result) ==
  /\ pc[w] = "sending"
  /\ pc' = [pc EXCEPT ![w] = "concluding"]
  /\ outcome' = [outcome EXCEPT ![w] = result]
  /\ answer' = [answer EXCEPT ![w] = "none"]
  /\ UNCHANGED <<dbVars, registry, locked, batch, cur, historyVars>>

(* a receipt was read and verified *)
ReceiptRead(w) == answer[w] # "none" /\ SendReturns(w, answer[w])

\* Mutant: the except clause returns without calling _handle_failure.
AttemptFails_Swallowed(w) ==
  /\ pc[w] = "sending"
  /\ pc' = [pc EXCEPT ![w] = "working"]
  /\ batch' = [batch EXCEPT ![w][cur[w]] = 0]
  /\ cur' = [cur EXCEPT ![w] = NoJob]
  /\ answer' = [answer EXCEPT ![w] = "none"]
  /\ UNCHANGED <<dbVars, registry, locked, outcome, historyVars>>

(* DeliveryAttemptError: refused connection, timeout, bad or lost receipt; *)
(* the partner may have accepted the message all the same                  *)
AttemptFails(w) == SendReturns(w, "error")

(* the end of one outbound_jobs transaction of w's current job *)
ConcludeJob(w, result, status, error) ==
  /\ pc[w] = "concluding"
  /\ outcome[w] = result
  /\ jobStatus' = [jobStatus EXCEPT ![cur[w]] = status]
  /\ lastError' = [lastError EXCEPT ![cur[w]] = error]
  /\ batch' = [batch EXCEPT ![w][cur[w]] = 0]
  /\ UNCHANGED <<attemptCount, msgStatus, registry, locked, answer, historyVars>>

(* the job's row is written; its messages row is next *)
ThenTrack(w) ==
  /\ pc' = [pc EXCEPT ![w] = "tracking"]
  /\ UNCHANGED <<due, cur, outcome>>

(* _process_job returns without touching messages *)
ThenNextJob(w) ==
  /\ pc' = [pc EXCEPT ![w] = "working"]
  /\ cur' = [cur EXCEPT ![w] = NoJob]
  /\ outcome' = [outcome EXCEPT ![w] = "none"]

\* Mutant: receipt.is_ok is not looked at.
MarkDelivered_AnyReceipt(w) ==
  /\ \E r \in {"ok", "nack"} : ConcludeJob(w, r, "delivered", lastError[cur[w]])
  /\ ThenTrack(w)

MarkDelivered(w) ==
  /\ ConcludeJob(w, "ok", "delivered", lastError[cur[w]])
  /\ ThenTrack(w)

MarkFailedNack(w) ==
  /\ ConcludeJob(w, "nack", "failed_nack", "nack")
  /\ ThenTrack(w)

\* Mutants: > for >=; the schedule counted from zero.
RetriesExhausted_Late(w) == batch[w][cur[w]] > ScheduleLength
RetriesExhausted_Early(w) == batch[w][cur[w]] + 1 >= ScheduleLength

RetriesExhausted(w) == batch[w][cur[w]] >= ScheduleLength

\* Mutant: messages not updated.
MarkExchangeFailure_Untracked(w) ==
  /\ ConcludeJob(w, "error", "exchange_failure", "attempt")
  /\ RetriesExhausted(w)
  /\ ThenNextJob(w)
  /\ UNCHANGED due

MarkExchangeFailure(w) ==
  /\ ConcludeJob(w, "error", "exchange_failure", "attempt")
  /\ RetriesExhausted(w)
  /\ ThenTrack(w)

\* Mutant: next_attempt_at is set, the status is not.
Reschedule_KeepsStatus(w) ==
  /\ ConcludeJob(w, "error", "in_progress", "attempt")
  /\ ~RetriesExhausted(w)
  /\ due' = due \ {cur[w]}
  /\ ThenNextJob(w)

Reschedule(w) ==
  /\ ConcludeJob(w, "error", "queued", "attempt")
  /\ ~RetriesExhausted(w)
  /\ due' = due \ {cur[w]}
  /\ ThenNextJob(w)

MarkUnknownPartner(w) ==
  /\ ConcludeJob(w, "unknown_partner", "exchange_failure", "unknown_partner")
  /\ UNCHANGED due
  /\ ThenNextJob(w)

\* Mutant: the status of the branch above copied into the nack branch.
TrackedStatus_NackDelivered(result) ==
  CASE result \in {"ok", "nack"} -> "delivered"
    [] OTHER -> "exchange_failure"

(* the status _process_job passes to tracker.update_status *)
TrackedStatus(result) ==
  CASE result = "ok" -> "delivered"
    [] result = "nack" -> "failed_nack"
    [] OTHER -> "exchange_failure"

TrackMessage(w) ==
  /\ pc[w] = "tracking"
  /\ msgStatus' = [msgStatus EXCEPT ![cur[w]] = TrackedStatus(outcome[w])]
  /\ ThenNextJob(w)
  /\ UNCHANGED <<jobStatus, attemptCount, due, lastError, registry, locked, batch, answer,
                 historyVars>>

-----------------------------------------------------------------------------
(* The process ends: an open claim transaction is rolled back, the job     *)
(* objects in memory are gone, the rows stay as they are.                  *)
ProcessEnds(w) ==
  /\ pc' = [pc EXCEPT ![w] = "down"]
  /\ registry' = [registry EXCEPT ![w] = {}]
  /\ locked' = [locked EXCEPT ![w] = {}]
  /\ batch' = [batch EXCEPT ![w] = EmptyBatch]
  /\ cur' = [cur EXCEPT ![w] = NoJob]
  /\ outcome' = [outcome EXCEPT ![w] = "none"]
  /\ answer' = [answer EXCEPT ![w] = "none"]
  /\ UNCHANGED <<dbVars, sends, accepted>>

Crash(w) ==
  /\ pc[w] # "down"
  /\ crashes < MaxCrashes
  /\ crashes' = crashes + 1
  /\ ProcessEnds(w)

(* send_once raises what _process_job does not catch, e.g. the ValueError  *)
(* of EnvelopeFields on a job whose transaction_set or refnum is malformed *)
SendRaises(w) ==
  /\ SendMayRaise
  /\ pc[w] = "sending"
  /\ crashes < MaxCrashes
  /\ crashes' = crashes + 1
  /\ ProcessEnds(w)

-----------------------------------------------------------------------------
ProcessJob(w) ==
  \/ \E j \in Jobs : TakeUnknownPartner(w, j) \/ BeginSend(w, j)
  \/ ReceiptRead(w) \/ AttemptFails(w)
  \/ MarkDelivered(w) \/ MarkFailedNack(w) \/ MarkExchangeFailure(w)
  \/ Reschedule(w) \/ MarkUnknownPartner(w) \/ TrackMessage(w)

(* what a running worker does by itself *)
WorkerStep(w) == SelectDue(w) \/ CommitClaim(w) \/ BatchDone(w) \/ ProcessJob(w)

Next ==
  \/ \E j \in Jobs : \/ EnqueueMessage(j) \/ EnqueueJob(j) \/ BecomesDue(j)
                     \/ PartnerAcceptsLate(j)
  \/ \E w \in Workers : \/ WorkerStart(w) \/ WorkerStep(w) \/ PartnerReceives(w)
                        \/ Crash(w) \/ SendRaises(w)

Spec == Init /\ [][Next]_vars

(* The event loop of a running worker goes on (send_once has a timeout),   *)
(* the clock advances, and a worker that is down is started again.  The    *)
(* callers of enqueue_outbound and the partner owe nothing.                *)
FairSpec ==
  /\ Spec
  /\ \A w \in Workers : WF_vars(WorkerStep(w)) /\ WF_vars(WorkerStart(w))
  /\ \A j \in Jobs : WF_vars(BecomesDue(j))
-----------------------------------------------------------------------------
(* Safety *)

(* FOR UPDATE SKIP LOCKED lets several workers run: no job is in the hands *)
(* of two of them, and a job in a worker's memory is in_progress there     *)
(* with the attempt_count that worker believes it has (claim_due_jobs).    *)
SingleHolder ==
  \A w \in Workers :
    /\ \A j \in Claimed(w) : jobStatus[j] = "in_progress" /\ batch[w][j] = attemptCount[j]
    /\ \A v \in Workers \ {w} :
         (Claimed(w) \cup locked[w]) \cap (Claimed(v) \cup locked[v]) = {}

(* attempt_count never understates the calls of send_once, never exceeds   *)
(* the schedule, and a job waiting for its next attempt has one left and   *)
(* has really made every attempt counted against it (_handle_failure).     *)
AttemptsAccounted ==
  \A j \in Jobs :
    /\ sends[j] <= attemptCount[j]
    /\ attemptCount[j] <= AttemptLimit
    /\ jobStatus[j] = "queued" => attemptCount[j] < AttemptLimit /\ sends[j] = attemptCount[j]

(* Standards 12.3.10/12.3.11: an Exchange Failure is declared only once    *)
(* every attempt of the schedule has been made, partners that are no       *)
(* longer configured aside (mark_exchange_failure).                        *)
ExchangeFailureAfterAllAttempts ==
  \A j \in Jobs :
    jobStatus[j] = "exchange_failure" /\ lastError[j] # "unknown_partner"
      => sends[j] = AttemptLimit

(* The audit row never claims an outcome the job does not have: messages   *)
(* is written after outbound_jobs, and never again (_process_job).         *)
MessageNeverAhead ==
  \A j \in Jobs :
    /\ msgStatus[j] \in Terminal => msgStatus[j] = jobStatus[j]
    /\ jobStatus[j] # "absent" => msgStatus[j] # "absent"

(* "delivered" is reported only of a message the partner has accepted, on  *)
(* whichever attempt (mark_delivered after a verified ok receipt).         *)
DeliveredWasAccepted ==
  \A j \in Jobs : "delivered" \in {jobStatus[j], msgStatus[j]} => j \in accepted

(* no worker will ever move the job on: claim_due_jobs selects queued rows *)
Abandoned(j) == jobStatus[j] = "in_progress" /\ \A w \in Workers : j \notin Claimed(w)

(* A job in_progress is in a running worker's hands, for reschedule and    *)
(* the mark_ calls "all move a job out of 'in_progress' once its attempt   *)
(* concludes" (docstring of claim_due_jobs).  Only the death of a worker,  *)
(* killed or ended by what send_once raised, abandons one.                 *)
InProgressIsHeld == \A j \in Jobs : Abandoned(j) => crashes > 0

(* docs/outbound-flow.md, "Job lifecycle": the queue implements it.        *)
Lifecycle == INSTANCE JobLifecycle WITH status <- jobStatus, attempts <- attemptCount

ImplementsLifecycle == Lifecycle!LSpec

(* A concluded job and its audit row keep their outcome for ever, and no   *)
(* further attempt of it begins, although no UPDATE looks at the status it *)
(* overwrites.                                                             *)
OutcomeIsFinal ==
  [][\A j \in Jobs :
       /\ jobStatus[j] \in Terminal => jobStatus'[j] = jobStatus[j] /\ sends'[j] = sends[j]
       /\ msgStatus[j] \in Terminal => msgStatus'[j] = msgStatus[j]]_vars

-----------------------------------------------------------------------------
(* Liveness *)

(* Every queued job is delivered, rejected or declared an Exchange         *)
(* Failure, or a worker died over it and left it in_progress; other jobs   *)
(* go on whichever worker died.                                            *)
QueuedIsConcluded ==
  \A j \in Jobs :
    jobStatus[j] = "queued" ~> jobStatus[j] \in Terminal \/ (crashes > 0 /\ Abandoned(j))

(* README.md: "Every inbound and outbound transmission is tracked in       *)
(* Postgres".  The audit row of a job that was attempted ends with the     *)
(* job's outcome, unless the worker died between the two transactions.     *)
(* Not so a job whose partner is unknown: _process_job returns without     *)
(* update_status, and its messages row stays queued for ever.              *)
OutcomeIsTracked ==
  \A j \in Jobs :
    jobStatus[j] \in Terminal
      ~> msgStatus[j] = jobStatus[j] \/ lastError[j] = "unknown_partner" \/ crashes > 0

(* app/worker.py: "retry state survives an app/worker restart mid-window": *)
(* a job waiting for its next attempt is still concluded, although workers *)
(* go down and come back.                                                  *)
RetrySurvivesRestart ==
  \A j \in Jobs :
    jobStatus[j] = "queued" /\ attemptCount[j] > 0 ~> jobStatus[j] \in Terminal
=============================================================================
