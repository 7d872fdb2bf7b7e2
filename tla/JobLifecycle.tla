---------------------------- MODULE JobLifecycle ----------------------------
(***************************************************************************)
(* What the gateway promises of one outbound job, seen from outside: the   *)
(* statuses the CHECK constraint of 0003_outbound_jobs.sql allows, and the *)
(* moves between them that OutboundJobRepository offers (the diagram "Job  *)
(* lifecycle" of docs/outbound-flow.md).  A job is enqueued, attempted,    *)
(* handed back for a retry while attempts are left, and concluded once.    *)
(* Nothing is said of workers, locks, crashes or the messages table.       *)
(***************************************************************************)
EXTENDS Naturals

CONSTANTS Jobs,           \* the rows that will ever be in outbound_jobs
          AttemptLimit    \* delivery attempts a job may have

VARIABLES status,         \* status[j]: "absent" until j is in the table
          attempts        \* attempts[j]: attempts begun so far

lifecycleVars == <<status, attempts>>

TerminalStatus == {"delivered", "failed_nack", "exchange_failure"}
JobStatus == {"absent", "queued", "in_progress"} \cup TerminalStatus

LInit == /\ status = [j \in Jobs |-> "absent"]
         /\ attempts = [j \in Jobs |-> 0]

Enqueue(j) == /\ status[j] = "absent"
              /\ status' = [status EXCEPT ![j] = "queued"]
              /\ UNCHANGED attempts

(* One claim may begin an attempt of several jobs. *)
Attempt(S) == /\ \A j \in S : status[j] = "queued" /\ attempts[j] < AttemptLimit
              /\ status' = [j \in Jobs |-> IF j \in S THEN "in_progress" ELSE status[j]]
              /\ attempts' = [j \in Jobs |-> IF j \in S THEN attempts[j] + 1 ELSE attempts[j]]

Retry(j) == /\ status[j] = "in_progress"
            /\ attempts[j] < AttemptLimit
            /\ status' = [status EXCEPT ![j] = "queued"]
            /\ UNCHANGED attempts

Conclude(j, s) == /\ status[j] = "in_progress"
                  /\ status' = [status EXCEPT ![j] = s]
                  /\ UNCHANGED attempts

LNext == \/ \E j \in Jobs : Enqueue(j) \/ Retry(j)
         \/ \E j \in Jobs, s \in TerminalStatus : Conclude(j, s)
         \/ \E S \in SUBSET Jobs : Attempt(S)

LSpec == LInit /\ [][LNext]_lifecycleVars
=============================================================================
