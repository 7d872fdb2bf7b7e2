-------------------------- MODULE MessageLifecycle --------------------------
(* What the messages row of an inbound transmission may go through, as the *)
(* rest of the system relies on it: the row is created once per            *)
(* transmission and leaves "processing" once, for a verdict that stands;   *)
(* only a downstream consumer moves it on, from "accepted" alone           *)
(* (mark_processed).  No two rows stand for one transmission.  What was    *)
(* accepted is taken back only where its receipt cannot be signed.         *)
CONSTANTS Rows,          \* row identities
          Revocable,     \* rows whose receipt may be impossible to sign
          Clash(_, _)    \* rows the UNIQUE constraints keep apart

VARIABLE status

RowStatus == {"absent", "processing", "accepted", "rejected", "processed"}

MInit == status = [r \in Rows |-> "absent"]

Move(r, from, to) == status[r] = from /\ status' = [status EXCEPT ![r] = to]

Record(r) == /\ Move(r, "absent", "processing")
             /\ \A s \in Rows : s # r /\ Clash(r, s) => status[s] = "absent"

Judge(r) == Move(r, "processing", "accepted") \/ Move(r, "processing", "rejected")

Revoke(r) ==
  r \in Revocable /\ (Move(r, "accepted", "rejected") \/ Move(r, "processed", "rejected"))

(* one call may consume several rows *)
Consume(R) == /\ \A r \in R : status[r] = "accepted"
              /\ status' = [r \in Rows |-> IF r \in R THEN "processed" ELSE status[r]]

MNext == \/ \E r \in Rows : Record(r) \/ Judge(r) \/ Revoke(r)
         \/ \E R \in SUBSET Rows : Consume(R)

MSpec == MInit /\ [][MNext]_status
=============================================================================
