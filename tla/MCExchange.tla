----------------------------- MODULE MCExchange -----------------------------
(* Small instances of Exchange: one job, without a refnum. *)
EXTENDS Exchange, TLC

CONSTANTS j1

OneJob == {j1}
NoRefnums == [j \in OneJob |-> NoRefnum]
=============================================================================
