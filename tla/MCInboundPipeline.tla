-------------------------- MODULE MCInboundPipeline -------------------------
(* Small instances of InboundPipeline: requests of a partner that uses     *)
(* refnums and of one that does not.                                       *)
EXTENDS InboundPipeline, TLC

CONSTANTS r1, r2, r3, withRefnum, noRefnum, d1, d2, n1

(* r1 retried as r2; r3 reuses its refnum for another ciphertext *)
Three == {r1, r2, r3}
RefnumPartner == [r \in Three |-> withRefnum]
DigestPartner == [r \in Three |-> noRefnum]
RetryDigests == (r1 :> d1) @@ (r2 :> d1) @@ (r3 :> d2)
OneRefnum == [r \in Three |-> n1]
NoRefnums == [r \in Three |-> NoRefnum]
=============================================================================
