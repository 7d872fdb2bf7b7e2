------------------------ MODULE InboundPipelineProofs -----------------------
(* Proofs about InboundPipeline, for every set of requests and what they   *)
(* carry, every configuration of sinks and partners, and any number of     *)
(* crashes and database failures.                                          *)
EXTENDS InboundPipeline, TLAPS

(* stages before the INSERT, and those that leave the fresh row alone      *)
Before == {"idle", "parsing", "dedupe", "inserting"}
Inside == {"decrypting", "delivering", "recording", "deciding", "rejecting"}

(* Where a handler is tells what its row is.                               *)
StageInv ==
  \A r \in Requests :
    /\ pc[r] \in Before => ~Row(r) /\ stored[r] = {}
    /\ pc[r] \in Inside => rowStatus[r] = "processing"
    /\ pc[r] = "recovering" => Row(r) /\ (r \notin Unsignable => rowStatus[r] = "processing")
    /\ stored[r] # {} => Row(r)
    /\ reply[r] # "none" => pc[r] = "done"

(* The UNIQUE constraints.                                                 *)
RowsApart == \A r, s \in Requests : r # s /\ Row(r) /\ Row(s) => ~Clash(r, s)

(* Acceptance: the sinks are on record before the row is accepted, and an  *)
(* ok receipt is signed only while the row stays accepted.                 *)
Backed(r) == /\ sinksStatus[r] = stored[r]
             /\ RequireDurable /\ DurableSinks # {} => stored[r] # {}
AcceptInv ==
  \A r \in Requests :
    /\ pc[r] = "deciding" => Backed(r)
    /\ rowStatus[r] \in {"accepted", "processed"} => Backed(r)
    /\ pc[r] = "signing" /\ verdict[r] = "ok" => rowStatus[r] \in {"accepted", "processed"}
    /\ reply[r] = "ok" => rowStatus[r] \in {"accepted", "processed"}

(* Refusal: the receipt being signed, or sent, agrees with the row.        *)
Told(r, code) == (pc[r] = "signing" /\ verdict[r] = code) \/ reply[r] = code
RefuseInv ==
  \A r \in Requests :
    /\ pc[r] = "rejecting" => verdict[r] \in Refused
    /\ pc[r] = "signing" => verdict[r] # "none"
    /\ \A code \in Refused : Told(r, code) => rowStatus[r] = "rejected" /\ errorCode[r] = code
    /\ \A code \in Duplicate \cup {"ENVELOPE"} : Told(r, code) => ~Row(r)

(* A duplicate has an original.                                            *)
DuplicateInv ==
  \A r \in Requests, code \in Duplicate :
    Told(r, code) => \E s \in Requests \ {r} : Row(s) /\ Clash(r, s)

IInv == TypeOK /\ StageInv /\ RowsApart /\ AcceptInv /\ RefuseInv /\ DuplicateInv

(* Every stage of the handler writes values of the declared types.        *)
LEMMA TypeStep == IInv /\ [Next]_vars => TypeOK'
<1> SUFFICES ASSUME IInv, [Next]_vars PROVE TypeOK' OBVIOUS
<1> USE ConstantsAssumption DEF vars, rowVars, IInv, TypeOK, Stages, Verdicts, Duplicate, Refused, RefuseInv
<1>1. ASSUME NEW r \in Requests, Arrive(r) PROVE TypeOK'
  BY <1>1 DEF Arrive, Goto
<1>2. ASSUME NEW r \in Requests, RefuseEnvelope(r) PROVE TypeOK'
  BY <1>2 DEF RefuseEnvelope, Reject, Goto
<1>3. ASSUME NEW r \in Requests, PassEnvelope(r) PROVE TypeOK'
  BY <1>3 DEF PassEnvelope, Goto
<1>4. ASSUME NEW r \in Requests, FindDuplicate(r) PROVE TypeOK'
  BY <1>4 DEF FindDuplicate, Reject, Goto, DuplicateCode, Seen, KeyedByRefnum
<1>5. ASSUME NEW r \in Requests, Insert(r) PROVE TypeOK'
  BY <1>5 DEF Insert, Goto, Violates
<1>6. ASSUME NEW r \in Requests, InsertRefused(r) PROVE TypeOK'
  BY <1>6 DEF InsertRefused, Reject, Goto, DuplicateCode, Violates
<1>7. ASSUME NEW r \in Requests, Decrypt(r) PROVE TypeOK'
  BY <1>7 DEF Decrypt, Goto, DecryptRefusals
<1>8. ASSUME NEW r \in Requests, FanOut(r) PROVE TypeOK'
  BY <1>8 DEF FanOut, Goto
<1>9. ASSUME NEW r \in Requests, RecordSinks(r) PROVE TypeOK'
  BY <1>9 DEF RecordSinks, Goto, Retained
<1>10. ASSUME NEW r \in Requests, Accept(r) PROVE TypeOK'
  BY <1>10 DEF Accept, UpdateStatus, Goto
<1>11. ASSUME NEW r \in Requests, RejectRow(r) PROVE TypeOK'
  BY <1>11 DEF RejectRow, UpdateStatus, Goto
<1>12. ASSUME NEW r \in Requests, Recover(r) PROVE TypeOK'
  BY <1>12 DEF Recover, UpdateStatus, Goto
<1>13. ASSUME NEW r \in Requests, Reply(r) PROVE TypeOK'
  BY <1>13 DEF Reply, Respond, Goto
<1>14. ASSUME NEW r \in Requests, SignFails(r) PROVE TypeOK'
  BY <1>14 DEF SignFails, InTry, Respond, Goto
<1>15. ASSUME NEW r \in Requests, DbFails(r) PROVE TypeOK'
  BY <1>15 DEF DbFails, Respond, Goto
<1>16. ASSUME NEW R \in SUBSET Requests, MarkProcessed(R) PROVE TypeOK'
  BY <1>16 DEF MarkProcessed
<1>17. CASE Crash BY <1>17 DEF Crash, Running
<1>18. CASE UNCHANGED vars BY <1>18
<1> QED BY <1>1, <1>2, <1>3, <1>4, <1>5, <1>6, <1>7, <1>8, <1>9, <1>10, <1>11, <1>12, <1>13, <1>14, <1>15, <1>16, <1>17, <1>18 DEF Next, Handle

(* Every step keeps where a handler is in agreement with its row.         *)
LEMMA StageStep == IInv /\ [Next]_vars => StageInv'
<1> SUFFICES ASSUME IInv, [Next]_vars PROVE StageInv' OBVIOUS
<1> USE ConstantsAssumption DEF vars, rowVars, IInv, TypeOK, StageInv, Before, Inside, Row
<1>1. ASSUME NEW r \in Requests, Arrive(r) PROVE StageInv'
  BY <1>1 DEF Arrive, Goto
<1>2. ASSUME NEW r \in Requests, RefuseEnvelope(r) PROVE StageInv'
  BY <1>2 DEF RefuseEnvelope, Reject, Goto
<1>3. ASSUME NEW r \in Requests, PassEnvelope(r) PROVE StageInv'
  BY <1>3 DEF PassEnvelope, Goto
<1>4. ASSUME NEW r \in Requests, FindDuplicate(r) PROVE StageInv'
  BY <1>4 DEF FindDuplicate, Reject, Goto, DuplicateCode, Seen, KeyedByRefnum
<1>5. ASSUME NEW r \in Requests, Insert(r) PROVE StageInv'
  BY <1>5 DEF Insert, Goto, Violates
<1>6. ASSUME NEW r \in Requests, InsertRefused(r) PROVE StageInv'
  BY <1>6 DEF InsertRefused, Reject, Goto, DuplicateCode, Violates
<1>7. ASSUME NEW r \in Requests, Decrypt(r) PROVE StageInv'
  BY <1>7 DEF Decrypt, Goto, DecryptRefusals
<1>8. ASSUME NEW r \in Requests, FanOut(r) PROVE StageInv'
  BY <1>8 DEF FanOut, Goto
<1>9. ASSUME NEW r \in Requests, RecordSinks(r) PROVE StageInv'
  BY <1>9 DEF RecordSinks, Goto, Retained
<1>10. ASSUME NEW r \in Requests, Accept(r) PROVE StageInv'
  BY <1>10 DEF Accept, UpdateStatus, Goto
<1>11. ASSUME NEW r \in Requests, RejectRow(r) PROVE StageInv'
  BY <1>11 DEF RejectRow, UpdateStatus, Goto
<1>12. ASSUME NEW r \in Requests, Recover(r) PROVE StageInv'
  BY <1>12 DEF Recover, UpdateStatus, Goto
<1>13. ASSUME NEW r \in Requests, Reply(r) PROVE StageInv'
  BY <1>13 DEF Reply, Respond, Goto
<1>14. ASSUME NEW r \in Requests, SignFails(r) PROVE StageInv'
  BY <1>14 DEF SignFails, InTry, Respond, Goto
<1>15. ASSUME NEW r \in Requests, DbFails(r) PROVE StageInv'
  BY <1>15 DEF DbFails, Respond, Goto
<1>16. ASSUME NEW R \in SUBSET Requests, MarkProcessed(R) PROVE StageInv'
  BY <1>16 DEF MarkProcessed
<1>17. CASE Crash BY <1>17 DEF Crash, Running
<1>18. CASE UNCHANGED vars BY <1>18
<1> QED BY <1>1, <1>2, <1>3, <1>4, <1>5, <1>6, <1>7, <1>8, <1>9, <1>10, <1>11, <1>12, <1>13, <1>14, <1>15, <1>16, <1>17, <1>18 DEF Next, Handle

(* Only the INSERT adds a row, and the UNIQUE constraints guard it.       *)
LEMMA ApartStep == IInv /\ [Next]_vars => RowsApart'
<1> SUFFICES ASSUME IInv, [Next]_vars PROVE RowsApart' OBVIOUS
<1> USE ConstantsAssumption DEF vars, rowVars, IInv, TypeOK, RowsApart, StageInv, Before, Inside, Row, Clash, SameDigest, SameRefnum
<1>1. ASSUME NEW r \in Requests, Arrive(r) PROVE RowsApart'
  BY <1>1 DEF Arrive, Goto
<1>2. ASSUME NEW r \in Requests, RefuseEnvelope(r) PROVE RowsApart'
  BY <1>2 DEF RefuseEnvelope, Reject, Goto
<1>3. ASSUME NEW r \in Requests, PassEnvelope(r) PROVE RowsApart'
  BY <1>3 DEF PassEnvelope, Goto
<1>4. ASSUME NEW r \in Requests, FindDuplicate(r) PROVE RowsApart'
  BY <1>4 DEF FindDuplicate, Reject, Goto, DuplicateCode, Seen, KeyedByRefnum
<1>5. ASSUME NEW r \in Requests, Insert(r) PROVE RowsApart'
  BY <1>5 DEF Insert, Goto, Violates
<1>6. ASSUME NEW r \in Requests, InsertRefused(r) PROVE RowsApart'
  BY <1>6 DEF InsertRefused, Reject, Goto, DuplicateCode, Violates
<1>7. ASSUME NEW r \in Requests, Decrypt(r) PROVE RowsApart'
  BY <1>7 DEF Decrypt, Goto, DecryptRefusals
<1>8. ASSUME NEW r \in Requests, FanOut(r) PROVE RowsApart'
  BY <1>8 DEF FanOut, Goto
<1>9. ASSUME NEW r \in Requests, RecordSinks(r) PROVE RowsApart'
  BY <1>9 DEF RecordSinks, Goto, Retained
<1>10. ASSUME NEW r \in Requests, Accept(r) PROVE RowsApart'
  BY <1>10 DEF Accept, UpdateStatus, Goto
<1>11. ASSUME NEW r \in Requests, RejectRow(r) PROVE RowsApart'
  BY <1>11 DEF RejectRow, UpdateStatus, Goto
<1>12. ASSUME NEW r \in Requests, Recover(r) PROVE RowsApart'
  BY <1>12 DEF Recover, UpdateStatus, Goto
<1>13. ASSUME NEW r \in Requests, Reply(r) PROVE RowsApart'
  BY <1>13 DEF Reply, Respond, Goto
<1>14. ASSUME NEW r \in Requests, SignFails(r) PROVE RowsApart'
  BY <1>14 DEF SignFails, InTry, Respond, Goto
<1>15. ASSUME NEW r \in Requests, DbFails(r) PROVE RowsApart'
  BY <1>15 DEF DbFails, Respond, Goto
<1>16. ASSUME NEW R \in SUBSET Requests, MarkProcessed(R) PROVE RowsApart'
  BY <1>16 DEF MarkProcessed
<1>17. CASE Crash BY <1>17 DEF Crash, Running
<1>18. CASE UNCHANGED vars BY <1>18
<1> QED BY <1>1, <1>2, <1>3, <1>4, <1>5, <1>6, <1>7, <1>8, <1>9, <1>10, <1>11, <1>12, <1>13, <1>14, <1>15, <1>16, <1>17, <1>18 DEF Next, Handle

(* No step, failure or crash takes back what an ok receipt promises.      *)
LEMMA AcceptStep == IInv /\ [Next]_vars => AcceptInv'
<1> SUFFICES ASSUME IInv, [Next]_vars PROVE AcceptInv' OBVIOUS
<1> USE ConstantsAssumption DEF vars, rowVars, IInv, TypeOK, AcceptInv, Backed, StageInv, Before, Inside, Row, RefuseInv, Verdicts, Duplicate, Refused
<1>1. ASSUME NEW r \in Requests, Arrive(r) PROVE AcceptInv'
  BY <1>1 DEF Arrive, Goto
<1>2. ASSUME NEW r \in Requests, RefuseEnvelope(r) PROVE AcceptInv'
  BY <1>2 DEF RefuseEnvelope, Reject, Goto
<1>3. ASSUME NEW r \in Requests, PassEnvelope(r) PROVE AcceptInv'
  BY <1>3 DEF PassEnvelope, Goto
<1>4. ASSUME NEW r \in Requests, FindDuplicate(r) PROVE AcceptInv'
  BY <1>4 DEF FindDuplicate, Reject, Goto, DuplicateCode, Seen, KeyedByRefnum
<1>5. ASSUME NEW r \in Requests, Insert(r) PROVE AcceptInv'
  BY <1>5 DEF Insert, Goto, Violates
<1>6. ASSUME NEW r \in Requests, InsertRefused(r) PROVE AcceptInv'
  BY <1>6 DEF InsertRefused, Reject, Goto, DuplicateCode, Violates
<1>7. ASSUME NEW r \in Requests, Decrypt(r) PROVE AcceptInv'
  BY <1>7 DEF Decrypt, Goto, DecryptRefusals
<1>8. ASSUME NEW r \in Requests, FanOut(r) PROVE AcceptInv'
  BY <1>8 DEF FanOut, Goto
<1>9. ASSUME NEW r \in Requests, RecordSinks(r) PROVE AcceptInv'
  BY <1>9 DEF RecordSinks, Goto, Retained
<1>10. ASSUME NEW r \in Requests, Accept(r) PROVE AcceptInv'
  BY <1>10 DEF Accept, UpdateStatus, Goto
<1>11. ASSUME NEW r \in Requests, RejectRow(r) PROVE AcceptInv'
  BY <1>11 DEF RejectRow, UpdateStatus, Goto
<1>12. ASSUME NEW r \in Requests, Recover(r) PROVE AcceptInv'
  BY <1>12 DEF Recover, UpdateStatus, Goto
<1>13. ASSUME NEW r \in Requests, Reply(r) PROVE AcceptInv'
  BY <1>13 DEF Reply, Respond, Goto
<1>14. ASSUME NEW r \in Requests, SignFails(r) PROVE AcceptInv'
  BY <1>14 DEF SignFails, InTry, Respond, Goto
<1>15. ASSUME NEW r \in Requests, DbFails(r) PROVE AcceptInv'
  BY <1>15 DEF DbFails, Respond, Goto
<1>16. ASSUME NEW R \in SUBSET Requests, MarkProcessed(R) PROVE AcceptInv'
  BY <1>16 DEF MarkProcessed
<1>17. CASE Crash BY <1>17 DEF Crash, Running
<1>18. CASE UNCHANGED vars BY <1>18
<1> QED BY <1>1, <1>2, <1>3, <1>4, <1>5, <1>6, <1>7, <1>8, <1>9, <1>10, <1>11, <1>12, <1>13, <1>14, <1>15, <1>16, <1>17, <1>18 DEF Next, Handle

(* Every refusal writes the row before its receipt is signed.             *)
LEMMA RefuseStep == IInv /\ [Next]_vars => RefuseInv'
<1> SUFFICES ASSUME IInv, [Next]_vars PROVE RefuseInv' OBVIOUS
<1> USE ConstantsAssumption DEF vars, rowVars, IInv, TypeOK, RefuseInv, Told, StageInv, Before, Inside, Row, Verdicts, Duplicate, Refused
<1>1. ASSUME NEW r \in Requests, Arrive(r) PROVE RefuseInv'
  BY <1>1 DEF Arrive, Goto
<1>2. ASSUME NEW r \in Requests, RefuseEnvelope(r) PROVE RefuseInv'
  BY <1>2 DEF RefuseEnvelope, Reject, Goto
<1>3. ASSUME NEW r \in Requests, PassEnvelope(r) PROVE RefuseInv'
  BY <1>3 DEF PassEnvelope, Goto
<1>4. ASSUME NEW r \in Requests, FindDuplicate(r) PROVE RefuseInv'
  BY <1>4 DEF FindDuplicate, Reject, Goto, DuplicateCode, Seen, KeyedByRefnum
<1>5. ASSUME NEW r \in Requests, Insert(r) PROVE RefuseInv'
  BY <1>5 DEF Insert, Goto, Violates
<1>6. ASSUME NEW r \in Requests, InsertRefused(r) PROVE RefuseInv'
  BY <1>6 DEF InsertRefused, Reject, Goto, DuplicateCode, Violates
<1>7. ASSUME NEW r \in Requests, Decrypt(r) PROVE RefuseInv'
  BY <1>7 DEF Decrypt, Goto, DecryptRefusals
<1>8. ASSUME NEW r \in Requests, FanOut(r) PROVE RefuseInv'
  BY <1>8 DEF FanOut, Goto
<1>9. ASSUME NEW r \in Requests, RecordSinks(r) PROVE RefuseInv'
  BY <1>9 DEF RecordSinks, Goto, Retained
<1>10. ASSUME NEW r \in Requests, Accept(r) PROVE RefuseInv'
  BY <1>10 DEF Accept, UpdateStatus, Goto
<1>11. ASSUME NEW r \in Requests, RejectRow(r) PROVE RefuseInv'
  BY <1>11 DEF RejectRow, UpdateStatus, Goto
<1>12. ASSUME NEW r \in Requests, Recover(r) PROVE RefuseInv'
  BY <1>12 DEF Recover, UpdateStatus, Goto
<1>13. ASSUME NEW r \in Requests, Reply(r) PROVE RefuseInv'
  BY <1>13 DEF Reply, Respond, Goto
<1>14. ASSUME NEW r \in Requests, SignFails(r) PROVE RefuseInv'
  BY <1>14 DEF SignFails, InTry, Respond, Goto
<1>15. ASSUME NEW r \in Requests, DbFails(r) PROVE RefuseInv'
  BY <1>15 DEF DbFails, Respond, Goto
<1>16. ASSUME NEW R \in SUBSET Requests, MarkProcessed(R) PROVE RefuseInv'
  BY <1>16 DEF MarkProcessed
<1>17. CASE Crash BY <1>17 DEF Crash, Running
<1>18. CASE UNCHANGED vars BY <1>18
<1> QED BY <1>1, <1>2, <1>3, <1>4, <1>5, <1>6, <1>7, <1>8, <1>9, <1>10, <1>11, <1>12, <1>13, <1>14, <1>15, <1>16, <1>17, <1>18 DEF Next, Handle

(* Rows are never deleted, so a duplicate's original stays.               *)
LEMMA DuplicateStep == IInv /\ [Next]_vars => DuplicateInv'
<1> SUFFICES ASSUME IInv, [Next]_vars PROVE DuplicateInv' OBVIOUS
<1> USE ConstantsAssumption DEF vars, rowVars, IInv, TypeOK, DuplicateInv, RefuseInv, Told, StageInv, Before, Inside, Row, Clash, SameDigest, SameRefnum, Verdicts, Duplicate, Refused
<1>1. ASSUME NEW r \in Requests, Arrive(r) PROVE DuplicateInv'
  BY <1>1 DEF Arrive, Goto
<1>2. ASSUME NEW r \in Requests, RefuseEnvelope(r) PROVE DuplicateInv'
  BY <1>2 DEF RefuseEnvelope, Reject, Goto
<1>3. ASSUME NEW r \in Requests, PassEnvelope(r) PROVE DuplicateInv'
  BY <1>3 DEF PassEnvelope, Goto
<1>4. ASSUME NEW r \in Requests, FindDuplicate(r) PROVE DuplicateInv'
  BY <1>4 DEF FindDuplicate, Reject, Goto, DuplicateCode, Seen, KeyedByRefnum
<1>5. ASSUME NEW r \in Requests, Insert(r) PROVE DuplicateInv'
  BY <1>5 DEF Insert, Goto, Violates
<1>6. ASSUME NEW r \in Requests, InsertRefused(r) PROVE DuplicateInv'
  BY <1>6 DEF InsertRefused, Reject, Goto, DuplicateCode, Violates
<1>7. ASSUME NEW r \in Requests, Decrypt(r) PROVE DuplicateInv'
  BY <1>7 DEF Decrypt, Goto, DecryptRefusals
<1>8. ASSUME NEW r \in Requests, FanOut(r) PROVE DuplicateInv'
  BY <1>8 DEF FanOut, Goto
<1>9. ASSUME NEW r \in Requests, RecordSinks(r) PROVE DuplicateInv'
  BY <1>9 DEF RecordSinks, Goto, Retained
<1>10. ASSUME NEW r \in Requests, Accept(r) PROVE DuplicateInv'
  BY <1>10 DEF Accept, UpdateStatus, Goto
<1>11. ASSUME NEW r \in Requests, RejectRow(r) PROVE DuplicateInv'
  BY <1>11 DEF RejectRow, UpdateStatus, Goto
<1>12. ASSUME NEW r \in Requests, Recover(r) PROVE DuplicateInv'
  BY <1>12 DEF Recover, UpdateStatus, Goto
<1>13. ASSUME NEW r \in Requests, Reply(r) PROVE DuplicateInv'
  BY <1>13 DEF Reply, Respond, Goto
<1>14. ASSUME NEW r \in Requests, SignFails(r) PROVE DuplicateInv'
  BY <1>14 DEF SignFails, InTry, Respond, Goto
<1>15. ASSUME NEW r \in Requests, DbFails(r) PROVE DuplicateInv'
  BY <1>15 DEF DbFails, Respond, Goto
<1>16. ASSUME NEW R \in SUBSET Requests, MarkProcessed(R) PROVE DuplicateInv'
  BY <1>16 DEF MarkProcessed
<1>17. CASE Crash BY <1>17 DEF Crash, Running
<1>18. CASE UNCHANGED vars BY <1>18
<1> QED BY <1>1, <1>2, <1>3, <1>4, <1>5, <1>6, <1>7, <1>8, <1>9, <1>10, <1>11, <1>12, <1>13, <1>14, <1>15, <1>16, <1>17, <1>18 DEF Next, Handle

-----------------------------------------------------------------------------
(* The invariant. *)

(* The invariant holds before any request arrives.                         *)
LEMMA InitInv == Init => IInv
<1> SUFFICES ASSUME Init PROVE IInv OBVIOUS
<1> USE DEF Init, Row, Told
<1>1. TypeOK BY DEF TypeOK, Stages
<1>2. StageInv /\ RowsApart BY DEF StageInv, Before, Inside, RowsApart
<1>3. AcceptInv /\ RefuseInv BY DEF AcceptInv, Backed, RefuseInv, Refused, Duplicate
<1>4. DuplicateInv BY DEF DuplicateInv, Duplicate
<1> QED BY <1>1, <1>2, <1>3, <1>4 DEF IInv

(* The inductive invariant holds in every reachable state.                 *)
THEOREM Inductive == Spec => []IInv
<1>1. IInv /\ [Next]_vars => IInv'
  BY TypeStep, StageStep, ApartStep, AcceptStep, RefuseStep, DuplicateStep DEF IInv
<1> QED BY InitInv, <1>1, PTL DEF Spec

(* Every variable keeps its type.                                          *)
THEOREM TypeCorrect == Spec => []TypeOK
BY Inductive, PTL DEF IInv

(* No interleaving of handlers hands a transmission on twice.              *)
THEOREM HandedOnOnceAlways == Spec => []HandedOnOnce
<1>1. IInv => HandedOnOnce
  BY DEF IInv, StageInv, RowsApart, HandedOnOnce
<1> QED BY Inductive, <1>1, PTL

(* An ok receipt has a retained, accepted message behind it for ever.      *)
THEOREM OkIsBackedAlways == Spec => []OkIsBacked
<1>1. IInv => OkIsBacked
  BY DEF IInv, AcceptInv, Backed, OkIsBacked
<1> QED BY Inductive, <1>1, PTL

(* What a partner is told of a refusal is what the audit trail says.       *)
THEOREM RefusalIsRecordedAlways == Spec => []RefusalIsRecorded
<1>1. IInv => RefusalIsRecorded
  BY DEF IInv, RefuseInv, Told, RefusalIsRecorded
<1> QED BY Inductive, <1>1, PTL

(* Nothing is refused as a duplicate without an original on record.        *)
THEOREM DuplicateHasOriginalAlways == Spec => []DuplicateHasOriginal
<1>1. IInv => DuplicateHasOriginal
  BY DEF IInv, DuplicateInv, Told, DuplicateHasOriginal
<1> QED BY Inductive, <1>1, PTL

(* A row is left at processing only by what cuts a handler off.            *)
LEMMA StuckStep == IInv /\ StuckWasCutOff /\ [Next]_vars => StuckWasCutOff'
<1> SUFFICES ASSUME IInv, StuckWasCutOff, [Next]_vars PROVE StuckWasCutOff' OBVIOUS
<1> USE DEF vars, rowVars, IInv, TypeOK, StuckWasCutOff, CutOff, Running
<1>0. ASSUME NEW r \in Requests, pc[r] = "signing" PROVE rowStatus[r] # "processing"
  BY <1>0 DEF AcceptInv, RefuseInv, Told, Verdicts, Duplicate, Refused, Row
<1>1. ASSUME NEW r \in Requests, Arrive(r) PROVE StuckWasCutOff'
  BY <1>1 DEF Arrive, Goto, StageInv, Before, Row
<1>2. ASSUME NEW r \in Requests, RefuseEnvelope(r) PROVE StuckWasCutOff'
  BY <1>2 DEF RefuseEnvelope, Reject, Goto, StageInv, Before, Row
<1>3. ASSUME NEW r \in Requests, PassEnvelope(r) PROVE StuckWasCutOff'
  BY <1>3 DEF PassEnvelope, Goto, StageInv, Before, Row
<1>4. ASSUME NEW r \in Requests, FindDuplicate(r) PROVE StuckWasCutOff'
  BY <1>4 DEF FindDuplicate, Reject, Goto, StageInv, Before, Row
<1>5. ASSUME NEW r \in Requests, Insert(r) PROVE StuckWasCutOff'
  BY <1>5 DEF Insert, Goto
<1>6. ASSUME NEW r \in Requests, InsertRefused(r) PROVE StuckWasCutOff'
  BY <1>6 DEF InsertRefused, Reject, Goto, StageInv, Before, Row
<1>7. ASSUME NEW r \in Requests, Decrypt(r) PROVE StuckWasCutOff'
  BY <1>7 DEF Decrypt, Goto
<1>8. ASSUME NEW r \in Requests, FanOut(r) PROVE StuckWasCutOff'
  BY <1>8 DEF FanOut, Goto
<1>9. ASSUME NEW r \in Requests, RecordSinks(r) PROVE StuckWasCutOff'
  BY <1>9 DEF RecordSinks, Goto
<1>10. ASSUME NEW r \in Requests, Accept(r) PROVE StuckWasCutOff'
  BY <1>10 DEF Accept, UpdateStatus, Goto
<1>11. ASSUME NEW r \in Requests, RejectRow(r) PROVE StuckWasCutOff'
  BY <1>11 DEF RejectRow, UpdateStatus, Goto
<1>12. ASSUME NEW r \in Requests, Recover(r) PROVE StuckWasCutOff'
  BY <1>12 DEF Recover, UpdateStatus, Goto
<1>13. ASSUME NEW r \in Requests, Reply(r) PROVE StuckWasCutOff'
  BY <1>0, <1>13 DEF Reply, Respond, Goto
<1>14. ASSUME NEW r \in Requests, SignFails(r) PROVE StuckWasCutOff'
  BY <1>0, <1>14 DEF SignFails, InTry, Respond, Goto, Row, Refused, Told, RefuseInv
<1>15. ASSUME NEW r \in Requests, DbFails(r) PROVE StuckWasCutOff'
  BY <1>15 DEF DbFails, Respond, Goto, StageInv, Before, Row
<1>16. ASSUME NEW R \in SUBSET Requests, MarkProcessed(R) PROVE StuckWasCutOff'
  BY <1>16 DEF MarkProcessed
<1>17. CASE Crash BY <1>17 DEF Crash
<1>18. CASE UNCHANGED vars BY <1>18
<1> QED BY <1>1, <1>2, <1>3, <1>4, <1>5, <1>6, <1>7, <1>8, <1>9, <1>10, <1>11, <1>12, <1>13, <1>14, <1>15, <1>16, <1>17, <1>18 DEF Next, Handle

(* Whether receipts can be signed or not, a row is not stuck at processing *)
(* unless the process died under its handler, or the database failed in    *)
(* the except clause.                                                      *)
THEOREM StuckWasCutOffAlways == Spec => []StuckWasCutOff
<1>1. Init => StuckWasCutOff
  BY DEF Init, StuckWasCutOff
<1>2. IInv /\ StuckWasCutOff /\ [Next]_vars => StuckWasCutOff'
  BY StuckStep
<1> QED BY Inductive, <1>1, <1>2, PTL DEF Spec

-----------------------------------------------------------------------------
(* Refinement.  Where a receipt can be signed, the verdict stands; where   *)
(* not, the except clause may write "rejected" over it.                    *)

RowStep == [Message!MNext]_rowStatus

(* Every step of the pipeline is a lifecycle step of one row, of the rows  *)
(* one call consumes, or of none.                                          *)
LEMMA RefinementStep == IInv /\ [Next]_vars => RowStep
<1> SUFFICES ASSUME IInv, [Next]_vars PROVE RowStep OBVIOUS
<1> USE DEF RowStep, vars, rowVars
<1>1. ASSUME NEW r \in Requests, Arrive(r) PROVE RowStep
  BY <1>1 DEF Arrive
<1>2. ASSUME NEW r \in Requests, RefuseEnvelope(r) PROVE RowStep
  BY <1>2 DEF RefuseEnvelope
<1>3. ASSUME NEW r \in Requests, PassEnvelope(r) PROVE RowStep
  BY <1>3 DEF PassEnvelope
<1>4. ASSUME NEW r \in Requests, FindDuplicate(r) PROVE RowStep
  BY <1>4 DEF FindDuplicate
<1>5. ASSUME NEW r \in Requests, Insert(r) PROVE RowStep
  <2>1. rowStatus[r] = "absent" BY <1>5 DEF Insert, Goto, IInv, StageInv, Before, Row
  <2>2. Message!Record(r)
    BY <1>5, <2>1 DEF Insert, Violates, Row, Message!Record, Message!Move
  <2> QED BY <2>2 DEF Message!MNext
<1>6. ASSUME NEW r \in Requests, InsertRefused(r) PROVE RowStep
  BY <1>6 DEF InsertRefused
<1>7. ASSUME NEW r \in Requests, Decrypt(r) PROVE RowStep
  BY <1>7 DEF Decrypt
<1>8. ASSUME NEW r \in Requests, FanOut(r) PROVE RowStep
  BY <1>8 DEF FanOut
<1>9. ASSUME NEW r \in Requests, RecordSinks(r) PROVE RowStep
  BY <1>9 DEF RecordSinks
<1>10. ASSUME NEW r \in Requests, Accept(r) PROVE RowStep
  <2>1. rowStatus[r] = "processing"
    BY <1>10 DEF Accept, UpdateStatus, Goto, IInv, StageInv, Inside
  <2>2. Message!Judge(r)
    BY <1>10, <2>1 DEF Accept, UpdateStatus, Message!Judge, Message!Move
  <2> QED BY <2>2 DEF Message!MNext
<1>11. ASSUME NEW r \in Requests, RejectRow(r) PROVE RowStep
  <2>1. rowStatus[r] = "processing"
    BY <1>11 DEF RejectRow, UpdateStatus, Goto, IInv, StageInv, Inside
  <2>2. Message!Judge(r)
    BY <1>11, <2>1 DEF RejectRow, UpdateStatus, Message!Judge, Message!Move
  <2> QED BY <2>2 DEF Message!MNext
<1>12. ASSUME NEW r \in Requests, Recover(r) PROVE RowStep
  <2>1. Row(r) /\ (r \notin Unsignable => rowStatus[r] = "processing")
    BY <1>12 DEF Recover, UpdateStatus, Goto, IInv, StageInv
  <2>2. rowStatus' = [rowStatus EXCEPT ![r] = "rejected"]
    BY <1>12 DEF Recover, UpdateStatus
  <2>3. CASE rowStatus[r] = "processing"
    BY <2>2, <2>3 DEF Message!MNext, Message!Judge, Message!Move
  <2>4. CASE rowStatus[r] \in {"accepted", "processed"}
    <3>1. Message!Revoke(r) BY <2>1, <2>2, <2>4 DEF Message!Revoke, Message!Move
    <3> QED BY <3>1 DEF Message!MNext
  <2>5. CASE rowStatus[r] = "rejected"
    BY <2>2, <2>5 DEF IInv, TypeOK
  <2> QED BY <2>1, <2>3, <2>4, <2>5 DEF IInv, TypeOK, Row
<1>13. ASSUME NEW r \in Requests, Reply(r) PROVE RowStep
  BY <1>13 DEF Reply
<1>14. ASSUME NEW r \in Requests, SignFails(r) PROVE RowStep
  BY <1>14 DEF SignFails
<1>15. ASSUME NEW r \in Requests, DbFails(r) PROVE RowStep
  BY <1>15 DEF DbFails
<1>16. ASSUME NEW R \in SUBSET Requests, MarkProcessed(R) PROVE RowStep
  <2> DEFINE A == {r \in R : rowStatus[r] = "accepted"}
  <2>1. Message!Consume(A) BY <1>16 DEF MarkProcessed, Message!Consume
  <2> QED BY <2>1 DEF Message!MNext
<1>17. CASE Crash BY <1>17 DEF Crash
<1>18. CASE UNCHANGED vars BY <1>18
<1> QED BY <1>1, <1>2, <1>3, <1>4, <1>5, <1>6, <1>7, <1>8, <1>9, <1>10, <1>11, <1>12, <1>13, <1>14, <1>15, <1>16, <1>17, <1>18 DEF Next, Handle

(* The pipeline implements the lifecycle of a messages row, whatever fails.*)
THEOREM Refinement == Spec => ImplementsMessageLifecycle
<1>1. Init => Message!MInit BY DEF Init, Message!MInit
<1>2. IInv /\ [Next]_vars => [Message!MNext]_rowStatus
  BY RefinementStep DEF RowStep
<1> QED BY Inductive, <1>1, <1>2, PTL DEF Spec, ImplementsMessageLifecycle, Message!MSpec
=============================================================================
