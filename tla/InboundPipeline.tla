--------------------------- MODULE InboundPipeline --------------------------
(***************************************************************************)
(* The inbound pipeline: app/inbound/routes.py::receive, run concurrently  *)
(* by the app process for every POST of a trading partner, over the        *)
(* messages table, the PGP keyring, the sinks, and the downstream consumer *)
(* that marks accepted messages processed (app/api/messages.py).           *)
(*                                                                         *)
(* A handler gives way to others at each await, so a step runs from one    *)
(* database transaction (or sink delivery) to the next.  A request that    *)
(* inserts a messages row shares its identity with the row.  What a        *)
(* request carries is given by constants; a partner's retry is another     *)
(* request with the same digest and refnum.  A database call may raise,    *)
(* and then has had no effect; so may the signing of a receipt.            *)
(***************************************************************************)
EXTENDS Naturals

CONSTANTS
  Requests,           \* authenticated POSTs to the receiver
  PartnerOf,          \* the partner authenticate_inbound found
  DigestOf,           \* SHA-256 of the extracted ciphertext
  RefnumOf,           \* the envelope's refnum, or NoRefnum
  NoRefnum,
  UsesRefnum,         \* partners with envelope_overrides.use_refnum
  RequiresSignature,  \* partners with require_signature
  DurableSinks,       \* sinks with durable: true
  RequireDurable,     \* settings.sinks.require_at_least_one_durable_success
  MaxCrashes,         \* bound on crashes of the app process
  MaxDbFailures,      \* bound on database calls that raise
  Unsignable          \* requests whose receipt gpg.detached_sign may raise at

ASSUME ConstantsAssumption ==
  /\ RequireDurable \in BOOLEAN
  /\ Unsignable \subseteq Requests
  /\ MaxCrashes \in Nat
  /\ MaxDbFailures \in Nat

VARIABLES
  rowStatus,    \* messages.status, "absent" before the INSERT
  errorCode,    \* messages.error_code
  sinksStatus,  \* messages.sinks_status: durable sinks recorded ok
  transSeq,     \* the sequence trans_id_seq
  transId,      \* the trans-id a request was given
  pc,           \* where each handler is
  verdict,      \* the request-status of the receipt it is going to send
  stored,       \* durable sinks that hold the plaintext of a request
  reply,        \* what was sent back
  crashes, dbFailures

rowVars == <<rowStatus, errorCode, sinksStatus>>
vars == <<rowVars, transSeq, transId, pc, verdict, stored, reply, crashes, dbFailures>>

(* request-status values, by the stage that issues them: any EEDM code of  *)
(* steps 2 and 3, EEDM121, GWX-DUPLICATE-DIGEST, EEDM699, EEDM604,         *)
(* GWX-WEAK-ALGO, GWX-SINK-FAILURE and EEDM999                             *)
Duplicate == {"DUPLICATE_REFNUM", "DUPLICATE_DIGEST"}
Refused == {"DECRYPTION_ERROR", "SIGNATURE_NOT_MATCHED", "WEAK_ALGORITHM", "SINK_FAILURE",
            "SYSTEM_ERROR"}
Verdicts == {"ok", "ENVELOPE"} \cup Duplicate \cup Refused

Stages == {"idle", "parsing", "dedupe", "inserting", "decrypting", "delivering", "recording",
           "deciding", "rejecting", "signing", "recovering", "done"}

Row(r) == rowStatus[r] # "absent"

TypeOK ==
  /\ rowStatus \in [Requests -> {"absent", "processing", "accepted", "rejected", "processed"}]
  /\ errorCode \in [Requests -> {"none"} \cup Refused]
  /\ sinksStatus \in [Requests -> SUBSET DurableSinks]
  /\ transSeq \in Nat
  /\ transId \in [Requests -> Nat]
  /\ pc \in [Requests -> Stages]
  /\ verdict \in [Requests -> {"none"} \cup Verdicts]
  /\ stored \in [Requests -> SUBSET DurableSinks]
  /\ reply \in [Requests -> {"none", "http500", "dropped"} \cup Verdicts]
  /\ crashes \in Nat
  /\ dbFailures \in Nat

Init ==
  /\ rowStatus = [r \in Requests |-> "absent"]
  /\ errorCode = [r \in Requests |-> "none"]
  /\ sinksStatus = [r \in Requests |-> {}]
  /\ transSeq = 0
  /\ transId = [r \in Requests |-> 0]
  /\ pc = [r \in Requests |-> "idle"]
  /\ verdict = [r \in Requests |-> "none"]
  /\ stored = [r \in Requests |-> {}]
  /\ reply = [r \in Requests |-> "none"]
  /\ crashes = 0
  /\ dbFailures = 0

-----------------------------------------------------------------------------
(* the handler of r goes from one stage to the next *)
Goto(r, from, to) == pc[r] = from /\ pc' = [pc EXCEPT ![r] = to]

(* return reject(code): the verdict is set and its receipt is to be signed *)
Reject(r, from, code) ==
  /\ Goto(r, from, "signing")
  /\ verdict' = [verdict EXCEPT ![r] = code]

(* the handler ends with a response *)
Respond(r, from, response) ==
  /\ Goto(r, from, "done")
  /\ reply' = [reply EXCEPT ![r] = response]

(* Step 1: authenticated; nextval('trans_id_seq') *)
Arrive(r) ==
  /\ Goto(r, "idle", "parsing")
  /\ transSeq' = transSeq + 1
  /\ transId' = [transId EXCEPT ![r] = transSeq + 1]
  /\ UNCHANGED <<rowVars, verdict, stored, reply, crashes, dbFailures>>

(* Steps 2 and 3: the envelope is malformed, or its from, to, version,     *)
(* receipt-security-selection or (mandatory) refnum is refused             *)
RefuseEnvelope(r) ==
  /\ Reject(r, "parsing", "ENVELOPE")
  /\ UNCHANGED <<rowVars, transSeq, transId, stored, reply, crashes, dbFailures>>

RefnumMissing(r) == PartnerOf[r] \in UsesRefnum /\ RefnumOf[r] = NoRefnum

PassEnvelope(r) ==
  /\ ~RefnumMissing(r)
  /\ Goto(r, "parsing", "dedupe")
  /\ UNCHANGED <<rowVars, transSeq, transId, verdict, stored, reply, crashes, dbFailures>>

-----------------------------------------------------------------------------
(* Step 4: dedupe *)

KeyedByRefnum(r) == PartnerOf[r] \in UsesRefnum /\ RefnumOf[r] # NoRefnum

SameDigest(r, s) == PartnerOf[r] = PartnerOf[s] /\ DigestOf[r] = DigestOf[s]
SameRefnum(r, s) == /\ PartnerOf[r] = PartnerOf[s]
                    /\ RefnumOf[r] # NoRefnum
                    /\ RefnumOf[r] = RefnumOf[s]

(* the code a duplicate of r is answered with, found by the SELECT or by   *)
(* the UNIQUE constraints                                                  *)
DuplicateCode(r) == IF KeyedByRefnum(r) THEN "DUPLICATE_REFNUM" ELSE "DUPLICATE_DIGEST"

(* find_refnum_reuse or find_duplicate *)
Seen(r) == \E s \in Requests :
  Row(s) /\ IF KeyedByRefnum(r) THEN SameRefnum(r, s) ELSE SameDigest(r, s)

FindDuplicate(r) ==
  /\ \/ Seen(r) /\ Reject(r, "dedupe", DuplicateCode(r))
     \/ ~Seen(r) /\ Goto(r, "dedupe", "inserting") /\ UNCHANGED verdict
  /\ UNCHANGED <<rowVars, transSeq, transId, stored, reply, crashes, dbFailures>>

(* UNIQUE (partner_name, content_digest, direction) of 0001 and            *)
(* UNIQUE (partner_name, refnum, direction) WHERE refnum IS NOT NULL of    *)
(* 0004; the refnum is stored whether or not the partner uses refnums      *)
Clash(r, s) == SameDigest(r, s) \/ SameRefnum(r, s)
\* Mutant: without 0004_unique_refnum.sql.
Violates_DigestOnly(r) == \E s \in Requests \ {r} : Row(s) /\ SameDigest(r, s)

Violates(r) == \E s \in Requests \ {r} : Row(s) /\ Clash(r, s)

Insert(r) ==
  /\ ~Violates(r)
  /\ Goto(r, "inserting", "decrypting")
  /\ rowStatus' = [rowStatus EXCEPT ![r] = "processing"]
  /\ UNCHANGED <<errorCode, sinksStatus, transSeq, transId, verdict, stored, reply, crashes,
                 dbFailures>>

\* Mutant: every error of the INSERT taken for a UniqueViolation.
InsertRefused_AnyError(r) ==
  /\ Reject(r, "inserting", DuplicateCode(r))
  /\ UNCHANGED <<rowVars, transSeq, transId, stored, reply, crashes, dbFailures>>

InsertRefused(r) ==
  /\ Violates(r)
  /\ Reject(r, "inserting", DuplicateCode(r))
  /\ UNCHANGED <<rowVars, transSeq, transId, stored, reply, crashes, dbFailures>>

-----------------------------------------------------------------------------
(* Steps 5 to 7 *)

(* decrypt, compare the signer, enforce the algorithm policy: no await.    *)
(* GnuPG may also raise, which the except clause turns into EEDM999.       *)
DecryptRefusals(r) ==
  {"DECRYPTION_ERROR", "WEAK_ALGORITHM"} \cup
  (IF PartnerOf[r] \in RequiresSignature THEN {"SIGNATURE_NOT_MATCHED"} ELSE {})

\* Mutant: what GnuPG raises escapes receive.
Decrypt_Escapes(r) ==
  /\ \/ Goto(r, "decrypting", "delivering") /\ UNCHANGED <<verdict, reply>>
     \/ Respond(r, "decrypting", "http500") /\ UNCHANGED verdict
     \/ \E code \in DecryptRefusals(r) :
          /\ Goto(r, "decrypting", "rejecting")
          /\ verdict' = [verdict EXCEPT ![r] = code]
          /\ UNCHANGED reply
  /\ UNCHANGED <<rowVars, transSeq, transId, stored, crashes, dbFailures>>

Decrypt(r) ==
  /\ \/ Goto(r, "decrypting", "delivering") /\ UNCHANGED verdict
     \/ Goto(r, "decrypting", "recovering") /\ UNCHANGED verdict
     \/ \E code \in DecryptRefusals(r) :
          /\ Goto(r, "decrypting", "rejecting")
          /\ verdict' = [verdict EXCEPT ![r] = code]
  /\ UNCHANGED <<rowVars, transSeq, transId, stored, reply, crashes, dbFailures>>

(* fan_out: each sink succeeds or fails on its own *)
FanOut(r) ==
  /\ Goto(r, "delivering", "recording")
  /\ \E S \in SUBSET DurableSinks : stored' = [stored EXCEPT ![r] = S]
  /\ UNCHANGED <<rowVars, transSeq, transId, verdict, reply, crashes, dbFailures>>

(* has_durable_success *)
Retained(r) == DurableSinks = {} \/ stored[r] # {}

\* Mutant: has_durable_success not asked.
RecordSinks_Unchecked(r) ==
  /\ sinksStatus' = [sinksStatus EXCEPT ![r] = stored[r]]
  /\ Goto(r, "recording", "deciding")
  /\ UNCHANGED <<rowStatus, errorCode, transSeq, transId, verdict, stored, reply, crashes,
                 dbFailures>>

(* update_sinks_status, and the verdict that follows from the results *)
RecordSinks(r) ==
  /\ sinksStatus' = [sinksStatus EXCEPT ![r] = stored[r]]
  /\ IF RequireDurable /\ ~Retained(r)
       THEN /\ Goto(r, "recording", "rejecting")
            /\ verdict' = [verdict EXCEPT ![r] = "SINK_FAILURE"]
       ELSE Goto(r, "recording", "deciding") /\ UNCHANGED verdict
  /\ UNCHANGED <<rowStatus, errorCode, transSeq, transId, stored, reply, crashes, dbFailures>>

(* update_status(status=..., error_code=...), then the receipt.  The       *)
(* UPDATE does not look at the status it overwrites.                       *)
UpdateStatus(r, from, status, code, result) ==
  /\ Goto(r, from, "signing")
  /\ rowStatus' = [rowStatus EXCEPT ![r] = status]
  /\ errorCode' = [errorCode EXCEPT ![r] = code]
  /\ verdict' = [verdict EXCEPT ![r] = result]
  /\ UNCHANGED <<sinksStatus, transSeq, transId, stored, reply, crashes, dbFailures>>

\* Mutant: an exception is answered without touching the row.
Recover_Untouched(r) == UpdateStatus(r, "recovering", rowStatus[r], errorCode[r], "SYSTEM_ERROR")

(* Step 8 *)
Accept(r) == UpdateStatus(r, "deciding", "accepted", "none", "ok")

RejectRow(r) == UpdateStatus(r, "rejecting", "rejected", verdict[r], verdict[r])

(* except Exception: the row is moved to rejected, EEDM999 *)
Recover(r) == UpdateStatus(r, "recovering", "rejected", "SYSTEM_ERROR", "SYSTEM_ERROR")

-----------------------------------------------------------------------------
(* _signed_receipt *)

Reply(r) ==
  /\ Respond(r, "signing", verdict[r])
  /\ UNCHANGED <<rowVars, transSeq, transId, verdict, stored, crashes, dbFailures>>

(* the receipt being signed is one of steps 5 to 8, inside the try *)
InTry(r) == Row(r) /\ verdict[r] # "SYSTEM_ERROR"

SignFails(r) ==
  /\ r \in Unsignable
  /\ \/ InTry(r) /\ Goto(r, "signing", "recovering") /\ UNCHANGED reply
     \/ ~InTry(r) /\ Respond(r, "signing", "http500")
  /\ UNCHANGED <<rowVars, transSeq, transId, verdict, stored, crashes, dbFailures>>

(* A database call raises: before the row exists, and in the except        *)
(* clause, the framework answers 500; elsewhere the except clause runs.    *)
DbFails(r) ==
  /\ dbFailures < MaxDbFailures
  /\ dbFailures' = dbFailures + 1
  /\ \/ \E from \in {"idle", "dedupe", "inserting", "recovering"} : Respond(r, from, "http500")
     \/ /\ \E from \in {"recording", "rejecting", "deciding"} : Goto(r, from, "recovering")
        /\ UNCHANGED reply
  /\ UNCHANGED <<rowVars, transSeq, transId, verdict, stored, crashes>>

(* The app process dies with every handler it is running. *)
Running(r) == pc[r] \notin {"idle", "done"}

Crash ==
  /\ crashes < MaxCrashes
  /\ crashes' = crashes + 1
  /\ pc' = [r \in Requests |-> IF Running(r) THEN "done" ELSE pc[r]]
  /\ reply' = [r \in Requests |-> IF Running(r) THEN "dropped" ELSE reply[r]]
  /\ UNCHANGED <<rowVars, transSeq, transId, verdict, stored, dbFailures>>

\* Mutant: mark_processed without AND status = 'accepted'.
MarkProcessed_Any(R) ==
  /\ \E r \in R : Row(r)
  /\ rowStatus' = [r \in Requests |-> IF r \in R /\ Row(r) THEN "processed" ELSE rowStatus[r]]
  /\ UNCHANGED <<errorCode, sinksStatus, transSeq, transId, pc, verdict, stored, reply, crashes,
                 dbFailures>>

(* POST /api/messages/status by the downstream consumer: mark_processed    *)
(* moves those of the rows named that are accepted                         *)
MarkProcessed(R) ==
  /\ \E r \in R : rowStatus[r] = "accepted"
  /\ rowStatus' = [r \in Requests |->
       IF r \in R /\ rowStatus[r] = "accepted" THEN "processed" ELSE rowStatus[r]]
  /\ UNCHANGED <<errorCode, sinksStatus, transSeq, transId, pc, verdict, stored, reply, crashes,
                 dbFailures>>

-----------------------------------------------------------------------------
(* what a handler does by itself once its request has arrived *)
Handle(r) ==
  \/ RefuseEnvelope(r) \/ PassEnvelope(r)
  \/ FindDuplicate(r) \/ Insert(r) \/ InsertRefused(r)
  \/ Decrypt(r) \/ FanOut(r) \/ RecordSinks(r)
  \/ Accept(r) \/ RejectRow(r) \/ Recover(r)
  \/ Reply(r) \/ SignFails(r) \/ DbFails(r)

Next ==
  \/ \E r \in Requests : Arrive(r) \/ Handle(r)
  \/ \E R \in SUBSET Requests : MarkProcessed(R)
  \/ Crash

Spec == Init /\ [][Next]_vars

(* The event loop runs the handlers on; each has finitely many steps, so   *)
(* none is left out for ever.  Partners need not send, and the downstream  *)
(* consumer need not consume.                                              *)
FairSpec == Spec /\ WF_vars(\E r \in Requests : Handle(r))

-----------------------------------------------------------------------------
(* Safety *)

(* However requests race, a transmission is handed to the sinks at most    *)
(* once: of the requests the UNIQUE constraints keep apart, one at most    *)
(* gets that far (the find_... check and the INSERT are not atomic).       *)
HandedOnOnce ==
  \A r, s \in Requests : r # s /\ Clash(r, s) => stored[r] = {} \/ stored[s] = {}

(* docs/inbound-flow.md section 6: "we won't acknowledge data we didn't    *)
(* actually manage to retain anywhere".  An accepted row lists the sinks   *)
(* that hold the plaintext, and an ok receipt has such a row behind it     *)
(* for ever after, whatever fails once it was accepted.                    *)
OkIsBacked ==
  \A r \in Requests :
    /\ rowStatus[r] \in {"accepted", "processed"} =>
         /\ sinksStatus[r] = stored[r]
         /\ RequireDurable /\ DurableSinks # {} => stored[r] # {}
    /\ reply[r] = "ok" => rowStatus[r] \in {"accepted", "processed"}

(* The audit trail agrees with the receipts: a refusal after the row was   *)
(* created left it rejected with the code the partner was given, and one   *)
(* before it left no row.                                                  *)
RefusalIsRecorded ==
  \A r \in Requests :
    /\ reply[r] \in Refused => rowStatus[r] = "rejected" /\ errorCode[r] = reply[r]
    /\ reply[r] \in Duplicate \cup {"ENVELOPE"} => ~Row(r)

(* A request is answered as a duplicate only if another one of the same    *)
(* partner with its digest or its refnum is on record.                     *)
DuplicateHasOriginal ==
  \A r \in Requests :
    reply[r] \in Duplicate => \E s \in Requests \ {r} : Row(s) /\ Clash(r, s)

(* The process died under a request, or the database failed where receive  *)
(* does not catch it: before the row is there, or in the except clause.    *)
CutOff(r) == reply[r] = "dropped" \/ (reply[r] = "http500" /\ dbFailures > 0)

(* The comment in receive: a row is "moved to a terminal 'rejected' status *)
(* rather than left stuck at 'processing' forever".  What a handler leaves *)
(* there was cut off, and has been told neither ok nor refused.            *)
StuckWasCutOff ==
  \A r \in Requests : rowStatus[r] = "processing" => Running(r) \/ CutOff(r)

(* docs: a row leaves "processing" once, for a verdict that stands, unless *)
(* its receipt cannot be signed.                                           *)
Message == INSTANCE MessageLifecycle WITH
  Rows <- Requests, Revocable <- Unsignable, Clash <- Clash, status <- rowStatus

ImplementsMessageLifecycle == Message!MSpec

-----------------------------------------------------------------------------
(* Liveness *)

(* If its receipt can be signed, an authenticated request is answered with *)
(* a signed receipt, whatever else GnuPG raises and the sinks fail to do,  *)
(* or it was cut off (the try of receive and its except clause).           *)
RequestIsAnswered ==
  \A r \in Requests :
    Running(r) ~> \/ reply[r] \in Verdicts
                  \/ CutOff(r)
                  \/ r \in Unsignable /\ reply[r] = "http500"

(* The comment in receive, and docs/inbound-flow.md: once a file is        *)
(* received and authenticated the answer is the signed Receipt, "never a   *)
(* bare unsigned HTTP error".                                              *)
NeverUnsigned == \A r \in Requests : rowStatus[r] = "processing" ~> reply[r] \in Verdicts
=============================================================================
