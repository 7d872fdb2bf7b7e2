---------------------------- MODULE Transmission ----------------------------
(***************************************************************************)
(* One transmission and its receipt, from the job to the worker's outcome: *)
(* what the two ends check, in which order, and what each check decides.   *)
(* OutboundQueue and InboundPipeline leave that to a nondeterministic      *)
(* choice ("an answer", "the envelope is refused").                        *)
(*                                                                         *)
(* The sender builds the envelope of a job (client.py); a foreign sender   *)
(* may differ from it in some fields.  The receiver authenticates, parses, *)
(* checks and decrypts (routes.py up to the policy, duplicates aside) and  *)
(* answers with a signed receipt; a foreign receiver or the way back may   *)
(* alter the response.  The sender then takes the response apart.          *)
(*                                                                         *)
(* Bytes are names: a DUNS as it is written, a credential, a key, a value. *)
(* Transport security, gpg itself and the MIME syntax are external.        *)
(***************************************************************************)
EXTENDS Naturals, Sequences, FiniteSetsExt

CONSTANTS
  Padded,          \* the nine-digit form of a DUNS written without leading zeros
  PartnersFiles,   \* the receiver's partners.yaml: sequences of PartnerConfig
  Receiver,        \* its settings: duns, key, digest, version, ciphers, digests
  Sender,          \* the sender's: duns, auth, key, cipher, digest, selection, and
                   \* of the receiver: peerKey, digests (crypto_overrides applied)
  Jobs,            \* rows of outbound_jobs: to, version, transactionSet, refnum, refnumOrig
  Starred,         \* values that hold a "*", and the key=value pairs behind it
  Oddities,        \* <<field, value>>: how a foreign sender's request differs
  MaxOddities,     \* bound: in how many fields
  Alterations,     \* <<field, value>>: how a response may differ
  MaxAlterations   \* bound: in how many fields

VARIABLES
  pc,
  file,        \* the receiver's partners.yaml
  job,
  x,           \* the request on the wire
  odd,         \* the oddities it has
  partner,     \* whom the receiver takes the sender for: a PartnerConfig or NoPartner
  verdict,     \* what the receiver decides: "ok" or an error code
  response,    \* the HTTP response on the wire
  altered,     \* the alterations it has
  outcome      \* send_once: "ok", the code of a refusal, or "failed"

vars == <<pc, file, job, x, odd, partner, verdict, response, altered, outcome>>

Missing == "missing"
NoPartner == [name |-> "nobody"]

(* the code of the first check that fails *)
FirstFailure(checks) ==
  LET failed == {i \in DOMAIN checks : checks[i][2]}
  IN  IF failed = {} THEN "pass" ELSE checks[Min(failed)][1]

\* Mutant: DUNS compared as they are written.
NormalizeDuns_AsWritten(d) == d

NormalizeDuns(d) == IF d \in DOMAIN Padded THEN Padded[d] ELSE d

-----------------------------------------------------------------------------
(* The partner registry *)

DunsOf(entry) == NormalizeDuns(entry.duns)

(* load_partners raises *)
DuplicateDuns == \E i, k \in DOMAIN file : i # k /\ DunsOf(file[i]) = DunsOf(file[k])

(* PartnerRegistry: a dict by name, in the order the names appear, of the  *)
(* last entry of each name.                                                *)
Registry ==
  LET Same(i) == {k \in DOMAIN file : file[k].name = file[i].name}
      firsts == {i \in DOMAIN file : i = Min(Same(i))}
  IN  [i \in firsts |-> file[Max(Same(i))]]

(* authenticate_inbound: the first one whose scheme and secret match *)
Authenticated ==
  LET hits == {i \in DOMAIN Registry : Registry[i].auth = x["auth"]}
  IN  IF hits = {} THEN NoPartner ELSE Registry[Min(hits)]

Configured(own, default) == IF own = "none" THEN default ELSE own
Allowed(own, default) == IF own = {} THEN default ELSE own

-----------------------------------------------------------------------------
(* The sender: envelope_fields_from_job and build_multipart_body *)

(* EnvelopeFields raises ValueError *)
Malformed(transactionSet, refnum, refnumOrig) ==
  \/ transactionSet \notin {"none", "8chars"}
  \/ ~({refnum, refnumOrig} \subseteq {"none", "digits"})

Optional(value) == IF value = "none" THEN Missing ELSE value

(* encrypt_and_sign, at enqueue time *)
Ciphertext == {"recipient", "signed-by", "cipher", "digest"}
EncryptAndSign(f) ==
  CASE f = "recipient" -> Sender.peerKey [] f = "signed-by" -> Sender.key
    [] f = "cipher" -> Sender.cipher     [] f = "digest" -> Sender.digest

Form == {"from", "to", "version", "receipt-disposition-to", "receipt-report-type",
         "input-format", "input-data", "receipt-security-selection", "transaction-set", "refnum",
         "refnum-orig"}
EnvelopeField(j, f) ==
  CASE f \in {"from", "receipt-disposition-to"} -> NormalizeDuns(Sender.duns)
    [] f = "to" -> NormalizeDuns(j.to)
    [] f = "version" -> j.version
    [] f = "receipt-report-type" -> "gisb-acknowledgement-receipt"
    [] f = "input-format" -> "X12"
    [] f = "input-data" -> "multipart/encrypted"
    [] f = "receipt-security-selection" -> Sender.selection
    [] f = "transaction-set" -> Optional(j.transactionSet)
    [] f = "refnum" -> Optional(j.refnum)
    [] f = "refnum-orig" -> Optional(j.refnumOrig)

(* the request on the wire: its credentials, its form, its ciphertext *)
Envelope(j) ==
  [f \in {"size", "auth", "form"} \cup Form \cup Ciphertext |->
     CASE f = "size" -> "fits" [] f = "auth" -> Sender.auth [] f = "form" -> "readable"
       [] f \in Form -> EnvelopeField(j, f)
       [] f \in Ciphertext -> EncryptAndSign(f)]

(* partners.yaml is a list of entries that are somebody; the nine digits   *)
(* of a DUNS stay as they are; a version or a DUNS is not a missing field. *)
ASSUME TransmissionAssumption ==
  /\ \A f \in PartnersFiles :
       /\ Len(f) \in Nat /\ DOMAIN f = 1..Len(f)
       /\ \A i \in DOMAIN f : f[i] # NoPartner
  /\ \A d \in DOMAIN Padded : NormalizeDuns(Padded[d]) = Padded[d]
  /\ NormalizeDuns(Sender.duns) # Missing
  /\ \A j \in Jobs : NormalizeDuns(j.to) # Missing /\ j.version # Missing

Init ==
  /\ pc = "load"
  /\ file \in PartnersFiles
  /\ job \in Jobs
  /\ x = << >> /\ odd = {}
  /\ partner = NoPartner /\ verdict = "none"
  /\ response = << >> /\ altered = {}
  /\ outcome = "none"

LoadPartners ==
  /\ pc = "load"
  /\ pc' = IF DuplicateDuns THEN "refused to start" ELSE "build"
  /\ UNCHANGED <<file, job, x, odd, partner, verdict, response, altered, outcome>>

(* The ValueError is not a DeliveryAttemptError: it ends the worker.       *)
BuildRequest ==
  /\ pc = "build"
  /\ IF Malformed(job.transactionSet, job.refnum, job.refnumOrig)
     THEN pc' = "worker died" /\ UNCHANGED x
     ELSE pc' = "wire" /\ x' = Envelope(job)
  /\ UNCHANGED <<file, job, odd, partner, verdict, response, altered, outcome>>

(* it was not our worker that built it *)
ForeignSender(o) ==
  /\ pc = "wire"
  /\ Cardinality(odd) < MaxOddities
  /\ \A other \in odd : o[1] # other[1]
  /\ x[o[1]] # o[2]
  /\ x' = [x EXCEPT ![o[1]] = o[2]]
  /\ odd' = odd \cup {o}
  /\ UNCHANGED <<pc, file, job, partner, verdict, response, altered, outcome>>

-----------------------------------------------------------------------------
(* The receiver: receive *)

HttpError == [http |-> "error"]

(* 413 and 401 are plain HTTP errors *)
Authenticate ==
  /\ pc = "wire"
  /\ partner' = IF x["size"] = "large" THEN NoPartner ELSE Authenticated
  /\ IF partner' = NoPartner
     THEN pc' = "response" /\ response' = HttpError
     ELSE pc' = "parse" /\ UNCHANGED response
  /\ UNCHANGED <<file, job, x, odd, verdict, altered, outcome>>

NoParameters == "EEDM109"

MissingCode(field) ==
  CASE field = "from" -> "EEDM100"            [] field = "to" -> "EEDM101"
    [] field = "input-format" -> "EEDM102"    [] field = "input-data" -> "EEDM103"
    [] field = "transaction-set" -> "EEDM104" [] field = "version" -> "EEDM111"
    [] field = "receipt-disposition-to" -> "EEDM114"
    [] field = "receipt-report-type" -> "EEDM116"
    [] field = "receipt-security-selection" -> "EEDM118"
    [] OTHER -> NoParameters

InvalidCode(field) ==
  CASE field = "from" -> "EEDM105"            [] field = "to" -> "EEDM106"
    [] field = "input-format" -> "EEDM107"    [] field = "input-data" -> "EEDM602"
    [] field = "transaction-set" -> "EEDM108" [] field = "version" -> "EEDM110"
    [] field = "receipt-disposition-to" -> "EEDM115"
    [] field = "receipt-report-type" -> "EEDM117"
    [] field = "receipt-security-selection" -> "EEDM113"
    [] OTHER -> NoParameters

\* Mutant: one field less is required.
Required_ButSelection ==
  <<"from", "to", "version", "receipt-disposition-to", "receipt-report-type", "input-format">>

Required ==
  <<"from", "to", "version", "receipt-disposition-to", "receipt-report-type", "input-format",
    "receipt-security-selection">>

(* unwrap_pgp_encrypted: two parts, the first a control part *)
Unwrappable == x["input-data"] = "multipart/encrypted"

(* get_str: None when the field is not there *)
Given(f) == IF x[f] = Missing THEN "none" ELSE x[f]

(* parse_multipart_form; a bad refnum or refnum-orig is reported as a      *)
(* transaction-set                                                         *)
FormChecks ==
  << <<NoParameters, x["form"] = "malformed">> >>
  \o [i \in DOMAIN Required |->
        <<MissingCode(Required[i]), x[Required[i]] = Missing>>]
  \o << <<InvalidCode("input-format"), x["input-format"] # "X12">>,
        <<MissingCode("input-data"), x["input-data"] = Missing>>,
        <<InvalidCode("input-data"), ~Unwrappable>>,
        <<InvalidCode("transaction-set"),
          Malformed(Given("transaction-set"), Given("refnum"), Given("refnum-orig"))>> >>

\* Mutant: any authenticated partner may send in any partner's name.
IdentityChecks_AnyFrom ==
  << <<"EEDM106", NormalizeDuns(x["to"]) # NormalizeDuns(Receiver.duns)>>,
     <<"EEDM110", x["version"] # Configured(partner.version, Receiver.version)>>,
     <<"EEDM113", x["receipt-security-selection"] # "pgp-signature">>,
     <<"EEDM119", partner.useRefnum /\ x["refnum"] = Missing>> >>

(* steps 3 and 4 of receive, duplicates aside *)
IdentityChecks ==
  << <<"EEDM701", NormalizeDuns(x["from"]) # DunsOf(partner)>>,
     <<"EEDM106", NormalizeDuns(x["to"]) # NormalizeDuns(Receiver.duns)>>,
     <<"EEDM110", x["version"] # Configured(partner.version, Receiver.version)>>,
     <<"EEDM113", x["receipt-security-selection"] # "pgp-signature">>,
     <<"EEDM119", partner.useRefnum /\ x["refnum"] = Missing>> >>

(* decrypt_and_verify: our private key opens it *)
Decryptable == x["recipient"] = Receiver.key

(* ... and the signature is valid and the fingerprint the partner's *)
SignatureOk == x["signed-by"] = partner.key

(* enforce_policy raises; without a signature there is no digest to look at *)
WeakAlgorithm ==
  \/ x["cipher"] \notin Allowed(partner.ciphers, Receiver.ciphers)
  \/ partner.requireSignature /\ x["digest"] \notin Allowed(partner.digests, Receiver.digests)

(* steps 5 and 6 *)
PayloadChecks ==
  << <<"EEDM699", ~Decryptable>>,
     <<"EEDM604", partner.requireSignature /\ ~SignatureOk>>,
     <<"GWX-WEAK-ALGO", WeakAlgorithm>> >>

Check(here, checks, next) ==
  /\ pc = here
  /\ LET code == FirstFailure(checks) IN
     IF code = "pass"
     THEN pc' = next /\ verdict' = IF next = "receipt" THEN "ok" ELSE verdict
     ELSE pc' = "receipt" /\ verdict' = code
  /\ UNCHANGED <<file, job, x, odd, partner, response, altered, outcome>>

ParseForm == Check("parse", FormChecks, "identify")
CheckIdentity == Check("identify", IdentityChecks, "decrypt")
DecryptAndVerify == Check("decrypt", PayloadChecks, "receipt")

(* The refusals whose description quotes the request (the detail of an     *)
(* EnvelopeError, the version that was not expected), and what they quote. *)
QuotedFields ==
  [EEDM107 |-> {"input-format"}, EEDM602 |-> {"input-data"}, EEDM109 |-> {"form"},
   EEDM108 |-> {"transaction-set", "refnum", "refnum-orig"}, EEDM110 |-> {"version"}]

(* the part of it that stands behind a "*" *)
Quoted ==
  LET starred == {f \in DOMAIN x : /\ verdict \in DOMAIN QuotedFields
                                   /\ f \in QuotedFields[verdict]
                                   /\ x[f] \in DOMAIN Starred}
  IN  IF starred = {} THEN << >> ELSE Starred[x[CHOOSE f \in starred : TRUE]]

\* Mutant: the description as it is.
Sanitized_Verbatim(pairs) == pairs

(* _sanitize_receipt_text: "*" becomes a space, and the rest of the text   *)
(* stays part of the description                                           *)
Sanitized(pairs) == << >>

(* _fields_text: key=value*, in this order *)
ReceiptText ==
  << <<"time-c", "t">>, <<"request-status", verdict>> >>
  \o Sanitized(Quoted)
  \o << <<"server-id", "s">>, <<"trans-id", "n">> >>

(* encode_report_part, detached_sign, build_signed_mime *)
ReportPart(text) == [text |-> text, plain |-> "text/plain"]
DetachedSign(text) ==
  [kind |-> "detached", signedText |-> text, signedBy |-> Receiver.key,
   digest |-> Receiver.digest]
SignedMime(report, signature) ==
  [http |-> "200", parts |-> "report and signature", boundary |-> "in header",
   text |-> report.text, plain |-> report.plain,
   kind |-> signature.kind, signedText |-> signature.signedText,
   signedBy |-> signature.signedBy, digest |-> signature.digest]

(* _signed_receipt *)
IssueReceipt ==
  /\ pc = "receipt"
  /\ response' = SignedMime(ReportPart(ReceiptText), DetachedSign(ReceiptText))
  /\ pc' = "response"
  /\ UNCHANGED <<file, job, x, odd, partner, verdict, altered, outcome>>

(* a foreign receiver, or the way back *)
Alter(a) ==
  /\ pc = "response"
  /\ response # HttpError
  /\ Cardinality(altered) < MaxAlterations
  /\ \A other \in altered : a[1] # other[1]
  /\ response[a[1]] # a[2]
  /\ response' = [response EXCEPT ![a[1]] = a[2]]
  /\ altered' = altered \cup {a}
  /\ UNCHANGED <<pc, file, job, x, odd, partner, verdict, outcome>>

-----------------------------------------------------------------------------
(* The sender again: the rest of send_once *)

(* the boundary parameter, or else the body's first line *)
BoundaryFound(r) == r.boundary \in {"in header", "in body"}

(* parse_signed_mime *)
Splittable(r) == BoundaryFound(r) /\ r.parts = "report and signature"

(* verify_detached *)
DetachedVerifies(r) ==
  r.kind = "detached" /\ r.signedBy = Sender.peerKey /\ r.signedText = r.text

(* _verify_inline_message: the copy in it equals the report *)
InlineVerifies(r) == r.signedBy = Sender.peerKey /\ r.signedText = r.text

\* Mutant: an inline message is believed without a look at the report.
Verified_InlineAlone(r) ==
  DetachedVerifies(r) \/ (r.kind = "inline" /\ r.signedBy = Sender.peerKey)

(* verify_receipt_signature *)
Verified(r) == DetachedVerifies(r) \/ (r.kind = "inline" /\ InlineVerifies(r))

(* _parse_fields: the last value of a key stands *)
ValueOf(text, key) == text[Max({i \in DOMAIN text : text[i][1] = key})][2]

Decodable(r) ==
  /\ r.plain = "text/plain"
  /\ \A key \in {"time-c", "request-status", "server-id", "trans-id"} :
       \E i \in DOMAIN r.text : r.text[i][1] = key

(* raise_for_status, parse_signed_mime, verify_receipt_signature,          *)
(* enforce_digest_policy, decode_report_part: each raises what ends up as  *)
(* DeliveryAttemptError                                                    *)
ReadResponse ==
  /\ pc = "response"
  /\ LET r == response
         believed == /\ r.http = "200"
                     /\ Splittable(r)
                     /\ Verified(r)
                     /\ r.digest \in Sender.digests
                     /\ Decodable(r)
     IN  outcome' = IF believed THEN ValueOf(r.text, "request-status") ELSE "failed"
  /\ pc' = "done"
  /\ UNCHANGED <<file, job, x, odd, partner, verdict, response, altered>>

-----------------------------------------------------------------------------
Next ==
  \/ LoadPartners \/ BuildRequest
  \/ \E o \in Oddities : ForeignSender(o)
  \/ Authenticate \/ ParseForm \/ CheckIdentity \/ DecryptAndVerify \/ IssueReceipt
  \/ \E a \in Alterations : Alter(a)
  \/ ReadResponse

Spec == Init /\ [][Next]_vars

-----------------------------------------------------------------------------
(* the DUNS that a spelling stands for *)
TheDuns(d) == IF d \in DOMAIN Padded THEN Padded[d] ELSE d

(* docs/authentication.md, docs/inbound-flow.md: what is accepted as a     *)
(* partner's message came with that partner's credentials, in its name, to *)
(* us, signed by its key with algorithms allowed for it unless the gap is  *)
(* documented, and no other partner answers to that DUNS (load_partners,   *)
(* PartnerRegistry, authenticate_inbound, receive).                        *)
AcceptedIsAttributed ==
  verdict = "ok" =>
    \E i \in DOMAIN file :
      LET P == file[i] IN
      /\ partner = P
      /\ x["auth"] = P.auth
      /\ \A k \in DOMAIN file : TheDuns(x["from"]) = TheDuns(file[k].duns) <=> k = i
      /\ TheDuns(x["to"]) = TheDuns(Receiver.duns)
      /\ P.requireSignature =>
           x["signed-by"] = P.key /\ x["digest"] \in Allowed(P.digests, Receiver.digests)
      /\ x["cipher"] \in Allowed(P.ciphers, Receiver.ciphers)

(* Whatever is wrong with a request, and however much, its refusal is for  *)
(* something that is.  That is less than the exact code EnvelopeError      *)
(* speaks of: EEDM108, "Invalid transaction-set", is also the answer to a  *)
(* refnum or refnum-orig that is not a number, the transaction-set being   *)
(* in order (the last except clause of parse_multipart_form).              *)
MissingField ==
  [EEDM100 |-> "from", EEDM101 |-> "to", EEDM111 |-> "version",
   EEDM114 |-> "receipt-disposition-to", EEDM116 |-> "receipt-report-type",
   EEDM102 |-> "input-format", EEDM118 |-> "receipt-security-selection",
   EEDM103 |-> "input-data", EEDM119 |-> "refnum"]

RefusalNamesAFault ==
  /\ \A code \in DOMAIN MissingField : verdict = code => x[MissingField[code]] = Missing
  /\ verdict = "EEDM109" => x["form"] = "malformed"
  /\ verdict = "EEDM107" => x["input-format"] \notin {Missing, "X12"}
  /\ verdict = "EEDM602" => x["input-data"] \notin {Missing, "multipart/encrypted"}
  /\ verdict = "EEDM108" => \/ x["transaction-set"] \notin {Missing, "8chars"}
                            \/ ~({x["refnum"], x["refnum-orig"]} \subseteq {Missing, "digits"})
  /\ verdict = "EEDM110" =>
       x["version"] \notin {Missing, Configured(partner.version, Receiver.version)}
  /\ verdict = "EEDM113" => x["receipt-security-selection"] \notin {Missing, "pgp-signature"}
  /\ verdict = "EEDM604" => partner.requireSignature /\ x["signed-by"] # partner.key

(* What two gateways must have agreed on: who the other is, by credentials *)
(* and DUNS however many zeros it is written with, keys, version,          *)
(* algorithms, and whether there are refnums.                              *)
SenderIs(P) ==
  /\ P.auth = Sender.auth
  /\ TheDuns(P.duns) = TheDuns(Sender.duns)
  /\ P.key = Sender.key
  /\ job.version = Configured(P.version, Receiver.version)
  /\ P.useRefnum => job.refnum # "none"
  /\ Sender.cipher \in Allowed(P.ciphers, Receiver.ciphers)
  /\ Sender.digest \in Allowed(P.digests, Receiver.digests)
Agreed ==
  /\ \E i \in DOMAIN file :
       /\ SenderIs(file[i])
       /\ \A k \in DOMAIN file \ {i} :
            file[k].name # file[i].name /\ file[k].auth # Sender.auth
  /\ TheDuns(job.to) = TheDuns(Receiver.duns)
  /\ Sender.peerKey = Receiver.key
  /\ Sender.selection = "pgp-signature"
  /\ Receiver.digest \in Sender.digests

(* Two gateways of this code that have agreed understand each other: a job *)
(* that can be sent at all is delivered (build_multipart_body against      *)
(* parse_multipart_form, _signed_receipt against parse_signed_mime).       *)
OwnGatewaysAgree ==
  pc = "done" /\ Agreed /\ odd = {} /\ altered = {} => outcome = "ok"

(* send_once reports only what the partner has signed, byte for byte and   *)
(* with a digest allowed for it; if the receipt is the one issued, that is *)
(* the receiver's verdict.                                                 *)
OutcomeIsSigned ==
  pc = "done" /\ outcome # "failed" =>
    /\ response.signedBy = Sender.peerKey /\ response.digest \in Sender.digests
    /\ outcome = ValueOf(response.signedText, "request-status")
    /\ (\A a \in altered : a[1] # "signedText") => outcome = verdict

(* A receipt that is unusual only in ways the code tolerates, whatever it  *)
(* refuses and whatever it quotes, is understood as it was meant           *)
(* (sniff_boundary_from_body, _verify_inline_message,                      *)
(* _sanitize_receipt_text).                                                *)
Tolerated == {<<"boundary", "in body">>, <<"kind", "inline">>}

ReceiptIsUnderstood ==
  /\ pc = "done" /\ response # HttpError /\ altered \subseteq Tolerated
  /\ Sender.peerKey = Receiver.key /\ Receiver.digest \in Sender.digests
  => outcome = verdict
=============================================================================
