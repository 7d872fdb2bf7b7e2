------------------------- MODULE TransmissionProofs -------------------------
(***************************************************************************)
(* Theorems about Transmission: what is accepted is attributed, a refusal  *)
(* names a fault, two gateways that have agreed understand each other, an  *)
(* outcome is signed, a tolerable receipt is understood.  All five follow  *)
(* from one inductive invariant, Inv, which says what is known at each     *)
(* stage: of the request, whom the sender is taken for, what the checks    *)
(* passed so far have established, and which fields of the response are    *)
(* still the issued ones.                                                  *)
(*                                                                         *)
(* First come facts about the model's operators (a least element, the      *)
(* first check that fails, the registry), then what each stage decides,    *)
(* then the invariant, step by step.                                       *)
(***************************************************************************)
EXTENDS Transmission, TLAPS, WellFoundedInduction

(* A set of naturals has a least element and, if bounded, a greatest one.  *)
LEMMA MinFact ==
  ASSUME NEW S, S \subseteq Nat, S # {}
  PROVE  Min(S) \in S /\ \A i \in S : Min(S) <= i
<1> DEFINE less == OpToRel(<, Nat)
<1>1. IsWellFoundedOn(less, Nat)
  BY NatLessThanWellFounded
<1> HIDE DEF less
<1>2. PICK m \in S : \A i \in S : ~(<<i, m>> \in less)
  BY <1>1, WFMin
<1>3. ASSUME NEW i \in S PROVE m <= i
  <2>1. i \in Nat /\ m \in Nat
    OBVIOUS
  <2>2. ~(<<i, m>> \in less)
    BY <1>2
  <2>3. i < m => <<i, m>> \in less
    BY <2>1 DEF less, OpToRel
  <2> QED
    BY <2>1, <2>2, <2>3
<1> QED
  BY <1>3 DEF Min

(* The greatest element, by reflecting the set at its bound.               *)
LEMMA MaxFact ==
  ASSUME NEW n \in Nat, NEW S, S \subseteq 0..n, S # {}
  PROVE  Max(S) \in S /\ \A i \in S : i <= Max(S)
<1> DEFINE T == {k \in Nat : \E i \in S : k = n - i}
<1>1. T # {}
  <2>1. PICK i \in S : TRUE
    OBVIOUS
  <2>2. i \in 0..n /\ n - i \in Nat
    OBVIOUS
  <2> QED
    BY <2>1, <2>2
<1>2. Min(T) \in T /\ \A i \in T : Min(T) <= i
  <2>1. T \subseteq Nat
    OBVIOUS
  <2> HIDE DEF T
  <2> QED
    BY <1>1, <2>1, MinFact
<1>3. PICK m \in S : Min(T) = n - m
  BY <1>2
<1>4. ASSUME NEW i \in S PROVE i <= m
  <2>1. i \in 0..n /\ m \in 0..n
    OBVIOUS
  <2>2. n - i \in T
    BY <2>1
  <2>3. n - m <= n - i
    BY <1>2, <1>3, <2>2
  <2> QED
    BY <2>1, <2>3
<1> QED
  BY <1>4 DEF Max

(* The checks are made in their order, and the first that fails decides. *)
LEMMA FirstFailureFact ==
  ASSUME NEW n \in Nat, NEW checks, DOMAIN checks = 1..n
  PROVE  \/ FirstFailure(checks) = "pass" /\ \A i \in 1..n : ~checks[i][2]
         \/ \E i \in 1..n : /\ FirstFailure(checks) = checks[i][1]
                            /\ checks[i][2]
                            /\ \A k \in 1..n : k < i => ~checks[k][2]
<1> DEFINE failed == {i \in DOMAIN checks : checks[i][2]}
<1>1. CASE failed = {}
  BY <1>1 DEF FirstFailure
<1>2. CASE failed # {}
  <2>1. failed \subseteq Nat
    OBVIOUS
  <2>2. Min(failed) \in failed /\ \A i \in failed : Min(failed) <= i
    BY <1>2, <2>1, MinFact
  <2>3. FirstFailure(checks) = checks[Min(failed)][1]
    BY <1>2 DEF FirstFailure
  <2> DEFINE m == Min(failed)
  <2>4. m \in 1..n /\ checks[m][2]
    BY <2>2
  <2>5. \A k \in 1..n : k < m => ~checks[k][2]
    <3> SUFFICES ASSUME NEW k \in 1..n, k < m, checks[k][2] PROVE FALSE
      OBVIOUS
    <3>1. m <= k
      BY <2>2
    <3> QED
      BY <2>4, <3>1
  <2> QED
    BY <2>3, <2>4, <2>5
<1> QED
  BY <1>1, <1>2

-----------------------------------------------------------------------------
(* What the last three stages decide, spelled out.                         *)
FormPassed ==
  /\ x["form"] # "malformed"
  /\ \A f \in {"from", "to", "version", "receipt-disposition-to", "receipt-report-type",
                "input-format", "receipt-security-selection"} : x[f] # Missing
  /\ x["input-format"] = "X12"
  /\ x["input-data"] = "multipart/encrypted"

IdentityPassed ==
  /\ NormalizeDuns(x["from"]) = DunsOf(partner)
  /\ NormalizeDuns(x["to"]) = NormalizeDuns(Receiver.duns)

PayloadPassed ==
  /\ x["cipher"] \in Allowed(partner.ciphers, Receiver.ciphers)
  /\ partner.requireSignature =>
       x["signed-by"] = partner.key /\ x["digest"] \in Allowed(partner.digests, Receiver.digests)

(* RefusalNamesAFault, of a code that is not the verdict yet. *)
Explained(code) ==
  /\ \A c \in DOMAIN MissingField : code = c => x[MissingField[c]] = Missing
  /\ code = "EEDM109" => x["form"] = "malformed"
  /\ code = "EEDM107" => x["input-format"] \notin {Missing, "X12"}
  /\ code = "EEDM602" => x["input-data"] \notin {Missing, "multipart/encrypted"}
  /\ code = "EEDM108" => \/ x["transaction-set"] \notin {Missing, "8chars"}
                         \/ ~({x["refnum"], x["refnum-orig"]} \subseteq {Missing, "digits"})
  /\ code = "EEDM110" =>
       x["version"] \notin {Missing, Configured(partner.version, Receiver.version)}
  /\ code = "EEDM113" => x["receipt-security-selection"] \notin {Missing, "pgp-signature"}
  /\ code = "EEDM604" => partner.requireSignature /\ x["signed-by"] # partner.key

Refusal(code) == code \notin {"pass", "ok", "none"} /\ Explained(code)

(* the last check of the form, which looks at three fields *)
BadMetadata == Malformed(Given("transaction-set"), Given("refnum"), Given("refnum-orig"))

(* The twelve checks of parse_multipart_form, in its order: what code each *)
(* has and on what it fires.                                               *)
LEMMA FormChecksFact ==
  /\ DOMAIN FormChecks = 1..12
  /\ FormChecks[1][1] = "EEDM109" /\ FormChecks[1][2] = (x["form"] = "malformed")
  /\ FormChecks[2][1] = "EEDM100" /\ FormChecks[2][2] = (x["from"] = Missing)
  /\ FormChecks[3][1] = "EEDM101" /\ FormChecks[3][2] = (x["to"] = Missing)
  /\ FormChecks[4][1] = "EEDM111" /\ FormChecks[4][2] = (x["version"] = Missing)
  /\ FormChecks[5][1] = "EEDM114" /\ FormChecks[5][2] = (x["receipt-disposition-to"] = Missing)
  /\ FormChecks[6][1] = "EEDM116" /\ FormChecks[6][2] = (x["receipt-report-type"] = Missing)
  /\ FormChecks[7][1] = "EEDM102" /\ FormChecks[7][2] = (x["input-format"] = Missing)
  /\ FormChecks[8][1] = "EEDM118" /\ FormChecks[8][2] = (x["receipt-security-selection"] = Missing)
  /\ FormChecks[9][1] = "EEDM107" /\ FormChecks[9][2] = (x["input-format"] # "X12")
  /\ FormChecks[10][1] = "EEDM103" /\ FormChecks[10][2] = (x["input-data"] = Missing)
  /\ FormChecks[11][1] = "EEDM602" /\ FormChecks[11][2] = (~Unwrappable)
  /\ FormChecks[12][1] = "EEDM108" /\ FormChecks[12][2] = (BadMetadata)
<1> USE DEF FormChecks, Required, MissingCode, InvalidCode, NoParameters, BadMetadata
<1>0. DOMAIN FormChecks = 1..12
  OBVIOUS
<1>1. FormChecks[1][1] = "EEDM109" /\ FormChecks[1][2] = (x["form"] = "malformed")
  OBVIOUS
<1>2. FormChecks[2][1] = "EEDM100" /\ FormChecks[2][2] = (x["from"] = Missing)
  OBVIOUS
<1>3. FormChecks[3][1] = "EEDM101" /\ FormChecks[3][2] = (x["to"] = Missing)
  OBVIOUS
<1>4. FormChecks[4][1] = "EEDM111" /\ FormChecks[4][2] = (x["version"] = Missing)
  OBVIOUS
<1>5. FormChecks[5][1] = "EEDM114" /\ FormChecks[5][2] = (x["receipt-disposition-to"] = Missing)
  OBVIOUS
<1>6. FormChecks[6][1] = "EEDM116" /\ FormChecks[6][2] = (x["receipt-report-type"] = Missing)
  OBVIOUS
<1>7. FormChecks[7][1] = "EEDM102" /\ FormChecks[7][2] = (x["input-format"] = Missing)
  OBVIOUS
<1>8. FormChecks[8][1] = "EEDM118" /\ FormChecks[8][2] = (x["receipt-security-selection"] = Missing)
  OBVIOUS
<1>9. FormChecks[9][1] = "EEDM107" /\ FormChecks[9][2] = (x["input-format"] # "X12")
  OBVIOUS
<1>10. FormChecks[10][1] = "EEDM103" /\ FormChecks[10][2] = (x["input-data"] = Missing)
  OBVIOUS
<1>11. FormChecks[11][1] = "EEDM602" /\ FormChecks[11][2] = (~Unwrappable)
  OBVIOUS
<1>12. FormChecks[12][1] = "EEDM108" /\ FormChecks[12][2] = (BadMetadata)
  OBVIOUS
<1> HIDE DEF FormChecks, BadMetadata
<1> QED
  BY <1>0, <1>1, <1>2, <1>3, <1>4, <1>5, <1>6, <1>7, <1>8, <1>9, <1>10, <1>11, <1>12

(* The codes that say of a field that it is missing.                       *)
LEMMA MissingFieldFact ==
  /\ DOMAIN MissingField = {"EEDM100", "EEDM101", "EEDM111", "EEDM114", "EEDM116", "EEDM102",
                            "EEDM118", "EEDM103", "EEDM119"}
  /\ MissingField["EEDM100"] = "from"
  /\ MissingField["EEDM101"] = "to"
  /\ MissingField["EEDM111"] = "version"
  /\ MissingField["EEDM114"] = "receipt-disposition-to"
  /\ MissingField["EEDM116"] = "receipt-report-type"
  /\ MissingField["EEDM102"] = "input-format"
  /\ MissingField["EEDM118"] = "receipt-security-selection"
  /\ MissingField["EEDM103"] = "input-data"
  /\ MissingField["EEDM119"] = "refnum"
  BY DEF MissingField

(* A refusal by such a code, of a request that lacks the field, is         *)
(* explained.                                                              *)
LEMMA MissingExplained ==
  ASSUME NEW c \in DOMAIN MissingField, x[MissingField[c]] = Missing
  PROVE  Refusal(c)
<1>1. c \notin {"pass", "ok", "none", "EEDM109", "EEDM107", "EEDM602", "EEDM108", "EEDM110",
                "EEDM113", "EEDM604"}
  BY MissingFieldFact
<1> QED
  BY <1>1 DEF Refusal, Explained

(* parse_multipart_form lets a complete form through and refuses another   *)
(* for a fault it has.                                                     *)
LEMMA FormStage ==
  \/ FirstFailure(FormChecks) = "pass" /\ FormPassed
  \/ Refusal(FirstFailure(FormChecks))
<1>1. CASE FirstFailure(FormChecks) = "pass" /\ \A i \in 1..12 : ~FormChecks[i][2]
  <2>1. \A i \in 1..12 : ~FormChecks[i][2]
    BY <1>1
  <2>2. /\ ~FormChecks[1][2] /\ ~FormChecks[2][2] /\ ~FormChecks[3][2] /\ ~FormChecks[4][2]
        /\ ~FormChecks[5][2] /\ ~FormChecks[6][2] /\ ~FormChecks[7][2] /\ ~FormChecks[8][2]
        /\ ~FormChecks[9][2] /\ ~FormChecks[11][2]
    BY <2>1
  <2> QED
    BY <1>1, <2>2, FormChecksFact, ZenonT(30) DEF FormPassed, Unwrappable
<1>2. ASSUME NEW i \in 1..12, FirstFailure(FormChecks) = FormChecks[i][1], FormChecks[i][2],
             \A k \in 1..12 : k < i => ~FormChecks[k][2]
      PROVE Refusal(FirstFailure(FormChecks))
  <2> DEFINE code == FirstFailure(FormChecks)
  <2>1. CASE i = 1
    <3>1. code = "EEDM109" /\ x["form"] = "malformed"
      BY <1>2, <2>1, FormChecksFact
    <3> QED
      BY <3>1, MissingFieldFact DEF Refusal, Explained
  <2>2. CASE i = 2
    <3>1. code = "EEDM100" /\ x["from"] = Missing
      BY <1>2, <2>2, FormChecksFact
    <3> QED
      BY <3>1, MissingFieldFact, MissingExplained
  <2>3. CASE i = 3
    <3>1. code = "EEDM101" /\ x["to"] = Missing
      BY <1>2, <2>3, FormChecksFact
    <3> QED
      BY <3>1, MissingFieldFact, MissingExplained
  <2>4. CASE i = 4
    <3>1. code = "EEDM111" /\ x["version"] = Missing
      BY <1>2, <2>4, FormChecksFact
    <3> QED
      BY <3>1, MissingFieldFact, MissingExplained
  <2>5. CASE i = 5
    <3>1. code = "EEDM114" /\ x["receipt-disposition-to"] = Missing
      BY <1>2, <2>5, FormChecksFact
    <3> QED
      BY <3>1, MissingFieldFact, MissingExplained
  <2>6. CASE i = 6
    <3>1. code = "EEDM116" /\ x["receipt-report-type"] = Missing
      BY <1>2, <2>6, FormChecksFact
    <3> QED
      BY <3>1, MissingFieldFact, MissingExplained
  <2>7. CASE i = 7
    <3>1. code = "EEDM102" /\ x["input-format"] = Missing
      BY <1>2, <2>7, FormChecksFact
    <3> QED
      BY <3>1, MissingFieldFact, MissingExplained
  <2>8. CASE i = 8
    <3>1. code = "EEDM118" /\ x["receipt-security-selection"] = Missing
      BY <1>2, <2>8, FormChecksFact
    <3> QED
      BY <3>1, MissingFieldFact, MissingExplained
  <2>9. CASE i = 9
    <3>1. code = "EEDM107" /\ x["input-format"] # "X12"
      BY <1>2, <2>9, FormChecksFact
    <3>2. x["input-format"] # Missing
      <4>1. ~FormChecks[7][2]
        BY <1>2, <2>9
      <4> QED
        BY <4>1, FormChecksFact
    <3> QED
      BY <3>1, <3>2, MissingFieldFact DEF Refusal, Explained
  <2>10. CASE i = 10
    <3>1. code = "EEDM103" /\ x["input-data"] = Missing
      BY <1>2, <2>10, FormChecksFact
    <3> QED
      BY <3>1, MissingFieldFact, MissingExplained
  <2>11. CASE i = 11
    <3>1. code = "EEDM602" /\ x["input-data"] # "multipart/encrypted"
      BY <1>2, <2>11, FormChecksFact DEF Unwrappable
    <3>2. x["input-data"] # Missing
      <4>1. ~FormChecks[10][2]
        BY <1>2, <2>11
      <4> QED
        BY <4>1, FormChecksFact
    <3> QED
      BY <3>1, <3>2, MissingFieldFact DEF Refusal, Explained
  <2>12. CASE i = 12
    <3>1. code = "EEDM108" /\ BadMetadata
      BY <1>2, <2>12, FormChecksFact
    <3> QED
      BY <3>1, MissingFieldFact DEF Refusal, Explained, BadMetadata, Malformed, Given
  <2> QED
    BY <2>1, <2>2, <2>3, <2>4, <2>5, <2>6, <2>7, <2>8, <2>9, <2>10, <2>11, <2>12
<1> QED
  BY <1>1, <1>2, FormChecksFact, FirstFailureFact

(* Steps 3 and 4 of receive: the sender named is the authenticated partner *)
(* and we are the one addressed, or the refusal names a fault. That the    *)
(* version and the selection are there at all is known from the form.      *)
LEMMA IdentityStage ==
  ASSUME FormPassed
  PROVE  \/ FirstFailure(IdentityChecks) = "pass" /\ IdentityPassed
         \/ Refusal(FirstFailure(IdentityChecks))
<1> DEFINE code == FirstFailure(IdentityChecks)
<1>1. /\ DOMAIN IdentityChecks = 1..5
      /\ IdentityChecks[1][1] = "EEDM701"
      /\ IdentityChecks[1][2] = (NormalizeDuns(x["from"]) # DunsOf(partner))
      /\ IdentityChecks[2][1] = "EEDM106"
      /\ IdentityChecks[2][2] = (NormalizeDuns(x["to"]) # NormalizeDuns(Receiver.duns))
      /\ IdentityChecks[3][1] = "EEDM110"
      /\ IdentityChecks[3][2] = (x["version"] # Configured(partner.version, Receiver.version))
      /\ IdentityChecks[4][1] = "EEDM113"
      /\ IdentityChecks[4][2] = (x["receipt-security-selection"] # "pgp-signature")
      /\ IdentityChecks[5][1] = "EEDM119"
      /\ IdentityChecks[5][2] = (partner.useRefnum /\ x["refnum"] = Missing)
  BY DEF IdentityChecks
<1>2. CASE code = "pass" /\ \A i \in 1..5 : ~IdentityChecks[i][2]
  <2>1. ~IdentityChecks[1][2] /\ ~IdentityChecks[2][2]
    BY <1>2
  <2> QED
    BY <1>1, <1>2, <2>1 DEF IdentityPassed
<1>3. ASSUME NEW i \in 1..5, code = IdentityChecks[i][1], IdentityChecks[i][2] PROVE Refusal(code)
  <2>0. x["version"] # Missing /\ x["receipt-security-selection"] # Missing
    BY DEF FormPassed
  <2>1. CASE i = 1 \/ i = 2
    <3>1. code \in {"EEDM701", "EEDM106"}
      BY <1>1, <1>3, <2>1
    <3> QED
      BY <3>1, MissingFieldFact DEF Refusal, Explained
  <2>2. CASE i = 3
    <3>1. code = "EEDM110" /\ x["version"] # Configured(partner.version, Receiver.version)
      BY <1>1, <1>3, <2>2
    <3> QED
      BY <2>0, <3>1, MissingFieldFact DEF Refusal, Explained
  <2>3. CASE i = 4
    <3>1. code = "EEDM113" /\ x["receipt-security-selection"] # "pgp-signature"
      BY <1>1, <1>3, <2>3
    <3> QED
      BY <2>0, <3>1, MissingFieldFact DEF Refusal, Explained
  <2>4. CASE i = 5
    <3>1. code = "EEDM119" /\ x["refnum"] = Missing
      BY <1>1, <1>3, <2>4
    <3> QED
      BY <3>1, MissingFieldFact, MissingExplained
  <2> QED
    BY <2>1, <2>2, <2>3, <2>4
<1> QED
  BY <1>1, <1>2, <1>3, FirstFailureFact

(* Steps 5 and 6: with a required signature the signature is the           *)
(* partner's, and the algorithms are allowed, or the refusal names a       *)
(* fault.                                                                  *)
LEMMA PayloadStage ==
  \/ FirstFailure(PayloadChecks) = "pass" /\ PayloadPassed
  \/ Refusal(FirstFailure(PayloadChecks))
<1> DEFINE code == FirstFailure(PayloadChecks)
<1>1. /\ DOMAIN PayloadChecks = 1..3
      /\ PayloadChecks[1][1] = "EEDM699"
      /\ PayloadChecks[2][1] = "EEDM604"
      /\ PayloadChecks[2][2] = (partner.requireSignature /\ ~SignatureOk)
      /\ PayloadChecks[3][1] = "GWX-WEAK-ALGO"
      /\ PayloadChecks[3][2] = WeakAlgorithm
  BY DEF PayloadChecks
<1>2. CASE code = "pass" /\ \A i \in 1..3 : ~PayloadChecks[i][2]
  <2>1. ~PayloadChecks[2][2] /\ ~PayloadChecks[3][2]
    BY <1>2
  <2> QED
    BY <1>1, <1>2, <2>1 DEF PayloadPassed, SignatureOk, WeakAlgorithm
<1>3. ASSUME NEW i \in 1..3, code = PayloadChecks[i][1], PayloadChecks[i][2] PROVE Refusal(code)
  <2>1. CASE i = 1 \/ i = 3
    <3>1. code \in {"EEDM699", "GWX-WEAK-ALGO"}
      BY <1>1, <1>3, <2>1
    <3> QED
      BY <3>1, MissingFieldFact DEF Refusal, Explained
  <2>2. CASE i = 2
    <3>1. code = "EEDM604" /\ partner.requireSignature /\ x["signed-by"] # partner.key
      BY <1>1, <1>3, <2>2 DEF SignatureOk
    <3> QED
      BY <3>1, MissingFieldFact DEF Refusal, Explained
  <2> QED
    BY <2>1, <2>2
<1> QED
  BY <1>1, <1>2, <1>3, FirstFailureFact

-----------------------------------------------------------------------------
(* The registry: every entry of it is one of the file, an entry whose name *)
(* no other has is in it, and the authenticated one is an entry with the   *)
(* credentials of the request.                                             *)
LEMMA RegistryFact ==
  ASSUME file \in PartnersFiles
  PROVE  /\ DOMAIN Registry \subseteq DOMAIN file /\ DOMAIN file \subseteq Nat
         /\ \A i \in DOMAIN Registry : \E k \in DOMAIN file : Registry[i] = file[k]
         /\ \A i \in DOMAIN file :
              (\A k \in DOMAIN file \ {i} : file[k].name # file[i].name)
                => i \in DOMAIN Registry /\ Registry[i] = file[i]
<1>1. PICK n \in Nat : DOMAIN file = 1..n
  BY TransmissionAssumption
<1> DEFINE Same(i) == {k \in DOMAIN file : file[k].name = file[i].name}
<1> DEFINE firsts == {i \in DOMAIN file : i = Min(Same(i))}
<1>2. Registry = [i \in firsts |-> file[Max(Same(i))]]
  BY DEF Registry
<1>3. ASSUME NEW i \in DOMAIN file PROVE Max(Same(i)) \in Same(i) /\ Min(Same(i)) \in Same(i)
  <2>1. i \in Same(i) /\ Same(i) \subseteq 0..n /\ Same(i) \subseteq Nat
    BY <1>1
  <2> HIDE DEF Same
  <2> QED
    BY <2>1, MinFact, MaxFact
<1>4. \A i \in DOMAIN Registry : \E k \in DOMAIN file : Registry[i] = file[k]
  BY <1>2, <1>3
<1>5. ASSUME NEW i \in DOMAIN file, \A k \in DOMAIN file \ {i} : file[k].name # file[i].name
      PROVE i \in DOMAIN Registry /\ Registry[i] = file[i]
  <2>1. Same(i) = {i}
    BY <1>5
  <2>2. Max(Same(i)) = i /\ Min(Same(i)) = i
    BY <1>3, <2>1
  <2> QED
    BY <1>2, <2>2
<1>6. DOMAIN Registry \subseteq DOMAIN file /\ DOMAIN file \subseteq Nat
  BY <1>1, <1>2
<1> HIDE DEF Same, firsts
<1>7. \A i \in DOMAIN file :
        (\A k \in DOMAIN file \ {i} : file[k].name # file[i].name)
          => i \in DOMAIN Registry /\ Registry[i] = file[i]
  BY <1>5
<1> QED
  BY <1>4, <1>6, <1>7

(* authenticate_inbound answers with an entry of the file that has the     *)
(* credentials of the request.                                             *)
LEMMA AuthenticatedFact ==
  ASSUME file \in PartnersFiles, Authenticated # NoPartner
  PROVE  \E k \in DOMAIN file : Authenticated = file[k] /\ x["auth"] = file[k].auth
<1> DEFINE hits == {i \in DOMAIN Registry : Registry[i].auth = x["auth"]}
<1>1. hits # {} /\ Authenticated = Registry[Min(hits)]
  BY DEF Authenticated
<1>2. Min(hits) \in hits
  <2>1. hits \subseteq Nat
    BY RegistryFact
  <2> HIDE DEF hits
  <2> QED
    BY <1>1, <2>1, MinFact
<1> QED
  BY <1>1, <1>2, RegistryFact

-----------------------------------------------------------------------------
(* The inductive invariant, by what each part is about: the file, the      *)
(* request, the partner, the verdict, two gateways that agree, the         *)
(* response, the outcome.                                                  *)
FileInv ==
  /\ file \in PartnersFiles /\ job \in Jobs
  /\ pc \notin {"load", "refused to start"} => ~DuplicateDuns

Built == {"wire", "parse", "identify", "decrypt", "receipt", "response", "done"}
RequestInv ==
  /\ pc \in {"load", "build"} => odd = {}
  /\ pc \in Built => /\ ~Malformed(job.transactionSet, job.refnum, job.refnumOrig)
                     /\ odd = {} => x = Envelope(job)

Known(P) == \E i \in DOMAIN file : P = file[i] /\ x["auth"] = file[i].auth
PartnerInv ==
  pc \in {"parse", "identify", "decrypt", "receipt"} \/ verdict # "none" => Known(partner)

Judged ==
  \/ verdict = "ok" /\ FormPassed /\ IdentityPassed /\ PayloadPassed
  \/ Refusal(verdict)
VerdictInv ==
  /\ pc \in {"identify", "decrypt"} => FormPassed
  /\ pc = "decrypt" => IdentityPassed
  /\ pc \in {"load", "refused to start", "build", "wire", "parse", "identify", "decrypt"}
       => verdict = "none"
  /\ pc = "receipt" => verdict # "none"
  /\ verdict = "none" \/ Judged

AgreedInv ==
  Agreed /\ odd = {} =>
    /\ pc \in {"parse", "identify", "decrypt"} => SenderIs(partner)
    /\ pc \in {"receipt", "response", "done"} => verdict = "ok"

Issued == SignedMime(ReportPart(ReceiptText), DetachedSign(ReceiptText))
ResponseInv ==
  /\ pc \in {"load", "build", "wire", "parse", "identify", "decrypt", "receipt"} => altered = {}
  /\ pc \in {"response", "done"} /\ verdict = "none" => response = HttpError
  /\ pc \in {"response", "done"} /\ verdict # "none" =>
       /\ DOMAIN response = DOMAIN Issued
       /\ \A f \in DOMAIN Issued :
            response[f] = Issued[f] \/ \E a \in altered : a[1] = f /\ response[f] = a[2]

Believed(r) ==
  /\ r.http = "200"
  /\ Splittable(r)
  /\ Verified(r)
  /\ r.digest \in Sender.digests
  /\ Decodable(r)
OutcomeInv ==
  pc = "done" =>
    outcome = IF Believed(response) THEN ValueOf(response.text, "request-status") ELSE "failed"

Inv ==
  /\ FileInv /\ RequestInv /\ PartnerInv /\ VerdictInv /\ AgreedInv /\ ResponseInv /\ OutcomeInv

-----------------------------------------------------------------------------
(* The text of a receipt has four pairs, whatever it quotes, and its       *)
(* status is the verdict.                                                  *)
LEMMA ReceiptTextFact ==
  /\ DOMAIN ReceiptText = 1..4
  /\ ReceiptText[1][1] = "time-c" /\ ReceiptText[2] = <<"request-status", verdict>>
  /\ ReceiptText[3][1] = "server-id" /\ ReceiptText[4][1] = "trans-id"
  BY DEF ReceiptText, Sanitized

(* _parse_fields reads the verdict out of the text _fields_text wrote.     *)
LEMMA StatusFact == ValueOf(ReceiptText, "request-status") = verdict
<1> DEFINE S == {i \in DOMAIN ReceiptText : ReceiptText[i][1] = "request-status"}
<1>1. S = {2}
  BY ReceiptTextFact
<1>2. Max(S) \in S
  <2>1. S \subseteq 0..4 /\ S # {}
    BY <1>1
  <2> HIDE DEF S
  <2> QED
    BY <2>1, MaxFact
<1>3. Max(S) = 2
  BY <1>1, <1>2
<1> QED
  BY <1>3, ReceiptTextFact DEF ValueOf

(* The fields of the response as _signed_receipt issues it.                *)
LEMMA IssuedFact ==
  /\ DOMAIN Issued = {"http", "parts", "boundary", "text", "plain", "kind", "signedText",
                      "signedBy", "digest"}
  /\ Issued.http = "200" /\ Issued.parts = "report and signature"
  /\ Issued.boundary = "in header" /\ Issued.plain = "text/plain"
  /\ Issued.text = ReceiptText /\ Issued.kind = "detached"
  /\ Issued.signedText = ReceiptText /\ Issued.signedBy = Receiver.key
  /\ Issued.digest = Receiver.digest
<1> HIDE DEF ReceiptText
<1> QED
  BY DEF Issued, SignedMime, ReportPart, DetachedSign

(* What the code tolerates, field by field.                                *)
LEMMA ToleratedFact ==
  ASSUME NEW a \in Tolerated
  PROVE  \/ a[1] = "boundary" /\ a[2] = "in body"
         \/ a[1] = "kind" /\ a[2] = "inline"
<1>1. a = <<"boundary", "in body">> \/ a = <<"kind", "inline">>
  BY Zenon DEF Tolerated
<1>2. CASE a = <<"boundary", "in body">>
  BY <1>2
<1>3. CASE a = <<"kind", "inline">>
  BY <1>3
<1> QED
  BY <1>1, <1>2, <1>3

(* A receipt that arrives as it was issued, but for what the code          *)
(* tolerates, is believed and says the verdict.                            *)
LEMMA IssuedIsBelieved ==
  ASSUME Sender.peerKey = Receiver.key, Receiver.digest \in Sender.digests,
         altered \subseteq Tolerated, DOMAIN response = DOMAIN Issued,
         \A f \in DOMAIN Issued :
           response[f] = Issued[f] \/ \E a \in altered : a[1] = f /\ response[f] = a[2]
  PROVE  Believed(response) /\ ValueOf(response.text, "request-status") = verdict
<1>1. ASSUME NEW f \in DOMAIN Issued \ {"boundary", "kind"} PROVE response[f] = Issued[f]
  BY <1>1, ToleratedFact, ZenonT(30)
<1>2. /\ response.http = "200" /\ response.parts = "report and signature"
      /\ response.text = ReceiptText /\ response.plain = "text/plain"
      /\ response.signedText = ReceiptText
      /\ response.signedBy = Receiver.key /\ response.digest = Receiver.digest
  <2> HIDE DEF Issued, ReceiptText
  <2>1. {"http", "parts", "text", "plain", "signedText", "signedBy", "digest"}
          \subseteq DOMAIN Issued \ {"boundary", "kind"}
    BY IssuedFact
  <2> QED
    BY <1>1, <2>1, IssuedFact
<1>3. response.boundary \in {"in header", "in body"}
  BY IssuedFact, ToleratedFact, ZenonT(60)
<1>4. response.kind \in {"detached", "inline"}
  <2>1. "kind" \in DOMAIN Issued /\ Issued.kind = "detached"
    BY IssuedFact
  <2>2. ASSUME NEW a \in altered, a[1] = "kind" PROVE a[2] = "inline"
    BY <2>2, ToleratedFact
  <2> QED
    BY <2>1, <2>2
<1>5. Splittable(response)
  BY <1>2, <1>3 DEF Splittable, BoundaryFound
<1>6. Verified(response)
  BY <1>2, <1>4 DEF Verified, DetachedVerifies, InlineVerifies
<1>7. Decodable(response)
  <2> SUFFICES ASSUME NEW key \in {"time-c", "request-status", "server-id", "trans-id"}
               PROVE  \E i \in DOMAIN response.text : response.text[i][1] = key
    BY <1>2 DEF Decodable
  <2>1. \E i \in DOMAIN ReceiptText : ReceiptText[i][1] = key
    BY ReceiptTextFact
  <2> QED
    BY <1>2, <2>1
<1> QED
  BY <1>2, <1>5, <1>6, <1>7, StatusFact DEF Believed

-----------------------------------------------------------------------------
(* Two gateways that have agreed: the request is the sender's own.         *)
(* The fields of the request as build_multipart_body writes them.          *)
LEMMA EnvelopeFact ==
  /\ Envelope(job)["auth"] = Sender.auth /\ Envelope(job)["form"] = "readable"
  /\ Envelope(job)["size"] = "fits"
  /\ Envelope(job)["from"] = NormalizeDuns(Sender.duns)
  /\ Envelope(job)["receipt-disposition-to"] = NormalizeDuns(Sender.duns)
  /\ Envelope(job)["to"] = NormalizeDuns(job.to)
  /\ Envelope(job)["version"] = job.version
  /\ Envelope(job)["receipt-report-type"] = "gisb-acknowledgement-receipt"
  /\ Envelope(job)["input-format"] = "X12"
  /\ Envelope(job)["input-data"] = "multipart/encrypted"
  /\ Envelope(job)["receipt-security-selection"] = Sender.selection
  /\ Envelope(job)["transaction-set"] = Optional(job.transactionSet)
  /\ Envelope(job)["refnum"] = Optional(job.refnum)
  /\ Envelope(job)["refnum-orig"] = Optional(job.refnumOrig)
  /\ Envelope(job)["recipient"] = Sender.peerKey /\ Envelope(job)["signed-by"] = Sender.key
  /\ Envelope(job)["cipher"] = Sender.cipher /\ Envelope(job)["digest"] = Sender.digest
<1> DEFINE D == {"size", "auth", "form"} \cup Form \cup Ciphertext
<1>1. Envelope(job) =
        [f \in D |->
           CASE f = "size" -> "fits" [] f = "auth" -> Sender.auth [] f = "form" -> "readable"
             [] f \in Form -> EnvelopeField(job, f)
             [] f \in Ciphertext -> EncryptAndSign(f)]
  BY DEF Envelope
<1>2. ASSUME NEW f \in Form PROVE Envelope(job)[f] = EnvelopeField(job, f)
  <2>1. f \notin {"size", "auth", "form"} \cup Ciphertext
    BY DEF Form, Ciphertext
  <2> QED
    BY <1>1, <2>1
<1>3. ASSUME NEW f \in Ciphertext PROVE Envelope(job)[f] = EncryptAndSign(f)
  <2>1. f \notin {"size", "auth", "form"} \cup Form
    BY DEF Form, Ciphertext
  <2> QED
    BY <1>1, <2>1
<1>4. /\ Envelope(job)["auth"] = Sender.auth /\ Envelope(job)["form"] = "readable"
      /\ Envelope(job)["size"] = "fits"
  BY <1>1 DEF Form, Ciphertext
<1>5. /\ Envelope(job)["recipient"] = Sender.peerKey /\ Envelope(job)["signed-by"] = Sender.key
      /\ Envelope(job)["cipher"] = Sender.cipher /\ Envelope(job)["digest"] = Sender.digest
  BY <1>3 DEF Ciphertext, EncryptAndSign
<1> QED
  BY <1>2, <1>4, <1>5 DEF Form, EnvelopeField

(* An agreed sender's credentials are found in the registry, and they are  *)
(* its own entry's: its name and its secret are nobody else's.             *)
LEMMA AgreedAuthenticates ==
  ASSUME file \in PartnersFiles, Agreed, x["auth"] = Sender.auth
  PROVE  Authenticated # NoPartner /\ SenderIs(Authenticated)
<1>1. PICK i \in DOMAIN file :
        /\ SenderIs(file[i])
        /\ \A k \in DOMAIN file \ {i} :
             file[k].name # file[i].name /\ file[k].auth # Sender.auth
  BY DEF Agreed
<1> DEFINE hits == {k \in DOMAIN Registry : Registry[k].auth = x["auth"]}
<1>2. i \in hits
  BY <1>1, RegistryFact DEF SenderIs
<1>3. Authenticated = Registry[Min(hits)]
  BY <1>2 DEF Authenticated
<1>4. Min(hits) \in hits
  <2>1. hits \subseteq Nat /\ hits # {}
    BY <1>2, RegistryFact
  <2> HIDE DEF hits
  <2> QED
    BY <2>1, MinFact
<1>5. PICK k \in DOMAIN file : Registry[Min(hits)] = file[k]
  BY <1>4, RegistryFact
<1>6. file[k].auth = Sender.auth
  BY <1>4, <1>5
<1>7. k = i
  BY <1>1, <1>6
<1>8. file[i] # NoPartner
  BY TransmissionAssumption
<1> QED
  BY <1>1, <1>3, <1>5, <1>7, <1>8

(* Padding a DUNS twice is padding it once.                                *)
LEMMA NormalFact ==
  ASSUME NEW d
  PROVE  NormalizeDuns(NormalizeDuns(d)) = NormalizeDuns(d) /\ NormalizeDuns(d) = TheDuns(d)
  BY TransmissionAssumption DEF NormalizeDuns, TheDuns

(* The form of an agreed sender passes all twelve checks.                  *)
LEMMA AgreedFormPasses ==
  ASSUME job \in Jobs, ~Malformed(job.transactionSet, job.refnum, job.refnumOrig), Agreed,
         x = Envelope(job)
  PROVE  FirstFailure(FormChecks) = "pass"
<1>1. NormalizeDuns(Sender.duns) # Missing /\ NormalizeDuns(job.to) # Missing /\ job.version # Missing
  BY TransmissionAssumption
<1>2. Sender.selection = "pgp-signature"
  BY DEF Agreed
<1>3. ~BadMetadata
  BY EnvelopeFact DEF BadMetadata, Malformed, Given, Optional, Missing
<1> HIDE DEF Missing
<1>4. Missing = "missing"
  BY DEF Missing
<1>5. /\ ~FormChecks[1][2] /\ ~FormChecks[2][2] /\ ~FormChecks[3][2]
      /\ ~FormChecks[4][2] /\ ~FormChecks[5][2] /\ ~FormChecks[6][2]
  BY <1>1, <1>4, EnvelopeFact, FormChecksFact
<1>6. /\ ~FormChecks[7][2] /\ ~FormChecks[8][2] /\ ~FormChecks[9][2]
      /\ ~FormChecks[10][2] /\ ~FormChecks[11][2] /\ ~FormChecks[12][2]
  BY <1>2, <1>3, <1>4, EnvelopeFact, FormChecksFact DEF Unwrappable
<1>7. \A i \in 1..12 : ~FormChecks[i][2]
  BY <1>5, <1>6
<1>8. DOMAIN FormChecks = 1..12
  BY FormChecksFact
<1> QED
  BY <1>7, <1>8, FirstFailureFact

(* ... and it passes the checks of its identity, however many zeros its    *)
(* DUNS is written with,                                                   *)
LEMMA AgreedIdentityPasses ==
  ASSUME ~Malformed(job.transactionSet, job.refnum, job.refnumOrig), Agreed,
         x = Envelope(job), SenderIs(partner)
  PROVE  FirstFailure(IdentityChecks) = "pass"
<1>1. /\ DOMAIN IdentityChecks = 1..5
      /\ IdentityChecks[1][2] = (NormalizeDuns(x["from"]) # DunsOf(partner))
      /\ IdentityChecks[2][2] = (NormalizeDuns(x["to"]) # NormalizeDuns(Receiver.duns))
      /\ IdentityChecks[3][2] = (x["version"] # Configured(partner.version, Receiver.version))
      /\ IdentityChecks[4][2] = (x["receipt-security-selection"] # "pgp-signature")
      /\ IdentityChecks[5][2] = (partner.useRefnum /\ x["refnum"] = Missing)
  BY DEF IdentityChecks
<1>2. NormalizeDuns(x["from"]) = DunsOf(partner)
  BY EnvelopeFact, NormalFact DEF DunsOf, SenderIs
<1>3. NormalizeDuns(x["to"]) = NormalizeDuns(Receiver.duns)
  BY EnvelopeFact, NormalFact DEF Agreed
<1>4. /\ x["version"] = Configured(partner.version, Receiver.version)
      /\ x["receipt-security-selection"] = "pgp-signature"
      /\ ~(partner.useRefnum /\ x["refnum"] = Missing)
  <2>1. partner.useRefnum => job.refnum # "none"
    BY DEF SenderIs
  <2>2. job.version = Configured(partner.version, Receiver.version) /\ Sender.selection = "pgp-signature"
    BY DEF SenderIs, Agreed
  <2>3. x["refnum"] = Optional(job.refnum) /\ "none" # "missing"
    BY EnvelopeFact
  <2>4. CASE job.refnum = "none"
    BY <2>1, <2>2, <2>4, EnvelopeFact
  <2>5. CASE job.refnum = "digits"
    <3>1. x["refnum"] # Missing
      BY <2>3, <2>5 DEF Optional, Missing
    <3> QED
      BY <2>2, <3>1, EnvelopeFact
  <2> QED
    BY <2>4, <2>5 DEF Malformed
<1>5. \A i \in 1..5 : ~IdentityChecks[i][2]
  <2>1. ~IdentityChecks[1][2] /\ ~IdentityChecks[2][2] /\ ~IdentityChecks[3][2]
    BY <1>1, <1>2, <1>3, <1>4
  <2>2. ~IdentityChecks[4][2] /\ ~IdentityChecks[5][2]
    BY <1>1, <1>4
  <2> QED
    BY <2>1, <2>2
<1> QED
  BY <1>1, <1>5, FirstFailureFact

(* ... and of its payload.                                                 *)
LEMMA AgreedPayloadPasses ==
  ASSUME Agreed, x = Envelope(job), SenderIs(partner)
  PROVE  FirstFailure(PayloadChecks) = "pass"
<1>1. /\ DOMAIN PayloadChecks = 1..3
      /\ PayloadChecks[1][2] = (~Decryptable)
      /\ PayloadChecks[2][2] = (partner.requireSignature /\ ~SignatureOk)
      /\ PayloadChecks[3][2] = WeakAlgorithm
  BY DEF PayloadChecks
<1>2. Decryptable /\ SignatureOk /\ ~WeakAlgorithm
  BY EnvelopeFact DEF Agreed, SenderIs, Decryptable, SignatureOk, WeakAlgorithm
<1>3. \A i \in 1..3 : ~PayloadChecks[i][2]
  <2>1. ~PayloadChecks[1][2]
    BY <1>1, <1>2
  <2>2. ~PayloadChecks[2][2]
    BY <1>1, <1>2
  <2>3. ~PayloadChecks[3][2]
    BY <1>1, <1>2
  <2> QED
    BY <2>1, <2>2, <2>3
<1> QED
  BY <1>1, <1>3, FirstFailureFact

-----------------------------------------------------------------------------
(* The parts of the invariant are kept by every step. *)
LEMMA InitInv == Init => Inv
  BY DEF Init, Inv, FileInv, RequestInv, PartnerInv, VerdictInv, AgreedInv, ResponseInv,
         OutcomeInv, Built

(* The files stay as they are, and past the start no DUNS is there twice.  *)
LEMMA FileStep == FileInv /\ [Next]_vars => FileInv'
<1> SUFFICES ASSUME FileInv, [Next]_vars PROVE FileInv'
  OBVIOUS
<1>1. file' = file /\ job' = job
  BY DEF Next, vars, LoadPartners, BuildRequest, ForeignSender, Authenticate, ParseForm,
         CheckIdentity, DecryptAndVerify, Check, IssueReceipt, Alter, ReadResponse
<1>2. DuplicateDuns' = DuplicateDuns
  BY <1>1 DEF DuplicateDuns, DunsOf
<1>3. pc \in {"load", "refused to start"} =>
        pc' \in {"load", "refused to start"} \/ ~DuplicateDuns
  BY DEF Next, vars, LoadPartners, BuildRequest, ForeignSender, Authenticate, ParseForm,
         CheckIdentity, DecryptAndVerify, Check, IssueReceipt, Alter, ReadResponse
<1> QED
  BY <1>1, <1>2, <1>3 DEF FileInv

(* A request that nobody touched is the envelope of the job.               *)
LEMMA RequestStep == RequestInv /\ [Next]_vars => RequestInv'
<1> SUFFICES ASSUME RequestInv, [Next]_vars PROVE RequestInv'
  OBVIOUS
<1>1. job' = job
  BY DEF Next, vars, LoadPartners, BuildRequest, ForeignSender, Authenticate, ParseForm,
         CheckIdentity, DecryptAndVerify, Check, IssueReceipt, Alter, ReadResponse
<1>2. /\ Malformed(job.transactionSet, job.refnum, job.refnumOrig)'
           = Malformed(job.transactionSet, job.refnum, job.refnumOrig)
      /\ Envelope(job)' = Envelope(job)
  BY <1>1 DEF Malformed, Envelope, EnvelopeField, Optional
<1>3. CASE LoadPartners
  BY <1>2, <1>3 DEF RequestInv, LoadPartners, Built
<1>4. CASE BuildRequest
  BY <1>2, <1>4 DEF RequestInv, BuildRequest, Built
<1>5. ASSUME NEW o \in Oddities, ForeignSender(o) PROVE RequestInv'
  BY <1>2, <1>5 DEF RequestInv, ForeignSender, Built
<1>6. CASE Authenticate \/ ParseForm \/ CheckIdentity \/ DecryptAndVerify \/ IssueReceipt
           \/ ReadResponse \/ \E a \in Alterations : Alter(a)
  <2>1. pc \in Built /\ pc' \in Built /\ x' = x /\ odd' = odd
    BY <1>6 DEF Authenticate, ParseForm, CheckIdentity, DecryptAndVerify, Check, IssueReceipt,
                Alter, ReadResponse, Built
  <2> QED
    BY <1>2, <2>1 DEF RequestInv, Built
<1>7. CASE UNCHANGED vars
  BY <1>2, <1>7 DEF RequestInv, vars
<1> QED
  BY <1>3, <1>4, <1>5, <1>6, <1>7 DEF Next

(* From authentication on the partner is an entry of the file with the     *)
(* credentials of the request; neither changes any more.                   *)
LEMMA PartnerStep == FileInv /\ VerdictInv /\ PartnerInv /\ [Next]_vars => PartnerInv'
<1> SUFFICES ASSUME FileInv, VerdictInv, PartnerInv, [Next]_vars PROVE PartnerInv'
  OBVIOUS
<1>1. CASE LoadPartners \/ BuildRequest \/ \E o \in Oddities : ForeignSender(o)
  <2>1. verdict' = "none" /\ pc' \in {"refused to start", "build", "worker died", "wire"}
    BY <1>1 DEF LoadPartners, BuildRequest, ForeignSender, VerdictInv
  <2> QED
    BY <2>1 DEF PartnerInv
<1>2. CASE Authenticate
  <2>1. CASE partner' = NoPartner
    BY <1>2, <2>1 DEF Authenticate, PartnerInv, VerdictInv
  <2>2. CASE partner' # NoPartner
    <3>1. partner' = Authenticated /\ file' = file /\ x' = x
      BY <1>2, <2>2 DEF Authenticate
    <3>2. Known(partner')
      BY <2>2, <3>1, AuthenticatedFact DEF FileInv, Known
    <3> QED
      BY <3>1, <3>2 DEF PartnerInv, Known
  <2> QED
    BY <2>1, <2>2
<1>3. CASE ParseForm \/ CheckIdentity \/ DecryptAndVerify \/ IssueReceipt
           \/ ReadResponse \/ (\E a \in Alterations : Alter(a)) \/ UNCHANGED vars
  <2>1. /\ pc' \in {"parse", "identify", "decrypt", "receipt"} \/ verdict' # "none" =>
             pc \in {"parse", "identify", "decrypt", "receipt"} \/ verdict # "none"
        /\ file' = file /\ x' = x /\ partner' = partner
    BY <1>3 DEF ParseForm, CheckIdentity, DecryptAndVerify, Check, IssueReceipt,
                Alter, ReadResponse, vars
  <2> QED
    BY <2>1 DEF PartnerInv, Known
<1> QED
  BY <1>1, <1>2, <1>3 DEF Next

(* What the stages passed so far have established, and that a verdict is   *)
(* either an acceptance after all of them or a refusal that is explained.  *)
LEMMA VerdictStep == VerdictInv /\ [Next]_vars => VerdictInv'
<1> SUFFICES ASSUME VerdictInv, [Next]_vars PROVE VerdictInv'
  OBVIOUS
<1>1. CASE LoadPartners \/ BuildRequest \/ (\E o \in Oddities : ForeignSender(o)) \/ Authenticate
  <2>1. /\ verdict' = "none"
        /\ pc' \in {"refused to start", "build", "worker died", "wire", "parse", "response"}
    BY <1>1 DEF LoadPartners, BuildRequest, ForeignSender, Authenticate, VerdictInv
  <2> QED
    BY <2>1 DEF VerdictInv
<1>2. ASSUME x' = x, partner' = partner
      PROVE  /\ FormPassed' = FormPassed /\ IdentityPassed' = IdentityPassed
             /\ PayloadPassed' = PayloadPassed
             /\ Refusal(verdict)' = Refusal(verdict')
  BY <1>2 DEF FormPassed, IdentityPassed, PayloadPassed, DunsOf, Refusal, Explained
<1>3. ASSUME NEW c, Refusal(c) PROVE c \notin {"none", "ok", "pass"}
  BY <1>3 DEF Refusal
<1>4. CASE ParseForm
  <2> DEFINE code == FirstFailure(FormChecks)
  <2>1. /\ pc = "parse" /\ x' = x /\ partner' = partner
        /\ IF code = "pass" THEN pc' = "identify" /\ verdict' = verdict
                            ELSE pc' = "receipt" /\ verdict' = code
    BY <1>4 DEF ParseForm, Check
  <2> HIDE DEF code
  <2>2. (code = "pass" /\ FormPassed) \/ Refusal(code)
    BY FormStage DEF code
  <2> QED
    BY <1>2, <1>3, <2>1, <2>2 DEF VerdictInv, Judged
<1>5. CASE CheckIdentity
  <2> DEFINE code == FirstFailure(IdentityChecks)
  <2>1. /\ pc = "identify" /\ x' = x /\ partner' = partner
        /\ IF code = "pass" THEN pc' = "decrypt" /\ verdict' = verdict
                            ELSE pc' = "receipt" /\ verdict' = code
    BY <1>5 DEF CheckIdentity, Check
  <2> HIDE DEF code
  <2>2. FormPassed
    BY <2>1 DEF VerdictInv
  <2>3. (code = "pass" /\ IdentityPassed) \/ Refusal(code)
    BY <2>2, IdentityStage DEF code
  <2> QED
    BY <1>2, <1>3, <2>1, <2>2, <2>3 DEF VerdictInv, Judged
<1>6. CASE DecryptAndVerify
  <2> DEFINE code == FirstFailure(PayloadChecks)
  <2>1. /\ pc = "decrypt" /\ x' = x /\ partner' = partner /\ pc' = "receipt"
        /\ verdict' = IF code = "pass" THEN "ok" ELSE code
    BY <1>6 DEF DecryptAndVerify, Check
  <2> HIDE DEF code
  <2>2. FormPassed /\ IdentityPassed
    BY <2>1 DEF VerdictInv
  <2>3. (code = "pass" /\ PayloadPassed) \/ Refusal(code)
    BY PayloadStage DEF code
  <2> QED
    BY <1>2, <1>3, <2>1, <2>2, <2>3 DEF VerdictInv, Judged
<1>7. CASE IssueReceipt \/ ReadResponse \/ (\E a \in Alterations : Alter(a)) \/ UNCHANGED vars
  <2>1. /\ x' = x /\ partner' = partner /\ verdict' = verdict
        /\ pc' = pc \/ pc' \in {"response", "done"}
    BY <1>7 DEF IssueReceipt, ReadResponse, Alter, vars
  <2> QED
    BY <1>2, <2>1 DEF VerdictInv, Judged
<1> QED
  BY <1>1, <1>4, <1>5, <1>6, <1>7 DEF Next

(* No stage stops the request of an agreed sender.                         *)
LEMMA AgreedStep ==
  FileInv /\ RequestInv /\ VerdictInv /\ AgreedInv /\ [Next]_vars => AgreedInv'
<1> SUFFICES ASSUME FileInv, RequestInv, VerdictInv, AgreedInv, [Next]_vars,
                    Agreed', odd' = {}
             PROVE  /\ pc' \in {"parse", "identify", "decrypt"} => SenderIs(partner)'
                    /\ pc' \in {"receipt", "response", "done"} => verdict' = "ok"
  BY DEF AgreedInv
<1>0. file' = file /\ job' = job
  BY DEF Next, vars, LoadPartners, BuildRequest, ForeignSender, Authenticate, ParseForm,
         CheckIdentity, DecryptAndVerify, Check, IssueReceipt, Alter, ReadResponse
<1>1. Agreed
  BY <1>0 DEF Agreed, SenderIs
<1>2. SenderIs(partner)' = SenderIs(partner')
  BY <1>0 DEF SenderIs
<1>3. CASE LoadPartners \/ BuildRequest \/ \E o \in Oddities : ForeignSender(o)
  BY <1>3 DEF LoadPartners, BuildRequest, ForeignSender
<1>4. CASE Authenticate
  <2>1. pc = "wire" /\ odd = {}
    BY <1>4 DEF Authenticate
  <2>2. x = Envelope(job)
    BY <2>1 DEF RequestInv, Built
  <2>3. Authenticated # NoPartner /\ SenderIs(Authenticated)
    BY <1>1, <2>2, EnvelopeFact, AgreedAuthenticates DEF FileInv
  <2>4. x["size"] # "large"
    BY <2>2, EnvelopeFact
  <2>5. partner' = Authenticated /\ pc' = "parse"
    BY <1>4, <2>3, <2>4 DEF Authenticate
  <2> QED
    BY <1>2, <2>3, <2>5
<1>5. CASE ParseForm
  <2>1. pc = "parse" /\ odd = {} /\ partner' = partner
    BY <1>5 DEF ParseForm, Check
  <2>2. /\ x = Envelope(job) /\ job \in Jobs
        /\ ~Malformed(job.transactionSet, job.refnum, job.refnumOrig)
    BY <2>1 DEF RequestInv, Built, FileInv
  <2>3. FirstFailure(FormChecks) = "pass"
    BY <1>1, <2>2, AgreedFormPasses
  <2>4. pc' = "identify" /\ SenderIs(partner)
    BY <1>1, <1>5, <2>1, <2>3 DEF ParseForm, Check, AgreedInv
  <2> QED
    BY <1>2, <2>1, <2>4
<1>6. CASE CheckIdentity
  <2>1. pc = "identify" /\ odd = {} /\ partner' = partner
    BY <1>6 DEF CheckIdentity, Check
  <2>2. x = Envelope(job) /\ ~Malformed(job.transactionSet, job.refnum, job.refnumOrig)
    BY <2>1 DEF RequestInv, Built
  <2>3. SenderIs(partner)
    BY <1>1, <2>1 DEF AgreedInv
  <2>4. FirstFailure(IdentityChecks) = "pass"
    BY <1>1, <2>2, <2>3, AgreedIdentityPasses
  <2>5. pc' = "decrypt"
    BY <1>6, <2>4 DEF CheckIdentity, Check
  <2> QED
    BY <1>2, <2>1, <2>3, <2>5
<1>7. CASE DecryptAndVerify
  <2>1. pc = "decrypt" /\ odd = {} /\ partner' = partner
    BY <1>7 DEF DecryptAndVerify, Check
  <2>2. x = Envelope(job)
    BY <2>1 DEF RequestInv, Built
  <2>3. SenderIs(partner)
    BY <1>1, <2>1 DEF AgreedInv
  <2>4. FirstFailure(PayloadChecks) = "pass"
    BY <1>1, <2>2, <2>3, AgreedPayloadPasses
  <2>5. pc' = "receipt" /\ verdict' = "ok"
    BY <1>7, <2>4 DEF DecryptAndVerify, Check
  <2> QED
    BY <2>5
<1>8. CASE IssueReceipt \/ ReadResponse \/ (\E a \in Alterations : Alter(a)) \/ UNCHANGED vars
  <2>1. /\ odd' = odd /\ partner' = partner /\ verdict' = verdict
        /\ \/ pc' = pc
           \/ pc \in {"receipt", "response"} /\ pc' \in {"response", "done"}
    BY <1>8 DEF IssueReceipt, ReadResponse, Alter, vars
  <2> QED
    BY <1>1, <1>2, <2>1 DEF AgreedInv
<1> QED
  BY <1>3, <1>4, <1>5, <1>6, <1>7, <1>8 DEF Next

(* Each field of the response is the issued one or the one an alteration   *)
(* put there.                                                              *)
LEMMA ResponseStep == VerdictInv /\ ResponseInv /\ [Next]_vars => ResponseInv'
<1> SUFFICES ASSUME VerdictInv, ResponseInv, [Next]_vars PROVE ResponseInv'
  OBVIOUS
<1>1. ASSUME verdict' = verdict PROVE Issued' = Issued
  BY <1>1 DEF Issued, SignedMime, ReportPart, DetachedSign, ReceiptText, Sanitized
<1>2. CASE LoadPartners \/ BuildRequest \/ (\E o \in Oddities : ForeignSender(o))
           \/ ParseForm \/ CheckIdentity \/ DecryptAndVerify
  <2>1. /\ pc \in {"load", "build", "wire", "parse", "identify", "decrypt"}
        /\ pc' \notin {"response", "done"} /\ altered' = altered
    BY <1>2 DEF LoadPartners, BuildRequest, ForeignSender, ParseForm, CheckIdentity,
                DecryptAndVerify, Check
  <2> QED
    BY <2>1 DEF ResponseInv
<1>3. CASE Authenticate
  <2>1. /\ altered' = {} /\ verdict' = "none"
        /\ pc' = "parse" \/ (pc' = "response" /\ response' = HttpError)
    BY <1>3 DEF Authenticate, ResponseInv, VerdictInv
  <2> QED
    BY <2>1 DEF ResponseInv
<1>4. CASE IssueReceipt
  <2>1. verdict' = verdict /\ verdict # "none" /\ pc' = "response" /\ response' = Issued
    BY <1>4 DEF IssueReceipt, Issued, VerdictInv
  <2>2. response' = Issued'
    BY <1>1, <2>1
  <2> HIDE DEF Issued
  <2> QED
    BY <2>1, <2>2 DEF ResponseInv
<1>5. ASSUME NEW a \in Alterations, Alter(a) PROVE ResponseInv'
  <2>1. /\ pc = "response" /\ pc' = pc /\ verdict' = verdict
        /\ response # HttpError
        /\ response' = [response EXCEPT ![a[1]] = a[2]] /\ altered' = altered \cup {a}
    BY <1>5 DEF Alter
  <2>2. /\ verdict # "none"
        /\ DOMAIN response = DOMAIN Issued
        /\ \A f \in DOMAIN Issued :
             response[f] = Issued[f] \/ \E b \in altered : b[1] = f /\ response[f] = b[2]
    BY <2>1 DEF ResponseInv
  <2>3. ASSUME NEW f \in DOMAIN Issued
        PROVE  response'[f] = Issued[f] \/ \E b \in altered' : b[1] = f /\ response'[f] = b[2]
    <3> HIDE DEF Issued
    <3>1. CASE f = a[1]
      <4>1. response'[f] = a[2] /\ a \in altered'
        BY <2>1, <2>2, <3>1
      <4> QED
        BY <3>1, <4>1
    <3>2. CASE f # a[1]
      <4>1. response'[f] = response[f] /\ altered \subseteq altered'
        BY <2>1, <2>2, <3>2
      <4> QED
        BY <2>2, <4>1
    <3> QED
      BY <3>1, <3>2
  <2>4. DOMAIN response' = DOMAIN response
    BY <2>1
  <2>5. Issued' = Issued
    BY <1>1, <2>1
  <2> HIDE DEF Issued
  <2> QED
    BY <2>1, <2>2, <2>3, <2>4, <2>5 DEF ResponseInv
<1>6. CASE ReadResponse \/ UNCHANGED vars
  <2>1. /\ verdict' = verdict /\ response' = response /\ altered' = altered
        /\ pc' = pc \/ (pc = "response" /\ pc' = "done")
    BY <1>6 DEF ReadResponse, vars
  <2>2. Issued' = Issued
    BY <1>1, <2>1
  <2> HIDE DEF Issued
  <2> QED
    BY <2>1, <2>2 DEF ResponseInv
<1> QED
  BY <1>2, <1>3, <1>4, <1>5, <1>6 DEF Next

(* The outcome is what the response says, if it is believed.               *)
LEMMA OutcomeStep == OutcomeInv /\ [Next]_vars => OutcomeInv'
<1> SUFFICES ASSUME OutcomeInv, [Next]_vars, pc' = "done"
             PROVE  outcome' = IF Believed(response') THEN ValueOf(response'.text, "request-status")
                                                      ELSE "failed"
  BY DEF OutcomeInv, Believed, Splittable, BoundaryFound, Verified, DetachedVerifies,
         InlineVerifies, Decodable, ValueOf
<1>1. CASE ReadResponse
  BY <1>1 DEF ReadResponse, Believed
<1>2. CASE UNCHANGED vars
  BY <1>2 DEF OutcomeInv, vars
<1>3. ReadResponse \/ UNCHANGED vars
  BY DEF Next, LoadPartners, BuildRequest, ForeignSender, Authenticate, ParseForm,
         CheckIdentity, DecryptAndVerify, Check, IssueReceipt, Alter
<1> QED
  BY <1>1, <1>2, <1>3

(* Every reachable state satisfies the invariant.                          *)
THEOREM Invariance == Spec => []Inv
<1>1. Init => Inv
  BY InitInv
<1>2. Inv /\ [Next]_vars => Inv'
  BY FileStep, RequestStep, PartnerStep, VerdictStep, AgreedStep, ResponseStep, OutcomeStep
  DEF Inv
<1> QED
  BY <1>1, <1>2, PTL DEF Spec

-----------------------------------------------------------------------------
(* What follows from the invariant. *)
(* An acceptance is attributed: the DUNS it came in the name of is that of *)
(* the entry whose credentials it had, and load_partners has seen to it    *)
(* that no other entry has that DUNS.                                      *)
LEMMA AttributedFact == Inv => AcceptedIsAttributed
<1> SUFFICES ASSUME Inv, verdict = "ok" PROVE AcceptedIsAttributed
  BY DEF AcceptedIsAttributed
<1>1. FormPassed /\ IdentityPassed /\ PayloadPassed
  BY DEF Inv, VerdictInv, Judged, Refusal
<1>2. PICK i \in DOMAIN file : partner = file[i] /\ x["auth"] = file[i].auth
  BY DEF Inv, PartnerInv, Known
<1>3. ~DuplicateDuns
  BY DEF Inv, FileInv, VerdictInv
<1>4. ASSUME NEW d PROVE NormalizeDuns(d) = TheDuns(d)
  BY NormalFact
<1>5. \A k \in DOMAIN file : TheDuns(x["from"]) = TheDuns(file[k].duns) <=> k = i
  <2>1. TheDuns(x["from"]) = TheDuns(file[i].duns)
    BY <1>1, <1>2, <1>4 DEF IdentityPassed, DunsOf
  <2>2. ASSUME NEW k \in DOMAIN file, k # i PROVE TheDuns(file[k].duns) # TheDuns(file[i].duns)
    BY <1>3, <1>4, <2>2 DEF DuplicateDuns, DunsOf
  <2> QED
    BY <2>1, <2>2
<1>6. TheDuns(x["to"]) = TheDuns(Receiver.duns)
  BY <1>1, <1>4 DEF IdentityPassed
<1> QED
  BY <1>1, <1>2, <1>5, <1>6 DEF AcceptedIsAttributed, PayloadPassed

(* A refusal names a fault.                                                *)
LEMMA FaultFact == Inv => RefusalNamesAFault
<1> SUFFICES ASSUME VerdictInv PROVE Explained(verdict)
  BY DEF Inv, RefusalNamesAFault, Explained
<1>1. CASE verdict \in {"none", "ok"}
  BY <1>1, MissingFieldFact DEF Explained
<1>2. CASE Refusal(verdict)
  BY <1>2 DEF Refusal
<1> QED
  BY <1>1, <1>2 DEF VerdictInv, Judged

(* A receipt that is unusual only in ways the code tolerates is            *)
(* understood.                                                             *)
LEMMA OutcomeFact ==
  ASSUME Inv, pc = "done", response # HttpError, altered \subseteq Tolerated,
         Sender.peerKey = Receiver.key, Receiver.digest \in Sender.digests
  PROVE  outcome = verdict
<1>1. /\ DOMAIN response = DOMAIN Issued
      /\ \A f \in DOMAIN Issued :
           response[f] = Issued[f] \/ \E a \in altered : a[1] = f /\ response[f] = a[2]
  BY DEF Inv, ResponseInv
<1>2. Believed(response) /\ ValueOf(response.text, "request-status") = verdict
  <2> HIDE DEF Issued
  <2> QED
    BY <1>1, IssuedIsBelieved
<1> QED
  BY <1>2 DEF Inv, OutcomeInv

(* Two gateways that have agreed understand each other.                    *)
LEMMA AgreeFact == Inv => OwnGatewaysAgree
<1> SUFFICES ASSUME Inv, pc = "done", Agreed, odd = {}, altered = {} PROVE outcome = "ok"
  BY DEF OwnGatewaysAgree
<1>1. verdict = "ok"
  BY DEF Inv, AgreedInv
<1>2. response # HttpError
  <2>1. DOMAIN response = DOMAIN Issued
    BY <1>1 DEF Inv, ResponseInv
  <2>2. "text" \in DOMAIN Issued /\ "text" \notin DOMAIN HttpError
    BY IssuedFact DEF HttpError
  <2> QED
    BY <2>1, <2>2
<1>3. outcome = verdict
  BY <1>2, OutcomeFact DEF Agreed
<1> QED
  BY <1>1, <1>3

(* An outcome is signed, and what was signed was said.                     *)
LEMMA SignedFact == Inv => OutcomeIsSigned
<1> SUFFICES ASSUME Inv, pc = "done", outcome # "failed"
             PROVE  /\ response.signedBy = Sender.peerKey /\ response.digest \in Sender.digests
                    /\ outcome = ValueOf(response.signedText, "request-status")
                    /\ (\A a \in altered : a[1] # "signedText") => outcome = verdict
  BY DEF OutcomeIsSigned
<1>1. Believed(response) /\ outcome = ValueOf(response.text, "request-status")
  BY DEF Inv, OutcomeInv
<1>2. /\ response.http = "200" /\ response.digest \in Sender.digests
      /\ response.signedBy = Sender.peerKey /\ response.signedText = response.text
  BY <1>1 DEF Believed, Verified, DetachedVerifies, InlineVerifies
<1>3. ASSUME \A a \in altered : a[1] # "signedText" PROVE outcome = verdict
  <2>1. verdict # "none"
    BY <1>2 DEF Inv, ResponseInv, HttpError
  <2>2. response.signedText = ReceiptText
    <3>1. "signedText" \in DOMAIN Issued /\ Issued["signedText"] = ReceiptText
      BY IssuedFact
    <3>2. response["signedText"] = Issued["signedText"]
      <4> HIDE DEF Issued
      <4> QED
        BY <1>3, <2>1, <3>1 DEF Inv, ResponseInv
    <3> QED
      BY <3>1, <3>2
  <2> QED
    BY <1>1, <1>2, <2>2, StatusFact
<1> QED
  BY <1>1, <1>2, <1>3

(* What receive accepts came with a partner's credentials, in its name and *)
(* in no other's, to us, signed by its key with algorithms allowed for it. *)
THEOREM Attribution == Spec => []AcceptedIsAttributed
  BY Invariance, AttributedFact, PTL

(* A refusal of the receiver is for something that is wrong with the       *)
(* request, whatever else is.                                              *)
THEOREM FaultsAreNamed == Spec => []RefusalNamesAFault
  BY Invariance, FaultFact, PTL

(* Two gateways of this code that have agreed on each other understand     *)
(* each other: send_once reports ok for every job that can be sent.        *)
THEOREM Agreement == Spec => []OwnGatewaysAgree
  BY Invariance, AgreeFact, PTL

(* send_once reports what the partner has signed, byte for byte and with   *)
(* an allowed digest, and it is the receiver's verdict unless what was     *)
(* signed is not what was issued.                                          *)
THEOREM SignedOutcome == Spec => []OutcomeIsSigned
  BY Invariance, SignedFact, PTL

(* A receipt that is unusual only in ways the code tolerates is            *)
(* understood, whatever it refuses and whatever it quotes.                 *)
THEOREM UnderstoodReceipt == Spec => []ReceiptIsUnderstood
<1>1. Inv => ReceiptIsUnderstood
  BY OutcomeFact DEF ReceiptIsUnderstood
<1> QED
  BY <1>1, Invariance, PTL
=============================================================================
