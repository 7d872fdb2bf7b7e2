--------------------------- MODULE MCTransmission ---------------------------
(* A sender as four partners.yaml of the receiver know it; the ways a      *)
(* request and a response may differ from our own.                         *)
EXTENDS Transmission

ShortToPadded == [d \in {"7", "8"} |-> IF d = "7" THEN "000000007" ELSE "000000008"]

Plain(name, duns, auth, key) ==
  [name |-> name, duns |-> duns, auth |-> auth, key |-> key, requireSignature |-> TRUE,
   version |-> "none", useRefnum |-> FALSE, ciphers |-> {}, digests |-> {}]

Us == Plain("us", "7", "basic us", "our key")
Other == [Plain("other", "000000009", "bearer other", "other key") EXCEPT
            !.requireSignature = FALSE, !.version = "2.0", !.useRefnum = TRUE,
            !.ciphers = {"3DES"}]
Files ==
  { <<Us, Other>>,
    <<[Other EXCEPT !.auth = "basic us"], Us>>,                   \* one password for two
    <<Us, [Us EXCEPT !.name = "us again", !.duns = "000000007"]>>, \* refused to start
    <<[Us EXCEPT !.auth = "basic old", !.duns = "000000009"], Other, [Us EXCEPT !.useRefnum = TRUE]>> }

TheReceiver ==
  [duns |-> "000000008", key |-> "receiver key", digest |-> "SHA256", version |-> "1.9",
   ciphers |-> {"AES256"}, digests |-> {"SHA256", "SHA1"}]
TheSender ==
  [duns |-> "000000007", auth |-> "basic us", key |-> "our key", peerKey |-> "receiver key",
   cipher |-> "AES256", digest |-> "SHA256", selection |-> "pgp-signature",
   digests |-> {"SHA256"}]

Row(to, refnum, transactionSet, refnumOrig) ==
  [to |-> to, version |-> "1.9", transactionSet |-> transactionSet, refnum |-> refnum,
   refnumOrig |-> refnumOrig]
Rows == {Row("8", "none", "none", "none"), Row("8", "digits", "8chars", "digits"),
         Row("000000009", "digits", "none", "none"),
         Row("8", "none", "too short", "none"), Row("8", "digits", "none", "letters")}

Delimited == [v \in {"X12*", "1.9*", "SET*", "123*"} |-> << <<"request-status", "ok">> >>]

RequestOddities ==
  ({"from", "to", "version", "receipt-disposition-to", "receipt-report-type", "input-format",
    "receipt-security-selection", "input-data"} \X {Missing})
  \cup {<<"size", "large">>, <<"form", "malformed">>,
        <<"auth", "bearer other">>, <<"auth", "nobody's">>,
        <<"from", "7">>, <<"from", "000000009">>, <<"to", "000000007">>,
        <<"version", "2.0">>, <<"version", "1.9*">>, <<"input-format", "X12*">>,
        <<"input-data", "application/pdf">>, <<"receipt-security-selection", "md5">>,
        <<"transaction-set", "SET*">>, <<"refnum", "letters">>, <<"refnum", "digits">>,
        <<"refnum-orig", "123*">>, <<"refnum-orig", "digits">>,
        <<"recipient", "other key">>, <<"signed-by", "other key">>, <<"signed-by", "nobody">>,
        <<"cipher", "3DES">>, <<"digest", "MD5">>}

AnOk == << <<"time-c", "t">>, <<"request-status", "ok">>, <<"server-id", "s">>, <<"trans-id", "n">> >>
ResponseOddities ==
  {<<"http", "500">>, <<"boundary", "in body">>, <<"boundary", "nowhere">>, <<"parts", "one">>,
   <<"plain", "text/html">>, <<"kind", "inline">>, <<"kind", "none">>,
   <<"signedBy", "other key">>, <<"digest", "MD5">>,
   <<"text", AnOk>>, <<"signedText", AnOk>>, <<"text", <<>>>>}
=============================================================================
