\* Racing duplicates; GnuPG, the sinks, the database and the process may fail,
\* and the receipt of r1 may not be signed.
SPECIFICATION FairSpec
CONSTANTS
  r1 = r1
  r2 = r2
  r3 = r3
  withRefnum = withRefnum
  noRefnum = noRefnum
  d1 = d1
  d2 = d2
  n1 = n1
  Requests <- Three
  PartnerOf <- RefnumPartner
  DigestOf <- RetryDigests
  RefnumOf <- OneRefnum
  NoRefnum = NoRefnum
  UsesRefnum = {withRefnum}
  RequiresSignature = {withRefnum}
  DurableSinks = {fs, s3}
  RequireDurable = TRUE
  MaxCrashes = 1
  MaxDbFailures = 2
  Unsignable = {r1}
INVARIANTS
  HandedOnOnce
  OkIsBacked
  RefusalIsRecorded
  DuplicateHasOriginal
  StuckWasCutOff
PROPERTIES
  ImplementsMessageLifecycle
  RequestIsAnswered
\* Every request answered, every accepted row consumed: nothing is left to do.
CHECK_DEADLOCK FALSE
