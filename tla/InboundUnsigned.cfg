\* One request, nothing fails but GnuPG: the receipt may not be signed.
SPECIFICATION FairSpec
CONSTANTS
  r1 = r1
  r2 = r2
  r3 = r3
  withRefnum = withRefnum
  noRefnum = noRefnum
  d1 = d1
  d2 = d2
  n1 = n1
  Requests = {r1}
  PartnerOf <- DigestPartner
  DigestOf <- RetryDigests
  RefnumOf <- NoRefnums
  NoRefnum = NoRefnum
  UsesRefnum = {withRefnum}
  RequiresSignature = {withRefnum}
  DurableSinks = {fs, s3}
  RequireDurable = TRUE
  MaxCrashes = 0
  MaxDbFailures = 0
  Unsignable = {r1}
PROPERTIES
  NeverUnsigned
\* The request answered, the row consumed: nothing is left to do.
CHECK_DEADLOCK FALSE
