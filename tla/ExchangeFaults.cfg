\* One job between two gateways: lost and late POSTs and receipts, a receiver
\* that crashes, whose database fails and which cannot always sign.
SPECIFICATION FairSpec
CONSTANTS
  j1 = j1
  Jobs <- OneJob
  Workers = {w1}
  ScheduleLength = 2
  ClaimLimit = 1
  MaxWorkerCrashes = 1
  NoJob = NoJob
  JobRefnum <- NoRefnums
  NoRefnum = NoRefnum
  RefnumsAgreed = FALSE
  DurableSinks = {fs}
  MaxReceiverCrashes = 1
  MaxDbFailures = 1
  SignMayFail = TRUE
INVARIANTS
  DeliveredIsRetained
  HandedOnOncePerJob
  NackIsExplained
PROPERTIES
  ImplementsSender
  ExchangeEnds
\* The job concluded, every POST answered: nothing is left to do.
CHECK_DEADLOCK FALSE
