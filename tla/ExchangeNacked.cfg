\* The receipt of an accepted message is lost, and the retry refused.
SPECIFICATION Spec
CONSTANTS
  j1 = j1
  Jobs <- OneJob
  Workers = {w1}
  ScheduleLength = 2
  ClaimLimit = 1
  MaxWorkerCrashes = 0
  NoJob = NoJob
  JobRefnum <- NoRefnums
  NoRefnum = NoRefnum
  RefnumsAgreed = FALSE
  DurableSinks = {fs}
  MaxReceiverCrashes = 0
  MaxDbFailures = 0
  SignMayFail = FALSE
INVARIANTS
  NackMeansRefused
\* The job concluded, every POST answered: nothing is left to do.
CHECK_DEADLOCK FALSE
