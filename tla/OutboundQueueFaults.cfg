\* Two workers that may die of a kill or of an exception in send_once, a partner
\* removed: jobs and audit rows agree, and every queued job is concluded.
SPECIFICATION FairSpec
CONSTANTS
  j1 = j1
  j2 = j2
  here = here
  gone = gone
  Jobs <- MCJobs
  Workers = {w1, w2}
  Partners <- MCPartners
  PartnerOf <- MCPartnerOf
  Registries <- AnyRegistry
  ScheduleLength = 3
  ClaimLimit = 2
  MaxCrashes = 2
  SendMayRaise = TRUE
  NoJob = NoJob
INVARIANTS
  SingleHolder
  AttemptsAccounted
  ExchangeFailureAfterAllAttempts
  MessageNeverAhead
  DeliveredWasAccepted
  InProgressIsHeld
PROPERTIES
  ImplementsLifecycle
  OutcomeIsFinal
  QueuedIsConcluded
  OutcomeIsTracked
\* Jobs concluded, workers idle or dead: nothing is left to do.
CHECK_DEADLOCK FALSE
