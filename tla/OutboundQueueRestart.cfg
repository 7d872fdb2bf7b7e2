\* One worker that is killed once and started again.
SPECIFICATION FairSpec
CONSTANTS
  j1 = j1
  j2 = j2
  here = here
  gone = gone
  Jobs <- MCJobs
  Workers = {w1}
  Partners <- MCPartners
  PartnerOf <- MCPartnerOf
  Registries <- FullRegistry
  ScheduleLength = 3
  ClaimLimit = 1
  MaxCrashes = 1
  SendMayRaise = FALSE
  NoJob = NoJob
PROPERTIES
  RetrySurvivesRestart
\* Jobs concluded, workers idle or dead: nothing is left to do.
CHECK_DEADLOCK FALSE
