\* The default schedule, in minutes: two jobs share a worker whose clock may be
\* a minute off; the attempts fall into the Exchange Failure window.
SPECIFICATION Spec
CONSTANTS
  w1 = w1
  j1 = j1
  j2 = j2
  Jobs = {j1, j2}
  Workers = {w1}
  Schedule <- DefaultSchedule
  PollInterval = 1
  MaxAttempt = 1
  ClaimLimit = 2
  Skews <- AMinuteOff
  LastEnqueue = 2
  MinOffset <- Offsets
  MaxOffset <- LatestOffsets
  WindowMin = 30
  WindowMax = 120
  NoJob = NoJob
INVARIANTS
  WindowReached
  WindowKept
PROPERTIES
  ImplementsLifecycle
\* Every job concluded: nothing is left to do.
CHECK_DEADLOCK FALSE
