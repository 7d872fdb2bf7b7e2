\* Two processes start side by side on a fresh or an older database, while a
\* partner's key and its override change; one of them dies, one starts again.
SPECIFICATION FairSpec
CONSTANTS
  app = app
  worker = worker
  own = own
  legacy = legacy
  renewed = renewed
  Processes = {app, worker}
  NumFiles = 2
  Keys = {own, legacy, renewed}
  Bits <- KeyBits
  MinBits = 2048
  Configs <- PartnerFiles
  MaxStarts = 2
  MaxDeaths = 1
  MaxEdits = 1
  NoProcess = NoProcess
INVARIANTS
  AppliedOnce
  UpIsReady
  LostRaceIsOver
PROPERTIES
  StartupEnds
\* Everything up, or down for good: nothing is left to do.
CHECK_DEADLOCK FALSE
