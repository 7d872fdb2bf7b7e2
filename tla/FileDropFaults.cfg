\* Users who drop files over others and withdraw them, callers with refnums of
\* their own, two faults and a crash: files, queue and counts agree.
SPECIFICATION Spec
CONSTANTS
  d1 = d1
  d2 = d2
  d3 = d3
  twice = twice
  once = once
  numbered = numbered
  plain = plain
  Drops = {d1, d2, d3}
  Paths = {twice, once}
  PathOf <- MCPathOf
  Partners = {numbered, plain}
  DirOf <- MCDirOf
  UsesRefnum = {numbered}
  Registries <- FullRegistry
  MaxPickupAttempts = 2
  ApiRefnums = {1}
  Copies = 2
  MaxFaults = 2
  MaxCrashes = 1
  NoDrop = NoDrop
  NoPath = NoPath
SYMMETRY Rewritten
INVARIANTS
  NothingLost
  ProcessedWasQueued
  QueuedOnceButForFaults
  OrphansAccounted
  ErrorIsEarned
\* Files filed, poller idle: nothing is left to do.
CHECK_DEADLOCK FALSE
