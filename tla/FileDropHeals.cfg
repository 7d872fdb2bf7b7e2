\* No fault: a partner is added to partners.yaml while the poller runs.
SPECIFICATION FairSpec
CONSTANTS
  d1 = d1
  d2 = d2
  d3 = d3
  twice = twice
  once = once
  numbered = numbered
  plain = plain
  Drops = {d1, d3}
  Paths = {twice, once}
  PathOf <- TwoPaths
  Partners = {numbered, plain}
  DirOf <- MCDirOf
  UsesRefnum = {numbered}
  Registries <- AnyRegistry
  MaxPickupAttempts = 2
  ApiRefnums = {1}
  Copies = 2
  MaxFaults = 0
  MaxCrashes = 0
  NoDrop = NoDrop
  NoPath = NoPath
PROPERTIES
  UnknownFolderHeals
\* Files filed, poller idle: nothing is left to do.
CHECK_DEADLOCK FALSE
