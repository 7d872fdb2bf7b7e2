\* Two files, faults and a crash: a file whose partner is known for good leaves
\* its folder.
SPECIFICATION FairSpec
CONSTANTS
  d1 = d1
  d2 = d2
  d3 = d3
  twice = twice
  once = once
  numbered = numbered
  plain = plain
  Drops = {d1, d3}
  Paths = {twice, once}
  PathOf <- TwoPaths
  Partners = {numbered, plain}
  DirOf <- MCDirOf
  UsesRefnum = {numbered}
  Registries <- AnyRegistry
  MaxPickupAttempts = 2
  ApiRefnums = {1}
  Copies = 2
  MaxFaults = 2
  MaxCrashes = 1
  NoDrop = NoDrop
  NoPath = NoPath
PROPERTIES
  FileLeaves
\* Files filed, poller idle: nothing is left to do.
CHECK_DEADLOCK FALSE
