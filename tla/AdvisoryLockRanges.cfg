SPECIFICATION Spec
CONSTRAINT Apart
CONSTANTS
  Pids = {1, 2, 3}
  Tasks = {1, 2, 3}
  PidOf <- Single
  Ofds = {1, 2, 3}
  Files = {"f"}
  FileOf <- OneFile
  InodeFiles = {}
  Descriptors <- Private
  Kinds = {"process", "flock"}
  Whences = {"cur"}
  Starts <- Relative
  Lens <- AllLens
  Waits = {TRUE, FALSE}
  Others = {"close", "seek"}
  MaxOff = 2
  MaxLocks = 3
INVARIANT TypeOK
INVARIANT Normalized
INVARIANT Exclusive
INVARIANT NoUpgradeDeadlock
PROPERTY ImplementsByteLocks
CHECK_DEADLOCK FALSE
