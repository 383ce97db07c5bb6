SPECIFICATION Spec
CONSTANTS
  Pids = {1, 2, 3}
  Tasks = {1, 2, 3}
  PidOf <- Single
  Ofds = {1, 2}
  Files = {"f"}
  FileOf <- OneFile
  InodeFiles = {}
  Descriptors <- Inherited
  Kinds = {"flock"}
  Whences = {"set"}
  Starts = {0}
  Lens = {0}
  Waits = {TRUE}
  Others = {"interrupt"}
  MaxOff = 1
  MaxLocks = 4
INVARIANT NoGrantableWaiter
CHECK_DEADLOCK FALSE
