SPECIFICATION Spec
CONSTANTS
  Pids = {1, 2}
  Tasks = {1, 2, 3}
  PidOf <- Threads
  Ofds = {1, 2}
  Files = {"f"}
  FileOf <- OneFile
  InodeFiles = {}
  Descriptors <- Shared
  Kinds = {"process"}
  Whences = {"cur"}
  Starts = {0}
  Lens <- ShortLens
  Waits = {TRUE}
  Others = {"seek"}
  MaxOff = 2
  MaxLocks = 4
INVARIANT GrantedAsAsked
CHECK_DEADLOCK FALSE
