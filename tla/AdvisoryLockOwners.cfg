SPECIFICATION Spec
CONSTANTS
  Pids = {1, 2}
  Tasks = {1, 2, 3}
  PidOf <- Threads
  Ofds = {1, 2}
  Files = {"f"}
  FileOf <- OneFile
  InodeFiles = {"f"}
  Descriptors <- Shared
  Kinds = {"process", "ofd"}
  Whences = {"set"}
  Starts = {0}
  Lens = {0}
  Waits = {TRUE}
  Others = {"close", "exit", "interrupt"}
  MaxOff = 1
  MaxLocks = 4
INVARIANT NoGrantableWaiter
INVARIANT OwnersExist
PROPERTY LocksKept
CHECK_DEADLOCK FALSE
