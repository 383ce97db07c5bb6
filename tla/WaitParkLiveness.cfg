CONSTANTS
  Pids <- OneProcess
  Tasks <- TwoThreads
  PidOf <- MCPidOf
  Parent <- MCParent
  Sig = {10}
  SigChld = 17
  SigPipe = 13
  Sharing = {}
  NoCldWait = {}
  Calls <- LivenessCalls
  Masks <- NoMasks
  Spans = {1, 3}
  MaxNow = 4
  MaxGen = 2
  MaxRecords = 1
  Millisecond = 2
  MaxDelay = 1
  PipeCap = 1
  EndsOf <- NoEnds
SPECIFICATION FairSpec
CHECK_DEADLOCK FALSE
INVARIANTS TimerCoversDeadlines
PROPERTIES DeadlinesEndWaits KeepsContract
