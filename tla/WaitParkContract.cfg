CONSTANTS
  Pids <- Couple
  Tasks <- CoupleThreads
  PidOf <- MCPidOf
  Parent <- MCParent
  Sig = {17}
  SigChld = 17
  SigPipe = 13
  Sharing = {2}
  NoCldWait = {}
  Calls <- ContractCalls
  Masks <- ChldMasks
  Spans = {}
  MaxNow = 0
  MaxGen = 2
  MaxRecords = 1
  Millisecond = 1
  MaxDelay = 9
  PipeCap = 1
  EndsOf <- BothEnds
SPECIFICATION Spec
CHECK_DEADLOCK FALSE
INVARIANTS TypeOK AnsweredOnce ChildrenServed TransfersServed
PROPERTY KeepsContract
