CONSTANTS
  Pids <- Couple
  Tasks <- CoupleThreads
  PidOf <- MCPidOf
  Parent <- MCParent
  Sig = {13}
  SigChld = 17
  SigPipe = 13
  Sharing = {}
  NoCldWait = {}
  Calls <- SigpipeCalls
  Masks <- PipeMasks
  Spans = {}
  MaxNow = 0
  MaxGen = 3
  MaxRecords = 2
  Millisecond = 1
  MaxDelay = 9
  PipeCap = 1
  EndsOf <- ReadEndElsewhere
SPECIFICATION Spec
CHECK_DEADLOCK FALSE
INVARIANTS NoTargetedSleeper
