CONSTANTS
  Pids <- Couple
  Tasks <- CoupleThreads
  PidOf <- MCPidOf
  Parent <- MCParent
  Sig = {10}
  SigChld = 17
  SigPipe = 13
  Sharing = {}
  NoCldWait = {1}
  Calls <- SignalCalls
  Masks <- Usr1Masks
  Spans = {}
  MaxNow = 0
  MaxGen = 3
  MaxRecords = 2
  Millisecond = 1
  MaxDelay = 9
  PipeCap = 1
  EndsOf <- NoEnds
SPECIFICATION Spec
CHECK_DEADLOCK FALSE
INVARIANTS AnsweredOnce SettledWhenIdle NoTargetedSleeper SigtimedServed
