CONSTANTS
  Identities <- MCIdentities
  MaxSequence = 9
  Blank = Blank
  Torn = Torn
  MaxSlot = 3
  MaxTx = 2
  MaxAttempts = 6
  MaxFaults = 2
SPECIFICATION Spec
CHECK_DEADLOCK FALSE
INVARIANTS TypeOK PublishedSurvives BootNeverRefused PredecessorKept
PROPERTY KeepsDurableLog
