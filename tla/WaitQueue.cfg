CONSTANTS
  p1 = p1
  p2 = p2
  Pids <- MCPids
  Tids <- MCTids
  Sources <- MCSources
  Shapes <- MCShapes
  Spans <- MCSpans
  MaxNs = 2
  MaxNow = 2
  MaxWaiter = 2
  MaxGen = 3
  MaxWake = 2
SPECIFICATION Spec
SYMMETRY MCSymmetry
INVARIANTS TypeOK HeapCoversSleepers StaleEntriesNameNobody GenerationsNameOneWait ExpireIsExactAndOrdered
PROPERTY OldestFirst
