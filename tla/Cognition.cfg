SPECIFICATION FairSpec
CONSTANTS
  StartTime = 1
  MaxTime = 4
  Capacity = 3
  MaxBurst = 2
  MaxReceived = 4
INVARIANTS IInv KeepsNewest PairIsUsed
PROPERTIES NeverBack NoImageTwice KeepsUp
CHECK_DEADLOCK FALSE
