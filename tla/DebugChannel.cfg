SPECIFICATION FairSpec
CONSTANTS
  MaxMessages = 5
  Capacity = 2
INVARIANTS IInv HeapSound
PROPERTIES ImplementsChannel EveryMessageArrives NeverStuck
CHECK_DEADLOCK FALSE
