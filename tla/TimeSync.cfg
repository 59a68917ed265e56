SPECIFICATION Spec
CONSTANTS
  Robots = {r1, r2}
  StartClock = 2
  SendInterval = 1
  RequestInterval = 2
  BufferSize = 2
  MaxReplyAge = 1
  HalfWidth = 16
  MaxLead = 1
  MaxTime = 5
  MaxMessages = 3
  MaxRestarts = 1
SYMMETRY Symmetry
INVARIANTS IInv EstimateAccurate
PROPERTY NewestRequestAnswered
CHECK_DEADLOCK FALSE
