SPECIFICATION Spec
CONSTANTS
  Thread <- MCThread
  receivers <- MCReceivers
  bracketSize <- MCBracketSize
  size <- MCSize
  outputs <- MCOutputs
  maximumSize = 7
  reserveForInfrastructure = 4
  debugSize = 16
  TextLimit = 1
  CounterSize = 65536
  MaxFrames <- MCMaxFrames
  MaxOutputs = 2
  MaxAnswers = 1
INVARIANTS IInv CompleteFrames DebugQueueSound LatestOfAllArrived
CHECK_DEADLOCK FALSE
