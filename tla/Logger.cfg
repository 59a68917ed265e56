SPECIFICATION FairSpec
CONSTANTS
  Threads = {t1, t2}
  GameInfoThreads = {t1}
  Buffers = {b1, b2}
  MaxFrames = 2
  Nobody = Nobody
INVARIANTS IInv FrontIsThere InOrder
PROPERTIES ExecuteReturns FramesAreWritten WriterEnds
CHECK_DEADLOCK FALSE
