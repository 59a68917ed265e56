SPECIFICATION Spec
CONSTANTS
  Threads = {t1, t2}
  GameInfoThreads = {t1, t2}
  Buffers = {b1, b2}
  MaxFrames = 2
  Nobody = Nobody
PROPERTY SaidWhenWritten
CHECK_DEADLOCK FALSE
