SPECIFICATION FairSpec
CONSTANTS
  N = 1
  LogReplay = TRUE
  SignalBound = 1
INVARIANTS IInv NoMutualBlocking NoMissedPacket
PROPERTIES UpdateReturns BlockedSendsEnd ShutdownCompletes
