SPECIFICATION PacedFairSpec
CONSTANT MaxSends = 5
INVARIANT ValueIInv
PROPERTIES NeverOlder LastPacketArrives
CHECK_DEADLOCK FALSE
