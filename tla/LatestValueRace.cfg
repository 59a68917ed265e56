SPECIFICATION UnpacedSpec
CONSTANT MaxSends = 5
INVARIANT SlotNotReserved
CHECK_DEADLOCK FALSE
