SPECIFICATION FairSpec
CONSTANTS
  a = a  b = b  c = c  x = x
  Input <- MCInput
  External <- MCExternal
CHECK_DEADLOCK FALSE
INVARIANT Correct
PROPERTY Returns
