SPECIFICATION Spec
CONSTANTS
  cognition = cognition  motion = motion
  ball = ball  field = field  pose = pose
  BallA = BallA  BallB = BallB  Locator = Locator  Walker = Walker
  Thread <- MCThread
  Representation <- MCRepresentation
  Module <- MCModule
  Requires <- MCRequires
  Provides <- MCProvides
  Uses <- MCUses
  Initial <- Apart
  Configurations <- MCRejected
  MaxRequests = 3
  Full = {}
INVARIANT NoStaleFunctions
