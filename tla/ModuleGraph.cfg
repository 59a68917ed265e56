SPECIFICATION FairSpec
CONSTANTS
  cognition = cognition  motion = motion
  ball = ball  field = field  pose = pose
  BallA = BallA  BallB = BallB  Locator = Locator  Walker = Walker
  Thread <- MCThread
  Representation <- MCRepresentation
  Module <- MCModule
  Requires <- MCRequires
  Provides <- MCProvides
  Uses <- MCUses
  Initial <- Apart
  Configurations <- MCConfigurations
  MaxRequests = 3
  Full <- MCFull
INVARIANTS IInv LayoutsAgree EntriesExist StaleOnlyIfOff
PROPERTY EverybodySwitches
