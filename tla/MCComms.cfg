CONSTANTS
  left = left
  right = right
  Turret = turret
  LeftWheels <- OneLeft
  RightWheels <- OneRight
  Speeds <- SlowOrFast
  MaximumRPM = 2
  Operations <- AllCalls
  MaxCalls = 3
  MaxFaults = 1
SPECIFICATION FairSpec
INVARIANTS DeadmanStops OneLateStop ArmedWhileDriving
PROPERTIES ImplementsDriver SilenceStops CallReturns
