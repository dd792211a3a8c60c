CONSTANTS
  left = left
  right = right
  Turret = turret
  LeftWheels <- OneLeft
  RightWheels <- OneRight
  Speeds <- StopOrGo
  MaximumRPM = 2
  Operations <- AllCalls
  MaxCalls = 3
  MaxFaults = 0
SPECIFICATION FairSpec
PROPERTIES NoRunaway
