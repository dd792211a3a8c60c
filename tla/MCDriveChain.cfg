CONSTANTS
  Twists <- StopOrGo
  Attitudes <- Lies
  DPad <- Pad
  Received <- UsableOrNot
SPECIFICATION FairSpec
INVARIANTS LatestCounts
PROPERTIES LossStops TiltStops
