CONSTANTS
  Delay = 2
  MaxEnds = 1
SPECIFICATION JoyFairSpec
INVARIANTS OneGoal
PROPERTIES Served TurretFollows
