CONSTANTS
  Depth = 1
  Pipes <- OneSide
  MaxTurns = 1
SPECIFICATION StopFairSpec
INVARIANTS Silenced
PROPERTIES BlockedStops BlindStops
