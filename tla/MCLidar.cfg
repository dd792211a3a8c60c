CONSTANTS
  Sectors = 5
  MaxPackets = 25
  MaxLost = 3
  MaxBurst = 3
SPECIFICATION FairSpec
INVARIANTS TypeOK Healed RepeatsBounded
PROPERTIES Fresh NewestArrives
