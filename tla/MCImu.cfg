CONSTANTS
  Interval = 2
  Timeout = 4
  MaxFaults = 3
SPECIFICATION FairSpec
INVARIANTS Noticed
PROPERTIES Recovers
