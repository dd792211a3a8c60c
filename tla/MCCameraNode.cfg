CONSTANTS
  Request = {r1, r2}
  None = None
  MaxRefused = 1
  MaxSpurious = 1
SPECIFICATION FairSpec
INVARIANTS BufferExclusive QueuesAgree AllReturned
PROPERTIES Circulates ShutdownEnds
CHECK_DEADLOCK FALSE
