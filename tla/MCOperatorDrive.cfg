CONSTANTS
  Depth = 2
  MaxPresses = 4
  MaxRestarts = 2
SPECIFICATION Spec
INVARIANTS DriveMatches
PROPERTIES ImplementsContract
