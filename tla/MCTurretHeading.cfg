CONSTANTS
  Commands <- LaunchCommands
  Depth = 2
  Repeats = 3
  MaxTurns = 3
  MaxLosses = 2
SPECIFICATION FairSpec
INVARIANTS ServoFollows ListenersFollow
PROPERTIES Agreement
