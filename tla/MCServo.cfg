CONSTANTS
  Bases <- FewBases
  Moves <- Either
  MaxCalls = 3
  MaxFaults = 2
  MaxMoves = 2
SPECIFICATION Spec
INVARIANTS EncoderAccounts ReadyBetweenCalls
PROPERTIES ReturnsTravel ModeChangesUnpowered
