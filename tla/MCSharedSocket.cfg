SPECIFICATION FairSpec
CONSTANTS
  Starts <- MCStarts
  Pieces <- MCPieces
  RingSize = 1
INVARIANTS TypeOK JoinedIsUsable NothingLost
PROPERTIES LateStartersMeet JoinedAreHeard
CHECK_DEADLOCK FALSE
