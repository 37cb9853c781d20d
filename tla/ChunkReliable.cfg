SPECIFICATION FairSpec
CONSTANTS
  MaxRounds = 3
  MaxChunks = 3
  MinChunks = 0
  MaxFlight = 4
  Faults <- ChunkLoss
INVARIANTS SomebodyTalks
PROPERTY Reliable
CHECK_DEADLOCK FALSE
