SPECIFICATION FairSpec
CONSTANTS
  NPROC = 2
  NQUEUES = 3
  TimeSlices <- Slices3
  BoostPeriod = 2
  None = none
INVARIANTS    ZombieHeard
 
