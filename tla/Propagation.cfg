SPECIFICATION FairSpec
CONSTANTS
  R = 2
  Servers = {1, 2}
  MaxFaults = 4
  MaxMoves = 1
INVARIANTS
  ReadyMeansServed
  CleanUpReachesRecord
PROPERTY ReadyAfterFaults
