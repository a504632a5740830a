CONSTANTS
  N = 3
  MaxRounds = 3
SPECIFICATION FairSpec
INVARIANTS
  BarrierSafe
PROPERTIES
  AbstractSpec
  AllRoundsDone
CHECK_DEADLOCK FALSE
