CONSTANTS
  Size = 5
  MaxSamples = 9
  ChunkSizes = {1, 2, 6}
  Params <- AllParams
  Speech = 2
SPECIFICATION FairSpec
INVARIANTS
  WindowInOrder
  LinesShareKeep
PROPERTIES
  RecentSpec
  CtrlCEnds
