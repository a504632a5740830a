CONSTANTS
  NThreads = 2
  Graphs <- AllGraphs
  NChunks = 8
  MaxGraphs = 2
  MaxPauses = 1
SPECIFICATION FairSpec
INVARIANTS
  NodeOrder
  AbortAgreement
  Quiescent
  ChunksOnce
PROPERTIES
  ExecSpec
  ComputeReturns
  FreeReturns
