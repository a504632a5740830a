CONSTANTS
  NTextCtx = 14
  MaxDecoders = 2
  ChunkFrames = 4
  DeltaMin = 1
  ShortTail = 2
  EntropyLen = 1
  TokenBeg = 1000
  Guesses = {0}
  Params <- Searches
  MaxCalls = 1
SPECIFICATION Spec
INVARIANTS
  SegmentsOrdered
  NeverBackInTime
