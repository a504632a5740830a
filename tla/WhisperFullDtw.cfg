CONSTANTS
  NTextCtx = 12
  MaxDecoders = 1
  ChunkFrames = 6
  DeltaMin = 1
  ShortTail = 2
  EntropyLen = 1
  TokenBeg = 1000
  Guesses = {0, 3}
  Params <- Dtw
  MaxCalls = 1
SPECIFICATION Spec
INVARIANTS
  EverySegmentAnnounced
