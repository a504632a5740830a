CONSTANTS
  NTextCtx = 12
  MaxDecoders = 1
  ChunkFrames = 6
  DeltaMin = 1
  ShortTail = 2
  EntropyLen = 1
  TokenBeg = 1000
  Guesses = {0, 3}
  Params <- Calls
  MaxCalls = 2
SPECIFICATION FairSpec
INVARIANTS
  PositionsFit
  PromptBudget
PROPERTIES
  SeekAdvances
  CallReturns
