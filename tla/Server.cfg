CONSTANTS
  r1 = r1
  r2 = r2
  base = base
  base_en = base_en
  None = None
  Requests <- TwoRequests
  Inputs <- AllInputs
  Models <- BothModels
  Multilingual = {base}
  Failures = {"number", "convert", "read", "process", "close"}
  NPool = 2
  ffmpeg_converter = TRUE
  n_processors = 2
SPECIFICATION FairSpec
INVARIANTS
  ResultsAreOwn
  ContextInUse
  OnlyFailuresLeak
  ReadyMeansLoaded
PROPERTIES
  EveryRequestAnswered
  SignalStops
