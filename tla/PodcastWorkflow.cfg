CONSTANTS
  Runs = {1}
  MaxAttempts = 2
  Shown = 2
  MaxEpisodes = 3
  MaxTime = 0
  Args <- AllArgs
  Transcripts <- ManyTranscripts
  Mistimed = TRUE
SPECIFICATION FairSpec
INVARIANTS
  SuccessIsComplete
  ChosenEpisode
  ManifestMeansComplete
  TurnsFaithful
PROPERTIES
  RunsEnd
