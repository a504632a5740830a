CONSTANTS
  Runs = {1, 2}
  MaxAttempts = 1
  Shown = 1
  MaxEpisodes = 2
  MaxTime = 1
  Args <- OneArg
  Transcripts <- OneTranscript
  Mistimed = FALSE
SPECIFICATION FairSpec
PROPERTIES
  FinishedRunsKept
