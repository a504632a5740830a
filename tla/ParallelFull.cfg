CONSTANTS
  n_window = 2592
  samples_overlap = 1600
  IntMax = 8388607
  CallParams <- Calls
  Outcomes <- Transcriptions
SPECIFICATION Spec
INVARIANTS
  SegmentsApart
  SpeechKept
  MapFaithful
  ReportedInOrder
