SPECIFICATION FairSpec
CONSTANTS
  record_time = 3
  Steady = TRUE
INVARIANTS
  BufferDiscipline
  WholeFrames
PROPERTIES
  FullTime
  RecordingEnds
  StreamEnds
