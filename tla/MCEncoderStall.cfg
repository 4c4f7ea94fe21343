SPECIFICATION FairSpec
CONSTANTS
  record_time = 3
  Steady = FALSE
PROPERTY RecordingEndsSoon
