SPECIFICATION FairSpec
CONSTANTS
  RTSP_INPUT_BUFFER_MAX = 8
  PARAMETER_SET_DISTANCE = 2
  Lengths = {2, 5}
  MaxFrames = 4
  MaxPieces = 3
  MaxSets = 2
INVARIANTS
  BufferBound
  WholeFrames
  ParameterSetsSaved
PROPERTIES
  NewestFrameOnce
  FrameMovesOn
CHECK_DEADLOCK FALSE
