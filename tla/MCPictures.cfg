SPECIFICATION PicSpec
CONSTANTS
  Pixels = 48
  Values = {0, 40, 81}
  threshold1 = 40
  threshold2 = 2
  Formats <- MCFormats
  Scenes <- MCScenes
INVARIANTS
  PicTypeOK
  FrameFits
  WholePicture
  SnapshotShowsPicture
  PrimariesKept
  MotionSeen
PROPERTIES
  Looks
