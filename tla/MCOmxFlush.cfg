SPECIFICATION FairSpec
CONSTANTS
  Detection = "320x240"
  Streaming = "352x282"
  Recording = "1280x720"
PROPERTIES
  FlushesAwaited
