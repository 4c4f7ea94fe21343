SPECIFICATION FairSpec
CONSTANTS
  Detection = "320x240"
  Streaming = "352x282"
  Recording = "1280x720"
INVARIANTS
  TypeOK
  BuffersInHand
  TransitionsLegal
  ReadyForUse
PROPERTIES
  CallsEnd
