SPECIFICATION ConnSpec
CONSTANTS
  MaxPackets = 3
  MaxEvents = 1
  MaxSessions = 2
  MaxFds = 4
  PictureSizes = {2}
  RecordingSizes = {3}
  PACK_MAX_SIZE = 2
INVARIANTS
  ConnTypeOK
  ExecutedAsSent
  PacedCommandsKept
  UrlOfOwnSession
PROPERTIES
  ImplementsUpload
  FileFollowsEvent
  UrlArrives
CHECK_DEADLOCK FALSE
