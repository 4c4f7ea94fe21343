SPECIFICATION FairSpec
CONSTANTS
  Garbage = Garbage
  Bodies <- MCBodies
  Recycled <- MCRecycled
  MaxStrays = 0
  Packets = {"OWN", "STOP"}
  MaxPackets = 3
INVARIANTS
  FlagUnderMutex
  PipelineFormat
PROPERTIES
  MotorCommandsAlternate
  CameraTurns
  StopEndsSession
  DetectionGoesOn
  SignalServed
