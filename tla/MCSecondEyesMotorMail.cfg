SPECIFICATION Spec
CONSTANTS
  Garbage = Garbage
  Bodies <- MCBodies
  Recycled <- MCRecycled
  MaxStrays = 1
  Packets = {"MOVE", "OWN", "OTHER", "STOP"}
  MaxPackets = 3
PROPERTIES
  MotorLoopHandlesAll
