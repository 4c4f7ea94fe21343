SPECIFICATION MCSpec
CONSTANTS
  Garbage = Garbage
  Recycled <- MCRecycled
  MaxStrays = 1
  MaxServer = 3
  MaxStream = 2
  Bodies = {1, 2, 3, 4, 5}
INVARIANTS
  BusTypeOK
  ExactlyOnceUndamaged
  ServerOrder
PROPERTY ServiceDrains
CHECK_DEADLOCK FALSE
