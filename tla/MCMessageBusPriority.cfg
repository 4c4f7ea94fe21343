SPECIFICATION MCSpec
CONSTANTS
  Garbage = Garbage
  Recycled <- MCRecycled
  MaxStrays = 1
  MaxServer = 1
  MaxStream = 2
  Bodies = {1, 2, 3}
PROPERTY LowestNumberFirst
CHECK_DEADLOCK FALSE
