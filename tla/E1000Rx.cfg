SPECIFICATION Spec
CONSTANTS
  N = 4
  MaxFrames = 9
  QuietInit = TRUE
INVARIANTS InOrder
PROPERTIES RefinesFifo EveryFrameDelivered
CHECK_DEADLOCK FALSE
