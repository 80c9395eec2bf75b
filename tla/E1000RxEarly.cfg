SPECIFICATION Spec
CONSTANTS
  N = 4
  MaxFrames = 9
  QuietInit = FALSE
PROPERTIES EveryFrameDelivered
CHECK_DEADLOCK FALSE
