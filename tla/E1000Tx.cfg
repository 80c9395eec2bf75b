SPECIFICATION Spec
CONSTANTS
  N = 4
  MaxFrames = 11
  Lag = 5
PROPERTIES RefusesOnlyFull RefinesFifo SentUnlessWedged
CHECK_DEADLOCK FALSE
