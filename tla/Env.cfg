SPECIFICATION Spec
CONSTANTS
  NENV = 3
  NBoot = 2
  MaxGen <- Generations
  VAs = {v0}
  ZeroVa = v0
  NoVa = NoVa
  NoCall = NoCall
CHECK_DEADLOCK FALSE
INVARIANTS IndInv
PROPERTIES MessageKept RunnableRuns
