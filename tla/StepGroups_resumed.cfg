CONSTANTS
  N = 4
  Workflows <- Canvases
SPECIFICATION Spec
INVARIANTS GatingOutlivesSuspend
CHECK_DEADLOCK FALSE
