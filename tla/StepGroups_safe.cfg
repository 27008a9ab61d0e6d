CONSTANTS
  N = 4
  Workflows <- Canvases
SPECIFICATION Spec
INVARIANTS OnlySelectedStepsRun NoSelectedStepIsLost ResultsMatchLog
CHECK_DEADLOCK FALSE
