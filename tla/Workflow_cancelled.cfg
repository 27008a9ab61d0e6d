CONSTANTS
  e1 = e1
  e2 = e2
  r1 = r1
  r2 = r2
  web = web
  job = job
  tick = tick
  cron = cron
  None = None
  Execution <- OneExecution
  Runner <- Runners
  Process <- Processes
  Server <- Servers
  Cycle <- Cycles
  Host <- HostOf
  MaxOrder = 2
  MaxCrashes = 1
  MaxErrors = 1
SYMMETRY RunnersAlike
SPECIFICATION Spec
PROPERTIES CancelledIsFinal
CHECK_DEADLOCK FALSE
