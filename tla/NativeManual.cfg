CONSTANTS
  main = main
  worker = worker
  Thread = {main, worker}
  Main = main
  Task = {f1}
  NoSession = NoSession
  NoTask = NoTask
  Returns = {"unit", "error"}
  MaxOps = 2
  MaxObs = 0
  MaxDepth = 2
  MaxClock = 7
  EnvMode = FALSE
  Serial = FALSE
  MayFail = FALSE
SPECIFICATION Spec
INVARIANTS FinishedIsComplete
PROPERTIES FinishedIsFinal
CHECK_DEADLOCK FALSE
