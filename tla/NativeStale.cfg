CONSTANTS
  main = main
  worker = worker
  Thread = {main, worker}
  Main = main
  Task = {f1, f2}
  NoSession = NoSession
  NoTask = NoTask
  Returns = {"value"}
  MaxOps = 3
  MaxObs = 0
  MaxDepth = 3
  MaxClock = 20
  EnvMode = TRUE
  Serial = FALSE
  MayFail = FALSE
SPECIFICATION Spec
INVARIANT CumulativeSidecar
CHECK_DEADLOCK FALSE
