CONSTANTS
  main = main
  worker = worker
  Thread = {main, worker}
  Main = main
  Task = {f1}
  NoSession = NoSession
  NoTask = NoTask
  Returns = {"value"}
  MaxOps = 3
  MaxObs = 0
  MaxDepth = 3
  MaxClock = 12
  EnvMode = TRUE
  Serial = FALSE
  MayFail = FALSE
SPECIFICATION Spec
INVARIANTS SessionForest SnapshotSound
PROPERTIES ClosedOnce
CHECK_DEADLOCK FALSE
