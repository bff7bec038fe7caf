CONSTANTS
  main = main
  worker = worker
  Thread = {main, worker}
  Main = main
  Task = {f1, f2}
  NoSession = NoSession
  NoTask = NoTask
  Returns = {"value"}
  MaxOps = 3
  MaxObs = 1
  MaxDepth = 2
  MaxClock = 8
  EnvMode = TRUE
  Serial = TRUE
  MayFail = TRUE
SYMMETRY Futures
SPECIFICATION Spec
INVARIANTS TypeOK ParentageFaithful ObservationsFaithful AckedIsDurable AcceptedIsComplete
CHECK_DEADLOCK FALSE
