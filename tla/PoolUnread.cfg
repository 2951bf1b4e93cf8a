SPECIFICATION Spec
CONSTANTS
  Main = 0
  Keys = {0, 1, 2}
  NoKey = NoKey
  StaticLocks = {}
  MutexBase = 9
  MaxMutexes = 0
  MaxTasks = 2
  NWorkers = 1
  Ops = {"spawn","throw"}
  MainOps = 1
  TaskOps = 1
  ExitModes = {TRUE}
  LateSpawns = TRUE
INVARIANT UnreadReported
