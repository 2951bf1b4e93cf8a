SPECIFICATION Spec
CONSTANTS
  Main = 0
  Keys = {0, 1, 2, 3}
  NoKey = NoKey
  StaticLocks = {}
  MutexBase = 9
  MaxMutexes = 0
  MaxTasks = 3
  NWorkers = 1
  Ops = {"spawn","join"}
  MainOps = 2
  TaskOps = 2
  ExitModes = {TRUE}
  LateSpawns = FALSE
INVARIANT CycleIsReal
