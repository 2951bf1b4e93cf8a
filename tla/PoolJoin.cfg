SPECIFICATION Spec
CONSTANTS
  Main = 0
  Keys = {0, 1, 2, 3}
  NoKey = NoKey
  StaticLocks = {}
  MutexBase = 9
  MaxMutexes = 0
  MaxTasks = 3
  NWorkers = 2
  Ops = {"spawn","join"}
  MainOps = 3
  TaskOps = 2
  ExitModes = {TRUE}
  LateSpawns = TRUE
INVARIANTS
  RunsOnce
  NoLostWakeup
  AllFinishedAtExit
