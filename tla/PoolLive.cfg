SPECIFICATION FairSpec
CONSTANTS
  Main = 0
  Keys = {0, 1, 2, 3}
  NoKey = NoKey
  StaticLocks = {1}
  MutexBase = 9
  MaxMutexes = 0
  MaxTasks = 3
  NWorkers = 1
  Ops = {"spawn","join","explicit"}
  MainOps = 3
  TaskOps = 1
  ExitModes = {TRUE}
  LateSpawns = FALSE
PROPERTY
  Terminates
