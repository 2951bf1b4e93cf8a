SPECIFICATION Spec
CONSTANTS
  Main = 0
  Keys = {0, 1, 2}
  NoKey = NoKey
  StaticLocks = {}
  MutexBase = 9
  MaxMutexes = 0
  MaxTasks = 2
  NWorkers = 1
  Ops = {"spawn","wait","join","add","group","cancel","throw","point","status","error"}
  MainOps = 4
  TaskOps = 1
  ExitModes = {TRUE,FALSE}
  LateSpawns = FALSE
INVARIANTS
  PoolTypeOK
  ExitCodeExact
PROPERTIES
  OutcomeStable
  WaitReturnsFinished
