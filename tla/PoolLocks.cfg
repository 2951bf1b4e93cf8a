SPECIFICATION Spec
CONSTANTS
  Main = 0
  Keys = {0, 1, 2, 3}
  NoKey = NoKey
  StaticLocks = {1}
  MutexBase = 9
  MaxMutexes = 0
  MaxTasks = 3
  NWorkers = 1
  Ops = {"spawn","join","auto","explicit"}
  MainOps = 2
  TaskOps = 2
  ExitModes = {TRUE}
  LateSpawns = FALSE
INVARIANTS
  WorkersAccounted
  CompensationKeepsUp
  ThreadsBounded
  HelperHoldsNothing
  FinishedHoldsNothing
PROPERTY
  LockSpec
