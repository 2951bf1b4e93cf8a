SPECIFICATION LockSpec
CONSTANTS
  Main = main
  Keys = {main, a, b}
  NoKey = NoKey
  StaticLocks = {1}
  MutexBase = 1
  MaxMutexes = 1
  MaxAutos = 2
  MaxExpl = 2
CONSTRAINT NestBound
SYMMETRY Symmetry
INVARIANTS
  LockTypeOK
  OwnedIffInside
  DepthsExact
  HeldExact
  NoInternalLockError
  NoUndetectedDeadlock
  DiagnosisExact
  WalkIsReach
  EntriesExact
PROPERTY AllOrNothing
