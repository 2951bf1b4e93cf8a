CONSTANTS
  ExThreads = {m, w}
  ExMain = m
  ExTasks = {k1}
  ExValues = {x, y}
  ExDepth = 1
  ExThrows = 2
SPECIFICATION ExSpec
INVARIANT ExceptionValueOwn
CHECK_DEADLOCK FALSE
