CONSTANTS
  Threads = {t1, t2}
  NULL = NULL
  Boot = t1
  Idle = {t1}
  SleepAlone = TRUE
  Killable = {}
  IrqWakes = {}
  Sems = {s}
  Mutexes = {}
  IrqSems = {s}
  MaxVal = 1
SPECIFICATION SemSpec
PROPERTY SleepsOnlyAtZero
