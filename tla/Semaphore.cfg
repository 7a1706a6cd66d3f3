CONSTANTS
  Threads = {t1, t2, t3, t4}
  NULL = NULL
  Boot = t1
  Idle = {t1}
  SleepAlone = TRUE
  Killable = {}
  IrqWakes = {}
  Sems = {m, s}
  Mutexes = {m}
  IrqSems = {}
  MaxVal = 2
SPECIFICATION SemSpec
SYMMETRY WorkerSymmetry
INVARIANTS MutualExclusion NobodyForgotten
