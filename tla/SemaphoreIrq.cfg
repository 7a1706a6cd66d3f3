CONSTANTS
  Threads = {t1, t2, t3, t4}
  NULL = NULL
  Boot = t1
  Idle = {t1}
  SleepAlone = TRUE
  Killable = {t4}
  IrqWakes = {}
  Sems = {m, s}
  Mutexes = {m}
  IrqSems = {s}
  MaxVal = 1
SPECIFICATION SemSpec
SYMMETRY WorkerSymmetry
INVARIANT WaitQueueSound
PROPERTIES SignalWakesOne KilledNeverAcquires
