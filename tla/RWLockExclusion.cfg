CONSTANTS
  Threads = {t1, t2, t3}
  NULL = NULL
  Boot = t1
  Idle = {t1}
  SleepAlone = TRUE
  Killable = {}
  IrqWakes = {}
  r = r
  w = w
  Sems = {r, w}
  Mutexes = {}
  IrqSems = {}
  MaxVal = 9
  Readers = {t2}
  Writers = {t3}
  MaxReads = 2
SPECIFICATION RWSpec
CHECK_DEADLOCK FALSE
INVARIANT OneWriterOrReaders
