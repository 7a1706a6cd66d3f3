CONSTANTS
  Threads = {t1, t2, t3, t4, t5}
  NULL = NULL
  Boot = t1
  Idle = {t1}
  SleepAlone = TRUE
  Killable = {}
  IrqWakes = {}
  r = r
  w = w
  Sems = {r, w}
  Mutexes = {}
  IrqSems = {}
  MaxVal = 9
  Readers = {t4,t5}
  Writers = {t2, t3}
  MaxReads = 3
SPECIFICATION RWSpec
CHECK_DEADLOCK FALSE
INVARIANT ReadersSound
PROPERTY ReadersWaitForWriters
