CONSTANTS
  Threads = {t1, t2, t3, t4}
  NULL = NULL
  Boot = t1
  Idle = {t1}
  SleepAlone = TRUE
  Killable = {}
  IrqWakes = {}
  r = r
  w = w
  Sems = {r, w}
  Mutexes = {}
  IrqSems = {}
  MaxVal = 9
  Readers = {}
  Writers = {t2, t3, t4}
  MaxReads = 0
SPECIFICATION RWFairSpec
CHECK_DEADLOCK FALSE
INVARIANT OneWriter
PROPERTY SomeWriterGetsIn
