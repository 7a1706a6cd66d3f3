CONSTANTS
  Threads = {t1, t2, t3, t4}
  NULL = NULL
  Boot = t1
  Idle = {t1}
  SleepAlone = TRUE
  Killable = {t2, t3}
  IrqWakes = {t4}
SPECIFICATION MCSpec
INVARIANT ThreadsSound
PROPERTIES IdleBootSuffices ThreadsGoOn
