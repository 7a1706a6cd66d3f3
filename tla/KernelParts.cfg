CONSTANTS
  Threads = {t1, t2, t3, t4}
  NULL = NULL
  Length = 4
  KeyStrings = {0, 1, 3}
  Wanted = {1, 3}
  MaxTyped = 9
  NumModules = 3
  Missing = 0
  RequiredLists <- MCRequired
  LoadAfterLists <- MCLoadAfter
  Consoles = {0, 2}
  Tests = {0, 3}
  Users = {u1, u2}
  Blocks = {b1, b2, b3}
  PageFrames = {p1, p2, p3}
  NoPage = NoPage
  Wild = Wild
  MaxEvict = 2
  Boot = t1
  Sems = {m, s, d}
  Mutexes = {m}
  IrqSems = {s, d}
  MaxVal = 2
SPECIFICATION PartsSpec
CHECK_DEADLOCK FALSE
INVARIANTS ReadyListSound KeyboardSound ModulesInOrder CacheSound
PROPERTIES FifoSpec EvictsOldestIdle LoaderEnds LoneWaitReturns
