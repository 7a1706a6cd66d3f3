CONSTANTS
  Slabs = {a, b, c}
  PerSlab = 2
  NULL = NULL
SPECIFICATION Spec
CHECK_DEADLOCK FALSE
INVARIANT FreeNeverCrashes
