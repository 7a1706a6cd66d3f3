CONSTANTS
  MaxOrder = 2
  Limit1MB = 1
  Limit4GB = 14
  MaxExtent = 15
  Ranges <- MCRanges
  BitmapFrames = 1
  VmPages = 10
  VmOverhead = 3
  Slabs = {0, 2, 4}
  PerSlab = 2
  NULL = NULL
  SlabOrder = 1
  LargeOrders = {2}
  StackOrder = 1
SPECIFICATION HeapSpec
CHECK_DEADLOCK FALSE
INVARIANTS MemoryAccounted CacheIsExact
PROPERTY PoolSpec
