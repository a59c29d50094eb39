\* Two threads, each with up to two traversals: far below the int range.
CONSTANTS
  MaxThreads = 2
  MaxCount = 4
  IntMax = 8
  Uint64 = 64
SPECIFICATION FairSpec
INVARIANTS GracePeriod
PROPERTIES Released
