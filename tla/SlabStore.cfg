\* Two readers, two calls each.
SPECIFICATION StoreSpec
CONSTANTS
  plain = plain
  seek = seek
  huge = huge
  Keys <- MCKeys
  Size <- MCSize
  EntryCapacity = 2
  ByteBudget = 4
  Threads = {t1, t2}
  FrameLens <- MCFrameLens
  FrameCapacity = 1
  FrameBudget = 1
  Files <- MCFiles
  Offsets = {1, 4}
  Wants = {3}
  MaxCalls = 2
INVARIANTS
  CachesConsistent
  ReadIsExact
PROPERTIES
  EveryReadReturns
