\* Streaming and layer writes by a pool of two threads.
SPECIFICATION Spec
CONSTANTS
  Trees <- MCTrees
  Chunks <- MCChunks
  SizeOf <- MCSizeOf
  ClassOf <- MCClassOf
  Footprint <- MCFootprint
  DictSaving <- MCDictSaving
  Configs <- MCConfigs
  BaseDrops <- MCBase
  BaseDicts = {"text"}
  Workers = {w1, w2}
  Jobs = {"directory", "layer"}
  Capacity = 1
  CacheMax = 1
  ChunkThreshold = 2
  WholeThreshold = 4
  MaxContent = 3
  InlineThreshold = 2
  InlineMax = 1
  MinClass = 2
  MaxSamples = 2
  DictBytes = 2
  MaxWrites = 2
INVARIANTS
  WriterTypeOK
  SameAsSequential
  EveryFileReadsBack
PROPERTIES
  WriteFinishes
CHECK_DEADLOCK FALSE
