SPECIFICATION Spec
CONSTANTS
  Images = {a, b}
  Procs = {p1, p2}
  NameOrder <- MCNameOrder
  Sources <- MCSources
  Profiles <- MCProfiles
  RwProfiles <- MCRwProfiles
  Starts <- MCStarts
  InlineMax = 1
  SlabCap = 3
  MaxCommands = 2
  MaxFaults = 1
SYMMETRY MCSymmetry
INVARIANTS
  CommandsKeepTrees
  ChecksAreEnough
  NoMixedImage
  SignatureFixesTheTree
  CompactionKeepsReferenced
CHECK_DEADLOCK FALSE
