SPECIFICATION Spec
CONSTANTS
  Images = {a, b}
  Procs = {p1}
  NameOrder <- MCNameOrder
  Sources <- MCSources
  Profiles <- MCProfiles
  RwProfiles <- MCRwProfiles
  Starts <- MCStarts
  InlineMax = 1
  SlabCap = 3
  MaxCommands = 2
  MaxFaults = 0
INVARIANT EditsKeepOtherFiles
CHECK_DEADLOCK FALSE
