SPECIFICATION Spec
CONSTANTS
    TicksPerSecond = 10
    Unrepresentable = {"nul"}
    Members <- MCMembers
    InlineThreshold = 1
    XattrCap = 2
    MaxMembers = 4
INVARIANTS
    TreeIsArchive
    LinksAreShared
    StagedIsSerial
    TarRoundTrips
    CommandsAgree
    ExtractIsTree
PROPERTY ExtractEnds
CHECK_DEADLOCK FALSE
