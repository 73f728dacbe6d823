SPECIFICATION Spec
CONSTANTS
    Trees <- MCTrees
    Options <- MCOptions
    InlineMax = 4
    InlineThreshold = 8
    ReadBudget = 454
    MetadataMax = 1048576
    DictMax = 1048576
INVARIANTS
    ImageRoundTrips
    SlabsRoundTrip
    TornImageIsNeverMisread
    RootsAgree
    DamageChangesRoot
CHECK_DEADLOCK FALSE
