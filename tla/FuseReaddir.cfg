SPECIFICATION Spec
CONSTANTS
    TicksPerSecond = 10
    Unrepresentable = {}
    Image <- MCImage
    MaxRoom = 3
INVARIANT ListingIsComplete
CHECK_DEADLOCK FALSE
