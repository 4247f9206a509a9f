\* An IPv4 database beside the limits of its record sizes.
CONSTANTS
    IpVersion = "V4"
    OptionSets <- Builders4
    Depth = 3
    V4Depth = 1
    AliasNets <- Aliases6
    ReservedList <- Reserved4
    InsertNets <- Mixed4
    InsertRanges <- OverReserved
    Values <- WithHuge
    Closures <- Cycling
    Limits <- Tight
    Gap = 3
    ValueLen <- HugeLengths
    MaxCalls = 4
    None = none
SPECIFICATION Spec
INVARIANTS FileAnswers PinnedSizeAnswers ChosenSizeHolds
PROPERTIES LaterInsertsWin RangeStopsAtRefusal
CHECK_DEADLOCK FALSE
