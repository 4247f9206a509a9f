\* IPv6 databases, by default, without aliases, or without reserved networks: three inserts around the special places.
CONSTANTS
    IpVersion = "V6"
    OptionSets <- Builders6
    Depth = 4
    V4Depth = 3
    AliasNets <- Aliases6
    ReservedList <- Reserved6
    InsertNets <- Mixed6
    InsertRanges <- OverAliases
    Values <- TwoValues
    Closures <- Cycling
    Limits <- Roomy
    Gap = 2
    ValueLen <- Lengths
    MaxCalls = 3
    None = none
SPECIFICATION Spec
INVARIANTS TypeOK FileAnswers AliasesAgreeWhereInstalled Reproducible LoadRoundTrip
PROPERTIES LaterInsertsWin RangeStopsAtRefusal
CHECK_DEADLOCK FALSE
