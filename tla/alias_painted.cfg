\* Data inserted over a whole alias network stays in the file.
CONSTANTS
    IpVersion = "V6"
    OptionSets <- JustDefault
    Depth = 4
    V4Depth = 3
    AliasNets <- Aliases6
    ReservedList <- NoReserved
    InsertNets <- Around6
    InsertRanges <- NoRanges
    Values <- TwoValues
    Closures <- OneClosure
    Limits <- Roomy
    Gap = 2
    ValueLen <- Lengths
    MaxCalls = 2
    None = none
SPECIFICATION Spec
INVARIANTS AliasSpaceCarved
CHECK_DEADLOCK FALSE
