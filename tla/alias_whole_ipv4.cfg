\* One value for all of IPv4 leaves no IPv4 root to alias.
CONSTANTS
    IpVersion = "V6"
    OptionSets <- JustDefault
    Depth = 4
    V4Depth = 3
    AliasNets <- Aliases6
    ReservedList <- NoReserved
    InsertNets <- Ipv4Only
    InsertRanges <- NoRanges
    Values <- TwoValues
    Closures <- OneClosure
    Limits <- Roomy
    Gap = 2
    ValueLen <- Lengths
    MaxCalls = 2
    None = none
SPECIFICATION Spec
INVARIANTS AliasesAgree
CHECK_DEADLOCK FALSE
