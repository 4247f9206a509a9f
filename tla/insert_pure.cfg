\* Depth 2, four pure closures, two adjacent reserved host routes.
CONSTANTS
    Depth = 2
    Ids = {1, 2}
    None = none
    Ops <- PureClosures
    ReservedNets <- AdjacentReserved
    MaxNodes = 8
SPECIFICATION Spec
INVARIANTS TypeOK TreeShape MergedWhereWalked EveryAddressResolves
PROPERTIES OutsideUntouched AtomicInsert InsertReturns
