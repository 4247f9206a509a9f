\* Every sequence of four pushes, across the pointer classes and without pointers.
CONSTANTS
    Values <- AllValues
    Pushed <- SomeValues
    ClassEnds <- NearEnds
    MaxPushes = 4
    Height <- AllHeights
    DepthLimit <- MostNested
SPECIFICATION Spec
INVARIANTS TypeOK PointersAim CopiesCostTheSame DecodesBack PointersPay
CHECK_DEADLOCK FALSE
