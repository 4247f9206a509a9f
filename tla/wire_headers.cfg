\* Headers, integers and pointers on both sides of every class, two in a row;
\* nodes of records on both sides of every limit, two in a row.
CONSTANTS
    Tags <- AllTags
    Extensions <- AllExtensions
    Sizes <- BoundarySizes
    Numbers <- BoundaryNumbers
    Offsets <- BoundaryOffsets
    MaxHeaders = 2
    Records <- BoundaryRecords
    MaxLength = 2
SPECIFICATION SectionsSpec
INVARIANTS TypeOK HeadersReadBack NumbersReadBack PricedExactly NodesAligned NodesReadBack
CHECK_DEADLOCK FALSE
