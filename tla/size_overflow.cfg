\* A payload longer than the widest size field.
CONSTANTS
    Tags <- TwoTags
    Extensions <- Nothing
    Sizes <- TooLong
    Numbers <- Nothing
    Offsets <- BoundaryOffsets
    MaxHeaders = 1
SPECIFICATION Spec
INVARIANTS SizesKept
CHECK_DEADLOCK FALSE
