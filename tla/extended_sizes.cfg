\* A list of 29 elements: its size takes the place of its type.
CONSTANTS
    Tags <- TwoTags
    Extensions <- Arrays
    Sizes <- ListLengths
    Numbers <- Nothing
    Offsets <- Nothing
    MaxHeaders = 2
SPECIFICATION Spec
INVARIANTS SizesKept
CHECK_DEADLOCK FALSE
