\* A range that begins at :: needs a shift by the whole word.
CONSTANTS
    WordBits = 4
    V4Bits = 2
SPECIFICATION Spec
INVARIANTS MinimalCover
CHECK_DEADLOCK FALSE
