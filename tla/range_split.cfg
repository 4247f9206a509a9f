\* Every pair of endpoints of a 5-bit IPv6 and a 3-bit IPv4 space.
CONSTANTS
    WordBits = 5
    V4Bits = 3
SPECIFICATION Spec
INVARIANTS MinimalCoverElsewhere GapFree
PROPERTIES Terminates
CHECK_DEADLOCK FALSE
