\* Two inserts of every kind of data over two addresses, by every strategy.
CONSTANTS
    Addresses <- Both
    Nets <- Networks
    Data <- AllData
    MaxInserts = 2
    I32Max = 1
    None = none
    Texts <- Strings
    Nesting = 2
    a = 11
    b = 12
SPECIFICATION Spec
INVARIANTS TypeOK Projected StoredOnce Transparent
PROPERTIES MergesPathwise
CHECK_DEADLOCK FALSE
