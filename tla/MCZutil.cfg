\* Up to three full chunks and a bit: empty, partial, just full and many fills.
CONSTANTS
    Chunk = 3
    MaxSize = 10
SPECIFICATION ZFairSpec
CHECK_DEADLOCK FALSE
INVARIANTS
    Copied
    Contract
PROPERTIES
    Termination
