\* Up to three images; deflating may lengthen their rows by up to two bytes.
CONSTANTS
    Chunk = 3
    Files <- All
    MaxArgs = 3
    Word = 32
    Overhead = 2
SPECIFICATION Spec
CHECK_DEADLOCK FALSE
INVARIANTS
    DamageContained
    Concatenated
    StaysInRoom
