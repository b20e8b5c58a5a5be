CONSTANTS
    Modulus = 4
    Bits = {"b0", "b1"}
    Lo = 0
    Hi = 1
    DefaultValue = 0
    DefaultIndex = 0
    Exemplar = "e"
    Classes <- MCClasses
    Numbers = {1, 3}
    Patterns <- MCPatterns
    Elements = {"a", "b"}
    OtherAllocator <- MCOtherAllocator
    MaxStrands = 3
    MaxUpdates = 3
SPECIFICATION Spec
INVARIANTS SerialValue MoveOutValue LeftmostKept NothingBehind LibraryInv
CHECK_DEADLOCK FALSE
