CONSTANTS
    Modulus = 4
    Bits = {"b0", "b1"}
    Lo = 0
    Hi = 1
    DefaultValue = 0
    DefaultIndex = 0
    Exemplar = "e"
    Classes <- SpliceFrontOnly
    Numbers = {1, 3}
    Patterns <- MCPatterns
    Elements = {"a", "b"}
    OtherAllocator <- SpliceFrontOnly
    MaxStrands = 3
    MaxUpdates = 3
SPECIFICATION Spec
INVARIANT SerialValue
CHECK_DEADLOCK FALSE
