CONSTANTS
    Workers = {1, 2, 3, 4}
    Boss = 1
    Frames = {1, 2, 3, 4, 5, 6, 7, 8, 9, 10, 11, 12, 13, 14}
    Roots = {1, 5, 11}
    Code <- Regions
    MaxClosures = 9
    MaxFibers = 7
SPECIFICATION FairSpec
INVARIANTS SchedulerInv TreeConsistent NoLostWakeup OneOwner Asserts FiberAsserts SerialReduction StacksAllocated NoLeak SerialException
PROPERTY Terminates
