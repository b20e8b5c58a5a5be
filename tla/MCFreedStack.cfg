CONSTANTS
    Workers = {1, 2}
    Boss = 1
    Frames = {1, 2, 3, 4}
    Roots = {1}
    Code <- Unwound2
    MaxClosures = 5
    MaxFibers = 6
SPECIFICATION Spec
INVARIANT StacksAllocated
