CONSTANTS
    Workers = {1, 2, 3}
    Boss = 1
    Frames = {1, 2, 3, 4}
    Roots = {1}
    Code <- ThirdThrows
    MaxClosures = 5
    MaxFibers = 5
SPECIFICATION Spec
INVARIANT SerialException
