CONSTANTS
    Workers = {w0, w1}
    First = w0
    MaxRegions = 2
    MaxSpawns = 1
    None = None
SPECIFICATION Spec
INVARIANT LocksReleased
