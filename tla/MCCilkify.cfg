CONSTANTS
    Workers = {w0, w1, w2}
    First = w0
    MaxRegions = 2
    MaxSpawns = 2
    None = None
SPECIFICATION FairSpec
INVARIANTS CilkifyInv OneRoot RegionOver
PROPERTIES RegionEnds ShutdownEnds
CHECK_DEADLOCK FALSE
