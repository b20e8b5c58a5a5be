CONSTANTS
    Hyperobjects = {h1, h2, h3}
    Bounds <- MCBounds
    None = None
SPECIFICATION Spec
SYMMETRY Symmetry
INVARIANTS IdsUnique NothingDropped ViewsSerial ReducersInv
