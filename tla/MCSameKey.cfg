CONSTANTS
    Hyperobjects = {h1, h2}
    Bounds <- MCBounds
    None = None
SPECIFICATION Spec
INVARIANT SameKey
