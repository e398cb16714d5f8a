SPECIFICATION MCSpec
CONSTANTS
    Uses = {u1, u2, u3}
    Blocks = {k1, k2, k3}
    Vals = {0, 1}
    NBUF = 2
    None = None
    MaxPinned = 1
SYMMETRY Symmetry
INVARIANTS OneBufferPerBlock BufferAvailable RequestPending
PROPERTIES BlocksAreAtomic
