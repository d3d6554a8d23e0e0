SPECIFICATION Spec
CONSTANTS
    DIRECT_INDEX_NUMS = 1
    INDIRECT_INDEX_NUMS = 2
    CHUNK_SIZE = 2
    Worker = {w1, w2}
    Chunk = {c1, c2, c3}
    None = None
    Offsets <- MCOffsets
INVARIANT BackPointers
PROPERTY OneArray
SYMMETRY Perms
CHECK_DEADLOCK FALSE
