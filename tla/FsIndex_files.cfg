SPECIFICATION Spec
CONSTANTS
  f1 = f1
  None = None
  SLAB <- MCSlab
  SIZE_T = 64
  Worker = {w1, w2}
  Inode = {f1, f2}
  CHUNK_NUM = 2
  CHUNK_SIZE = 2
  SLOT_NUM = 2
  MaxOffset = 4
  MaxSize = 2
ACTION_CONSTRAINT Pieces
CHECK_DEADLOCK FALSE
SYMMETRY Symmetry
INVARIANTS StableTarget SizeIsSum ChunksBelong BitmapExact SlabIsUnused
PROPERTY Owned
