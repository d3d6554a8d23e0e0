SPECIFICATION Spec
CONSTANTS
  f1 = f1
  None = None
  SLAB <- MCSlab
  SIZE_T = 64
  Worker = {w1, w2}
  Inode = {f1}
  CHUNK_NUM = 1
  CHUNK_SIZE = 3
  SLOT_NUM = 1
  MaxOffset = 2
  MaxSize = 2
INVARIANT ReadFits
CHECK_DEADLOCK FALSE
