SPECIFICATION Spec
CONSTANTS
  MAX_ORDER = 3
  buddy_size <- MCbuddy_size
  Size = {1, 2, 3, 7, 9}
  Area = {a1, a2}
SYMMETRY Symmetry
INVARIANTS Partition MaxIndexIsExact Coalesced
