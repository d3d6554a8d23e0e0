SPECIFICATION Spec
CONSTANTS
  root = root
  None = None
  Inode = {root, i1, i2, i3}
  Name = {n1, n2}
  Depth = 3
  MaxSons = 3
INVARIANTS TypeOK OneParent NamesAreSons
SYMMETRY Symmetry
PROPERTY Promised
CHECK_DEADLOCK FALSE
