SPECIFICATION MapSpec
CONSTANTS
  NULL = NULL
  k1 = k1
  k2 = k2
  k3 = k3
  k4 = k4
  Key = {k1, k2, k3, k4}
  HashCode <- MCHashCode
  Value = {v1, v2}
  DEFAULT_MAP_SIZE = 2
  MaxListSize = 3
  Node = {e1, e2}
SYMMETRY Symmetry
INVARIANTS MapTypeOK MapIsFunction PutsDoNotDisturb
CHECK_DEADLOCK FALSE
