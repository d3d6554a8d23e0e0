SPECIFICATION Spec
CONSTANTS
  SERVERNUM = 3
  Bank = {b1}
  MaxWrites = 2
  MaxDrops = 3
CHECK_DEADLOCK FALSE
INVARIANT RecoveredIsCurrent
