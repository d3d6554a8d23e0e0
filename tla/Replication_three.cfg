SPECIFICATION FairSpec
CONSTANTS
  SERVERNUM = 3
  Bank = {b1}
  MaxWrites = 2
  MaxDrops = 2
CHECK_DEADLOCK FALSE
INVARIANTS IntactIsCurrent ReadIsCurrent FlagsMatchThread IntactServes
PROPERTY AccessEnds
