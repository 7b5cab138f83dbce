SPECIFICATION FairSpec
CONSTANTS
  Ids = {1, 2, 3}
  Limits = {1, 2}
  MaxScore = 6
  Grain = 3
  PgVector = FALSE
  MaxWrites = 2
  NoCursor = NoCursor
INVARIANTS
  ServedOnce
  NoneSkipped
PROPERTIES
  WalkEnds
CHECK_DEADLOCK FALSE
