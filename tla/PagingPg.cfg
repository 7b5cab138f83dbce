SPECIFICATION Spec
CONSTANTS
  Ids = {1, 2, 3}
  Limits = {1, 2}
  MaxScore = 6
  Grain = 3
  PgVector = TRUE
  MaxWrites = 0
  NoCursor = NoCursor
INVARIANTS
  ServedOnce
CHECK_DEADLOCK FALSE
