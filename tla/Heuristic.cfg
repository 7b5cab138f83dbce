SPECIFICATION HSpec
CONSTANTS
  w1 = w1
  w2 = w2
  a1 = a1
  a2 = a2
  NoCall = NoCall
  Calls <- AllCalls
  Gated <- GatedCalls
  Items <- AllItems
  Texts <- Meetings
  MaxPlanned = 3
  Unsupported = {}
  MaxRetries = 1
  MaxIterations = 3
  Workers = {w1, w2}
  Approvers = {a1, a2}
  Redelivers = TRUE
  DurableQueue = TRUE
  StoreFails = TRUE
  MaxCrashes = 1
  ConcurrentResolvers = FALSE
SYMMETRY Symmetry
INVARIANTS
  NothingForgotten
  SpokenOrder
  BudgetEnough
  UnheardOnlyByResume
CHECK_DEADLOCK FALSE
