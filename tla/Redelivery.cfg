SPECIFICATION Spec
CONSTANTS
  email = email
  invite = invite
  move = move
  task = task
  w1 = w1
  w2 = w2
  a1 = a1
  a2 = a2
  a3 = a3
  NoCall = NoCall
  Calls = {email, invite}
  Gated = {invite}
  Items = {}
  Unsupported = {}
  MaxRetries = 2
  MaxIterations = 2
  Workers = {w1, w2}
  Approvers = {a1, a2}
  Redelivers = TRUE
  DurableQueue = TRUE
  StoreFails = TRUE
  MaxCrashes = 1
  ConcurrentResolvers = FALSE
INVARIANTS
  TypeOK
  IInv
  SingleOwner
  RetryBudget
  TranscriptAssembled
PROPERTIES
  ExecutedIsFinal
  SettledIsFinal
  ImplementsLifecycle
CHECK_DEADLOCK FALSE
