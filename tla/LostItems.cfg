SPECIFICATION Spec
CONSTANTS
  email = email
  invite = invite
  move = move
  task = task
  w1 = w1
  w2 = w2
  a1 = a1
  a2 = a2
  a3 = a3
  NoCall = NoCall
  Calls = {email, invite}
  Gated = {invite}
  Items = {task}
  Unsupported = {}
  MaxRetries = 1
  MaxIterations = 3
  Workers = {w1}
  Approvers = {a1}
  Redelivers = FALSE
  DurableQueue = FALSE
  StoreFails = FALSE
  MaxCrashes = 0
  ConcurrentResolvers = FALSE
PROPERTIES
  ItemsKept
CHECK_DEADLOCK FALSE
