SPECIFICATION Spec
CONSTANTS
  c1 = c1
  c2 = c2
  Worker = worker
  Consumers = {c1, c2}
  Scenarios <- AllScenarios
INVARIANTS
  Accounted
  ChunksFit
  AssembledFaithful
PROPERTIES
  ImplementsContract
CHECK_DEADLOCK FALSE
