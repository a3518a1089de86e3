SPECIFICATION FairSpec
CONSTANTS
  Requests = {q1, q2}
  ErrorTypes <- MCErrorTypes
  None = None
INVARIANTS
  TypeOK
  SchemaLossDisclosed
  WaitsOnOpenClient
PROPERTIES
  EveryRequestEnds
  DrainEnds
