SPECIFICATION Spec
CONSTANTS
  Releases = {r1, r2}
  Original = original
  Unfit = {}
  InspectFaults = FALSE
  None = None
SYMMETRY ReleaseSymmetry
INVARIANTS
  TypeOK
  InductiveInv
  WatchdogArmed
  OutageIsWatched
  ServiceRecoverable
PROPERTIES
  RecordsBornOut
  OnlyRollbackUndoesCommit
  Lifecycle
  ImplementsContract
