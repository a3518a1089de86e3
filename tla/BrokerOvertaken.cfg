SPECIFICATION LateSpec
CONSTANTS
  Releases = {r1}
  Original = original
  Unfit = {}
  InspectFaults = FALSE
  None = None
INVARIANTS
  ServiceRecoverable
