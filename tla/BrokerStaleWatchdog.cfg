SPECIFICATION Spec
CONSTANTS
  Releases = {r1, r2}
  Original = original
  Unfit = {}
  InspectFaults = FALSE
  None = None
PROPERTIES
  NoAutomaticRestoreAfterCommit
