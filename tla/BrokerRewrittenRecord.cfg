SPECIFICATION Spec
CONSTANTS
  Releases = {r1}
  Original = original
  Unfit = {}
  InspectFaults = FALSE
  None = None
PROPERTIES
  RolledBackIsFinal
