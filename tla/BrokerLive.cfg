SPECIFICATION FairSpec
CONSTANTS
  Releases = {r1}
  Original = original
  Unfit = {}
  InspectFaults = FALSE
  None = None
INVARIANTS
  RestoreCanResume
PROPERTIES
  CutoverSettles
  WatchdogRetires
  OutageRepaired
