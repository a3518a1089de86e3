SPECIFICATION FairWorkflowSpec
CONSTANTS
  r1 = r1
  Releases = {r1}
  Original = original
  Unfit = {}
  InspectFaults = FALSE
  None = None
  Discipline = "once"
  LostJobs = TRUE
INVARIANTS
  WorkflowTypeOK
  FailedRestoreKeepsTimer
PROPERTIES
  RunEnds
  RunLeavesService
