SPECIFICATION WorkflowSpec
CONSTANTS
  r1 = r1
  Releases = {r1}
  Original = original
  Unfit = {}
  InspectFaults = FALSE
  None = None
  Discipline = "free"
  LostJobs = FALSE
PROPERTIES
  CommittedIsLeftAlone
