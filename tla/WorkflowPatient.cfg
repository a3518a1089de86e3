SPECIFICATION FairWorkflowSpec
CONSTANTS
  r1 = r1
  r2 = r2
  Releases = {r1, r2}
  Original = original
  Unfit = {}
  InspectFaults = FALSE
  None = None
  Discipline = "patient"
  LostJobs = FALSE
INVARIANTS
  OneOpenRelease
  RestoreCanResume
PROPERTIES
  CommittedIsLeftAlone
  CutoverSettles
