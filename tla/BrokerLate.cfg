SPECIFICATION TrimmedSpec
CONSTANTS
  Releases = {r1, r2}
  Original = original
  Unfit = {r2}
  InspectFaults = TRUE
  None = None
INVARIANTS
  LateTypeOK
  LateInductiveInv
  HeldRecordInv
  RollbackTargetRetained
  StrandedRecordIsHarmless
PROPERTIES
  LossOnlyIfOvertaken
  ReportedCommitStands
