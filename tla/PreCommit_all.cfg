SPECIFICATION Spec
CONSTANTS
  Missing = Missing
  Broken = Broken
  NoParams = NoParams
  Start <- MCStart
  Contents <- MCContents
  Written = {"Schema", "Testing"}
  Rewrite <- MCRewrite
  WorkflowNames <- MCWorkflowNames
  mermaidID <- MCMermaidID
  MaxEdits = 2
  MaxFails = 7
INVARIANTS PassMeansCurrent LabelsDocumented GraphTellsJobs SixAttempts
CHECK_DEADLOCK FALSE
