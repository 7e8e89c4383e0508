\* Three Tools, of which one is not granted and two share a source.
SPECIFICATION FairSpec
CONSTANTS
  Tools = {"ta", "tb", "tc"}
  BaseTools = {"ta", "tb"}
  Terminal = {"ta"}
  Facts = {"f1"}
  SourcesOf <- Mixed
  MaxSteps = 4
  MaxToolCalls = 2
  MaxIdentical = 1
  MaxNoProgress = 2
  SourcePolicy = "required_if_tool_used"
  MaxBatch = 2
  MaxDeltas = 1
INVARIANTS
  BudgetsHold
  AnswerComesLast
  EvidenceIsSound
PROPERTIES
  DeniedToolNotEntered
  EveryExecutionEnds
CHECK_DEADLOCK FALSE
