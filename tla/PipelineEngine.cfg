SPECIFICATION Spec
CONSTANTS
  Nodes <- MCNodes
  Labels <- MCLabels
  Start = "start"
  Exit = "exit"
  NoNode = NoNode
  NoCheckpoint = NoCheckpoint
  Kind <- MCKind
  Out <- MCOut
  Rank <- MCRank
  FileOrder <- MCRank
  Outputs <- MCOutputs
  Outcomes <- MCOutcomes
  MaxRetries <- MCMaxRetries
  AllowPartial <- MCAllowPartial
  Recovery <- MCRecovery
  GoalGates <- MCGoalGates
  CycleLimit = 2
  Troubled <- MCTroubled
  MaxTries = 1
  Verdicts = {"Promoted", "Resumed", "Escalated", "Advisory"}
  MaxResumes = 1
INVARIANTS
  TypeOK
  CompletedReallyRan
  
  
PROPERTIES
  HumanDecisionSurvives
  
  RunsEnd
CHECK_DEADLOCK FALSE
