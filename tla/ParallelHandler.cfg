SPECIFICATION Spec
CONSTANTS
  Nodes <- MCNodes
  Start = "start"
  Exit = "exit"
  NoNode = NoNode
  NoCheckpoint = NoCheckpoint
  Kind <- MCKind
  Out <- MCOut
  Rank <- MCRank
  Outcomes <- MCOutcomes
  MaxRetries <- MCMaxRetries
  JoinPolicy <- MCJoinPolicy
  JoinThreshold <- MCJoinThreshold
  Worktrees <- MCWorktrees
  MaxResumes = 1
INVARIANTS
  TypeOK
  BranchesAreJoined
  JoinPolicyHonoured
PROPERTIES
  KeptBranchNotRestarted
  CancelEndsRun
CHECK_DEADLOCK FALSE
