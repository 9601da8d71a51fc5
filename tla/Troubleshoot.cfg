SPECIFICATION Spec
CONSTANTS
  Files = {"f"}
  Branches = {"main", "other"}
  Main = "main"
  Sessions = {"e1", "e2", "h1"}
  EngineSessions = {"e1", "e2"}
  Mutating = {"h1"}
  MaxAttempts = 1
  MaxReruns = 1
  MaxCrashes = 1
  MaxMishaps = 1
  MaxChanges = 1
  NoSession = NoSession
INVARIANTS
  TypeOK
  OneAgentPerRun
  InFlightIsLive
  AttemptsBounded
PROPERTIES
  UncommittedWorkSurvives
  GuardIsReleased
CHECK_DEADLOCK FALSE
