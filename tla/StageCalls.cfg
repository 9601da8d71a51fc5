CONSTANTS
  Branches = {1, 2, 3}
  Forks = {{1, 2}, {3}}
  Cleanup = "remove-on-success"
  Conflicting = TRUE
  MaxForks = 2
  MaxCommits = 2
  MaxOwn = 1
  MaxMishaps = 1
  Gates = {g1, g2}
  MaxRounds = 2
  MaxDepth = 2
  MaxVisits = 2
  MaxLevels = 3
  MaxRetries = 1
SPECIFICATION Spec
INVARIANTS TypeOK  BranchWorkIsKept
CHECK_DEADLOCK FALSE
