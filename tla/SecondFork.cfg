INIT ForkInit
NEXT ForkNext
CONSTANTS
  Branches = {1, 2, 3}
  Forks = {{1, 2}, {3}}
  Cleanup = "keep"
  Conflicting = FALSE
  MaxForks = 2
  MaxCommits = 1
  MaxOwn = 0
  MaxMishaps = 0
INVARIANT OnlyBranchWorkIsPicked
CHECK_DEADLOCK FALSE
