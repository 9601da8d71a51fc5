SPECIFICATION Spec
CONSTANTS
  Runs = {"r1", "r2"}
  NoRun = NoRun
  Ids = {"i1", "i2"}
  IdOf <- MCIdOf
  Handlers = {h1, h2}
  Stages = {"work"}
  MaxStages = 1
  MaxBoots = 2
  Resumed = {"r2"}
  MaxRequests = 3
PROPERTY CancelIsKept
CHECK_DEADLOCK FALSE
