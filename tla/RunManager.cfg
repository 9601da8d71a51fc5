SPECIFICATION Spec
CONSTANTS
  Runs = {"r1", "r2"}
  NoRun = NoRun
  Ids = {"i1", "i2"}
  IdOf <- MCIdOf
  Handlers = {h1, h2}
  Stages = {"work", "interactive", "gate"}
  MaxStages = 1
  MaxBoots = 2
  Resumed = {"r2"}
  MaxRequests = 3
INVARIANTS
  TypeOK
  
PROPERTIES
  
  AskedRunsEnd
CHECK_DEADLOCK FALSE
