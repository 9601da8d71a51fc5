SPECIFICATION Spec
CONSTANTS
  Calls = {"a", "b"}
  Input <- MCInput
  Capacity = 1
  Deadlined = {"a"}
  Closers = {"b"}
  Readers = {"a"}
  MaxOutput <- MCOutput
  MaxKills = 1
INVARIANTS
  TypeOK
  OutputIsComplete
  TimedOutIsGone
PROPERTIES
  CallsReturn
CHECK_DEADLOCK FALSE
