CONSTANTS
  Nodes <- MCNodes
  Start = "s"
  Exit = "x"
  Shapes <- MCShapes
  Present <- MCPresent
  Succ <- MCSucc
  Reach <- MCReach
  Original <- MCOriginal
  Editable = {"plan"}
  Keys <- MCKeys
  VarKeys = {"var.p"}
  Output <- MCOutput
  Length <- MCLength
  Npos <- MCNpos
  Within <- MCWithin
  FoundAt <- MCFoundAt
  Absent = Absent
  Partial = Partial
  NoStamp = NoStamp
  MaxEdits = 1
  MaxCommands = 3
SPECIFICATION Spec
INVARIANTS TypeOK  SkippedIsDone
CHECK_DEADLOCK FALSE
