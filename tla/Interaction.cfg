SPECIFICATION FairSpec
CONSTANTS
  work = work
  chat1 = chat1
  gate1 = gate1
  fork = fork
  Stages <- MCStages
  Kind <- MCKind
  Chats = {c1}
  NoStage = NoStage
  MaxVisits = 2
  MaxPosts = 2
  MaxSchedules = 2
  MaxPauses = 1
INVARIANTS TypeOK OneStagePerPause 
PROPERTIES AnswersMeetTheirQuestions 
