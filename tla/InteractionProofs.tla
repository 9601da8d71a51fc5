--------------------------- MODULE InteractionProofs ---------------------------
(***************************************************************************)
(* What holds between a run and the people around it for any stages, any   *)
(* number of requests, pauses and schedules, and in any order of them.     *)
(***************************************************************************)
EXTENDS Interaction, TLAPS

Engaged == {"work", "fork", "populate", "question", "session", "ask", "gate", "answered",
            "completed"}
Asking == {"ask", "gate", "answered"}
Over == {"ended_well", "ended_badly", "gone"}
ChatStates == [pc : {"none", "agent", "write", "done"}, about : Stages \union {NoStage},
               node : Stages \union {NoStage}, read : SUBSET Chats]

-----------------------------------------------------------------------------
(* What each event makes of the view.                                      *)

ViewFields(v, node, current, question) ==
  v \in Views /\ v.node = node /\ v.current = current /\ v.question = question

LEMMA ShownStarted ==
  ASSUME NEW v \in Views, NEW s \in Stages
  PROVE  ViewFields(Shown(v, "STAGE_STARTED", s), [v.node EXCEPT ![s] = "running"], s, v.question)
BY DEF Shown, Views, ViewFields

LEMMA ShownRetrying ==
  ASSUME NEW v \in Views, NEW s \in Stages
  PROVE  ViewFields(Shown(v, "STAGE_RETRYING", s), [v.node EXCEPT ![s] = "running"],
                    v.current, v.question)
BY DEF Shown, Views, ViewFields

LEMMA ShownCompleted ==
  ASSUME NEW v \in Views, NEW s \in Stages
  PROVE  ViewFields(Shown(v, "STAGE_COMPLETED", s), [v.node EXCEPT ![s] = "completed"],
                    IF v.current = s THEN NoStage ELSE v.current, v.question)
BY DEF Shown, Views, ViewFields

LEMMA ShownFailed ==
  ASSUME NEW v \in Views, NEW s \in Stages
  PROVE  ViewFields(Shown(v, "STAGE_FAILED", s), [v.node EXCEPT ![s] = "failed"],
                    IF v.current = s THEN NoStage ELSE v.current, v.question)
BY DEF Shown, Views, ViewFields

LEMMA ShownQuestion ==
  ASSUME NEW v \in Views, NEW s \in Stages
  PROVE  ViewFields(Shown(v, "HUMAN_QUESTION", s), v.node, v.current,
                    v.question \/ Kind[s] = "gate")
BY DEF Shown, Views, ViewFields

LEMMA ShownAnswer ==
  ASSUME NEW v \in Views, NEW s
  PROVE  ViewFields(Shown(v, "HUMAN_ANSWER", s), v.node, v.current, FALSE)
BY DEF Shown, Views, ViewFields

LEMMA ShownOver ==
  ASSUME NEW v \in Views, NEW s
  PROVE  /\ Shown(v, "PIPELINE_COMPLETED", s) = v
         /\ ViewFields(Shown(v, "PIPELINE_FAILED", s),
              [n \in Stages |-> IF v.node[n] = "running" THEN "failed" ELSE v.node[n]],
              NoStage, v.question)
BY DEF Shown, Views, ViewFields

-----------------------------------------------------------------------------
(* What the records of the run become.                                     *)

LEMMA TimerType ==
  /\ \A n \in 0..MaxSchedules : [pc |-> "sleep", at |-> n] \in Timers
  /\ \A t \in Timers, p \in {"due", "gone"} : [t EXCEPT !.pc = p] \in Timers
  /\ \A t \in Timers : t.at \in 0..MaxSchedules
BY DEF Timers

SessionFields(s, active, continued, result, node) ==
  /\ s \in Sessions /\ s.active = active /\ s.continued = continued
  /\ s.result = result /\ s.node = node

LEMMA SessionType ==
  ASSUME NEW s \in Sessions
  PROVE  /\ s.active \in BOOLEAN /\ s.continued \in BOOLEAN /\ s.result \in 0..MaxPosts
         /\ s.node \in Stages \union {NoStage}
         /\ \A b \in BOOLEAN, n \in 0..MaxPosts :
              SessionFields([s EXCEPT !.continued = b, !.result = n], s.active, b, n, s.node)
         /\ \A b \in BOOLEAN :
              SessionFields([s EXCEPT !.active = FALSE, !.continued = b],
                            FALSE, b, s.result, s.node)
         /\ SessionFields([s EXCEPT !.active = FALSE], FALSE, s.continued, s.result, s.node)
BY DEF Sessions, SessionFields

LEMMA NewSession ==
  ASSUME NEW n \in Stages, MaxPosts \in Nat
  PROVE  SessionFields([active |-> TRUE, continued |-> FALSE, result |-> 0, node |-> n],
                       TRUE, FALSE, 0, n)
BY DEF Sessions, SessionFields

LEMMA InterviewerType ==
  ASSUME NEW i \in Interviewers
  PROVE  /\ i.ready \in BOOLEAN /\ i.answer \in 0..MaxPosts
         /\ LET j == [i EXCEPT !.pending = TRUE, !.ready = FALSE] IN j \in Interviewers /\ ~j.ready
         /\ LET j == [i EXCEPT !.pending = FALSE]
            IN j \in Interviewers /\ j.ready = i.ready /\ j.answer = i.answer
         /\ \A n \in 0..MaxPosts :
              LET j == [i EXCEPT !.ready = TRUE, !.answer = n]
              IN j \in Interviewers /\ j.ready /\ j.answer = n
BY DEF Interviewers

LEMMA ResumedType ==
  ASSUME asleep \in BOOLEAN, Resumed
  PROVE  paused' = FALSE /\ resumeAt' = 0 /\ starts' = 0 /\ asleep' \in BOOLEAN
         /\ (asleep' => asleep /\ pc # "paused")
BY DEF Resumed

-----------------------------------------------------------------------------
(* Where the thread is tells which stage it is at, ...                     *)
StageInv ==
  /\ pc \in Engaged \union {"start", "paused"} => stage \in Stages
  /\ pc \in {"populate", "session"} => Kind[stage] = "interactive"
  /\ pc \in {"ask", "gate"} => Kind[stage] = "gate"
  /\ pc = "question" => Kind[stage] \in {"interactive", "gate"}
  /\ pc \in {"failed", "ended_well"} => stage = NoStage
  /\ pc \in {"start", "paused"} => visits < MaxVisits

(* ... and only that stage is shown as running.                            *)
ViewInv == ViewShowsTheRun /\ \A s \in Stages : view.node[s] = "running" => s = stage

(* A stage that starts during a pause had been let through before it.      *)
PauseInv ==
  /\ ~paused => starts = 0
  /\ paused => starts = 0 \/ (starts = 1 /\ pc # "start")

(* An answer that waits to be taken came after its question.               *)
AnswerInv ==
  /\ pc = "session" \/ (pc = "question" /\ Kind[stage] = "interactive") => session.active
  /\ session.active => Kind[session.node] = "interactive"
  /\ session.active /\ session.continued => session.result \in fresh
  /\ pc = "gate" /\ interviewer.ready => interviewer.answer \in fresh

(* A chat that has begun finds a stage in the session when it is over.     *)
ChatInv ==
  /\ chat \in [Chats -> ChatStates]
  /\ \A c \in Chats : chat[c].pc # "none" => session.node \in Stages

Inv == TypeOK /\ StageInv /\ ViewInv /\ PauseInv /\ AnswerInv /\ ChatInv

LEMMA InitInv == Init => Inv
<1> SUFFICES ASSUME Init PROVE Inv
  OBVIOUS
<1> USE StageAssumption, BoundAssumption DEF Init
<1>1. timer \in Timers /\ session \in Sessions /\ interviewer \in Interviewers
  BY DEF Timers, Sessions, Interviewers
<1>2. view \in Views /\ view.question = FALSE /\ \A s \in Stages : view.node[s] = "none"
  BY DEF Views
<1>3. TypeOK
  <2>1. session.active = FALSE /\ asleep = FALSE /\ paused = FALSE /\ cancelled = FALSE
    OBVIOUS
  <2>2. history \in [Stages -> SUBSET Chats]
    OBVIOUS
  <2>3. /\ resumeAt = 0 /\ request = 0 /\ schedules = 0 /\ pauses = 0 /\ visits = 0 /\ posts = 0
        /\ taken = 0 /\ starts = 0 /\ fresh = {} /\ pc = "next" /\ stage = NoStage
        /\ status = "running"
    OBVIOUS
  <2>4. /\ 0 \in 0..MaxSchedules /\ 0 \in 0..MaxPauses /\ 0 \in 0..MaxVisits
        /\ 0 \in 0..MaxPosts /\ 0 \in 0..2
    OBVIOUS
  <2> HIDE DEF Init
  <2> QED BY <1>1, <1>2, <2>1, <2>2, <2>3, <2>4 DEF TypeOK, Statuses
<1>4. StageInv /\ PauseInv
  BY DEF StageInv, PauseInv, Engaged
<1>5. ViewInv
  BY <1>2 DEF ViewInv, ViewShowsTheRun
<1>6. AnswerInv
  BY DEF AnswerInv
<1>7. ChatInv
  BY DEF ChatInv, ChatStates
<1> QED BY <1>3, <1>4, <1>5, <1>6, <1>7 DEF Inv

LEMMA TypeStep == Inv /\ [Next]_vars => TypeOK'
<1> SUFFICES ASSUME Inv, [Next]_vars PROVE TypeOK'
  OBVIOUS
<1> USE StageAssumption, BoundAssumption DEF Inv, TypeOK, Statuses
<1>1. CASE NextStage
  BY <1>1 DEF NextStage, Candidates, pausing, thread, asking, chatting
<1>2. CASE WaitIfPaused
  BY <1>2 DEF WaitIfPaused, pausing, thread, asking, chatting
<1>3. CASE StartStage
  <2>1. stage \in Stages /\ Kind[stage] \in Kinds
    BY <1>3 DEF StartStage, StageInv
  <2>2. view' \in Views
    BY <1>3, <2>1, ShownStarted DEF StartStage, Emit, ViewFields
  <2>3. pc' \in {"question", "populate", "work", "fork"}
    BY <1>3, <2>1 DEF StartStage, Kinds
  <2>4. visits' \in 0..MaxVisits
    BY <1>3 DEF StartStage, StageInv
  <2> QED BY <1>3, <2>1, <2>2, <2>3, <2>4 DEF StartStage, pausing, thread, asking, chatting
<1>4. CASE Works
  <2>1. stage \in Stages
    BY <1>4 DEF Works, StageInv, Engaged
  <2>2. Shown(view, "STAGE_FAILED", stage) \in Views
        /\ Shown(view, "STAGE_RETRYING", stage) \in Views
    BY <2>1, ShownFailed, ShownRetrying DEF ViewFields
  <2>3. view' \in Views
    BY <1>4, <2>2 DEF Works, Emit
  <2> QED BY <1>4, <2>1, <2>3 DEF Works, pausing, thread, asking, chatting
<1>5. CASE Populate
  <2>1. session' \in Sessions /\ session'.active /\ session'.node = stage
    BY <1>5, NewSession DEF Populate, StageInv, Engaged, SessionFields
  <2> QED BY <1>5, <2>1 DEF Populate, pausing, thread, asking, chatting
<1>6. CASE Questions
  <2>1. stage \in Stages
    BY <1>6 DEF Questions, StageInv, Engaged
  <2>2. view' \in Views
    BY <1>6, <2>1, ShownQuestion DEF Questions, Emit, ViewFields
  <2>3. session.active => Kind[stage] # "gate"
    BY DEF AnswerInv
  <2> QED BY <1>6, <2>1, <2>2, <2>3 DEF Questions, pausing, thread, asking, chatting
<1>7. CASE SessionWaits
  <2>1. session.active /\ session.node = stage
    BY <1>7 DEF SessionWaits, AnswerInv
  <2>2. LET s == [session EXCEPT !.active = FALSE, !.continued = FALSE] IN s \in Sessions
        /\ s.active = FALSE
    BY SessionType DEF SessionFields
  <2>3. LET s == [session EXCEPT !.active = FALSE] IN s \in Sessions /\ s.active = FALSE
    BY SessionType DEF SessionFields
  <2>4. session' \in Sessions /\ (session'.active => pc' = "session" /\ session'.node = stage)
    BY <1>7, <2>1, <2>2, <2>3 DEF SessionWaits
  <2>5. session.result \in 0..MaxPosts
    BY SessionType
  <2>6. taken' \in 0..MaxPosts
    BY <1>7, <2>5 DEF SessionWaits
  <2> QED BY <1>7, <2>1, <2>2, <2>3, <2>4, <2>5, <2>6 DEF SessionWaits, pausing, thread, asking,
             chatting
<1>8. CASE Ask
  <2>1. interviewer' \in Interviewers
    BY <1>8, InterviewerType DEF Ask
  <2> QED BY <1>8, <2>1 DEF Ask, pausing, thread, asking, chatting
<1>9. CASE GateWaits
  <2>1. interviewer.answer \in 0..MaxPosts
        /\ [interviewer EXCEPT !.pending = FALSE] \in Interviewers
    BY InterviewerType
  <2>2. interviewer' \in Interviewers /\ taken' \in 0..MaxPosts
    BY <1>9, <2>1 DEF GateWaits
  <2> QED BY <1>9, <2>1, <2>2 DEF GateWaits, pausing, thread, asking, chatting
<1>10. CASE Answered
  <2>1. view' \in Views
    BY <1>10, ShownAnswer DEF Answered, Emit, ViewFields
  <2> QED BY <1>10, <2>1 DEF Answered, pausing, thread, asking, chatting
<1>11. CASE Completes
  <2>1. stage \in Stages
    BY <1>11 DEF Completes, StageInv, Engaged
  <2>2. view' \in Views
    BY <1>11, <2>1, ShownCompleted DEF Completes, Emit, ViewFields
  <2> QED BY <1>11, <2>1, <2>2 DEF Completes, pausing, thread, asking, chatting
<1>12. CASE Finishes
  <2>1. view' \in Views
    BY <1>12, ShownOver DEF Finishes, Emit, ViewFields
  <2> QED BY <1>12, <2>1 DEF Finishes, pausing, thread, asking, chatting
<1>13. CASE Reports
  BY <1>13 DEF Reports, pausing, thread, asking, chatting
<1>14. CASE WakesUp
  BY <1>14 DEF WakesUp, pausing, thread, asking, chatting
<1>15. CASE Pause
  BY <1>15 DEF Pause, pausing, thread, asking, chatting
<1>16. CASE Resume
  <2>1. paused' = FALSE /\ resumeAt' = 0 /\ starts' = 0 /\ asleep' \in BOOLEAN
        /\ (asleep' => asleep)
    BY <1>16, ResumedType DEF Resume
  <2>2. 0 \in 0..MaxSchedules /\ 0 \in 0..2
    OBVIOUS
  <2> QED BY <1>16, <2>1, <2>2 DEF Resume, pausing, thread, asking, chatting
<1>17. CASE Schedule
  <2>1. schedules' \in 0..MaxSchedules /\ 0 \in 0..MaxSchedules /\ 0 \in 0..2
    BY <1>17 DEF Schedule
  <2>2. CASE timer.pc = "none"
    <3>1. timer' = [pc |-> "sleep", at |-> schedules'] /\ resumeAt' = schedules'
          /\ UNCHANGED <<paused, request, asleep, starts>>
      BY <1>17, <2>2 DEF Schedule
    <3>2. timer' \in Timers
      BY <2>1, <3>1, TimerType
    <3> QED BY <1>17, <2>1, <3>1, <3>2 DEF Schedule, thread, asking, chatting
  <2>3. CASE timer.pc # "none"
    <3>1. Resumed /\ request' = schedules' /\ timer' = timer
      BY <1>17, <2>3 DEF Schedule
    <3>2. /\ paused' = FALSE /\ resumeAt' = 0 /\ starts' = 0 /\ asleep' \in BOOLEAN
          /\ (asleep' => asleep /\ pc # "paused")
      BY <3>1, ResumedType
    <3> QED BY <1>17, <2>1, <3>1, <3>2 DEF Schedule, thread, asking, chatting
  <2> QED BY <2>2, <2>3
<1>18. CASE Continue
  <2>1. posts' \in 0..MaxPosts /\ fresh' \subseteq 1..MaxPosts
    BY <1>18 DEF Continue, Arrives
  <2>2. SessionFields([session EXCEPT !.continued = TRUE, !.result = posts'], session.active,
                      TRUE, posts', session.node)
    BY <2>1, SessionType
  <2>3. [interviewer EXCEPT !.ready = TRUE, !.answer = posts'] \in Interviewers
    BY <2>1, InterviewerType
  <2>4. session' \in Sessions /\ session'.active = session.active /\ session'.node = session.node
    BY <1>18, <2>2 DEF Continue, SessionFields
  <2>5. interviewer' \in Interviewers
    BY <1>18, <2>3 DEF Continue, PostAnswer
  <2> QED BY <1>18, <2>1, <2>2, <2>3, <2>4, <2>5 DEF Continue, Arrives, PostAnswer, pausing,
             thread, asking, chatting
<1>19. CASE Answer
  <2>1. posts' \in 0..MaxPosts /\ fresh' \subseteq 1..MaxPosts
    BY <1>19 DEF Answer, Arrives
  <2>2. interviewer' \in Interviewers
    BY <1>19, <2>1, InterviewerType DEF Answer, PostAnswer
  <2> QED BY <1>19, <2>1, <2>2 DEF Answer, Arrives, PostAnswer, pausing, thread, asking, chatting
<1>20. CASE Cancel
  BY <1>20 DEF Cancel, pausing, thread, asking, chatting
<1>21. CASE TimerLooks
  <2>1. timer' \in Timers
    BY <1>21, TimerType DEF TimerLooks
  <2> QED BY <1>21, <2>1 DEF TimerLooks, pausing, thread, asking, chatting
<1>22. CASE TimerIsDue
  <2>1. timer' \in Timers
    BY <1>22, TimerType DEF TimerIsDue
  <2> QED BY <1>22, <2>1 DEF TimerIsDue, pausing, thread, asking, chatting
<1>23. CASE TimerResumes
  <2>1. paused' = FALSE /\ resumeAt' = 0 /\ starts' = 0 /\ asleep' \in BOOLEAN
        /\ (asleep' => asleep)
    BY <1>23, ResumedType DEF TimerResumes
  <2>2. timer' \in Timers
    BY <1>23, TimerType DEF TimerResumes
  <2>3. 0 \in 0..MaxSchedules /\ 0 \in 0..2
    OBVIOUS
  <2> QED BY <1>23, <2>1, <2>2, <2>3 DEF TimerResumes, pausing, thread, asking, chatting
<1>24. CASE TimerIsJoined
  <2>1. timer' \in Timers
    BY <1>24, TimerType DEF TimerIsJoined
  <2> QED BY <1>24, <2>1 DEF TimerIsJoined, pausing, thread, asking, chatting
<1>25. ASSUME NEW c \in Chats, ChatAsks(c) PROVE TypeOK'
  BY <1>25 DEF ChatAsks, pausing, thread, asking, chatting
<1>26. ASSUME NEW c \in Chats, ChatReads(c) PROVE TypeOK'
  BY <1>26 DEF ChatReads, pausing, thread, asking, chatting
<1>27. ASSUME NEW c \in Chats, ChatWrites(c) PROVE TypeOK'
  <2>1. chat[c].read \subseteq Chats
    BY DEF ChatInv, ChatStates
  <2> QED BY <1>27, <2>1 DEF ChatWrites, pausing, thread, asking, chatting
<1>28. CASE UNCHANGED vars
  BY <1>28 DEF vars, pausing, thread, asking, chatting
<1> QED BY <1>1, <1>2, <1>3, <1>4, <1>5, <1>6, <1>7, <1>8, <1>9, <1>10, <1>11, <1>12, <1>13,
           <1>14, <1>15, <1>16, <1>17, <1>18, <1>19, <1>20, <1>21, <1>22, <1>23, <1>24, <1>25,
           <1>26, <1>27, <1>28
       DEF Next, ThreadStep, Requests, TimerStep, Terminated

LEMMA StageStep == Inv /\ [Next]_vars => StageInv'
<1> SUFFICES ASSUME Inv, [Next]_vars PROVE StageInv'
  OBVIOUS
<1> USE StageAssumption, BoundAssumption DEF Inv, StageInv, Engaged, TypeOK, Kinds
<1>1. CASE NextStage
  BY <1>1 DEF NextStage, Candidates, pausing, thread, asking, chatting
<1>2. CASE WaitIfPaused
  BY <1>2 DEF WaitIfPaused, pausing, thread, asking, chatting
<1>3. CASE StartStage
  <2>1. stage \in Stages /\ Kind[stage] \in Kinds /\ stage' = stage
    BY <1>3 DEF StartStage
  <2>2. CASE Kind[stage] = "gate"
    BY <1>3, <2>1, <2>2 DEF StartStage
  <2>3. CASE Kind[stage] = "interactive"
    BY <1>3, <2>1, <2>3 DEF StartStage
  <2>4. CASE Kind[stage] \in {"work", "fork"}
    BY <1>3, <2>1, <2>4 DEF StartStage
  <2> QED BY <2>1, <2>2, <2>3, <2>4
<1>4. CASE Works
  BY <1>4 DEF Works, Emit, pausing, thread, asking, chatting
<1>5. CASE Populate
  BY <1>5 DEF Populate, pausing, thread, asking, chatting
<1>6. CASE Questions
  BY <1>6 DEF Questions, Emit, pausing, thread, asking, chatting
<1>7. CASE SessionWaits
  BY <1>7 DEF SessionWaits, pausing, thread, asking, chatting
<1>8. CASE Ask
  BY <1>8 DEF Ask, pausing, thread, asking, chatting
<1>9. CASE GateWaits
  BY <1>9 DEF GateWaits, pausing, thread, asking, chatting
<1>10. CASE Answered
  BY <1>10 DEF Answered, Emit, pausing, thread, asking, chatting
<1>11. CASE Completes
  BY <1>11 DEF Completes, Emit, pausing, thread, asking, chatting
<1>12. CASE Finishes
  BY <1>12 DEF Finishes, Emit, pausing, thread, asking, chatting
<1>13. CASE Reports
  BY <1>13 DEF Reports, pausing, thread, asking, chatting
<1>14. CASE WakesUp
  BY <1>14 DEF WakesUp, pausing, thread, asking, chatting
<1>15. CASE Pause
  BY <1>15 DEF Pause, pausing, thread, asking, chatting
<1>16. CASE Resume
  BY <1>16 DEF Resume, Resumed, pausing, thread, asking, chatting
<1>17. CASE Schedule
  BY <1>17 DEF Schedule, Resumed, pausing, thread, asking, chatting
<1>18. CASE Continue
  BY <1>18 DEF Continue, Arrives, PostAnswer, pausing, thread, asking, chatting
<1>19. CASE Answer
  BY <1>19 DEF Answer, Arrives, PostAnswer, pausing, thread, asking, chatting
<1>20. CASE Cancel
  BY <1>20 DEF Cancel, pausing, thread, asking, chatting
<1>21. CASE TimerLooks
  BY <1>21 DEF TimerLooks, pausing, thread, asking, chatting
<1>22. CASE TimerIsDue
  BY <1>22 DEF TimerIsDue, pausing, thread, asking, chatting
<1>23. CASE TimerResumes
  BY <1>23 DEF TimerResumes, Resumed, pausing, thread, asking, chatting
<1>24. CASE TimerIsJoined
  BY <1>24 DEF TimerIsJoined, pausing, thread, asking, chatting
<1>25. ASSUME NEW c \in Chats, ChatAsks(c) PROVE StageInv'
  BY <1>25 DEF ChatAsks, pausing, thread, asking, chatting
<1>26. ASSUME NEW c \in Chats, ChatReads(c) PROVE StageInv'
  BY <1>26 DEF ChatReads, pausing, thread, asking, chatting
<1>27. ASSUME NEW c \in Chats, ChatWrites(c) PROVE StageInv'
  BY <1>27 DEF ChatWrites, pausing, thread, asking, chatting
<1>28. CASE UNCHANGED vars
  BY <1>28 DEF vars, pausing, thread, asking, chatting
<1> QED BY <1>1, <1>2, <1>3, <1>4, <1>5, <1>6, <1>7, <1>8, <1>9, <1>10, <1>11, <1>12, <1>13,
           <1>14, <1>15, <1>16, <1>17, <1>18, <1>19, <1>20, <1>21, <1>22, <1>23, <1>24, <1>25,
           <1>26, <1>27, <1>28
       DEF Next, ThreadStep, Requests, TimerStep, Terminated

LEMMA ViewStep == Inv /\ [Next]_vars => ViewInv'
<1> SUFFICES ASSUME Inv, [Next]_vars PROVE ViewInv'
  OBVIOUS
<1> USE StageAssumption, BoundAssumption DEF Inv, TypeOK, StageInv, ViewInv, ViewShowsTheRun,
       Engaged
<1>1. CASE NextStage
  BY <1>1 DEF NextStage, Candidates, pausing, thread, asking, chatting
<1>2. CASE WaitIfPaused
  BY <1>2 DEF WaitIfPaused, pausing, thread, asking, chatting
<1>3. CASE StartStage
  <2>1. stage \in Stages
    BY <1>3 DEF StartStage, StageInv, Engaged
  <2>2. view'.node = [view.node EXCEPT ![stage] = "running"] /\ view'.current = stage
        /\ (view'.question <=> view.question)
    BY <1>3, <2>1, ShownStarted DEF StartStage, Emit, ViewFields
  <2>3. Kind[stage] \in Kinds /\ stage' = stage
    BY <1>3, <2>1 DEF StartStage
  <2>4. pc' \in {"question", "populate", "work", "fork"}
    BY <1>3, <2>3 DEF StartStage, Kinds
  <2> QED BY <1>3, <2>1, <2>2, <2>3, <2>4 DEF StartStage, Views
<1>4. CASE Works
  <2>1. stage \in Stages /\ pc \in {"work", "fork"}
    BY <1>4 DEF Works, StageInv, Engaged
  <2>2. CASE pc' = "completed" /\ UNCHANGED <<stage, view>>
    BY <2>1, <2>2
  <2>3. CASE Emit("STAGE_FAILED", stage) /\ pc' \in {"failed", "next"} /\ stage' = NoStage
    <3>1. view'.node = [view.node EXCEPT ![stage] = "failed"] /\ view'.question = view.question
      BY <2>1, <2>3, ShownFailed DEF Emit, ViewFields
    <3> QED BY <2>1, <2>3, <3>1 DEF Views
  <2>4. CASE pc' = "next" /\ Emit("STAGE_RETRYING", stage) /\ UNCHANGED stage
    <3>1. view'.node = [view.node EXCEPT ![stage] = "running"] /\ view'.question = view.question
      BY <2>1, <2>4, ShownRetrying DEF Emit, ViewFields
    <3> QED BY <2>1, <2>4, <3>1 DEF Views
  <2> QED BY <1>4, <2>2, <2>3, <2>4 DEF Works
<1>5. CASE Populate
  BY <1>5 DEF Populate, pausing, thread, asking, chatting
<1>6. CASE Questions
  <2>1. stage \in Stages
    BY <1>6 DEF Questions, StageInv, Engaged
  <2>2. view'.node = view.node /\ view'.current = view.current
        /\ (view'.question <=> (view.question \/ Kind[stage] = "gate"))
    BY <1>6, <2>1, ShownQuestion DEF Questions, Emit, ViewFields
  <2> QED BY <1>6, <2>1, <2>2 DEF Questions
<1>7. CASE SessionWaits
  BY <1>7 DEF SessionWaits, pausing, thread, asking, chatting
<1>8. CASE Ask
  BY <1>8 DEF Ask, pausing, thread, asking, chatting
<1>9. CASE GateWaits
  BY <1>9 DEF GateWaits, pausing, thread, asking, chatting
<1>10. CASE Answered
  <2>1. view'.node = view.node /\ view'.current = view.current /\ (view'.question <=> FALSE)
    BY <1>10, ShownAnswer DEF Answered, Emit, ViewFields
  <2> QED BY <1>10, <2>1 DEF Answered
<1>11. CASE Completes
  <2>1. stage \in Stages
    BY <1>11 DEF Completes, StageInv, Engaged
  <2>2. view'.node = [view.node EXCEPT ![stage] = "completed"]
        /\ view'.current = (IF view.current = stage THEN NoStage ELSE view.current) /\ (view'.question <=> view.question)
    BY <1>11, <2>1, ShownCompleted DEF Completes, Emit, ViewFields
  <2> QED BY <1>11, <2>1, <2>2 DEF Completes, Views
<1>12. CASE Finishes
  <2>1. view'.question = view.question /\ stage' = stage /\ pc' \in {"ended_well", "ended_badly"}
    BY <1>12, ShownOver DEF Finishes, Emit, ViewFields
  <2>2. \A s \in Stages : view'.node[s] # "running"
    <3>1. CASE pc = "next" /\ ~cancelled
      <4>1. view' = view /\ stage = NoStage
        BY <1>12, <3>1, ShownOver DEF Finishes, Emit
      <4> QED BY <4>1
    <3>2. CASE ~(pc = "next" /\ ~cancelled)
      <4>1. view'.node = [n \in Stages |-> IF view.node[n] = "running" THEN "failed" ELSE view.node[n]]
        BY <1>12, <3>2, ShownOver DEF Finishes, Emit, ViewFields
      <4> QED BY <4>1
    <3> QED BY <3>1, <3>2
  <2> QED BY <1>12, <2>1, <2>2 DEF Finishes
<1>13. CASE Reports
  BY <1>13 DEF Reports, pausing, thread, asking, chatting
<1>14. CASE WakesUp
  BY <1>14 DEF WakesUp, pausing, thread, asking, chatting
<1>15. CASE Pause
  BY <1>15 DEF Pause, pausing, thread, asking, chatting
<1>16. CASE Resume
  BY <1>16 DEF Resume, Resumed, pausing, thread, asking, chatting
<1>17. CASE Schedule
  BY <1>17 DEF Schedule, Resumed, pausing, thread, asking, chatting
<1>18. CASE Continue
  BY <1>18 DEF Continue, Arrives, PostAnswer, pausing, thread, asking, chatting
<1>19. CASE Answer
  BY <1>19 DEF Answer, Arrives, PostAnswer, pausing, thread, asking, chatting
<1>20. CASE Cancel
  BY <1>20 DEF Cancel, pausing, thread, asking, chatting
<1>21. CASE TimerLooks
  BY <1>21 DEF TimerLooks, pausing, thread, asking, chatting
<1>22. CASE TimerIsDue
  BY <1>22 DEF TimerIsDue, pausing, thread, asking, chatting
<1>23. CASE TimerResumes
  BY <1>23 DEF TimerResumes, Resumed, pausing, thread, asking, chatting
<1>24. CASE TimerIsJoined
  BY <1>24 DEF TimerIsJoined, pausing, thread, asking, chatting
<1>25. ASSUME NEW c \in Chats, ChatAsks(c) PROVE ViewInv'
  BY <1>25 DEF ChatAsks, pausing, thread, asking, chatting
<1>26. ASSUME NEW c \in Chats, ChatReads(c) PROVE ViewInv'
  BY <1>26 DEF ChatReads, pausing, thread, asking, chatting
<1>27. ASSUME NEW c \in Chats, ChatWrites(c) PROVE ViewInv'
  BY <1>27 DEF ChatWrites, pausing, thread, asking, chatting
<1>28. CASE UNCHANGED vars
  BY <1>28 DEF vars, pausing, thread, asking, chatting
<1> QED BY <1>1, <1>2, <1>3, <1>4, <1>5, <1>6, <1>7, <1>8, <1>9, <1>10, <1>11, <1>12, <1>13,
           <1>14, <1>15, <1>16, <1>17, <1>18, <1>19, <1>20, <1>21, <1>22, <1>23, <1>24, <1>25,
           <1>26, <1>27, <1>28
       DEF Next, ThreadStep, Requests, TimerStep, Terminated

LEMMA PauseStep == Inv /\ [Next]_vars => PauseInv'
<1> SUFFICES ASSUME Inv, [Next]_vars PROVE PauseInv'
  OBVIOUS
<1> USE StageAssumption, BoundAssumption DEF Inv, TypeOK, PauseInv
<1>1. CASE NextStage
  BY <1>1 DEF NextStage, Candidates, pausing, thread, asking, chatting
<1>2. CASE WaitIfPaused
  BY <1>2 DEF WaitIfPaused, pausing, thread, asking, chatting
<1>3. CASE StartStage
  <2>1. stage \in Stages /\ Kind[stage] \in Kinds
    BY <1>3 DEF StartStage, StageInv, Engaged
  <2>2. pc' # "start"
    BY <1>3, <2>1 DEF StartStage, Kinds
  <2> QED BY <1>3, <2>2 DEF StartStage, pausing
<1>4. CASE Works
  BY <1>4 DEF Works, Emit, pausing, thread, asking, chatting
<1>5. CASE Populate
  BY <1>5 DEF Populate, pausing, thread, asking, chatting
<1>6. CASE Questions
  BY <1>6 DEF Questions, Emit, pausing, thread, asking, chatting
<1>7. CASE SessionWaits
  BY <1>7 DEF SessionWaits, pausing, thread, asking, chatting
<1>8. CASE Ask
  BY <1>8 DEF Ask, pausing, thread, asking, chatting
<1>9. CASE GateWaits
  BY <1>9 DEF GateWaits, pausing, thread, asking, chatting
<1>10. CASE Answered
  BY <1>10 DEF Answered, Emit, pausing, thread, asking, chatting
<1>11. CASE Completes
  BY <1>11 DEF Completes, Emit, pausing, thread, asking, chatting
<1>12. CASE Finishes
  BY <1>12 DEF Finishes, Emit, pausing, thread, asking, chatting
<1>13. CASE Reports
  BY <1>13 DEF Reports, pausing, thread, asking, chatting
<1>14. CASE WakesUp
  BY <1>14 DEF WakesUp, pausing, thread, asking, chatting
<1>15. CASE Pause
  BY <1>15 DEF Pause, pausing, thread, asking, chatting
<1>16. CASE Resume
  BY <1>16 DEF Resume, Resumed, pausing, thread, asking, chatting
<1>17. CASE Schedule
  BY <1>17 DEF Schedule, Resumed, pausing, thread, asking, chatting
<1>18. CASE Continue
  BY <1>18 DEF Continue, Arrives, PostAnswer, pausing, thread, asking, chatting
<1>19. CASE Answer
  BY <1>19 DEF Answer, Arrives, PostAnswer, pausing, thread, asking, chatting
<1>20. CASE Cancel
  BY <1>20 DEF Cancel, pausing, thread, asking, chatting
<1>21. CASE TimerLooks
  BY <1>21 DEF TimerLooks, pausing, thread, asking, chatting
<1>22. CASE TimerIsDue
  BY <1>22 DEF TimerIsDue, pausing, thread, asking, chatting
<1>23. CASE TimerResumes
  BY <1>23 DEF TimerResumes, Resumed, pausing, thread, asking, chatting
<1>24. CASE TimerIsJoined
  BY <1>24 DEF TimerIsJoined, pausing, thread, asking, chatting
<1>25. ASSUME NEW c \in Chats, ChatAsks(c) PROVE PauseInv'
  BY <1>25 DEF ChatAsks, pausing, thread, asking, chatting
<1>26. ASSUME NEW c \in Chats, ChatReads(c) PROVE PauseInv'
  BY <1>26 DEF ChatReads, pausing, thread, asking, chatting
<1>27. ASSUME NEW c \in Chats, ChatWrites(c) PROVE PauseInv'
  BY <1>27 DEF ChatWrites, pausing, thread, asking, chatting
<1>28. CASE UNCHANGED vars
  BY <1>28 DEF vars, pausing, thread, asking, chatting
<1> QED BY <1>1, <1>2, <1>3, <1>4, <1>5, <1>6, <1>7, <1>8, <1>9, <1>10, <1>11, <1>12, <1>13,
           <1>14, <1>15, <1>16, <1>17, <1>18, <1>19, <1>20, <1>21, <1>22, <1>23, <1>24, <1>25,
           <1>26, <1>27, <1>28
       DEF Next, ThreadStep, Requests, TimerStep, Terminated

LEMMA AnswerStep == Inv /\ [Next]_vars => AnswerInv'
<1> SUFFICES ASSUME Inv, [Next]_vars PROVE AnswerInv'
  OBVIOUS
<1> USE StageAssumption, BoundAssumption DEF Inv, TypeOK, StageInv, AnswerInv, Engaged
<1>1. CASE NextStage
  BY <1>1 DEF NextStage, Candidates, pausing, thread, asking, chatting
<1>2. CASE WaitIfPaused
  BY <1>2 DEF WaitIfPaused, pausing, thread, asking, chatting
<1>3. CASE StartStage
  <2>1. stage \in Stages /\ Kind[stage] \in Kinds
    BY <1>3 DEF StartStage
  <2>2. pc' \notin {"session", "gate"}
    BY <1>3, <2>1 DEF StartStage, Kinds
  <2>3. pc' = "question" => Kind[stage] = "gate" /\ stage' = stage
    BY <1>3, <2>1 DEF StartStage, Kinds
  <2> QED BY <1>3, <2>2, <2>3 DEF StartStage, asking
<1>4. CASE Works
  BY <1>4 DEF Works, Emit, pausing, thread, asking, chatting
<1>5. CASE Populate
  <2>1. SessionFields(session', TRUE, FALSE, 0, stage) /\ Kind[stage] = "interactive"
    BY <1>5, NewSession DEF Populate
  <2>2. pc' = "question"
    BY <1>5 DEF Populate
  <2> QED BY <2>1, <2>2 DEF SessionFields
<1>6. CASE Questions
  <2>1. pc' = "session" => session.active
    BY <1>6 DEF Questions
  <2>2. pc' # "gate"
    BY <1>6 DEF Questions
  <2> QED BY <1>6, <2>1, <2>2 DEF Questions, asking
<1>7. CASE SessionWaits
  <2>1. CASE session' = session /\ pc' = pc
    BY <1>7, <2>1 DEF SessionWaits
  <2>2. CASE session'.active = FALSE /\ pc' \in {"answered", "completed"}
    BY <2>2
  <2>3. [session EXCEPT !.active = FALSE, !.continued = FALSE].active = FALSE
        /\ [session EXCEPT !.active = FALSE].active = FALSE
    BY SessionType DEF SessionFields
  <2> QED BY <1>7, <2>1, <2>2, <2>3 DEF SessionWaits
<1>8. CASE Ask
  BY <1>8 DEF Ask, pausing, thread, asking, chatting
<1>9. CASE GateWaits
  BY <1>9 DEF GateWaits, pausing, thread, asking, chatting
<1>10. CASE Answered
  BY <1>10 DEF Answered, Emit, pausing, thread, asking, chatting
<1>11. CASE Completes
  BY <1>11 DEF Completes, Emit, pausing, thread, asking, chatting
<1>12. CASE Finishes
  BY <1>12 DEF Finishes, Emit, pausing, thread, asking, chatting
<1>13. CASE Reports
  BY <1>13 DEF Reports, pausing, thread, asking, chatting
<1>14. CASE WakesUp
  BY <1>14 DEF WakesUp, pausing, thread, asking, chatting
<1>15. CASE Pause
  BY <1>15 DEF Pause, pausing, thread, asking, chatting
<1>16. CASE Resume
  BY <1>16 DEF Resume, Resumed, pausing, thread, asking, chatting
<1>17. CASE Schedule
  BY <1>17 DEF Schedule, Resumed, pausing, thread, asking, chatting
<1>18. CASE Continue
  <2>1. /\ posts' \in 0..MaxPosts /\ posts' \in fresh' /\ fresh \subseteq fresh'
        /\ pc' = pc
    BY <1>18 DEF Continue, Arrives
  <2>2. CASE session.active
    <3>1. SessionFields(session', session.active, TRUE, posts', session.node)
      BY <1>18, <2>1, <2>2, SessionType DEF Continue
    <3>2. interviewer' = interviewer
      BY <1>18, <2>2 DEF Continue
    <3> QED BY <2>1, <2>2, <3>1, <3>2 DEF SessionFields
  <2>3. CASE ~session.active
    <3>1. [interviewer EXCEPT !.ready = TRUE, !.answer = posts'].answer = posts'
      BY DEF Interviewers
    <3>2. interviewer'.answer = posts' /\ session' = session
      BY <1>18, <2>3, <3>1 DEF Continue, PostAnswer
    <3> QED BY <1>18, <2>1, <2>3, <3>2 DEF Continue
  <2> QED BY <2>2, <2>3
<1>19. CASE Answer
  BY <1>19 DEF Answer, Arrives, PostAnswer, pausing, thread, asking, chatting
<1>20. CASE Cancel
  BY <1>20 DEF Cancel, pausing, thread, asking, chatting
<1>21. CASE TimerLooks
  BY <1>21 DEF TimerLooks, pausing, thread, asking, chatting
<1>22. CASE TimerIsDue
  BY <1>22 DEF TimerIsDue, pausing, thread, asking, chatting
<1>23. CASE TimerResumes
  BY <1>23 DEF TimerResumes, Resumed, pausing, thread, asking, chatting
<1>24. CASE TimerIsJoined
  BY <1>24 DEF TimerIsJoined, pausing, thread, asking, chatting
<1>25. ASSUME NEW c \in Chats, ChatAsks(c) PROVE AnswerInv'
  BY <1>25 DEF ChatAsks, pausing, thread, asking, chatting
<1>26. ASSUME NEW c \in Chats, ChatReads(c) PROVE AnswerInv'
  BY <1>26 DEF ChatReads, pausing, thread, asking, chatting
<1>27. ASSUME NEW c \in Chats, ChatWrites(c) PROVE AnswerInv'
  BY <1>27 DEF ChatWrites, pausing, thread, asking, chatting
<1>28. CASE UNCHANGED vars
  BY <1>28 DEF vars, pausing, thread, asking, chatting
<1> QED BY <1>1, <1>2, <1>3, <1>4, <1>5, <1>6, <1>7, <1>8, <1>9, <1>10, <1>11, <1>12, <1>13,
           <1>14, <1>15, <1>16, <1>17, <1>18, <1>19, <1>20, <1>21, <1>22, <1>23, <1>24, <1>25,
           <1>26, <1>27, <1>28
       DEF Next, ThreadStep, Requests, TimerStep, Terminated

LEMMA ChatStep == Inv /\ [Next]_vars => ChatInv'
<1> SUFFICES ASSUME Inv, [Next]_vars PROVE ChatInv'
  OBVIOUS
<1> USE StageAssumption, BoundAssumption DEF Inv, TypeOK, StageInv, AnswerInv, ChatInv,
       ChatStates, Engaged
<1>1. CASE NextStage
  BY <1>1 DEF NextStage, Candidates, pausing, thread, asking, chatting
<1>2. CASE WaitIfPaused
  BY <1>2 DEF WaitIfPaused, pausing, thread, asking, chatting
<1>3. CASE StartStage
  BY <1>3 DEF StartStage, Emit, pausing, thread, asking, chatting
<1>4. CASE Works
  BY <1>4 DEF Works, Emit, pausing, thread, asking, chatting
<1>5. CASE Populate
  BY <1>5 DEF Populate, pausing, thread, asking, chatting
<1>6. CASE Questions
  BY <1>6 DEF Questions, Emit, pausing, thread, asking, chatting
<1>7. CASE SessionWaits
  <2>1. session'.node = session.node /\ chat' = chat
    <3>1. /\ [session EXCEPT !.active = FALSE, !.continued = FALSE].node = session.node
          /\ [session EXCEPT !.active = FALSE].node = session.node
      BY SessionType DEF SessionFields
    <3> QED BY <1>7, <3>1 DEF SessionWaits, chatting
  <2> QED BY <2>1
<1>8. CASE Ask
  BY <1>8 DEF Ask, pausing, thread, asking, chatting
<1>9. CASE GateWaits
  BY <1>9 DEF GateWaits, pausing, thread, asking, chatting
<1>10. CASE Answered
  BY <1>10 DEF Answered, Emit, pausing, thread, asking, chatting
<1>11. CASE Completes
  BY <1>11 DEF Completes, Emit, pausing, thread, asking, chatting
<1>12. CASE Finishes
  BY <1>12 DEF Finishes, Emit, pausing, thread, asking, chatting
<1>13. CASE Reports
  BY <1>13 DEF Reports, pausing, thread, asking, chatting
<1>14. CASE WakesUp
  BY <1>14 DEF WakesUp, pausing, thread, asking, chatting
<1>15. CASE Pause
  BY <1>15 DEF Pause, pausing, thread, asking, chatting
<1>16. CASE Resume
  BY <1>16 DEF Resume, Resumed, pausing, thread, asking, chatting
<1>17. CASE Schedule
  BY <1>17 DEF Schedule, Resumed, pausing, thread, asking, chatting
<1>18. CASE Continue
  <2>1. posts' \in 0..MaxPosts
    BY <1>18 DEF Continue, Arrives
  <2>2. [session EXCEPT !.continued = TRUE, !.result = posts'].node = session.node
    <3>1. SessionFields([session EXCEPT !.continued = TRUE, !.result = posts'], session.active,
                        TRUE,
                        posts', session.node)
      BY <2>1, SessionType
    <3> QED BY <3>1 DEF SessionFields
  <2>3. session'.node = session.node /\ chat' = chat
    BY <1>18, <2>2 DEF Continue, chatting
  <2> QED BY <2>3
<1>19. CASE Answer
  BY <1>19 DEF Answer, Arrives, PostAnswer, pausing, thread, asking, chatting
<1>20. CASE Cancel
  BY <1>20 DEF Cancel, pausing, thread, asking, chatting
<1>21. CASE TimerLooks
  BY <1>21 DEF TimerLooks, pausing, thread, asking, chatting
<1>22. CASE TimerIsDue
  BY <1>22 DEF TimerIsDue, pausing, thread, asking, chatting
<1>23. CASE TimerResumes
  BY <1>23 DEF TimerResumes, Resumed, pausing, thread, asking, chatting
<1>24. CASE TimerIsJoined
  BY <1>24 DEF TimerIsJoined, pausing, thread, asking, chatting
<1>25. ASSUME NEW c \in Chats, ChatAsks(c) PROVE ChatInv'
  <2>1. session.active /\ session.node \in Stages /\ session' = session
    BY <1>25 DEF ChatAsks, asking
  <2>2. chat' \in [Chats -> ChatStates]
    <3>1. chat[c] \in ChatStates /\ chat \in [Chats -> ChatStates]
      OBVIOUS
    <3>2. \A x \in ChatStates, n \in Stages : [x EXCEPT !.pc = "agent",
                        !.about = n] \in ChatStates
      OBVIOUS
    <3> HIDE DEF ChatStates
    <3>3. [chat[c] EXCEPT !.pc = "agent", !.about = session.node] \in ChatStates
      BY <2>1, <3>1, <3>2
    <3>4. chat' = [chat EXCEPT ![c] = [chat[c] EXCEPT !.pc = "agent", !.about = session.node]]
      BY <1>25 DEF ChatAsks
    <3> QED BY <3>1, <3>3, <3>4
  <2> QED BY <2>1, <2>2
<1>26. ASSUME NEW c \in Chats, ChatReads(c) PROVE ChatInv'
  <2>1. /\ session.node \in Stages /\ history[session.node] \subseteq Chats
        /\ session' = session
    BY <1>26 DEF ChatReads, asking
  <2>2. chat' \in [Chats -> ChatStates]
    <3>1. chat[c] \in ChatStates /\ chat \in [Chats -> ChatStates]
      OBVIOUS
    <3>2. \A x \in ChatStates, n \in Stages, r \in SUBSET Chats :
            [x EXCEPT !.pc = "write", !.node = n, !.read = r] \in ChatStates
      OBVIOUS
    <3> HIDE DEF ChatStates
    <3> DEFINE read == [chat[c] EXCEPT !.pc = "write", !.node = session.node,
                                       !.read = history[session.node]]
    <3>3. read \in ChatStates
      BY <2>1, <3>1, <3>2
    <3>4. chat' = [chat EXCEPT ![c] = read]
      BY <1>26 DEF ChatReads
    <3> HIDE DEF read
    <3> QED BY <3>1, <3>3, <3>4
  <2> QED BY <2>1, <2>2
<1>27. ASSUME NEW c \in Chats, ChatWrites(c) PROVE ChatInv'
  BY <1>27 DEF ChatWrites, pausing, thread, asking, chatting
<1>28. CASE UNCHANGED vars
  BY <1>28 DEF vars, pausing, thread, asking, chatting
<1> QED BY <1>1, <1>2, <1>3, <1>4, <1>5, <1>6, <1>7, <1>8, <1>9, <1>10, <1>11, <1>12, <1>13,
           <1>14, <1>15, <1>16, <1>17, <1>18, <1>19, <1>20, <1>21, <1>22, <1>23, <1>24, <1>25,
           <1>26, <1>27, <1>28
       DEF Next, ThreadStep, Requests, TimerStep, Terminated

-----------------------------------------------------------------------------
(* All of it holds in every state of the run, whatever its stages are.     *)
THEOREM Invariance == Spec => []Inv
<1>1. Init => Inv
  BY InitInv
<1>2. Inv /\ [Next]_vars => Inv'
  BY TypeStep, StageStep, ViewStep, PauseStep, AnswerStep, ChatStep DEF Inv
<1> QED BY <1>1, <1>2, PTL DEF Spec

(* What the run and its operators share stays well formed, a thread sleeps *)
(* only where it waits, and a session is active only for its own stage.    *)
THEOREM TypeCorrect == Spec => []TypeOK
<1>1. Inv => TypeOK
  BY DEF Inv
<1> QED BY <1>1, Invariance, PTL

(* However pauses, resumes, schedules and timers meet, no stage but one    *)
(* that had been let through before it starts during a pause.              *)
THEOREM PausesHold == Spec => []OneStagePerPause
<1>1. Inv => OneStagePerPause
  BY DEF Inv, TypeOK, PauseInv, OneStagePerPause
<1> QED BY <1>1, Invariance, PTL

(* The view that derive_run_view makes of the events shows where the run   *)
(* is, and of a run that is over no stage as running.                      *)
THEOREM ViewIsTrue == Spec => []ViewShowsTheRun
<1>1. Inv => ViewShowsTheRun
  BY DEF Inv, ViewInv
<1> QED BY <1>1, Invariance, PTL

(* The answer a stage goes on with was posted after its question, whatever *)
(* was posted to other stages, twice or too late.                          *)
THEOREM AnswersAreFresh == Spec => AnswersMeetTheirQuestions
<1> DEFINE Meets == pc # "answered" /\ pc' = "answered" => taken' \in fresh
<1>1. Inv /\ [Next]_vars => [Meets]_vars
  <2> SUFFICES ASSUME Inv, Next, pc # "answered", pc' = "answered" PROVE taken' \in fresh
    BY DEF vars
  <2>1. StageInv /\ AnswerInv /\ TypeOK
    BY DEF Inv
  <2>2. CASE SessionWaits
    BY <2>1, <2>2 DEF SessionWaits, AnswerInv, TypeOK
  <2>3. CASE GateWaits
    BY <2>1, <2>3 DEF GateWaits, AnswerInv, TypeOK
  <2>4. CASE StartStage
    <3>1. stage \in Stages /\ Kind[stage] \in Kinds
      BY <2>1, <2>4, StageAssumption DEF StartStage, StageInv, Engaged
    <3> QED BY <2>4, <3>1 DEF StartStage, Kinds
  <2>5. CASE NextStage \/ WaitIfPaused \/ Works \/ Populate \/ Questions \/ Ask \/ Answered
             \/ Completes \/ Finishes \/ Reports
    BY <2>5 DEF NextStage, WaitIfPaused, Works, Populate, Questions, Ask, Answered, Completes,
                Finishes, Reports
  <2>6. CASE WakesUp \/ Requests \/ TimerStep \/ TimerIsJoined \/ Terminated
    BY <2>6 DEF WakesUp, Requests, Pause, Resume, Schedule, Continue, Answer, Cancel, TimerStep,
                TimerLooks, TimerIsDue, TimerResumes, TimerIsJoined, Terminated, vars, thread
  <2>7. CASE \E c \in Chats : ChatAsks(c) \/ ChatReads(c) \/ ChatWrites(c)
    BY <2>7 DEF ChatAsks, ChatReads, ChatWrites, thread
  <2> QED BY <2>2, <2>3, <2>4, <2>5, <2>6, <2>7 DEF Next, ThreadStep
<1> QED BY <1>1, Invariance, PTL DEF Spec, AnswersMeetTheirQuestions

-----------------------------------------------------------------------------
(***************************************************************************)
(* Sessions and gates implement OpenQuestion. The mapping needs nothing    *)
(* besides Inv: an answer that waits in the session or in the interviewer  *)
(* of an open gate is a fresh one, and so the number of a post.            *)
(***************************************************************************)
QuestionStep == [Question!Next]_(Question!vars)

LEMMA QuestionInit == Init => Question!Init
BY DEF Init, Question!Init, Asked, Mail

(* The fields of the mapping, where it matters to have them one by one.    *)
LEMMA Kept ==
  ASSUME Inv
  PROVE  /\ session.active \in BOOLEAN /\ session.continued \in BOOLEAN
         /\ interviewer.ready \in BOOLEAN
         /\ session.active => pc \in {"question", "session"} /\ pc # "gate"
         /\ session.active /\ session.continued => session.result \in 1..MaxPosts
         /\ pc = "gate" /\ interviewer.ready => interviewer.answer \in 1..MaxPosts
         /\ pc = "session" => session.active
BY SessionType, InterviewerType DEF Inv, TypeOK, AnswerInv

(* Most steps of the thread, and all of the timer and the chats, touch     *)
(* neither the session nor the interviewer.                                *)
LEMMA QuestionStands ==
  ASSUME UNCHANGED <<session, interviewer, taken, cancelled>>, pc' = "gate" <=> pc = "gate"
  PROVE  QuestionStep
<1>1. UNCHANGED <<Asked, Mail>>
  BY DEF Asked, Mail
<1> QED BY <1>1 DEF QuestionStep, Question!vars

LEMMA SessionAsks ==
  ASSUME Inv, Populate
  PROVE  QuestionStep
<1>1. SessionFields(session', TRUE, FALSE, 0, stage) /\ pc = "populate"
  BY NewSession, BoundAssumption DEF Populate, Inv, StageInv, Engaged
<1>2. ~Asked /\ Asked' = TRUE
  BY <1>1, Kept DEF Asked, SessionFields
<1>3. Mail' = 0
  BY <1>1 DEF Mail, SessionFields
<1>4. Question!Ask
  BY <1>2, <1>3 DEF Question!Ask, Populate
<1> QED BY <1>4 DEF QuestionStep, Question!Next

LEMMA GateAsks ==
  ASSUME Inv, Ask
  PROVE  QuestionStep
<1>1. pc = "ask" /\ ~session.active /\ session' = session /\ pc' = "gate"
  BY Kept DEF Ask
<1>2. ~interviewer'.ready
  BY InterviewerType DEF Ask, Inv, TypeOK
<1>3. ~Asked /\ Asked' = TRUE
  BY <1>1 DEF Asked
<1>4. Mail' = 0
  BY <1>1, <1>2 DEF Mail
<1>5. Question!Ask
  BY <1>3, <1>4 DEF Question!Ask, Ask
<1> QED BY <1>5 DEF QuestionStep, Question!Next

LEMMA SessionGoesOn ==
  ASSUME Inv, SessionWaits
  PROVE  QuestionStep
<1>1. pc = "session" /\ session.active /\ Asked /\ cancelled' = cancelled
      /\ interviewer' = interviewer
  BY Kept DEF SessionWaits, Asked
<1>2. /\ [session EXCEPT !.active = FALSE, !.continued = FALSE].active = FALSE
      /\ [session EXCEPT !.active = FALSE].active = FALSE
  BY SessionType DEF SessionFields, Inv, TypeOK
<1>3. CASE /\ session.continued /\ taken' = session.result /\ pc' = "answered"
           /\ session' = [session EXCEPT !.active = FALSE, !.continued = FALSE]
  <2>1. ~session'.active /\ Asked' = FALSE /\ Mail' = 0
    BY <1>2, <1>3 DEF Asked, Mail
  <2>2. Mail = session.result /\ Mail # 0
    BY <1>1, <1>3, Kept DEF Mail
  <2>3. Question!Take
    BY <1>1, <1>3, <2>1, <2>2 DEF Question!Take
  <2> QED BY <2>3 DEF QuestionStep, Question!Next
<1>4. CASE /\ cancelled /\ ~session.continued /\ taken' = 0 /\ pc' = "completed"
           /\ session' = [session EXCEPT !.active = FALSE]
  <2>1. ~session'.active /\ Asked' = FALSE /\ Mail' = 0 /\ Mail = 0
    BY <1>1, <1>2, <1>4 DEF Asked, Mail
  <2>2. Question!GiveUp
    BY <1>1, <1>4, <2>1 DEF Question!GiveUp
  <2> QED BY <2>2 DEF QuestionStep, Question!Next
<1>5. CASE UNCHANGED <<session, taken, pc>>
  BY <1>1, <1>5, QuestionStands
<1> QED BY <1>3, <1>4, <1>5 DEF SessionWaits

LEMMA GateGoesOn ==
  ASSUME Inv, GateWaits
  PROVE  QuestionStep
<1>1. pc = "gate" /\ ~session.active /\ session' = session /\ cancelled' = cancelled
  BY Kept DEF GateWaits
<1>2. CASE interviewer.ready
  <2>1. pc' = "answered" /\ taken' = interviewer.answer
    BY <1>2 DEF GateWaits
  <2>2. Asked /\ Asked' = FALSE /\ Mail = interviewer.answer /\ Mail # 0 /\ Mail' = 0
    BY <1>1, <1>2, <2>1, Kept DEF Asked, Mail
  <2>3. Question!Take
    BY <1>1, <2>1, <2>2 DEF Question!Take
  <2> QED BY <2>3 DEF QuestionStep, Question!Next
<1>3. CASE ~interviewer.ready
  BY <1>1, <1>3, QuestionStands DEF GateWaits
<1> QED BY <1>2, <1>3

(* An answer goes to the session or to the interviewer; only one of them   *)
(* that is waited for keeps it.                                            *)
LEMMA AnswerArrives ==
  ASSUME Inv, Continue \/ Answer
  PROVE  QuestionStep
<1>0. posts \in 0..MaxPosts /\ interviewer \in Interviewers /\ session \in Sessions
  BY DEF Inv, TypeOK
<1>1. posts' \in 1..MaxPosts /\ UNCHANGED <<pc, taken, cancelled>>
  <2>1. posts < MaxPosts /\ posts' = posts + 1 /\ UNCHANGED <<pc, taken, cancelled>>
    BY DEF Continue, Answer, Arrives
  <2> QED BY ONLY <1>0, <2>1, BoundAssumption
<1>2. CASE session' = session /\ PostAnswer
  <2>1. interviewer'.ready /\ interviewer'.answer = posts'
    <3>1. posts' \in 0..MaxPosts
      BY ONLY <1>1, BoundAssumption
    <3>2. interviewer' = [interviewer EXCEPT !.ready = TRUE, !.answer = posts']
      BY <1>2 DEF PostAnswer
    <3>3. LET j == [interviewer EXCEPT !.ready = TRUE, !.answer = posts']
          IN j.ready /\ j.answer = posts'
      BY <1>0, <3>1 DEF Interviewers
    <3> QED BY ONLY <3>2, <3>3
  <2>2. Asked' = Asked
    BY <1>1, <1>2 DEF Asked
  <2>3. CASE session.active \/ pc # "gate"
    <3>1. Mail' = Mail
      BY <1>1, <1>2, <2>3 DEF Mail
    <3> QED BY <1>1, <2>2, <3>1 DEF QuestionStep, Question!vars
  <2>4. CASE ~session.active /\ pc = "gate"
    <3>1. Asked /\ Mail' = posts'
      BY <1>1, <1>2, <2>1, <2>4 DEF Asked, Mail
    <3>2. Question!Post
      BY <1>1, <2>2, <3>1 DEF Question!Post
    <3> QED BY <3>2 DEF QuestionStep, Question!Next
  <2> QED BY <2>3, <2>4
<1>3. CASE /\ session.active /\ interviewer' = interviewer
           /\ session' = [session EXCEPT !.continued = TRUE, !.result = posts']
  <2>1. posts' \in 0..MaxPosts
    BY <1>1
  <2>2. SessionFields(session', session.active, TRUE, posts', session.node)
    BY <1>3, <2>1, SessionType DEF Inv, TypeOK
  <2>3. Asked /\ Asked' = Asked
    BY <1>1, <1>3, <2>2 DEF Asked, SessionFields
  <2>4. Mail' = posts'
    BY <1>3, <2>2 DEF Mail, SessionFields
  <2>5. Question!Post
    BY <1>1, <2>3, <2>4 DEF Question!Post
  <2> QED BY <2>5 DEF QuestionStep, Question!Next
<1> QED BY <1>2, <1>3 DEF Continue, Answer

LEMMA RunIsCancelled ==
  ASSUME Cancel
  PROVE  QuestionStep
<1>1. UNCHANGED <<Asked, Mail, taken>> /\ cancelled' = TRUE
  BY DEF Cancel, asking, Asked, Mail
<1> QED BY <1>1 DEF QuestionStep, Question!Next, Question!Cancel

LEMMA QuestionSteps == Inv /\ [Next]_vars => QuestionStep
<1> SUFFICES ASSUME Inv, [Next]_vars PROVE QuestionStep
  OBVIOUS
<1>1. CASE StartStage
  <2>1. stage \in Stages /\ Kind[stage] \in Kinds
    BY <1>1, StageAssumption DEF Inv, StageInv, Engaged, StartStage
  <2>2. pc # "gate" /\ pc' # "gate"
    BY <1>1, <2>1 DEF StartStage, Kinds
  <2> QED BY <1>1, <2>2, QuestionStands DEF StartStage, asking
<1>2. CASE NextStage \/ WaitIfPaused
  BY <1>2, QuestionStands DEF NextStage, WaitIfPaused, asking
<1>3. CASE Works
  BY <1>3, QuestionStands DEF Works, asking
<1>4. CASE Questions \/ Answered \/ Completes
  BY <1>4, QuestionStands DEF Questions, Answered, Completes, asking
<1>5. CASE Finishes \/ Reports
  BY <1>5, QuestionStands DEF Finishes, Reports, asking
<1>6. CASE WakesUp \/ Pause \/ Resume \/ Schedule
  BY <1>6, QuestionStands DEF WakesUp, Pause, Resume, Schedule, thread, asking
<1>7. CASE TimerStep \/ TimerIsJoined
  BY <1>7, QuestionStands DEF TimerStep, TimerLooks, TimerIsDue, TimerResumes, TimerIsJoined,
     thread, asking
<1>8. CASE \E c \in Chats : ChatAsks(c) \/ ChatReads(c) \/ ChatWrites(c)
  BY <1>8, QuestionStands DEF ChatAsks, ChatReads, ChatWrites, thread, asking
<1>9. CASE Terminated \/ UNCHANGED vars
  BY <1>9, QuestionStands DEF Terminated, vars, thread, asking
<1> QED BY <1>1, <1>2, <1>3, <1>4, <1>5, <1>6, <1>7, <1>8, <1>9, SessionAsks, GateAsks,
           SessionGoesOn, GateGoesOn, AnswerArrives, RunIsCancelled
        DEF Next, ThreadStep, Requests

(* Sessions and gates implement OpenQuestion: whatever is posted, to which *)
(* of the endpoints and when, a stage goes on with the last answer posted  *)
(* since it asked, and without one only when the run has been cancelled.   *)
THEOREM RunImplementsQuestion == Spec => ImplementsQuestion
BY QuestionInit, QuestionSteps, Invariance, PTL
   DEF Spec, ImplementsQuestion, Question!Spec, QuestionStep
=============================================================================
