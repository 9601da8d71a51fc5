----------------------------- MODULE Interaction -----------------------------
(***************************************************************************)
(* A run of the server and the people around it: stages that wait for an   *)
(* operator (interactive sessions and human gates), the requests that      *)
(* answer them, chat with an agent meanwhile, pause, schedule and cancel,  *)
(* the timer thread of a schedule, and the view derived from the events.   *)
(*                                                                         *)
(* One thread walks the stages of the run, in any order; it does no more   *)
(* than the waits and the events here (see PipelineEngine for the loop).   *)
(* A fork stands for a parallel stage: its branches start nodes of their   *)
(* own. Requests are handled one at a time, but a chat, which waits for    *)
(* its agent, and a schedule, which joins the timer before it.             *)
(***************************************************************************)
EXTENDS Naturals

CONSTANTS
  Stages,       \* stages of the run
  Kind,         \* [Stages -> {"work", "interactive", "gate", "fork"}]
  Chats,        \* chat requests
  NoStage,      \* no stage
  MaxVisits,    \* bound: stages started by the loop
  MaxPosts,     \* bound: answers posted
  MaxSchedules, \* bound: schedules asked for
  MaxPauses     \* bound: pauses asked for

Kinds == {"work", "interactive", "gate", "fork"}
ASSUME StageAssumption == Kind \in [Stages -> Kinds] /\ NoStage \notin Stages
ASSUME BoundAssumption ==
  MaxVisits \in Nat /\ MaxPosts \in Nat /\ MaxSchedules \in Nat /\ MaxPauses \in Nat

VARIABLES
  paused, resumeAt,  \* PauseController: resume_at is the number of a schedule, 0 if empty
  timer,             \* pause_timer_thread_: what it does, and the schedule it waits for
  request,           \* the schedule whose handler joins the timer before it, 0 if none
  schedules, pauses, \* how many there were
  pc, stage, visits, \* the run's thread: what it does, on which stage, stages started
  asleep,            \* it waits on a condition variable and was not notified since
  cancelled, status, \* of the run
  session,           \* InteractiveSession
  interviewer,       \* HttpInterviewer
  posts,             \* answers posted so far; each is known by its number
  view,              \* derive_run_view over the events so far
  chat, history,     \* chat requests; chat_history.json of each stage
  fresh,             \* history: answers that came since the current question was asked
  taken,             \* history: the answer the last stage was given, 0 if none
  starts             \* history: stages the loop has started since the pause, up to two

pausing == <<paused, resumeAt, timer, request, schedules, pauses>>
thread == <<pc, stage, visits, asleep>>
asking == <<session, interviewer, posts, fresh, taken>>
chatting == <<chat, history>>
vars == <<pausing, thread, cancelled, status, asking, view, chatting, starts>>

Statuses == {"running", "cancelled", "completed", "failed"}
Timers == [pc : {"none", "sleep", "due", "gone"}, at : 0..MaxSchedules]
Sessions == [active : BOOLEAN, continued : BOOLEAN, result : 0..MaxPosts,
             node : Stages \union {NoStage}]
Interviewers == [pending : BOOLEAN, ready : BOOLEAN, answer : 0..MaxPosts]
Views == [node : [Stages -> {"none", "running", "completed", "failed"}],
          current : Stages \union {NoStage}, question : BOOLEAN]

Init ==
  /\ paused = FALSE /\ resumeAt = 0
  /\ timer = [pc |-> "none", at |-> 0] /\ request = 0
  /\ schedules = 0 /\ pauses = 0
  /\ pc = "next" /\ stage = NoStage /\ visits = 0 /\ asleep = FALSE
  /\ cancelled = FALSE /\ status = "running"
  /\ session = [active |-> FALSE, continued |-> FALSE, result |-> 0, node |-> NoStage]
  /\ interviewer = [pending |-> FALSE, ready |-> FALSE, answer |-> 0]
  /\ posts = 0 /\ fresh = {} /\ taken = 0
  /\ view = [node |-> [s \in Stages |-> "none"], current |-> NoStage, question |-> FALSE]
  /\ chat = [c \in Chats |-> [pc |-> "none", about |-> NoStage, node |-> NoStage, read |-> {}]]
  /\ history = [s \in Stages |-> {}]
  /\ starts = 0

-----------------------------------------------------------------------------
(* What derive_run_view makes of each event.                               *)

(* Mutant: an answer does not take the question away.                      *)
ShownUnanswered(v, event, s) ==
  CASE event = "STAGE_STARTED" -> [v EXCEPT !.node[s] = "running", !.current = s]
    [] event = "STAGE_COMPLETED" -> [v EXCEPT !.node[s] = "completed"]
    [] event = "HUMAN_QUESTION" -> [v EXCEPT !.question = @ \/ Kind[s] = "gate"]
    [] OTHER -> v

Shown(v, event, s) ==
  LET done(st) == [v EXCEPT !.node[s] = st,
                            !.current = IF @ = s THEN NoStage ELSE @]
  IN CASE event = "STAGE_STARTED" -> [v EXCEPT !.node[s] = "running", !.current = s]
       [] event = "STAGE_RETRYING" -> [v EXCEPT !.node[s] = "running"]
       [] event = "STAGE_COMPLETED" -> done("completed")
       [] event = "STAGE_FAILED" -> done("failed")
       [] event = "HUMAN_QUESTION" -> \* not of an interactive session
            [v EXCEPT !.question = @ \/ Kind[s] = "gate"]
       [] event = "HUMAN_ANSWER" -> [v EXCEPT !.question = FALSE]
       [] event = "PIPELINE_FAILED" ->
            [v EXCEPT !.node = [n \in Stages |-> IF @[n] = "running" THEN "failed" ELSE @[n]],
                      !.current = NoStage]
       [] OTHER -> v

Emit(event, s) == view' = Shown(view, event, s)

-----------------------------------------------------------------------------
(* PauseController and the timer of a schedule.                            *)

(* resume() wakes the threads that wait.                                   *)
Resumed ==
  /\ paused' = FALSE /\ resumeAt' = 0
  /\ asleep' = IF pc = "paused" THEN FALSE ELSE asleep
  /\ starts' = 0

(* Mutant: a schedule outlives the pause it was made for.                  *)
PauseKeepsSchedule ==
  /\ pauses < MaxPauses
  /\ paused' = TRUE
  /\ pauses' = pauses + 1
  /\ starts' = IF paused THEN starts ELSE 0
  /\ UNCHANGED <<resumeAt, timer, request, schedules, thread, cancelled, status, asking, view, chatting>>

Pause ==
  /\ pauses < MaxPauses
  /\ paused' = TRUE /\ resumeAt' = 0
  /\ pauses' = pauses + 1
  /\ starts' = IF paused THEN starts ELSE 0
  /\ UNCHANGED <<timer, request, schedules, thread, cancelled, status, asking, view, chatting>>

Resume ==
  /\ paused
  /\ Resumed
  /\ UNCHANGED <<timer, request, schedules, pauses, pc, stage, visits,
                 cancelled, status, asking, view, chatting>>

(* POST /pause/schedule puts its time in force; a timer there was, even    *)
(* one that has returned, is stopped by a resume() and joined.             *)
Schedule ==
  /\ schedules < MaxSchedules /\ request = 0
  /\ schedules' = schedules + 1
  /\ IF timer.pc = "none"
     THEN /\ timer' = [pc |-> "sleep", at |-> schedules']
          /\ resumeAt' = schedules'
          /\ UNCHANGED <<paused, request, asleep, starts>>
     ELSE /\ Resumed
          /\ request' = schedules'
          /\ UNCHANGED timer
  /\ UNCHANGED <<pauses, pc, stage, visits, cancelled, status, asking, view, chatting>>

TimerIsJoined ==
  /\ request # 0 /\ timer.pc = "gone"
  /\ timer' = [pc |-> "sleep", at |-> request]
  /\ request' = 0
  /\ UNCHANGED <<paused, resumeAt, schedules, pauses, thread, cancelled, status,
                 asking, view, chatting, starts>>

(* Once a second, the timer looks whether its schedule is still in force.  *)
TimerLooks ==
  /\ timer.pc = "sleep"
  /\ ~paused \/ resumeAt # timer.at
  /\ timer' = [timer EXCEPT !.pc = "gone"]
  /\ UNCHANGED <<paused, resumeAt, request, schedules, pauses, thread, cancelled, status,
                 asking, view, chatting, starts>>

(* Its time has come; it looks again.                                      *)
TimerIsDue ==
  /\ timer.pc = "sleep"
  /\ timer' = [timer EXCEPT !.pc = IF paused /\ resumeAt = timer.at THEN "due" ELSE "gone"]
  /\ UNCHANGED <<paused, resumeAt, request, schedules, pauses, thread, cancelled, status,
                 asking, view, chatting, starts>>

TimerResumes ==
  /\ timer.pc = "due"
  /\ Resumed
  /\ timer' = [timer EXCEPT !.pc = "gone"]
  /\ UNCHANGED <<request, schedules, pauses, pc, stage, visits, cancelled, status,
                 asking, view, chatting>>

-----------------------------------------------------------------------------
(* The run's thread.                                                       *)

(* A stage that is to be tried again comes first.                          *)
Candidates == IF stage = NoStage THEN Stages ELSE {stage}

(* Mutant: a pause is not looked at between stages.                        *)
NextStageUnpaused ==
  /\ pc = "next" /\ ~cancelled /\ visits < MaxVisits
  /\ stage' \in Candidates
  /\ pc' = "start"
  /\ UNCHANGED <<pausing, visits, asleep, cancelled, status, asking, view, chatting, starts>>

(* The head of the loop: it looks at the flag, and at the pause.           *)
NextStage ==
  /\ pc = "next" /\ ~cancelled /\ visits < MaxVisits
  /\ stage' \in Candidates
  /\ pc' = IF paused THEN "paused" ELSE "start"
  /\ UNCHANGED <<pausing, visits, asleep, cancelled, status, asking, view, chatting, starts>>

(* wait_if_paused                                                          *)
WaitIfPaused ==
  /\ pc = "paused" /\ ~asleep
  /\ IF paused /\ ~cancelled THEN asleep' = TRUE /\ UNCHANGED pc
     ELSE pc' = (IF cancelled THEN "next" ELSE "start") /\ UNCHANGED asleep
  /\ UNCHANGED <<pausing, stage, visits, cancelled, status, asking, view, chatting, starts>>

StartStage ==
  /\ pc = "start"
  /\ pc' = IF Kind[stage] = "gate" THEN "question"
           ELSE IF Kind[stage] = "interactive" THEN "populate" ELSE Kind[stage]
  /\ visits' = visits + 1
  /\ Emit("STAGE_STARTED", stage)
  /\ starts' = IF paused /\ starts < 2 THEN starts + 1 ELSE starts
  /\ UNCHANGED <<pausing, stage, asleep, cancelled, status, asking, chatting>>

(* A stage that waits for nobody may fail, or be tried again.              *)
Works ==
  /\ pc \in {"work", "fork"}
  /\ \/ pc' = "completed" /\ UNCHANGED <<stage, view>>
     \/ /\ Emit("STAGE_FAILED", stage)
        /\ pc' \in {"failed", "next"} \* the run ends, or goes on along an edge for failures
        /\ stage' = NoStage
     \/ pc' = "next" /\ visits < MaxVisits /\ Emit("STAGE_RETRYING", stage) /\ UNCHANGED stage
  /\ UNCHANGED <<pausing, visits, asleep, cancelled, status, asking, chatting, starts>>

(* The interactive handler fills the session, then emits its question.     *)
Populate ==
  /\ pc = "populate"
  /\ session' = [active |-> TRUE, continued |-> FALSE, result |-> 0, node |-> stage]
  /\ fresh' = {}
  /\ pc' = "question"
  /\ UNCHANGED <<pausing, stage, visits, asleep, cancelled, status, interviewer, posts, taken,
                 view, chatting, starts>>

Questions ==
  /\ pc = "question"
  /\ pc' = IF Kind[stage] = "gate" THEN "ask" ELSE "session"
  /\ Emit("HUMAN_QUESTION", stage)
  /\ UNCHANGED <<pausing, stage, visits, asleep, cancelled, status, asking, chatting, starts>>

(* Mutant: a session that was answered stays active.                       *)
SessionStaysActive ==
  /\ pc = "session" /\ session.continued
  /\ taken' = session.result /\ pc' = "answered"
  /\ UNCHANGED <<pausing, stage, visits, asleep, cancelled, status, session, interviewer, posts,
                 fresh, view, chatting, starts>>

(* Its wait; a cancel ends it without an answer.                           *)
SessionWaits ==
  /\ pc = "session" /\ ~asleep
  /\ \/ /\ session.continued
        /\ session' = [session EXCEPT !.active = FALSE, !.continued = FALSE]
        /\ taken' = session.result /\ pc' = "answered" /\ UNCHANGED asleep
     \/ /\ cancelled /\ ~session.continued
        /\ session' = [session EXCEPT !.active = FALSE]
        /\ taken' = 0 /\ pc' = "completed" /\ UNCHANGED asleep
     \/ /\ ~cancelled /\ ~session.continued
        /\ asleep' = TRUE /\ UNCHANGED <<session, taken, pc>>
  /\ UNCHANGED <<pausing, stage, visits, cancelled, status, interviewer, posts, fresh,
                 view, chatting, starts>>

(* Mutant: an answer that came before the question is kept.                *)
AskKeepsAnswer ==
  /\ pc = "ask"
  /\ interviewer' = [interviewer EXCEPT !.pending = TRUE]
  /\ fresh' = {} /\ pc' = "gate"
  /\ UNCHANGED <<pausing, stage, visits, asleep, cancelled, status, session, posts, taken,
                 view, chatting, starts>>

(* HttpInterviewer::ask parks the question and waits for an answer.        *)
Ask ==
  /\ pc = "ask"
  /\ interviewer' = [interviewer EXCEPT !.pending = TRUE, !.ready = FALSE]
  /\ fresh' = {} /\ pc' = "gate"
  /\ UNCHANGED <<pausing, stage, visits, asleep, cancelled, status, session, posts, taken,
                 view, chatting, starts>>

GateWaits ==
  /\ pc = "gate" /\ ~asleep
  /\ IF interviewer.ready
     THEN /\ interviewer' = [interviewer EXCEPT !.pending = FALSE]
          /\ taken' = interviewer.answer /\ pc' = "answered" /\ UNCHANGED asleep
     ELSE asleep' = TRUE /\ UNCHANGED <<interviewer, taken, pc>>
  /\ UNCHANGED <<pausing, stage, visits, cancelled, status, session, posts, fresh,
                 view, chatting, starts>>

(* Condition variables may wake their waiters for no reason.               *)
WakesUp ==
  /\ asleep /\ asleep' = FALSE
  /\ UNCHANGED <<pausing, pc, stage, visits, cancelled, status, asking, view, chatting, starts>>

Answered ==
  /\ pc = "answered"
  /\ Emit("HUMAN_ANSWER", stage)
  /\ pc' = "completed"
  /\ UNCHANGED <<pausing, stage, visits, asleep, cancelled, status, asking, chatting, starts>>

Completes ==
  /\ pc = "completed"
  /\ Emit("STAGE_COMPLETED", stage)
  /\ pc' = "next" /\ stage' = NoStage
  /\ UNCHANGED <<pausing, visits, asleep, cancelled, status, asking, chatting, starts>>

(* The loop is over: the last event, then the status.                      *)
Finishes ==
  /\ pc \in {"next", "failed"}
  /\ IF pc = "next" /\ ~cancelled
     THEN /\ stage = NoStage
          /\ Emit("PIPELINE_COMPLETED", NoStage) /\ pc' = "ended_well"
     ELSE Emit("PIPELINE_FAILED", NoStage) /\ pc' = "ended_badly"
  /\ UNCHANGED <<pausing, stage, visits, asleep, cancelled, status, asking, chatting, starts>>

Reports ==
  /\ pc \in {"ended_well", "ended_badly"}
  /\ status' = IF cancelled THEN "cancelled" ELSE IF pc = "ended_well" THEN "completed" ELSE "failed"
  /\ pc' = "gone"
  /\ UNCHANGED <<pausing, stage, visits, asleep, cancelled, asking, view, chatting, starts>>

-----------------------------------------------------------------------------
(* Requests about the run.                                                 *)

Arrives == posts < MaxPosts /\ posts' = posts + 1 /\ fresh' = fresh \union {posts'}

(* POST /continue: to the session if it is active, else to the gate.       *)
PostAnswer ==
  /\ interviewer' = [interviewer EXCEPT !.ready = TRUE, !.answer = posts']
  /\ asleep' = IF pc = "gate" THEN FALSE ELSE asleep

Continue ==
  /\ Arrives
  /\ IF session.active
     THEN /\ session' = [session EXCEPT !.continued = TRUE, !.result = posts']
          /\ asleep' = IF pc = "session" THEN FALSE ELSE asleep
          /\ UNCHANGED interviewer
     ELSE PostAnswer /\ UNCHANGED session
  /\ UNCHANGED <<pausing, pc, stage, visits, cancelled, status, taken, view, chatting, starts>>

(* POST /answer, of either API.                                            *)
Answer ==
  /\ Arrives /\ PostAnswer
  /\ UNCHANGED <<pausing, pc, stage, visits, cancelled, status, session, taken,
                 view, chatting, starts>>

(* The flag is set before the session is locked and notified, so that a    *)
(* thread that is about to wait sees it.                                   *)
Cancel ==
  /\ ~cancelled
  /\ cancelled' = TRUE /\ status' = "cancelled"
  /\ asleep' = IF pc = "session" THEN FALSE ELSE asleep
  /\ UNCHANGED <<pausing, pc, stage, visits, asking, view, chatting, starts>>

(* POST /interactive/chat: the prompt is that of the active stage. When    *)
(* the agent has answered, the turn is put in the history of whichever     *)
(* stage the session is at: the file is read, and written as a whole.      *)
ChatAsks(c) ==
  /\ chat[c].pc = "none" /\ session.active
  /\ chat' = [chat EXCEPT ![c].pc = "agent", ![c].about = session.node]
  /\ UNCHANGED <<pausing, thread, cancelled, status, asking, view, history, starts>>

ChatReads(c) ==
  /\ chat[c].pc = "agent"
  /\ chat' = [chat EXCEPT ![c].pc = "write", ![c].node = session.node,
                          ![c].read = history[session.node]]
  /\ UNCHANGED <<pausing, thread, cancelled, status, asking, view, history, starts>>

ChatWrites(c) ==
  /\ chat[c].pc = "write"
  /\ history' = [history EXCEPT ![chat[c].node] = chat[c].read \union {c}]
  /\ chat' = [chat EXCEPT ![c].pc = "done"]
  /\ UNCHANGED <<pausing, thread, cancelled, status, asking, view, starts>>

-----------------------------------------------------------------------------
Terminated ==
  /\ pc = "gone" /\ request = 0
  /\ UNCHANGED vars

TimerStep == TimerLooks \/ TimerIsDue \/ TimerResumes
ThreadStep ==
  \/ NextStage \/ WaitIfPaused \/ StartStage \/ Works \/ Populate \/ Questions
  \/ SessionWaits \/ Ask \/ GateWaits \/ Answered \/ Completes \/ Finishes \/ Reports
Requests == Pause \/ Resume \/ Schedule \/ Continue \/ Answer \/ Cancel
Next ==
  \/ ThreadStep \/ WakesUp \/ Requests
  \/ TimerStep \/ TimerIsJoined
  \/ \E c \in Chats : ChatAsks(c) \/ ChatReads(c) \/ ChatWrites(c)
  \/ Terminated
Spec == Init /\ [][Next]_vars

(* The threads run; a spurious wakeup is owed to nobody, a request neither. *)
FairSpec == Spec /\ WF_vars(ThreadStep) /\ WF_vars(TimerStep) /\ WF_vars(TimerIsJoined)

-----------------------------------------------------------------------------
(* Types; a thread only sleeps where it waits on a condition variable, and *)
(* a session is active only for the stage its thread is at.                *)
TypeOK ==
  /\ paused \in BOOLEAN /\ resumeAt \in 0..MaxSchedules
  /\ timer \in Timers
  /\ request \in 0..MaxSchedules /\ schedules \in 0..MaxSchedules /\ pauses \in 0..MaxPauses
  /\ pc \in {"next", "paused", "start", "work", "fork", "populate", "question", "session", "ask",
             "gate", "answered", "completed", "failed", "ended_well", "ended_badly", "gone"}
  /\ stage \in Stages \union {NoStage} /\ visits \in 0..MaxVisits
  /\ asleep \in BOOLEAN
  /\ asleep => pc \in {"paused", "session", "gate"}
  /\ cancelled \in BOOLEAN /\ status \in Statuses
  /\ session \in Sessions
  /\ session.active => pc \in {"question", "session"} /\ session.node = stage
  /\ interviewer \in Interviewers
  /\ posts \in 0..MaxPosts /\ fresh \subseteq 1..MaxPosts /\ taken \in 0..MaxPosts
  /\ view \in Views
  /\ history \in [Stages -> SUBSET Chats]
  /\ starts \in 0..2

(* What a stage is told was said to it: the answer it goes on with came    *)
(* after its question was asked, or it was cancelled.                      *)
AnswersMeetTheirQuestions ==
  [][pc # "answered" /\ pc' = "answered" => taken' \in fresh]_vars

(* A pause that was accepted lets each loop start at most the one stage    *)
(* that it had already let through.                                        *)
OneStagePerPause == starts <= 1

(* The dashboard shows what is going on: the stage the loop is in is       *)
(* running, no other is but one that is tried again, a question is pending *)
(* exactly while a gate has one, and of a run that is over no stage runs.  *)
ViewShowsTheRun ==
  /\ view.question <=> (pc \in {"ask", "gate", "answered"} /\ Kind[stage] = "gate")
  /\ pc \in {"work", "fork", "populate", "question", "session", "ask", "gate", "answered",
             "completed"} => view.node[stage] = "running" /\ view.current = stage
  /\ pc \in {"ended_well", "ended_badly", "gone"} =>
       \A s \in Stages : view.node[s] # "running"

(* A schedule ends its pause: it is not paused for ever under a schedule   *)
(* that nothing takes back.                                                *)
SchedulesEndPauses == paused /\ resumeAt # 0 ~> ~paused \/ resumeAt = 0

-----------------------------------------------------------------------------
(* Sessions and gates both implement OpenQuestion, whatever is posted to   *)
(* which of them, twice, too early or too late: a session asks when it is  *)
(* filled, before its question is shown, and a gate when the question is   *)
(* parked, after it.                                                       *)
Asked == session.active \/ pc = "gate"
Mail ==
  IF session.active THEN IF session.continued THEN session.result ELSE 0
  ELSE IF pc = "gate" /\ interviewer.ready THEN interviewer.answer ELSE 0
Question == INSTANCE OpenQuestion WITH Answers <- 1..MaxPosts, None <- 0,
                                       asked <- Asked, mail <- Mail, given <- taken
ImplementsQuestion == Question!Spec
=============================================================================
