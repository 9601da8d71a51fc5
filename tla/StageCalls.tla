------------------------------ MODULE StageCalls ------------------------------
(***************************************************************************)
(* The stages that ask somebody outside: the handlers of agents, tools,    *)
(* fetchers, nested runs, manager loops and fan-ins with their backends,   *)
(* visit after visit of one node, and the stage directory they share with  *)
(* the engine. Each handler turns the answer it gets into an outcome; the  *)
(* agents of CLIBackend write into the directory meanwhile, and may        *)
(* outlive an engine that dies.                                            *)
(***************************************************************************)
EXTENDS BranchMerge, Integers

CONSTANTS
  Gates,       \* the goal gates in the body of a manager loop
  MaxRounds,   \* max_iterations of the manager loop
  MaxDepth,    \* max_depth of a nested run
  MaxVisits, MaxLevels, MaxRetries  \* bounds: visits, nesting, attempts

ASSUME CallsAssumption ==
  /\ {MaxRounds, MaxDepth, MaxVisits, MaxLevels, MaxRetries} \subseteq Nat
  /\ MaxLevels > 0

VARIABLES
  kind,     \* the handler type of the node
  isRepo,   \* whether the handler's directory is a git repository, if it asks
  place,    \* where its agent works: in the "project" or a branch's worktree
  visit, pc,
  heads,    \* the number of commits at both places
  before,   \* capture() at the start of the visit, if it is valid
  dir,      \* which visit wrote each file of the stage directory; 0: absent
  status,   \* status.json: its visit, its author and what it says
  agent,    \* the visit of the CLI agent that is alive, 0 if there is none
  call,     \* the answer that the last call got
  outcome,  \* what the handler returned, with the keys of its context updates
  round, gates,   \* the manager loop's rounds, and the gates that are met
  levels,         \* the contexts of the nested engines
  attempts        \* RetryController's count for the node

callVars == <<kind, isRepo, place, visit, pc, heads, before, dir, status, agent, call, outcome,
              round, gates, levels, attempts>>
vars == <<callVars, forkVars>>

Commanding == {"codergen", "fan_in"}
Fetching == {"web_search", "git", "web", "pdf"}
Kinds == Commanding \union Fetching \union {"llmkit", "tool", "nested", "manager"}
Verdicts == {"SUCCESS", "PARTIAL_SUCCESS", "RETRY", "FAILURE"}
Files == {"prompt", "response", "debug", "repo"}
Keys == {"output", "session", "cli.timeout_kind", "tool.timeout_kind", "git_state", "said", "stdout",
         "skipped", "content", "success", "failed", "iterations", "conflict", "merged"}
Ends == {"exit 0", "exit 1", "limit", "timeout", "unrunnable"}
Answers == [end : Ends, out : BOOLEAN, err : BOOLEAN]
NoAnswer == [end |-> "none", out |-> FALSE, err |-> FALSE]
NoStatus == [visit |-> 0, by |-> "nobody", says |-> "nothing", timeout |-> FALSE, commits |-> 0]

(* A Result: an outcome, or (ok = FALSE) an error that ends the run.       *)
Result(verdict, text, keys) == [ok |-> TRUE, verdict |-> verdict, text |-> text, keys |-> keys, commits |-> 0]
Error == [ok |-> FALSE, verdict |-> "FAILURE", text |-> TRUE, keys |-> {}, commits |-> 0]

-----------------------------------------------------------------------------
(* What each handler makes of the answer of its process or its server.     *)

(* CLIBackend::execute                                                     *)
CliOutcome(a) ==
  CASE a.end = "unrunnable" -> Error
    [] a.end = "timeout" -> Result("FAILURE", TRUE, {"cli.timeout_kind", "session"})
    [] a.end = "exit 0" -> Result("SUCCESS", a.out, {"session"})
    [] a.end = "limit" -> Result("RETRY", TRUE, {"session"})
    [] a.end = "exit 1" -> Result("FAILURE", a.out \/ a.err, {"session"})

(* ... and of the status.json that lies in the stage directory by then.    *)
Overruled(o, s) ==
  IF s.visit = 0 \/ ~o.ok THEN o
  ELSE [o EXCEPT !.verdict = IF s.says = "nothing" THEN @ ELSE s.says, !.keys = @ \union {"said"}]

CodergenOutcome(a, s) ==
  LET o == Overruled(CliOutcome(a), s)
  IN [o EXCEPT !.keys = IF o.ok /\ o.text THEN @ \union {"output"} ELSE @]
FanInOutcome(a, s) ==
  LET o == Overruled(CliOutcome(a), s)
  IN [o EXCEPT !.keys = IF o.ok THEN @ \union {"output", "merged"} ELSE @]

ToolOutcome(a) ==
  IF a.end = "unrunnable" THEN Error
  ELSE Result(IF a.end = "exit 0" THEN "SUCCESS" ELSE "FAILURE", a.out,
              {"stdout"} \union (IF a.end = "timeout" THEN {"tool.timeout_kind"} ELSE {}))

(* An HTTP answer: "exit 0" is a 200 with a body, "exit 1" a body that is  *)
(* not what the provider sends, "limit" a 429 or 5xx. classify_http_error, *)
(* which would make that a retry, is called by nobody.                     *)
HttpText(a) ==
  CASE a.end \in {"unrunnable", "timeout", "limit"} -> [ok |-> FALSE, text |-> TRUE]
    [] OTHER -> [ok |-> a.end = "exit 0", text |-> a.out]
LLMKitOutcome(a, configured) ==
  IF ~configured THEN Error
  ELSE Result(IF HttpText(a).ok THEN "SUCCESS" ELSE "FAILURE", HttpText(a).ok => HttpText(a).text, {})

WebSearchOutcome(a, configured) ==
  IF ~configured \/ a.end # "exit 0" THEN Result("SUCCESS", TRUE, {"skipped", "content"})
  ELSE Result("SUCCESS", a.out, {"content"})

(* doc_fetch: git clones only into a directory that is not there yet; a    *)
(* PDF is downloaded and then converted, either may fail.                  *)
DocFetchOutcome(a, hasUrl) ==
  IF ~hasUrl \/ a.end # "exit 0" THEN Result("SUCCESS", TRUE, {"skipped", "content"})
  ELSE Result("SUCCESS", a.out, {"content"})

NestedOutcome(a) ==
  CASE a.end = "unrunnable" -> Result("FAILURE", TRUE, {"failed"})
    [] a.end = "exit 0" -> Result("SUCCESS", a.out, {"success", "content"})
    [] OTHER -> Result("FAILURE", TRUE, {"failed", "content"})

(* HandlerBase::execute: a failure always says something.                  *)
WithText(o) == [o EXCEPT !.text = @ \/ o.verdict = "FAILURE"]

(* GitStateRecorder::diff of the two snapshots, where both are valid.      *)
GitPlace == IF kind = "tool" THEN place ELSE "project"
WithGitState(o) ==
  IF o.ok /\ isRepo
  THEN [o EXCEPT !.keys = @ \union {"git_state"}, !.commits = heads[GitPlace] - before]
  ELSE o

-----------------------------------------------------------------------------
CallInit ==
  /\ kind \in Kinds /\ isRepo \in IF kind \in {"codergen", "tool"} THEN BOOLEAN ELSE {FALSE}
  /\ place \in IF kind \in {"codergen", "tool"} THEN {"project", "branch"} ELSE {"project"}
  /\ visit = 0 /\ pc = "idle"
  /\ heads = [p \in {"project", "branch"} |-> 0] /\ before = 0
  /\ dir = [f \in Files |-> 0] /\ status = NoStatus /\ agent = 0
  /\ call = NoAnswer /\ outcome = Error
  /\ round = 0 /\ gates = {} /\ levels = <<>> /\ attempts = 0

Returns(o) == outcome' = o /\ pc' = "returned"
NodeIsStill == UNCHANGED <<kind, isRepo, place>>
StageIsStill == UNCHANGED <<dir, status, agent>>
LoopsAreStill == UNCHANGED <<round, gates, levels>>
(* Control goes back to the engine's loop; the locals are gone.            *)
StageIsOver ==
  /\ pc' = "idle" /\ outcome' = Error /\ call' = NoAnswer /\ before' = 0
  /\ round' = 0 /\ gates' = {} /\ levels' = <<>>

(* The engine reaches the node: in a loop, by a retry or by a resume. The  *)
(* codergen handler clears the answers of the visit before, and notes the  *)
(* state of the project's repository.                                      *)
Visits == pc = "idle" /\ visit < MaxVisits /\ visit' = visit + 1
EnterCodergen ==
  /\ Visits /\ kind = "codergen"
  /\ dir' = [dir EXCEPT !["response"] = 0] /\ status' = NoStatus
  /\ before' = heads["project"] /\ pc' = "command"
  /\ NodeIsStill /\ LoopsAreStill
  /\ UNCHANGED <<heads, agent, call, outcome, attempts, forkVars>>
EnterTool ==
  /\ Visits /\ kind = "tool"
  /\ before' = heads[place] /\ pc' = "calling"
  /\ NodeIsStill /\ StageIsStill /\ LoopsAreStill
  /\ UNCHANGED <<heads, call, outcome, attempts, forkVars>>
EnterCall ==
  /\ Visits /\ kind \in Fetching \union {"llmkit"}
  /\ pc' = "calling"
  /\ NodeIsStill /\ StageIsStill /\ LoopsAreStill
  /\ UNCHANGED <<heads, before, call, outcome, attempts, forkVars>>
(* The merge of a fan-in is BranchMerge's.                                 *)
EnterFanIn ==
  /\ Visits /\ kind = "fan_in" /\ FanInBegins
  /\ pc' = "merging"
  /\ NodeIsStill /\ StageIsStill /\ LoopsAreStill
  /\ UNCHANGED <<heads, before, call, outcome, attempts>>
(* What FanInHandler makes of it: a conflict fails the stage, an error of  *)
(* git the run; without a backend for its prompt the node is done.         *)
MergeReturns ==
  /\ pc = "merging"
  /\ \/ phase = "conflict" /\ Returns(Result("FAILURE", TRUE, {"conflict"}))
     \/ phase = "failed" /\ Returns(Error)
     \/ phase = "merged" /\ Returns(Result("SUCCESS", TRUE, {}))
     \/ phase = "merged" /\ pc' = "command" /\ UNCHANGED outcome
  /\ NodeIsStill /\ StageIsStill /\ LoopsAreStill
  /\ UNCHANGED <<visit, heads, before, call, attempts, forkVars>>

(* Mutant: what an earlier visit has left behind is not moved away.        *)
SendPromptAtOnce ==
  /\ pc = "command"
  /\ \/ /\ dir' = [dir EXCEPT !["prompt"] = visit] /\ agent' = visit /\ pc' = "calling"
        /\ UNCHANGED <<outcome, status>>
     \/ /\ dir' = dir /\ Returns(Error) /\ UNCHANGED <<agent, status>>
  /\ NodeIsStill /\ LoopsAreStill
  /\ UNCHANGED <<visit, heads, before, call, attempts, forkVars>>

(* CLIBackend moves the files of earlier visits away, writes the prompt    *)
(* and starts the agent, unless the file cannot be written or is too long. *)
SendPrompt ==
  /\ pc = "command"
  /\ status' = NoStatus
  /\ \/ /\ dir' = [f \in Files |-> CASE f = "prompt" -> visit [] f = "repo" -> dir[f] [] OTHER -> 0]
        /\ agent' = visit /\ pc' = "calling" /\ UNCHANGED outcome
     \/ /\ \E prompt \in {0, visit} :
             dir' = [f \in Files |-> CASE f = "prompt" -> prompt [] f = "repo" -> dir[f] [] OTHER -> 0]
        /\ Returns(Error) /\ UNCHANGED agent
  /\ NodeIsStill /\ LoopsAreStill
  /\ UNCHANGED <<visit, heads, before, call, attempts, forkVars>>

(* An agent commits where it works, and writes its verdict into the stage  *)
(* directory; one whose engine has died goes on with both.                 *)
AgentCommits ==
  /\ (pc = "calling" /\ kind \in {"codergen", "tool"}) \/ agent # 0
  /\ isRepo /\ heads[place] < visit
  /\ heads' = [heads EXCEPT ![place] = @ + 1]
  /\ NodeIsStill /\ StageIsStill /\ LoopsAreStill
  /\ UNCHANGED <<visit, pc, before, call, outcome, attempts, forkVars>>
AgentWrites(says) ==
  /\ agent # 0
  /\ status' = [visit |-> visit, by |-> "agent", says |-> says, timeout |-> FALSE, commits |-> 0]
  /\ NodeIsStill /\ LoopsAreStill
  /\ UNCHANGED <<visit, pc, heads, before, dir, agent, call, outcome, attempts, forkVars>>

-----------------------------------------------------------------------------
(* The call returns, and the handler with it.                              *)
AgentEnds(a) ==
  /\ pc = "calling" /\ kind \in Commanding
  /\ call' = a
  /\ agent' = IF agent = visit THEN 0 ELSE agent
  /\ dir' = IF a.end = "unrunnable" THEN dir
            ELSE [dir EXCEPT !["response"] = visit, !["debug"] = IF a.err THEN visit ELSE @]
  /\ Returns(IF kind = "codergen" THEN WithText(WithGitState(CodergenOutcome(a, status)))
             ELSE FanInOutcome(a, status))
  /\ NodeIsStill /\ LoopsAreStill
  /\ UNCHANGED <<visit, heads, before, status, attempts, forkVars>>

ToolEnds(a) ==
  /\ pc = "calling" /\ kind = "tool"
  /\ call' = a
  /\ Returns(WithText(WithGitState(ToolOutcome(a))))
  /\ NodeIsStill /\ StageIsStill /\ LoopsAreStill
  /\ UNCHANGED <<visit, heads, before, attempts, forkVars>>

(* llmkit writes its files only for a call it makes and an answer it gets. *)
ProviderAnswers(a, configured) ==
  /\ pc = "calling" /\ kind = "llmkit"
  /\ call' = a
  /\ Returns(WithText(LLMKitOutcome(a, configured)))
  /\ dir' = IF ~configured THEN dir
            ELSE [dir EXCEPT !["prompt"] = visit,
                             !["response"] = IF HttpText(a).ok THEN visit ELSE @]
  /\ NodeIsStill /\ LoopsAreStill
  /\ UNCHANGED <<visit, heads, before, status, agent, attempts, forkVars>>

SearchEnds(a, configured) ==
  /\ pc = "calling" /\ kind = "web_search"
  /\ call' = IF configured THEN a ELSE NoAnswer
  /\ Returns(WebSearchOutcome(a, configured))
  /\ NodeIsStill /\ StageIsStill /\ LoopsAreStill
  /\ UNCHANGED <<visit, heads, before, attempts, forkVars>>
FetchEnds(a, hasUrl) ==
  /\ pc = "calling" /\ kind \in {"git", "web", "pdf"}
  /\ kind = "git" /\ dir["repo"] # 0 => a.end # "exit 0"
  /\ call' = IF hasUrl THEN a ELSE NoAnswer
  /\ dir' = IF kind = "git" /\ hasUrl /\ a.end = "exit 0" THEN [dir EXCEPT !["repo"] = visit] ELSE dir
  /\ Returns(DocFetchOutcome(a, hasUrl))
  /\ NodeIsStill /\ LoopsAreStill
  /\ UNCHANGED <<visit, heads, before, status, agent, attempts, forkVars>>

-----------------------------------------------------------------------------
(* A nested run is another needle, with a context of its own. It gets its  *)
(* depth as a variable, which the command line puts under "var.".          *)
Depth == IF levels = <<>> THEN 0 ELSE levels[Len(levels)].depth
Child == [depth |-> 0, var |-> Depth + 1]
EnterNested ==
  /\ \/ Visits \/ (pc = "calling" /\ Len(levels) < MaxLevels /\ UNCHANGED visit)
  /\ kind = "nested"
  /\ \/ IF Depth < MaxDepth
        THEN levels' = Append(levels, Child) /\ pc' = "calling" /\ UNCHANGED outcome
        ELSE Returns(Result("FAILURE", TRUE, {})) /\ UNCHANGED levels
     \/ levels = <<>> /\ Returns(Error) /\ UNCHANGED levels
  /\ NodeIsStill /\ StageIsStill
  /\ UNCHANGED <<heads, before, call, attempts, round, gates, forkVars>>
NestedEnds(a) ==
  /\ pc = "calling" /\ kind = "nested"
  /\ call' = a /\ levels' = Front(levels)
  /\ IF Len(levels) = 1 THEN Returns(NestedOutcome(a)) ELSE UNCHANGED <<pc, outcome>>
  /\ NodeIsStill /\ StageIsStill
  /\ UNCHANGED <<visit, heads, before, attempts, round, gates, forkVars>>

(* A manager loop walks its body again and again. The stages of the body   *)
(* share its context, where their agents put the goals they have met.      *)
EnterManager ==
  /\ Visits /\ kind = "manager"
  /\ round' = 0
  /\ \/ IF MaxRounds > 0 THEN pc' = "looping" /\ UNCHANGED outcome
        ELSE Returns(Result("FAILURE", TRUE, {}))
     \/ Returns(Error)
  /\ NodeIsStill /\ StageIsStill
  /\ UNCHANGED <<heads, before, call, attempts, gates, levels, forkVars>>

(* Mutant: a body that succeeds is taken for one that has met its goals.   *)
EagerRoundOutcome(sub, met) ==
  IF sub = "error" THEN Error
  ELSE IF met = Gates \/ sub = "SUCCESS" THEN Result("SUCCESS", TRUE, {"iterations"})
  ELSE IF sub = "FAILURE" THEN Result("FAILURE", FALSE, {})
  ELSE Result("FAILURE", TRUE, {})

RoundOutcome(sub, met) ==
  IF sub = "error" THEN Error
  ELSE IF met = Gates THEN Result("SUCCESS", TRUE, {"iterations"})
  ELSE IF sub = "FAILURE" THEN Result("FAILURE", FALSE, {})
  ELSE Result("FAILURE", TRUE, {})
(* Mutant: one round more than max_iterations.                             *)
IsPastRounds(n) == n > MaxRounds
IsLastRound(n) == n = MaxRounds
RoundEnds(sub, met) ==
  /\ pc = "looping"
  /\ round' = round + 1 /\ gates' = met
  /\ IF sub \in {"error", "FAILURE"} \/ RoundOutcome(sub, met).verdict = "SUCCESS" \/ IsLastRound(round + 1)
     THEN Returns(RoundOutcome(sub, met)) ELSE UNCHANGED <<pc, outcome>>
  /\ NodeIsStill /\ StageIsStill
  /\ UNCHANGED <<visit, heads, before, call, attempts, levels, forkVars>>

-----------------------------------------------------------------------------
(* write_stage_directory: the engine's own summary, and the files that the *)
(* handler did not write. It looks for keys that end in ".timeout_kind".   *)
StageWritten(o) ==
  /\ status' = [visit |-> visit, by |-> "engine", says |-> o.verdict,
                timeout |-> "tool.timeout_kind" \in o.keys, commits |-> o.commits]
  /\ dir' = [dir EXCEPT !["prompt"] = IF @ = 0 THEN visit ELSE @,
                        !["response"] = IF @ = 0 /\ o.text THEN visit ELSE @]

(* The loop: an error ends the run and leaves everything as it is. A retry *)
(* leaves no trace of its own, until there are none left.                  *)
EngineRecords ==
  /\ pc = "returned" /\ outcome.ok /\ outcome.verdict # "RETRY"
  /\ StageWritten(outcome)
  /\ StageIsOver /\ NodeIsStill
  /\ UNCHANGED <<visit, heads, agent, attempts, forkVars>>
EngineRetries ==
  /\ pc = "returned" /\ outcome.ok /\ outcome.verdict = "RETRY" /\ attempts < MaxRetries
  /\ attempts' = attempts + 1
  /\ \/ kind = "fan_in" /\ FanInRetried
     \/ kind # "fan_in" /\ UNCHANGED forkVars
  /\ StageIsOver /\ NodeIsStill /\ StageIsStill
  /\ UNCHANGED <<visit, heads>>
PartialAccepted ==
  /\ pc = "returned" /\ outcome.ok /\ outcome.verdict = "RETRY" /\ attempts = MaxRetries
  /\ StageWritten([outcome EXCEPT !.verdict = "PARTIAL_SUCCESS", !.text = TRUE])
  /\ StageIsOver /\ NodeIsStill
  /\ UNCHANGED <<visit, heads, agent, attempts, forkVars>>
RunFails ==
  /\ pc = "returned"
  /\ ~outcome.ok \/ (outcome.verdict = "RETRY" /\ attempts = MaxRetries)
  /\ attempts' = 0
  /\ StageIsOver /\ NodeIsStill /\ StageIsStill
  /\ UNCHANGED <<visit, heads, forkVars>>

(* The engine dies; a resume will visit the node again. Its agent and the  *)
(* nested engines are processes of their own.                              *)
EngineDies ==
  /\ pc \in {"command", "calling", "looping", "returned"} /\ kind # "fan_in"
  /\ attempts' = 0
  /\ StageIsOver /\ NodeIsStill /\ StageIsStill
  /\ UNCHANGED <<visit, heads, forkVars>>
StrayEnds ==
  /\ agent # 0 /\ (agent # visit \/ pc = "idle")
  /\ agent' = 0
  /\ NodeIsStill /\ LoopsAreStill
  /\ UNCHANGED <<visit, pc, heads, before, dir, status, call, outcome, attempts, forkVars>>

(* A fork and its merge go on while the fan-in's handler is in merge(), or *)
(* before the engine reaches it.                                           *)
MergeStep ==
  /\ kind = "fan_in" /\ pc \in {"idle", "merging"}
  /\ \/ pc = "idle" /\ (\E branches \in Forks : ForkBegins(branches))
     \/ \E b \in Branches : EnsureReady(b) \/ BranchCommits(b)
     \/ \E b \in Branches : RemoveTree(b)
     \/ BranchesStart \/ LaunchCommits \/ Join \/ TakeBranch \/ MergeEnds \/ FanInEnds
     \/ \E obstacle \in {"nothing", "content", "empty", "unfinished"} : Pick(obstacle)
     \/ OperatorEndsPick
     \/ pc = "idle" /\ ResumeAtFanIn
  /\ UNCHANGED callVars
FanInDies ==
  /\ pc = "merging" /\ MergeDies
  /\ pc' = "idle"
  /\ NodeIsStill /\ StageIsStill /\ LoopsAreStill
  /\ UNCHANGED <<visit, heads, before, call, outcome, attempts>>

(* What is in the way of a worktree concerns fan-ins alone.                *)
Init == CallInit /\ ForkInit /\ (kind # "fan_in" => \A b \in Branches : path[b] = "nothing")
Next ==
  \/ EnterCodergen \/ EnterTool \/ EnterCall \/ EnterFanIn \/ EnterNested \/ EnterManager
  \/ MergeReturns \/ SendPrompt \/ AgentCommits
  \/ \E says \in Verdicts \union {"nothing"} : AgentWrites(says)
  \/ \E a \in Answers : AgentEnds(a) \/ ToolEnds(a) \/ NestedEnds(a)
  \/ \E a \in Answers, known \in BOOLEAN :
       ProviderAnswers(a, known) \/ SearchEnds(a, known) \/ FetchEnds(a, known)
  \/ \E sub \in {"error", "SUCCESS", "PARTIAL_SUCCESS", "FAILURE"}, met \in SUBSET Gates :
       RoundEnds(sub, met)
  \/ EngineRecords \/ EngineRetries \/ PartialAccepted \/ RunFails \/ EngineDies \/ StrayEnds
  \/ MergeStep \/ FanInDies
Spec == Init /\ [][Next]_vars

-----------------------------------------------------------------------------
Outcomes == [ok : BOOLEAN, verdict : Verdicts, text : BOOLEAN, keys : SUBSET Keys, commits : 0..MaxVisits]
Statuses == [visit : 0..MaxVisits, by : {"nobody", "agent", "engine"}, timeout : BOOLEAN,
             says : Verdicts \union {"nothing"}, commits : 0..MaxVisits]
Contexts == [depth : {0}, var : 1..MaxDepth]
(* Type correctness; the rounds of a manager and the attempts of a stage   *)
(* keep to their limits.                                                   *)
CallTypeOK ==
  /\ kind \in Kinds /\ isRepo \in BOOLEAN /\ place \in {"project", "branch"}
  /\ visit \in 0..MaxVisits
  /\ pc \in {"idle", "merging", "command", "calling", "looping", "returned"}
  /\ heads \in [{"project", "branch"} -> 0..MaxVisits] /\ before \in 0..MaxVisits
  /\ dir \in [Files -> 0..MaxVisits] /\ status \in Statuses /\ agent \in 0..MaxVisits
  /\ call \in Answers \union {NoAnswer} /\ outcome \in Outcomes
  /\ round \in 0..MaxRounds /\ gates \subseteq Gates
  /\ levels \in Seq(Contexts) /\ Len(levels) <= MaxLevels
  /\ attempts \in 0..MaxRetries
(* Type correctness of the stages and of the merge they are composed with. *)
TypeOK == ForkTypeOK /\ CallTypeOK

Commanded == kind = "codergen" \/ (kind = "fan_in" /\ "merged" \in outcome.keys)

(* A stage succeeds by an exit with 0 before its timeout, by a status.json *)
(* that was written during this visit, or by its merge alone.              *)
SuccessIsEarned ==
  pc = "returned" /\ outcome.ok /\ outcome.verdict = "SUCCESS" /\ kind \notin Fetching =>
    \/ kind = "manager" /\ gates = Gates /\ round > 0
    \/ kind = "fan_in" /\ ~Commanded /\ phase = "merged"
    \/ call.end = "exit 0"
    \/ Commanded /\ status.visit = visit /\ status.by = "agent" /\ status.says = "SUCCESS"
(* What its agent leaves in the stage directory is of this visit, whatever *)
(* earlier visits, retries and engines that died have left there.          *)
FilesAreOfTheVisit ==
  pc = "returned" /\ outcome.ok /\ Commanded =>
    /\ dir["prompt"] = visit /\ dir["response"] = visit
    /\ dir["debug"] \in {0, visit} /\ status.visit \in {0, visit}
(* A stage that fails says why, unless its handler hands on the outcome of *)
(* another, and a nested run's flag agrees with its outcome.               *)
FailuresSayWhy ==
  pc = "returned" =>
    /\ outcome.verdict = "FAILURE" /\ kind \notin {"fan_in", "manager"} => outcome.text
    /\ "success" \in outcome.keys => outcome.verdict = "SUCCESS" /\ call.end = "exit 0"
    /\ "failed" \in outcome.keys => outcome.verdict = "FAILURE"

(* What a stage says of itself is what happened in this visit of it.       *)
StagesTellTheTruth == SuccessIsEarned /\ FilesAreOfTheVisit /\ FailuresSayWhy
=============================================================================
