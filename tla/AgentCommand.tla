----------------------------- MODULE AgentCommand -----------------------------
(***************************************************************************)
(* What CLIBackend and the fetching handlers make of texts: the prompt of  *)
(* an agent, its command line, the wait that a rate limit asks for, the    *)
(* documents that go into a context. A text is a sequence of fragments.    *)
(***************************************************************************)
EXTENDS Integers, Sequences, SequencesExt, FiniteSets, FiniteSetsExt, Functions

(* The fragment behind the first occurrence of a phrase.                   *)
Behind(s, phrase) ==
  IF \E i \in 1..Len(s) - 1 : s[i] = phrase
  THEN s[(CHOOSE i \in 1..Len(s) - 1 : s[i] = phrase /\ \A j \in 1..i - 1 : s[j] # phrase) + 1]
  ELSE "nothing"

-----------------------------------------------------------------------------
(* detect_rate_limit. Of the times that an agent may name, in seconds: how *)
(* long it says to wait; from now to a date; or to a time of today.        *)
Limits == {"rate limit", "overloaded"}
Relative == [zero |-> 0, five |-> 5, day |-> 90000]
Dates == [yesterday |-> -86400, tomorrow |-> 50000, someday |-> 900000]
TimesOfDay == [morning |-> -7200, evening |-> 7200]
Day == 86400

(* The moment that "try again at" names, from now.                         *)
Target(t) ==
  IF t \in DOMAIN Dates THEN Dates[t]
  ELSE IF TimesOfDay[t] <= 0 THEN TimesOfDay[t] + Day ELSE TimesOfDay[t]
IsClock(t) == t \in DOMAIN Dates \union DOMAIN TimesOfDay

(* Mutant: a time of day that has passed is taken for one of today.        *)
UntilToday(t) ==
  IF t \in DOMAIN TimesOfDay /\ TimesOfDay[t] <= 0 THEN 1000
  ELSE IF Target(t) > Day THEN Day * 1000 + 5000
  ELSE IF Target(t) > 0 THEN Target(t) * 1000 + 5000 ELSE 1000

Until(t) ==
  IF Target(t) > Day THEN Day * 1000 + 5000
  ELSE IF Target(t) > 0 THEN Target(t) * 1000 + 5000 ELSE 1000

(* What it says behind "try again in" goes before what is behind "at".     *)
WaitFor(in, at) ==
  IF in \in DOMAIN Relative THEN Max({1000, Relative[in] * 1000 + 500})
  ELSE IF IsClock(at) THEN Until(at) ELSE 60000
IsLimited(message) == ToSet(message) \intersect Limits # {}
WaitMs(message) ==
  IF IsLimited(message)
  THEN WaitFor(Behind(message, "try again in "), Behind(message, "try again at ")) ELSE 0

(* A limited agent is left alone for a second at least, and until the time *)
(* it has named, if that is within a day.                                  *)
LimitsAreWaitedFor(message) ==
  LET in == Behind(message, "try again in ")
      at == Behind(message, "try again at ")
  IN /\ IsLimited(message) <=> WaitMs(message) > 0
     /\ IsLimited(message) => WaitMs(message) >= 1000
     /\ IsLimited(message) /\ in \in DOMAIN Relative => WaitMs(message) >= Relative[in] * 1000
     /\ IsLimited(message) /\ in = "nothing" /\ IsClock(at) =>
          WaitMs(message) >= 1000 * Min({Target(at), Day})

-----------------------------------------------------------------------------
(* build_fidelity_preamble: the kinds of context keys a preamble shows.    *)
KeyKinds == {"var", "output", "results", "needle", "internal", "internal output", "other"}
Shown(mode) ==
  CASE mode = "truncate" -> {}
    [] mode = "summary:low" -> {"var"}
    [] mode = "summary:medium" -> {"var", "output"}
    [] mode = "summary:high" -> KeyKinds \ {"needle", "internal", "internal output"}
    [] mode = "full" -> KeyKinds \ {"needle"}
    [] OTHER -> {"output", "results", "internal output"}

(* PromptAssemblyPolicyRegistry, and what execute() appends to a prompt.   *)
Reviewing == {"critique", "review", "docs", "troubleshoot"}
Classes == Reviewing \union {"", "coding", "implement", "fix", "apply_feedback", "unknown"}
PolicyFor(class) ==
  [isolated |-> class \in Reviewing, feedback |-> class = "apply_feedback",
   workflow |-> IF class \in Reviewing THEN "NonCoding" ELSE "Implementation",
   skills |-> class \notin Reviewing]
Prompt(mode, class, noCommit, feedback, provider, wantsSkills) ==
  LET policy == PolicyFor(class)
  IN <<Shown(mode)>>
     \o (IF policy.isolated THEN <<{"role isolation"}>> ELSE <<>>)
     \o (IF policy.feedback /\ feedback THEN <<{"feedback"}>> ELSE <<>>)
     \o (IF policy.workflow = "NonCoding" THEN <<{"do not commit"}>>
         ELSE IF noCommit THEN <<>> ELSE <<{"commit"}>>)
     \o (IF policy.skills /\ provider = "claude" /\ wantsSkills THEN <<{"skills"}>> ELSE <<>>)

(* A node that only looks is never told to write, and is told that it must *)
(* not; no mode shows less than one below it, and the engine's own keys    *)
(* are in no summary.                                                      *)
PromptsKeepTheirRole ==
  /\ \A class \in Reviewing, noCommit, feedback, skills \in BOOLEAN, mode \in {"compact", "full"},
         provider \in {"claude", "codex"} :
       LET parts == UNION ToSet(Tail(Prompt(mode, class, noCommit, feedback, provider, skills)))
       IN parts = {"role isolation", "do not commit"}
  /\ LET modes == <<"truncate", "summary:low", "summary:medium", "summary:high", "full">>
     IN \A i \in 1..4 : Shown(modes[i]) \subseteq Shown(modes[i + 1])
  /\ \A mode \in {"summary:low", "summary:medium", "summary:high"} :
       Shown(mode) \intersect {"needle", "internal"} = {}

-----------------------------------------------------------------------------
(* The template of a node's provider; its model; where the agent works.    *)
ResolveTemplate(node, templates, default) ==
  LET provider == IF node.llm_provider # "" THEN node.llm_provider ELSE node.agent
  IN IF provider \in templates THEN provider ELSE default
WorkingDir(node, ctx) ==
  CASE node.working_dir # "" -> node.working_dir
    [] node.working_dir = "" /\ node.cwd_scope # "parent" /\ ctx.branch # "" -> ctx.branch
    [] OTHER -> IF ctx.project # "" THEN ctx.project ELSE "."

(* allowed_tools: names between commas, without blanks and without the     *)
(* scope behind a colon.                                                   *)
Modifying == {"Edit", "Write", "NotebookEdit"}
Unscoped(s) ==
  IF \E i \in DOMAIN s : s[i] = ":"
  THEN SubSeq(s, 1, (CHOOSE i \in DOMAIN s : s[i] = ":" /\ \A j \in 1..i - 1 : s[j] # ":") - 1)
  ELSE s
Entries(s) ==
  LET commas == {i \in DOMAIN s : s[i] = ","} \union {0, Len(s) + 1}
      after(i) == Min({j \in commas : j > i})
      entry(i) == SelectSeq(SubSeq(s, i + 1, after(i) - 1), LAMBDA c : c # " ")
  IN {entry(i) : i \in commas \ {Len(s) + 1}} \ {<<>>}
AllowedNames(s) == {Unscoped(e) : e \in Entries(s)}

(* The words that are put behind the command of a node with such a list.   *)
ToolArgs(s, provider) ==
  IF s = <<>> \/ provider # "claude" THEN [allowed |-> {}, disallowed |-> {}]
  ELSE [allowed |-> AllowedNames(s),
        disallowed |-> {t \in Modifying : <<t>> \notin AllowedNames(s)}]

(* A tool that changes files and is not named in a list is forbidden to    *)
(* an agent of Claude, and no tool is both allowed and forbidden.          *)
UnlistedToolsAreForbidden(s) ==
  LET args == ToolArgs(s, "claude")
  IN s # <<>> => \A t \in Modifying :
       /\ t \in args.disallowed <=> <<t>> \notin args.allowed
       /\ t \notin ToSet(s) => t \in args.disallowed

-----------------------------------------------------------------------------
(* doc_fetch. A page's text: what is in no tag and in no script.           *)
TextFrom(s) ==
  LET text[i \in 1..Len(s) + 1, inTag \in BOOLEAN, inScript \in BOOLEAN] ==
        IF i > Len(s) THEN <<>>
        ELSE CASE s[i] = "<" ->
                    text[i + 1, TRUE, IF i < Len(s) /\ s[i + 1] \in {"script", "/script"}
                                      THEN s[i + 1] = "script" ELSE inScript]
               [] s[i] = ">" -> text[i + 1, FALSE, inScript]
               [] OTHER -> (IF inTag \/ inScript THEN <<>> ELSE <<s[i]>>)
                             \o text[i + 1, inTag, inScript]
  IN text
PageText(s) == TextFrom(s)[1, FALSE, FALSE]

(* Of a repository's files those that still fit are taken, one by one.     *)
FetchLimit == 5
Size(sizes, taken) == MapThenSumSet(LAMBDA j : sizes[j], taken)
Taken(sizes) ==
  FoldLeftDomain(LAMBDA taken, i : IF Size(sizes, taken) + sizes[i] <= FetchLimit
                                   THEN taken \union {i} ELSE taken, {}, sizes)

(* The text of a page are its words that no tag is open in front of, if    *)
(* the last script before them is closed.                                  *)
LastOf(s, i, C) == LET js == {j \in 1..i - 1 : s[j] \in C} IN IF js = {} THEN 0 ELSE Max(js)
IsText(s, i) ==
  LET scripts == {j \in 2..i - 1 : s[j - 1] = "<" /\ s[j] \in {"script", "/script"}}
  IN /\ s[i] \notin {"<", ">"}
     /\ LastOf(s, i, {"<"}) <= LastOf(s, i, {">"})
     /\ scripts = {} \/ s[Max(scripts)] = "/script"
PagesAreRead(s) ==
  LET kept == SetToSortSeq({i \in DOMAIN s : IsText(s, i)}, <)
  IN PageText(s) = [i \in DOMAIN kept |-> s[kept[i]]]

(* What is taken of a repository fits into the context, and nothing that   *)
(* was left out would.                                                     *)
RepositoriesFit(sizes) ==
  /\ Size(sizes, Taken(sizes)) <= FetchLimit
  /\ \A i \in DOMAIN sizes \ Taken(sizes) : Size(sizes, Taken(sizes)) + sizes[i] > FetchLimit
=============================================================================
