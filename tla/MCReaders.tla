------------------------------ MODULE MCReaders ------------------------------
(***************************************************************************)
(* The readers of texts on all small texts: a behaviour writes the text of *)
(* one subject symbol by symbol, and the properties read each of them.     *)
(***************************************************************************)
EXTENDS Naturals, Sequences, TLC

Dot == INSTANCE DotText
Builder == INSTANCE GraphBuilder
Validator == INSTANCE GraphValidator
Vars == INSTANCE Expansion
Attrs == INSTANCE AttributeText
Audit == INSTANCE AgentAudit
Agent == INSTANCE AgentCommand
Stage == INSTANCE Diagnosis
Config == INSTANCE Settings

VARIABLES subject, text
vars == <<subject, text>>

Node(id, attrs, level) == [kind |-> "node", chain |-> <<id>>, attrs |-> attrs, level |-> level]
Edge(a, b, level) == [kind |-> "edge", chain |-> <<a, b>>, attrs |-> <<>>, level |-> level]
Default(attrs, level) == [kind |-> "node default", chain |-> <<>>, attrs |-> attrs, level |-> level]
A == <<"a">>
B == <<"b">>
C == <<"c">>
Statements == {
  Node(A, "t" :> "1", 0), Node(<<"a", "!">>, "t" :> "2", 0), Node(A, "class" :> "k", 1),
  Node(B, "t" :> "1", 2), Edge(A, B, 0), Edge(B, A, 1),
  Default("t" :> "8", 0), Default("t" :> "9", 1), Default("u" :> "9", 0)}
Shapes == {
  Node(A, "shape" :> "mdiamond", 0), Node(B, "shape" :> "msquare", 0),
  Node(C, "shape" :> "component", 0), Node(C, "shape" :> "trapezium", 0),
  Edge(A, B, 0), Edge(A, C, 0), Edge(C, B, 0), Edge(C, C, 0)}
Rules == <<[kind |-> "id", value |-> A, attrs |-> "t" :> "7"],
           [kind |-> "class", value |-> "k", attrs |-> ("t" :> "6") @@ ("v" :> "6")],
           [kind |-> "all", value |-> "*", attrs |-> ("u" :> "5") @@ ("v" :> "5")]>>

Context == [
  needle |-> "logs_dir" :> <<"v">>,
  names |-> ("var.x" :> <<"v">>) @@ ("context.k" :> <<"v">>) @@ ("state" :> <<"v">>),
  branchCwd |-> <<>>, nodeGoal |-> <<>>, graphGoal |-> <<"$", "var.x", " ", "$", "state">>]
(* What the context holds when a later stage is run.                       *)
Live == ("context.k" :> <<"v">>) @@ ("context.l" :> <<"v">>)

Project == <<"/", "a">>
Session == <<"/", "b", "a">>
Event(type, block, tool, path) == [type |-> type, block |-> block, tool |-> tool, path |-> path]
Events ==
  {Event("assistant", "tool_use", "Write", p) :
     p \in {<<"b">>, <<"..", "b">>, <<"/", "a", ".", "b", "..">>, <<"/", "b", "a", "c">>, <<"..", "~">>,
            <<"/", "b", "..", "a">>, <<"..", "..", "a">>}}
    \union {Event("assistant", "text", "", <<>>), Event("init", "", "", <<>>),
            Event("user", "tool_result", "", <<>>), Event("result", "", "", <<>>)}

(* The facts of a failed stage come after the words of its prompt.         *)
Prompt == Stage!Marks \union Stage!Roles \union Stage!Tasks \union Stage!References
PromptOf(t) == SelectSeq(t, LAMBDA c : c \in Prompt)
FactsOf(t) == {t[i] : i \in DOMAIN t} \ Prompt

(* Operations on the settings; a merge may replace whole sections.         *)
Doc(pairs) == pairs @@ (<<>> :> Config!Object)
Operation(who, do, path, doc) == [who |-> who, do |-> do, path |-> path, doc |-> doc]
Operations ==
  {Operation(who, do, path, <<>>) : who \in {"cli", "server"}, do \in {"set", "unset"},
     path \in {<<"defaults", "warn">>, <<"ui">>, <<"ui", "theme", "x">>}}
  \union {Operation("server", "merge", <<>>, doc) : doc \in
     {Doc((<<"ui">> :> Config!Object) @@ (<<"ui", "theme">> :> Config!Text("light"))),
      Doc((<<"ui">> :> Config!Text("light")) @@ (<<"defaults">> :> Config!Text("none")))}}
  \union {Operation(who, "", <<>>, <<>>) : who \in {"start", "editor"}}

Alphabet == [
  dot        |-> {"a", "n", "\"", "\\", "\n", "<"},
  grammar    |-> {"id", "quoted", "html", "->", "=", "[", "]", "{", "}", ";", "subgraph", "node"},
  statements |-> Statements, shapes |-> Shapes,
  variables  |-> {"$", "{", "}", " ", ".", "var.x", "var.y", "goal", "state", "context.k",
                  "context.config.m", "logs_dir"},
  conditions |-> {"a", "-", "=", "!", "&"},
  strings    |-> {"a", " ", "\"", "\\", "}"},
  stream     |-> Events,
  retries    |-> {"standard", "aggressive", "patient"},
  limits     |-> {"rate limit", "try again in ", "try again at ", "zero", "five", "day",
                  "yesterday", "tomorrow", "someday", "morning", "evening"},
  tools      |-> {"Edit", "Write", "x", ",", ":", " "},
  pages      |-> {"<", ">", "script", "/script", "a"},
  sizes      |-> 1..4,
  diagnosis  |-> Prompt \union Stage!Facts,
  settings   |-> Operations]
MaxLength == [dot |-> 5, grammar |-> 4, statements |-> 4, shapes |-> 5, variables |-> 4,
              conditions |-> 6, strings |-> 5, stream |-> 3, retries |-> 4,
              limits |-> 3, tools |-> 4, pages |-> 5, sizes |-> 4, diagnosis |-> 5,
              settings |-> 3]
Words == Dot!GrammarStmts(MaxLength["grammar"])
Conditions == Attrs!Conditions(MaxLength["conditions"])
Prompts == Agent!PromptsKeepTheirRole

Init == subject \in DOMAIN Alphabet /\ text = <<>>
Next ==
  /\ Len(text) < MaxLength[subject]
  /\ \E c \in Alphabet[subject] :
       /\ subject = "shapes" => c \notin {text[i] : i \in DOMAIN text}
       /\ subject = "diagnosis" => IF c \in Prompt THEN FactsOf(text) = {}
                                   ELSE Len(text) < 4 /\ c \notin FactsOf(text)
       /\ text' = Append(text, c)
  /\ UNCHANGED subject
Spec == Init /\ [][Next]_vars

-----------------------------------------------------------------------------
Graph(stmts) == Builder!Build(stmts)

(* The DOT parser takes a body if and only if some beginning of it, up to  *)
(* the end or to a closing brace, is a list of statements.                 *)
DotIsRead ==
  Dot!ParseGraph(<<"digraph", "{">> \o text \o <<"}">>) # 0
    <=> \E n \in 0..Len(text) : /\ SubSeq(text, 1, n) \in Words
                                /\ n = Len(text) \/ text[n + 1] = "}"
(* A value the serializer has quoted is one token to the lexer, with that  *)
(* value, and HTML is escaped to the last character.                       *)
DotIsReadBack ==
  /\ Dot!Tokens(Dot!NodeToDot(text, text)) =
       <<[type |-> "quoted", value |-> text], [type |-> "[", value |-> <<"[">>],
         [type |-> "id", value |-> <<"a">>], [type |-> "=", value |-> <<"=">>],
         [type |-> "quoted", value |-> text], [type |-> "]", value |-> <<"]">>],
         [type |-> ";", value |-> <<";">>]>>
  /\ Dot!Tokens(Dot!EdgeToDot(text, text, <<>>)) =
       <<[type |-> "quoted", value |-> text], [type |-> "->", value |-> <<"-", ">">>],
         [type |-> "quoted", value |-> text], [type |-> ";", value |-> <<";">>]>>
  /\ \A i \in DOMAIN text : Dot!HtmlEscape(text)[i] \notin {"<", ">", "&", "'", "\""}

(* DOT bodies and conditions that are accepted are those of their          *)
(* grammars, and a graph passes `validate` if and only if its walks reach  *)
(* what they must.                                                         *)
GrammarsAreMet ==
  CASE subject = "grammar" -> DotIsRead
    [] subject = "conditions" -> Attrs!ConditionsAreRead(text, Conditions)
    [] subject = "shapes" -> /\ Validator!AcceptedGraphsAreWalkable(Graph(text))
                             /\ Validator!RefusedForAReason(Graph(text))
    [] OTHER -> TRUE

(* What is quoted, escaped or left alone comes back as it was written, and *)
(* no reference that nothing will ever set is left in a run that starts.   *)
TextsComeBack ==
  CASE subject = "dot" -> DotIsReadBack
    [] subject = "strings" -> Attrs!QuotedValuesAreRead(text) /\ Attrs!QuotesAgree(text)
    [] subject = "variables" ->
         \A expanded \in {Vars!Expand(text, Context)} :
           /\ Vars!NothingEarlyIsLeft(expanded)
           /\ Vars!ForeignTextStays(text, expanded)
           /\ Vars!EscapesHold(text, Context)
           /\ \A t \in {Vars!ExpandContextRefs(expanded.text, Live)} : Vars!LateReferencesAreSet(t, Live)
    [] subject = "pages" -> Agent!PagesAreRead(text)
    [] OTHER -> TRUE

(* What is accepted is what there is a reason to accept, and what is       *)
(* written by an author or by the serializer is read back as it was meant: *)
(* DOT bodies, conditions and graphs are accepted exactly when a grammar   *)
(* or a walk through the graph says so, and no parser loses, splits or     *)
(* expands a text that was quoted or escaped against it.                   *)
TextsAreUnderstood == GrammarsAreMet /\ TextsComeBack

(* What a node says of itself holds against defaults and style sheets, a   *)
(* default reaches every node of its graph, delays between retries grow up *)
(* to their cap, and the audit of an agent finds exactly the writes that   *)
(* land outside of its directories.                                        *)
AuthorsAreObeyed ==
  CASE subject = "statements" -> /\ Builder!ExplicitWins(text, Rules)
                                 /\ Builder!EdgesAreClosed(text)
                                 /\ Builder!DefaultsReachAll(text)
    [] subject = "stream" -> /\ Audit!AuditFindsStrays(text, Project, Session)
                             /\ Audit!StreamIsTidy(text)
    [] subject = "limits" -> Agent!LimitsAreWaitedFor(text)
    [] subject = "tools" -> Agent!UnlistedToolsAreForbidden(text) /\ Prompts
    [] subject = "sizes" -> Agent!RepositoriesFit(text)
    [] subject = "retries" -> text # <<>> => Attrs!DelaysGrow(Attrs!FromPreset(text[1]), Len(text) - 1)
    [] OTHER -> TRUE

(* What is read back serves the operator: a diagnosis names a reason that  *)
(* is really there, quoted and fenced words of a prompt aside, and         *)
(* proposes to skip a stage only if it left work; and settings land in the *)
(* file, alone, whoever saves them, and are read as they are there, but a  *)
(* file that does not parse is given up.                                   *)
OperatorsAreServed ==
  CASE subject = "diagnosis" -> Stage!DiagnosesAreFounded(FactsOf(text), PromptOf(text))
    [] subject = "settings" -> Config!SettingsLand(text)
    [] OTHER -> TRUE
=============================================================================
