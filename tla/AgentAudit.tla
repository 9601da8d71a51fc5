------------------------------ MODULE AgentAudit ------------------------------
(***************************************************************************)
(* What Needle lets a troubleshooting agent do and makes of what it did:   *)
(* the list of tools it is started with, the events of its stream, and the *)
(* audit of the files it wrote. A path is a sequence of names, "/" first   *)
(* if it is absolute; there are no symbolic links.                         *)
(***************************************************************************)
EXTENDS Naturals, Sequences, SequencesExt, FiniteSets

(* build_allowed_tools, the tools that change something.                   *)
Editing == {"edit dots", "edit prompts", "stage mark", "stage advance", "stage retry", "resume",
            "config set"}
Repairing == {"edit all", "git add", "git checkout", "git stash", "install", "build"}
AllowedTools(mode) ==
  CASE mode = "off" -> {}
    [] mode = "advisory" -> {"write", "escalate"}
    [] mode = "tweak" -> {"write", "escalate"} \union Editing
    [] OTHER -> {"write", "escalate"} \union Editing \union Repairing

-----------------------------------------------------------------------------
(* lexical_normalize: "." goes, and ".." takes the name before it along.   *)
RECURSIVE NormalizedFrom(_, _, _)
NormalizedFrom(names, absolute, parts) ==
  IF names = <<>> THEN parts
  ELSE LET n == Head(names)
       IN NormalizedFrom(Tail(names), absolute,
            CASE n = "." -> parts
              [] n = ".." /\ parts # <<>> -> Front(parts)
              [] n = ".." /\ absolute -> parts
              [] OTHER -> Append(parts, n))
Absolute(path) == path # <<>> /\ Head(path) = "/"
LexicalNormalize(path) ==
  IF Absolute(path) THEN <<"/">> \o NormalizedFrom(Tail(path), TRUE, <<>>)
  ELSE NormalizedFrom(path, FALSE, <<>>)

(* same_or_child, of normal forms                                          *)
SameOrChild(path, root) == root # <<>> /\ IsPrefix(root, path)

ContainsTilde(path) == "~" \in ToSet(path)

(* Mutant: the path is compared as it was given.                           *)
FileWriteAllowedAsGiven(path, project, session) ==
  ~ContainsTilde(path) /\ (SameOrChild(path, project) \/ SameOrChild(path, session))

FileWriteAllowed(path, project, session) ==
  /\ ~ContainsTilde(path)
  /\ \/ SameOrChild(LexicalNormalize(path), LexicalNormalize(project))
     \/ SameOrChild(LexicalNormalize(path), LexicalNormalize(session))

(* audit_events_ndjson: the calls of writing tools, in assistant messages; *)
(* a relative path is taken from the project.                              *)
Audited(event) == event.type = "assistant" /\ event.block = "tool_use" /\ event.tool \in {"Edit", "Write"}
AbsolutePath(path, project) == IF Absolute(path) THEN path ELSE project \o path
Violations(events, project, session) ==
  SelectSeq(events, LAMBDA e :
    Audited(e) /\ ~FileWriteAllowed(AbsolutePath(e.path, project), project, session))

-----------------------------------------------------------------------------
(* parse_line: the events that a line of the agent's output becomes, and   *)
(* whether the session has been announced.                                 *)
ParseLine(event, announced) ==
  CASE event.type = "garbage" -> <<>>
    [] event.type = "init" -> IF announced THEN <<>> ELSE <<"session_started">>
    [] event.type = "assistant" -> IF event.block = "tool_use" THEN <<"tool_call">> ELSE <<>>
    [] event.type = "user" -> IF event.block = "tool_result" THEN <<"tool_result">> ELSE <<>>
    [] event.type = "result" -> <<"session_completed", "cost_update">>
    [] OTHER -> <<"raw">>
Announced(events) == \E i \in DOMAIN events : events[i].type = "init"
RECURSIVE Published(_)
Published(events) ==
  IF events = <<>> THEN <<>>
  ELSE Published(Front(events)) \o ParseLine(Last(events), Announced(Front(events)))

-----------------------------------------------------------------------------
(* Where a path leads, from the root: the directory below it, or nothing   *)
(* above the root.                                                         *)
RECURSIVE Walked(_, _)
Walked(names, at) ==
  IF names = <<>> THEN at
  ELSE Walked(Tail(names), CASE Head(names) = "." -> at
                             [] Head(names) = ".." -> IF at = <<>> THEN <<>> ELSE Front(at)
                             [] OTHER -> Append(at, Head(names)))
Lands(path) == Walked(Tail(path), <<>>)

(* The audit finds a write of the agent exactly if it lands outside of its *)
(* two directories, however its path is written.                           *)
AuditFindsStrays(events, project, session) ==
  \A i \in DOMAIN events :
    LET path == AbsolutePath(events[i].path, project)
    IN Audited(events[i]) /\ ~ContainsTilde(path) =>
         (events[i] \in ToSet(Violations(events, project, session))
           <=> ~IsPrefix(Lands(project), Lands(path)) /\ ~IsPrefix(Lands(session), Lands(path)))

(* The stream announces a session once, and no plain talk of the agent     *)
(* gets into it.                                                           *)
StreamIsTidy(events) ==
  /\ Cardinality({i \in DOMAIN Published(events) : Published(events)[i] = "session_started"}) <= 1
  /\ Len(SelectSeq(Published(events), LAMBDA p : p = "tool_call"))
       = Len(SelectSeq(events, LAMBDA e : e.type = "assistant" /\ e.block = "tool_use"))
=============================================================================
