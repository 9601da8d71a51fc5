------------------------------ MODULE Expansion ------------------------------
(***************************************************************************)
(* VariableExpansionTransform: placeholders {{key}} first, then references *)
(* $name and ${name}. A text is a sequence of symbols: a punctuation mark, *)
(* a blank, or a word of characters that identifiers are made of; the dot  *)
(* is a symbol of its own, an identifier a run of words and dots.          *)
(*                                                                         *)
(* The context is a record: what the run has under "needle.", under        *)
(* "var.", under other names, and the working directory of a branch, each  *)
(* a function from words to texts.                                         *)
(***************************************************************************)
EXTENDS Naturals, Sequences, SequencesExt

VarWords == {"var.x", "var.y", "var.repo_dir"}
ContextWords == {"context.k", "context.l"}
ConfigWords == {"context.config.m"}
HumanWords == {"human.h"}
Words == VarWords \union ContextWords \union ConfigWords \union HumanWords
           \union {"goal", "state", "v", "logs_dir"}
Blank == " "

At(s, i) == IF i <= Len(s) THEN s[i] ELSE "end"
Where(s, i, P(_)) == {j \in i..Len(s) : P(j)}
First(S) == CHOOSE j \in S : \A k \in S : j <= k

-----------------------------------------------------------------------------
(* expand_placeholders                                                     *)
Trimmed(s) ==
  LET ink == {i \in DOMAIN s : s[i] # Blank}
  IN IF ink = {} THEN <<>>
     ELSE SubSeq(s, First(ink), CHOOSE j \in ink : \A k \in ink : k <= j)

PlaceholderValue(key, whole, ctx) ==
  IF Len(key) = 1 /\ key[1] \in DOMAIN ctx.needle THEN ctx.needle[key[1]] ELSE whole

RECURSIVE PlaceholdersFrom(_, _, _)
PlaceholdersFrom(s, i, ctx) ==
  LET closes == Where(s, i + 2, LAMBDA j : s[j] = "}" /\ At(s, j + 1) = "}")
      close == First(closes)
  IN CASE i > Len(s) -> <<>>
       [] At(s, i) = "\\" /\ At(s, i + 1) = "{" /\ At(s, i + 2) = "{" ->
            <<"{", "{">> \o PlaceholdersFrom(s, i + 3, ctx)
       [] At(s, i) = "{" /\ At(s, i + 1) = "{" /\ closes # {} ->
            PlaceholderValue(Trimmed(SubSeq(s, i + 2, close - 1)), SubSeq(s, i, close + 1), ctx)
              \o PlaceholdersFrom(s, close + 2, ctx)
       [] OTHER -> <<s[i]>> \o PlaceholdersFrom(s, i + 1, ctx)
ExpandPlaceholders(s, ctx) == PlaceholdersFrom(s, 1, ctx)

-----------------------------------------------------------------------------
(* extract_identifier: the dots at its end are punctuation.                *)
IdentifierAt(s, i) ==
  LET stops == Where(s, i, LAMBDA j : s[j] \notin Words \union {"."})
      run == SubSeq(s, i, IF stops = {} THEN Len(s) ELSE First(stops) - 1)
      words == {j \in DOMAIN run : run[j] # "."}
  IN IF words = {} THEN run ELSE SubSeq(run, 1, CHOOSE j \in words : \A k \in words : k <= j)

(* is_template_ref. A word with more behind it is another name with the    *)
(* same prefix.                                                            *)
IsTemplateRef(name) ==
  \/ name = <<"goal">>
  \/ Len(name) > 0 /\ name[1] \in VarWords \union ContextWords \union ConfigWords \union HumanWords

(* Mutant: what config.json did not set is taken for a later stage's.      *)
IsLateBoundConfig(name) == name[1] \in HumanWords \union ContextWords \union ConfigWords

(* is_late_bound: what the stages to come will set.                        *)
IsLateBound(name) == name[1] \in HumanWords \union ContextWords

Lookup(f, name) == IF Len(name) = 1 /\ name[1] \in DOMAIN f THEN f[name[1]] ELSE <<>>

(* resolve_variable but for the goal: empty if it is not set.              *)
ResolvePlain(name, ctx) ==
  IF name = <<"var.repo_dir">> /\ ctx.branchCwd # <<>> THEN ctx.branchCwd
  ELSE Lookup(ctx.names, name)

(* The goal is a text with references of its own, of any name but "goal".  *)
RECURSIVE GoalFrom(_, _, _)
GoalFrom(s, i, ctx) ==
  LET name == IdentifierAt(s, i + 1)
      value == IF name = <<"goal">> THEN <<>> ELSE ResolvePlain(name, ctx)
  IN CASE i > Len(s) -> <<>>
       [] s[i] = "$" /\ At(s, i + 1) \in Words /\ value # <<>> ->
            value \o GoalFrom(s, i + 1 + Len(name), ctx)
       [] OTHER -> <<s[i]>> \o GoalFrom(s, i + 1, ctx)
Goal(ctx) == GoalFrom(IF ctx.nodeGoal # <<>> THEN ctx.nodeGoal ELSE ctx.graphGoal, 1, ctx)

ResolveVariable(name, ctx) == IF name = <<"goal">> THEN Goal(ctx) ELSE ResolvePlain(name, ctx)

(* A reference becomes its value or stays; one that stays is reported,     *)
(* unless it is late-bound.                                                *)
Reference(name, whole, ctx) ==
  LET value == IF IsTemplateRef(name) THEN ResolveVariable(name, ctx) ELSE <<>>
  IN [text |-> IF value # <<>> THEN value ELSE whole,
      unresolved |-> IF IsTemplateRef(name) /\ value = <<>> /\ ~IsLateBound(name)
                     THEN {name} ELSE {}]

(* expand_variables                                                        *)
RECURSIVE VariablesFrom(_, _, _)
VariablesFrom(s, i, ctx) ==
  LET closes == Where(s, i + 2, LAMBDA j : s[j] = "}")
      braced == At(s, i + 1) = "{" /\ closes # {}
      name == IF braced THEN SubSeq(s, i + 2, First(closes) - 1) ELSE IdentifierAt(s, i + 1)
      next == IF braced THEN First(closes) + 1 ELSE i + 1 + Len(name)
      refers == At(s, i) = "$" /\ (braced \/ At(s, i + 1) \in Words)
      ref == IF refers THEN Reference(name, SubSeq(s, i, next - 1), ctx)
             ELSE [text |-> <<s[i]>>, unresolved |-> {}]
      rest == VariablesFrom(s, IF refers THEN next ELSE i + 1, ctx)
  IN IF i > Len(s) THEN [text |-> <<>>, unresolved |-> {}]
     ELSE [text |-> ref.text \o rest.text, unresolved |-> ref.unresolved \union rest.unresolved]
ExpandVariables(s, ctx) == VariablesFrom(s, 1, ctx)

(* apply(): both passes over an attribute. init_subgraphs and run() end a  *)
(* run whose attributes leave anything unresolved.                         *)
Expand(s, ctx) == ExpandVariables(ExpandPlaceholders(s, ctx), ctx)

-----------------------------------------------------------------------------
(* expand_context_refs, when a stage is run: references to the context, in *)
(* either form, to what it holds by then. Unlike above, a full stop behind *)
(* a name is taken for a part of it.                                       *)
NameEnd(s, i) ==
  CHOOSE j \in i..Len(s) + 1 :
    /\ j = Len(s) + 1 \/ s[j] \notin Words \union {"."}
    /\ \A k \in i..j - 1 : s[k] \in Words \union {"."}
RECURSIVE ContextRefsFrom(_, _, _)
ContextRefsFrom(s, i, live) ==
  LET plain == SubSeq(s, i + 1, NameEnd(s, i + 1) - 1)
      closes == Where(s, i + 2, LAMBDA j : s[j] = "}")
      braced == IF At(s, i + 1) = "{" /\ closes # {} THEN SubSeq(s, i + 2, First(closes) - 1) ELSE <<>>
      Known(name) == Len(name) = 1 /\ name[1] \in DOMAIN live
  IN CASE i > Len(s) -> <<>>
       [] s[i] = "$" /\ Known(plain) -> live[plain[1]] \o ContextRefsFrom(s, i + 2, live)
       [] s[i] = "$" /\ Known(braced) -> live[braced[1]] \o ContextRefsFrom(s, i + 4, live)
       [] OTHER -> <<s[i]>> \o ContextRefsFrom(s, i + 1, live)
ExpandContextRefs(s, live) == ContextRefsFrom(s, 1, live)

-----------------------------------------------------------------------------
(* A run that starts has no reference in its attributes that nothing will  *)
(* ever set: what is left of them and not reported is late-bound.          *)
References(s) ==
  {IdentifierAt(s, i + 1) : i \in {i \in DOMAIN s : s[i] = "$" /\ At(s, i + 1) \in Words}}
NothingEarlyIsLeft(expanded) ==
  expanded.unresolved = {} =>
    \A name \in References(expanded.text) : IsTemplateRef(name) => IsLateBound(name)

(* A reference that the start of a run has left for later is set when its  *)
(* stage is run, if the context holds it by then and no more of a name or  *)
(* full stop follows.                                                      *)
LateReferencesAreSet(t, live) ==
  \A i \in DOMAIN t :
    ~(/\ t[i] = "$" /\ At(t, i + 1) \in DOMAIN live
      /\ At(t, i + 2) \notin Words \union {"."})

(* A dollar that is not Needle's stays what it is, and so does all else.   *)
ForeignTextStays(s, expanded) ==
  (\A i \in DOMAIN s : s[i] \notin {"$", "{"}) => expanded.text = s

(* An escaped placeholder comes out as a placeholder, and as nothing else. *)
EscapesHold(s, ctx) ==
  (\A i \in DOMAIN s : s[i] \notin {"$", "{", "}", "\\"}) =>
    Expand(<<"\\", "{", "{">> \o s \o <<"}", "}">>, ctx).text
      = <<"{", "{">> \o s \o <<"}", "}">>
=============================================================================
