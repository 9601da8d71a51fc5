---------------------------- MODULE AttributeText ----------------------------
(***************************************************************************)
(* The small languages inside the attributes of a DOT file: conditions,    *)
(* style sheets, numbers and durations, retry policies and the parameters  *)
(* of a pipeline. A text is a sequence of characters.                      *)
(***************************************************************************)
EXTENDS Integers, Sequences, SequencesExt, FiniteSetsExt, TLC

Blank == " "
Quote == "\""
Backslash == "\\"
Letters == {"a", "b"}
Symbols == {"_", ".", "-"}

At(s, i) == IF i <= Len(s) THEN s[i] ELSE "end"
(* The first position from i on at which the text is not in C, or is in C. *)
Past(s, i, C) ==
  CHOOSE j \in i..Len(s) + 1 :
    (j = Len(s) + 1 \/ s[j] \notin C) /\ \A k \in i..j - 1 : s[k] \in C
Before(s, i, C) ==
  CHOOSE j \in i..Len(s) + 1 :
    (j = Len(s) + 1 \/ s[j] \in C) /\ \A k \in i..j - 1 : s[k] \notin C
SkipWs(s, i) == Past(s, i, {Blank})
RECURSIVE TrimmedRight(_)
TrimmedRight(s) == IF s # <<>> /\ Last(s) = Blank THEN TrimmedRight(Front(s)) ELSE s
Trim(s) == TrimmedRight(SubSeq(s, SkipWs(s, 1), Len(s)))

Failed == [ok |-> FALSE, items |-> <<>>]

-----------------------------------------------------------------------------
(* Conditions. What a backslash precedes is taken as it is; a string that  *)
(* is not closed ends with the text.                                       *)
RECURSIVE QuotedFrom(_, _, _)
QuotedFrom(s, i, value) ==
  CASE i > Len(s) -> [value |-> value, next |-> i]
    [] s[i] = Quote -> [value |-> value, next |-> i + 1]
    [] s[i] = Backslash /\ i < Len(s) -> QuotedFrom(s, i + 2, Append(value, s[i + 1]))
    [] OTHER -> QuotedFrom(s, i + 1, Append(value, s[i]))

ConditionValue(s, from) ==
  LET i == SkipWs(s, from)
      j == Past(s, i, Letters \union Symbols)
  IN IF At(s, i) = Quote THEN QuotedFrom(s, i + 1, <<>>)
     ELSE [value |-> SubSeq(s, i, j - 1), next |-> j]

ConditionOperator(s, from) ==
  LET i == SkipWs(s, from)
  IN CASE At(s, i) = "!" /\ At(s, i + 1) = "=" -> [op |-> "!=", next |-> i + 2]
       [] At(s, i) = "=" -> [op |-> "=", next |-> i + 1]
       [] OTHER -> [op |-> "none", next |-> i]

RECURSIVE ClausesFrom(_, _, _)
ClausesFrom(s, from, clauses) ==
  LET i == SkipWs(s, from)
      j == Past(s, i, Letters \union {"_", "."})
      op == ConditionOperator(s, j)
      value == ConditionValue(s, op.next)
      next == SkipWs(s, value.next)
      read == Append(clauses, <<SubSeq(s, i, j - 1), op.op, value.value>>)
  IN CASE i > Len(s) -> [ok |-> TRUE, items |-> clauses]
       [] i = j \/ op.op = "none" \/ value.value = <<>> -> Failed
       [] next > Len(s) -> [ok |-> TRUE, items |-> read]
       [] At(s, next) = "&" /\ At(s, next + 1) = "&" -> ClausesFrom(s, next + 2, read)
       [] OTHER -> Failed
ParseCondition(s) == ClausesFrom(s, 1, <<>>)

(* The conditions there are, without blanks and strings: clauses joined by *)
(* "&&", one of which may end the text.                                    *)
Words(C, n) == UNION {[1..k -> C] : k \in 1..n}
Clauses(n) ==
  {v \o o \o w : v \in Words({"a"}, n), o \in {<<"=">>, <<"!", "=">>}, w \in Words({"a", "-"}, n)}
RECURSIVE Conditions(_)
Conditions(n) ==
  IF n <= 0 THEN {<<>>}
  ELSE {<<>>} \union Clauses(n - 2)
         \union {c \o <<"&", "&">> \o d : c \in {c \in Clauses(n - 4) : Len(c) <= n - 2},
                                          d \in Conditions(n - 5)}
ConditionsAreRead(s, conditions) == ParseCondition(s).ok <=> s \in conditions

(* A value in quotes is read as what stands between them, and a condition  *)
(* that is read means the same with more blanks around its parts.          *)
RECURSIVE Escaped(_)
Escaped(s) ==
  IF s = <<>> THEN <<>>
  ELSE (IF Head(s) \in {Quote, Backslash} THEN <<Backslash, Head(s)>> ELSE <<Head(s)>>) \o Escaped(Tail(s))
QuotedValuesAreRead(s) ==
  s # <<>> => ParseCondition(<<"a", "=", Quote>> \o Escaped(s) \o <<Quote>>)
                = [ok |-> TRUE, items |-> << <<<<"a">>, "=", s>> >>]

-----------------------------------------------------------------------------
(* Style sheets. A value may be quoted by \" too, as within a DOT string;  *)
(* in a string a backslash keeps the character behind it, but a quote.     *)

(* Mutant: a string in \" ends at a plain quote.                           *)
ClosesAny(s, i, escaped) == s[i] = Quote \/ (s[i] = Backslash /\ At(s, i + 1) = Quote)

Closes(s, i, escaped) ==
  IF escaped THEN s[i] = Backslash /\ At(s, i + 1) = Quote ELSE s[i] = Quote

RECURSIVE StyleStringFrom(_, _, _, _)
StyleStringFrom(s, i, escaped, value) ==
  LET skips == s[i] = Backslash /\ i < Len(s) /\ s[i + 1] # Quote
  IN CASE i > Len(s) -> [value |-> value, next |-> i]
       [] Closes(s, i, escaped) -> [value |-> value, next |-> IF escaped THEN i + 2 ELSE i + 1]
       [] OTHER -> LET j == IF skips THEN i + 1 ELSE i
                   IN StyleStringFrom(s, j + 1, escaped, Append(value, s[j]))

StyleValue(s, from) ==
  LET i == SkipWs(s, from)
      j == Before(s, i, {";", "}"})
  IN CASE At(s, i) = Backslash /\ At(s, i + 1) = Quote -> StyleStringFrom(s, i + 2, TRUE, <<>>)
       [] At(s, i) = Quote -> StyleStringFrom(s, i + 1, FALSE, <<>>)
       [] OTHER -> [value |-> TrimmedRight(SubSeq(s, i, j - 1)), next |-> j]

StyleName(s, i) == Past(s, i, Letters \union {"_", "-"})

(* The properties of a rule, from behind its brace; next is 0 on an error. *)
RECURSIVE PropertiesFrom(_, _, _)
PropertiesFrom(s, from, props) ==
  LET i == SkipWs(s, from)
      j == StyleName(s, i)
      sep == SkipWs(s, j)
      value == StyleValue(s, sep + 1)
      k == SkipWs(s, value.next)
  IN CASE i > Len(s) -> [next |-> 0, props |-> props]
       [] s[i] = "}" -> [next |-> i + 1, props |-> props]
       [] i = j \/ At(s, sep) \notin {":", "="} -> [next |-> 0, props |-> props]
       [] OTHER -> PropertiesFrom(s, IF At(s, k) = ";" THEN k + 1 ELSE k,
                                  (SubSeq(s, i, j - 1) :> value.value) @@ props)

RECURSIVE RulesFrom(_, _, _)
RulesFrom(s, from, rules) ==
  LET i == SkipWs(s, from)
      j == IF At(s, i) = "*" THEN i + 1 ELSE StyleName(s, i + 1)
      brace == SkipWs(s, j)
      body == PropertiesFrom(s, brace + 1, <<>>)
  IN CASE i > Len(s) -> [ok |-> TRUE, items |-> rules]
       [] \/ At(s, i) \notin {"*", ".", "#"} \/ At(s, brace) # "{"
          \/ (At(s, i) # "*" /\ j = i + 1) -> Failed
       [] body.next = 0 -> Failed
       [] OTHER -> RulesFrom(s, body.next,
                             Append(rules, [selector |-> SubSeq(s, i, j - 1), props |-> body.props]))
ParseStylesheet(s) == RulesFrom(s, 1, <<>>)

(* A string says the same in plain quotes and in those a DOT string needs. *)
SheetWith(opening, s, closing) ==
  ParseStylesheet(<<"*", "{", "a", ":">> \o opening \o s \o closing \o <<";", "}">>)
QuotesAgree(s) ==
  (ToSet(s) \intersect {Quote, Backslash} = {}) =>
    /\ SheetWith(<<Quote>>, s, <<Quote>>)
         = [ok |-> TRUE, items |-> <<[selector |-> <<"*">>, props |-> <<"a">> :> s]>>]
    /\ SheetWith(<<Backslash, Quote>>, s, <<Backslash, Quote>>) = SheetWith(<<Quote>>, s, <<Quote>>)

-----------------------------------------------------------------------------
(* Numbers and durations: a text is [value, suffix], the value any integer *)
(* and the suffix what std::stoi leaves. Products are computed in int, and *)
(* one that does not fit is anything.                                      *)
IntMax == 2147483647
Missing == "missing"
Anything == "anything"
Times(value, factor) ==
  IF value \in -(IntMax \div factor)..IntMax \div factor THEN value * factor ELSE Anything
GetInt(t) == IF t.suffix = "" THEN t.value ELSE Missing
GetDurationMs(t) ==
  CASE t.suffix \in {"", "ms"} -> t.value
    [] t.suffix = "s" -> Times(t.value, 1000)
    [] t.suffix = "m" -> Times(t.value, 60000)
    [] OTHER -> Missing

-----------------------------------------------------------------------------
(* Retry policies: a preset, or the standard one with some values changed. *)
Policy(retries, base, multiplier, cap, jitter) ==
  [retries |-> retries, base |-> base, multiplier |-> multiplier, cap |-> cap, jitter |-> jitter]
(* Multipliers are in halves.                                              *)
Presets == [standard |-> Policy(5, 200, 4, 30000, TRUE), aggressive |-> Policy(10, 100, 3, 30000, TRUE),
            linear |-> Policy(5, 1000, 2, 30000, FALSE), patient |-> Policy(3, 5000, 6, 60000, TRUE)]
FromPreset(name) == IF name \in DOMAIN Presets THEN Presets[name] ELSE Presets["standard"]
FromAttributes(attrs) ==
  LET read == [k \in DOMAIN attrs \ {"retry_preset"} |->
                IF k = "retries" THEN GetInt(attrs[k]) ELSE GetDurationMs(attrs[k])]
      valid == {k \in DOMAIN read : read[k] # Missing}
  IN IF "retry_preset" \in DOMAIN attrs THEN FromPreset(attrs["retry_preset"])
     ELSE [k \in valid |-> read[k]] @@ Presets["standard"]

Grown(p, attempt) == (p.base * p.multiplier ^ attempt) \div (2 ^ attempt)

(* Mutant: the cap is left to the caller.                                  *)
DelaysUncapped(p, attempt) == [least |-> Grown(p, attempt), most |-> Grown(p, attempt)]

(* delay_for_attempt: the least and the most it can be. The jitter comes   *)
(* on top of the cap.                                                      *)
Delays(p, attempt) ==
  LET delay == Min({Grown(p, attempt), p.cap})
  IN [least |-> delay, most |-> IF p.jitter THEN delay + Max({1, delay \div 4}) ELSE delay]

(* Waiting never shrinks from one attempt to the next, but for the jitter, *)
(* and never exceeds the cap by more than a quarter of it.                 *)
DelaysGrow(p, attempt) ==
  /\ Delays(p, attempt).least <= Delays(p, attempt + 1).least
  /\ Delays(p, attempt).most <= p.cap + p.cap \div 4
=============================================================================
