------------------------------- MODULE DotText -------------------------------
(***************************************************************************)
(* The lexer of DOT files, the parser above it and the serializer that     *)
(* writes graphs as DOT. A text is a sequence of characters, a character a *)
(* string of length one; a token is a record. Limits on lengths, and lines *)
(* and columns, are left out.                                              *)
(***************************************************************************)
EXTENDS Naturals, Sequences, SequencesExt

Backslash == "\\"
Newline == "\n"
DoubleQuote == "\""
Blanks == {" ", "\t", Newline}
Digits == {"0", "1", "2"}
Letters == {"a", "b", "n", "t", "_"}
Singles == {"{", "}", "[", "]", ";", ",", "="}

At(s, i) == IF i <= Len(s) THEN s[i] ELSE "end"

(* The first position from i on at which the text is not, or is, in C.     *)
Past(s, i, C) ==
  CHOOSE j \in i..Len(s) + 1 :
    /\ j = Len(s) + 1 \/ s[j] \notin C
    /\ \A k \in i..j - 1 : s[k] \in C
UpTo(s, i, c) ==
  CHOOSE j \in i..Len(s) + 1 :
    /\ j = Len(s) + 1 \/ s[j] = c
    /\ \A k \in i..j - 1 : s[k] # c

Token(type, value, next) == [type |-> type, value |-> value, next |-> next]
Error(next) == Token("error", <<>>, next)

(* Comments of C, of C++ and of the shell; one that is not closed ends the *)
(* text.                                                                   *)
CommentEnd(s, i) ==
  LET ends == {j \in i..Len(s) - 1 : s[j] = "*" /\ s[j + 1] = "/"}
  IN IF ends = {} THEN Len(s) + 1 ELSE (CHOOSE j \in ends : \A k \in ends : j <= k) + 2

RECURSIVE SkipWhitespaceAndComments(_, _)
SkipWhitespaceAndComments(s, i) ==
  CASE At(s, i) \in Blanks -> SkipWhitespaceAndComments(s, Past(s, i, Blanks))
    [] At(s, i) = "#" \/ (At(s, i) = "/" /\ At(s, i + 1) = "/") ->
         SkipWhitespaceAndComments(s, UpTo(s, i, Newline))
    [] At(s, i) = "/" /\ At(s, i + 1) = "*" ->
         SkipWhitespaceAndComments(s, CommentEnd(s, i + 2))
    [] OTHER -> i

(* Mutant: an escaped character is taken as it is.                         *)
UnescapedPlain(c) == <<c>>

(* What a backslash makes of the character behind it.                      *)
Unescaped(c) ==
  CASE c = "n" -> <<Newline>> [] c = "t" -> <<"\t">>
    [] c \in {DoubleQuote, "'", Backslash} -> <<c>>
    [] OTHER -> <<Backslash, c>>

RECURSIVE QuotedFrom(_, _, _, _)
QuotedFrom(s, i, quote, value) ==
  CASE i > Len(s) -> Error(i)
    [] s[i] = Backslash ->
         IF i = Len(s) THEN Error(i + 1)
         ELSE QuotedFrom(s, i + 2, quote, value \o Unescaped(s[i + 1]))
    [] s[i] = quote -> Token("quoted", value, i + 1)
    [] OTHER -> QuotedFrom(s, i + 1, quote, Append(value, s[i]))
ReadQuotedString(s, i) == QuotedFrom(s, i + 1, s[i], <<>>)

(* An HTML string ends where its angle brackets balance.                   *)
Depth(s, i, j) ==
  Len(SelectSeq(SubSeq(s, i, j), LAMBDA c : c = "<"))
    - Len(SelectSeq(SubSeq(s, i, j), LAMBDA c : c = ">"))
ReadHtmlString(s, i) ==
  LET closes == {j \in i + 1..Len(s) : Depth(s, i, j) = 0}
      j == CHOOSE j \in closes : \A k \in closes : j <= k
  IN IF closes = {} THEN Error(Len(s) + 1) ELSE Token("html", SubSeq(s, i + 1, j - 1), j + 1)

(* A number: a sign, digits, a dot and digits, each of which may lack.     *)
ReadNumber(s, i) ==
  LET whole == Past(s, IF s[i] = "-" THEN i + 1 ELSE i, Digits)
      j == IF At(s, whole) = "." THEN Past(s, whole + 1, Digits) ELSE whole
  IN Token("number", SubSeq(s, i, j - 1), j)

ReadIdentifier(s, i) ==
  LET j == Past(s, i, Letters \union Digits) IN Token("id", SubSeq(s, i, j - 1), j)

NextToken(s, from) ==
  LET i == SkipWhitespaceAndComments(s, from)
      c == At(s, i)
      d == At(s, i + 1)
  IN CASE c = "end" -> Token("eof", <<>>, i)
       [] c \in Singles -> Token(c, <<c>>, i + 1)
       [] c = "-" /\ d = ">" -> Token("->", <<c, d>>, i + 2)
       [] c \in {DoubleQuote, "'"} -> ReadQuotedString(s, i)
       [] c = "<" -> ReadHtmlString(s, i)
       [] c \in Digits \/ (c \in {"-", "."} /\ d \in Digits) -> ReadNumber(s, i)
       [] c \in Letters -> ReadIdentifier(s, i)
       [] OTHER -> Error(i + 1)

RECURSIVE TokensFrom(_, _)
TokensFrom(s, i) ==
  LET t == NextToken(s, i)
  IN IF t.type = "eof" THEN <<>>
     ELSE <<[type |-> t.type, value |-> t.value]>> \o TokensFrom(s, t.next)
Tokens(s) == TokensFrom(s, 1)

-----------------------------------------------------------------------------
(* The serializer.                                                         *)

DotEscape(s) ==
  FlattenSeq([i \in DOMAIN s |->
    CASE s[i] \in {DoubleQuote, Backslash} -> <<Backslash, s[i]>>
      [] s[i] = Newline -> <<Backslash, "n">>
      [] OTHER -> <<s[i]>>])

Quoted(s) == <<DoubleQuote>> \o DotEscape(s) \o <<DoubleQuote>>

(* graph_to_dot: a node with its label, and an edge with its; colours and  *)
(* shapes are left out.                                                    *)
NodeToDot(id, label) == Quoted(id) \o <<" ", "[", "a", "=">> \o Quoted(label) \o <<"]", ";", Newline>>
EdgeToDot(from, to, label) ==
  Quoted(from) \o <<" ", "-", ">", " ">> \o Quoted(to)
    \o (IF label = <<>> THEN <<>> ELSE <<" ", "[", "a", "=">> \o Quoted(label) \o <<"]">>)
    \o <<";", Newline>>

(* html_escape; an entity is one character here.                           *)
Entities == [c \in {"&", "<", ">", DoubleQuote, "'"} |->
  CASE c = "&" -> "&amp;" [] c = "<" -> "&lt;" [] c = ">" -> "&gt;"
    [] c = "'" -> "&#39;" [] OTHER -> "&quot;"]
HtmlEscape(s) == [i \in DOMAIN s |-> IF s[i] \in DOMAIN Entities THEN Entities[s[i]] ELSE s[i]]

-----------------------------------------------------------------------------
(* The parser, over the types of tokens. Each operator is given where it   *)
(* starts and returns where it stopped, or 0 if it failed; the lexer's     *)
(* errors are tokens of a type that no rule accepts.                       *)

Names == {"id", "quoted"}
NodeIds == Names \union {"number"}
Values == NodeIds \union {"html"}

(* parse_attr_list; the separator after an attribute is optional.          *)
RECURSIVE AttrsFrom(_, _)
AttrsFrom(t, i) ==
  CASE At(t, i) = "]" -> i + 1
    [] At(t, i) \in Names /\ At(t, i + 1) = "=" /\ At(t, i + 2) \in Values ->
         AttrsFrom(t, IF At(t, i + 3) \in {",", ";"} THEN i + 4 ELSE i + 3)
    [] OTHER -> 0
ParseAttrList(t, i) == IF At(t, i) = "[" THEN AttrsFrom(t, i + 1) ELSE 0
OptionalAttrs(t, i) == IF At(t, i) = "[" THEN ParseAttrList(t, i) ELSE i

RECURSIVE ParseEdgeStmt(_, _)
ParseEdgeStmt(t, i) ==
  IF At(t, i) # "->" THEN OptionalAttrs(t, i)
  ELSE IF At(t, i + 1) \in NodeIds THEN ParseEdgeStmt(t, i + 2) ELSE 0

RECURSIVE ParseStmt(_, _), ParseStmtList(_, _)

(* A name is part of a subgraph only behind the keyword.                   *)
ParseSubgraph(t, i) ==
  LET j == IF At(t, i) # "subgraph" THEN i
           ELSE IF At(t, i + 1) \in Names THEN i + 2 ELSE i + 1
      k == IF At(t, j) = "{" THEN ParseStmtList(t, j + 1) ELSE 0
  IN IF k # 0 /\ At(t, k) = "}" THEN k + 1 ELSE 0

ParseStmt(t, i) ==
  CASE At(t, i) \in {"node", "edge", "graph"} /\ At(t, i + 1) = "[" -> ParseAttrList(t, i + 1)
    [] At(t, i) \in {"subgraph", "{"} -> ParseSubgraph(t, i)
    [] At(t, i) \in NodeIds -> ParseEdgeStmt(t, i + 1)
    [] OTHER -> 0

ParseStmtList(t, i) ==
  IF At(t, i) \in {"}", "end"} THEN i
  ELSE LET j == ParseStmt(t, i)
       IN IF j = 0 THEN 0 ELSE ParseStmtList(t, IF At(t, j) = ";" THEN j + 1 ELSE j)

ParseGraph(t) ==
  LET i == IF At(t, 1) = "strict" THEN 2 ELSE 1
      j == IF At(t, i + 1) \in Names THEN i + 2 ELSE i + 1
      k == IF At(t, j) = "{" THEN ParseStmtList(t, j + 1) ELSE 0
  IN IF At(t, i) \in {"digraph", "graph"} /\ k # 0 /\ At(t, k) = "}" THEN k + 1 ELSE 0

-----------------------------------------------------------------------------
(* What the parser is for: the grammar of DOT, as far as Needle has it, as *)
(* sets of sequences of types, with words of at most n tokens.             *)
Cut(S, n) == {w \in S : Len(w) <= n}
Joined(S, T, n) == Cut({v \o w : v \in S, w \in T}, n)
Words(S) == {<<x>> : x \in S}
RECURSIVE Repeated(_, _)
Repeated(S, n) == IF n <= 0 THEN {<<>>} ELSE {<<>>} \union Joined(S, Repeated(S, n - 1), n)

GrammarAttr(n) ==
  Cut({<<k, "=", v>> \o o : k \in Names, v \in Values, o \in {<<>>, <<",">>, <<";">>}}, n)
GrammarAttrs(n) == Cut({<<"[">> \o w \o <<"]">> : w \in Repeated(GrammarAttr(n), n)}, n)
RECURSIVE GrammarStmts(_)
GrammarStmts(n) ==
  IF n <= 0 THEN {<<>>}
  ELSE LET attrs == GrammarAttrs(n)
           chains == Joined(Words(NodeIds), Repeated({<<"->", x>> : x \in NodeIds}, n), n)
           blocks == {<<"{">> \o w \o <<"}">> : w \in GrammarStmts(n - 2)}
           heads == {<<>>, <<"subgraph">>} \union {<<"subgraph", x>> : x \in Names}
           stmts == Joined(Words({"node", "edge", "graph"}), attrs, n)
                      \union Joined(heads, blocks, n)
                      \union chains \union Joined(chains, attrs, n)
       IN Repeated(Joined(stmts, {<<>>, <<";">>}, n), n)
=============================================================================
