------------------------------ MODULE Settings ------------------------------
(***************************************************************************)
(* NeedleConfig: the operator's settings, config.json, read by every       *)
(* command when it starts and by the server once, changed and saved by     *)
(* `needle config` and by the dashboard.                                   *)
(*                                                                         *)
(* A JSON document is flattened: a function from paths to values, with all *)
(* beginnings of its paths, the empty one among them, mapped to Object.    *)
(* Absent is no file, Garbled one that does not parse.                     *)
(***************************************************************************)
EXTENDS Naturals, Sequences, FiniteSets, SequencesExt

Object == [kind |-> "object", value |-> ""]
Text(v) == [kind |-> "string", value |-> v]
Number(v) == [kind |-> "number", value |-> v]
Null == [kind |-> "null", value |-> ""]
Absent == [p \in {<<>>} |-> Null]
Garbled == [p \in {<<>>} |-> Text("{")]
Readable(disk) == disk[<<>>] = Object

(* A part of NeedleConfig::defaults.                                       *)
Defaults ==
  [p \in {<<>>, <<"defaults">>, <<"defaults", "warn">>, <<"defaults", "agent">>,
          <<"ui">>, <<"ui", "theme">>} |->
     CASE p = <<"defaults", "warn">> -> Number("100") [] p = <<"defaults", "agent">> -> Text("claude")
       [] p = <<"ui", "theme">> -> Text("dark") [] OTHER -> Object]
(* The sparse and the populated document of the guard in save_impl, 10 and *)
(* 20 keys of the 39 of the defaults, in proportion.                       *)
Sparse == 3
Populated == 5

-----------------------------------------------------------------------------
(* deep_merge: a value of src takes the place of a value or of all that    *)
(* was below; objects are joined.                                          *)
DeepMerge(dst, src) ==
  LET values == {q \in DOMAIN src : src[q] # Object}
      kept == {p \in DOMAIN dst : \A q \in values : ~IsPrefix(q, p)}
  IN [p \in kept \union DOMAIN src |-> IF p \in DOMAIN src THEN src[p] ELSE dst[p]]

(* walk_path.                                                              *)
At(doc, path) == IF path \in DOMAIN doc THEN doc[path] ELSE Null

(* set_path: what is on the way becomes an object.                         *)
SetPath(doc, path, value) ==
  [p \in {q \in DOMAIN doc : ~IsPrefix(path, q)} \union Prefixes(path) |->
     IF p = path THEN value ELSE IF IsPrefix(p, path) THEN Object ELSE doc[p]]

(* remove_path.                                                            *)
RemovePath(doc, path) == [p \in {q \in DOMAIN doc : ~IsPrefix(path, q)} |-> doc[p]]

(* get_int and its siblings: a value of another type is as good as none.   *)
Get(doc, path, kind, fallback) ==
  IF At(doc, path).kind = kind THEN At(doc, path).value ELSE fallback

-----------------------------------------------------------------------------
(* Mutant: the defaults are merged over what the file says.                *)
EnsureDefaultsOver(doc) == DeepMerge(doc, Defaults)

EnsureDefaults(doc) == DeepMerge(Defaults, doc)

(* load: without a file, or with one that does not parse, the defaults.    *)
Load(disk) == IF Readable(disk) THEN EnsureDefaults(disk) ELSE Defaults

KeysOf(doc) == Cardinality(DOMAIN doc \ {<<>>})

(* save_impl: a document with hardly a key does not replace a full one.    *)
Refused(doc, disk) == KeysOf(doc) < Sparse /\ Readable(disk) /\ KeysOf(disk) >= Populated
Save(doc, disk) == IF Refused(doc, disk) THEN disk ELSE doc

(* set, with a string, whatever the setting is; unset; merge.              *)
Change(doc, op) ==
  CASE op.do = "set"   -> SetPath(doc, op.path, Text("new"))
    [] op.do = "unset" -> RemovePath(doc, op.path)
    [] op.do = "merge" -> DeepMerge(doc, op.doc)

(* What a sequence of operations leaves on the disk and in the server. A   *)
(* refused save leaves the change in the memory of the server.             *)
Step(s, op) ==
  CASE op.who = "start" -> [s EXCEPT !.server = Load(s.disk)]
    [] op.who = "editor" -> [s EXCEPT !.disk = Garbled]
    [] op.who = "cli" -> [s EXCEPT !.disk = Save(Change(Load(s.disk), op), s.disk)]
    [] op.who = "server" -> LET doc == Change(s.server, op) IN
                            [s EXCEPT !.server = doc, !.disk = Save(doc, s.disk)]
After(ops) == FoldLeft(Step, [disk |-> Absent, server |-> Defaults], ops)

-----------------------------------------------------------------------------
(* A process that starts reads every setting of the file as it is there.   *)
SettingsAreRead(disk) == Readable(disk) => \A p \in DOMAIN disk : At(Load(disk), p) = disk[p]

(* What a command sets or unsets is so on the disk when it succeeds and no *)
(* other setting that was there is touched, nor is any by a command that   *)
(* is refused.                                                             *)
Apart(p, q) == ~IsPrefix(p, q) /\ ~IsPrefix(q, p)
CommandLands(disk, op, after) ==
  LET refused == Refused(Change(Load(disk), op), disk) IN
  /\ ~refused /\ op.do = "set" => At(after, op.path) = Text("new")
  /\ ~refused /\ op.do = "unset" => At(after, op.path) = Null
  /\ Readable(disk) => \A p \in DOMAIN disk : refused \/ Apart(p, op.path) => At(after, p) = disk[p]

(* A file that was populated is never left sparse.                         *)
StaysPopulated(disk, after) ==
  Readable(disk) /\ KeysOf(disk) >= Populated => KeysOf(after) >= Sparse

SettingsLand(ops) ==
  LET after == After(ops) IN
  /\ SettingsAreRead(after.disk)
  /\ ops # <<>> =>
       LET before == After(Front(ops)).disk
           op == Last(ops)
       IN /\ op.who = "cli" => CommandLands(before, op, after.disk)
          /\ op.who \in {"cli", "server"} => StaysPopulated(before, after.disk)
=============================================================================
