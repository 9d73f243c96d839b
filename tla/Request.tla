------------------------------- MODULE Request -------------------------------
(***************************************************************************)
(* The request side of the client: the questions a caller adds to a set,   *)
(* Questions.Prepare (questions.go) and the builder it drives              *)
(* (internal/wire/prepared.go), and the body each call encodes             *)
(* (internal/engine/body.go, internal/codec/encode.go).                    *)
(*                                                                         *)
(* mem is the caller's memory: JSON content and RawJSON are references to  *)
(* its cells, which the caller may overwrite once Prepare has returned.    *)
(***************************************************************************)
EXTENDS JSONScan, TLC

CONSTANTS
    RepeatScanLimit,  \* engine.RepeatScanLimit: more strings than this use a map
    LinearLimit,      \* wire's linearLimit: more questions than this use an index
    Scenarios,        \* what a caller may do, by name: [entries, most, calls, texts, overwritten],
                      \*   with a bound, most, on the questions of one set
    Mem0,             \* the caller's memory at the start, but for the cell "t"
    Scribbled         \* what the caller writes over a cell

ASSUME LimitAssumption == RepeatScanLimit \in Nat /\ LinearLimit \in Nat

NoError == [kind |-> "", path |-> <<>>]

(***************************************************************************)
(* The builder.  buf is the text so far, entries the questions' tables,    *)
(* spans where the JSON score levels stand in buf, keys the stack of       *)
(* sorted map keys, labels and levels the arenas the tables are cut from.  *)
(* at is the question being written.  After a failure err is set and the   *)
(* rest of the chain writes nothing, which is the early return of every    *)
(* writer in the code.                                                     *)
(***************************************************************************)
Failed(b) == b.err # NoError

Fail(b, kind, path) == IF Failed(b) THEN b ELSE [b EXCEPT !.err = [kind |-> kind, path |-> path]]

\* The result w of a writer, as the builder's next text or its failure at path.
Take(b, w, path) ==
    CASE Failed(b)                 -> b
      [] ~Failed(b) /\ w.err = ""  -> [b EXCEPT !.buf = w.out]
      [] OTHER                     -> Fail(b, w.err, path)

Put(b, symbols)            == Take(b, Wrote(b.buf \o symbols), <<>>)
PutString(b, s, path)      == Take(b, AppendString(b.buf, s), path)
PutContent(b, c, path, m)  == Take(b, AppendContent(b.buf, c, m), path)
Name(key)                  == <<Quote, key, Quote, ":">>

\* A key or a label, of one symbol at most, as a step of an error's path.
Sym(key) == At(key, 1)

\* An arena of cap cells, and one with the next n cut off it as a table of
\* its own; a table that does not fit gets cells elsewhere.
Arena(cap, blank) == [cap |-> cap, len |-> 0, cells |-> [i \in 1..cap |-> blank]]
CutSame(arena, n, blank) ==  \* mutant: the next table is cut from the same place
    [arena |-> arena, table |-> [from |-> arena.len, n |-> n]]
Cut(arena, n, blank) ==
    IF n > arena.cap - arena.len
    THEN [arena |-> [arena EXCEPT !.cells = @ \o [i \in 1..n |-> blank]],
          table |-> [from |-> Len(arena.cells), n |-> n]]
    ELSE [arena |-> [arena EXCEPT !.len = @ + n],
          table |-> [from |-> arena.len, n |-> n]]

\* What a table holds.
Cells(arena, table) == SubSeq(arena.cells, table.from + 1, table.from + table.n)
NoTable == [from |-> 0, n |-> 0]

\* arena with vals in the cells of table.
Fill(arena, table, vals) ==
    [arena EXCEPT !.cells =
        [i \in DOMAIN @ |-> IF i - table.from \in DOMAIN vals THEN vals[i - table.from] ELSE @[i]]]

ParseKind(typ) == IF typ \in {<<"noul">>, <<"choice">>, <<"score">>} THEN typ[1] ELSE "unknown"

NewEntry(b, name, kind) ==
    IF Failed(b) THEN b
    ELSE [b EXCEPT !.entries = Append(@, [name |-> name, kind |-> kind,
                                          options |-> NoTable, levels |-> NoTable])]
SetOptions(b, table) == IF Failed(b) THEN b ELSE [b EXCEPT !.entries[Len(b.entries)].options = table]
SetLevels(b, table)  == IF Failed(b) THEN b ELSE [b EXCEPT !.entries[Len(b.entries)].levels = table]

Begin(b, name, typ, kind) ==
    NewEntry(PutString(Put(PutString(Put(b, <<IF b.buf = <<>> THEN "{" ELSE ",">>), name, <<"name">>),
                           <<":", "{">> \o Name("type")), typ, <<"type">>),
             name, kind)

Member(b, key, c, m) ==
    IF c = Unset THEN b ELSE PutContent(Put(b, <<",">> \o Name(key)), c, <<key>>, m)

\* One side of a noul's criteria, after sep.
Side(b, key, c, sep, m) ==
    IF c = Unset THEN b ELSE PutContent(Put(b, sep \o Name(key)), c, <<"criteria", key>>, m)
NoulCriteria(b, q, m) ==
    IF q.yes = Unset /\ q.no = Unset THEN b
    ELSE Put(Side(Side(Put(b, <<",">> \o Name("criteria") \o <<"{">>), "true", q.yes, <<>>, m),
                  "false", q.no, IF q.yes # Unset THEN <<",">> ELSE <<>>, m),
             <<"}">>)

BuilderNoul(b, q, m) ==
    Put(NoulCriteria(Member(Begin(b, q.name, <<"noul">>, "noul"), "instructions", q.instr, m), q, m),
        <<"}">>)

BuilderChoice(b, q, labels, table, m) ==
    LET open == Put(Member(Begin(b, q.name, <<"choice">>, "choice"), "instructions", q.instr, m),
                    <<",">> \o Name("criteria") \o <<"{">>)
        option(acc, i) ==
            LET path == <<"criteria", Sym(labels[i])>>
                lab  == Put(PutString(IF i > 1 THEN Put(acc, <<",">>) ELSE acc, labels[i], path),
                            <<":">>)
                d    == q.options[i].desc
            IN  IF d = Unset THEN Put(lab, <<"null">>) ELSE PutContent(lab, d, path, m)
    IN  SetOptions(Put(FoldLeftDomain(option, open, labels), <<"}", "}">>), table)

\* The JSON level just written to b stands from the end of b0's text on.
AddSpan(b, b0, i) ==
    IF Failed(b) THEN b
    ELSE [b EXCEPT !.spans = Append(@, [entry |-> Len(b.entries), level |-> i,
                                        from |-> Len(b0.buf) + 1, to |-> Len(b.buf)])]
PutLevel(b, levels, i, m) ==
    LET next == PutContent(b, levels[i], <<"criteria", ToString(i - 1)>>, m)
    IN  IF IsJSON(levels[i]) THEN AddSpan(next, b, i) ELSE next

BuilderScore(b, q, table, m) ==
    LET levels == q.levels
        open == Put(Member(Begin(b, q.name, <<"score">>, "score"), "instructions", q.instr, m),
                    <<",">> \o Name("criteria") \o <<"[">>)
        level(acc, i) == PutLevel(IF i > 1 THEN Put(acc, <<",">>) ELSE acc, levels, i, m)
    IN  SetLevels(Put(FoldLeftDomain(level, open, levels), <<"]", "}">>), table)

(***************************************************************************)
(* Raw question fields.  A Go map is a function from keys to values.       *)
(* sortedKeys pushes a map's keys on the stack and the writer ranges over  *)
(* them there, while the maps nested in its members push and pop above;    *)
(* what is above the stack's length stays in the array until overwritten.  *)
(***************************************************************************)
KeyOrder == <<"a", "b", "c", "criteria", "type", "bad">>
SortedKeys(map) ==
    LET rank(k) == SelectInSeq(KeyOrder, LAMBDA z : z = Sym(k))
    IN  SetToSortSeq(DOMAIN map, LAMBDA x, y : rank(x) < rank(y))

Push(stack, ks) ==
    [len |-> stack.len + Len(ks),
     arr |-> SubSeq(stack.arr, 1, stack.len) \o ks
             \o SubSeq(stack.arr, stack.len + Len(ks) + 1, Len(stack.arr))]

\* appendLeaf: the types of this package, and failing that a refusal.
AppendLeaf(b, v, path, m) ==
    CASE v.t = "rawjson" -> Take(b, AppendJSON(b.buf, m[v.ref]), path)
      [] v.t = "content" -> IF v.c = Unset THEN Put(b, <<"null">>) ELSE PutContent(b, v.c, path, m)
      [] v.t = "other"   -> Fail(b, "value", path)

RECURSIVE AppendValue(_, _, _, _, _)
AppendValue(b, v, depth, path, m) ==
    LET base == b.keys.len
        comma(acc, i) == IF i > 1 THEN Put(acc, <<",">>) ELSE acc
        element(acc, i) == AppendValue(comma(acc, i), v.e[i], depth + 1,
                                       Append(path, ToString(i - 1)), m)
        string(acc, i) == PutString(comma(acc, i), v.ss[i], Append(path, ToString(i - 1)))
        ks == SortedKeys(v.m)
        pushed == [Put(b, <<"{">>) EXCEPT !.keys = Push(@, ks)]
        member(acc, i) ==
            LET k == acc.keys.arr[base + i]
                named == Put(PutString(comma(acc, i), k, Append(path, Sym(k))), <<":">>)
            IN  IF v.t = "mapany" THEN AppendValue(named, v.m[k], depth + 1, Append(path, Sym(k)), m)
                ELSE PutString(named, v.m[k], Append(path, Sym(k)))
    IN  IF Failed(b) THEN b
        ELSE IF depth > MaxValueDepth THEN Fail(b, "value", path)
        ELSE CASE v.t = "nil"     -> Put(b, <<"null">>)
               [] v.t = "bool"    -> Put(b, <<v.b>>)
               [] v.t = "string"  -> PutString(b, v.s, path)
               [] v.t = "int"     -> Put(b, v.n)
               [] v.t = "float"   -> Take(b, AppendFloat(b.buf, v), path)
               [] v.t = "anys"    -> Put(FoldLeftDomain(element, Put(b, <<"[">>), v.e), <<"]">>)
               [] v.t = "strs"    -> Put(FoldLeftDomain(string, Put(b, <<"[">>), v.ss), <<"]">>)
               [] v.t \in {"mapany", "mapstr"} ->
                    [Put(FoldLeftDomain(member, pushed, ks), <<"}">>) EXCEPT !.keys.len = base]
               [] OTHER           -> AppendLeaf(b, v, path, m)

BuilderRaw(b, q, m) ==
    LET b1   == Begin(b, q.name, q.typ, ParseKind(q.typ))
        base == b.keys.len
        ks   == SortedKeys(q.fields)
        pushed == [b1 EXCEPT !.keys = Push(@, ks)]
        field(acc, i) ==
            LET k == acc.keys.arr[base + i]
                named == Put(PutString(Put(acc, <<",">>), k, <<Sym(k)>>), <<":">>)
            IN  AppendValue(named, q.fields[k], 0, <<Sym(k)>>, m)
    IN  Put([FoldLeftDomain(field, pushed, ks) EXCEPT !.keys.len = base], <<"}">>)

(***************************************************************************)
(* Prepare.                                                                *)
(***************************************************************************)

\* The index of the first string equal to an earlier one, or 0: by comparing
\* each with the ones before it, or past RepeatScanLimit with a map.
FirstRepeat(ss) ==
    IF Len(ss) <= RepeatScanLimit
    THEN SelectInSubSeq([i \in DOMAIN ss |-> \E j \in 1..(i - 1) : ss[j] = ss[i]],
                        1, Len(ss), LAMBDA r : r)
    ELSE SelectInSubSeq([i \in DOMAIN ss |-> ss[i] \in ToSet(SubSeq(ss, 1, i - 1))],
                        1, Len(ss), LAMBDA r : r)

\* falsy: a value Python finds false.
Falsy(v, m) ==
    CASE v.t = "nil"    -> TRUE
      [] v.t = "bool"   -> v.b = "false"
      [] v.t = "string" -> v.s = <<>>
      [] v.t = "int"    -> v.n = <<"0">>
      [] v.t = "float"  -> v.d = <<>>
      [] v.t = "anys"   -> v.e = <<>>
      [] v.t = "strs"   -> v.ss = <<>>
      [] v.t \in {"mapany", "mapstr"} -> DOMAIN v.m = {}
      [] v.t = "rawjson" -> FalsyJSON(m[v.ref])
      [] v.t = "content" -> CASE v.c.form = "unset" -> TRUE
                              [] v.c.form = "text"  -> v.c.s = <<>>
                              [] OTHER              -> FalsyJSON(m[v.c.ref])
      [] OTHER -> FALSE

PrepareChoice(b, q, m) ==
    LET cut    == Cut(b.labels, Len(q.options), <<>>)
        labels == [i \in DOMAIN q.options |-> q.options[i].label]
        b1     == [b EXCEPT !.labels = Fill(cut.arena, cut.table, labels)]
    IN  IF FirstRepeat(labels) > 0 THEN Fail(b1, "label", <<>>)
        ELSE BuilderChoice(b1, q, labels, cut.table, m)

PrepareScore(b, q, m) ==
    LET cut   == Cut(b.levels, Len(q.levels), Unset)
        unset == SelectInSeq(q.levels, LAMBDA c : c = Unset)
        b1    == [b EXCEPT !.levels = Fill(cut.arena, cut.table, q.levels)]
    IN  CASE q.levels = <<>> -> Fail(b, "noCriteria", <<>>)
          [] q.levels # <<>> /\ unset > 0 -> Fail(b1, "level", <<>>)
          [] OTHER -> BuilderScore(b1, q, cut.table, m)

PrepareRaw(b, q, m) ==
    LET crit == <<"criteria">> IN
    IF <<"type">> \in DOMAIN q.fields \/ q.typ = <<>> THEN Fail(b, "type", <<>>)
    ELSE IF q.typ \in {<<"choice">>, <<"score">>} /\ crit \notin DOMAIN q.fields
    THEN Fail(b, "criteria", <<>>)
    ELSE IF q.typ = <<"score">> /\ Falsy(q.fields[crit], m)
    THEN Fail(b, "noCriteria", <<>>)
    ELSE BuilderRaw(b, q, m)

PrepareOne(b, q, m) ==
    CASE q.form = "noul"   -> BuilderNoul(b, q, m)
      [] q.form = "choice" -> PrepareChoice(b, q, m)
      [] q.form = "score"  -> PrepareScore(b, q, m)
      [] q.form = "raw"    -> PrepareRaw(b, q, m)

\* checkName: valid UTF-8, and not the name of an earlier question.
CheckName(b, qs, i) ==
    LET name == qs[i].name
        seen == {qs[j].name : j \in 1..(i - 1)}
        repeated == IF Len(qs) > RepeatScanLimit THEN name \in seen
                    ELSE \E j \in 1..(i - 1) : qs[j].name = name
    IN  CASE "bad" \in ToSet(name) -> Fail(b, "name", <<>>)
          [] "bad" \notin ToSet(name) /\ repeated -> Fail(b, "repeat", <<>>)
          [] OTHER -> b

\* sizeHint: the cells the choices' and the scores' tables need.
LabelCells(qs) == FoldSeq(LAMBDA q, n : n + (IF q.form = "choice" THEN Len(q.options) ELSE 0), 0, qs)
LevelCells(qs) == FoldSeq(LAMBDA q, n : n + (IF q.form = "score" THEN Len(q.levels) ELSE 0), 0, qs)

NewBuilder(qs) ==
    [buf |-> <<>>, entries |-> <<>>, spans |-> <<>>, err |-> NoError, at |-> 0,
     keys |-> [len |-> 0, arr |-> <<>>],
     labels |-> Arena(LabelCells(qs), <<>>), levels |-> Arena(LevelCells(qs), Unset)]

\* Finish: the JSON levels point at their own bytes, and past LinearLimit
\* the names are indexed.
Finish(b) ==
    LET cell(s) == b.entries[s.entry].levels.from + s.level
        ofCell(i) == SelectInSeq(b.spans, LAMBDA s : cell(s) = i)
        pointed == [i \in DOMAIN b.levels.cells |->
                      IF ofCell(i) = 0 THEN b.levels.cells[i]
                      ELSE SpanOf(b.spans[ofCell(i)].from, b.spans[ofCell(i)].to)]
        names == {b.entries[i].name : i \in DOMAIN b.entries}
    IN  [questions |-> (IF b.buf = <<>> THEN <<"{">> ELSE b.buf) \o <<"}">>,
         entries |-> b.entries, labels |-> b.labels,
         levels |-> [b.levels EXCEPT !.cells = pointed],
         indexed |-> Len(b.entries) > LinearLimit,
         index |-> [n \in names |-> SelectLastInSeq(b.entries, LAMBDA e : e.name = n)]]

NoPrepared == [questions |-> <<>>, entries |-> <<>>, labels |-> Arena(0, <<>>),
               levels |-> Arena(0, Unset), indexed |-> FALSE, index |-> <<>>]

\* Prepare: the first failure, or the finished set.
PrepareNext(b, qs, i, m) ==
    IF Failed(b) THEN b ELSE PrepareOne(b, qs[i], m)
Prepared(b) ==
    IF Failed(b) THEN [err |-> b.err, at |-> b.at, set |-> NoPrepared]
    ELSE [err |-> NoError, at |-> 0, set |-> Finish(b)]
PrepareAll(qs, m) ==
    LET one(b, i) == IF Failed(b) THEN b
                     ELSE PrepareNext(CheckName([b EXCEPT !.at = i], qs, i), qs, i, m)
    IN  IF qs = <<>> THEN [err |-> [kind |-> "empty", path |-> <<>>], at |-> 0, set |-> NoPrepared]
        ELSE Prepared(FoldLeftDomain(one, NewBuilder(qs), qs))

\* Prepared.Lookup: the entry called name, or 0.
Lookup(p, name) ==
    IF p.indexed THEN IF name \in DOMAIN p.index THEN p.index[name] ELSE 0
    ELSE SelectInSeq(p.entries, LAMBDA e : e.name = name)

(***************************************************************************)
(* EncodeBody.  A call's state and extra values are: "raw" RawJSON,        *)
(* "rawptr" a *RawJSON (nil when ref is ""), "content" Content, "bytes" a  *)
(* plain []byte, "nilbytes" a nil pointer to one, "unenc" a value sonic    *)
(* refuses, and "go" any other value, with the text sonic writes for it.   *)
(***************************************************************************)
Starts(text) == At(text, SkipSpace(text, 1))

AppendRawState(dst, raw) ==
    IF Starts(raw) \in {"{", "[", Quote} THEN Wrote(dst \o raw) ELSE Refused(dst, "state")

AppendRawValue(dst, raw) ==
    IF Starts(raw) \in {"{", "[", Quote, "-", "true", "trux", "false", "null", "nulx"} \cup Digits
    THEN Wrote(dst \o raw) ELSE Refused(dst, "raw")

\* plainBytes: a []byte that no marshaler writes, or nilErr for a nil pointer
\* to one.
PlainBytes(v, nilErr) == CASE v.t = "bytes" -> "bytes" [] v.t = "nilbytes" -> nilErr [] OTHER -> ""

EncodeState(dst, v) ==
    CASE PlainBytes(v, "state") # "" -> Refused(dst, PlainBytes(v, "state"))
      [] v.t = "unenc" -> Refused(dst, "sonic")
      [] v.t = "go" -> IF Starts(v.enc) \notin {"{", "[", Quote} THEN Refused(dst, "state")
                       ELSE IF "bad" \in ToSet(v.enc) THEN Refused(dst, "utf8")
                       ELSE Wrote(dst \o v.enc)

EncodeValue(dst, v) ==
    CASE PlainBytes(v, "raw") # "" -> Refused(dst, PlainBytes(v, "raw"))
      [] v.t = "unenc" -> Refused(dst, "sonic")
      [] v.t = "go" -> IF "bad" \in ToSet(v.enc) THEN Refused(dst, "utf8") ELSE Wrote(dst \o v.enc)

AppendState(dst, v, m) ==
    CASE v.t \in {"raw", "rawptr"} -> IF v.ref = "" THEN Refused(dst, "state")
                                      ELSE AppendRawState(dst, m[v.ref])
      [] v.t = "content" -> IF v.c = Unset THEN Refused(dst, "state")
                            ELSE AppendContent(dst, v.c, m)
      [] OTHER -> EncodeState(dst, v)

AppendMemberValue(dst, v, m) ==
    CASE v.t \in {"raw", "rawptr"} -> IF v.ref = "" THEN Refused(dst, "raw")
                                      ELSE AppendRawValue(dst, m[v.ref])
      [] v.t = "content" -> IF v.c = Unset THEN Wrote(Append(dst, "null"))
                            ELSE AppendContent(dst, v.c, m)
      [] OTHER -> EncodeValue(dst, v)

\* The last extra member called key, or 0.
LastExtra(extra, key) == SelectLastInSeq(extra, LAMBDA x : x.key = <<key>>)

BuiltIn == {<<"state">>, <<"model">>, <<"questions">>}

\* The member whose value is written when the loop of appendExtra reaches
\* member i, or 0 when it writes nothing there.  Past RepeatScanLimit a map
\* gives the last member of each key, and a key leaves it once written.
ExtraEach(extra, i) ==  \* mutant: a key given twice is written with its first value
    IF extra[i].key \in BuiltIn \/ \E k \in 1..(i - 1) : extra[k].key = extra[i].key THEN 0 ELSE i
ExtraAt(extra, i) ==
    LET key == extra[i].key
        last == SelectLastInSeq(extra, LAMBDA x : x.key = key)
        written == {extra[k].key : k \in 1..(i - 1)}
    IN  CASE key \in BuiltIn -> 0
          [] key \notin BuiltIn /\ Len(extra) > RepeatScanLimit -> IF key \in written THEN 0 ELSE last
          [] OTHER -> IF \E k \in 1..(i - 1) : extra[k].key = key THEN 0
                      ELSE LET later == {k \in (i + 1)..Len(extra) : extra[k].key = key}
                           IN  IF later = {} THEN i ELSE Max(later)

\* EncodeBody's result: the body's text and whether the call holds its
\* scratch, or the failure: its kind, the member and whether it is an extra.
BodyFailure(kind, key, ext) == [text |-> <<>>, held |-> FALSE, kind |-> kind, key |-> key, extra |-> ext]

\* What follows the body s: the result w of the writer of a member's value.
Then(s, key, ext, w) ==
    IF s.kind # "none" THEN s
    ELSE IF w.err # "" THEN BodyFailure("encode", key, ext)
    ELSE [s EXCEPT !.text = w.out]
Follow(s, symbols) == Then(s, <<>>, FALSE, Wrote(s.text \o symbols))

\* The built-in members, each from the last extra member of its key when
\* there is one (at # 0).
PutState(s, c, at, m) ==
    Then(s, <<"state">>, at # 0, AppendState(s.text, IF at = 0 THEN c.state ELSE c.extra[at].value, m))
PutModel(s, c, at, m) ==
    Then(s, <<"model">>, at # 0, IF at = 0 THEN AppendString(s.text, c.model)
                                 ELSE AppendMemberValue(s.text, c.extra[at].value, m))
PutQuestions(s, c, q, at, m) ==
    Then(s, <<"questions">>, at # 0, IF at = 0 THEN Wrote(s.text \o q.questions)
                                     ELSE AppendMemberValue(s.text, c.extra[at].value, m))

\* appendExtra's write of member i, with the value of member j.
PutKey(s, key)   == Then(s, key, TRUE, AppendString(s.text, key))
PutValue(s, x, m) == Then(s, x.key, TRUE, AppendMemberValue(s.text, x.value, m))
PutExtra(s, extra, j, m) ==
    IF j = 0 THEN s
    ELSE PutValue(Follow(PutKey(Follow(s, <<",">>), extra[j].key), <<":">>), extra[j], m)

EncodeBody(c, q, m) ==
    LET new == [text |-> <<"{">> \o Name("state"), held |-> TRUE, kind |-> "none", key |-> <<>>,
                extra |-> FALSE]
        model == LastExtra(c.extra, "model")
        upToModel == PutModel(Follow(PutState(new, c, LastExtra(c.extra, "state"), m),
                                     <<",">> \o Name("model")), c, model, m)
        builtIn == PutQuestions(Follow(upToModel, <<",">> \o Name("questions")), c, q,
                                LastExtra(c.extra, "questions"), m)
    IN  CASE q.entries = <<>> -> BodyFailure("noQuestions", <<>>, FALSE)
          [] q.entries # <<>> /\ model = 0 /\ "bad" \in ToSet(c.model) ->
               BodyFailure("model", <<>>, FALSE)
          [] OTHER -> Follow(FoldLeftDomain(LAMBDA s, i : PutExtra(s, c.extra, ExtraAt(c.extra, i), m),
                                            builtIn, c.extra), <<"}">>)

-----------------------------------------------------------------------------
(***************************************************************************)
(* The caller.                                                             *)
(***************************************************************************)
VARIABLES
    scene,     \* the scenario this behaviour follows
    mem,       \* the caller's memory
    questions, \* the set under construction
    asked,     \* what Prepare was given: the questions and the memory then
    prepared,  \* what Prepare returned
    sent       \* the calls made: each with the memory it read and its result

requestVars == <<scene, mem, questions, asked, prepared, sent>>

NotYet == [err |-> [kind |-> "pending", path |-> <<>>], at |-> 0, set |-> NoPrepared]

RequestInit ==
    /\ scene \in DOMAIN Scenarios
    /\ \E text \in Scenarios[scene].texts : mem = [Mem0 EXCEPT !["t"] = text]
    /\ questions = <<>>
    /\ asked = [set |-> <<>>, mem |-> mem]
    /\ prepared = NotYet
    /\ sent = <<>>

\* Questions.Noul, Choice, Score and Raw add a copy of the question.
Add(q) ==
    /\ prepared = NotYet
    /\ Len(questions) < Scenarios[scene].most
    /\ questions' = Append(questions, q)
    /\ UNCHANGED <<scene, mem, asked, prepared, sent>>

Prepare ==
    /\ prepared = NotYet
    /\ prepared' = PrepareAll(questions, mem)
    /\ asked' = [set |-> questions, mem |-> mem]
    /\ UNCHANGED <<scene, mem, questions, sent>>

\* The caller overwrites JSON it passed, as it may once Prepare has returned.
Scribble(ref) ==
    /\ prepared # NotYet
    /\ mem' = [mem EXCEPT ![ref] = Scribbled]
    /\ mem' # mem
    /\ UNCHANGED <<scene, questions, asked, prepared, sent>>

\* A call's body is encoded from the set, or without one when Prepare failed.
Call(c) ==
    /\ prepared # NotYet
    /\ sent = <<>>
    /\ sent' = <<[call |-> c, mem |-> mem, body |-> EncodeBody(c, prepared.set, mem)]>>
    /\ UNCHANGED <<scene, mem, questions, asked, prepared>>

RequestNext ==
    \/ \E q \in Scenarios[scene].entries : Add(q)
    \/ Prepare
    \/ \E ref \in Scenarios[scene].overwritten : Scribble(ref)
    \/ \E c \in Scenarios[scene].calls : Call(c)

RequestSpec == RequestInit /\ [][RequestNext]_requestVars
=============================================================================
