-------------------------- MODULE RequestReference --------------------------
(***************************************************************************)
(* What a request is meant to say, stated without the scanner, the builder *)
(* or the encoder: JSON read by its grammar, cutting a text at the commas  *)
(* and colons that no string and no container holds, and the body as the   *)
(* dictionary {**body, **extra_body} the Python SDK sends.                 *)
(***************************************************************************)
EXTENDS Request

(***************************************************************************)
(* JSON values: [lit], [str] with its characters, [num] with its sign, its *)
(* significant digits, the exponent of the first and whether it is written *)
(* with an exponent, [arr], [obj].                                         *)
(***************************************************************************)
NoTree == [none |-> TRUE]

Trim(t) ==
    LET solid == {i \in DOMAIN t : t[i] # "_"}
    IN  IF solid = {} THEN <<>> ELSE SubSeq(t, Min(solid), Max(solid))

\* Position i of t follows an odd number of backslashes.
RECURSIVE EscapedAt(_, _)
EscapedAt(t, i) == i > 1 /\ t[i - 1] = Backslash /\ ~EscapedAt(t, i - 1)

Quotes(t) == {i \in DOMAIN t : t[i] = Quote /\ ~EscapedAt(t, i)}

\* The positions of t that are in no string.
Outside(t) ==
    LET qs == Quotes(t)
    IN  {i \in DOMAIN t \ qs : Cardinality({q \in qs : q < i}) % 2 = 0}

\* t without the white space outside its strings.
Compact(t) ==
    LET kept == {i \in DOMAIN t : t[i] # "_" \/ i \notin Outside(t)}
    IN  [n \in 1..Cardinality(kept) |->
            t[CHOOSE i \in kept : Cardinality({k \in kept : k <= i}) = n]]

\* s cut at the positions cuts, which are left out.
PartsAt(s, cuts) ==
    [n \in 1..(Len(cuts) + 1) |-> SubSeq(s, IF n = 1 THEN 1 ELSE cuts[n - 1] + 1,
                                             IF n > Len(cuts) THEN Len(s) ELSE cuts[n] - 1)]

\* t cut at each sep that stands in no string and no container.
CutsAt(t, sep, out) ==
    LET depth(i) == Cardinality({k \in out : k < i /\ t[k] \in {"{", "["}})
                    - Cardinality({k \in out : k < i /\ t[k] \in {"}", "]"}})
    IN  SetToSortSeq({i \in out : t[i] = sep /\ depth(i) = 0}, <)
Parts(t, sep) == PartsAt(t, CutsAt(t, sep, Outside(t)))

StringText(t) ==
    LET n == Len(t) IN
    /\ n >= 2
    /\ Quotes(t) = {1, n}
    /\ \A i \in 2..(n - 1) :
          /\ t[i] \notin {"ctl", "ctl1", "bad"}
          /\ EscapedAt(t, i) => \/ t[i] \in Escapes
                                \/ /\ t[i] = "u"
                                   /\ i + 4 < n
                                   /\ \A k \in (i + 1)..(i + 4) : t[k] \in Hex

\* The characters a string's text stands for.
RECURSIVE Unescaped(_)
Unescaped(u) ==
    CASE u = <<>> -> <<>>
      [] u # <<>> /\ u[1] # Backslash -> <<u[1]>> \o Unescaped(Tail(u))
      [] u # <<>> /\ u[1] = Backslash /\ u[2] = "u" ->
           (IF SubSeq(u, 3, 6) = <<"0", "0", "0", "1">> THEN <<"ctl1">> ELSE SubSeq(u, 1, 6))
           \o Unescaped(SubSeq(u, 7, Len(u)))
      [] OTHER -> <<IF u[2] = "n" THEN "ctl" ELSE u[2]>> \o Unescaped(SubSeq(u, 3, Len(u)))

AllDigits(t) == t # <<>> /\ ToSet(t) \subseteq Digits
Unsigned(t, signs) == IF At(t, 1) \in signs THEN Tail(t) ELSE t

\* The ways to read t as an integer part, a fraction and an exponent.
NumberSplits(t) ==
    {<<a, b>> \in (0..Len(t)) \X (0..Len(t)) :
        LET int  == Unsigned(SubSeq(t, 1, a), {"-"})
            frac == SubSeq(t, a + 1, b)
            exp  == SubSeq(t, b + 1, Len(t))
        IN  /\ a <= b
            /\ AllDigits(int) /\ (int[1] = "0" => Len(int) = 1)
            /\ frac # <<>> => frac[1] = "." /\ AllDigits(Tail(frac))
            /\ exp # <<>> => exp[1] \in {"e", "E"} /\ AllDigits(Unsigned(Tail(exp), {"+", "-"}))}

Decimal(ds) == FoldLeft(LAMBDA n, d : 10 * n + (IF d = "0" THEN 0 ELSE SelectInSeq(DigitOf, LAMBDA x : x = d)),
                        0, ds)

Exponent(t) == IF At(t, 1) = "-" THEN -Decimal(Tail(t)) ELSE Decimal(Unsigned(t, {"+"}))

\* The digits ds with the point after the first n of them, less the zeros at
\* both ends, and the exponent of the first.
Significant(ds, n) ==
    LET solid == {i \in DOMAIN ds : ds[i] # "0"}
    IN  IF solid = {} THEN [d |-> <<>>, e |-> 0]
        ELSE [d |-> SubSeq(ds, Min(solid), Max(solid)), e |-> n - Min(solid)]

\* The number t, read by the split s, with the digits of its value in v.
NumberOf(t, s, v) ==
    [neg |-> t[1] = "-", d |-> v.d,
     e |-> IF v.d = <<>> THEN 0 ELSE v.e + Exponent(SubSeq(t, s[2] + 2, Len(t))),
     exp |-> s[2] < Len(t)]
SplitNumber(t, s) ==
    LET int == Unsigned(SubSeq(t, 1, s[1]), {"-"})
    IN  NumberOf(t, s, Significant(int \o (IF s[1] = s[2] THEN <<>> ELSE SubSeq(t, s[1] + 2, s[2])), Len(int)))
NumberValue(t) == SplitNumber(t, CHOOSE s \in NumberSplits(t) : TRUE)

RECURSIVE ParseTrimmed(_)
Parse(text) == ParseTrimmed(Trim(text))

ParseArray(elems) == IF \E i \in DOMAIN elems : elems[i] = NoTree THEN NoTree ELSE [arr |-> elems]

\* From the parts of each member: its name and its value.
ParseObject(named) ==
    IF \E i \in DOMAIN named : \/ Len(named[i]) # 2
                              \/ ~StringText(Trim(named[i][1]))
                              \/ Parse(named[i][2]) = NoTree
    THEN NoTree
    ELSE [obj |-> [i \in DOMAIN named |-> [key |-> Parse(named[i][1]).str, val |-> Parse(named[i][2])]]]

\* What stands between the commas of a container's inside.
Items(inner) == IF Trim(inner) = <<>> THEN <<>> ELSE Parts(inner, ",")

ParseTrimmed(t) ==
    LET n     == Len(t)
        inner == SubSeq(t, 2, n - 1)
        items == Items(inner)
    IN  CASE n = 1 /\ t[1] \in Literals -> [lit |-> t[1]]
          [] StringText(t)              -> [str |-> Unescaped(inner)]
          [] NumberSplits(t) # {}       -> [num |-> NumberValue(t)]
          [] n > 1 /\ t[1] = "[" /\ t[n] = "]" -> ParseArray([i \in DOMAIN items |-> Parse(items[i])])
          [] n > 1 /\ t[1] = "{" /\ t[n] = "}" -> ParseObject([i \in DOMAIN items |-> Parts(items[i], ":")])
          [] OTHER -> NoTree

FalseInPython(x) ==
    \/ x \in {[lit |-> "null"], [lit |-> "false"], [str |-> <<>>], [arr |-> <<>>], [obj |-> <<>>]}
    \/ "num" \in DOMAIN x /\ x.num.d = <<>>

(***************************************************************************)
(* What each question is meant to send, and what is wrong with it.         *)
(***************************************************************************)

\* An object with members ms, those without a value left out.
ObjOf(ms)   == [obj |-> SelectSeq(ms, LAMBDA x : x.val # NoTree)]
M(key, val) == [key |-> key, val |-> val]

ContentTree(c, m) ==
    CASE c.form = "unset" -> NoTree
      [] c.form = "text"  -> [str |-> c.s]
      [] c.form = "json"  -> Parse(m[c.ref])

ContentOK(c, m) ==
    CASE c.form = "unset" -> TRUE
      [] c.form = "text"  -> "bad" \notin ToSet(c.s)
      [] c.form = "json"  -> DOMAIN Parse(m[c.ref]) \in {{"obj"}, {"arr"}}

\* The keys of a map in the order of their bytes.
InOrder(map) == SelectSeq([i \in DOMAIN KeyOrder |-> <<KeyOrder[i]>>], LAMBDA k : k \in DOMAIN map)

RECURSIVE ValueTree(_, _)
ValueTree(v, m) ==
    CASE v.t = "nil"     -> [lit |-> "null"]
      [] v.t = "bool"    -> [lit |-> v.b]
      [] v.t = "string"  -> [str |-> v.s]
      [] v.t = "int"     -> Parse(v.n)
      [] v.t = "float"   -> [num |-> [neg |-> v.neg, d |-> v.d, e |-> v.e,
                                      exp |-> v.d # <<>> /\ v.e \notin -5..15]]
      [] v.t = "anys"    -> [arr |-> [i \in DOMAIN v.e |-> ValueTree(v.e[i], m)]]
      [] v.t = "strs"    -> [arr |-> [i \in DOMAIN v.ss |-> [str |-> v.ss[i]]]]
      [] v.t = "mapany"  -> [obj |-> [i \in DOMAIN InOrder(v.m) |->
                                M(InOrder(v.m)[i], ValueTree(v.m[InOrder(v.m)[i]], m))]]
      [] v.t = "mapstr"  -> [obj |-> [i \in DOMAIN InOrder(v.m) |->
                                M(InOrder(v.m)[i], [str |-> v.m[InOrder(v.m)[i]]])]]
      [] v.t = "rawjson" -> Parse(m[v.ref])
      [] v.t = "content" -> IF v.c = Unset THEN [lit |-> "null"] ELSE ContentTree(v.c, m)

\* The paths of the values inside v that JSON has no form for, or that are
\* nested too deep.
RECURSIVE BadPaths(_, _, _, _)
BadPaths(v, depth, path, m) ==
    LET bad(p) == IF p THEN {path} ELSE {}
        keys == {k \in DOMAIN v.m : k = <<"bad">>}
        under(k) == Append(path, Sym(k))
    IN  IF depth > MaxValueDepth THEN {path}
        ELSE CASE v.t = "string"  -> bad("bad" \in ToSet(v.s))
               [] v.t = "float"   -> bad(v.d = <<"nan">>)
               [] v.t = "anys"    -> UNION {BadPaths(v.e[i], depth + 1, Append(path, ToString(i - 1)), m) :
                                              i \in DOMAIN v.e}
               [] v.t = "strs"    -> {Append(path, ToString(i - 1)) :
                                        i \in {j \in DOMAIN v.ss : "bad" \in ToSet(v.ss[j])}}
               [] v.t = "mapany"  -> {under(k) : k \in keys}
                                     \cup UNION {BadPaths(v.m[k], depth + 1, under(k), m) : k \in DOMAIN v.m}
               [] v.t = "mapstr"  -> {under(k) : k \in {j \in DOMAIN v.m : "bad" \in ToSet(j \o v.m[j])}}
               [] v.t = "rawjson" -> bad(Parse(m[v.ref]) = NoTree)
               [] v.t = "content" -> bad(~ContentOK(v.c, m))
               [] v.t = "other"   -> {path}
               [] OTHER           -> {}

QuestionTree(q, m) ==
    LET type == M(<<"type">>, [str |-> IF q.form = "raw" THEN q.typ ELSE <<q.form>>])
        rest(c) == <<type, M(<<"instructions">>, ContentTree(q.instr, m)), M(<<"criteria">>, c)>>
        orNull(c) == IF c = Unset THEN [lit |-> "null"] ELSE ContentTree(c, m)
    IN  CASE q.form = "noul" ->
               ObjOf(rest(IF q.yes = Unset /\ q.no = Unset THEN NoTree
                          ELSE ObjOf(<<M(<<"true">>, ContentTree(q.yes, m)),
                                       M(<<"false">>, ContentTree(q.no, m))>>)))
          [] q.form = "choice" ->
               ObjOf(rest([obj |-> [i \in DOMAIN q.options |->
                                      M(q.options[i].label, orNull(q.options[i].desc))]]))
          [] q.form = "score" ->
               ObjOf(rest([arr |-> [i \in DOMAIN q.levels |-> ContentTree(q.levels[i], m)]]))
          [] q.form = "raw" ->
               [obj |-> <<type>> \o ValueTree([t |-> "mapany", m |-> q.fields], m).obj]

\* The problems of question i of a set, as Prepare's documentation lists
\* them: "member" with the path of the member that cannot be written.
Problems(qs, i, m) ==
    LET q == qs[i]
        when(p, kind) == IF p THEN {[kind |-> kind, path |-> <<>>]} ELSE {}
        member(p, path) == IF p THEN {[kind |-> "member", path |-> path]} ELSE {}
        bad(s) == "bad" \in ToSet(s)
        instr == member(q.form # "raw" /\ ~ContentOK(q.instr, m), <<"instructions">>)
        crit == <<"criteria">>
    IN  when(bad(q.name), "name")
        \cup when(\E j \in 1..(i - 1) : qs[j].name = q.name, "repeat")
        \cup CASE q.form = "noul" ->
                    instr \cup member(~ContentOK(q.yes, m), <<"criteria", "true">>)
                          \cup member(~ContentOK(q.no, m), <<"criteria", "false">>)
               [] q.form = "choice" ->
                    instr \cup when(~IsInjective([k \in DOMAIN q.options |-> q.options[k].label]), "label")
                          \cup UNION {member(bad(o.label) \/ ~ContentOK(o.desc, m), <<"criteria", Sym(o.label)>>) :
                                        o \in ToSet(q.options)}
               [] q.form = "score" ->
                    instr \cup when(q.levels = <<>>, "noCriteria")
                          \cup when(Unset \in ToSet(q.levels), "level")
                          \cup UNION {member(~ContentOK(q.levels[k], m), <<"criteria", ToString(k - 1)>>) :
                                        k \in DOMAIN q.levels}
               [] q.form = "raw" ->
                    when(q.typ = <<>> \/ <<"type">> \in DOMAIN q.fields, "type")
                    \cup when(q.typ \in {<<"choice">>, <<"score">>} /\ crit \notin DOMAIN q.fields, "criteria")
                    \cup when(/\ q.typ = <<"score">> /\ crit \in DOMAIN q.fields
                              /\ BadPaths(q.fields[crit], 0, <<>>, m) = {}
                              /\ FalseInPython(ValueTree(q.fields[crit], m)), "noCriteria")
                    \cup member(bad(q.typ), <<"type">>)
                    \cup {[kind |-> "member", path |-> p] :
                            p \in BadPaths([t |-> "mapany", m |-> q.fields], -1, <<>>, m)}

Reported(err) == IF err.kind \in {"utf8", "syntax", "shape", "value"} THEN [err EXCEPT !.kind = "member"] ELSE err

(***************************************************************************)
(* Prepare refuses a set exactly when a question has one of the documented *)
(* problems, for a problem of the first such question, and otherwise its   *)
(* bytes are, read by the grammar of JSON, the questions that were added,  *)
(* in their order and without white space.                                 *)
(***************************************************************************)
PreparesAsMeant ==
    LET qs  == asked.set
        bad == {i \in DOMAIN qs : Problems(qs, i, asked.mem) # {}}
        text == prepared.set.questions
    IN  prepared # NotYet =>
          CASE qs = <<>> -> prepared.err.kind = "empty"
            [] bad # {}  -> /\ prepared.at = Min(bad)
                            /\ Reported(prepared.err) \in Problems(qs, Min(bad), asked.mem)
            [] OTHER     -> /\ prepared.err = NoError
                            /\ Compact(text) = text
                            /\ Parse(text) = [obj |-> [i \in DOMAIN qs |->
                                                M(qs[i].name, QuestionTree(qs[i], asked.mem))]]

(***************************************************************************)
(* A prepared set keeps what it was asked, whatever the caller does with   *)
(* its own memory afterwards: each name leads to its own question, each    *)
(* choice's table holds its own labels and each score's table its own      *)
(* levels, JSON levels as the bytes the set sends.                         *)
(***************************************************************************)
PreparedStands ==
    LET p  == prepared.set
        qs == asked.set
        now(c)  == CASE c.form = "span" -> SubSeq(p.questions, c.from, c.to)
                     [] c.form = "json" -> mem[c.ref]
                     [] OTHER -> c.s
        then(c) == IF c.form = "json" THEN Compact(asked.mem[c.ref]) ELSE c.s
        levels(i) == Cells(p.levels, p.entries[i].levels)
    IN  prepared # NotYet /\ prepared.err = NoError =>
          /\ Len(p.entries) = Len(qs)
          /\ \A i \in DOMAIN qs :
               /\ Lookup(p, qs[i].name) = i
               /\ qs[i].form = "choice" =>
                    Cells(p.labels, p.entries[i].options) = [k \in DOMAIN qs[i].options |-> qs[i].options[k].label]
               /\ qs[i].form = "score" =>
                    /\ Len(levels(i)) = Len(qs[i].levels)
                    /\ \A k \in DOMAIN levels(i) : now(levels(i)[k]) = then(qs[i].levels[k])

(***************************************************************************)
(* Bodies.                                                                 *)
(***************************************************************************)

\* dict[key] = val in Python: an existing key keeps its place.
DictPut(dict, key, entry) ==
    LET at == SelectInSeq(dict, LAMBDA x : x.key = key)
    IN  IF at = 0 THEN Append(dict, [key |-> key, val |-> entry])
        ELSE [dict EXCEPT ![at].val = entry]

\* The tree of a value of the body, or NoTree when it cannot be sent; a state
\* is text, an object or an array.
SendableValue(v, m) ==
    CASE v.t \in {"raw", "rawptr"} -> IF v.ref = "" THEN NoTree ELSE Parse(m[v.ref])
      [] v.t = "content" -> IF v.c = Unset THEN [lit |-> "null"]
                            ELSE IF ContentOK(v.c, m) THEN ContentTree(v.c, m) ELSE NoTree
      [] v.t = "go" -> IF "bad" \in ToSet(v.enc) THEN NoTree ELSE Parse(v.enc)
      [] OTHER -> NoTree
StateTree(tree) == IF DOMAIN tree \in {{"str"}, {"obj"}, {"arr"}} THEN tree ELSE NoTree
Sendable(v, isState, m) ==
    IF isState THEN StateTree(SendableValue(v, m)) ELSE SendableValue(v, m)

\* {**body, **extra_body}, each value with whether it is an extra one.
DictOf(c, asks, m) ==
    FoldLeft(LAMBDA d, x : DictPut(d, x.key, [ext |-> TRUE, tree |-> Sendable(x.value, x.key = <<"state">>, m)]),
             <<M(<<"state">>, [ext |-> FALSE, tree |-> Sendable(c.state, TRUE, m)]),
               M(<<"model">>, [ext |-> FALSE, tree |-> [str |-> c.model]]),
               M(<<"questions">>, [ext |-> FALSE, tree |-> asks])>>,
             c.extra)

\* body says dict, or fails for the first of its members that cannot be sent.
SaysDict(body, dict, bad) ==
    IF bad # {}
    THEN body = BodyFailure("encode", dict[Min(bad)].key, dict[Min(bad)].val.ext)
    ELSE /\ body.kind = "none" /\ body.held
         /\ Parse(body.text) = [obj |-> [i \in DOMAIN dict |-> M(dict[i].key, dict[i].val.tree)]]
BodyMeant(c, body, dict) ==
    IF "bad" \in ToSet(c.model) /\ ~dict[2].val.ext THEN body = BodyFailure("model", <<>>, FALSE)
    ELSE SaysDict(body, dict, {i \in DOMAIN dict : dict[i].val.tree = NoTree \/ "bad" \in ToSet(dict[i].key)})

(***************************************************************************)
(* A call sends {**body, **extra_body}: each extra member in the place of  *)
(* the member it replaces or after the others, with the value it was given *)
(* last.  A replaced value is never looked at.  When a member cannot be    *)
(* sent, the call fails for the first one in that order, and says whether  *)
(* it was an extra one; a failed call keeps no scratch buffer.  What is    *)
(* sent for the questions is what was prepared, whatever the caller wrote  *)
(* over its own memory since.                                              *)
(***************************************************************************)
SendsAsMeant ==
    \A s \in ToSet(sent) :
        IF prepared.err # NoError THEN s.body = BodyFailure("noQuestions", <<>>, FALSE)
        ELSE LET asks == [obj |-> [i \in DOMAIN asked.set |->
                                     M(asked.set[i].name, QuestionTree(asked.set[i], asked.mem))]]
             IN  BodyMeant(s.call, s.body, DictOf(s.call, asks, s.mem))
=============================================================================
