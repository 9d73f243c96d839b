-------------------------------- MODULE Typed --------------------------------
(***************************************************************************)
(* Typed decoding: the struct tags PreparedFor reads, the plan it builds   *)
(* for a type (typed.go) and keeps in the cache of PlanCache, and the      *)
(* answer fields DecodeAs fills by that plan (decodeas.go,                 *)
(* decodeas_store.go).                                                     *)
(*                                                                         *)
(* A Go type is [k |-> "answer", a |-> kind], [k |-> "basic"],             *)
(* [k |-> "ptr", elem], [k |-> "struct", fields] or [k |-> "named", n], a  *)
(* type that may refer to itself, defined by Named[n].  A tag is a         *)
(* sequence of symbols as in JSONScan, words being one symbol.             *)
(***************************************************************************)
EXTENDS Request, PlanCache

CONSTANTS
    Named,       \* the named types
    MaxDeref,    \* maxDeref: how many pointers are followed
    TypedScenes  \* what goroutines do, by name: [types, together, responses, callers, most]:
                 \*   they ask about one of types, or about all of them, most times each

ASSUME MaxDerefAssumption == MaxDeref \in Nat
ASSUME ScenesAssumption ==
    \A s \in DOMAIN TypedScenes :
        TypedScenes[s].callers \subseteq Goroutines /\ TypedScenes[s].types \subseteq Types

(***************************************************************************)
(* lookupTag: reflect's scan of a struct tag, which reads the whole tag    *)
(* and reports a key that reflect would miss.                              *)
(***************************************************************************)
Found(value)  == [ok |-> TRUE, value |-> value, problem |-> ""]
NotFound      == [ok |-> FALSE, value |-> <<>>, problem |-> ""]
Problem(what) == [ok |-> FALSE, value |-> <<>>, problem |-> what]

\* The first position from i on that is not a space.
RECURSIVE SkipBlank(_, _)
SkipBlank(t, i) == IF At(t, i) = " " THEN SkipBlank(t, i + 1) ELSE i

\* The closing quote of a value whose opening quote has been read, or 0.
RECURSIVE QuoteEnd(_, _)
QuoteEnd(t, i) ==
    CASE At(t, i) \in {"", Quote} -> IF At(t, i) = "" THEN 0 ELSE i
      [] At(t, i) = Backslash     -> QuoteEnd(t, i + 2)
      [] OTHER                    -> QuoteEnd(t, i + 1)

\* strconv.Unquote of what stands between the quotes.
RECURSIVE Unquote(_)
Unquote(u) ==
    CASE u = <<>> -> Found(<<>>)
      [] u # <<>> /\ u[1] = Backslash ->
           IF At(u, 2) \notin {Quote, Backslash} THEN Problem("literal")
           ELSE LET r == Unquote(SubSeq(u, 3, Len(u))) IN [r EXCEPT !.value = <<u[2]>> \o @]
      [] OTHER -> LET r == Unquote(Tail(u)) IN [r EXCEPT !.value = <<u[1]>> \o @]

\* hiddenKey, from position i of rest, where reflect's scan stopped.
RECURSIVE HiddenKey(_, _, _, _)
HiddenKey(rest, i, quoted, found) ==
    LET c == At(rest, i)
        key == /\ c = "decision"
               /\ At(rest, i - 1) \in {"", " "}
               /\ At(rest, SkipBlank(rest, i + 1)) = ":"
    IN  CASE c = "" -> found
          [] c # "" /\ quoted /\ c = Backslash -> HiddenKey(rest, i + 2, quoted, found)
          [] c # "" /\ quoted /\ c # Backslash -> HiddenKey(rest, i + 1, c # Quote, found)
          [] c # "" /\ ~quoted /\ c = Quote    -> HiddenKey(rest, i + 1, TRUE, found)
          [] c # "" /\ ~quoted /\ key ->
               Problem(CASE found.ok -> "twice" [] ~found.ok /\ i = 1 -> "form" [] OTHER -> "hidden")
          [] OTHER -> HiddenKey(rest, i + 1, quoted, found)

RECURSIVE LookupTag(_, _)
LookupTag(tag, found) ==
    LET t     == SubSeq(tag, SkipBlank(tag, 1), Len(tag))
        n     == SelectInSeq(Append(t, " "), LAMBDA c : c \in {" ", "tab", ":", Quote}) - 1
        mine  == SubSeq(t, 1, n) = <<"decision">>
        end   == QuoteEnd(t, n + 3)
        value == Unquote(SubSeq(t, n + 3, end - 1))
        more  == SubSeq(t, end + 1, Len(t))
    IN  CASE t = <<>> -> found
          [] t # <<>> /\ (n = 0 \/ At(t, n + 1) # ":" \/ At(t, n + 2) # Quote) ->
               HiddenKey(t, 1, FALSE, found)
          [] OTHER ->
               IF ~mine THEN IF end = 0 THEN found ELSE LookupTag(more, found)
               ELSE IF found.ok THEN Problem("twice")
               ELSE IF end = 0 \/ ~value.ok THEN Problem("literal")
               ELSE LookupTag(more, value)

Lookup0(tag) == LookupTag(tag, NotFound)
HasKey(tag)  == Lookup0(tag).ok \/ Lookup0(tag).problem # ""

(***************************************************************************)
(* parseTag: the grammar of a decision tag.                                *)
(***************************************************************************)
TextKeys == {"kind", "name", "instructions", "yes", "no"}
TagKeys  == TextKeys \cup {"options", "levels", "optional"}

NoSpec  == [keys |-> {}, text |-> <<>>, options |-> <<>>, levels |-> <<>>, err |-> ""]
BadSpec(why) == [NoSpec EXCEPT !.err = why]

\* The first sep that no backslash escapes, one past the end when there is
\* none, or 0 for a backslash at the end.
RECURSIVE ScanFrom(_, _, _)
ScanFrom(s, sep, i) ==
    CASE At(s, i) = Backslash -> IF i = Len(s) THEN 0 ELSE ScanFrom(s, sep, i + 2)
      [] At(s, i) \in {"", sep} -> IF i > Len(s) THEN Len(s) + 1 ELSE i
      [] OTHER -> ScanFrom(s, sep, i + 1)
ScanEntry(s, sep) == ScanFrom(s, sep, 1)

Before(s, i) == SubSeq(s, 1, i - 1)
After(s, i)  == SubSeq(s, i + 1, Len(s))

RECURSIVE Unescape(_)
Unescape(s) ==
    CASE s = <<>> -> Wrote(<<>>)
      [] s # <<>> /\ s[1] = Backslash ->
           IF At(s, 2) \notin {";", "|", "=", Backslash} THEN Refused(<<>>, "escape")
           ELSE LET r == Unescape(SubSeq(s, 3, Len(s))) IN [r EXCEPT !.out = <<s[2]>> \o @]
      [] OTHER -> LET r == Unescape(Tail(s)) IN [r EXCEPT !.out = <<s[1]>> \o @]

\* parseOptions and parseLevels: the items between the bars, and an error.
RECURSIVE ParseOptions(_)
ParseOptions(value) ==
    LET end   == ScanEntry(value, "|")
        item  == Before(value, end)
        sep   == ScanEntry(item, "=")
        label == Unescape(Before(item, sep))
        desc  == Unescape(After(item, sep))
        more  == ParseOptions(After(value, end))
        bad   == CASE item = <<>> -> "option"
                   [] item # <<>> /\ label.err # "" -> label.err
                   [] item # <<>> /\ label.err = "" /\ label.out = <<>> -> "label"
                   [] OTHER -> IF sep > Len(item) THEN ""
                               ELSE IF desc.err # "" THEN desc.err
                               ELSE IF desc.out = <<>> THEN "description" ELSE ""
        this  == [label |-> label.out, desc |-> IF sep > Len(item) THEN <<>> ELSE desc.out]
    IN  IF bad # "" THEN Refused(<<>>, bad)
        ELSE IF end > Len(value) THEN Wrote(<<this>>)
        ELSE [more EXCEPT !.out = <<this>> \o @]

RECURSIVE ParseLevels(_)
ParseLevels(value) ==
    LET end   == ScanEntry(value, "|")
        level == Unescape(Before(value, end))
        more  == ParseLevels(After(value, end))
    IN  IF end = 1 THEN Refused(<<>>, "level")
        ELSE IF level.err # "" THEN level
        ELSE IF end > Len(value) THEN Wrote(<<level.out>>)
        ELSE [more EXCEPT !.out = <<level.out>> \o @]

AddEntry(spec, e) ==
    LET eq    == SelectInSeq(Append(e, "="), LAMBDA c : c = "=")
        key   == At(Before(e, eq), 1)
        value == After(e, eq)
        given == [spec EXCEPT !.keys = @ \cup {key}]
        text  == Unescape(value)
        opts  == ParseOptions(value)
        lvls  == ParseLevels(value)
        or(r, s) == IF r.err = "" THEN s ELSE BadSpec(r.err)
    IN  CASE e = <<>> -> BadSpec("empty entry")
          [] e # <<>> /\ (eq # 2 \/ key \notin TagKeys) -> BadSpec("unknown key")
          [] e # <<>> /\ eq = 2 /\ key \in spec.keys -> BadSpec("key twice")
          [] e # <<>> /\ eq = 2 /\ key \in TagKeys \ spec.keys ->
               IF key = "optional" THEN IF eq <= Len(e) THEN BadSpec("optional") ELSE given
               ELSE IF value = <<>> THEN BadSpec("empty value")
               ELSE IF key \in TextKeys
                    THEN or(text, [given EXCEPT !.text = (key :> text.out) @@ @])
               ELSE IF key = "options" THEN or(opts, [given EXCEPT !.options = opts.out])
               ELSE or(lvls, [given EXCEPT !.levels = lvls.out])

RECURSIVE ParseEntries(_, _)
ParseEntries(rest, spec) ==
    LET end  == ScanEntry(rest, ";")
        next == AddEntry(spec, Before(rest, end))
    IN  CASE rest = <<>> -> spec
          [] rest # <<>> /\ end = 0 -> BadSpec("unterminated")
          [] rest # <<>> /\ end # 0 ->
               IF next.err # "" \/ end > Len(rest) THEN next
               ELSE IF end = Len(rest) THEN BadSpec("empty entry")
               ELSE ParseEntries(After(rest, end), next)

ParseTag(tag) == IF "bad" \in ToSet(tag) THEN BadSpec("utf8") ELSE ParseEntries(tag, NoSpec)

(***************************************************************************)
(* planField: the question one field asks, or why the type is refused.     *)
(***************************************************************************)
Underlying(t) == IF t.k = "named" THEN Named[t.n] ELSE t
AnswerKind(t) == IF t.k = "answer" THEN t.a ELSE "unknown"

RECURSIVE Deref(_, _)
Deref(t, n) == IF n = 0 \/ Underlying(t).k # "ptr" THEN t ELSE Deref(Underlying(t).elem, n - 1)
DerefAll(t) == Deref(t, MaxDeref)

\* taggedPath: whether a field below t has a decision key, and the struct
\* types searched so far, each searched once.
RECURSIVE TaggedPath(_, _)
TaggedPath(type, seen) ==
    LET t  == DerefAll(type)
        fs == Underlying(t).fields
        visit(acc, f) ==
            IF acc.tagged THEN acc
            ELSE IF HasKey(f.tag) THEN [acc EXCEPT !.tagged = TRUE]
            ELSE TaggedPath(f.type, acc.seen)
    IN  IF Underlying(t).k # "struct" \/ t \in seen THEN [tagged |-> FALSE, seen |-> seen]
        ELSE FoldLeft(visit, [tagged |-> FALSE, seen |-> seen \cup {t}], fs)

KeyOutside(spec, kind) ==
    spec.keys \cap (CASE kind = "noul" -> {"options", "levels"}
                      [] kind = "choice" -> {"yes", "no", "levels"}
                      [] OTHER -> {"yes", "no", "options"}) # {}

Reserved == {<<"type">>, <<"model">>, <<"usage">>, <<"answers">>}

Asks(q, kind, optional) == [err |-> "", asks |-> TRUE, q |-> q, kind |-> kind, optional |-> optional]
AsksNone    == [err |-> "", asks |-> FALSE]
RefusedField(why) == [err |-> why, asks |-> FALSE]

OptionalText(spec, key) == IF key \in DOMAIN spec.text THEN Text(spec.text[key]) ELSE Unset

\* The question of a tag that has passed the checks above it.
FieldQuestion(spec, kind, name) ==
    LET instr  == OptionalText(spec, "instructions")
        labels == [i \in DOMAIN spec.options |-> spec.options[i].label]
        option(o) == [label |-> o.label, desc |-> IF o.desc = <<>> THEN Unset ELSE Text(o.desc)]
        asks(q) == Asks(q, kind, "optional" \in spec.keys)
    IN  CASE kind = "noul" ->
               asks([form |-> "noul", name |-> name, instr |-> instr, yes |-> OptionalText(spec, "yes"),
                     no |-> OptionalText(spec, "no")])
          [] kind = "choice" ->
               IF spec.options = <<>> THEN RefusedField("no options")
               ELSE IF FirstRepeat(labels) > 0 THEN RefusedField("label twice")
               ELSE asks([form |-> "choice", name |-> name, instr |-> instr,
                          options |-> [i \in DOMAIN labels |-> option(spec.options[i])]])
          [] kind = "score" ->
               IF spec.levels = <<>> THEN RefusedField("no levels")
               ELSE IF FirstRepeat(spec.levels) > 0 THEN RefusedField("level twice")
               ELSE asks([form |-> "score", name |-> name, instr |-> instr,
                          levels |-> [i \in DOMAIN spec.levels |-> Text(spec.levels[i])]])

\* A tagged answer field.
PlanTagged(f, spec, kind) ==
    LET name == IF "name" \in DOMAIN spec.text THEN spec.text["name"] ELSE f.name
        tagKind == ParseKind(spec.text["kind"])
    IN  CASE "kind" \notin DOMAIN spec.text -> RefusedField("no kind")
          [] "kind" \in DOMAIN spec.text /\ tagKind # kind -> RefusedField("kind")
          [] OTHER -> IF KeyOutside(spec, kind) THEN RefusedField("key outside")
                      ELSE IF name \in Reserved THEN RefusedField("reserved")
                      ELSE FieldQuestion(spec, kind, name)

PlanField(f) ==
    LET look == Lookup0(f.tag)
        has  == HasKey(f.tag)
        kind == AnswerKind(f.type)
        pointsTo == AnswerKind(DerefAll(f.type))
        pointer  == Underlying(f.type).k = "ptr" /\ pointsTo # "unknown"
        spec == ParseTag(look.value)
    IN  IF ~has /\ pointsTo = "unknown" /\ TaggedPath(f.type, {}).tagged THEN RefusedField("nested")
        ELSE IF ~f.exported THEN IF has THEN RefusedField("unexported") ELSE AsksNone
        ELSE IF look.problem # "" THEN RefusedField(look.problem)
        ELSE IF ~look.ok
        THEN IF kind # "unknown" THEN RefusedField("untagged")
             ELSE IF pointer THEN RefusedField("pointer") ELSE AsksNone
        ELSE IF spec.err # "" THEN RefusedField(spec.err)
        ELSE IF pointer THEN RefusedField("pointer")
        ELSE IF kind = "unknown" THEN RefusedField("not an answer")
        ELSE PlanTagged(f, spec, kind)

(***************************************************************************)
(* buildPlan.  A field's place in its struct is counted in cells; choice   *)
(* and score answers are of the same size.                                 *)
(***************************************************************************)
SizeOf(t) == CASE AnswerKind(t) = "noul" -> 2 [] AnswerKind(t) \in {"choice", "score"} -> 3 [] OTHER -> 1
OffsetOf(fs, i) == FoldSeq(LAMBDA f, n : n + SizeOf(f.type), 0, SubSeq(fs, 1, i - 1))
StructSize(fs)  == OffsetOf(fs, Len(fs) + 1)

RefusedPlan(why, at) == [err |-> why, at |-> at, fields |-> <<>>, prepared |-> NoPrepared]

\* earlierField: the fields that ask are scanned, or past RepeatScanLimit
\* looked up in a map of them.
EarlierSkipped(fields, name) ==  \* mutant: the field that fills the map is not put in it
    \E j \in DOMAIN fields : fields[j].name = name /\ j # RepeatScanLimit + 1
EarlierField(fields, name) ==
    IF Len(fields) > RepeatScanLimit
    THEN name \in {fields[j].name : j \in DOMAIN fields}
    ELSE \E j \in DOMAIN fields : fields[j].name = name

\* The plan so far with field i, which asks p.
AddField(t, acc, i, p) ==
    LET off == OffsetOf(t.fields, i) IN
    IF p.err # "" THEN [acc EXCEPT !.plan = RefusedPlan(p.err, i)]
    ELSE IF ~p.asks THEN acc
    ELSE IF EarlierField(acc.plan.fields, p.q.name) THEN [acc EXCEPT !.plan = RefusedPlan("repeat", i)]
    ELSE [qs |-> Append(acc.qs, p.q),
          plan |-> [acc.plan EXCEPT !.fields =
                      Append(@, [index |-> i, offset |-> off, end |-> off + SizeOf(t.fields[i].type),
                                 name |-> p.q.name, kind |-> p.kind, optional |-> p.optional])]]
PlanStep(t, acc, i) ==
    IF acc.plan.err # "" THEN acc ELSE AddField(t, acc, i, PlanField(t.fields[i]))

\* checkPlanLayout: the plan records what reflect gives each field.
LayoutOK(t, fields) ==
    \A j \in DOMAIN fields :
        LET f == fields[j] IN
        /\ f.index \in DOMAIN t.fields
        /\ f.offset = OffsetOf(t.fields, f.index)
        /\ f.end = f.offset + SizeOf(t.fields[f.index].type)
        /\ AnswerKind(t.fields[f.index].type) = f.kind

\* The plan whose fields read as plan, once Prepare has given p for its questions.
WithPrepared(t, plan, p) ==
    LET tables(j) == [options |-> Cells(p.set.labels, p.set.entries[j].options),
                      levels |-> Cells(p.set.levels, p.set.entries[j].levels)]
    IN  IF plan.err # "" THEN plan
        ELSE IF ~LayoutOK(t, plan.fields) THEN RefusedPlan("panic", 0)
        ELSE IF p.err # NoError THEN RefusedPlan(p.err.kind, 0)
        ELSE [plan EXCEPT !.prepared = p.set,
                          !.fields = [j \in DOMAIN @ |-> @[j] @@ tables(j)]]
PreparePlan(t, read) == WithPrepared(t, read.plan, PrepareAll(read.qs, Mem0))

BuildPlan(type) ==
    LET t     == Underlying(type)
        start == [qs |-> <<>>, plan |-> RefusedPlan("", 0)]
    IN  IF t.k # "struct" THEN RefusedPlan("not a struct", 0)
        ELSE PreparePlan(t, FoldLeftDomain(LAMBDA acc, i : PlanStep(t, acc, i), start, t.fields))

(***************************************************************************)
(* decode.  A response is a function from names to answers: [kind, id],    *)
(* with the pick and the labels of a choice's probabilities, or the levels *)
(* of a score's legend and probabilities.  A T is a sequence of cells; an  *)
(* answer fills those of its field.                                        *)
(***************************************************************************)
Zero(size) == [i \in 1..size |-> <<"zero", 0>>]

UndeclaredOption(a, options) ==
    LET bad == SelectInSeq(a.labels, LAMBDA l : l \notin ToSet(options))
    IN  CASE a.pick \notin ToSet(options) -> <<"choice">>
          [] a.pick \in ToSet(options) /\ bad > 0 -> <<"probabilities", Sym(a.labels[bad])>>
          [] OTHER -> <<>>

UndeclaredPast(a, levels) ==  \* mutant: the level just past the last is let through
    LET legend == SelectInSeq(a.legend, LAMBDA l : l > levels)
    IN  IF legend > 0 THEN <<"legend", ToString(a.legend[legend])>> ELSE <<>>
UndeclaredLevel(a, levels) ==
    LET legend == SelectInSeq(a.legend, LAMBDA l : l >= levels)
        prob   == SelectInSeq(a.probs, LAMBDA l : l >= levels)
    IN  CASE legend > 0 -> <<"legend", ToString(a.legend[legend])>>
          [] legend = 0 /\ prob > 0 -> <<"probabilities", ToString(a.probs[prob])>>
          [] OTHER -> <<>>

\* storeAnswer: a write that does not cover exactly the recorded cells inside
\* the struct panics.
StoreAnswer(s, f, a, size) ==
    LET n == SizeOf([k |-> "answer", a |-> a.kind]) IN
    IF f.offset > size \/ f.offset + n # f.end \/ f.end > size
    THEN [s EXCEPT !.err = "panic"]
    ELSE [s EXCEPT !.t = [i \in DOMAIN @ |-> IF i - f.offset \in 1..n THEN <<a.id, i - f.offset>> ELSE @[i]]]

DecodeField(s, f, resp, size) ==
    LET a   == resp[f.name]
        at  == CASE a.kind = "choice" -> UndeclaredOption(a, f.options)
                 [] a.kind = "score"  -> UndeclaredLevel(a, Len(f.levels))
                 [] OTHER -> <<>>
        fail(path) == [s EXCEPT !.err = "validation", !.path = <<Sym(f.name)>> \o path]
    IN  IF s.err # "" THEN s
        ELSE IF f.name \notin DOMAIN resp THEN IF f.optional THEN s ELSE fail(<<>>)
        ELSE IF a.kind # f.kind THEN fail(<<"type">>)
        ELSE IF at # <<>> THEN fail(at)
        ELSE StoreAnswer(s, f, a, size)

\* decodeTyped: on failure the zero T.
DecodeTyped(type, plan, resp) ==
    LET size == IF Underlying(type).k = "struct" THEN StructSize(Underlying(type).fields) ELSE 0
        s    == FoldLeft(LAMBDA acc, f : DecodeField(acc, f, resp, size),
                         [t |-> Zero(size), err |-> "", path |-> <<>>], plan.fields)
    IN  IF plan.err # "" THEN [t |-> Zero(size), err |-> "config", path |-> <<>>]
        ELSE IF s.err # "" THEN [s EXCEPT !.t = Zero(size)]
        ELSE s

-----------------------------------------------------------------------------
(***************************************************************************)
(* Goroutines that ask for plans and decode by them.                       *)
(***************************************************************************)
VARIABLES
    tscene,    \* the scenario the goroutines follow
    ttypes,    \* the types they ask about
    results    \* the last decode of each goroutine

typedVars == <<tscene, ttypes, cacheVars, results>>

NoResult == [type |-> [k |-> "basic"], plan |-> RefusedPlan("none", 0), resp |-> <<>>,
             out |-> [t |-> <<>>, err |-> "none", path |-> <<>>]]

Follows == TypedScenes[tscene]

TypedInit ==
    /\ tscene \in DOMAIN TypedScenes
    /\ ttypes \in IF Follows.together THEN {Follows.types} ELSE {{t} : t \in Follows.types}
    /\ CacheInit
    /\ results = [g \in Goroutines |-> NoResult]

\* planFor, which decodes nothing.
Plans(g) ==
    /\ \/ calls[g] < Follows.most /\ \E t \in ttypes : Load(g, t)
       \/ Build(g)
       \/ LoadOrStore(g)
    /\ UNCHANGED <<tscene, ttypes, results>>

\* DecodeAs, and Ask once its call has a response, decode it by the plan.
Decodes(g, resp) ==
    /\ Use(g)
    /\ \E p \in {BuildPlan(chosen[g].of)} :
         results' = [results EXCEPT ![g] = [type |-> wants[g], plan |-> p, resp |-> resp,
                                            out |-> DecodeTyped(wants[g], p, resp)]]
    /\ UNCHANGED <<tscene, ttypes>>

TypedNext ==
    \E g \in Follows.callers :
        \/ Plans(g)
        \/ \E resp \in Follows.responses : Decodes(g, resp)
=============================================================================
