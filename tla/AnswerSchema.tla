---------------------------- MODULE AnswerSchema ----------------------------
(***************************************************************************)
(* The Adapter's question and answer schema: the questions of a request    *)
(* (adapter/internal/schema/question.go), the schema the model is given    *)
(* (schema.go), the token reader and the checker of what the model returns *)
(* (validate.go over jsonx.Tokens), and the conversion of a valid answer   *)
(* into the reply's distributions (evaluate.go's convert over              *)
(* adapter/internal/prob).                                                 *)
(*                                                                         *)
(* The reader never builds a tree: it keeps, for each object the schema    *)
(* knows, the last value of each field and the names that are none, and    *)
(* reads everything else to its end.  One step reads one token.            *)
(*                                                                         *)
(* Abstractions: a probability is an integer number of Units, and the      *)
(* arithmetic on it is exact (the code's is CPython's, bit for bit); the   *)
(* order of a schema's keywords and the wording of its descriptions are    *)
(* left out, but a description keeps which texts it holds.                 *)
(***************************************************************************)
EXTENDS JSONText

CONSTANTS
    Calls,          \* what may be asked: [questions, mode, normalize, family]
    Outputs,        \* what the model may return, by the call's family: [tree, damage, text]
    Numbers,        \* the number literals: [int, long, val]
    Unit,           \* the value of probability 1
    Tolerance,      \* how far from Unit the sum of a valid distribution may be
    MaxEnclosing,   \* how many arrays and objects a value of an answer may have around it
    MaxValueDepth   \* the deepest value that is written into a prompt

ASSUME SchemaNumbers == \A n \in DOMAIN Numbers : Numbers[n] \in [int : BOOLEAN, long : BOOLEAN, val : Int]
ASSUME SchemaBounds  == {Unit, Tolerance, MaxEnclosing, MaxValueDepth} \subseteq Nat

False == [k |-> "bool", v |-> "false"]

\* A token the JSON library refuses wherever it stands, such as NaN.
Bad == [k |-> "bad", v |-> ""]

-----------------------------------------------------------------------------
(* The questions of a request.                                             *)

\* A repeated name keeps its first position and takes the later value.
Insert(ms, p) ==
    LET i == SelectInSeq(ms, LAMBDA q : q.key = p.key)
    IN  IF i = 0 THEN Append(ms, p) ELSE [ms EXCEPT ![i] = p]

RECURSIVE ReadNode(_)
ReadNode(x) ==
    CASE IsObj(x) -> Obj(FoldLeft(LAMBDA ms, p : Insert(ms, Mem(p.key, ReadNode(p.val))), <<>>, x.m))
      [] IsArr(x) -> Arr([i \in DOMAIN x.e |-> ReadNode(x.e[i])])
      [] OTHER    -> x

\* The value of the member called key; a missing one is the zero Node, null.
Member(x, key) == IF HasMember(x, key) THEN LastOf(x, key) ELSE Null

RECURSIVE Depth(_)
Depth(x) ==
    LET inner == CASE IsObj(x) -> {Depth(x.m[i].val) : i \in DOMAIN x.m}
                   [] IsArr(x) -> {Depth(x.e[i]) : i \in DOMAIN x.e}
                   [] OTHER    -> {}
    IN  1 + Max(inner \cup {0})

QIssue(loc, msg) == [loc |-> loc, msg |-> msg]
When(c, issue) == IF c THEN <<issue>> ELSE <<>>

\* What promptText refuses: anything but a string, an object or an array that
\* can be written, and null where the type allows it.
ContentIssues(x, nullable, loc) ==
    IF IsObj(x) \/ IsArr(x) THEN When(Depth(x) > MaxValueDepth, QIssue(loc, "tooDeep"))
    ELSE When(~IsStr(x) /\ ~(nullable /\ x = Null), QIssue(loc, "notContent"))

NoulCriteriaIssues(x, loc) ==
    IF x = Null THEN <<>>
    ELSE IF ~IsObj(x) THEN <<QIssue(loc, "notNoulCriteria")>>
    ELSE FlattenSeq([i \in DOMAIN x.m |->
            IF x.m[i].key \in {"true", "false"}
            THEN ContentIssues(x.m[i].val, TRUE, Append(loc, x.m[i].key))
            ELSE <<QIssue(Append(loc, x.m[i].key), "noSuchMember")>>])

ChoiceCriteriaIssues(x, loc) ==
    IF ~IsObj(x) THEN <<QIssue(loc, "notObject")>>
    ELSE FlattenSeq([i \in DOMAIN x.m |-> ContentIssues(x.m[i].val, TRUE, Append(loc, x.m[i].key))])

\* Variant: a level without a criterion passes.
ScoreCriteriaNullable(x, loc) ==
    IF ~IsArr(x) THEN <<QIssue(loc, "notArray")>>
    ELSE FlattenSeq([i \in DOMAIN x.e |-> ContentIssues(x.e[i], TRUE, Append(loc, ToString(i - 1)))])

ScoreCriteriaIssues(x, loc) ==
    IF ~IsArr(x) THEN <<QIssue(loc, "notArray")>>
    ELSE FlattenSeq([i \in DOMAIN x.e |-> ContentIssues(x.e[i], FALSE, Append(loc, ToString(i - 1)))])

CriteriaIssues(kind, x, loc) ==
    CASE kind = "noul" -> NoulCriteriaIssues(Member(x, "criteria"), loc)
      [] ~HasMember(x, "criteria") -> <<QIssue(loc, "required")>>
      [] kind = "choice" -> ChoiceCriteriaIssues(Member(x, "criteria"), loc)
      [] OTHER -> ScoreCriteriaIssues(Member(x, "criteria"), loc)

Kinds == {"noul", "choice", "score"}

QuestionIssues(id, x) ==
    CASE ~IsObj(x) -> <<QIssue(<<id>>, "notObject")>>
      [] ~HasMember(x, "type") -> <<QIssue(<<id>>, "required")>>
      [] x.k = "{" /\ ~(IsStr(Member(x, "type")) /\ Member(x, "type").v \in Kinds) ->
            <<QIssue(<<id, "type">>, "notKind")>>
      [] OTHER ->
            FlattenSeq([i \in DOMAIN x.m |->
                When(x.m[i].key \notin {"type", "instructions", "criteria"},
                     QIssue(<<id, x.m[i].key>>, "noSuchMember"))])
            \o ContentIssues(Member(x, "instructions"), TRUE, <<id, "instructions">>)
            \o CriteriaIssues(Member(x, "type").v, x, <<id, "criteria">>)

\* A question as its parser holds it; texts are the prompt texts of its
\* criteria, one per label, or those of true and false.
Question(id, x) ==
    LET kind == Member(x, "type").v
        c    == Member(x, "criteria")
    IN  [id |-> id, kind |-> kind, instructions |-> Member(x, "instructions"),
         labels |-> CASE kind = "noul"   -> <<>>
                      [] kind = "choice" -> [i \in DOMAIN c.m |-> c.m[i].key]
                      [] kind = "score"  -> [i \in DOMAIN c.e |-> ToString(i - 1)],
         texts  |-> CASE kind = "noul"   -> IF c = Null THEN <<>> ELSE <<Member(c, "true"), Member(c, "false")>>
                      [] kind = "choice" -> [i \in DOMAIN c.m |-> c.m[i].val]
                      [] kind = "score"  -> c.e]

Refusal(msg, issues) == [msg |-> msg, issues |-> issues, questions |-> <<>>]

MinCriteria == 2

\* The shapes of all questions are looked at before the number of criteria of
\* any; the first question with too few is the one that is named.
ParseQuestions(x) ==
    LET issues == FlattenSeq([i \in DOMAIN x.m |-> QuestionIssues(x.m[i].key, x.m[i].val)])
        qs     == [i \in DOMAIN x.m |-> Question(x.m[i].key, x.m[i].val)]
        few    == SelectInSeq(qs, LAMBDA q : q.kind # "noul" /\ Len(q.labels) < MinCriteria)
    IN  IF x.m = <<>> THEN Refusal("noQuestions", <<>>)
        ELSE IF issues # <<>> THEN Refusal("shape", issues)
        ELSE IF few # 0 THEN Refusal("fewCriteria", <<QIssue(<<qs[few].id, "criteria">>, "fewCriteria")>>)
        ELSE [Refusal("", <<>>) EXCEPT !.questions = qs]

-----------------------------------------------------------------------------
(* The schema the model is given.                                          *)

NoDescription == [of |-> Null, criteria |-> <<>>]
Node(type) == [type |-> type, ref |-> "", closed |-> FALSE, enum |-> <<>>, properties |-> <<>>,
               description |-> NoDescription]
Ref(n) == [Node("") EXCEPT !.ref = n]
Property(n, node) == [name |-> n, node |-> node]

\* Variant: a level is any number.
AnswerTypeNumber(q, mode) ==
    CASE q.kind = "noul" /\ mode = "discrete" -> Node("boolean")
      [] q.kind = "choice" -> [Node("string") EXCEPT !.enum = q.labels]
      [] OTHER             -> Node("number")

AnswerType(q, mode) ==
    CASE q.kind = "noul" /\ mode = "discrete" -> Node("boolean")
      [] q.kind = "noul"  -> Node("number")
      [] q.kind = "score" -> Node("integer")
      [] OTHER            -> [Node("string") EXCEPT !.enum = q.labels]

FieldDescription(q) == [of |-> q.instructions, criteria |-> q.texts]

ProbabilityMap(q) ==
    [Node("object") EXCEPT !.closed = TRUE, !.description.of = q.instructions,
        !.properties = [j \in DOMAIN q.labels |->
            Property(q.labels[j], [Node("number") EXCEPT !.description.of = q.texts[j]])]]

\* The root, the answers model and the probability maps; node references name
\* a member of defs.
RootNode(qs, mode) ==
    LET mapped  == {i \in DOMAIN qs : mode = "probabilities" /\ qs[i].kind # "noul"}
        mapName(i) == "ProbabilityMap" \o ToString(i - 1)
        answers == [Node("object") EXCEPT !.closed = TRUE, !.properties = [i \in DOMAIN qs |->
                        Property(qs[i].id,
                            IF i \in mapped THEN Ref(mapName(i))
                            ELSE [AnswerType(qs[i], mode) EXCEPT !.description = FieldDescription(qs[i])])]]
        defs    == {[name |-> mapName(i), node |-> ProbabilityMap(qs[i])] : i \in mapped}
                   \cup {[name |-> "TypeSafeAnswers", node |-> answers]}
    IN  [defs |-> defs,
         root |-> [Node("object") EXCEPT !.closed = TRUE,
                       !.properties = <<Property("answers", Ref("TypeSafeAnswers"))>>]]

-----------------------------------------------------------------------------
(* What the model returns, before it is read.  A text is a sequence of raw *)
(* tokens, in which a member name is a string like any other; around it    *)
(* stand white space and the fence of a code block.                        *)

Space == [k |-> "space", v |-> ""]
Fence == [k |-> "fence", v |-> ""]
Word  == [k |-> "word", v |-> "json"]

Raw(ts) == [i \in DOMAIN ts |-> IF ts[i].k = "key" THEN Str(ts[i].v) ELSE ts[i]]

TrimLeft(s)  == IF s # <<>> /\ Head(s) = Space THEN Tail(s) ELSE s
TrimRight(s) == IF s # <<>> /\ Last(s) = Space THEN Front(s) ELSE s
TrimSpace(s) == TrimRight(TrimLeft(s))

\* The text without white space around it and, when it starts with a fence,
\* without that, the language after it and the fence at its end.
ExtractJSON(text) ==
    LET s      == TrimSpace(text)
        rest   == Tail(s)
        inner  == TrimSpace(IF rest # <<>> /\ Head(rest) = Word THEN Tail(rest) ELSE rest)
        closed == inner # <<>> /\ Last(inner) = Fence
    IN  IF s = <<>> \/ Head(s) # Fence THEN s
        ELSE IF closed THEN TrimSpace(Front(inner)) ELSE inner

-----------------------------------------------------------------------------
(* The levels of an answer: the top one, the answers, and in probabilities *)
(* mode one per Choice or Score question.                                  *)

Top     == [of |-> "top", q |-> 0]
Answers == [of |-> "answers", q |-> 0]
MapOf(i) == [of |-> "map", q |-> i]
NoLevel == [of |-> "none", q |-> 0]

Fields(s, lv) ==
    CASE lv.of = "top"     -> <<"answers">>
      [] lv.of = "answers" -> [i \in DOMAIN s.questions |-> s.questions[i].id]
      [] lv.of = "map"     -> s.questions[lv.q].labels

Child(s, lv, i) ==
    CASE lv.of = "top" -> Answers
      [] lv.of = "answers" /\ s.mode = "probabilities" /\ s.questions[i].kind # "noul" -> MapOf(i)
      [] OTHER -> NoLevel

\* The index of a name among a level's fields; 0 when it is none.
Index(s, lv, n) == SelectInSeq(Fields(s, lv), LAMBDA f : f = n)

\* The names a generated model gives its fields, which are neither read nor
\* refused when they are not fields themselves; the top level has none.
Ignored(s, lv, n) ==
    /\ lv.of # "top"
    /\ \E i \in DOMAIN Fields(s, lv) :
        n = (IF lv.of = "answers" THEN "answer_" ELSE "probability_") \o ToString(i - 1)

-----------------------------------------------------------------------------
VARIABLES
    phase,     \* where the call is
    call,      \* what was asked
    spec,      \* the parsed questions, the mode and the schema
    output,    \* what the model returned
    toks,      \* its text without white space and fence
    at,        \* the tokens read
    open,      \* jsonx.Tokens: for each open container, whether it is an object
    name,      \* jsonx.Tokens: the next token of the innermost object is a name
    frames,    \* reader: the objects being read against a level, outermost first
    skipping,  \* reader: the depth of the container that is read to its end, or NotSkipping
    root,      \* reader: the slot of the top-level value
    result     \* what Validate returned, or the reply

read == <<at, open, name, frames, skipping, root>>
vars == <<phase, call, spec, output, toks, at, open, name, frames, skipping, root, result>>

NotSkipping == -1
NoObject == [slots |-> <<>>, unknown |-> <<>>]
NoSlot   == [present |-> FALSE, tok |-> Null, object |-> NoObject]
Slot(tok) == [NoSlot EXCEPT !.present = TRUE, !.tok = tok]

\* An object being read: against which level, the name whose value comes next
\* (NoName before a name), and what is kept of it.
NoName == <<>>
Frame(s, lv, tok) == [lv |-> lv, name |-> NoName, tok |-> tok,
                      object |-> [slots |-> [i \in DOMAIN Fields(s, lv) |-> NoSlot], unknown |-> <<>>]]

NoCall   == [questions |-> Null, mode |-> "", normalize |-> FALSE, family |-> ""]
NoSpec   == [questions |-> <<>>, mode |-> "", schema |-> <<>>]
NoOutput == [tree |-> Null, damage |-> "none", text |-> <<>>]
NoResult == [issues |-> <<>>, answers |-> <<>>, debug |-> <<>>]

Init ==
    /\ phase = "idle" /\ call = NoCall /\ spec = NoSpec /\ output = NoOutput /\ toks = <<>>
    /\ at = 0 /\ open = <<>> /\ name = FALSE /\ frames = <<>> /\ skipping = NotSkipping
    /\ root = NoSlot /\ result = NoResult

\* parseRequest, ParseQuestions and Build: the call is refused or the model is asked.
Ask(c) ==
    LET p == ParseQuestions(ReadNode(c.questions)) IN
    /\ phase = "idle"
    /\ call' = c
    /\ phase' = IF p.msg = "" THEN "asked" ELSE "refused"
    /\ spec' = IF p.msg = "" THEN [questions |-> p.questions, mode |-> c.mode,
                                   schema |-> RootNode(p.questions, c.mode)]
               ELSE NoSpec
    /\ result' = [NoResult EXCEPT !.issues = IF p.msg = "" THEN <<>> ELSE <<p.msg, p.issues>>]
    /\ UNCHANGED <<output, toks, read>>

\* The provider answers; decode takes the JSON out of its text.
Return ==
    /\ phase = "asked"
    /\ phase' = "reading"
    /\ \E o \in Outputs[call.family] : output' = o /\ toks' = ExtractJSON(o.text)
    /\ UNCHANGED <<call, spec, read, result>>

-----------------------------------------------------------------------------
(* Reading: jsonx.Tokens gives the next token, the reader takes it.        *)

Opens(t)  == t.k \in {"{", "["}
Closes(t) == t.k \in {"}", "]"}

\* The JSON library's syntax: an object's members are pairs, a container is
\* closed by its own bracket, and one value is all there is.
Syntax(t) ==
    /\ t.k \notin {"bad", "unclosed", "space", "fence", "word"}
    /\ name => t.k \in {"str", "}"}
    /\ Closes(t) => open # <<>> /\ Last(open) = (t.k = "}") /\ (t.k = "}" => name)

\* jsonx.Token.Depth: a container's own brackets do not count it.
DepthOf(t) == Len(open) - (IF Closes(t) THEN 1 ELSE 0)
IsName(t)  == name /\ t.k = "str"

\* The two limits of the parser, on every value and also on those nobody reads.
WithinLimits(t) ==
    IsName(t) \/ Closes(t)
    \/ /\ t.k = "num" => ~Numbers[t.v].long
       /\ DepthOf(t) <= MaxEnclosing

Done == at > 0 /\ open = <<>>

\* What Tokens remembers after a token: the open containers, and whether the
\* innermost one now expects a name.
NextOpen(t) == IF Opens(t) THEN Append(open, t.k = "{") ELSE IF Closes(t) THEN Front(open) ELSE open
NextName(t) ==
    IF IsName(t) THEN FALSE ELSE NextOpen(t) # <<>> /\ Last(NextOpen(t))

\* Variant: the first value of a repeated name stays.
StoreFirst(fs, slot) ==
    LET f == Last(fs)
        i == Index(spec, f.lv, f.name[1])
        g == [f EXCEPT !.name = NoName]
    IN  IF i # 0 /\ f.object.slots[i].present THEN Append(Front(fs), g)
        ELSE IF i # 0 THEN Append(Front(fs), [g EXCEPT !.object.slots[i] = slot])
        ELSE IF Ignored(spec, f.lv, f.name[1]) THEN Append(Front(fs), g)
        ELSE Append(Front(fs), [g EXCEPT !.object.unknown = Append(@, f.name[1])])

\* A value has ended: it is the root's, or the member's of the innermost frame.
Store(fs, slot) ==
    LET f == Last(fs)
        i == Index(spec, f.lv, f.name[1])
        g == [f EXCEPT !.name = NoName]
    IN  IF i # 0 THEN Append(Front(fs), [g EXCEPT !.object.slots[i] = slot])
        ELSE IF Ignored(spec, f.lv, f.name[1]) THEN Append(Front(fs), g)
        ELSE Append(Front(fs), [g EXCEPT !.object.unknown = Append(@, f.name[1])])

Stored(fs, slot) ==
    IF fs = <<>> THEN root' = slot /\ frames' = <<>>
    ELSE root' = root /\ frames' = Store(fs, slot)

\* The level of the value that comes next, if the schema has one for it.
LevelHere ==
    IF frames = <<>> THEN Top
    ELSE LET f == Last(frames)
             i == Index(spec, f.lv, f.name[1])
         IN  IF i = 0 THEN NoLevel ELSE Child(spec, f.lv, i)

\* reader.value and reader.object, one token at a time.
Take(t) ==
    CASE skipping # NotSkipping ->
            IF Closes(t) /\ DepthOf(t) = skipping
            THEN /\ skipping' = NotSkipping
                 /\ Stored(frames, Slot([k |-> IF t.k = "}" THEN "{" ELSE "[", v |-> ""]))
            ELSE UNCHANGED <<frames, skipping, root>>
      [] IsName(t) ->
            /\ frames' = Append(Front(frames), [Last(frames) EXCEPT !.name = <<t.v>>])
            /\ UNCHANGED <<skipping, root>>
      [] t.k = "}" ->
            /\ Stored(Front(frames), [Slot(Last(frames).tok) EXCEPT !.object = Last(frames).object])
            /\ UNCHANGED skipping
      [] t.k = "{" /\ LevelHere # NoLevel ->
            /\ frames' = Append(frames, Frame(spec, LevelHere, t))
            /\ UNCHANGED <<skipping, root>>
      [] Opens(t) /\ ~(t.k = "{" /\ LevelHere # NoLevel) ->
            /\ skipping' = DepthOf(t)
            /\ UNCHANGED <<frames, root>>
      [] OTHER -> Stored(frames, Slot(t)) /\ UNCHANGED skipping

NotJSON ==
    /\ phase' = "malformed"
    /\ result' = [NoResult EXCEPT !.issues = <<[type |-> "json_invalid", loc |-> <<>>]>>]
    /\ UNCHANGED <<call, spec, output, toks, read>>

ReadToken ==
    /\ phase = "reading" /\ ~Done /\ at < Len(toks)
    /\ LET t == toks[at + 1] IN
        /\ Syntax(t) /\ WithinLimits(t)
        /\ at' = at + 1 /\ open' = NextOpen(t) /\ name' = NextName(t)
        /\ Take(t)
    /\ UNCHANGED <<phase, call, spec, output, toks, result>>

\* The text ends before its value, holds what is not JSON or goes past a
\* limit, or goes on after its value.
ReadFails ==
    /\ phase = "reading"
    /\ IF Done THEN at < Len(toks)
       ELSE at < Len(toks) => ~(Syntax(toks[at + 1]) /\ WithinLimits(toks[at + 1]))
    /\ NotJSON

-----------------------------------------------------------------------------
(* Checking what the reader kept.                                          *)

Issue(type, loc) == [type |-> type, loc |-> loc]
IsObject(slot) == slot.object # NoObject

ZeroAnswer(q) == [bool |-> FALSE, probability |-> 0, level |-> 0, label |-> "",
                  probabilities |-> [j \in DOMAIN q.labels |-> 0]]

\* checker.members: a value that is no object, or its unknown members.
MemberIssues(slot, loc) ==
    IF ~IsObject(slot) THEN <<Issue("model_type", loc)>>
    ELSE [n \in DOMAIN slot.object.unknown |-> Issue("extra_forbidden", Append(loc, slot.object.unknown[n]))]

ProbabilityIssues(slot, loc) ==
    IF ~slot.present THEN <<Issue("missing", loc)>>
    ELSE IF slot.tok.k # "num" THEN <<Issue("float_type", loc)>>
    ELSE When(Numbers[slot.tok.v].val < 0, Issue("greater_than_equal", loc))
         \o When(Numbers[slot.tok.v].val > Unit, Issue("less_than_equal", loc))

\* A level is an integer literal from 0 to one less than the number of criteria.
LevelIssues(slot, n, loc) ==
    IF slot.tok.k # "num" \/ ~Numbers[slot.tok.v].int THEN <<Issue("int_type", loc)>>
    ELSE When(Numbers[slot.tok.v].val < 0, Issue("greater_than_equal", loc))
         \o When(Numbers[slot.tok.v].val >= n * Unit, Issue("less_than", loc))

AnswerIssues(q, mode, slot, loc) ==
    CASE ~slot.present -> <<Issue("missing", loc)>>
      [] slot.present /\ mode = "probabilities" ->
            IF q.kind = "noul" THEN ProbabilityIssues(slot, loc)
            ELSE MemberIssues(slot, loc)
                 \o (IF ~IsObject(slot) THEN <<>>
                     ELSE FlattenSeq([j \in DOMAIN q.labels |->
                            ProbabilityIssues(slot.object.slots[j], Append(loc, q.labels[j]))]))
      [] OTHER ->
            CASE q.kind = "noul"  -> When(slot.tok.k # "bool", Issue("bool_type", loc))
              [] q.kind = "score" -> LevelIssues(slot, Len(q.labels), loc)
              [] OTHER -> When(~(slot.tok.k = "str" /\ slot.tok.v \in ToSet(q.labels)),
                               Issue("literal_error", loc))

DocumentIssues(slot) ==
    LET answers == slot.object.slots[1] IN
    MemberIssues(slot, <<>>)
    \o (IF ~IsObject(slot) THEN <<>>
        ELSE IF ~answers.present THEN <<Issue("missing", <<"answers">>)>>
        ELSE MemberIssues(answers, <<"answers">>)
             \o (IF ~IsObject(answers) THEN <<>>
                 ELSE FlattenSeq([i \in DOMAIN spec.questions |->
                        AnswerIssues(spec.questions[i], spec.mode, answers.object.slots[i],
                                     <<"answers", spec.questions[i].id>>)])))

ValidatedAnswer(q, mode, slot) ==
    CASE mode = "probabilities" /\ q.kind = "noul" ->
            [ZeroAnswer(q) EXCEPT !.probability = Numbers[slot.tok.v].val]
      [] mode = "probabilities" /\ q.kind # "noul" ->
            [ZeroAnswer(q) EXCEPT !.probabilities =
                [j \in DOMAIN q.labels |-> Numbers[slot.object.slots[j].tok.v].val]]
      [] OTHER ->
            CASE q.kind = "noul"  -> [ZeroAnswer(q) EXCEPT !.bool = slot.tok.v = "true"]
              [] q.kind = "score" -> [ZeroAnswer(q) EXCEPT !.level = Numbers[slot.tok.v].val \div Unit]
              [] OTHER            -> [ZeroAnswer(q) EXCEPT !.label = slot.tok.v]

\* The text has ended with its value: Validate returns every fault, or the answers.
Validate ==
    LET issues == DocumentIssues(root) IN
    /\ phase = "reading" /\ Done /\ at = Len(toks)
    /\ phase' = IF issues = <<>> THEN "valid" ELSE "malformed"
    /\ result' = [NoResult EXCEPT
            !.issues = issues,
            !.answers = IF issues # <<>> THEN <<>>
                        ELSE [i \in DOMAIN spec.questions |->
                                ValidatedAnswer(spec.questions[i], spec.mode,
                                                root.object.slots[1].object.slots[i])]]
    /\ UNCHANGED <<call, spec, output, toks, read>>

-----------------------------------------------------------------------------
(* The reply: run.convert over package prob.  A distribution is a sequence *)
(* of numbers over a common denominator; a fraction is [num, den].         *)

Sum(s) == FoldLeft(LAMBDA a, b : a + b, 0, s)
Abs(n) == IF n < 0 THEN -n ELSE n

Distribution(ps, den) == [ps |-> ps, den |-> den]

\* Each probability over their sum; equal ones when the sum is zero.
Rescale(d) ==
    IF Sum(d.ps) = 0 THEN Distribution([i \in DOMAIN d.ps |-> 1], Len(d.ps))
    ELSE Distribution(d.ps, Sum(d.ps))

\* Variant: only a sum above one is off.
NormalizeAbove(ps, enabled) ==
    LET d       == Distribution(ps, Unit)
        rescale == enabled /\ Sum(ps) - Unit > Tolerance
    IN  [dist |-> IF rescale THEN Rescale(d) ELSE d, error |-> Abs(Sum(ps) - Unit), rescaled |-> rescale,
         original |-> ps]

Normalize(ps, enabled) ==
    LET d   == Distribution(ps, Unit)
        err == Abs(Sum(ps) - Unit)
        rescale == enabled /\ err > Tolerance
    IN  [dist |-> IF rescale THEN Rescale(d) ELSE d, error |-> err, rescaled |-> rescale, original |-> ps]

Discrete(labels, selected) ==
    [dist |-> Distribution([i \in DOMAIN labels |-> IF labels[i] = selected THEN 1 ELSE 0], 1),
     error |-> 0, rescaled |-> FALSE, original |-> <<>>]

\* The first index whose value no later one exceeds.
Argmax(ps) == CHOOSE i \in DOMAIN ps : /\ \A j \in DOMAIN ps : ps[j] <= ps[i]
                                       /\ \A j \in 1..(i - 1) : ps[j] < ps[i]

\* The expected level over the rescaled distribution.
Score(d) ==
    LET r == Rescale(d) IN [num |-> Sum([i \in DOMAIN r.ps |-> (i - 1) * r.ps[i]]), den |-> r.den]

\* One less the distance from the mode over that of a uniform distribution
\* from its center, at least zero.
ScoreConfidence(d) ==
    LET r    == Rescale(d)
        n    == Len(r.ps)
        mode == Argmax(r.ps)
        distance  == Sum([i \in DOMAIN r.ps |-> r.ps[i] * Abs(i - mode)])
        deviation == Sum([i \in DOMAIN r.ps |-> Abs(2 * (i - 1) - (n - 1))])
        num  == r.den * deviation - 2 * n * distance
    IN  [num |-> IF num > 0 THEN num ELSE 0, den |-> r.den * deviation]

\* The largest probability, scaled from the uniform one's to certainty.
ChoiceConfidence(d) ==
    LET r == Rescale(d)
        n == Len(r.ps)
    IN  [num |-> n * r.ps[Argmax(r.ps)] - r.den, den |-> r.den * (n - 1)]

NoFraction == [num |-> 0, den |-> 1]
NoReply == [noul |-> 0, score |-> NoFraction, choice |-> "", confidence |-> NoFraction,
            dist |-> Distribution(<<>>, 1)]

NormalizationOf(q, mode, a, enabled) ==
    CASE mode = "discrete" /\ q.kind = "score"  -> Discrete(q.labels, ToString(a.level))
      [] mode = "discrete" /\ q.kind = "choice" -> Discrete(q.labels, a.label)
      [] OTHER -> Normalize(a.probabilities, enabled)

AnswerOf(q, mode, a, n) ==
    CASE q.kind = "noul" ->
            [NoReply EXCEPT !.noul = IF mode # "discrete" THEN a.probability
                                     ELSE IF a.bool THEN Unit ELSE 0]
      [] q.kind = "score" ->
            [NoReply EXCEPT !.dist = n.dist, !.score = Score(n.dist), !.confidence = ScoreConfidence(n.dist)]
      [] q.kind = "choice" ->
            [NoReply EXCEPT !.dist = n.dist, !.choice = q.labels[Argmax(n.dist.ps)],
                            !.confidence = ChoiceConfidence(n.dist)]

\* DebugData: the largest error, the questions whose sum is off and those
\* whose distribution was rescaled, with every question's error.
DebugData(norms, dists) ==
    [maxError |-> Max({norms[i].error : i \in dists} \cup {0}),
     invalid  |-> {i \in dists : norms[i].error > Tolerance},
     rescaled |-> {i \in dists : norms[i].rescaled},
     error    |-> [i \in dists |-> norms[i].error],
     original |-> [i \in dists |-> norms[i].original]]

Convert ==
    LET qs    == spec.questions
        dists == {i \in DOMAIN qs : qs[i].kind # "noul"}
        norms == [i \in dists |-> NormalizationOf(qs[i], spec.mode, result.answers[i], call.normalize)]
    IN  /\ phase = "valid"
        /\ phase' = "answered"
        /\ result' = [result EXCEPT
                !.answers = [i \in DOMAIN qs |->
                    AnswerOf(qs[i], spec.mode, result.answers[i],
                             IF i \in dists THEN norms[i] ELSE NoFraction)],
                !.debug = <<DebugData(norms, dists)>>]
        /\ UNCHANGED <<call, spec, output, toks, read>>

\* The steps of an evaluation, until its result is there to be written.
Evaluates ==
    \/ \E c \in Calls : Ask(c)
    \/ Return
    \/ ReadToken
    \/ ReadFails
    \/ Validate
    \/ Convert

\* Nothing of a call that is over is kept.
Forget ==
    /\ phase' = "idle" /\ call' = NoCall /\ spec' = NoSpec /\ output' = NoOutput /\ toks' = <<>>
    /\ at' = 0 /\ open' = <<>> /\ name' = FALSE /\ frames' = <<>> /\ skipping' = NotSkipping
    /\ root' = NoSlot /\ result' = NoResult
=============================================================================
