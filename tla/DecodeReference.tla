--------------------------- MODULE DecodeReference ---------------------------
(***************************************************************************)
(* What a response body means, stated over its tree: the reading the       *)
(* decoder's comments promise, that of a parser which keeps every object   *)
(* as a Python dict (a repeated key keeps its first position and takes its *)
(* last value) and of a validator that reports the first failure in the    *)
(* order of the schema.  The decoder never builds this tree: the           *)
(* properties below say that its token-driven bookkeeping decides alike.   *)
(***************************************************************************)
EXTENDS Decoder

\* An object as a Python dict: one member per key, at its first position,
\* with its last value.
Dict(ms) ==
    LET firsts == SetToSortSeq({i \in DOMAIN ms : \A j \in 1..(i - 1) : ms[j].key # ms[i].key},
                               LAMBDA a, b : a < b)
    IN  [n \in DOMAIN firsts |-> Mem(ms[firsts[n]].key, LastOf([m |-> ms], ms[firsts[n]].key))]

\* The first failure of a sequence of checks, NoPend when all pass.
FirstOf(checks) ==
    LET i == SelectInSeq(checks, LAMBDA c : c # NoPend)
    IN  IF i = 0 THEN NoPend ELSE checks[i]

Check(ok, pend) == IF ok THEN NoPend ELSE pend

\* The body is one JSON object of legal strings, not nested too deep.
WellFormed(b, ts) ==
    /\ b.tail = "clean" /\ IsObj(b.root)
    /\ \A i \in DOMAIN ts :
        /\ ts[i].k \in {"str", "key"} => ~BadString(ts[i].v)
        /\ OpenAfter(ts, i) <= MaxNesting
    /\ SkipAccepts(ts)

\* The value has the kind that member m wants.
RightKind(m, x) ==
    CASE m \in {"choice", "type"}          -> IsStr(x)
      [] m \in {"legend", "probabilities"} -> IsObj(x)
      [] OTHER                             -> IsFloat(x)

\* A legend or probability list: the first key or value that is bad, every
\* spelling on its own.
ListFailure(name, kind, m, x) ==
    LET d       == Dict(x.m)
        keyBad(p) == ~(m = "probabilities" /\ kind = "choice") /\ ParseLevel(p.key) = NoLevel
        valBad(p) == IF m = "legend" THEN ~(IsStr(p.val) \/ IsObj(p.val) \/ IsArr(p.val))
                     ELSE ~IsFloat(p.val)
        i       == SelectInSeq(d, LAMBDA p : keyBad(p) \/ valBad(p))
    IN  IF i = 0 THEN NoPend
        ELSE KeyPend(name, m, d[i].key,
                     IF keyBad(d[i]) THEN "notLevel"
                     ELSE IF m = "legend" THEN "legendValue" ELSE "notNumber")

AnswerFailure(p) ==
    LET kind == LastOf(p.val, "type").v
        of(m) ==
            IF ~HasMember(p.val, m) THEN AnswerPend(p.key, m, "missing")
            ELSE LET x == LastOf(p.val, m) IN
                 IF ~RightKind(m, x) THEN AnswerPend(p.key, m, WrongKindErr(m))
                 ELSE IF m \in {"legend", "probabilities"} THEN ListFailure(p.key, kind, m, x)
                 ELSE NoPend
    IN  IF KindOf(kind) = "unknown" THEN NoPend
        ELSE FirstOf([i \in DOMAIN Schema[kind] |-> of(Schema[kind][i])])

\* One entry per level or label, in the order of their first appearance, with
\* the value written last.
LastValues(ms, Id(_), Val(_)) ==
    LET d == Dict([i \in DOMAIN ms |-> Mem(Id(ms[i].key), ms[i].val)])
    IN  [i \in DOMAIN d |-> [id |-> d[i].key, val |-> Val(d[i].val)]]

NumberOf(x) == NumText(x.v)
Itself(x) == x

AnswerOf(p) ==
    LET kind == LastOf(p.val, "type").v
        x(m) == LastOf(p.val, m)
    IN  [name |-> p.key, kind |-> kind, ans |->
          CASE kind = "noul"   -> [NoValue EXCEPT !.noul = NumberOf(x("noul"))]
            [] kind = "choice" -> [NoValue EXCEPT !.choice = x("choice").v,
                  !.confidence = NumberOf(x("confidence")),
                  !.probabilities = LastValues(x("probabilities").m, Itself, NumberOf)]
            [] kind = "score"  -> [NoValue EXCEPT !.score = NumberOf(x("score")),
                  !.confidence = NumberOf(x("confidence")),
                  !.legend = LastValues(x("legend").m, ParseLevel, Itself),
                  !.probabilities = LastValues(x("probabilities").m, ParseLevel, NumberOf)]]

\* A token count may be absent or null.
CountFailure(usage, m) ==
    Check(~HasMember(usage, m) \/ LastOf(usage, m) = Null \/ IsCount(LastOf(usage, m)),
          TopPend("usage", m, "notCount"))
CountOf(usage, m) ==
    IF ~HasMember(usage, m) \/ LastOf(usage, m) = Null THEN "absent" ELSE NumberOf(LastOf(usage, m))

SystemOneMeaning(root) ==
    LET answers == IF HasMember(root, "answers") THEN LastOf(root, "answers") ELSE Obj(<<>>)
        entries == IF IsObj(answers) THEN Dict(answers.m) ELSE <<>>
        typed(p) == IsObj(p.val) /\ HasMember(p.val, "type") /\ IsStr(LastOf(p.val, "type"))
        untyped == SelectInSeq(entries, LAMBDA p : ~typed(p))
        typeErr(p) == AnswerPend(p.key, "type",
                          IF ~IsObj(p.val) THEN "notObject"
                          ELSE IF HasMember(p.val, "type") THEN "notString" ELSE "missing")
        logged  == SelectSeq(SubSeq(entries, 1, IF untyped = 0 THEN Len(entries) ELSE untyped - 1),
                             LAMBDA p : KindOf(LastOf(p.val, "type").v) = "unknown")
        has(m)  == HasMember(root, m)
        usage   == IF has("usage") THEN LastOf(root, "usage") ELSE Obj(<<>>)
        failure == FirstOf(
            << Check(untyped = 0, IF untyped = 0 THEN NoPend ELSE typeErr(entries[untyped])),
               Check(has("model"), TopPend("model", "", "missing")),
               Check(~has("model") \/ IsStr(LastOf(root, "model")), TopPend("model", "", "notString")),
               Check(has("usage"), TopPend("usage", "", "missing")),
               Check(IsObj(usage), TopPend("usage", "", "notObject")),
               IF IsObj(usage) THEN CountFailure(usage, "input_tokens") ELSE NoPend,
               IF IsObj(usage) THEN CountFailure(usage, "output_tokens") ELSE NoPend,
               Check(IsObj(answers), TopPend("answers", "", "notObject")) >>
            \o (IF untyped = 0 THEN [i \in DOMAIN entries |-> AnswerFailure(entries[i])] ELSE <<>>))
        known   == SelectSeq(entries, LAMBDA p : KindOf(LastOf(p.val, "type").v) # "unknown")
        result  == IF failure # NoPend THEN Failed(failure)
                   ELSE [NoResult EXCEPT !.ok = TRUE, !.model = LastOf(root, "model").v,
                           !.input = CountOf(usage, "input_tokens"),
                           !.output = CountOf(usage, "output_tokens"),
                           !.answers = [i \in DOMAIN known |-> AnswerOf(known[i])]]
    IN  [result EXCEPT !.named = [i \in 1..Min({Len(logged), MaxSkipped}) |-> logged[i].key],
                       !.skipped = Len(logged)]

\* The models of a list-models body: the first card that fails, and in it the
\* first member of the card.
ModelsMeaning(root) ==
    LET ms == LastOf(root, "models")
        card(i) ==
            IF ~IsObj(ms.e[i]) THEN CardPend(i - 1, "", "notObject")
            ELSE FirstOf([n \in DOMAIN CardSchema |->
                IF ~HasMember(ms.e[i], CardSchema[n]) THEN CardPend(i - 1, CardSchema[n], "missing")
                ELSE Check(IsStr(LastOf(ms.e[i], CardSchema[n])),
                           CardPend(i - 1, CardSchema[n], "notString"))])
        failure == IF ~HasMember(root, "models") THEN TopPend("models", "", "missing")
                   ELSE IF ~IsArr(ms) THEN TopPend("models", "", "notArray")
                   ELSE FirstOf([i \in DOMAIN ms.e |-> card(i)])
    IN  IF failure # NoPend THEN Failed(failure)
        ELSE [NoResult EXCEPT !.ok = TRUE,
                !.cards = [i \in DOMAIN ms.e |-> [m \in ToSet(CardSchema) |-> LastOf(ms.e[i], m).v]]]

Meaning(b) == IF b.mode = "models" THEN ModelsMeaning(b.root) ELSE SystemOneMeaning(b.root)

-----------------------------------------------------------------------------
(* Properties.                                                             *)

\* The decoder is in the pool with nothing under way, or works on a body.
DecoderTypeOK ==
    /\ phase \in {"idle", "cut", "whole", "finish", "done"}
    /\ (phase = "idle") <=> (body = NoBody)
    /\ at \in 0..Len(toks)
    /\ v.ign \in Nat /\ v.peak \in 0..MaxNesting
    /\ v.cur.has \cup v.cur.wrong \subseteq Members /\ v.cur.has \cap v.cur.wrong = {}
    /\ v.cardHas \cup v.cardBad \subseteq ToSet(CardSchema) /\ v.cardHas \cap v.cardBad = {}

\* What the one pass over the tokens returns (visitor, commit, finish, the
\* second pass for structured levels, the traversal over the cut body) is what
\* the body means as a tree: the same answers in the same order with the same
\* values, or the same first failure, and the same skipped answers.  A body
\* that is not one JSON object of legal strings fails at the root.
DecodesAsMeant ==
    phase = "done" => IF WellFormed(body, toks) THEN out = Meaning(body)
                      ELSE ~out.ok /\ out.path = RootPath

=============================================================================
