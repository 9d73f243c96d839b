--------------------------- MODULE AnswerReference ---------------------------
(***************************************************************************)
(* What a question set and a model's answer mean, stated over their trees: *)
(* which answers the schema handed to the model allows, as JSON Schema     *)
(* reads it; which faults a model of the answer has, in the order the      *)
(* documentation of Validate gives; and what the reply may say of a valid  *)
(* answer.  An output is a tree and the text it was written as; Damage     *)
(* says what else happened to the text.                                    *)
(***************************************************************************)
EXTENDS AnswerSchema

\* The text is the tree's, in any fence: one JSON value within the limits.
RECURSIVE Clean(_, _)
Clean(x, around) ==
    /\ around <= MaxEnclosing
    /\ CASE IsObj(x) -> \A i \in DOMAIN x.m : Clean(x.m[i].val, around + 1)
         [] IsArr(x) -> \A i \in DOMAIN x.e : Clean(x.e[i], around + 1)
         [] OTHER    -> x # Bad /\ (x.k = "num" => ~Numbers[x.v].long)

OneValue(o) == o.damage = "none" /\ Clean(o.tree, 0)

-----------------------------------------------------------------------------
(* The schema as JSON Schema reads it; an integer is an integer literal.   *)

Target(schema, n) ==
    IF n.ref = "" THEN n ELSE (CHOOSE d \in schema.defs : d.name = n.ref).node

Names(x) == {x.m[i].key : i \in DOMAIN x.m}

RECURSIVE Conforms(_, _, _)
Conforms(schema, n, x) ==
    LET t == Target(schema, n)
        props == {t.properties[i] : i \in DOMAIN t.properties}
    IN  CASE t.type = "boolean" -> x.k = "bool"
          [] t.type = "number"  -> x.k = "num"
          [] t.type = "integer" -> x.k = "num" /\ Numbers[x.v].int
          [] t.type = "string"  -> IsStr(x) /\ x.v \in ToSet(t.enum)
          [] t.type = "object"  ->
                /\ IsObj(x)
                /\ t.closed => Names(x) \subseteq {p.name : p \in props}
                /\ \A p \in props : p.name \in Names(x) /\ Conforms(schema, p.node, LastOf(x, p.name))

\* A member that carries the name of a generated field, in an object the
\* schema has fields for.
Tagged(x, fields, tag) ==
    \E n \in Names(x) \ ToSet(fields) : \E i \in DOMAIN fields : n = tag \o ToString(i - 1)

HasIgnored(x) ==
    /\ IsObj(x) /\ HasMember(x, "answers") /\ IsObj(LastOf(x, "answers"))
    /\ LET a == LastOf(x, "answers") IN
        \/ Tagged(a, Fields(spec, Answers), "answer_")
        \/ /\ spec.mode = "probabilities"
           /\ \E i \in DOMAIN spec.questions :
                LET q == spec.questions[i] IN
                /\ q.kind # "noul" /\ HasMember(a, q.id) /\ IsObj(LastOf(a, q.id))
                /\ Tagged(LastOf(a, q.id), q.labels, "probability_")

-----------------------------------------------------------------------------
(* The faults of an answer, over its tree.                                 *)

Extras(x, fields, tag, loc) ==
    LET generated == IF tag = "" THEN {} ELSE {tag \o ToString(i - 1) : i \in DOMAIN fields}
        extra     == SelectSeq(x.m, LAMBDA p : p.key \notin ToSet(fields) \cup generated)
    IN  [n \in DOMAIN extra |-> Issue("extra_forbidden", Append(loc, extra[n].key))]

BoundFaults(val, most, over, loc) ==
    When(val < 0, Issue("greater_than_equal", loc)) \o When(val > most, Issue(over, loc))

ProbabilityFaults(x, loc) ==
    IF x.k # "num" THEN <<Issue("float_type", loc)>>
    ELSE BoundFaults(Numbers[x.v].val, Unit, "less_than_equal", loc)

\* Faults(v) of each field's last value, or its absence.
FieldFaults(x, fields, loc, Faults(_, _)) ==
    FlattenSeq([i \in DOMAIN fields |->
        IF HasMember(x, fields[i]) THEN Faults(i, LastOf(x, fields[i]))
        ELSE <<Issue("missing", Append(loc, fields[i]))>>])

ObjectFaults(x, fields, tag, loc, Faults(_, _)) ==
    IF ~IsObj(x) THEN <<Issue("model_type", loc)>>
    ELSE Extras(x, fields, tag, loc) \o FieldFaults(x, fields, loc, Faults)

QuestionFaults(q, x) ==
    LET loc == <<"answers", q.id>> IN
    CASE spec.mode = "probabilities" /\ q.kind = "noul" -> ProbabilityFaults(x, loc)
      [] spec.mode = "probabilities" /\ q.kind # "noul" ->
            ObjectFaults(x, q.labels, "probability_", loc,
                         LAMBDA j, y : ProbabilityFaults(y, Append(loc, q.labels[j])))
      [] spec.mode = "discrete" /\ q.kind = "noul" -> When(x \notin {Bool, False}, Issue("bool_type", loc))
      [] spec.mode = "discrete" /\ q.kind = "choice" ->
            When(x \notin {Str(l) : l \in ToSet(q.labels)}, Issue("literal_error", loc))
      [] OTHER ->
            IF x.k = "num" /\ Numbers[x.v].int
            THEN BoundFaults(Numbers[x.v].val, (Len(q.labels) - 1) * Unit, "less_than", loc)
            ELSE <<Issue("int_type", loc)>>

Meaning(x) ==
    ObjectFaults(x, <<"answers">>, "", <<>>, LAMBDA n, a :
        ObjectFaults(a, Fields(spec, Answers), "answer_", <<"answers">>, LAMBDA i, y :
            QuestionFaults(spec.questions[i], y)))

-----------------------------------------------------------------------------
(* The shape of a question, over the tree as it was sent: repeated names   *)
(* have their last value, also inside what is written into a prompt.       *)

RECURSIVE Writable(_, _)
Writable(x, depth) ==
    /\ depth <= MaxValueDepth
    /\ IsObj(x) => \A n \in Names(x) : Writable(LastOf(x, n), depth + 1)
    /\ IsArr(x) => \A i \in DOMAIN x.e : Writable(x.e[i], depth + 1)

Content(x) == x.k \in {"str", "{", "["} /\ (IsStr(x) \/ Writable(x, 1))
Optional(x, n) == HasMember(x, n) => LastOf(x, n) = Null \/ Content(LastOf(x, n))

Shaped(x) ==
    /\ IsObj(x) /\ HasMember(x, "type") /\ LastOf(x, "type") \in {Str(k) : k \in Kinds}
    /\ Names(x) \subseteq {"type", "instructions", "criteria"}
    /\ Optional(x, "instructions")
    /\ LET kind == LastOf(x, "type").v
           has  == HasMember(x, "criteria")
           c    == LastOf(x, "criteria")
       IN  CASE kind = "noul" ->
                    has /\ c # Null => /\ IsObj(c) /\ Names(c) \subseteq {"true", "false"}
                                      /\ \A n \in Names(c) : Optional(c, n)
             [] kind = "choice" -> has /\ IsObj(c) /\ \A n \in Names(c) : Optional(c, n)
             [] kind = "score"  -> has /\ IsArr(c) /\ \A i \in DOMAIN c.e : Content(c.e[i])

Criteria(x) ==
    LET c == LastOf(x, "criteria") IN IF IsObj(c) THEN Cardinality(Names(c)) ELSE Len(c.e)

-----------------------------------------------------------------------------
(* Properties.                                                             *)

\* The model is asked exactly when every question has the shape of its type and
\* something to choose between; a question set is refused for too few criteria
\* only when all its shapes are right, whatever was written twice.
AsksWhatItMay ==
    phase \in {"asked", "refused"} =>
        LET sent   == {LastOf(call.questions, n) : n \in Names(call.questions)}
            shaped == \A x \in sent : Shaped(x)
            enough == \A x \in sent : LastOf(x, "type").v = "noul" \/ Criteria(x) >= 2
        IN  /\ phase = "asked" <=> sent # {} /\ shaped /\ enough
            /\ phase = "refused" =>
                result.issues[1] = IF sent = {} THEN "noQuestions"
                                   ELSE IF shaped THEN "fewCriteria" ELSE "shape"

Decided == phase \in {"valid", "malformed"}

\* Validate's one pass over the tokens, which keeps slots and skips what the
\* schema does not know, reports what the text means as a tree: every fault of
\* it, in the documented order (in each object the unknown members as written,
\* then the fields), the last value of a repeated name at every level, nothing
\* about the generated names; and a text that is not one JSON value within the
\* limits, also in a part nobody reads, is refused as a whole.
ValidatesAsMeant ==
    Decided => result.issues = IF OneValue(output) THEN Meaning(output.tree)
                               ELSE <<Issue("json_invalid", <<>>)>>

BoundTypes == {"greater_than_equal", "less_than", "less_than_equal"}

\* The schema handed to the model and the validator of its answer agree, for
\* every question set ParseQuestions accepts: a text that follows the schema is
\* faulted only for the bounds the schema does not state, and one without such
\* faults follows the schema unless it names a generated field.  A schema also
\* never has two properties of one name, which jsonx.Marshal would refuse.
SchemaAgrees ==
    /\ Decided /\ OneValue(output) =>
        (Conforms(spec.schema, spec.schema.root, output.tree)
         <=> ~HasIgnored(output.tree) /\ \A i \in DOMAIN result.issues : result.issues[i].type \in BoundTypes)
    /\ phase = "asked" => \A d \in spec.schema.defs :
        IsInjective([i \in DOMAIN d.node.properties |-> d.node.properties[i].name])

\* What the model said of question i.
Said(i) == LastOf(LastOf(output.tree, "answers"), spec.questions[i].id)
SaidP(i, j) == Numbers[LastOf(Said(i), spec.questions[i].labels[j]).v].val

Whole(f) == f.num = f.den
Within(f) == f.den > 0 /\ f.num \in 0..f.den

\* A discrete answer is said again, with certainty.
DiscreteReply(i, q, a) ==
    CASE q.kind = "noul"   -> a.noul = IF Said(i) = Bool THEN Unit ELSE 0
      [] q.kind = "choice" -> a.choice = Said(i).v /\ Whole(a.confidence) /\ Sum(a.dist.ps) = a.dist.den
      [] q.kind = "score"  -> /\ a.score.num * Unit = Numbers[Said(i).v].val * a.score.den
                              /\ Whole(a.confidence) /\ Sum(a.dist.ps) = a.dist.den

\* A distribution keeps the order of what was said, its score and confidence
\* are in their ranges, and it is off only where the report says so.
ProbableReply(i, q, a, debug) ==
    IF q.kind = "noul" THEN a.noul = Numbers[Said(i).v].val
    ELSE LET off == Abs(Sum([j \in DOMAIN q.labels |-> SaidP(i, j)]) - Unit) IN
         /\ \A j, l \in DOMAIN q.labels : SaidP(i, j) < SaidP(i, l) => a.dist.ps[j] < a.dist.ps[l]
         /\ q.kind = "choice" => \A j \in DOMAIN q.labels :
                q.labels[j] = a.choice => /\ \A l \in DOMAIN q.labels : SaidP(i, l) <= SaidP(i, j)
                                          /\ \A l \in 1..(j - 1) : SaidP(i, l) < SaidP(i, j)
         /\ a.score.num \in 0..(a.score.den * (Len(q.labels) - 1))
         /\ Within(a.confidence)
         /\ i \in debug.invalid <=> off > Tolerance
         /\ debug.maxError >= off
         /\ i \in debug.rescaled <=> call.normalize /\ i \in debug.invalid
         /\ i \notin debug.rescaled => a.dist = Distribution([j \in DOMAIN q.labels |-> SaidP(i, j)], Unit)
         /\ call.normalize /\ i \in debug.invalid => Sum(a.dist.ps) = a.dist.den

\* The reply says what the model said.
ReplyFollows ==
    phase = "answered" => \A i \in DOMAIN spec.questions :
        IF spec.mode = "discrete" THEN DiscreteReply(i, spec.questions[i], result.answers[i])
        ELSE ProbableReply(i, spec.questions[i], result.answers[i], result.debug[1])
=============================================================================
