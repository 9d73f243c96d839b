------------------------------ MODULE MCRequest ------------------------------
(***************************************************************************)
(* The request side for TLC: the question sets, the JSON texts and the     *)
(* calls it is checked with, and the struct types and the responses of     *)
(* typed decoding.                                                         *)
(***************************************************************************)
EXTENDS TypedReference

Q == Quote
S(x) == <<x>>

\* The caller's memory: JSON it passes by reference.  "t" is the text under
\* scan, which each behaviour of the text scenarios chooses.
MCMem0 ==
    [obj   |-> <<"_", "{", "_", Q, "a", "_", Q, "_", ":", "_", "-", "1", ".", "0", "_", "}", "_">>,
     arr   |-> <<"[", Q, "_", Backslash, Q, Q, ",", "_", "null", "]">>,
     empty |-> <<"{", "_", "}">>,
     text  |-> <<Q, "b", Q>>,
     zero  |-> <<"_", "-", "0", ".", "0", "e", "+", "1">>,
     cut   |-> <<"{", Q, "a", Q, ":">>,
     none  |-> <<"_">>,
     junk  |-> <<"}">>,
     t     |-> <<"{", "}">>]

MCScribbled == <<"[", "9", "]">>

Noul(n, i, y, o)  == [form |-> "noul", name |-> n, instr |-> i, yes |-> y, no |-> o]
Choice(n, i, os)  == [form |-> "choice", name |-> n, instr |-> i, options |-> os]
Score(n, i, ls)   == [form |-> "score", name |-> n, instr |-> i, levels |-> ls]
Raw(n, t, fs)     == [form |-> "raw", name |-> n, typ |-> t, fields |-> fs]
Opt(l, d)         == [label |-> l, desc |-> d]
BadText           == Text(S("bad"))

\* Field values.
NilV      == [t |-> "nil"]
StrV(s)   == [t |-> "string", s |-> s]
IntV(n)   == [t |-> "int", n |-> n]
FloatV(neg, d, e) == [t |-> "float", neg |-> neg, d |-> d, e |-> e]
ListV(e)  == [t |-> "anys", e |-> e]
StrsV(ss) == [t |-> "strs", ss |-> ss]
MapV(m)   == [t |-> "mapany", m |-> m]
StrMapV(m) == [t |-> "mapstr", m |-> m]
RawV(ref) == [t |-> "rawjson", ref |-> ref]
ContV(c)  == [t |-> "content", c |-> c]
BoolV(b)  == [t |-> "bool", b |-> b]

KA == S("a")
KB == S("b")
KC == S("c")
Crit == S("criteria")

Floats == {FloatV(neg, d, e) : neg \in BOOLEAN,
                               d \in {<<"1">>, <<"1", "2">>, <<"9", "0", "4">>}, e \in {-7, -6, -5, -1, 0, 1, 2, 15, 16, 20}}
          \cup {FloatV(neg, <<>>, 0) : neg \in BOOLEAN} \cup {FloatV(FALSE, <<"nan">>, 0)}

Nested == MapV((KB :> MapV((KC :> NilV) @@ (KA :> MapV(KB :> IntV(<<"-", "1", "2">>))))) @@ (KA :> StrMapV((KC :> S("ctl")) @@ (KA :> <<>>)))
               @@ (KC :> ListV(<<MapV((KB :> BoolV("true")) @@ (KA :> BoolV("false"))), RawV("arr")>>)))

Values == {NilV, BoolV("false"), BoolV("true"), StrV(<<>>), StrV(<<"ctl1", Q, Backslash>>), StrV(S("bad")),
           IntV(<<"0">>), ListV(<<>>), ListV(<<NilV, StrV(S("bad"))>>), StrsV(<<>>),
           StrsV(<<S("a"), S("ctl")>>), StrsV(<<S("a"), S("bad")>>), [t |-> "mapany", m |-> <<>>],
           StrMapV(<<>>), StrMapV((KB :> S("bad")) @@ (KA :> S("a"))), StrMapV(S("bad") :> S("a")),
           MapV(S("bad") :> NilV), Nested, ListV(<<ListV(<<ListV(<<NilV>>)>>)>>),
           ListV(<<ListV(<<ListV(<<ListV(<<>>)>>)>>)>>), RawV("obj"), RawV("zero"), RawV("cut"), RawV("none"),
           ContV(Unset), ContV(Text(<<>>)), ContV(Text(S("a"))), ContV(JSON("empty")), ContV(JSON("text")),
           [t |-> "other"]} \cup Floats

\* One raw question, with every value as its field and as a score's criteria.
RawQuestions ==
    {Raw(S("q"), t, (KA :> v)) : t \in {S("x"), S("bad"), <<>>}, v \in {NilV, StrV(S("a"))}}
    \cup {Raw(S("q"), S("x"), (KA :> v) @@ (KB :> IntV(<<"0">>))) : v \in Values}
    \cup {Raw(S("q"), S("score"), (Crit :> v)) : v \in Values}
    \cup {Raw(S("q"), S("choice"), fs) : fs \in {KA :> NilV, Crit :> NilV, S("type") :> NilV, <<>>,
                                                 (S("bad") :> NilV) @@ (KA :> NilV)}}

\* Sets of several questions, whose names, tables and spans must not mix.
SetQuestions ==
    {Noul(S("n"), i, y, o) : i \in {Unset, Text(S("a"))}, y \in {Unset, JSON("obj")}, o \in {Unset, BadText}}
    \cup {Choice(n, Unset, <<Opt(S("a"), Unset), Opt(S("b"), JSON("arr"))>>) : n \in {S("n"), S("c")}}
    \cup {Choice(S("c"), BadText, <<Opt(S("c"), Text(<<>>))>>), Choice(S("c"), JSON("cut"), <<>>),
          Choice(S("d"), Unset, <<Opt(S("a"), Unset), Opt(S("b"), Unset), Opt(S("a"), Unset)>>),
          Choice(S("d"), Unset, <<Opt(S("a"), JSON("text")), Opt(S("bad"), Unset)>>),
          Score(S("s"), Unset, <<JSON("obj"), Text(S("b")), JSON("arr")>>),
          Score(S("r"), JSON("empty"), <<JSON("arr"), JSON("obj")>>),
          Score(S("r"), Unset, <<Text(<<>>), Unset>>), Score(S("r"), Unset, <<JSON("cut"), BadText>>),
          Score(S("s"), Unset, <<>>), Noul(S("bad"), Unset, Unset, Unset),
          Raw(S("w"), S("noul"), (KB :> Nested) @@ (KA :> RawV("obj")))}

\* A set of more questions than the scan and the index limits.
ManyQuestions ==
    {Choice(S("a"), Unset, <<Opt(S("a"), Unset), Opt(S("b"), Unset), Opt(S("c"), Unset)>>),
     Choice(S("b"), Unset, <<Opt(S("b"), Unset), Opt(S("c"), Unset)>>),
     Score(S("c"), Unset, <<JSON("obj")>>), Score(S("d"), Unset, <<Text(S("a")), JSON("arr")>>)}

(***************************************************************************)
(* JSON texts: every short one over two alphabets, and every text one      *)
(* symbol away from a long valid one.                                      *)
(***************************************************************************)
Words(alphabet, n) == UNION {[1..k -> alphabet] : k \in 0..n}

Long == {<<"[", "{", Q, "a", Q, ":", "0", "}", ",", "_", "null", "]">>,
         <<"{", Q, "a", Q, "_", ":", "[", "]", ",", Q, "b", Q, ":", "{", "}", "}">>,
         <<Q, Backslash, "u", "0", "a", "0", "1", Backslash, Backslash, "_", Q>>}
Symbols == {"{", "}", "[", "]", ":", ",", Q, Backslash, "_", "0", "null", "ctl", "bad"}
OneAway(t) ==
    {[t EXCEPT ![i] = c] : i \in DOMAIN t, c \in Symbols} \cup {RemoveAt(t, i) : i \in DOMAIN t}
    \cup {InsertAt(t, i, c) : i \in DOMAIN t, c \in Symbols}

Texts == UNION {OneAway(t) : t \in Long}
         \cup Words({"[", "]", "{", "}", ",", "0", "_"}, 4)
         \cup Words({"-", "0", "1", ".", "e", "+"}, 4)
         \cup {<<Q>> \o w \o <<Q>> : w \in Words({Q, Backslash, "u", "0", "_", "ctl1"}, 3)}
         \cup {<<"{", Q, Q>> \o w : w \in Words({":", "0", ",", "}", Q}, 4)}

\* Questions that send the text under scan.
TextQuestions == {Raw(S("q"), S("x"), (KA :> RawV("t"))), Raw(S("q"), S("score"), (Crit :> RawV("t"))),
                  Score(S("q"), Unset, <<Text(S("a")), JSON("t")>>)}

(***************************************************************************)
(* Calls.                                                                  *)
(***************************************************************************)
GoV(enc)  == [t |-> "go", enc |-> enc]
X(k, v)   == [key |-> k, value |-> v]
CallOf(state, model, extra) == [state |-> state, model |-> model, extra |-> extra]

States == {[t |-> "raw", ref |-> r] : r \in {"obj", "arr", "text", "zero", "none", "junk"}}
          \cup {[t |-> "rawptr", ref |-> r] : r \in {"", "obj"}}
          \cup {ContV(c) : c \in {Unset, Text(S("ctl")), BadText, JSON("arr"), JSON("cut"), JSON("text")}}
          \cup {GoV(<<Q, "a", Q>>), GoV(<<Q, "bad", Q>>), GoV(<<"null">>), GoV(<<"{", "}">>), GoV(<<>>)}
          \cup {[t |-> "bytes"], [t |-> "nilbytes"], [t |-> "unenc"]}

\* An extra value sonic writes is never empty; a state's marshaler may write
\* nothing, which EncodeState refuses.
Members == States \ {GoV(<<>>)}

PlainCall == CallOf(GoV(<<Q, "a", Q>>), S("m"), <<>>)
Extras    == {X(k, v) : k \in {KA, KB, S("state"), S("model")},
                        v \in {GoV(<<"1">>), GoV(<<Q, "b", Q>>), [t |-> "unenc"]}}
             \cup {X(S("questions"), [t |-> "raw", ref |-> "arr"]), X(S("bad"), NilV)}

Calls ==
    {CallOf(s, S("m"), <<>>) : s \in States} \cup {CallOf(s, S("bad"), <<>>) : s \in States}
    \cup {CallOf(s, S("bad"), <<X(S("model"), v)>>) : s \in {GoV(<<"1">>), GoV(<<"[", "]">>)}, v \in Members}
    \cup {CallOf([t |-> "unenc"], S("m"), <<X(S("state"), v), X(KA, w)>>) : v \in States, w \in Members}
    \cup {CallOf(GoV(<<"{", "}">>), S("m"), x) : x \in Words(Extras, 2)}
    \cup {CallOf(GoV(<<"{", "}">>), S("m"), x) :
            x \in [1..3 -> {X(KA, GoV(<<"1">>)), X(KB, GoV(<<"null">>)), X(KA, GoV(<<"0">>)),
                            X(S("state"), GoV(<<"[", "]">>)), X(KB, [t |-> "bytes"])}]}

Scene(es, most, cs, ts, over) ==
    [entries |-> es, most |-> most, calls |-> cs, texts |-> ts, overwritten |-> over]
MCScenarios ==
    [fields |-> Scene(RawQuestions, 1, {}, {<<>>}, {}),
     sets   |-> Scene(SetQuestions, 2, {PlainCall}, {<<>>}, {"obj"}),
     many   |-> Scene(ManyQuestions, 3, {}, {<<>>}, {"arr"}),
     texts  |-> Scene(TextQuestions, 1, {}, Texts, {"t"}),
     calls  |-> Scene({Noul(S("n"), JSON("obj"), Unset, Unset)}, 1, Calls, {<<>>}, {}),
     none   |-> Scene({}, 0, {}, {<<>>}, {})]

(***************************************************************************)
(* Struct types.                                                           *)
(***************************************************************************)
Answer(a) == [k |-> "answer", a |-> a]
Basic     == [k |-> "basic"]
Ptr(t)    == [k |-> "ptr", elem |-> t]
Struct(fs) == [k |-> "struct", fields |-> fs]
NamedType(n) == [k |-> "named", n |-> n]

Field(n, t, tag)  == [name |-> S(n), exported |-> TRUE, type |-> t, tag |-> tag]
Hidden(n, t, tag) == [Field(n, t, tag) EXCEPT !.exported = FALSE]

\* A struct tag that gives the decision key this value.
D(value) == <<"decision", ":", Q>>
            \o FlattenSeq([i \in DOMAIN value |-> IF value[i] \in {Q, Backslash} THEN <<Backslash, value[i]>> ELSE <<value[i]>>])
            \o <<Q>>

NoulTag   == <<"kind", "=", "noul">>
ChoiceTag == <<"kind", "=", "choice", ";", "options", "=", "a", "|", "b">>
ScoreTag  == <<"kind", "=", "score", ";", "levels", "=", "a", "|", "b">>
AsName(n) == <<";", "name", "=", n>>
Optional  == <<";", "optional">>

\* Named types: a list, two structs that hold each other, a pointer to
\* itself and a type defined from an answer type.
MCNamed ==
    [List |-> Struct(<<Field("Next", Ptr(NamedType("List")), <<>>)>>),
     Even |-> Struct(<<Field("O", Ptr(NamedType("Odd")), <<>>), Field("N", Basic, <<>>)>>),
     Odd  |-> Struct(<<Field("E", NamedType("Even"), <<>>), Hidden("q", Answer("noul"), D(NoulTag))>>),
     Self |-> Ptr(NamedType("Self")),
     Own  |-> Basic]

\* Fields of every shape.
Shapes ==
    {Field("A", Answer("noul"), D(NoulTag)), Field("B", Answer("noul"), D(NoulTag \o AsName("A"))),
     Field("C", Answer("choice"), D(ChoiceTag \o Optional)), Field("C", Answer("score"), D(ChoiceTag)),
     Field("D", Answer("score"), D(ScoreTag)), Field("E", Basic, <<>>), Field("E", Basic, D(NoulTag)),
     Field("F", Answer("noul"), <<>>), Field("F", Answer("noul"), D(<<>>)), Field("G", Ptr(Answer("noul")), D(NoulTag)),
     Field("G", Ptr(Ptr(Answer("score"))), <<>>), Hidden("h", Answer("noul"), <<>>),
     Hidden("h", Answer("noul"), D(NoulTag)), Hidden("h", Ptr(Answer("noul")), <<>>),
     Field("L", NamedType("List"), <<>>), Field("L", NamedType("Even"), <<>>), Hidden("l", Ptr(NamedType("Odd")), <<>>),
     Field("P", NamedType("Self"), <<>>), Field("P", NamedType("Own"), D(NoulTag)),
     Field("S", Struct(<<Field("X", Basic, <<>>), Field("Y", Struct(<<Field("Z", Basic, <<"decision", " ", ":">>)>>), <<>>)>>), <<>>),
     Field("T", Struct(<<Field("X", NamedType("List"), <<>>), Field("Y", NamedType("List"), <<>>)>>), <<>>)}

AskA == Field("A", Answer("noul"), D(NoulTag))
AskB == Field("B", Answer("choice"), D(ChoiceTag))
AskC == Field("C", Answer("score"), D(ScoreTag))
AskD(n) == Field("D", Answer("noul"), D(NoulTag \o AsName(n)))
ShapeTypes ==
    {Struct(fs) : fs \in Words(Shapes, 2)}
    \cup {Struct(<<AskA, AskB, AskC, AskD(n)>>) : n \in {"A", "B", "C", "D"}}
    \cup {Basic, Ptr(Struct(<<AskA>>)), NamedType("List"), NamedType("Odd"), NamedType("Self")}

\* Struct tags: a good pair with every short text before it and after it, the
\* tab standing for any other byte a key may not have.
Near == Words({"decision", " ", ":", Q, "x"}, 4) \cup Words({"decision", " ", "tab", ":", Q}, 3)
StructTags ==
    Near \cup {w \o D(NoulTag) : w \in Near} \cup {D(NoulTag) \o w : w \in Near}
    \cup {D(NoulTag) \o <<"tab">> \o D(NoulTag), <<"x", Q, "x", Q>> \o D(NoulTag)}
    \cup {<<"decision", ":", Q>> \o NoulTag \o <<";", "yes", "=">> \o w \o <<Q>> : w \in Words({Backslash, Q, ";"}, 3)}

\* Decision tags: every short text after a kind, in an option list and in a
\* level list, and each rule's cases.
NoulTags   == {NoulTag \o w : w \in Words({";", "=", "optional", "yes", "a", Backslash}, 3)}
              \cup {NoulTag \o <<";", "yes", "=">> \o w : w \in Words({";", "=", "|", "a", Backslash}, 3)}
ChoiceTags == {<<"options", "=">> \o w \o <<";", "kind", "=", "choice">> : w \in Words({"|", "=", "a", "b", Backslash}, 4)}
ScoreTags  == {<<"kind", "=", "score", ";", "levels", "=">> \o w : w \in Words({"|", "=", "a", "b", Backslash}, 3)}
OtherTags  == {<<>>, <<"yes", "=", "a">>, <<"kind", "=", "x">>, <<"kind", "=", "score">>, <<"kind", "=", "choice">>,
               NoulTag \o <<";", "no", "=", "bad">>, NoulTag \o <<";", "x", "=", "a">>,
               ScoreTag \o <<";", "no", "=", "a">>, ChoiceTag \o <<";", "levels", "=", "a">>}
              \cup {NoulTag \o AsName(n) : n \in {"a", "type", "answers", "usage", "model"}}
              \cup {t \o <<";", "instructions", "=", "a">> : t \in {NoulTag, ChoiceTag, ScoreTag}}
TagTypes ==
    {Struct(<<Field("F", Answer("noul"), t), AskA>>) : t \in StructTags}
    \cup {Struct(<<Field("F", Answer("noul"), D(v))>>) : v \in NoulTags \cup OtherTags}
    \cup {Struct(<<Field("F", Answer("choice"), D(v))>>) : v \in ChoiceTags \cup OtherTags}
    \cup {Struct(<<Field("F", Answer("score"), D(v))>>) : v \in ScoreTags \cup OtherTags}

(***************************************************************************)
(* Responses.                                                              *)
(***************************************************************************)
NoulA(id)  == [kind |-> "noul", id |-> id]
ChoiceA(id, pick, labels) == [kind |-> "choice", id |-> id, pick |-> pick, labels |-> labels]
ScoreA(id, legend, probs) == [kind |-> "score", id |-> id, legend |-> legend, probs |-> probs]

AnswersFor(id) ==
    {NoulA(id)}
    \cup {ChoiceA(id, p, l) : p \in {KA, KC}, l \in {<<>>, <<KA, KB>>, <<KB, KC>>, <<KC, KA>>}}
    \cup {ScoreA(id, l, p) : l \in {<<>>, <<0, 1>>, <<1, 2>>}, p \in {<<>>, <<1>>, <<0, 2>>}}
Responses == {x @@ y : x \in {<<>>} \cup {S("C") :> a : a \in AnswersFor("c")},
                       y \in {<<>>} \cup {S("D") :> a : a \in AnswersFor("d")}}
DecodeTypes ==
    {Struct(<<Field("C", Answer("choice"), D(ChoiceTag \o Optional)), Field("E", Basic, <<>>), Field("D", Answer("score"), D(ScoreTag))>>),
     Struct(<<Field("D", Answer("score"), D(ScoreTag \o AsName("C"))), Field("C", Answer("choice"), D(ChoiceTag \o AsName("D")))>>),
     Struct(<<Hidden("c", Answer("choice"), <<>>), Field("C", Answer("noul"), D(NoulTag)), Field("D", Answer("score"), D(ScoreTag \o Optional))>>)}

Full == (S("A") :> NoulA("a")) @@ (S("B") :> ChoiceA("b", KA, <<KB>>)) @@ (S("C") :> ScoreA("c", <<0>>, <<1>>))
        @@ (S("D") :> NoulA("d")) @@ (S("F") :> NoulA("f"))

TypedScene(ts, rs, gs, n) == [types |-> ts, together |-> FALSE, responses |-> rs, callers |-> gs, most |-> n]
Together(sc) == [sc EXCEPT !.together = TRUE]
MCTypedScenes ==
    [none   |-> Together(TypedScene({}, {}, {}, 0)),
     tags   |-> TypedScene(TagTypes, {Full}, {"g1"}, 1),
     shapes |-> TypedScene(ShapeTypes, {Full}, {"g1"}, 1),
     decode |-> TypedScene(DecodeTypes, Responses, {"g1"}, 1),
     race   |-> TypedScene({Struct(<<AskA>>)}, {Full}, {"g1", "g2", "g3"}, 2),
     mixed  |-> Together(TypedScene({Struct(<<AskA>>), Basic}, {Full}, {"g1", "g2"}, 2))]

MCTypes == TagTypes \cup ShapeTypes \cup DecodeTypes \cup {Struct(<<AskA>>), Basic}

\* The two halves share the builder and no state, so a behaviour follows one.
MCInit == \/ scene = "none" /\ RequestInit /\ TypedInit
          \/ tscene = "none" /\ scene \in DOMAIN Scenarios \ {"none"} /\ RequestInit /\ TypedInit
MCNext == \/ scene # "none" /\ RequestNext /\ UNCHANGED typedVars
          \/ TypedNext /\ UNCHANGED requestVars
MCSpec == MCInit /\ [][MCNext]_<<requestVars, typedVars>>
=============================================================================
