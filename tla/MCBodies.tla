------------------------------ MODULE MCBodies ------------------------------
(***************************************************************************)
(* The bodies of a call for TLC: the scratch a request body is lent from,  *)
(* the read of a response body, and its decoding.                          *)
(*                                                                         *)
(* The decoder's bodies come in five families, each varying one part of    *)
(* the document over everything that part may hold (repeated members,      *)
(* values of the wrong kind, containers where a scalar belongs) while the  *)
(* rest is a valid response.                                               *)
(***************************************************************************)
EXTENDS Payload, ReadBody, ScratchBody

MCMaxNesting == 6
MCLinearSet == 1
MCMaxSkipped == 1

\* The sequences of at most n elements of S, n at most 3.
UpTo(S, n) == {<<>>} \cup (IF n > 0 THEN {<<a>> : a \in S} ELSE {})
                     \cup (IF n > 1 THEN {<<a, b>> : a, b \in S} ELSE {})
                     \cup (IF n > 2 THEN {<<a, b, c>> : a, b, c \in S} ELSE {})

Model == Mem("model", Str("m"))
Usage == Mem("usage", Obj(<<Mem("input_tokens", Num("1"))>>))

NoulAnswer  == Obj(<<Mem("type", Str("noul")), Mem("noul", Num("-0"))>>)
OtherAnswer == Obj(<<Mem("type", Str("tone"))>>)
ScoreAnswer(legend, probs) ==
    Obj(<<Mem("type", Str("score")), Mem("score", Num("1")), Mem("confidence", Num("0.5")),
          Mem("legend", Obj(legend)), Mem("probabilities", Obj(probs))>>)
ChoiceAnswer(probs) ==
    Obj(<<Mem("type", Str("choice")), Mem("choice", Str("x")), Mem("confidence", Num("1")),
          Mem("probabilities", Obj(probs))>>)

\* A valid response around the given answers members.
Response(answers) ==
    Body("systemOne", Obj(<<Model, Usage>> \o answers), "clean")
OneAnswer(x) == Response(<<Mem("answers", Obj(<<Mem("a", x)>>))>>)

(* The set of answers: names repeated within one "answers" member and      *)
(* across two, valid and failing answers, a second member of another kind. *)
AnswerValues == { NoulAnswer, OtherAnswer, Str("s"), Arr(<<Null>>),
                  Obj(<<Mem("type", Bool)>>), Obj(<<>>), Obj(<<Mem("type", Str("noul"))>>),
                  ScoreAnswer(<<Mem("1", Arr(<<>>))>>, <<>>) }
Entries(names, vals) == {Mem(n, x) : n \in names, x \in vals}
Few == {NoulAnswer, OtherAnswer, Obj(<<>>), ScoreAnswer(<<Mem("1", Arr(<<>>))>>, <<>>)}
SetBodies ==
    {Response(<<Mem("answers", Obj(es))>>) : es \in UpTo(Entries({"a", "b"}, AnswerValues), 2)}
    \cup {Response(<<Mem("answers", Obj(es))>>) :
            es \in [1..3 -> Entries({"a", "b", "c"}, {NoulAnswer, OtherAnswer})]}
    \cup {Response(<<Mem("answers", x), Mem("answers", y)>>) :
            x, y \in {Null, Arr(<<>>)} \cup {Obj(es) : es \in UpTo(Entries({"a", "b"}, Few), 1)}}
    \cup {Response(<<Mem("answers", Obj(<<Mem("a", NoulAnswer), Mem("b", NoulAnswer)>>)),
                     Mem("answers", Obj(es))>>) :
            es \in UpTo(Entries({"a", "b", "c"}, {NoulAnswer}), 3)}

(* The members of one answer: each present, absent or of the wrong kind,   *)
(* and one of them repeated before or after the others.                    *)
Wrong == {Null, Arr(<<Str("x")>>), Obj(<<Mem("confidence", Num("1"))>>)}
Values(m) == CASE m = "choice"        -> {Str("x")} \cup Wrong
               [] m = "legend"        -> {Obj(<<Mem("1", Str("t"))>>), Str("t")}
               [] m = "probabilities" -> {Obj(<<Mem("1", Num("0.5"))>>), Num("1")}
               [] OTHER               -> {Num("0.5"), Num("1e400")} \cup Wrong
Options(m) == {<<Mem(m, x)>> : x \in Values(m)} \cup {<<>>}
ChoiceMembers == {a \o b \o c : a \in Options("choice"), b \in Options("confidence"),
                                c \in Options("probabilities")}
ScoreMembers == {a \o b \o c : a \in {<<Mem("score", Num("2"))>>, <<>>}, b \in Options("legend"),
                               c \in Options("probabilities")}
Repeats == {<<>>} \cup {<<Mem("confidence", x)>> : x \in {Num("1"), Null}}
                  \cup {<<Mem("probabilities", x)>> : x \in {Obj(<<>>), Null}}
                  \cup {<<Mem("type", x)>> : x \in {Null, Str("noul")}}
MemberBodies ==
    {OneAnswer(Obj(p \o <<Mem("type", Str("choice"))>> \o ms \o q)) :
        ms \in ChoiceMembers, p \in {<<>>, <<Mem("probabilities", Obj(<<Mem("z", Num("1"))>>))>>},
        q \in Repeats}
    \cup {OneAnswer(Obj(ms \o <<Mem("confidence", Num("1")), Mem("type", Str("score"))>> \o q)) :
        ms \in ScoreMembers, q \in Repeats}

(* Values nested n deep, the innermost full, empty or with two elements.   *)
RECURSIVE Nested(_)
Nested(n) == IF n = 0 THEN Null ELSE Arr(<<Nested(n - 1)>>)
RECURSIVE NestedEmpty(_)
NestedEmpty(n) == IF n = 1 THEN Obj(<<>>) ELSE Arr(<<NestedEmpty(n - 1)>>)
RECURSIVE NestedPair(_)
NestedPair(n) == IF n = 1 THEN Arr(<<Null, Null>>) ELSE Arr(<<NestedPair(n - 1)>>)

DeepLevels == {Nested(n) : n \in 1..3} \cup {NestedEmpty(n) : n \in 1..3}
              \cup {NestedPair(n) : n \in 1..3}

(* The entries of a legend and of a probability list: levels spelled in    *)
(* two ways, keys that are no level, texts, containers and bad values.     *)
Legends == UpTo(Entries({"1", "01", "2", "x"}, {Str("t"), Arr(<<Str("t")>>), Num("1")}), 3)
Levels  == UpTo(Entries({"1", "01", "x"}, {Num("1"), Num("0.5"), Null}), 3)
Labels  == UpTo(Entries({"x", "y"}, {Num("1"), Num("0.5"), Obj(<<>>)}), 3)
ListBodies ==
    {OneAnswer(ScoreAnswer(l, <<>>)) : l \in Legends}
    \cup {OneAnswer(ScoreAnswer(<<Mem("1", x)>>, <<>>)) : x \in DeepLevels}
    \cup {OneAnswer(ScoreAnswer(<<>>, p)) : p \in Levels}
    \cup {OneAnswer(ChoiceAnswer(p)) : p \in Labels}
    \cup {OneAnswer(Obj(<<Mem("legend", Obj(l)), Mem("type", Str("score")), Mem("score", Num("1")),
                          Mem("confidence", Num("1")), Mem("probabilities", Obj(<<>>)),
                          Mem("legend", Obj(m))>>)) :
            l, m \in UpTo(Entries({"1", "2"}, {Str("t"), Arr(<<>>), Arr(<<Bool>>)}), 1)}

(* The root: its members in any order, repeated and of any kind, every way *)
(* the body may end, illegal strings where nobody reads them, and nesting  *)
(* at its limit.                                                           *)
RootMembers ==
    { Model, Usage, Mem("model", Obj(<<Mem("model", Str("k"))>>)), Mem("usage", Null),
      Mem("usage", Obj(<<Mem("output_tokens", Num("0.5")), Mem("output_tokens", Null)>>)),
      Mem("usage", Obj(<<Mem("input_tokens", Num("-0")), Mem("input_tokens", Arr(<<>>))>>)),
      Mem("answers", Obj(<<Mem("a", NoulAnswer)>>)), Mem("answers", Str("s")),
      Mem("note", Obj(<<Mem("answers", Str("raw"))>>)), Mem("utf8", Null),
      Mem("note", Str("esc")) }
RootBodies ==
    {Body("systemOne", Obj(ms), "clean") : ms \in UpTo(RootMembers, 3)}
    \cup {Body("systemOne", Obj(<<Model, Usage>> \o ms), t) :
            ms \in UpTo(RootMembers, 1), t \in Tails}
    \cup {Body("systemOne", Obj(<<Model, Usage, Mem("note", x)>>), "clean") :
            x \in {Nested(n) : n \in 3..7} \cup {NestedEmpty(n) : n \in 3..7}
                  \cup {NestedPair(n) : n \in 3..7}}
    \cup {Body(m, x, "clean") : m \in {"systemOne", "models"},
            x \in {Null, Str("s"), Arr(<<>>), Obj(<<>>)}}

(* The cards of a list-models body.                                        *)
Card(n, d, r) == Obj(<<Mem("name", n), Mem("description", d)>> \o r)
Cards ==
    { Str("c"), Obj(<<>>), Arr(<<Obj(<<>>)>>),
      Card(Str("n"), Str("d"), <<Mem("release_date", Str("r"))>>),
      Card(Str("n"), Obj(<<Mem("name", Null)>>), <<Mem("release_date", Str("r"))>>),
      Card(Null, Str("d"), <<Mem("release_date", Str("r")), Mem("name", Str("k"))>>),
      Card(Str("n"), Str("d"), <<Mem("release_date", Str("r")), Mem("release_date", Num("1"))>>),
      Card(Str("n"), Str("d"), <<Mem("models", Arr(<<Null>>))>>) }
ModelBodies ==
    {Body("models", Obj(<<Mem("models", Arr(cs))>>), "clean") : cs \in UpTo(Cards, 3)}
    \cup {Body("models", Obj(<<Mem("models", x), Mem("models", y)>>), "clean") :
            x, y \in {Null, Obj(<<Mem("models", Arr(<<>>))>>)} \cup {Arr(cs) : cs \in UpTo(Cards, 1)}}

MCBodies == {SetBodies, MemberBodies, ListBodies, RootBodies, ModelBodies}

-----------------------------------------------------------------------------
MCInitialDeclared == 8
MCInitialUndeclared == 4
MCMinGrow == 2
MCLimits == {1, 3, 4, 9, 17}
MCLengths == {0, 1, 2, 4, 8, 9, 12, 16, 17, 18}
MCSizes == 0..5 \cup {8, 9, 12, 16, 17, 18, 20}

\* The three share no state, so a behaviour follows one.
MCInit == PayloadInit /\ ReadInit /\ ScratchInit

MCNext ==
    \/ ReadInit /\ ScratchInit /\ PayloadNext /\ UNCHANGED <<rvars, svars>>
    \/ PayloadInit /\ ScratchInit /\ ReadNext /\ UNCHANGED <<pvars, svars>>
    \/ PayloadInit /\ ReadInit /\ ScratchNext /\ UNCHANGED <<pvars, rvars>>

MCSpec == MCInit /\ [][MCNext]_<<pvars, rvars, svars>> /\ ScratchFair
==============================================================================
