--------------------------- MODULE MCAnswerSchema ---------------------------
(***************************************************************************)
(* Questions, outputs and provider exchanges for the Adapter's answers.    *)
(* Each family is one question set whose answer is varied in one part      *)
(* while the rest is valid; the names of questions and labels include the  *)
(* ones the generated models use for themselves.  The family "report" has  *)
(* one question set and two outputs, and every kind of exchange.           *)
(***************************************************************************)
EXTENDS AdapterReport

MCUnit == 1000
MCTolerance == 1
MCMaxEnclosing == 4
MCMaxValueDepth == 3

Huge == 1000000
N(int, val) == [int |-> int, long |-> FALSE, val |-> val]
MCNumbers ==
    "0" :> N(TRUE, 0) @@ "-0" :> N(TRUE, 0) @@ "1" :> N(TRUE, 1000) @@ "2" :> N(TRUE, 2000)
    @@ "-1" :> N(TRUE, -1000) @@ "0.5" :> N(FALSE, 500) @@ "0.499" :> N(FALSE, 499)
    @@ "0.498" :> N(FALSE, 498) @@ "0.25" :> N(FALSE, 250) @@ "1.0" :> N(FALSE, 1000)
    @@ "1e400" :> N(FALSE, Huge) @@ "-1e400" :> N(FALSE, -Huge)
    @@ "wide" :> N(TRUE, Huge) @@ "-wide" :> N(TRUE, -Huge)
    @@ "long" :> [N(TRUE, Huge) EXCEPT !.long = TRUE]

-----------------------------------------------------------------------------
(* Texts.                                                                  *)

Out(tree, damage, text) == [tree |-> tree, damage |-> damage, text |-> text]
Plain(x) == Out(x, "none", Raw(Tokens(x)))
Doc(ms) == Obj(<<Mem("answers", Obj(ms))>>)

\* Fences and white space that are taken off, and damage that is not.
Wrapped(x) ==
    LET t == Raw(Tokens(x)) IN
    { Out(x, "none", <<Space>> \o t \o <<Space>>),
      Out(x, "none", <<Fence, Word, Space>> \o t \o <<Space, Fence, Space>>),
      Out(x, "none", <<Space, Fence, Space>> \o t \o <<Fence>>),
      Out(x, "none", <<Fence>> \o t),
      Out(x, "fence", t \o <<Fence>>),
      Out(x, "fence", <<Fence, Space, Word>> \o t),
      Out(x, "empty", <<Fence, Fence>>), Out(x, "empty", <<Space>>), Out(x, "empty", <<Fence, Word>>),
      Out(x, "open", Front(t)),
      Out(x, "open", <<Fence>> \o Front(t) \o <<Fence>>),
      Out(x, "extra", Append(t, [k |-> "}", v |-> ""])),
      Out(x, "junk", Append(t, Null)),
      Out(x, "keyonly", Front(t) \o <<Str("note"), Last(t)>>),
      Out(x, "bracket", Front(t) \o <<[k |-> "]", v |-> ""]>>),
      Out(x, "unclosed", Front(t) \o <<Str("note"), [k |-> "unclosed", v |-> ""]>>) }

RECURSIVE Nested(_, _)
Nested(n, x) == IF n = 0 THEN x ELSE Arr(<<Nested(n - 1, x)>>)

Odd == {Null, Arr(<<>>), Obj(<<>>), Str("x"), Num("1"), Bool}

\* The sequences of at most two elements of S.
Pairs(S) == {<<>>} \cup {<<a>> : a \in S} \cup {<<a, b>> : a, b \in S}

-----------------------------------------------------------------------------
(* Questions.                                                              *)

Q(kind, rest) == Obj(<<Mem("type", Str(kind))>> \o rest)
Noul     == Q("noul", <<Mem("instructions", Str("i"))>>)
Choice(ls) == Q("choice", <<Mem("criteria", Obj([n \in DOMAIN ls |-> Mem(ls[n], Str("c"))]))>>)
ScoreQ(n)  == Q("score", <<Mem("criteria", Arr([i \in 1..n |-> Str("c")]))>>)

Set1 == Obj(<<Mem("n", Noul), Mem("answer_0", Choice(<<"x", "y">>)), Mem("s", ScoreQ(2))>>)
Set2 == Obj(<<Mem("c", Choice(<<"x", "probability_0">>))>>)
Set3 == Obj(<<Mem("s", ScoreQ(3)), Mem("answers", Noul)>>)
Set4 == Obj(<<Mem("n", Choice(<<"x", "y">>)), Mem("c", ScoreQ(2)), Mem("n", Noul)>>)

Criterion == Obj(<<Mem("a", Num("-0")), Mem("b", Arr(<<Num("-1e400")>>)), Mem("a", Num("0.5")), Mem("c", Num("-0"))>>)
Set5 == Obj(<<Mem("s", Q("score", <<Mem("criteria", Arr(<<Criterion, Str("c")>>))>>)), Mem("c", Choice(<<"x", "y">>))>>)

Asked(qs, mode, normalize, family) ==
    [questions |-> qs, mode |-> mode, normalize |-> normalize, family |-> family]

\* Discrete answers: each question's value, valid or not, or none, and a
\* member more, before or after the others.
NoulValues   == {Bool, False, Num("1")}
ChoiceValues == {Str("y"), Str("z"), Bool}
ScoreValues  == {Num("1"), Num("-0"), Num("2"), Num("-1"), Num("1.0"), Num("-wide"), Null}
Maybe(n, vs) == {<<>>} \cup {<<Mem(n, v)>> : v \in vs}
More == {Mem("answer_0", Str("x")), Mem("answer_1", Num("long")), Mem("answer_1", Null), Mem("answer_3", Null),
         Mem("n", False), Mem("n", Obj(<<Mem("n", Bool)>>)), Mem("z", Arr(<<Bad>>)),
         Mem("z", Obj(<<Mem("n", Bool)>>))}
DiscreteDocs ==
    {Doc(a \o b \o c) : a \in Maybe("n", NoulValues), b \in Maybe("answer_0", ChoiceValues),
                        c \in Maybe("s", ScoreValues)}
    \cup {Doc(p \o <<Mem("s", Num("1")), Mem("answer_0", Str("x"))>> \o q \o <<Mem("n", Bool)>> \o r) :
            p, q, r \in {<<>>} \cup {<<m>> : m \in More}}

\* A probability map: its labels twice and with every kind of number.
Probabilities == {Num("0"), Num("0.5"), Num("0.499"), Num("0.498"), Num("1"), Num("-1e400"), Num("2"), Str("x")}
MapMembers == {Mem(l, p) : l \in {"x", "probability_0"}, p \in Probabilities}
              \cup {Mem("probability_1", Null), Mem("probability_2", Num("1"))}
MapDocs ==
    {Doc(<<Mem("c", Obj(ms))>>) : ms \in Pairs(MapMembers)}
    \cup {Doc(<<Mem("c", Obj(Append(ms, Mem("x", Num("0.5")))))>>) : ms \in Pairs(MapMembers)}
    \cup {Doc(<<Mem("c", x), Mem("c", y)>>) : x, y \in Odd \cup
            {Obj(<<Mem("x", Num("0.25")), Mem("probability_0", Num("0.25"))>>), Obj(<<Mem("z", Null)>>)}}

\* A score's distribution beside a Noul question named as the root's member.
LevelNumbers == {Num("0"), Num("0.25"), Num("0.5"), Num("1")}
LevelDocs ==
    {Doc(<<Mem("answers", p), Mem("s", Obj(<<Mem("0", a), Mem("2", b), Mem("1", c)>>))>>) :
        a, b, c \in LevelNumbers, p \in {Num("-0"), Num("0.25")}}

\* The root: members in any order and repeated, limits where nobody reads,
\* and everything around the text.
Valid4 == Doc(<<Mem("n", Bool), Mem("c", Num("1"))>>)
RootMembers ==
    {Valid4.m[1], Mem("answers", Obj(<<Mem("n", Bool)>>)), Mem("answers", Null), Mem("answer_0", Null),
     Mem("note", Obj(<<Mem("answers", Obj(<<>>))>>))}
    \cup {Mem("answers", Obj(<<Mem("c", Num("0")), Mem("n", Nested(n, False))>>)) : n \in 0..3}
    \cup {Mem("note", Nested(n, x)) : n \in 2..4, x \in {Num("1"), Arr(<<>>), Bad, Num("long")}}
RootDocs == {Obj(ms) : ms \in Pairs(RootMembers)} \cup Odd

MCOutputs ==
    "discrete" :> {Plain(x) : x \in DiscreteDocs}
    @@ "map"   :> {Plain(x) : x \in MapDocs}
    @@ "level" :> {Plain(x) : x \in LevelDocs}
    @@ "root"  :> {Plain(x) : x \in RootDocs} \cup Wrapped(Valid4) \cup Wrapped(Null)
    @@ "report" :> {Plain(Doc(<<Mem("s", Obj(<<Mem("0", Num("0.5")), Mem("1", Num("1"))>>)), Mem("c", z)>>)) :
                        z \in {Null, Obj(<<Mem("y", Num("0.25")), Mem("x", Num("0.25"))>>)}}
    @@ "one"   :> {Plain(Doc(<<Mem("q", Bool), Mem("q", Num("0"))>>))}

-----------------------------------------------------------------------------
(* Question sets of every shape, for the parser.                           *)

Contents == {Str("t"), Null, Num("1"), Obj(<<>>), Nested(1, Obj(<<>>)), Nested(3, Null)}
OneQuestion ==
    {Null, Obj(<<>>), Q("tone", <<>>), Obj(<<Mem("type", Null)>>), Noul,
     Obj(<<Mem("type", Str("score")), Mem("type", Str("noul"))>>),
     Q("noul", <<Mem("instructions", Obj(<<Mem("a", Nested(3, Null)), Mem("a", Null)>>))>>)}
    \cup {Q(k, <<Mem("criteria", c)>>) : k \in Kinds, c \in Contents}
    \cup {Q("noul", <<Mem("criteria", Obj(<<Mem(n, c)>>)), Mem(m, Null)>>) :
            n \in {"true", "yes"}, c \in Contents, m \in {"instructions", "note"}}
    \cup {Q("choice", <<Mem("criteria", Obj(<<Mem("x", Str("t")), Mem(n, c)>>)), Mem("instructions", i)>>) :
            n \in {"x", "y"}, c \in Contents, i \in Contents}
    \cup {Q("score", <<Mem("criteria", Arr(<<Str("t"), c>>))>>) : c \in Contents}
QuestionSets ==
    {Obj(<<>>)} \cup {Obj(<<Mem("q", x)>>) : x \in OneQuestion}
    \cup {Obj(<<Mem("a", x), Mem("q", y)>>) :
            x, y \in {Noul, Null, Q("score", <<Mem("criteria", Arr(<<Str("t")>>))>>), Choice(<<"x">>),
                      Choice(<<"x", "y">>)}}

MCCalls ==
    {Asked(Set1, "discrete", FALSE, "discrete"), Asked(Set4, "discrete", TRUE, "root"),
     Asked(Set3, "probabilities", TRUE, "level"), Asked(Set3, "probabilities", FALSE, "level")}
    \cup {Asked(Set2, "probabilities", n, "map") : n \in BOOLEAN}
    \cup {Asked(Set5, "probabilities", TRUE, "report")}
    \cup {Asked(qs, m, TRUE, "one") : qs \in QuestionSets, m \in {"discrete", "probabilities"}}

-----------------------------------------------------------------------------
(* Provider exchanges.                                                     *)

MCMaxEmbedDepth == 3
MCMaxNesting == 8
MCMaxInt == 3

JSON(text, x) == [text |-> text, one |-> TRUE, tree |-> x]
ProviderBodies ==
    { Nil, Text(""), Text("utf8"), JSON("null", Null), JSON("string", Str("s")), JSON("object", Obj(<<Mem("usage", Null)>>)),
      JSON("twice", Obj(<<Mem("a", Null), Mem("a", Null)>>)), JSON("wide", Num("long")), JSON("nan", Arr(<<Bad>>)),
      JSON("edge", Nested(3, Null)), JSON("deep", Nested(3, Obj(<<>>))) }

Request(api, b) == [of |-> "request", api |-> api, body |-> b, finish |-> Null]
Response(b, f)  == [of |-> "response", api |-> "", body |-> b, finish |-> f]

Count(n) == [known |-> TRUE, n |-> n]
Exchange(records, kind, text, status) ==
    [records |-> records, kind |-> kind, text |-> text, status |-> status, input |-> NoCount, output |-> NoCount]
Good(records, in, out) == [Exchange(records, "ok", "text", 0) EXCEPT !.input = in, !.output = out]

Records ==
    {<<Request("api", a), Response(b, Str("stop"))>> : a, b \in ProviderBodies}
    \cup {<<>>, <<Response(Nil, Null)>>, <<Request("", Nil), Request("api", JSON("null", Null))>>}
Failures ==
    {Exchange(<<Request("api", JSON("object", Obj(<<>>)))>>, k, t, 0) :
        k \in {"nonAnswer", "other"}, t \in {"", "utf8"}}
    \cup {Exchange(<<>>, k, "text", 0) : k \in {"timeout", "connection", "none"}}
    \cup {Exchange(<<Response(JSON("null", Null), Null)>>, "status", "text", s) : s \in {302, 400, 429, 503}}
Transient == {e \in Failures : e.kind \in {"timeout", "connection"} \/ e.status \in {429, 503}}

PlainExchange == Good(<<>>, Count(1), NoCount)
Made(requests, structured, header) == [requests |-> requests, structured |-> structured, header |-> header]
MCExchanges ==
    [f \in DOMAIN MCOutputs |->
        IF f # "report" THEN {Made(<<PlainExchange>>, TRUE, "")}
        ELSE {Made(<<Good(r, NoCount, Count(2))>>, FALSE, "2") : r \in Records}
             \cup {Made(<<PlainExchange>>, b, h) : b \in BOOLEAN, h \in {"", "0", "1", "+1"}}
             \cup {Made(<<e, PlainExchange>>, TRUE, "") : e \in Transient}
             \cup {Made(<<e>>, TRUE, "") : e \in Failures}
             \cup {Made(<<d, e>>, TRUE, "") : d \in Transient, e \in Failures}]
=============================================================================
