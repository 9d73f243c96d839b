--------------------------- MODULE TypedReference ---------------------------
(***************************************************************************)
(* What PreparedFor's and DecodeAs's documentation promises of a struct    *)
(* type, stated without the scans: a struct tag read by which of its       *)
(* symbols stand in quotes, a decision tag cut at the separators no        *)
(* backslash escapes, the types below a field as a closure, and a decoded  *)
(* T as its fields side by side.                                           *)
(***************************************************************************)
EXTENDS Typed, RequestReference

\* t without the positions in gone.
Without(t, gone) ==
    LET kept == DOMAIN t \ gone
    IN  [n \in 1..Cardinality(kept) |->
            t[CHOOSE i \in kept : Cardinality({k \in kept : k <= i}) = n]]

(***************************************************************************)
(* Struct tags.                                                            *)
(***************************************************************************)

OpensQuote(t, i) == i \in Quotes(t) /\ Cardinality({q \in Quotes(t) : q < i}) % 2 = 0

\* t is a list of key:"value" pairs.
AllPairs(t) ==
    /\ Cardinality(Quotes(t)) % 2 = 0
    /\ \A i \in Quotes(t) : OpensQuote(t, i) => At(t, i - 1) = ":"
    /\ \A i \in Outside(t) : t[i] # "tab"
    /\ \A i \in Outside(t) :
         CASE t[i] = " " -> TRUE
           [] t[i] = ":" -> i - 1 \in Outside(t) /\ t[i - 1] \notin {" ", ":"} /\ OpensQuote(t, i + 1)
           [] OTHER      -> i + 1 \in Outside(t) /\ t[i + 1] # " "

\* Where t names a decision key: outside quotes, with its colon, at the start
\* or after the end of a word.
NamesKey(t, i) ==
    /\ t[i] = "decision"
    /\ At(t, i - 1) \in {"", " ", "tab", Quote}
    /\ \E c \in (i + 1)..Len(t) : t[c] = ":" /\ \A k \in (i + 1)..(c - 1) : t[k] = " "
NamedKeys(t) == {i \in Outside(t) : NamesKey(t, i)}

\* The named keys that count, where hiddenKey's comment puts them: at the
\* start, after a space, or right after the pairs before it.
KeysIn(t) ==
    {i \in NamedKeys(t) : At(t, i - 1) \in {"", " "} \/ AllPairs(SubSeq(t, 1, i - 1))}

\* What stands between the quotes after position i, or nothing of that kind.
QuotedText(text) ==
    IF \E k \in DOMAIN text : EscapedAt(text, k) /\ text[k] \notin {Quote, Backslash} THEN NoTree
    ELSE [str |-> Without(text, {k \in DOMAIN text : EscapedAt(text, k + 1)})]
ValueAfter(t, i) ==
    LET ends == {q \in Quotes(t) : q > i + 2}
    IN  IF At(t, i + 1) # ":" \/ At(t, i + 2) # Quote \/ ends = {} THEN NoTree
        ELSE QuotedText(SubSeq(t, i + 3, Min(ends) - 1))

\* A field has a tag, which reads as [str] or is refused (NoTree).
Tagged(f)   == KeysIn(f.tag) # {}
TagValue(f) ==
    LET i == Min(KeysIn(f.tag))
    IN  IF Cardinality(KeysIn(f.tag)) > 1 \/ ~AllPairs(SubSeq(f.tag, 1, i - 1)) THEN NoTree
        ELSE ValueAfter(f.tag, i)

(***************************************************************************)
(* Decision tags.                                                          *)
(***************************************************************************)

\* s cut at each sep that no backslash escapes, in at most `most` parts.
CutAt(s, sep, most) ==
    LET all == SetToSortSeq({i \in DOMAIN s : s[i] = sep /\ ~EscapedAt(s, i)}, <)
    IN  PartsAt(s, SubSeq(all, 1, Min({most - 1, Len(all)})))

EscapesOK(s) == \A i \in DOMAIN s :
    s[i] = Backslash /\ ~EscapedAt(s, i) => At(s, i + 1) \in {";", "|", "=", Backslash}
Meant(s) == Without(s, {i \in DOMAIN s : s[i] = Backslash /\ ~EscapedAt(s, i)})

\* The entries of a tag: each a key and its value, none for a bare key.
EntryOf(e) ==
    LET eq == SelectInSeq(Append(e, "="), LAMBDA c : c = "=")
    IN  [key |-> Before(e, eq), bare |-> eq > Len(e), value |-> After(e, eq)]
Entries(tag) ==
    LET parts == CutAt(tag, ";", Len(tag) + 1)
    IN  IF tag = <<>> THEN <<>> ELSE [i \in DOMAIN parts |-> EntryOf(parts[i])]

\* What a tag with the entries es gives.
Given(es, key)   == \E e \in ToSet(es) : e.key = <<key>>
ValueOf(es, key) == (CHOOSE e \in ToSet(es) : e.key = <<key>>).value
TextOf(es, key)  == IF Given(es, key) THEN Text(Meant(ValueOf(es, key))) ELSE Unset
ItemsOf(es, key) ==
    IF Given(es, key) THEN CutAt(ValueOf(es, key), "|", Len(ValueOf(es, key)) + 1) ELSE <<>>
OptionsOf(es) == LET items == ItemsOf(es, "options")
                 IN  [i \in DOMAIN items |-> CutAt(items[i], "=", 2)]
LabelsOf(es)  == LET options == OptionsOf(es) IN [i \in DOMAIN options |-> Meant(options[i][1])]
DescOf(p)     == IF Len(p) = 2 THEN Text(Meant(p[2])) ELSE Unset
LevelsOf(es)  == LET items == ItemsOf(es, "levels") IN [i \in DOMAIN items |-> Meant(items[i])]

GrammarOK(tag, es) ==
    /\ "bad" \notin ToSet(tag)
    /\ \A i \in DOMAIN es :
         /\ es[i].key \in {<<k>> : k \in TagKeys}
         /\ \A j \in DOMAIN es : es[i].key = es[j].key => i = j
         /\ es[i].bare <=> es[i].key = <<"optional">>
         /\ ~es[i].bare => es[i].value # <<>> /\ EscapesOK(es[i].value)
    /\ \A o \in ToSet(OptionsOf(es)) : \A p \in ToSet(o) : p # <<>>
    /\ <<>> \notin ToSet(ItemsOf(es, "levels"))

(***************************************************************************)
(* Types.                                                                  *)
(***************************************************************************)
Points(t) == Underlying(t).k = "ptr"

\* The types a field of one of ts holds or points to.
Below(ts) ==
    UNION {CASE Points(t) -> {Underlying(t).elem}
             [] Underlying(t).k = "struct" -> {f.type : f \in ToSet(Underlying(t).fields)}
             [] OTHER -> {} : t \in ts}

RECURSIVE Closure(_)
Closure(ts) == IF Below(ts) \subseteq ts THEN ts ELSE Closure(ts \cup Below(ts))
AllBelow(t) == Closure({t})

RECURSIVE PointsAtAnswer(_, _)
PointsAtAnswer(t, seen) ==
    CASE Points(t) /\ t \notin seen -> PointsAtAnswer(Underlying(t).elem, seen \cup {t})
      [] Points(t) /\ t \in seen    -> FALSE
      [] OTHER                      -> t.k = "answer"

\* A struct below t, at any depth, has a field with a decision tag.
HoldsTag(t) == \E u \in AllBelow(t) : Underlying(u).k = "struct" /\ \E f \in ToSet(Underlying(u).fields) : Tagged(f)

\* The entries of an answer field's tag, and the name of its question.
TagOf(f) == Entries(TagValue(f).str)
NameIn(f, es) == IF Given(es, "name") THEN Meant(ValueOf(es, "name")) ELSE f.name
NameOf(f) == NameIn(f, TagOf(f))

\* The keys a question of a kind takes, besides those of every kind.
KeysOf(kind) == CASE kind = "noul" -> {"yes", "no"} [] kind = "choice" -> {"options"} [] OTHER -> {"levels"}

\* The documented rejections of one field of a struct.
RejectedItems(items) == items = <<>> \/ ~IsInjective(items)
RejectedTag(f, tag, es) ==
    \/ ~GrammarOK(tag, es)
    \/ TextOf(es, "kind") # Text(<<f.type.a>>)
    \/ \E k \in {"yes", "no", "options", "levels"} \ KeysOf(f.type.a) : Given(es, k)
    \/ NameIn(f, es) \in Reserved
    \/ f.type.a = "choice" /\ RejectedItems(LabelsOf(es))
    \/ f.type.a = "score" /\ RejectedItems(LevelsOf(es))
Rejected(f) ==
    IF Tagged(f)
    THEN \/ ~f.exported \/ f.type.k # "answer" \/ TagValue(f) = NoTree
         \/ RejectedTag(f, TagValue(f).str, TagOf(f))
    ELSE \/ f.exported /\ (f.type.k = "answer" \/ (Points(f.type) /\ PointsAtAnswer(f.type, {})))
         \/ HoldsTag(f.type)

\* The question an answer field with the tag es asks, as a caller would write
\* it by hand.
QuestionOf(f, es) ==
    LET options == OptionsOf(es)
        levels  == LevelsOf(es)
        q == [form |-> f.type.a, name |-> NameIn(f, es), instr |-> TextOf(es, "instructions")]
    IN  CASE f.type.a = "noul"   -> q @@ [yes |-> TextOf(es, "yes"), no |-> TextOf(es, "no")]
          [] f.type.a = "choice" -> q @@ [options |-> [i \in DOMAIN options |->
                                            [label |-> Meant(options[i][1]), desc |-> DescOf(options[i])]]]
          [] f.type.a = "score"  -> q @@ [levels |-> [i \in DOMAIN levels |-> Text(levels[i])]]
ByHand(f) == QuestionOf(f, TagOf(f))

\* The fields of a struct that ask, as a set of positions.
AskingFields(fs) == {i \in DOMAIN fs : Tagged(fs[i]) /\ ~Rejected(fs[i])}

\* The plan p of a struct of fields fs: refused are the fields a rejection
\* applies to alone, bad those it applies to among the others too, and asks
\* the fields that ask, ask in field order.
AskedInOrder(fs, p, ask) ==
    /\ p.err = ""
    /\ Parse(p.prepared.questions) =
         [obj |-> [n \in DOMAIN ask |-> M(NameOf(fs[ask[n]]), QuestionTree(ByHand(fs[ask[n]]), Mem0))]]
PlanMeant(fs, p, bad, asks) ==
    CASE bad # {} -> p.err # "" /\ p.at = Min(bad)
      [] bad = {} /\ asks = {} -> p.err = "empty"
      [] OTHER -> AskedInOrder(fs, p, SetToSortSeq(asks, <))
PlanOfFields(fs, p, refused) ==
    LET asks == {i \in DOMAIN fs \ refused : Tagged(fs[i])}
        repeats == {i \in asks : \E j \in asks : j < i /\ NameOf(fs[j]) = NameOf(fs[i])}
    IN  PlanMeant(fs, p, refused \cup repeats, asks)

(***************************************************************************)
(* PreparedFor refuses a type exactly when one of the rejections it        *)
(* documents applies, and names the first field one applies to; otherwise  *)
(* the set asks, with the same bytes read as JSON, what a caller would     *)
(* have asked by hand, one question per answer field in field order.  Of   *)
(* the keys reflect would miss it counts those hiddenKey looks for;        *)
(* HiddenKeysRefused is about the others.                                  *)
(***************************************************************************)
PlansAsDocumented ==
    \A g \in DOMAIN results :
        LET t == Underlying(results[g].type)
            p == results[g].plan
        IN  results[g] # NoResult =>
              IF t.k # "struct" THEN p.err # ""
              ELSE PlanOfFields(t.fields, p, {i \in DOMAIN t.fields : Rejected(t.fields[i])})

\* reflect reads the decision key of t when it is the only one, with pairs
\* before it and a value it can unquote.
ReflectReads(t) ==
    \E i \in NamedKeys(t) :
        NamedKeys(t) = {i} /\ AllPairs(SubSeq(t, 1, i - 1)) /\ ValueAfter(t, i) # NoTree

(***************************************************************************)
(* What PreparedFor's documentation says further: it refuses every tag     *)
(* that names a decision key while reflect would read none, or only the    *)
(* first of two.  hiddenKey looks for such a key at the start of what      *)
(* reflect did not read and after a space, so one that follows a tab, or   *)
(* the quote of a malformed pair, passes.                                  *)
(***************************************************************************)
HiddenKeysRefused ==
    \A g \in DOMAIN results :
        LET t == Underlying(results[g].type)
        IN  results[g] # NoResult /\ t.k = "struct" /\ results[g].plan.err = "" =>
              \A f \in ToSet(t.fields) : NamedKeys(f.tag) = {} \/ ReflectReads(f.tag)

\* The members of an answer that do not fit its field, as paths below it.
Misfits(f, a) ==
    LET labels == ToSet(LabelsOf(TagOf(f)))
        n      == Len(LevelsOf(TagOf(f)))
        beyond(member, ls) == {<<member, ToString(l)>> : l \in {x \in ToSet(ls) : x \notin 0..(n - 1)}}
    IN  CASE a.kind # f.type.a -> {<<"type">>}
          [] a.kind = "noul" /\ a.kind = f.type.a -> {}
          [] a.kind = "choice" /\ a.kind = f.type.a ->
               (IF a.pick \in labels THEN {} ELSE {<<"choice">>})
               \cup {<<"probabilities", Sym(l)>> : l \in ToSet(a.labels) \ labels}
          [] a.kind = "score" /\ a.kind = f.type.a ->
               beyond("legend", a.legend) \cup beyond("probabilities", a.probs)

\* How the answer to field f does not fit it: paths below the answer.
Unfit(f, name, resp) ==
    IF name \in DOMAIN resp THEN Misfits(f, resp[name])
    ELSE IF Given(TagOf(f), "optional") THEN {} ELSE {<<>>}
CellsOf(f, name, asks, resp) ==
    [k \in 1..SizeOf(f.type) |-> IF asks /\ name \in DOMAIN resp THEN <<resp[name].id, k>> ELSE <<"zero", 0>>]

\* What r must be when the fields in asks ask and those in bad do not fit.
FailsAt(r, f, resp) == r.out.path \in {<<Sym(NameOf(f))>> \o m : m \in Unfit(f, NameOf(f), resp)}
ResultMeant(r, fs, asks, bad) ==
    IF bad # {}
    THEN /\ r.out.err = "validation"
         /\ ToSet(r.out.t) = {<<"zero", 0>>}
         /\ FailsAt(r, fs[Min(bad)], r.resp)
    ELSE /\ r.out.err = ""
         /\ r.out.t = FlattenSeq([i \in DOMAIN fs |-> CellsOf(fs[i], NameOf(fs[i]), i \in asks, r.resp)])
DecodedMeant(r, fs, asks) ==
    ResultMeant(r, fs, asks, {i \in asks : Unfit(fs[i], NameOf(fs[i]), r.resp) # {}})

(***************************************************************************)
(* DecodeAs gives each answer field the answer under its own name, and     *)
(* leaves every other field and an absent optional one zero; when an       *)
(* answer does not fit, it fails for the first field in T's order that     *)
(* does not fit, at a path of that answer, and gives the zero T.           *)
(***************************************************************************)
TypedAsMeant ==
    \A g \in DOMAIN results :
        LET r  == results[g]
            fs == Underlying(r.type).fields
        IN  r # NoResult =>
              IF r.plan.err # ""
              THEN r.out.err = "config" /\ ToSet(r.out.t) \subseteq {<<"zero", 0>>}
              ELSE DecodedMeant(r, fs, AskingFields(fs))
=============================================================================
