------------------------------ MODULE Decoder ------------------------------
(***************************************************************************)
(* The response decoder of internal/codec (visitor.go, commit.go,          *)
(* decode.go, lazy.go): one pooled decoder that decodes one body after     *)
(* another.                                                                *)
(*                                                                         *)
(* sonic (external) walks the body and calls the visitor once per token.   *)
(* The visitor keeps no tree: it knows what the next value means (slot),   *)
(* which containers it is reading (stack), how deep it is inside one it    *)
(* does not read (ign), and what it has collected so far.  The traversal   *)
(* first runs over the body cut before its last brace; when that does not  *)
(* end exactly between two root members, it runs again over the whole      *)
(* body.  finish then reports the first failure in the Python SDK's order, *)
(* or the answers, after a second pass over the tree for legend levels     *)
(* that are objects or arrays.                                             *)
(*                                                                         *)
(* A callback is an operator from a visitor to a visitor and an error.     *)
(* Strings and numbers are small sets of spellings (JSONText).  interning  *)
(* replaces strings by equal ones, so it has no counterpart here.          *)
(***************************************************************************)
EXTENDS JSONText, FiniteSets, FiniteSetsExt, TLC

CONSTANTS
    Bodies,       \* the bodies the decoder is given: a set of families of them
    MaxNesting,   \* maxNesting: the deepest nesting a body may have (4096)
    LinearSet,    \* linearSet: the answers up to which the set is scanned (8)
    MaxSkipped    \* MaxSkipped: the skipped answers reported by name (8)

ASSUME DecoderAssumption ==
    /\ MaxNesting \in Nat /\ MaxNesting > 4
    /\ LinearSet \in Nat
    /\ MaxSkipped \in Nat

VARIABLES
    body,    \* the body being decoded, or NoBody
    toks,    \* its tokens
    phase,   \* idle (in the pool), cut, whole, finish, done
    at,      \* the tokens delivered so far
    v,       \* the visitor
    raws,    \* the structured levels the lazy pass found, per answer and level
    out      \* what the decode returned

vars == <<body, toks, phase, at, v, raws, out>>

NoBody == [mode |-> "none", root |-> Null, tail |-> "clean"]

-----------------------------------------------------------------------------
(* Failures: where and why.                                                *)

FieldPath(top, index, name, member, key) ==
    [Top |-> top, Index |-> index, Name |-> name, Member |-> member, Key |-> key]

RootPath == FieldPath("", -1, "", "", "")

NoPend == [path |-> RootPath, err |-> "nil"]

AnswerPend(name, member, err) ==
    [path |-> FieldPath("answers", -1, name, member, ""), err |-> err]
KeyPend(name, member, key, err) ==
    [path |-> FieldPath("answers", -1, name, member, key), err |-> err]
TopPend(top, member, err) ==
    [path |-> FieldPath(top, -1, "", member, ""), err |-> err]
CardPend(index, member, err) ==
    [path |-> FieldPath("models", index, "", member, ""), err |-> err]

-----------------------------------------------------------------------------
(* The schema.                                                             *)

MaxDepth == 4

Schema == [noul   |-> <<"noul">>,
           choice |-> <<"choice", "confidence", "probabilities">>,
           score  |-> <<"score", "confidence", "legend", "probabilities">>]

Members == {"type", "noul", "choice", "confidence", "score", "probabilities", "legend"}

CardSchema == <<"name", "description", "release_date">>

\* A type this version does not model is kind "unknown".
KindOf(typ) == IF typ \in DOMAIN Schema THEN typ ELSE "unknown"

WrongKindErr(m) ==
    CASE m \in {"choice", "type"}          -> "notString"
      [] m \in {"probabilities", "legend"} -> "notObject"
      [] OTHER                             -> "notNumber"

\* "1", "01" and "+1" spell one level.  NoLevel is a key that is not a level.
NoLevel == ""
ParseLevel(key) ==
    CASE key = "0"                 -> "0"
      [] key \in {"1", "01", "+1"} -> "1"
      [] key \in {"2", "02"}       -> "2"
      [] OTHER                     -> NoLevel

-----------------------------------------------------------------------------
(* The visitor's state.                                                    *)

NoAnswer(name) == [name |-> name, typ |-> "", noul |-> "", confidence |-> "",
                   score |-> "", choice |-> "", has |-> {}, wrong |-> {}]

NoCard == [name |-> "", description |-> "", release_date |-> ""]

\* What an answer decodes to, before any member is stored.
NoValue == [noul |-> "", choice |-> "", confidence |-> "", score |-> "",
            legend |-> <<>>, probabilities |-> <<>>]

NoEntry(name) == [name |-> name, typ |-> "", kind |-> "unknown", ans |-> NoValue,
                  err |-> NoPend, structured |-> 0]

\* The zero visitor of a decoder the pool has just made.
ZeroVisitor ==
    [slot |-> "none", ign |-> 0, ignSlot |-> "none", stack |-> <<>>, peak |-> 0,
     hasModel |-> FALSE, model |-> "", modelErr |-> NoPend,
     hasUsage |-> FALSE, usageErr |-> NoPend, input |-> "absent", output |-> "absent",
     inBad |-> FALSE, outBad |-> FALSE, answersErr |-> NoPend,
     cur |-> NoAnswer(""), curKey |-> "", set |-> <<>>, setIdx |-> <<>>, idxOn |-> FALSE,
     probs |-> <<>>, legend |-> <<>>,
     cards |-> <<>>, card |-> NoCard, cardHas |-> {}, cardBad |-> {},
     cardsErr |-> NoPend, hasCards |-> FALSE]

\* A repeated "answers" member starts an empty set, and an empty index.
ResetAnswers(w) ==
    [w EXCEPT !.set = <<>>, !.idxOn = FALSE,
              !.setIdx = IF w.idxOn THEN <<>> ELSE @]

\* A visitor ready for a new body: the index is what resetAnswers leaves.
Reset(w) == [ZeroVisitor EXCEPT !.slot = "root", !.setIdx = ResetAnswers(w).setIdx]

\* The mark of a legend level whose bytes the lazy pass finds.
StructuredMark == [k |-> "structured"]

Pair(key, val, bad) == [key |-> key, val |-> val, bad |-> bad]

MemberOK(w, m) == [w EXCEPT !.cur.has = @ \cup {m}, !.cur.wrong = @ \ {m}]
MemberWrong(w, m) == [w EXCEPT !.cur.wrong = @ \cup {m}, !.cur.has = @ \ {m}]

-----------------------------------------------------------------------------
(* The answer set: a repeated name keeps its first position and takes the  *)
(* last value.  Past LinearSet names an index replaces the scan.           *)

Find(w, name) ==
    IF w.idxOn THEN IF name \in DOMAIN w.setIdx THEN w.setIdx[name] ELSE 0
    ELSE SelectInSeq(w.set, LAMBDA e : e.name = name)

Put(w, e) ==
    LET i   == Find(w, e.name)
        set == Append(w.set, e)
        idx == CASE w.idxOn             -> (e.name :> Len(set)) @@ w.setIdx
                 [] ~w.idxOn /\ Len(set) > LinearSet ->
                      [x \in {set[n].name : n \in DOMAIN set} |->
                          CHOOSE n \in DOMAIN set : set[n].name = x] @@ w.setIdx
                 [] OTHER               -> w.setIdx
    IN  IF i > 0 THEN [w EXCEPT !.set[i] = e]
        ELSE [w EXCEPT !.set = set, !.setIdx = idx,
                       !.idxOn = @ \/ Len(set) > LinearSet]

-----------------------------------------------------------------------------
(* foldLegend, foldLevels and foldLabels fold a list in the same way: one  *)
(* entry per level (or label), at the position of its first occurrence,    *)
(* with the value of its last.                                             *)
(* badKey is the first key that is not a level; mixed says that a level    *)
(* was spelled in two ways.                                                *)

\* What a key of a folded list stands for: a level, or the label it is.
KeyId(levels, key) == IF levels THEN ParseLevel(key) ELSE key

FoldEntries(list, levels) ==
    LET step(acc, i) ==
            LET l  == list[i]
                id == KeyId(levels, l.key)
                j  == SelectInSeq(acc.ents, LAMBDA f : f.id = id)
            IN  IF id = NoLevel THEN [acc EXCEPT !.badKey = IF @ = 0 THEN i ELSE @]
                ELSE IF j > 0 THEN
                    [acc EXCEPT !.mixed = @ \/ list[acc.ents[j].first].key # l.key,
                                !.ents[j].val = l.val, !.ents[j].bad = l.bad]
                ELSE [acc EXCEPT !.ents = Append(@, [id |-> id, first |-> i,
                                                     val |-> l.val, bad |-> l.bad])]
    IN  FoldLeftDomain(step, [ents |-> <<>>, badKey |-> 0, mixed |-> FALSE], list)

\* The first failure of a folded list: a key that is not a level, or an
\* entry whose last value is bad, at the position where it first appeared.
FirstFailure(badKey, ents) ==
    LET j == SelectInSeq(ents, LAMBDA f : f.bad)
    IN  IF j > 0 /\ (badKey = 0 \/ ents[j].first < badKey)
        THEN [pos |-> ents[j].first, isKey |-> FALSE]
        ELSE [pos |-> badKey, isKey |-> badKey > 0]

\* The first failure of a list that spells a level in several ways: each
\* spelling's last value counts, at the spelling's first position.
SpellingFailure(list) ==
    LET last(i)  == SelectLastInSeq(list, LAMBDA l : l.key = list[i].key)
        isFirst(i) == SelectInSeq(list, LAMBDA l : l.key = list[i].key) = i
        noLevel(i) == ParseLevel(list[i].key) = NoLevel
        failing  == {i \in DOMAIN list : isFirst(i) /\ (noLevel(i) \/ list[last(i)].bad)}
    IN  IF failing = {} THEN [pos |-> 0, isKey |-> FALSE]
        ELSE [pos |-> Min(failing), isKey |-> noLevel(Min(failing))]

FoldFailure(name, m, list, levels, err) ==
    LET f == FoldEntries(list, levels)
        p == IF f.mixed THEN SpellingFailure(list) ELSE FirstFailure(f.badKey, f.ents)
    IN  IF p.pos = 0 THEN NoPend
        ELSE KeyPend(name, m, list[p.pos].key, IF p.isKey THEN "notLevel" ELSE err)

\* What a folded list leaves in the answer.
FoldedList(list, levels) ==
    LET ents == FoldEntries(list, levels).ents
    IN  [i \in DOMAIN ents |-> [id |-> ents[i].id, val |-> ents[i].val]]

\* The failure of one member of the answer being committed, or NoPend.
MemberFailure(w, kind, m) ==
    CASE m \in w.cur.wrong    -> AnswerPend(w.cur.name, m, WrongKindErr(m))
      [] m \notin w.cur.wrong /\ m \notin w.cur.has -> AnswerPend(w.cur.name, m, "missing")
      [] m \in w.cur.has /\ m = "legend" ->
            FoldFailure(w.cur.name, m, w.legend, TRUE, "legendValue")
      [] m \in w.cur.has /\ m = "probabilities" /\ kind = "choice" ->
            FoldFailure(w.cur.name, m, w.probs, FALSE, "notNumber")
      [] m \in w.cur.has /\ m = "probabilities" /\ kind = "score" ->
            FoldFailure(w.cur.name, m, w.probs, TRUE, "notNumber")
      [] OTHER -> NoPend

\* The value of an answer none of whose members fails.
AnswerValue(w, kind) ==
    LET a == w.cur IN
    CASE kind = "noul"   -> [NoValue EXCEPT !.noul = a.noul]
      [] kind = "choice" -> [NoValue EXCEPT !.choice = a.choice, !.confidence = a.confidence,
                                            !.probabilities = FoldedList(w.probs, FALSE)]
      [] kind = "score"  -> [NoValue EXCEPT !.score = a.score, !.confidence = a.confidence,
                                            !.legend = FoldedList(w.legend, TRUE),
                                            !.probabilities = FoldedList(w.probs, TRUE)]

\* The end of an answer object: its value or its first failure in schema
\* order replaces any earlier answer of the same name.
CommitAnswer(w) ==
    LET a    == w.cur
        e    == NoEntry(a.name)
        kind == KindOf(a.typ)
    IN  IF "type" \in a.wrong THEN
            Put(w, [e EXCEPT !.typ = a.typ, !.err = AnswerPend(a.name, "type", "notString")])
        ELSE IF "type" \notin a.has THEN
            Put(w, [e EXCEPT !.typ = a.typ, !.err = AnswerPend(a.name, "type", "missing")])
        ELSE IF kind = "unknown" THEN Put(w, [e EXCEPT !.typ = a.typ])
        ELSE LET fails == SelectInSeq(Schema[kind], LAMBDA m : MemberFailure(w, kind, m) # NoPend)
                 val   == AnswerValue(w, kind)
             IN  IF fails > 0
                 THEN Put(w, [e EXCEPT !.kind = kind,
                                       !.err = MemberFailure(w, kind, Schema[kind][fails])])
                 ELSE Put(w, [e EXCEPT !.kind = kind, !.ans = val,
                                       !.structured = Cardinality({j \in DOMAIN val.legend :
                                                         val.legend[j].val = StructuredMark})])

\* Variant: a later failing card replaces the failure of an earlier one.
CommitCardLastFails(w) ==
    LET m == SelectInSeq(CardSchema, LAMBDA x : x \notin w.cardHas)
    IN  [w EXCEPT !.cards = Append(@, w.card),
                  !.cardsErr =
                     IF m = 0 THEN @
                     ELSE CardPend(Len(w.cards), CardSchema[m],
                                   IF CardSchema[m] \in w.cardBad THEN "notString" ELSE "missing")]

\* The end of a model card: the first card that fails is the list's failure.
CommitCard(w) ==
    LET m == SelectInSeq(CardSchema, LAMBDA x : x \notin w.cardHas)
    IN  [w EXCEPT !.cards = Append(@, w.card),
                  !.cardsErr =
                     IF @ # NoPend \/ m = 0 THEN @
                     ELSE CardPend(Len(w.cards), CardSchema[m],
                                   IF CardSchema[m] \in w.cardBad THEN "notString" ELSE "missing")]

-----------------------------------------------------------------------------
(* The callbacks.                                                          *)

Ret(w, err) == [v |-> w, err |-> err]

Push(w, c) == IF Len(w.stack) = MaxDepth THEN Ret(w, "readDepth")
              ELSE Ret([w EXCEPT !.stack = Append(@, c)], "nil")

\* The next value of a models array is a card.
NextCard(w) ==
    IF w.stack # <<>> /\ Last(w.stack) = "models" THEN [w EXCEPT !.slot = "card"] ELSE w

\* A value of the wrong kind in slot s.  For a legend level an object or an
\* array (container) is the structured form, which is right.
WrongKind(w, s, container) ==
    CASE s = "model"   -> [w EXCEPT !.hasModel = TRUE, !.modelErr = TopPend("model", "", "notString")]
      [] s = "usage"   -> [w EXCEPT !.hasUsage = TRUE, !.usageErr = TopPend("usage", "", "notObject")]
      [] s = "answers" -> [ResetAnswers(w) EXCEPT !.answersErr = TopPend("answers", "", "notObject")]
      [] s = "input_tokens"  -> [w EXCEPT !.input = "absent", !.inBad = TRUE]
      [] s = "output_tokens" -> [w EXCEPT !.output = "absent", !.outBad = TRUE]
      [] s = "answer"  -> Put(w, [NoEntry(w.curKey) EXCEPT
                                    !.err = AnswerPend(w.curKey, "type", "notObject")])
      [] s \in Members -> MemberWrong(w, s)
      [] s = "probValue"   -> [w EXCEPT !.probs = Append(@, Pair(w.curKey, "0", TRUE))]
      [] s = "legendValue" -> [w EXCEPT !.legend = Append(@, Pair(w.curKey,
                                    IF container THEN StructuredMark ELSE Str(""), ~container))]
      [] s = "models"  -> [w EXCEPT !.cards = <<>>, !.hasCards = TRUE,
                                    !.cardsErr = TopPend("models", "", "notArray")]
      [] s = "card"    -> [w EXCEPT !.cards = Append(@, NoCard),
                                    !.cardsErr = IF @ # NoPend THEN @
                                                 ELSE CardPend(Len(w.cards), "", "notObject")]
      [] s \in ToSet(CardSchema) -> [w EXCEPT !.cardBad = @ \cup {s}, !.cardHas = @ \ {s}]
      [] OTHER -> w

\* A container the visitor reads opens in slot s: what it collects is empty.
Opened(w, s) ==
    CASE s = "usage"   -> [w EXCEPT !.hasUsage = TRUE, !.usageErr = NoPend, !.input = "absent",
                                    !.output = "absent", !.inBad = FALSE, !.outBad = FALSE]
      [] s = "answers" -> [ResetAnswers(w) EXCEPT !.answersErr = NoPend]
      [] s = "answer"  -> [w EXCEPT !.cur = NoAnswer(w.curKey)]
      [] s = "probabilities" -> [MemberOK(w, s) EXCEPT !.probs = <<>>]
      [] s = "legend"  -> [MemberOK(w, s) EXCEPT !.legend = <<>>]
      [] s = "models"  -> [w EXCEPT !.cards = <<>>, !.hasCards = TRUE, !.cardsErr = NoPend,
                                    !.slot = "card"]
      [] s = "card"    -> [w EXCEPT !.card = NoCard, !.cardHas = {}, !.cardBad = {}]
      [] OTHER         -> w

\* The containers the visitor reads: "models" is an array, the others are objects.
Reads(s, isObj) ==
    IF isObj THEN s \in {"usage", "answers", "answer", "probabilities", "legend", "card"}
    ELSE s = "models"

\* Variant: a container inside an ignored one is not counted.

Begin(w, isObj) ==
    LET deep == Len(w.stack) + w.ign
        u    == [w EXCEPT !.peak = Max({@, deep + 1})]
        n    == [u EXCEPT !.slot = "none"]
    IN  IF deep >= MaxNesting THEN Ret(w, "depth")
        ELSE IF w.ign > 0 THEN Ret([u EXCEPT !.ign = @ + 1], "nil")
        ELSE IF w.slot = "root" THEN IF isObj THEN Push(n, "root") ELSE Ret(n, "rootNotObject")
        ELSE IF Reads(w.slot, isObj) THEN Push(Opened(n, w.slot), w.slot)
        ELSE Ret([n EXCEPT !.ign = 1, !.ignSlot = w.slot], "nil")

End(w) ==
    LET popped == [w EXCEPT !.stack = Front(@)]
        c      == Last(w.stack)
    IN  IF w.ign > 1 THEN Ret([w EXCEPT !.ign = @ - 1], "nil")
        ELSE IF w.ign = 1 THEN
            Ret(NextCard(WrongKind([w EXCEPT !.ign = 0], w.ignSlot, TRUE)), "nil")
        ELSE CASE c = "answer" -> Ret(NextCard(CommitAnswer(popped)), "nil")
               [] c = "card"   -> Ret(NextCard(CommitCard(popped)), "nil")
               [] c = "models" -> Ret([popped EXCEPT !.slot = "none"], "nil")
               [] OTHER        -> Ret(NextCard(popped), "nil")

\* A scalar in the slot it was met in: stored, or a value of the wrong kind.
Assign(w, t) ==
    LET s == w.slot
        n == NextCard([w EXCEPT !.slot = "none"])
    IN  CASE s \in {"none", "ignore"}  -> n
          [] s = "model" /\ IsStr(t)   -> [n EXCEPT !.hasModel = TRUE, !.model = t.v, !.modelErr = NoPend]
          [] s = "input_tokens" /\ IsCount(t)  -> [n EXCEPT !.input = NumText(t.v), !.inBad = FALSE]
          [] s = "output_tokens" /\ IsCount(t) -> [n EXCEPT !.output = NumText(t.v), !.outBad = FALSE]
          [] s = "type" /\ IsStr(t)    -> MemberOK([n EXCEPT !.cur.typ = t.v], s)
          [] s = "choice" /\ IsStr(t)  -> MemberOK([n EXCEPT !.cur.choice = t.v], s)
          [] s \in {"noul", "confidence", "score"} /\ IsFloat(t) ->
                MemberOK([n EXCEPT !.cur[s] = NumText(t.v)], s)
          [] s = "probValue" ->
                [n EXCEPT !.probs = Append(@, Pair(w.curKey,
                             IF IsFloat(t) THEN NumText(t.v) ELSE "0", ~IsFloat(t)))]
          [] s = "legendValue" ->
                [n EXCEPT !.legend = Append(@, Pair(w.curKey,
                             Str(IF IsStr(t) THEN t.v ELSE ""), ~IsStr(t)))]
          [] s \in ToSet(CardSchema) /\ IsStr(t) ->
                [n EXCEPT !.card[s] = t.v, !.cardHas = @ \cup {s}, !.cardBad = @ \ {s}]
          [] OTHER -> WrongKind(n, s, FALSE)

\* Every string and every key is checked, read or not.
CheckString(s) ==
    CASE s = "utf8" -> "invalidUTF8"
      [] s \in {"raw", "esc"} /\ (\E i \in DOMAIN toks : toks[i].v = "raw") -> "rawControl"
      [] OTHER -> "nil"

\* A null is an absent token count, and a value of the wrong kind elsewhere.
OnNull(w) ==
    CASE w.ign = 0 /\ w.slot = "input_tokens"  -> [w EXCEPT !.input = "absent", !.inBad = FALSE, !.slot = "none"]
      [] w.ign = 0 /\ w.slot = "output_tokens" -> [w EXCEPT !.output = "absent", !.outBad = FALSE, !.slot = "none"]
      [] w.ign > 0 -> w
      [] OTHER     -> Assign(w, Null)

\* A string, a number or a literal.
Scalar(w, t) ==
    IF t.k = "str" /\ CheckString(t.v) # "nil" THEN Ret(w, CheckString(t.v))
    ELSE IF w.ign = 0 /\ w.slot = "root" THEN Ret(w, "rootNotObject")
    ELSE IF w.ign > 0 THEN Ret(w, "nil")
    ELSE Ret(IF t.k = "null" THEN OnNull(w) ELSE Assign(w, t), "nil")

\* A key says what the next value means, by the container it is in.
KeySlot(c, key) ==
    LET read == CASE c = "root"   -> IF body.mode = "models" THEN {"models"}
                                     ELSE {"model", "usage", "answers"}
                  [] c = "usage"  -> {"input_tokens", "output_tokens"}
                  [] c = "answer" -> Members
                  [] c = "card"   -> ToSet(CardSchema)
                  [] OTHER        -> {}
    IN  CASE c = "answers"       -> "answer"
          [] c = "probabilities" -> "probValue"
          [] c = "legend"        -> "legendValue"
          [] OTHER               -> IF key \in read THEN key ELSE "ignore"

OnObjectKey(w, key) ==
    IF CheckString(key) # "nil" THEN Ret(w, CheckString(key))
    ELSE IF w.ign > 0 THEN Ret(w, "nil")
    ELSE Ret([w EXCEPT !.curKey = key, !.slot = KeySlot(Last(w.stack), key)], "nil")

BetweenRootMembers(w) == w.stack = <<"root">> /\ w.ign = 0 /\ w.slot = "none"

-----------------------------------------------------------------------------
(* The traversal.                                                          *)

SkipDepth == MaxNesting - 1

\* The body may be cut before its last brace: the last byte is a brace, what
\* comes before it ends a container or a string or opens the root, every
\* string before it is closed, and the body is not too short for sonic.
CutPoint(ts) ==
    LET n == Len(ts) IN
    /\ n > 2
    /\ ts[n].k = "}"
    /\ ts[n - 1].k \in {"{", "}", "]", "str", "key"}

Limit == IF phase = "cut" THEN Len(toks) - 1 ELSE Len(toks)

\* sonic stops when the root value has ended, whatever follows it.
RootClosed == at > 0 /\ v.stack = <<>> /\ v.ign = 0

Traversing == phase \in {"cut", "whole"} /\ at < Limit /\ ~RootClosed

Tok == toks[at + 1]

\* The decode fails at the root: the JSON layer refused the body.
NoResult == [ok |-> FALSE, path |-> RootPath, err |-> "nil", named |-> <<>>, skipped |-> 0,
             model |-> "", input |-> "absent", output |-> "absent", answers |-> <<>>, cards |-> <<>>]

Failed(p) == [NoResult EXCEPT !.path = p.path, !.err = p.err]

\* A traversal that does not accept: the cut one is followed by one over the
\* whole body; that one's failure is the decode's.
Refuse(err) ==
    /\ IF phase = "cut"
       THEN /\ phase' = "whole" /\ at' = 0 /\ v' = Reset(v)
            /\ UNCHANGED out
       ELSE /\ phase' = "done" /\ out' = Failed([path |-> RootPath, err |-> err])
            /\ UNCHANGED <<at, v>>
    /\ UNCHANGED <<body, toks, raws>>

\* One callback: the traversal goes on, or stops at the callback's error.
Deliver(r) ==
    IF r.err # "nil" THEN Refuse(r.err)
    ELSE v' = r.v /\ at' = at + 1 /\ UNCHANGED <<body, toks, phase, raws, out>>

\* The decoder leaves the pool for a body (DecodeSystemOne, DecodeModels).
Decode(b) ==
    /\ body' = b
    /\ toks' = BodyTokens(b)
    /\ phase' = IF CutPoint(toks') THEN "cut" ELSE "whole"
    /\ v' = Reset(v) /\ at' = 0
    /\ UNCHANGED <<raws, out>>

Get == phase = "idle" /\ \E family \in Bodies : \E b \in family : Decode(b)

BeginContainer ==
    /\ Traversing /\ Tok.k \in {"{", "["}
    /\ Deliver(Begin(v, Tok.k = "{"))

\* A brace right after a key is not JSON, and neither is a string without end.
EndContainer ==
    /\ Traversing /\ Tok.k \in {"}", "]"}
    /\ IF toks[at].k = "key" THEN Refuse("syntax") ELSE Deliver(End(v))

ObjectKey ==
    /\ Traversing /\ Tok.k = "key"
    /\ Deliver(OnObjectKey(v, Tok.v))

ScalarValue ==
    /\ Traversing /\ Tok.k \in {"str", "num", "bool", "null"}
    /\ Deliver(Scalar(v, Tok))

UnclosedString ==
    /\ Traversing /\ Tok.k = "unclosed"
    /\ Refuse("syntax")

\* The input ends inside the root (errCut).  A cut traversal that stands
\* between two root members is handed the root's end, and the body is done.
InputEnds ==
    /\ phase \in {"cut", "whole"} /\ at = Limit /\ ~RootClosed
    /\ IF phase = "cut" /\ BetweenRootMembers(v) /\ v.peak <= SkipDepth
       THEN /\ v' = End(v).v /\ phase' = "finish"
            /\ UNCHANGED <<body, toks, at, raws, out>>
       ELSE Refuse("eof")

\* decoder.Skip takes a container nested MaxNesting deep only when it holds
\* no member and at most one element.
SkipAccepts(ts) ==
    \A i \in DOMAIN ts :
        (ts[i].k \in {"{", "["} /\ OpenAfter(ts, i) = MaxNesting)
            => /\ i < Len(ts) /\ ts[i + 1].k # "key"
               /\ ts[i + 1].k \in {"}", "]"} \/ (i + 1 < Len(ts) /\ ts[i + 2].k = "]")

\* The root has ended: before the cut, so the whole body is read instead, or
\* in the whole body, so the trailing-data check decides.
RootEnds ==
    /\ phase \in {"cut", "whole"} /\ RootClosed
    /\ IF phase = "whole" /\ SkipAccepts(toks) /\ at = Len(toks)
       THEN phase' = "finish" /\ UNCHANGED <<body, toks, at, v, raws, out>>
       ELSE Refuse(IF SkipAccepts(toks) THEN "trailing" ELSE "notJSON")

-----------------------------------------------------------------------------
(* finish: the first failure in the Python SDK's order, or the result.     *)

\* The second pass: the last "answers" member of the root, in it the last
\* member of each marked name, its last "legend", and the last value of each
\* structured level there.
Lazy(w) ==
    LET answers  == LastOf(body.root, "answers")
        node(i)  == answers.m[SelectLastInSeq(answers.m, LAMBDA p : Find(w, p.key) = i)].val
        legend(i) == LastOf(node(i), "legend")
        raw(i, id) == LET ms == legend(i).m
                          j  == SelectLastInSeq(ms, LAMBDA p : ParseLevel(p.key) = id)
                      IN  IF j = 0 THEN StructuredMark ELSE ms[j].val
    IN  [i \in {x \in DOMAIN w.set : w.set[x].structured > 0} |->
            [j \in DOMAIN w.set[i].ans.legend |->
                IF w.set[i].ans.legend[j].val = StructuredMark
                THEN raw(i, w.set[i].ans.legend[j].id) ELSE Null]]

\* The answer with the bytes of its structured levels in place.
WithRaws(ans, rs) ==
    [ans EXCEPT !.legend = [j \in DOMAIN @ |->
        IF @[j].val = StructuredMark THEN [@[j] EXCEPT !.val = rs[j]] ELSE @[j]]]

\* The first failure of the top-level members, in schema order.
TopFailure(w) ==
    IF ~w.hasModel THEN TopPend("model", "", "missing")
    ELSE IF w.modelErr # NoPend THEN w.modelErr
    ELSE IF ~w.hasUsage THEN TopPend("usage", "", "missing")
    ELSE IF w.usageErr # NoPend THEN w.usageErr
    ELSE IF w.inBad THEN TopPend("usage", "input_tokens", "notCount")
    ELSE IF w.outBad THEN TopPend("usage", "output_tokens", "notCount")
    ELSE w.answersErr

FinishSystemOne ==
    /\ phase = "finish" /\ body.mode = "systemOne"
    /\ LET typeErr  == SelectInSeq(v.set, LAMBDA e : e.err.path.Member = "type")
           seen     == IF typeErr > 0 THEN SubSeq(v.set, 1, typeErr - 1) ELSE v.set
           unknown  == SelectSeq(seen, LAMBDA e : e.err = NoPend /\ e.kind = "unknown")
           named    == [i \in 1..Min({Len(unknown), MaxSkipped}) |-> unknown[i].name]
           ansErr   == SelectInSeq(v.set, LAMBDA e : e.err # NoPend)
           failure  == IF typeErr > 0 THEN v.set[typeErr].err
                       ELSE IF TopFailure(v) # NoPend THEN TopFailure(v)
                       ELSE IF ansErr > 0 THEN v.set[ansErr].err
                       ELSE NoPend
           lazy     == \E i \in DOMAIN v.set : v.set[i].structured > 0
           found    == IF failure = NoPend /\ lazy THEN Lazy(v) ELSE <<>>
           missed   == \E i \in DOMAIN found : \E j \in DOMAIN found[i] : found[i][j] = StructuredMark
           value(i) == IF i \in DOMAIN found THEN WithRaws(v.set[i].ans, found[i]) ELSE v.set[i].ans
           all      == [i \in DOMAIN v.set |->
                          [name |-> v.set[i].name, kind |-> v.set[i].kind, ans |-> value(i)]]
           result   == IF failure # NoPend THEN Failed(failure)
                       ELSE IF missed THEN Failed([path |-> RootPath, err |-> "lazyMissed"])
                       ELSE [NoResult EXCEPT !.ok = TRUE, !.model = v.model,
                                !.input = v.input, !.output = v.output,
                                !.answers = SelectSeq(all, LAMBDA a : a.kind # "unknown")]
       IN  /\ out' = [result EXCEPT !.named = named, !.skipped = Len(unknown)]
           /\ raws' = found
    /\ phase' = "done"
    /\ UNCHANGED <<body, toks, at, v>>

FinishModels ==
    /\ phase = "finish" /\ body.mode = "models"
    /\ out' = IF ~v.hasCards THEN Failed(TopPend("models", "", "missing"))
              ELSE IF v.cardsErr # NoPend THEN Failed(v.cardsErr)
              ELSE [NoResult EXCEPT !.ok = TRUE, !.cards = v.cards]
    /\ phase' = "done"
    /\ UNCHANGED <<body, toks, at, v, raws>>

\* The decoder goes back to the pool without a reference into the body; past
\* the scratch ceiling its scratch is dropped as well.
Release ==
    /\ phase = "done"
    /\ v' \in {Reset(v), ZeroVisitor}
    /\ raws' = <<>>
    /\ phase' = "idle" /\ body' = NoBody /\ toks' = <<>> /\ at' = 0 /\ out' = NoResult

-----------------------------------------------------------------------------
Init ==
    /\ phase = "idle" /\ body = NoBody /\ toks = <<>> /\ at = 0
    /\ v = ZeroVisitor /\ raws = <<>> /\ out = NoResult

\* The steps of one decode: the traversal, and finish.
Work ==
    \/ BeginContainer \/ EndContainer \/ ObjectKey \/ ScalarValue \/ UnclosedString
    \/ InputEnds \/ RootEnds
    \/ FinishSystemOne \/ FinishModels

Next == Get \/ Work \/ Release

Spec == Init /\ [][Next]_vars
=============================================================================
