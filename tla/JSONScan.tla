------------------------------ MODULE JSONScan ------------------------------
(***************************************************************************)
(* The JSON that requests are written with: internal/wire/json.go and      *)
(* internal/engine/falsy.go.                                               *)
(*                                                                         *)
(* A text is a sequence of symbols.  A symbol is one character, or a run   *)
(* of characters that no operation here tells apart or splits: a name such *)
(* as "state", or a literal.  "_" is white space, "ctl" a control          *)
(* character with a short escape (a line feed), "ctl1" one without (U+0001) *)
(* and "bad" a byte that is not valid UTF-8.  "trux" is a misspelt         *)
(* literal.  A Go string is a sequence of symbols too, its characters.     *)
(***************************************************************************)
EXTENDS Integers, Sequences, FiniteSets, SequencesExt

CONSTANT MaxValueDepth  \* maxValueDepth, the nesting a raw field may have

ASSUME MaxValueDepthAssumption == MaxValueDepth \in Nat

Quote     == "\""
Backslash == "\\"
Digits    == {"0", "1", "2", "3", "4", "5", "6", "7", "8", "9"}
Hex       == Digits \cup {"a", "b", "c", "d", "e", "f"}
Escapes   == {Quote, Backslash, "/", "b", "f", "n", "r", "t"}
Literals  == {"true", "false", "null"}

\* The symbol at i, or "" past either end.
At(raw, i) == IF i \in DOMAIN raw THEN raw[i] ELSE ""

\* What a writer returns: the text so far, and why it failed ("" when it did not).
Wrote(dst)       == [out |-> dst, err |-> ""]
Refused(dst, er) == [out |-> dst, err |-> er]

\* The characters one character of a string is written as.
Escaped(c) ==
    CASE c \in {Quote, Backslash} -> <<Backslash, c>>
      [] c = "ctl"                -> <<Backslash, "n">>
      [] c = "ctl1"               -> <<Backslash, "u", "0", "0", "0", "1">>
      [] OTHER                    -> <<c>>

AppendString(dst, s) ==
    IF "bad" \in ToSet(s)
    THEN Refused(dst, "utf8")
    ELSE Wrote(dst \o <<Quote>> \o FlattenSeq([i \in DOMAIN s |-> Escaped(s[i])]) \o <<Quote>>)

RECURSIVE SkipSpace(_, _)
SkipSpace(raw, i) == IF At(raw, i) = "_" THEN SkipSpace(raw, i + 1) ELSE i

RECURSIVE SkipDigits(_, _)
SkipDigits(raw, i) == IF At(raw, i) \in Digits THEN SkipDigits(raw, i + 1) ELSE i

(***************************************************************************)
(* The tokens.  Each operator returns the offset just past the token, or 0 *)
(* when the text there is not one; At gives nothing at 0, so a failed part *)
(* of a number makes the rest of it fail.                                  *)
(***************************************************************************)

\* From j, inside a string whose opening quote has been read.
RECURSIVE StringEnd(_, _)
StringEnd(raw, j) ==
    LET c == At(raw, j) IN
    IF c = Quote THEN j + 1
    ELSE IF c = Backslash
    THEN CASE At(raw, j + 1) \in Escapes -> StringEnd(raw, j + 2)
           [] At(raw, j + 1) = "u" ->
                IF \A k \in 2..5 : At(raw, j + k) \in Hex THEN StringEnd(raw, j + 6) ELSE 0
           [] OTHER -> 0
    ELSE IF c \in {"", "ctl", "ctl1", "bad"} THEN 0
    ELSE StringEnd(raw, j + 1)

\* The three parts of a number.
IntegerEnd(raw, i) ==
    CASE At(raw, i) = "0"              -> i + 1
      [] At(raw, i) \in Digits \ {"0"} -> SkipDigits(raw, i + 1)
      [] OTHER                         -> 0
FractionEnd(raw, i) ==
    LET past == SkipDigits(raw, i + 1)
    IN  IF At(raw, i) # "." THEN i ELSE IF past = i + 1 THEN 0 ELSE past
ExponentEnd(raw, i) ==
    LET k    == IF At(raw, i + 1) \in {"+", "-"} THEN i + 2 ELSE i + 1
        past == SkipDigits(raw, k)
    IN  IF At(raw, i) \notin {"e", "E"} THEN i ELSE IF past = k THEN 0 ELSE past

NumberEnd(raw, i) ==
    ExponentEnd(raw, FractionEnd(raw, IntegerEnd(raw, IF At(raw, i) = "-" THEN i + 1 ELSE i)))

\* The scalar that starts at i.
ScalarEnd(raw, i) ==
    LET c == At(raw, i) IN
    CASE c = Quote                -> StringEnd(raw, i + 1)
      [] c \in Literals           -> i + 1
      [] c \in Digits \cup {"-"}  -> NumberEnd(raw, i)
      [] OTHER                    -> 0

\* A member's name, the colon after it and the white space around the colon:
\* the text they are written as and the offset of the member's value, 0 when
\* they are not there.
MemberName(raw, i) ==
    LET j     == IF At(raw, i) = Quote THEN StringEnd(raw, i + 1) ELSE 0
        colon == SkipSpace(raw, j)
    IN  IF j = 0 \/ At(raw, colon) # ":"
        THEN [text |-> <<>>, at |-> 0]
        ELSE [text |-> Append(SubSeq(raw, i, j - 1), ":"), at |-> SkipSpace(raw, colon + 1)]

(***************************************************************************)
(* AppendJSON: one pass with a stack of the open containers.  ScanValue    *)
(* reads a value that starts at i, ScanNext what follows a value that      *)
(* ended before i, and ScanMember a member's name and then its value.  On  *)
(* a failure dst is given back as it was (n0 symbols of it).               *)
(***************************************************************************)
SyntaxError(dst, n0) == Refused(SubSeq(dst, 1, n0), "syntax")

RECURSIVE ScanValue(_, _, _, _, _)
RECURSIVE ScanNext(_, _, _, _, _)
RECURSIVE ScanMember(_, _, _, _, _)

ScanValue(raw, dst, n0, i, stack) ==
    LET c   == At(raw, i)
        j   == SkipSpace(raw, i + 1)
        end == IF c = "{" THEN "}" ELSE "]"
        k   == ScalarEnd(raw, i)
    IN  IF c \in {"{", "["}
        THEN CASE At(raw, j) = end -> ScanNext(raw, dst \o <<c, end>>, n0, j + 1, stack)
               [] At(raw, j) # end /\ c = "{" ->
                    ScanMember(raw, Append(dst, c), n0, j, Append(stack, c))
               [] OTHER -> ScanValue(raw, Append(dst, c), n0, j, Append(stack, c))
        ELSE IF k = 0 THEN SyntaxError(dst, n0)
        ELSE ScanNext(raw, dst \o SubSeq(raw, i, k - 1), n0, k, stack)

ScanMember(raw, dst, n0, i, stack) ==
    LET name == MemberName(raw, i) IN
    IF name.at = 0 THEN SyntaxError(dst, n0)
    ELSE ScanValue(raw, dst \o name.text, n0, name.at, stack)

ScanNext(raw, dst, n0, from, stack) ==
    LET i == SkipSpace(raw, from)
        c == At(raw, i)
        j == SkipSpace(raw, i + 1)
    IN  CASE stack = <<>> -> IF c = "" THEN Wrote(dst) ELSE SyntaxError(dst, n0)
          [] stack # <<>> /\ c = "," ->
               IF Last(stack) = "{"
               THEN ScanMember(raw, Append(dst, c), n0, j, stack)
               ELSE ScanValue(raw, Append(dst, c), n0, j, stack)
          [] stack # <<>> /\ <<Last(stack), c>> \in {<<"{", "}">>, <<"[", "]">>} ->
               ScanNext(raw, Append(dst, c), n0, i + 1, Front(stack))
          [] OTHER -> SyntaxError(dst, n0)

AppendJSON(dst, raw) == ScanValue(raw, dst, Len(dst), SkipSpace(raw, 1), <<>>)

(***************************************************************************)
(* Content: unset, text, or JSON.  The JSON is kept by reference, a cell   *)
(* of the memory the caller still holds, or a span of a finished set's own *)
(* bytes (entries of a Levels table, once Finish has run).                 *)
(***************************************************************************)
Unset            == [form |-> "unset"]
Text(s)          == [form |-> "text", s |-> s]
JSON(ref)        == [form |-> "json", ref |-> ref]
SpanOf(from, to) == [form |-> "span", from |-> from, to |-> to]
IsJSON(c)        == c.form \in {"json", "span"}

\* JSON content: its first symbol after white space opens an object or array.
AppendContent(dst, c, mem) ==
    IF c.form = "text" THEN AppendString(dst, c.s)
    ELSE IF At(mem[c.ref], SkipSpace(mem[c.ref], 1)) \notin {"{", "["}
    THEN Refused(dst, "shape")
    ELSE AppendJSON(dst, mem[c.ref])

(***************************************************************************)
(* Floats.  A float is its shortest decimal digits d1 d2 ... and the       *)
(* exponent of the first one (strconv's 'e' form), with no digits for      *)
(* zero; "nan" stands for NaN and the infinities.                          *)
(***************************************************************************)
DigitOf == <<"1", "2", "3", "4", "5", "6", "7", "8", "9">>
NatText(n) == IF n < 10 THEN <<DigitOf[n]>>
              ELSE <<DigitOf[n \div 10]>> \o (IF n % 10 = 0 THEN <<"0">> ELSE <<DigitOf[n % 10]>>)
Zeros(n) == [i \in 1..n |-> "0"]

FloatText(d, e) ==
    LET frac == Tail(d) IN
    CASE d = <<>> -> <<"0", ".", "0">>
      [] d # <<>> /\ (e < -5 \/ e > 15) ->
           <<d[1]>> \o (IF frac = <<>> THEN <<>> ELSE <<".">> \o frac)
                    \o <<"e">> \o (IF e < 0 THEN <<"-">> \o NatText(-e) ELSE <<"+">> \o NatText(e))
      [] d # <<>> /\ e \in -5..-1 -> <<"0", ".">> \o Zeros(-e - 1) \o d
      [] d # <<>> /\ e \in 0..15 /\ Len(frac) <= e -> d \o Zeros(e - Len(frac)) \o <<".", "0">>
      [] OTHER -> <<d[1]>> \o SubSeq(frac, 1, e) \o <<".">> \o SubSeq(frac, e + 1, Len(frac))

AppendFloat(dst, f) ==
    IF f.d = <<"nan">> THEN Refused(dst, "value")
    ELSE Wrote(dst \o (IF f.neg THEN <<"-">> ELSE <<>>) \o FloatText(f.d, f.e))

(***************************************************************************)
(* FalsyJSON: whether Python finds the JSON value false, from its first    *)
(* symbols alone and then, for a candidate, whether it is valid.           *)
(***************************************************************************)
MaybeFalsyWord(raw) ==  \* mutant: an empty container and a zero with an exponent are missed
    At(raw, SkipSpace(raw, 1)) \in {"null", "false"}
MaybeFalsyJSON(raw) ==
    LET i  == SkipSpace(raw, 1)
        c  == At(raw, i)
        nz == SelectInSubSeq(raw, i, Len(raw), LAMBDA x : x \in {"e", "E"} \cup (Digits \ {"0"}))
    IN  \/ c \in {"null", "false", "nulx"}
        \/ c = Quote /\ At(raw, i + 1) = Quote
        \/ c = "[" /\ At(raw, SkipSpace(raw, i + 1)) = "]"
        \/ c = "{" /\ At(raw, SkipSpace(raw, i + 1)) = "}"
        \/ c \in Digits \cup {"-"} /\ At(raw, nz) \in {"", "e", "E"}

FalsyJSON(raw) == MaybeFalsyJSON(raw) /\ AppendJSON(<<>>, raw).err = ""
=============================================================================
