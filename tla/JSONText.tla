------------------------------ MODULE JSONText ------------------------------
(***************************************************************************)
(* JSON values and the token streams they are written as: what the parser  *)
(* sonic hands to the response decoder of internal/codec.                  *)
(*                                                                         *)
(* A value is a record: a string, a number, a bool or a null has its text  *)
(* in .v; an object has its members, in wire order and repeated keys       *)
(* included, in .m; an array has its elements in .e.  A token is a record  *)
(* [k, v]: "{" "}" "[" "]", a "key", or a scalar.  Commas, colons and      *)
(* white space are not tokens.                                             *)
(***************************************************************************)
EXTENDS Integers, Sequences, FiniteSets, SequencesExt

Str(s)  == [k |-> "str", v |-> s]
Num(n)  == [k |-> "num", v |-> n]
Bool    == [k |-> "bool", v |-> "true"]
Null    == [k |-> "null", v |-> "null"]
Obj(ms) == [k |-> "{", m |-> ms]
Arr(es) == [k |-> "[", e |-> es]

\* One member of an object.
Mem(key, val) == [key |-> key, val |-> val]

IsObj(x) == x.k = "{"
IsArr(x) == x.k = "["
IsStr(x) == x.k = "str"

(***************************************************************************)
(* Numbers: "0", "1", "2" and "-0" are integers, "0.5", "1/3" and the same *)
(* integers with a fraction (what appendFloat writes) are not, "1e400" and *)
(* "-1e400" are out of float64's range.  parseCount takes the integers,    *)
(* parseFloat whatever is in range; both read -0 as 0.                     *)
(***************************************************************************)
NumText(n)  == CASE n \in {"-0", "0.0"} -> "0"
                 [] n = "1.0"           -> "1"
                 [] n = "2.0"           -> "2"
                 [] OTHER               -> n
IsCount(x)  == x.k = "num" /\ x.v \in {"0", "-0", "1", "2"}
IsFloat(x)  == x.k = "num" /\ x.v \notin {"1e400", "-1e400"}

(***************************************************************************)
(* Strings: "utf8" is ill formed UTF-8, "raw" holds a raw control          *)
(* character, "esc" holds an escaped one; the others are plain.            *)
(***************************************************************************)
BadString(s) == s \in {"utf8", "raw"}

\* The tokens a value is written as; those of its members or elements, the
\* n-th and the ones after it.
RECURSIVE Tokens(_)
RECURSIVE Inner(_, _)
Tokens(x) ==
    CASE IsObj(x) -> <<[k |-> "{", v |-> ""]>> \o Inner(x, 1) \o <<[k |-> "}", v |-> ""]>>
      [] IsArr(x) -> <<[k |-> "[", v |-> ""]>> \o Inner(x, 1) \o <<[k |-> "]", v |-> ""]>>
      [] OTHER    -> <<[k |-> x.k, v |-> x.v]>>
Inner(x, n) ==
    IF IsObj(x)
    THEN IF n > Len(x.m) THEN <<>>
         ELSE <<[k |-> "key", v |-> x.m[n].key]>> \o Tokens(x.m[n].val) \o Inner(x, n + 1)
    ELSE IF n > Len(x.e) THEN <<>> ELSE Tokens(x.e[n]) \o Inner(x, n + 1)

\* The number of containers open after the first n tokens of ts.
OpenAfter(ts, n) ==
    Cardinality({i \in 1..n : ts[i].k \in {"{", "["}})
    - Cardinality({i \in 1..n : ts[i].k \in {"}", "]"}})

\* The value of the last member of object x called key; the caller knows there is one.
LastOf(x, key) == x.m[SelectLastInSeq(x.m, LAMBDA p : p.key = key)].val

HasMember(x, key) == \E i \in DOMAIN x.m : x.m[i].key = key

(***************************************************************************)
(* A body as it arrives: the kind of response it answers, its root value   *)
(* and how it ends.  "clean" is a body that ends with the root; the others *)
(* are the ways a damaged body ends:                                       *)
(*   open    the root's closing brace is missing                           *)
(*   keyonly the last member has lost its value                            *)
(*   extra   one more closing brace                                        *)
(*   junk    a value after the root                                        *)
(*   string  a string that is not closed swallows the last brace           *)
(***************************************************************************)
Tails == {"clean", "open", "keyonly", "extra", "junk", "string"}

Body(mode, root, tail) == [mode |-> mode, root |-> root, tail |-> tail]

BodyTokens(b) ==
    LET ts == Tokens(b.root) IN
    CASE b.tail = "clean"   -> ts
      [] b.tail = "open"    -> Front(ts)
      [] b.tail = "keyonly" -> Front(ts) \o <<[k |-> "key", v |-> "model"], Last(ts)>>
      [] b.tail = "extra"   -> Append(ts, [k |-> "}", v |-> ""])
      [] b.tail = "junk"    -> Append(ts, [k |-> "null", v |-> "null"])
      [] b.tail = "string"  -> Front(ts) \o <<[k |-> "key", v |-> "model"],
                                              [k |-> "unclosed", v |-> ""]>>
=============================================================================
