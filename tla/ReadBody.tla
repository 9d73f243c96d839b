------------------------------- MODULE ReadBody -------------------------------
(***************************************************************************)
(* Reading a response body (internal/engine/read.go): ReadBody hands a     *)
(* reader the room behind the bytes it holds, grows a full buffer, and     *)
(* stops at the body's end, at an error or at the byte after the limit.    *)
(* A buffer is its length and its capacity: what it holds is the first     *)
(* bytes of the body, for copy and the reader keep them in order.          *)
(***************************************************************************)
EXTENDS Integers

CONSTANTS
    InitialDeclared,     \* the first buffer's bound when a length is declared
    InitialUndeclared,   \* the first buffer when none is
    MinGrow,             \* the smallest buffer a growth makes
    Limits,              \* the limits WithMaxResponseBytes accepts
    Lengths,             \* the Content-Lengths a response may declare
    Sizes                \* the sizes a body may really have

ASSUME BufferAssumption ==
    /\ InitialDeclared \in Nat \ {0}
    /\ InitialUndeclared \in Nat \ {0}
    /\ MinGrow \in Nat \ {0}
    /\ Limits \subseteq Nat \ {0}
    /\ Lengths \subseteq Nat
    /\ Sizes \subseteq Nat

VARIABLES
    readpc,        \* where ReadBody is: idle, start, loop, read, done
    declared,   \* the Content-Length, -1 when the body declares none
    limit,
    sent,       \* the bytes the body really has
    ending,     \* what its reader says after them: eof, or an error
    held,       \* len(buf)
    room,       \* cap(buf)
    got         \* what ReadBody returns: whole, tooLarge, error

rvars == <<readpc, declared, limit, sent, ending, held, room, got>>

Undeclared == -1
Less(a, b) == IF a < b THEN a ELSE b
More(a, b) == IF a > b THEN a ELSE b

\* The capacity of the first buffer.
FirstRoom ==
    IF declared > InitialDeclared THEN InitialDeclared
    ELSE IF declared >= 0 THEN declared + 1
    ELSE Less(InitialUndeclared, limit + 1)

\* The capacity grow gives a full buffer: twice as much, or all that the body
\* may still need and a byte.
Grown ==
    LET end  == IF declared > held THEN declared ELSE limit
        next == More(2 * held, MinGrow)
    IN  IF 2 * next > end THEN end + 1 ELSE next

Returns(r) == readpc' = "done" /\ got' = r

\* A response whose body is to be read.
CallRead(d, l, s, e) ==
    /\ readpc = "idle"
    /\ readpc' = "start"
    /\ declared' = d /\ limit' = l /\ sent' = s /\ ending' = e
    /\ UNCHANGED <<held, room, got>>

RefuseDeclared ==
    /\ readpc = "start" /\ declared > limit
    /\ Returns("tooLarge")
    /\ UNCHANGED <<declared, limit, sent, ending, held, room>>

MakeBuffer ==
    /\ readpc = "start" /\ declared <= limit
    /\ readpc' = "loop"
    /\ room' = FirstRoom
    /\ UNCHANGED <<declared, limit, sent, ending, held, got>>

\* The head of the loop: a full buffer that is past the limit ends the read.
PastLimitAt == held = room /\ held >= limit
PastLimit == held = room /\ held > limit

EndPastLimit ==
    /\ readpc = "loop" /\ PastLimit
    /\ Returns("tooLarge")
    /\ UNCHANGED <<declared, limit, sent, ending, held, room>>

MakeRoom ==
    /\ readpc = "loop" /\ ~PastLimit
    /\ readpc' = "read"
    /\ room' = IF held = room THEN Grown ELSE room
    /\ UNCHANGED <<declared, limit, sent, ending, held, got>>

\* The reader puts some bytes into the room it was given, none at all perhaps.
ReadSome ==
    /\ readpc = "read"
    /\ readpc' = "loop"
    /\ held' \in held..Less(room, sent)
    /\ UNCHANGED <<declared, limit, sent, ending, room, got>>

\* The last bytes, with the end or the error behind them.
ReadLast ==
    /\ readpc = "read"
    /\ sent <= room
    /\ held' = sent
    /\ Returns(IF sent > limit THEN "tooLarge"
               ELSE IF ending = "eof" THEN "whole" ELSE "error")
    /\ UNCHANGED <<declared, limit, sent, ending, room>>

\* The caller has the result; the next response is another read.
ReturnRead ==
    /\ readpc = "done"
    /\ readpc' = "idle"
    /\ declared' = Undeclared /\ limit' = 0 /\ sent' = 0 /\ ending' = "none"
    /\ held' = 0 /\ room' = 0 /\ got' = "none"

ReadInit ==
    /\ readpc = "idle"
    /\ declared = Undeclared /\ limit = 0 /\ sent = 0 /\ ending = "none"
    /\ held = 0 /\ room = 0 /\ got = "none"

ReadNext ==
    \/ \E d \in Lengths \cup {Undeclared}, l \in Limits, s \in Sizes, e \in {"eof", "error"} :
          CallRead(d, l, s, e)
    \/ RefuseDeclared \/ MakeBuffer \/ EndPastLimit \/ MakeRoom
    \/ ReadSome \/ ReadLast \/ ReturnRead

ReadSpec == ReadInit /\ [][ReadNext]_rvars

-----------------------------------------------------------------------------
(* Properties.                                                             *)

ReadTypeOK ==
    /\ readpc \in {"idle", "start", "loop", "read", "done"}
    /\ declared \in Lengths \cup {Undeclared}
    /\ ending \in {"eof", "error", "none"}
    /\ limit \in Nat /\ sent \in Nat /\ held \in Nat /\ room \in Nat
    /\ got \in {"none", "whole", "tooLarge", "error"}

\* ReadBody returns the whole body when it is within the limit and its reader
\* ended well, ErrTooLarge exactly when the body or its declared length is
\* past the limit (whatever the reader said with the byte that passed it), and
\* the reader's error otherwise.
ReadsWhole ==
    readpc = "done" =>
        IF declared > limit \/ sent > limit THEN got = "tooLarge"
        ELSE held = sent /\ got = (IF ending = "eof" THEN "whole" ELSE "error")

\* No Read is handed an empty slice, which a reader may answer with nothing
\* for ever; no buffer passes the limit by more than the byte that tells; and
\* a body that keeps to its declared length never costs more than that length
\* and the byte in which the read finds its end.
RoomToRead ==
    /\ readpc = "read" => held < room
    /\ room <= limit + 1
    /\ sent <= declared => room <= declared + 1
=============================================================================
