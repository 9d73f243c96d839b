------------------------------- MODULE Token -------------------------------
(***************************************************************************)
(* The header-write token of internal/h2gate/transport.go: send, waitToken *)
(* and the httptrace hooks of a call.                                      *)
(*                                                                         *)
(* A request takes the one token before it enters the stock transport and  *)
(* gives it back when its HEADERS are written.  The first holder on a new  *)
(* HTTP/2 connection keeps it until its response headers (FirstHold), at   *)
(* most the hold bound; a stock replay that opens a connection without the *)
(* token marks it unsettled, and the next holder there keeps the token the *)
(* same way.  Four goroutines may give one call's token back: the caller   *)
(* (send's finish, the GotConn hook), the transport's writer (the          *)
(* WroteHeaders hook, also after send returned) and the hold timer.        *)
(*                                                                         *)
(* The stock transport is external: it keeps at most one live HTTP/2       *)
(* connection, hands connections out, answers, fails, and replays a        *)
(* request whose connection went away.                                     *)
(***************************************************************************)
EXTENDS Integers, Sequences, FiniteSets

CONSTANTS
  Requests,      \* the calls of send, each made once
  Conns,         \* connections the stock transport may dial, each once
  H1Conns,       \* those that negotiate HTTP/1.1 (HTTPAuto)
  NoConn,        \* no connection
  MaxReplays,    \* bound: stock replays, of all requests together
  MaxUnsettled   \* maxUnsettled

ASSUME TokenAssumption ==
  /\ H1Conns \subseteq Conns /\ NoConn \notin Conns
  /\ MaxReplays \in Nat /\ MaxUnsettled \in Nat \ {0}

VARIABLES
  tok,         \* the requests' sends in the channel token, 0 or 1
  unsettled,   \* Transport.unsettled, oldest first
  spc,         \* where each request is in send
  given,       \* call.given
  first,       \* call.seen has callFirst
  marked,      \* call.marked
  hold,        \* the timer in call.hold
  late,        \* a hold timer fired and its callback has not run
  hpc,         \* where the WroteHeaders hook is
  at,          \* the request inside the stock transport
  conn,        \* the connection it was handed last
  due,         \* its WroteHeaders hook may still run
  ok,          \* the stock transport answered it
  replays,     \* how often the stock transport replayed a request
  live,        \* connections the stock transport hands out
  dialed,      \* connections it has dialed
  tstats,      \* the token's counters
  settled,     \* connections a response came over: their SETTINGS were read
  holders,     \* history: requests handed an unsettled connection with the token
  loose        \* history: some hold ended without a response, or a request
               \* went out without the token

transportVars == <<tok, unsettled, tstats>>
callVars == <<given, first, marked, hold, late, hpc>>
stockVars == <<at, conn, due, ok, replays, live, dialed, settled>>
history == <<holders, loose>>
tvars == <<transportVars, spc, callVars, stockVars, history>>

SPCs == {"idle", "tokenWait", "stock", "give", "stop", "done"}

\* A call whose token is in the channel.
Holds(r) == spc[r] \in {"stock", "give"} /\ ~given[r]

TokenInit ==
  /\ tok = 0 /\ unsettled = <<>>
  /\ tstats = [firstHolds |-> 0, settleHolds |-> 0, holdExpiries |-> 0]
  /\ spc = [r \in Requests |-> "idle"]
  /\ given = [r \in Requests |-> FALSE]
  /\ first = [r \in Requests |-> FALSE]
  /\ marked = [r \in Requests |-> NoConn]
  /\ hold = [r \in Requests |-> "none"]
  /\ late = [r \in Requests |-> FALSE]
  /\ hpc = [r \in Requests |-> "off"]
  /\ at = [r \in Requests |-> "out"]
  /\ conn = [r \in Requests |-> NoConn]
  /\ due = [r \in Requests |-> FALSE]
  /\ ok = [r \in Requests |-> FALSE]
  /\ replays = 0
  /\ live = {} /\ dialed = {} /\ settled = {}
  /\ holders = [c \in Conns |-> {}] /\ loose = FALSE

----------------------------------------------------------------------------
(* send up to the stock transport, and waitToken.                          *)

EnterStock(r) == spc' = [spc EXCEPT ![r] = "stock"]

SendFree(r) ==
  /\ spc[r] = "idle" /\ tok = 0
  /\ tok' = 1 /\ EnterStock(r)
  /\ UNCHANGED <<unsettled, tstats, callVars, stockVars, history>>

SendBusy(r) ==
  /\ spc[r] = "idle" /\ tok = 1
  /\ spc' = [spc EXCEPT ![r] = "tokenWait"]
  /\ UNCHANGED <<transportVars, callVars, stockVars, history>>

TokenTaken(r) ==
  /\ spc[r] = "tokenWait" /\ tok = 0
  /\ tok' = 1 /\ EnterStock(r)
  /\ UNCHANGED <<unsettled, tstats, callVars, stockVars, history>>

\* The request's context ended first; it may end at any time.
TokenCtx(r) ==
  /\ spc[r] = "tokenWait"
  /\ spc' = [spc EXCEPT ![r] = "done"]
  /\ UNCHANGED <<transportVars, callVars, stockVars, history>>

\* The hold bound ended the wait: out without the token, nothing to give.
\* The select may choose this case when the token came free as well.
TokenExpired(r) ==
  /\ spc[r] = "tokenWait"
  /\ EnterStock(r)
  /\ given' = [given EXCEPT ![r] = TRUE]
  /\ loose' = TRUE
  /\ UNCHANGED <<transportVars, first, marked, hold, late, hpc, stockVars, holders>>

----------------------------------------------------------------------------
(* The hooks.                                                              *)

\* Variant: giveBack without the compare-and-swap.
GiveBackAgain(r) == given' = [given EXCEPT ![r] = TRUE] /\ tok' = tok - 1

\* giveBack: the compare-and-swap on given, and the receive it entitles to.
GiveBack(r) ==
  IF given[r] THEN UNCHANGED <<given, tok>>
  ELSE given' = [given EXCEPT ![r] = TRUE] /\ tok' = tok - 1

\* getConn, and the stock transport's search for a connection.
GetConn(r) ==
  /\ spc[r] = "stock" /\ at[r] = "out"
  /\ at' = [at EXCEPT ![r] = "looking"]
  /\ UNCHANGED <<transportVars, spc, callVars, conn, due, ok, replays,
                 live, dialed, settled, history>>

LiveH2 == live \ H1Conns

\* The connections the stock transport can hand r, and whether each is new:
\* one it dials when it has no live HTTP/2 connection, or one it has.  A
\* request whose HTTP/2 connection still takes streams is replayed there, and
\* not on an idle HTTP/1.1 one: the HTTP/2 pool is asked first.
Handed(r, c, new) ==
  /\ new => c \in Conns \ dialed /\ LiveH2 = {}
  /\ ~new => c \in live
  /\ c \in H1Conns => conn[r] \notin LiveH2
  /\ dialed' = dialed \cup {c}
  /\ live' = live \cup {c}

\* Variant: no holder sees a mark.
MarkedNever(c) == FALSE

Marked(c) == \E n \in 1..Len(unsettled) : unsettled[n] = c

\* markUnsettled: the oldest mark goes when a new one does not fit.
MarkUnsettled(c) ==
  unsettled' = Append(IF Len(unsettled) = MaxUnsettled THEN Tail(unsettled) ELSE unsettled, c)

\* s without its n-th element.
Without(s, n) == SubSeq(s, 1, n - 1) \o SubSeq(s, n + 1, Len(s))

\* takeUnsettled: the first mark of the connection goes, if there is one.
TakeUnsettled(c) ==
  IF ~Marked(c) THEN UNCHANGED unsettled
  ELSE \E n \in 1..Len(unsettled) :
         /\ unsettled[n] = c /\ \A m \in 1..(n - 1) : unsettled[m] # c
         /\ unsettled' = Without(unsettled, n)

\* FirstHold engages: a call counts once, a settling hold each time.
EngageHold(r, settle) ==
  /\ first' = [first EXCEPT ![r] = TRUE]
  /\ tstats' = [tstats EXCEPT !.firstHolds = IF first[r] THEN @ ELSE @ + 1,
                              !.settleHolds = IF settle THEN @ + 1 ELSE @]

\* gotConn's switch.
OnConn(r, c, new) ==
  CASE c \in H1Conns ->
         GiveBack(r) /\ UNCHANGED <<unsettled, tstats, first, marked>>
    [] c \notin H1Conns /\ given[r] /\ new ->
         /\ MarkUnsettled(c) /\ marked' = [marked EXCEPT ![r] = c]
         /\ UNCHANGED <<tok, tstats, given, first>>
    [] c \notin H1Conns /\ ~given[r] /\ new ->
         EngageHold(r, FALSE) /\ UNCHANGED <<tok, given, unsettled, marked>>
    [] c \notin H1Conns /\ ~given[r] /\ ~new /\ Marked(c) ->
         TakeUnsettled(c) /\ EngageHold(r, TRUE) /\ UNCHANGED <<tok, given, marked>>
    [] OTHER -> UNCHANGED <<transportVars, given, first, marked>>

GotConn(r) ==
  /\ spc[r] = "stock" /\ at[r] = "looking"
  /\ \E c \in Conns, new \in BOOLEAN :
       /\ Handed(r, c, new)
       /\ OnConn(r, c, new)
       /\ conn' = [conn EXCEPT ![r] = c]
       /\ holders' = IF ~given[r] /\ c \notin settled \cup H1Conns
                     THEN [holders EXCEPT ![c] = @ \cup {r}] ELSE holders
  /\ at' = [at EXCEPT ![r] = "sent"]
  /\ due' = [due EXCEPT ![r] = TRUE]
  /\ UNCHANGED <<spc, hold, late, hpc, ok, replays, settled, loose>>

\* wroteHeaders runs on the transport's writer, perhaps after send returned.
WroteHeaders(r) ==
  /\ due[r] /\ hpc[r] = "off"
  /\ due' = [due EXCEPT ![r] = FALSE]
  /\ \/ /\ ~first[r]
        /\ GiveBack(r) /\ UNCHANGED hpc
     \/ /\ first[r] /\ given[r]
        /\ UNCHANGED <<given, tok, hpc>>
     \/ /\ first[r] /\ ~given[r]
        /\ hpc' = [hpc EXCEPT ![r] = "arming"] /\ UNCHANGED <<given, tok>>
  /\ UNCHANGED <<unsettled, tstats, spc, first, marked, hold, late, at, conn, ok, replays,
                 live, dialed, settled, history>>

\* The new timer replaces the one of an earlier write, which is stopped.
SwapHold(r) ==
  /\ hpc[r] = "arming"
  /\ hold' = [hold EXCEPT ![r] = "armed"]
  /\ hpc' = [hpc EXCEPT ![r] = "armed"]
  /\ UNCHANGED <<transportVars, spc, given, first, marked, late, stockVars, history>>

\* Variant: the hook does not look again.
RecheckNothing(r) ==
  /\ hpc[r] = "armed"
  /\ hpc' = [hpc EXCEPT ![r] = "off"]
  /\ UNCHANGED <<transportVars, spc, given, first, marked, hold, late, stockVars, history>>

\* The hook looks at given again once its timer can be seen.
RecheckGiven(r) ==
  /\ hpc[r] = "armed"
  /\ hold' = [hold EXCEPT ![r] = IF given[r] THEN "ended" ELSE @]
  /\ hpc' = [hpc EXCEPT ![r] = "off"]
  /\ UNCHANGED <<transportVars, spc, given, first, marked, late, stockVars, history>>

\* The hold bound ends: the timer fires, and can no longer be stopped.
HoldFires(r) ==
  /\ hold[r] = "armed"
  /\ hold' = [hold EXCEPT ![r] = "ended"]
  /\ late' = [late EXCEPT ![r] = TRUE]
  /\ UNCHANGED <<transportVars, spc, given, first, marked, hpc, stockVars, history>>

\* Its callback gives the token back; a second pending one would find it given.
HoldExpired(r) ==
  /\ late[r]
  /\ late' = [late EXCEPT ![r] = FALSE]
  /\ GiveBack(r)
  /\ tstats' = [tstats EXCEPT !.holdExpiries = IF given[r] THEN @ ELSE @ + 1]
  /\ loose' = (loose \/ ~given[r])
  /\ UNCHANGED <<unsettled, spc, first, marked, hold, hpc, stockVars, holders>>

----------------------------------------------------------------------------
(* The stock transport ends the call; finish, responded and the return.    *)

\* Response headers follow the connection's SETTINGS.
Answered(r) ==
  /\ spc[r] = "stock" /\ at[r] = "sent"
  /\ settled' = settled \cup {conn[r]}
  /\ ok' = [ok EXCEPT ![r] = TRUE]
  /\ spc' = [spc EXCEPT ![r] = "give"]
  /\ UNCHANGED <<transportVars, callVars, at, conn, due, replays, live, dialed, history>>

\* An error or a panic, at any point inside the stock transport.
Failed(r) ==
  /\ spc[r] = "stock"
  /\ spc' = [spc EXCEPT ![r] = "give"]
  /\ loose' = (loose \/ (first[r] /\ ~given[r]))
  /\ UNCHANGED <<transportVars, callVars, stockVars, holders>>

\* finish: give the token back, then stop the hold timer.
FinishGive(r) ==
  /\ spc[r] = "give"
  /\ GiveBack(r)
  /\ spc' = [spc EXCEPT ![r] = "stop"]
  /\ UNCHANGED <<unsettled, tstats, first, marked, hold, late, hpc, stockVars, history>>

\* responded then clears the mark of a replay that was answered, and the
\* deferred finish finds the token given back.
Return(r) ==
  /\ spc[r] = "stop"
  /\ hold' = [hold EXCEPT ![r] = IF @ = "armed" THEN "ended" ELSE @]
  /\ IF ok[r] /\ marked[r] # NoConn THEN TakeUnsettled(marked[r]) ELSE UNCHANGED unsettled
  /\ spc' = [spc EXCEPT ![r] = "done"]
  /\ UNCHANGED <<tok, tstats, given, first, marked, late, hpc, stockVars, history>>

----------------------------------------------------------------------------
(* The environment.                                                        *)

\* A connection goes away (GOAWAY, or it closes).
GoAway(c) ==
  /\ c \in live
  /\ live' = live \ {c}
  /\ UNCHANGED <<transportVars, spc, callVars, at, conn, due, ok, replays,
                 dialed, settled, history>>

\* The stock transport replays a request whose connection went away or that
\* was refused, inside the same RoundTrip: it waits for the stream's writer,
\* and with it the hook, to end, then looks for a connection again.
Replay(r) ==
  /\ spc[r] = "stock" /\ at[r] = "sent" /\ hpc[r] = "off"
  /\ replays < MaxReplays
  /\ at' = [at EXCEPT ![r] = "looking"]
  /\ due' = [due EXCEPT ![r] = FALSE]
  /\ replays' = replays + 1
  /\ UNCHANGED <<transportVars, spc, callVars, conn, ok, live, dialed, settled, history>>

TokenNext ==
  \/ \E r \in Requests :
       \/ SendFree(r) \/ SendBusy(r) \/ TokenTaken(r) \/ TokenCtx(r) \/ TokenExpired(r)
       \/ GetConn(r) \/ GotConn(r) \/ WroteHeaders(r) \/ SwapHold(r) \/ RecheckGiven(r)
       \/ HoldFires(r) \/ HoldExpired(r) \/ Answered(r) \/ Failed(r) \/ FinishGive(r) \/ Return(r)
       \/ Replay(r)
  \/ \E c \in Conns : GoAway(c)

TokenSpec == TokenInit /\ [][TokenNext]_tvars

----------------------------------------------------------------------------
(* Properties.                                                             *)

TokenTypeOK ==
  /\ tok \in {0, 1}
  /\ unsettled \in Seq(Conns) /\ Len(unsettled) <= MaxUnsettled
  /\ spc \in [Requests -> SPCs]
  /\ given \in [Requests -> BOOLEAN] /\ first \in [Requests -> BOOLEAN]
  /\ marked \in [Requests -> Conns \cup {NoConn}]
  /\ hold \in [Requests -> {"none", "armed", "ended"}]
  /\ late \in [Requests -> BOOLEAN]
  /\ tstats \in [firstHolds : Nat, settleHolds : Nat, holdExpiries : Nat]
  /\ hpc \in [Requests -> {"off", "arming", "armed"}]
  /\ at \in [Requests -> {"out", "looking", "sent"}]
  /\ conn \in [Requests -> Conns \cup {NoConn}]
  /\ due \in [Requests -> BOOLEAN] /\ ok \in [Requests -> BOOLEAN]
  /\ replays \in 0..MaxReplays
  /\ live \in SUBSET Conns /\ dialed \in SUBSET Conns /\ settled \in SUBSET Conns
  /\ holders \in [Conns -> SUBSET Requests] /\ loose \in BOOLEAN

\* The token is in the channel exactly while one call holds it, and no two
\* calls hold it: every way of giving it back (finish, the HTTP/1.1 branch
\* of GotConn, a late WroteHeaders, the hold timer) gives it once.
TokenConserved ==
  /\ \A r, s \in Requests : Holds(r) /\ Holds(s) => r = s
  /\ tok = IF \E r \in Requests : Holds(r) THEN 1 ELSE 0

\* Once a call has returned and its hook has ended, no timer of it is left
\* running, in whatever order finish and a late WroteHeaders interleave.
NoTimerLeft ==
  \A r \in Requests : spc[r] = "done" /\ hpc[r] = "off" => hold[r] # "armed"

\* What FirstHold and the unsettled marks are for: as long as every hold
\* ended with a response and nobody went out without the token, no two
\* token holders were handed the same HTTP/2 connection before the client
\* read its SETTINGS, replays onto fresh connections included.
OneHolderUnsettled ==
  ~loose => \A c \in Conns \ settled : Cardinality(holders[c]) <= 1
============================================================================
