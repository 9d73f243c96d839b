--------------------------- MODULE WaitBoundProofs ---------------------------
(***************************************************************************)
(* The safety of the wait bound, for any requests, hooked or not, and any  *)
(* number of replays: what has to hold in every state for a bounded wait   *)
(* to end.  That it does end is liveness, and TLC's.                       *)
(***************************************************************************)
EXTENDS WaitBound, TLAPS

\* The types of send's, the bound's and the hooks' state.
WaitTypeOK ==
  /\ holder \in Requests \cup {Nobody}
  /\ wpc \in [Requests -> {"idle", "tokenWait", "stock", "done"}]
  /\ bounded \in [Requests -> BOOLEAN]
  /\ waiting \in [Requests -> BOOLEAN]
  /\ timer \in [Requests -> {"none", "armed", "ended"}]
  /\ late \in [Requests -> SUBSET Nat]
  /\ expiring \in [Requests -> BOOLEAN]
  /\ ended \in [Requests -> {"alive", "bound", "dial", "ctx"}]
  /\ wat \in [Requests -> {"out", "arming", "looking", "sent"}]
  /\ wno \in [Requests -> Nat]

\* A bounded wait that is no longer flagged is being ended, from GetConn on,
\* and a flagged one whose timer was armed has the timer or its callback.
Guarded(r) ==
  wpc[r] = "stock" /\ bounded[r] /\ ended[r] = "alive" =>
    /\ wat[r] \in {"arming", "looking"} => waiting[r] \/ expiring[r]
    /\ wat[r] = "looking" /\ waiting[r] => timer[r] = "armed" \/ late[r] # {}

\* An unbounded request keeps the token until its first connection.
Held(r) ==
  wpc[r] = "stock" /\ ~bounded[r] /\ wno[r] = 0 /\ wat[r] # "sent" => holder = r

\* Nothing of a request is under way outside the stock transport.
Outside(r) ==
  /\ wpc[r] # "stock" => timer[r] # "armed" /\ ~waiting[r] /\ holder # r
  /\ wpc[r] \in {"idle", "tokenWait"} => wat[r] = "out"

RequestInv(r) == Guarded(r) /\ Held(r) /\ Outside(r)
WaitInv == WaitTypeOK /\ \A r \in Requests : RequestInv(r)

\* What RequestInv reads of a request.
Seen(r) ==
  <<wpc[r], bounded[r], waiting[r], timer[r], late[r], expiring[r], ended[r], wat[r], wno[r],
    holder = r>>

LEMMA SeenSuffices ==
  ASSUME NEW r \in Requests, RequestInv(r), Seen(r)' = Seen(r)
  PROVE  RequestInv(r)'
  BY DEF RequestInv, Guarded, Held, Outside, Seen

LEMMA WaitInitially == WaitInit => WaitInv
  BY WaitAssumption DEF WaitInit, WaitInv, WaitTypeOK, RequestInv, Guarded, Held, Outside

\* A step of request q leaves the others as they are.
OthersKept(q) == \A r \in Requests \ {q} : Seen(r)' = Seen(r)

LEMMA SendKeeps ==
  ASSUME WaitInv, NEW q \in Requests, Send(q) \/ TokenWait(q)
  PROVE  WaitInv'
<1>1. wpc[q] \in {"idle", "tokenWait"} /\ wat[q] = "out" /\ holder # q
      /\ timer[q] # "armed" /\ ~waiting[q] /\ (holder = Nobody => \A r \in Requests : holder # r)
  BY WaitAssumption DEF Send, TokenWait, WaitInv, RequestInv, Outside
<1>2. WaitTypeOK'
  BY DEF Send, TokenWait, Enter, WaitInv, WaitTypeOK, boundVars
<1>3. RequestInv(q)'
  BY <1>1 DEF Send, TokenWait, Enter, WaitInv, WaitTypeOK, RequestInv, Guarded, Held, Outside, boundVars
<1>4. OthersKept(q)
  BY <1>1 DEF Send, TokenWait, Enter, WaitInv, WaitTypeOK, OthersKept, Seen, boundVars
<1> QED BY <1>2, <1>3, <1>4, SeenSuffices DEF WaitInv, OthersKept

LEMMA FinishKeeps ==
  ASSUME WaitInv, NEW q \in Requests, Finish(q)
  PROVE  WaitInv'
<1>1. WaitTypeOK'
  BY DEF Finish, GiveBack, WaitInv, WaitTypeOK
<1>2. RequestInv(q)'
  BY WaitAssumption DEF Finish, GiveBack, WaitInv, WaitTypeOK, RequestInv, Guarded, Held, Outside
<1>3. OthersKept(q)
  BY WaitAssumption DEF Finish, GiveBack, WaitInv, WaitTypeOK, OthersKept, Seen
<1> QED BY <1>1, <1>2, <1>3, SeenSuffices DEF WaitInv, OthersKept

\* The hooks and the bound's callback.
LEMMA GetConnKeeps ==
  ASSUME WaitInv, NEW q \in Requests, GetConn(q) \/ Arm(q)
  PROVE  WaitInv'
<1>1. WaitTypeOK'
  BY DEF GetConn, Arm, WaitInv, WaitTypeOK, sendVars
<1>2. RequestInv(q)'
  BY DEF GetConn, Arm, WaitInv, WaitTypeOK, RequestInv, Guarded, Held, Outside, sendVars
<1>3. OthersKept(q)
  BY DEF GetConn, Arm, WaitInv, WaitTypeOK, OthersKept, Seen, sendVars
<1> QED BY <1>1, <1>2, <1>3, SeenSuffices DEF WaitInv, OthersKept

LEMMA GotConnKeeps ==
  ASSUME WaitInv, NEW q \in Requests, GotConn(q)
  PROVE  WaitInv'
<1>1. WaitTypeOK'
  BY DEF GotConn, GiveBack, WaitInv, WaitTypeOK
<1>2. RequestInv(q)'
  BY WaitAssumption DEF GotConn, Looking, GiveBack, WaitInv, WaitTypeOK, RequestInv, Guarded, Held, Outside
<1>3. OthersKept(q)
  BY WaitAssumption DEF GotConn, GiveBack, WaitInv, WaitTypeOK, OthersKept, Seen
<1> QED BY <1>1, <1>2, <1>3, SeenSuffices DEF WaitInv, OthersKept

LEMMA FireKeeps ==
  ASSUME WaitInv, NEW q \in Requests, Fire(q)
  PROVE  WaitInv'
<1>1. WaitTypeOK'
  BY DEF Fire, WaitInv, WaitTypeOK, sendVars
<1>2. RequestInv(q)'
  <2>1. late'[q] # {} /\ timer'[q] = "ended"
    BY DEF Fire, WaitInv, WaitTypeOK
  <2> QED BY <2>1 DEF Fire, WaitInv, WaitTypeOK, RequestInv, Guarded, Held, Outside, sendVars
<1>3. OthersKept(q)
  BY DEF Fire, WaitInv, WaitTypeOK, OthersKept, Seen, sendVars
<1> QED BY <1>1, <1>2, <1>3, SeenSuffices DEF WaitInv, OthersKept

\* A callback that finds no flag changes nothing but its own pending mark, and
\* then the wait needs none.
LEMMA ExpireKeeps ==
  ASSUME WaitInv, NEW q \in Requests, Expire(q)
  PROVE  WaitInv'
<1>1. PICK n \in late[q] :
        /\ late' = [late EXCEPT ![q] = @ \ {n}]
        /\ IF waiting[q]
           THEN /\ waiting' = [waiting EXCEPT ![q] = FALSE]
                /\ expiring' = [expiring EXCEPT ![q] = TRUE]
           ELSE UNCHANGED <<waiting, expiring>>
        /\ UNCHANGED <<sendVars, timer, ended, wat, wno>>
  BY DEF Expire
<1>2. WaitTypeOK'
  BY <1>1 DEF WaitInv, WaitTypeOK, sendVars
<1>3. ~waiting'[q] /\ (waiting[q] => expiring'[q]) /\ (expiring[q] => expiring'[q])
  BY <1>1 DEF WaitInv, WaitTypeOK
<1>4. RequestInv(q)'
  BY <1>1, <1>3 DEF WaitInv, WaitTypeOK, RequestInv, Guarded, Held, Outside, sendVars
<1>5. OthersKept(q)
  BY <1>1 DEF WaitInv, WaitTypeOK, OthersKept, Seen, sendVars
<1> QED BY <1>2, <1>4, <1>5, SeenSuffices DEF WaitInv, OthersKept

\* Ending the context, by the bound or from outside, and the stock replay.
LEMMA CancelKeeps ==
  ASSUME WaitInv, NEW q \in Requests, Cancel(q) \/ EndCtx(q) \/ Replay(q)
  PROVE  WaitInv'
<1>1. WaitTypeOK'
  <2>1. CASE Cancel(q)
    BY <2>1 DEF Cancel, WaitInv, WaitTypeOK, sendVars
  <2>2. CASE EndCtx(q)
    BY <2>2 DEF EndCtx, WaitInv, WaitTypeOK, sendVars
  <2>3. CASE Replay(q)
    BY <2>3 DEF Replay, WaitInv, WaitTypeOK, sendVars, boundVars
  <2> QED BY <2>1, <2>2, <2>3
<1>2. RequestInv(q)'
  <2>1. CASE Cancel(q) \/ EndCtx(q)
    BY <2>1 DEF Cancel, EndCtx, WaitInv, WaitTypeOK, RequestInv, Guarded, Held, Outside, sendVars
  <2>2. CASE Replay(q)
    <3>1. wat'[q] = "out" /\ wno'[q] # 0 /\ wpc[q] = "stock"
      BY <2>2 DEF Replay, WaitInv, WaitTypeOK
    <3> QED BY <2>2, <3>1 DEF Replay, RequestInv, Guarded, Held, Outside, sendVars, boundVars
  <2> QED BY <2>1, <2>2
<1>3. OthersKept(q)
  BY DEF Cancel, EndCtx, Replay, WaitInv, WaitTypeOK, OthersKept, Seen, sendVars, boundVars
<1> QED BY <1>1, <1>2, <1>3, SeenSuffices DEF WaitInv, OthersKept

\* The stock transport's own steps: a dial that fails ends at most a context.
LEMMA PoolKeeps ==
  ASSUME WaitInv, (\E q \in Requests : Dial(q)) \/ Block \/ HookReturns \/ DialEnds \/ ConnLost
  PROVE  WaitInv'
<1>1. UNCHANGED <<sendVars, waiting, timer, late, expiring, wat, wno>>
  BY DEF Dial, Block, HookReturns, DialEnds, ConnLost, boundVars
<1>2. /\ ended' \in [Requests -> {"alive", "bound", "dial", "ctx"}]
      /\ \A r \in Requests : ended'[r] = "alive" => ended[r] = "alive"
  BY DEF Dial, Block, HookReturns, DialEnds, ConnLost, boundVars, WaitInv, WaitTypeOK
<1>3. WaitTypeOK'
  BY <1>1, <1>2 DEF WaitInv, WaitTypeOK, sendVars
<1>4. \A r \in Requests : RequestInv(r)'
  BY <1>1, <1>2 DEF WaitInv, RequestInv, Guarded, Held, Outside, sendVars
<1> QED BY <1>3, <1>4 DEF WaitInv

LEMMA WaitStep == WaitInv /\ [WaitNext]_wvars => WaitInv'
<1> SUFFICES ASSUME WaitInv, [WaitNext]_wvars PROVE WaitInv'
  OBVIOUS
<1>1. CASE UNCHANGED wvars
  <2>1. WaitTypeOK'
    BY <1>1 DEF wvars, sendVars, boundVars, WaitInv, WaitTypeOK
  <2>2. \A r \in Requests : Seen(r)' = Seen(r)
    BY <1>1 DEF wvars, sendVars, boundVars, Seen
  <2> QED BY <2>1, <2>2, SeenSuffices DEF WaitInv
<1>2. CASE WaitNext
  BY <1>2, SendKeeps, FinishKeeps, GetConnKeeps, GotConnKeeps, FireKeeps, ExpireKeeps, CancelKeeps,
     PoolKeeps DEF WaitNext
<1> QED BY <1>1, <1>2

\* The inductive invariant of the wait bound.
THEOREM WaitBoundInvariant == WaitSpec => []WaitInv
  BY WaitInitially, WaitStep, PTL DEF WaitSpec

\* A request under the bound that looks for a connection has its timer, the
\* timer's callback or the end of its context under way, in every order of the
\* hooks, the callbacks of earlier waits and the dials.
THEOREM WaitBoundArmed == WaitSpec => []BoundArmed
<1>1. WaitInv => BoundArmed
  BY DEF WaitInv, RequestInv, Guarded, BoundArmed, Looking
<1> QED BY <1>1, WaitBoundInvariant, PTL

\* At most one request is in a first wait that no bound ends.
THEOREM WaitBoundOneUnbounded == WaitSpec => []OneUnbounded
<1>1. WaitInv => OneUnbounded
  BY DEF WaitInv, RequestInv, Held, OneUnbounded, Looking
<1> QED BY <1>1, WaitBoundInvariant, PTL

\* finish leaves no timer, no flagged wait and no token behind.
THEOREM WaitBoundNothingLeft == WaitSpec => []NothingLeft
<1>1. WaitInv => NothingLeft
  BY DEF WaitInv, RequestInv, Outside, NothingLeft
<1> QED BY <1>1, WaitBoundInvariant, PTL
==============================================================================
