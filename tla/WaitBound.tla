----------------------------- MODULE WaitBound -----------------------------
(***************************************************************************)
(* The wait bound of internal/h2gate/transport.go: how long a request      *)
(* inside the stock transport waits for its connection.                    *)
(*                                                                         *)
(* The stock transport (external) makes one dial at a time, and a dial     *)
(* whose caller's DNS, connect or TLS hook blocks keeps the permit for as  *)
(* long as the hook does, past its request's return.  A request that       *)
(* carries such a hook, one that goes out without the token and every one  *)
(* that is sent while the transport is stalled gets a context the bound    *)
(* can end: its timer is armed at each GetConn and stopped at GotConn, and *)
(* its callback marks the transport stalled before it ends the context.    *)
(*                                                                         *)
(* The token is reduced to who holds it; FirstHold is the module Token's.  *)
(***************************************************************************)
EXTENDS Integers, FiniteSets

CONSTANTS
  Requests,     \* the calls of send, each made once
  Hooked,       \* those whose trace has a dial-phase hook (dialHooks)
  Nobody,       \* no request
  MaxReplays    \* bound: stock replays of one request

ASSUME WaitAssumption ==
  Hooked \subseteq Requests /\ Nobody \notin Requests /\ MaxReplays \in Nat

VARIABLES
  stalled,    \* Transport.stalled
  holder,     \* the request that holds the token
  wpc,        \* where each request is in send
  bounded,    \* call.bound is set
  waiting,    \* waitState.waiting
  timer,      \* the timer in waitState.wait
  late,       \* waits whose timer fired and whose callback has not run
  expiring,   \* the callback is between its mark and its cancel
  ended,      \* how the request ended inside the stock transport
  wat,        \* the request inside the stock transport
  wno,        \* the number of its wait: 0, then one more per replay
  permit,     \* whose dial holds the connection permit
  blocked,    \* that dial's hook blocks
  live,       \* the stock transport has a connection
  cut         \* history: which wait's timer ended the request's wait

sendVars == <<holder, wpc, bounded>>
boundVars == <<waiting, timer, late, expiring, ended>>
poolVars == <<permit, blocked, live>>
wvars == <<stalled, sendVars, boundVars, wat, wno, poolVars, cut>>

WaitInit ==
  /\ stalled = FALSE /\ holder = Nobody
  /\ wpc = [r \in Requests |-> "idle"]
  /\ bounded = [r \in Requests |-> FALSE]
  /\ waiting = [r \in Requests |-> FALSE]
  /\ timer = [r \in Requests |-> "none"]
  /\ late = [r \in Requests |-> {}]
  /\ expiring = [r \in Requests |-> FALSE]
  /\ ended = [r \in Requests |-> "alive"]
  /\ wat = [r \in Requests |-> "out"]
  /\ wno = [r \in Requests |-> 0]
  /\ permit = Nobody /\ blocked = FALSE /\ live = FALSE
  /\ cut = [r \in Requests |-> "none"]

Looking(r) == wpc[r] = "stock" /\ wat[r] = "looking"

----------------------------------------------------------------------------
(* send.                                                                   *)

\* Whether send derives a context for the bound.
Enter(r, held) ==
  /\ wpc' = [wpc EXCEPT ![r] = "stock"]
  /\ bounded' = [bounded EXCEPT ![r] = ~held \/ stalled \/ r \in Hooked]

Send(r) ==
  /\ wpc[r] = "idle"
  /\ \/ holder = Nobody /\ holder' = r /\ Enter(r, TRUE)
     \/ /\ holder # Nobody
        /\ wpc' = [wpc EXCEPT ![r] = "tokenWait"]
        /\ UNCHANGED <<holder, bounded>>
  /\ UNCHANGED <<stalled, boundVars, wat, wno, poolVars, cut>>

\* waitToken: the token, or the hold bound, or the request's context.
TokenWait(r) ==
  /\ wpc[r] = "tokenWait"
  /\ \/ holder = Nobody /\ holder' = r /\ Enter(r, TRUE)
     \/ Enter(r, FALSE) /\ UNCHANGED holder
     \/ wpc' = [wpc EXCEPT ![r] = "done"] /\ UNCHANGED <<holder, bounded>>
  /\ UNCHANGED <<stalled, boundVars, wat, wno, poolVars, cut>>

GiveBack(r) == holder' = IF holder = r THEN Nobody ELSE holder

\* finish, then release: the token goes back, the flag and the timer end.
Finish(r) ==
  /\ wpc[r] = "stock"
  /\ ended[r] # "alive" \/ wat[r] = "sent"
  /\ GiveBack(r)
  /\ wpc' = [wpc EXCEPT ![r] = "done"]
  /\ waiting' = [waiting EXCEPT ![r] = FALSE]
  /\ timer' = [timer EXCEPT ![r] = IF @ = "armed" THEN "ended" ELSE @]
  /\ UNCHANGED <<stalled, bounded, late, expiring, ended, wat, wno, poolVars, cut>>

----------------------------------------------------------------------------
(* The hooks and the bound's callback.                                     *)

\* getConn sets the flag first ...
GetConn(r) ==
  /\ wpc[r] = "stock" /\ wat[r] = "out"
  /\ wat' = [wat EXCEPT ![r] = IF bounded[r] THEN "arming" ELSE "looking"]
  /\ waiting' = [waiting EXCEPT ![r] = bounded[r]]
  /\ UNCHANGED <<stalled, sendVars, timer, late, expiring, ended, wno, poolVars, cut>>

\* Variant: a replay's wait is not armed again.
ArmOnce(r) ==
  /\ wpc[r] = "stock" /\ wat[r] = "arming"
  /\ wat' = [wat EXCEPT ![r] = "looking"]
  /\ timer' = [timer EXCEPT ![r] = IF @ = "none" THEN "armed" ELSE @]
  /\ UNCHANGED <<stalled, sendVars, waiting, late, expiring, ended, wno, poolVars, cut>>

\* ... and then arms the timer, or resets the one it has.
Arm(r) ==
  /\ wpc[r] = "stock" /\ wat[r] = "arming"
  /\ wat' = [wat EXCEPT ![r] = "looking"]
  /\ timer' = [timer EXCEPT ![r] = "armed"]
  /\ UNCHANGED <<stalled, sendVars, waiting, late, expiring, ended, wno, poolVars, cut>>

\* gotConn: the wait ends; a connection was handed over, so no dial stalls.
GotConn(r) ==
  /\ Looking(r) /\ live
  /\ wat' = [wat EXCEPT ![r] = "sent"]
  /\ waiting' = [waiting EXCEPT ![r] = FALSE]
  /\ timer' = [timer EXCEPT ![r] = IF waiting[r] /\ @ = "armed" THEN "ended" ELSE @]
  /\ stalled' = FALSE
  /\ GiveBack(r)
  /\ UNCHANGED <<wpc, bounded, late, expiring, ended, wno, poolVars, cut>>

\* The bound ends: the timer fires, and can no longer be stopped.
Fire(r) ==
  /\ timer[r] = "armed"
  /\ timer' = [timer EXCEPT ![r] = "ended"]
  /\ late' = [late EXCEPT ![r] = @ \cup {wno[r]}]
  /\ UNCHANGED <<stalled, sendVars, waiting, expiring, ended, wat, wno, poolVars, cut>>

\* expire's compare-and-swap and its mark, for the wait numbered n.
Expire(r) ==
  \E n \in late[r] :
    /\ late' = [late EXCEPT ![r] = @ \ {n}]
    /\ IF waiting[r]
       THEN /\ waiting' = [waiting EXCEPT ![r] = FALSE]
            /\ stalled' = TRUE
            /\ expiring' = [expiring EXCEPT ![r] = TRUE]
            /\ cut' = [cut EXCEPT ![r] = IF n = wno[r] THEN "own" ELSE "other"]
       ELSE UNCHANGED <<waiting, stalled, expiring, cut>>
    /\ UNCHANGED <<sendVars, timer, ended, wat, wno, poolVars>>

\* expire ends the context with the bound's error.
Cancel(r) ==
  /\ expiring[r]
  /\ expiring' = [expiring EXCEPT ![r] = FALSE]
  /\ ended' = [ended EXCEPT ![r] = IF @ = "alive" THEN "bound" ELSE @]
  /\ UNCHANGED <<stalled, sendVars, waiting, timer, late, wat, wno, poolVars, cut>>

----------------------------------------------------------------------------
(* The stock transport and the requests' own contexts.                     *)

\* A request with no connection to use dials when the permit is free.
Dial(r) ==
  /\ Looking(r) /\ ~live /\ permit = Nobody
  /\ permit' = r
  /\ UNCHANGED <<stalled, sendVars, boundVars, wat, wno, blocked, live, cut>>

\* The dial's hook blocks, perhaps for good.
Block ==
  /\ permit \in Hooked /\ ~blocked
  /\ blocked' = TRUE
  /\ UNCHANGED <<stalled, sendVars, boundVars, wat, wno, permit, live, cut>>

\* The hook returns after all.
HookReturns ==
  /\ blocked
  /\ blocked' = FALSE
  /\ UNCHANGED <<stalled, sendVars, boundVars, wat, wno, permit, live, cut>>

\* The dial ends with a connection, or fails the request it was started for
\* if that one still waits: a dial is detached from its request.
DialEnds ==
  /\ permit # Nobody /\ ~blocked
  /\ permit' = Nobody
  /\ \/ live' = TRUE /\ UNCHANGED ended
     \/ /\ UNCHANGED live
        /\ ended' = [r \in Requests |->
             IF r = permit /\ Looking(r) /\ ended[r] = "alive" THEN "dial" ELSE ended[r]]
  /\ UNCHANGED <<stalled, sendVars, waiting, timer, late, expiring, wat, wno,
                 blocked, cut>>

ConnLost ==
  /\ live
  /\ live' = FALSE
  /\ UNCHANGED <<stalled, sendVars, boundVars, wat, wno, permit, blocked, cut>>

\* A stock retry looks for a connection once more inside the same send.
Replay(r) ==
  /\ wpc[r] = "stock" /\ wat[r] = "sent" /\ wno[r] < MaxReplays
  /\ wat' = [wat EXCEPT ![r] = "out"]
  /\ wno' = [wno EXCEPT ![r] = @ + 1]
  /\ UNCHANGED <<stalled, sendVars, boundVars, poolVars, cut>>

EndCtx(r) ==
  /\ wpc[r] = "stock" /\ ended[r] = "alive"
  /\ ended' = [ended EXCEPT ![r] = "ctx"]
  /\ UNCHANGED <<stalled, sendVars, waiting, timer, late, expiring, wat, wno,
                 poolVars, cut>>

WaitNext ==
  \/ \E r \in Requests :
       \/ Send(r) \/ TokenWait(r) \/ Finish(r) \/ GetConn(r) \/ Arm(r) \/ GotConn(r)
       \/ Fire(r) \/ Expire(r) \/ Cancel(r) \/ Dial(r) \/ Replay(r) \/ EndCtx(r)
  \/ Block \/ HookReturns \/ DialEnds \/ ConnLost

WaitSpec == WaitInit /\ [][WaitNext]_wvars

\* Goroutines that can run do, timers fire and the dials no hook blocks end;
\* contexts need not end (WithNoTimeout) and hooks need not return.
WaitFair ==
  /\ \A r \in Requests :
       /\ WF_wvars(GetConn(r) \/ Arm(r)) /\ WF_wvars(GotConn(r)) /\ WF_wvars(Dial(r))
       /\ WF_wvars(Fire(r)) /\ WF_wvars(Expire(r)) /\ WF_wvars(Cancel(r))
       /\ WF_wvars(Finish(r))
  /\ WF_wvars(DialEnds)

FairWaitSpec == WaitSpec /\ WaitFair

----------------------------------------------------------------------------
(* Properties.                                                             *)

\* A request under the bound that waits for a connection stops waiting,
\* replayed waits included, though the dial that holds the permit never
\* ends and no context does.
BoundedWaitEnds ==
  \A r \in Requests : Looking(r) /\ bounded[r] ~> ~Looking(r)

\* getConn, expire: a request under the bound that looks for a connection is
\* never left to wait alone: its timer runs, the timer's callback is to come,
\* or that callback has marked the transport and is about to end the request's
\* context.  A late callback of an earlier wait does not undo it.
BoundArmed ==
  \A r \in Requests : Looking(r) /\ bounded[r] /\ ended[r] = "alive" =>
    IF waiting[r] THEN timer[r] = "armed" \/ late[r] # {} ELSE expiring[r]

\* send: a request outside the bound has the token until its first wait ends,
\* so no two requests can be in a first wait that nothing ends.
OneUnbounded ==
  \A r, s \in Requests :
    /\ Looking(r) /\ ~bounded[r] /\ wno[r] = 0
    /\ Looking(s) /\ ~bounded[s] /\ wno[s] = 0
    => r = s

\* finish: a request that returned has no timer, no wait for a callback to
\* end, and not the token.
NothingLeft ==
  \A r \in Requests : wpc[r] = "done" => timer[r] # "armed" /\ ~waiting[r] /\ holder # r

\* What WithClientTrace documents of a dial-phase hook that blocks: every
\* call that waits for a connection meanwhile fails at the bound, with no
\* timeout of its own too.
EveryWaitEnds ==
  \A r \in Requests : blocked /\ Looking(r) ~> ~blocked \/ ~Looking(r)

\* What expire documents: a request that got its connection before the
\* callback ran is left alone, so the bound of one wait ends no other wait.
ExpiresOwnWait == \A r \in Requests : cut[r] # "other"
============================================================================
