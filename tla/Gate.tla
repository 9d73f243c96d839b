------------------------------- MODULE Gate -------------------------------
(***************************************************************************)
(* The cold-start gate of internal/h2gate/transport.go.                    *)
(*                                                                         *)
(* A request is one call of Transport.RoundTrip.  The first request on a   *)
(* cold transport leads: it dials, through send.  The requests that arrive *)
(* while it dials park on its generation, each bounded by its context and  *)
(* by one wait-bound timer.  The leader's GotConn hook releases them and   *)
(* makes the gate warm; a leader that ends before GotConn either fails     *)
(* them (a dial verdict) or leaves the generation to the next of them.     *)
(*                                                                         *)
(* One step is one critical section of Transport.mu, one select, or one    *)
(* event of the environment (a context ends, a timer fires, send returns). *)
(* What happens inside send is the module Token's; here send is an         *)
(* environment that may run the GotConn hook, return or panic.             *)
(***************************************************************************)
EXTENDS Integers, FiniteSets

CONSTANT Requests    \* the calls of RoundTrip, each made once

VARIABLES
  state,      \* Transport.state
  warm,       \* Transport.warm, the flag read without the lock
  gen,        \* Transport.gen: generations are numbered, 0 is nil
  handover,   \* Transport.handover
  outcome,    \* generation.outcome
  closes,     \* how often generation.done was closed
  waiters,    \* generation.waiters
  stats,      \* the gate's counters
  pc,         \* where each request is in RoundTrip, lead or leave
  lg,         \* the local variable gen of RoundTrip and lead
  ctx,        \* the request's context
  bound,      \* RoundTrip's wait-bound timer
  err,        \* what send returned to lead
  ret         \* how RoundTrip returned

vars == <<state, warm, gen, handover, outcome, closes, waiters, stats,
          pc, lg, ctx, bound, err, ret>>

States   == {"cold", "dialing", "warm"}
Outcomes == {"pending", "released", "failed", "leaderGone"}
PCs      == {"idle", "loop", "parked", "leaveCtx", "leaveBound", "send",
             "lead", "leadErr", "done"}
Errs     == {"none", "dial", "other"}
Rets     == {"none", "sent", "cause", "ctx", "gone"}

Gens == 1..gen

\* A request that leads its generation and has not resolved it.
Leading(r) == pc[r] \in {"lead", "leadErr"} /\ outcome[lg[r]] = "pending"

\* A request counted in its generation's waiters.
Counted(r, g) == pc[r] \in {"parked", "leaveCtx", "leaveBound"} /\ lg[r] = g

\* A request still at the gate: neither sent nor returned.
AtGate(r) == pc[r] \in {"loop", "parked", "leaveCtx", "leaveBound"}

Extend(f, v) == [g \in 1..(gen + 1) |-> IF g = gen + 1 THEN v ELSE f[g]]

\* A fresh generation becomes the transport's, beside the outcomes and
\* closed channels the step leaves.
NewGeneration(out, cls) ==
  /\ gen' = gen + 1
  /\ outcome' = Extend(out, "pending")
  /\ closes' = Extend(cls, 0)
  /\ waiters' = Extend(waiters, 0)

Resolved(g, o) == [outcome EXCEPT ![g] = o]
Closed(g) == [closes EXCEPT ![g] = @ + 1]

Goto(r, l) == pc' = [pc EXCEPT ![r] = l]
Return(r, how) ==
  /\ pc' = [pc EXCEPT ![r] = "done"]
  /\ ret' = [ret EXCEPT ![r] = how]

Init ==
  /\ state = "cold" /\ warm = FALSE /\ gen = 0 /\ handover = FALSE
  /\ outcome = [g \in 1..0 |-> "pending"]
  /\ closes = [g \in 1..0 |-> 0]
  /\ waiters = [g \in 1..0 |-> 0]
  /\ stats = [leaders |-> 0, releases |-> 0, failures |-> 0,
              handovers |-> 0, coldResets |-> 0, fallThroughs |-> 0]
  /\ pc = [r \in Requests |-> "idle"]
  /\ lg = [r \in Requests |-> 0]
  /\ ctx = [r \in Requests |-> "alive"]
  /\ bound = [r \in Requests |-> "none"]
  /\ err = [r \in Requests |-> "none"]
  /\ ret = [r \in Requests |-> "none"]

----------------------------------------------------------------------------
(* RoundTrip.                                                              *)

gateVars == <<state, warm, gen, handover, outcome, closes, waiters, stats>>

\* The fast path reads warm without the lock.
Call(r) ==
  /\ pc[r] = "idle"
  /\ Goto(r, IF warm THEN "send" ELSE "loop")
  /\ UNCHANGED <<gateVars, lg, ctx, bound, err, ret>>

EnterWarm(r) ==
  /\ pc[r] = "loop" /\ state = "warm"
  /\ Goto(r, "send")
  /\ UNCHANGED <<gateVars, lg, ctx, bound, err, ret>>

CanLead == state # "warm" /\ (state = "cold" \/ handover)

\* A caller leads a generation of its own on a cold gate, or the one a
\* leader that left created for its waiters.
EnterLead(r) ==
  /\ pc[r] = "loop" /\ CanLead
  /\ IF state = "cold" THEN NewGeneration(outcome, closes)
                       ELSE UNCHANGED <<gen, outcome, closes, waiters>>
  /\ state' = "dialing" /\ handover' = FALSE
  /\ lg' = [lg EXCEPT ![r] = gen']
  /\ stats' = [stats EXCEPT !.leaders = @ + 1]
  /\ Goto(r, "lead")
  /\ UNCHANGED <<warm, ctx, bound, err, ret>>

\* Variant: a caller parks although the leader left.
EnterParkAny(r) ==
  /\ pc[r] = "loop" /\ state = "dialing"
  /\ lg' = [lg EXCEPT ![r] = gen]
  /\ waiters' = [waiters EXCEPT ![gen] = @ + 1]
  /\ bound' = [bound EXCEPT ![r] = IF @ = "none" THEN "armed" ELSE @]
  /\ Goto(r, "parked")
  /\ UNCHANGED <<state, warm, gen, handover, outcome, closes, stats, ctx, err, ret>>

\* One timer serves the whole RoundTrip: a waiter that loops keeps it.
EnterPark(r) ==
  /\ pc[r] = "loop" /\ state = "dialing" /\ ~handover
  /\ lg' = [lg EXCEPT ![r] = gen]
  /\ waiters' = [waiters EXCEPT ![gen] = @ + 1]
  /\ bound' = [bound EXCEPT ![r] = IF @ = "none" THEN "armed" ELSE @]
  /\ Goto(r, "parked")
  /\ UNCHANGED <<state, warm, gen, handover, outcome, closes, stats, ctx, err, ret>>

\* Variant: a waiter whose leader's dial failed tries again itself.
WakeRetry(r) ==
  /\ pc[r] = "parked" /\ closes[lg[r]] > 0
  /\ Goto(r, IF outcome[lg[r]] = "released" THEN "send" ELSE "loop")
  /\ UNCHANGED <<gateVars, lg, ctx, bound, err, ret>>

\* The select of a parked request; any ready case may be chosen.  A request
\* that wakes by done stays counted in its generation.
Wake(r) ==
  /\ pc[r] = "parked" /\ closes[lg[r]] > 0
  /\ \/ /\ outcome[lg[r]] = "released"
        /\ Goto(r, "send") /\ UNCHANGED ret
     \/ /\ outcome[lg[r]] = "failed"
        /\ Return(r, "cause")
     \/ /\ outcome[lg[r]] = "leaderGone"
        /\ Goto(r, "loop") /\ UNCHANGED ret
  /\ UNCHANGED <<gateVars, lg, ctx, bound, err>>

SelectCtx(r) ==
  /\ pc[r] = "parked" /\ ctx[r] = "ended"
  /\ Goto(r, "leaveCtx")
  /\ UNCHANGED <<gateVars, lg, ctx, bound, err, ret>>

SelectBound(r) ==
  /\ pc[r] = "parked" /\ bound[r] = "fired"
  /\ Goto(r, "leaveBound")
  /\ UNCHANGED <<gateVars, lg, ctx, bound, err, ret>>

\* Variant: leave does not count the waiter out.

\* leave, under the lock, then the rest of its select case.
Leave(r) ==
  /\ pc[r] \in {"leaveCtx", "leaveBound"}
  /\ waiters' = [waiters EXCEPT ![lg[r]] = @ - 1]
  /\ \/ /\ pc[r] = "leaveCtx"
        /\ Return(r, "ctx") /\ UNCHANGED stats
     \/ /\ pc[r] = "leaveBound"
        /\ stats' = [stats EXCEPT !.fallThroughs = @ + 1]
        /\ Goto(r, "send") /\ UNCHANGED ret
  /\ UNCHANGED <<state, warm, gen, handover, outcome, closes, lg, ctx, bound, err>>

\* send of a request that leads nothing ends, however it ends.
SendEnds(r) ==
  /\ pc[r] = "send"
  /\ Return(r, "sent")
  /\ UNCHANGED <<gateVars, lg, ctx, bound, err>>

----------------------------------------------------------------------------
(* lead and release.                                                       *)

\* Variant: release without its check.

\* release(gen): once per generation.
Release(r) ==
  \/ /\ outcome[lg[r]] # "pending"
     /\ UNCHANGED gateVars
  \/ /\ outcome[lg[r]] = "pending"
     /\ outcome' = Resolved(lg[r], "released")
     /\ closes' = Closed(lg[r])
     /\ state' = "warm" /\ warm' = TRUE
     /\ stats' = [stats EXCEPT !.releases = @ + 1]
     /\ UNCHANGED <<gen, handover, waiters>>

\* The GotConn hook inside the leader's send; a stock replay runs it again.
GotConn(r) ==
  /\ pc[r] = "lead"
  /\ Release(r)
  /\ UNCHANGED <<pc, lg, ctx, bound, err, ret>>

\* send answered: lead releases, a no-op after the hook.
LeadAnswered(r) ==
  /\ pc[r] = "lead"
  /\ Release(r)
  /\ Return(r, "sent")
  /\ UNCHANGED <<lg, ctx, bound, err>>

\* send returned an error to lead: a *DialError only when no connection was
\* handed over and the context was alive when send looked at it.
LeadErred(r) ==
  /\ pc[r] = "lead"
  /\ \E e \in {"dial", "other"} :
       /\ e = "dial" => outcome[lg[r]] = "pending" /\ ctx[r] = "alive"
       /\ err' = [err EXCEPT ![r] = e]
  /\ Goto(r, "leadErr")
  /\ UNCHANGED <<gateVars, lg, ctx, bound, ret>>

\* Variant: the waiters of a leader that left are not woken.
AbandonSilently(g) ==
  /\ IF waiters[g] = 0
     THEN /\ state' = "cold" /\ UNCHANGED <<handover, gen, waiters, closes>>
          /\ outcome' = Resolved(g, "leaderGone")
          /\ stats' = [stats EXCEPT !.coldResets = @ + 1]
     ELSE /\ handover' = TRUE /\ UNCHANGED state
          /\ NewGeneration(Resolved(g, "leaderGone"), closes)
          /\ stats' = [stats EXCEPT !.handovers = @ + 1]
  /\ UNCHANGED warm

\* abandonLocked(gen): no verdict on the dial.
AbandonLocked(g) ==
  /\ IF waiters[g] = 0
     THEN /\ state' = "cold" /\ UNCHANGED <<handover, gen, waiters>>
          /\ outcome' = Resolved(g, "leaderGone")
          /\ closes' = Closed(g)
          /\ stats' = [stats EXCEPT !.coldResets = @ + 1]
     ELSE /\ handover' = TRUE /\ UNCHANGED state
          /\ NewGeneration(Resolved(g, "leaderGone"), Closed(g))
          /\ stats' = [stats EXCEPT !.handovers = @ + 1]
  /\ UNCHANGED warm

\* The dial failed: its waiters get the cause, the gate turns cold.  The code
\* counts after the unlock; no step reads a counter, and the call has counted
\* when it returns.
FailLocked(g) ==
  /\ outcome' = Resolved(g, "failed")
  /\ closes' = Closed(g)
  /\ state' = "cold"
  /\ stats' = [stats EXCEPT !.failures = @ + 1, !.coldResets = @ + 1]
  /\ UNCHANGED <<warm, gen, handover, waiters>>

Verdict(r) == err[r] = "dial" /\ ctx[r] = "alive"

\* lead's critical section after an error.
LeadResolve(r) ==
  /\ pc[r] = "leadErr"
  /\ \/ /\ outcome[lg[r]] # "pending"
        /\ Return(r, "sent") /\ UNCHANGED gateVars
     \/ /\ outcome[lg[r]] = "pending" /\ ~Verdict(r)
        /\ AbandonLocked(lg[r]) /\ Return(r, "gone")
     \/ /\ outcome[lg[r]] = "pending" /\ Verdict(r)
        /\ FailLocked(lg[r]) /\ Return(r, "cause")
  /\ UNCHANGED <<lg, ctx, bound, err>>

\* A panic unwinds through send: lead's deferred function resolves what is
\* still pending and the panic goes on.
LeadPanics(r) ==
  /\ pc[r] = "lead"
  /\ \/ /\ outcome[lg[r]] = "pending"
        /\ AbandonLocked(lg[r]) /\ Return(r, "gone")
     \/ /\ outcome[lg[r]] # "pending"
        /\ Return(r, "sent") /\ UNCHANGED gateVars
  /\ UNCHANGED <<lg, ctx, bound, err>>

----------------------------------------------------------------------------
(* The environment: contexts end and timers fire at any time.              *)

EndCtx(r) ==
  /\ pc[r] # "done" /\ ctx[r] = "alive"
  /\ ctx' = [ctx EXCEPT ![r] = "ended"]
  /\ UNCHANGED <<gateVars, pc, lg, bound, err, ret>>

\* Only a request at the gate reads its timer.
FireBound(r) ==
  /\ AtGate(r) /\ bound[r] = "armed"
  /\ bound' = [bound EXCEPT ![r] = "fired"]
  /\ UNCHANGED <<gateVars, pc, lg, ctx, err, ret>>

Enter(r) == EnterWarm(r) \/ EnterLead(r) \/ EnterPark(r)
Select(r) == Wake(r) \/ SelectCtx(r) \/ SelectBound(r)
Step(r) == Enter(r) \/ Select(r) \/ Leave(r) \/ LeadResolve(r)
SendStep(r) == SendEnds(r) \/ LeadAnswered(r) \/ LeadErred(r) \/ LeadPanics(r)

Next ==
  \E r \in Requests :
    \/ Call(r) \/ EnterWarm(r) \/ EnterLead(r) \/ EnterPark(r)
    \/ Wake(r) \/ SelectCtx(r) \/ SelectBound(r) \/ Leave(r)
    \/ SendEnds(r) \/ GotConn(r) \/ LeadAnswered(r) \/ LeadErred(r)
    \/ LeadResolve(r) \/ LeadPanics(r) \/ EndCtx(r) \/ FireBound(r)

Spec == Init /\ [][Next]_vars

\* The Go scheduler runs every goroutine that can run.
StepFair == \A r \in Requests : WF_vars(Step(r))
FairSpec == Spec /\ StepFair

\* Timers fire.
TimersFair == \A r \in Requests : WF_vars(FireBound(r))

\* Every send ends.
SendsFair == \A r \in Requests : WF_vars(SendStep(r))

----------------------------------------------------------------------------
(* Properties.                                                             *)

TypeOK ==
  /\ state \in States /\ warm \in BOOLEAN /\ gen \in Nat /\ handover \in BOOLEAN
  /\ outcome \in [Gens -> Outcomes]
  /\ closes \in [Gens -> Nat]
  /\ waiters \in [Gens -> Int]
  /\ stats \in [leaders : Nat, releases : Nat, failures : Nat,
                handovers : Nat, coldResets : Nat, fallThroughs : Nat]
  /\ pc \in [Requests -> PCs]
  /\ lg \in [Requests -> 0..gen]
  /\ ctx \in [Requests -> {"alive", "ended"}]
  /\ bound \in [Requests -> {"none", "armed", "fired"}]
  /\ err \in [Requests -> Errs]
  /\ ret \in [Requests -> Rets]

\* The gate serialises the cold dials: no two requests lead unresolved
\* generations at once, handovers and late errors included.
OneLeader ==
  \A r, s \in Requests : Leading(r) /\ Leading(s) => r = s

\* No request is parked on a generation nobody will resolve: whoever parks
\* on a pending generation has a leader that still runs it (RoundTrip's
\* handover flag is what keeps a caller from parking on an unled one).
NoOrphan ==
  \A r \in Requests :
    pc[r] = "parked" /\ outcome[lg[r]] = "pending"
      => \E l \in Requests : Leading(l) /\ lg[l] = lg[r]

\* done is closed exactly when the outcome is set and never twice (a second
\* close would panic): the hook, lead's error path and lead's deferred
\* function all resolve a generation.
CloseOnce ==
  \A g \in Gens : closes[g] = IF outcome[g] = "pending" THEN 0 ELSE 1

\* While a generation is pending its counter is exact: abandonLocked's
\* choice between a handover and a cold gate rests on it, with waiters that
\* have decided to leave and not yet locked still counted.
WaitersExact ==
  \A g \in Gens :
    outcome[g] = "pending" => waiters[g] = Cardinality({r \in Requests : Counted(r, g)})

\* The gate is warm for good: no late verdict of an earlier or the same
\* leader turns it cold or dialing again.
WarmForGood == [][warm => warm' /\ state' = "warm"]_vars

Quiet == \A r \in Requests : pc[r] \in {"idle", "done"}

\* The documented meaning of the counters, when no call runs: every led dial
\* ended as a release, a handover or a return to the cold state, at most one
\* of them as a release, and a failure is one of the cold returns.
StatsBalance ==
  /\ stats.releases <= 1
  /\ Quiet => /\ stats.leaders = stats.releases + stats.handovers + stats.coldResets
              /\ stats.failures <= stats.coldResets

\* Nobody stays at the gate: every request is sent or returns.
LeavesGate == \A r \in Requests : AtGate(r) ~> ~AtGate(r)

\* The bound alone suffices (requests leave though no send ever ends), and so
\* do the wake-ups (requests leave though no timer ever fires, so every
\* generation a request parks on is resolved and woken).
LeavesEitherWay == (TimersFair => LeavesGate) /\ (SendsFair => LeavesGate)

----------------------------------------------------------------------------
(* The gate implements single flight.  A handover is a cold phase: nobody  *)
(* flies until the next caller takes the generation over.                  *)

Phase ==
  IF state = "warm" THEN "open"
  ELSE IF state = "dialing" /\ ~handover THEN "led"
  ELSE "cold"

Role(r) ==
  CASE pc[r] = "idle" -> "out"
    [] AtGate(r) -> "waiting"
    [] Leading(r) -> "leading"
    [] pc[r] = "done" /\ ret[r] = "cause" -> "refused"
    [] pc[r] = "done" /\ ret[r] \in {"ctx", "gone"} -> "gone"
    [] OTHER -> "through"

Doomed ==
  {r \in Requests : pc[r] \in {"parked", "leaveCtx", "leaveBound"}
                      /\ outcome[lg[r]] = "failed"}

RoleOf == [r \in Requests |-> Role(r)]

Flight == INSTANCE SingleFlight WITH phase <- Phase, role <- RoleOf, doomed <- Doomed

\* Every behaviour of the gate is one of SingleFlight: dials fly one at a
\* time, and only a flight that failed while a request waited refuses it.
ImplementsSingleFlight == Flight!FlightSpec
============================================================================
