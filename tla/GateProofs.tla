---------------------------- MODULE GateProofs ----------------------------
(***************************************************************************)
(* Proofs about the cold-start gate, for any set of requests.              *)
(***************************************************************************)
EXTENDS Gate, FiniteSetTheorems, TLAPS

Led(r) == pc[r] \in {"lead", "leadErr"}
Parks(r) == pc[r] \in {"parked", "leaveCtx", "leaveBound"}

\* Whoever leads or parks refers to a generation that exists.
RefsExist == \A r \in Requests : Led(r) \/ Parks(r) => lg[r] \in Gens

\* A generation has one leader over its whole life.
LeaderUnique == \A r, s \in Requests : Led(r) /\ Led(s) /\ lg[r] = lg[s] => r = s

\* Only the transport's own generation is pending, and only while dialing.
PendingIsCurrent ==
  \A g \in Gens : outcome[g] = "pending" => g = gen /\ state = "dialing"

\* A dialing gate has a leader, or has been handed over.
DialingIsLed ==
  state = "dialing" /\ ~handover
    => \E r \in Requests : Led(r) /\ lg[r] = gen /\ outcome[gen] = "pending"

\* A handed-over generation is fresh: pending, unled and without waiters.
HandoverIsFresh ==
  handover =>
    /\ state = "dialing" /\ gen \in Gens /\ outcome[gen] = "pending"
    /\ \A r \in Requests : Led(r) \/ Parks(r) => lg[r] # gen

WarmIsState == warm <=> state = "warm"

\* The counters, at every step.
Ledger ==
  /\ stats.leaders = stats.releases + stats.handovers + stats.coldResets
                     + (IF state = "dialing" /\ ~handover THEN 1 ELSE 0)
  /\ stats.releases = IF state = "warm" THEN 1 ELSE 0
  /\ stats.failures <= stats.coldResets

GateInv ==
  /\ RefsExist /\ LeaderUnique /\ PendingIsCurrent /\ DialingIsLed
  /\ HandoverIsFresh /\ WarmIsState /\ CloseOnce /\ Ledger

IInv == TypeOK /\ GateInv

USE DEF Gens, Outcomes, States, PCs, Errs, Rets


LEMMA InitIInv == Init => IInv
  <1> SUFFICES ASSUME Init PROVE IInv
    OBVIOUS
  <1>1. /\ gen = 0 /\ state = "cold" /\ warm = FALSE /\ handover = FALSE
    BY DEF Init
  <1>2. Gens = {}
    BY <1>1
  <1>3. TypeOK
    <2>1. /\ outcome \in [Gens -> Outcomes] /\ closes \in [Gens -> Nat] /\ waiters \in [Gens -> Int]
      BY <1>1, <1>2 DEF Init
    <2>2. state \in States /\ gen \in Nat /\ lg \in [Requests -> 0..gen] /\ stats \in [leaders : Nat, releases : Nat, failures : Nat,
                handovers : Nat, coldResets : Nat, fallThroughs : Nat]
      BY <1>1 DEF Init
    <2> QED
      BY <2>1, <2>2, <1>1 DEF Init, TypeOK
  <1>4. GateInv
    BY <1>1, <1>2 DEF Init, GateInv, RefsExist, LeaderUnique, PendingIsCurrent,
      DialingIsLed, HandoverIsFresh, WarmIsState, CloseOnce, Ledger, Led, Parks
  <1> QED
    BY <1>3, <1>4 DEF IInv

----------------------------------------------------------------------------
(* Type correctness.                                                       *)

Counters == [leaders : Nat, releases : Nat, failures : Nat,
             handovers : Nat, coldResets : Nat, fallThroughs : Nat]

GenTypes ==
  /\ gen \in Nat
  /\ outcome \in [Gens -> Outcomes]
  /\ closes \in [Gens -> Nat]
  /\ waiters \in [Gens -> Int]

\* A fresh generation extends the three functions of generations.
LEMMA NewGenerationType ==
  ASSUME GenTypes,
         NEW out \in [Gens -> Outcomes], NEW cls \in [Gens -> Nat],
         NewGeneration(out, cls)
  PROVE  /\ GenTypes' /\ gen' = gen + 1 /\ gen' \in Gens' /\ Gens \subseteq Gens'
         /\ outcome'[gen'] = "pending" /\ closes'[gen'] = 0 /\ waiters'[gen'] = 0
         /\ \A g \in Gens : g \in Gens' /\ g # gen'
                              /\ outcome'[g] = out[g] /\ closes'[g] = cls[g]
                              /\ waiters'[g] = waiters[g]
         /\ (\A g \in Gens' : g \in Gens \/ g = gen')
  <1>1. gen \in Nat /\ gen' = gen + 1 /\ gen' \in Nat
    BY DEF GenTypes, NewGeneration
  <1>2. outcome' \in [1..gen' -> Outcomes]
    BY <1>1 DEF NewGeneration, Extend
  <1>3. closes' \in [1..gen' -> Nat]
    BY <1>1 DEF NewGeneration, Extend
  <1>4. waiters' \in [1..gen' -> Int]
    BY <1>1 DEF NewGeneration, Extend, GenTypes
  <1>5. /\ gen' \in 1..gen' /\ outcome'[gen'] = "pending"
        /\ closes'[gen'] = 0 /\ waiters'[gen'] = 0
    BY <1>1 DEF NewGeneration, Extend
  <1>6. \A g \in Gens : g \in 1..gen' /\ g # gen' /\ outcome'[g] = out[g]
                          /\ closes'[g] = cls[g] /\ waiters'[g] = waiters[g]
    BY <1>1 DEF NewGeneration, Extend
  <1>7. \A g \in 1..gen' : g \in 1..gen \/ g = gen'
    BY <1>1
  <1> QED
    BY <1>1, <1>2, <1>3, <1>4, <1>5, <1>6, <1>7 DEF GenTypes

\* What a step does to the transport's own variables keeps their types.
GateTypes ==
  /\ state \in States /\ warm \in BOOLEAN /\ handover \in BOOLEAN
  /\ GenTypes /\ stats \in Counters

CallTypes ==
  /\ pc \in [Requests -> PCs]
  /\ lg \in [Requests -> 0..gen]
  /\ ctx \in [Requests -> {"alive", "ended"}]
  /\ bound \in [Requests -> {"none", "armed", "fired"}]
  /\ err \in [Requests -> Errs]
  /\ ret \in [Requests -> Rets]

LEMMA TypeSplit == TypeOK <=> GateTypes /\ CallTypes
  BY DEF TypeOK, GateTypes, CallTypes, GenTypes, Counters

LEMMA LeaderGens == ASSUME IInv, NEW r \in Requests, Led(r) \/ Parks(r) PROVE lg[r] \in Gens
  BY DEF IInv, GateInv, RefsExist

LEMMA ResolveTypes ==
  ASSUME GateTypes, NEW g \in Gens, NEW o \in Outcomes
  PROVE  Resolved(g, o) \in [Gens -> Outcomes] /\ Closed(g) \in [Gens -> Nat]
  BY DEF GateTypes, GenTypes, Resolved, Closed

LEMMA AbandonTypes ==
  ASSUME GateTypes, NEW g \in Gens, AbandonLocked(g)
  PROVE  GateTypes'
  <1>1. Resolved(g, "leaderGone") \in [Gens -> Outcomes] /\ Closed(g) \in [Gens -> Nat]
    BY ResolveTypes
  <1>2. CASE waiters[g] = 0
    <2>1. stats' \in Counters
      BY <1>2 DEF AbandonLocked, GateTypes, Counters
    <2> QED
      BY <1>1, <1>2, <2>1 DEF AbandonLocked, GateTypes, GenTypes
  <1>3. CASE waiters[g] # 0
    <2>1. stats' \in Counters
      BY <1>3 DEF AbandonLocked, GateTypes, Counters
    <2>2. GenTypes'
      BY <1>1, <1>3, NewGenerationType DEF AbandonLocked, GateTypes
    <2> QED
      BY <1>3, <2>1, <2>2 DEF AbandonLocked, GateTypes
  <1> QED
    BY <1>2, <1>3

LEMMA FailTypes ==
  ASSUME GateTypes, NEW g \in Gens, FailLocked(g)
  PROVE  GateTypes' /\ gen' = gen
  <1>1. Resolved(g, "failed") \in [Gens -> Outcomes] /\ Closed(g) \in [Gens -> Nat]
    BY ResolveTypes
  <1>2. stats' \in Counters
    <2>1. stats \in Counters
      BY DEF GateTypes
    <2>2. PICK s : s = [stats EXCEPT !.failures = @ + 1]
      OBVIOUS
    <2>3. stats' = [s EXCEPT !.coldResets = @ + 1]
      BY <2>2 DEF FailLocked
    <2>4. s \in Counters
      BY <2>1, <2>2 DEF Counters
    <2> QED
      BY <2>3, <2>4 DEF Counters
  <1> QED
    BY <1>1, <1>2 DEF FailLocked, GateTypes, GenTypes

LEMMA ReleaseTypes ==
  ASSUME GateTypes, NEW r \in Requests, lg[r] \in Gens, Release(r)
  PROVE  GateTypes' /\ gen' = gen
  <1>1. CASE outcome[lg[r]] # "pending"
    BY <1>1 DEF Release, gateVars, GateTypes, GenTypes
  <1>2. CASE outcome[lg[r]] = "pending"
    <2>1. Resolved(lg[r], "released") \in [Gens -> Outcomes] /\ Closed(lg[r]) \in [Gens -> Nat]
      BY ResolveTypes
    <2>2. stats' \in Counters
      BY <1>2 DEF Release, GateTypes, Counters
    <2> QED
      BY <1>2, <2>1, <2>2 DEF Release, GateTypes, GenTypes
  <1> QED
    BY <1>1, <1>2

\* Generations are only added.
LEMMA AbandonGrows ==
  ASSUME GateTypes, NEW g \in Gens, AbandonLocked(g)
  PROVE  gen' = gen \/ gen' = gen + 1
  BY DEF AbandonLocked, NewGeneration

LEMMA CallTypesKept ==
  ASSUME CallTypes, gen \in Nat, gen' = gen \/ gen' = gen + 1,
         NEW r \in Requests, NEW l \in PCs, NEW x \in Rets,
         pc' = [pc EXCEPT ![r] = l],
         ret' = ret \/ ret' = [ret EXCEPT ![r] = x],
         UNCHANGED <<lg, ctx, bound, err>>
  PROVE  CallTypes'
  <1>1. pc' \in [Requests -> PCs] /\ ret' \in [Requests -> Rets]
    BY DEF CallTypes
  <1>2. lg' \in [Requests -> 0..gen']
    BY DEF CallTypes
  <1> QED
    BY <1>1, <1>2 DEF CallTypes

LEMMA TypeStep == IInv /\ [Next]_vars => TypeOK'
  <1> SUFFICES ASSUME IInv, [Next]_vars PROVE GateTypes' /\ CallTypes'
    BY TypeSplit DEF TypeOK, GateTypes, CallTypes, GenTypes, Counters
  <1>0. GateTypes /\ CallTypes /\ gen \in Nat
    BY TypeSplit DEF IInv, TypeOK
  <1>1. ASSUME NEW r \in Requests, Call(r) \/ EnterWarm(r) \/ Wake(r) \/ SelectCtx(r)
                                     \/ SelectBound(r) \/ SendEnds(r)
        PROVE  GateTypes' /\ CallTypes'
    <2>1. UNCHANGED gateVars /\ UNCHANGED <<lg, ctx, bound, err>>
      BY <1>1 DEF Call, EnterWarm, Wake, SelectCtx, SelectBound, SendEnds
    <2>2. \E l \in PCs, x \in Rets : /\ pc' = [pc EXCEPT ![r] = l]
                                     /\ ret' = ret \/ ret' = [ret EXCEPT ![r] = x]
      BY <1>1 DEF Call, EnterWarm, Wake, SelectCtx, SelectBound, SendEnds, Goto, Return
    <2>3. GateTypes'
      BY <1>0, <2>1 DEF gateVars, GateTypes, GenTypes
    <2>4. gen' = gen
      BY <2>1 DEF gateVars
    <2> QED
      BY <1>0, <2>1, <2>2, <2>3, <2>4, CallTypesKept
  <1>2. ASSUME NEW r \in Requests, EnterLead(r) PROVE GateTypes' /\ CallTypes'
    <2>1. GenTypes' /\ gen' \in 0..gen' /\ (gen' = gen \/ gen' = gen + 1)
      <3>1. CASE state = "cold"
        BY <1>0, <1>2, <3>1, NewGenerationType DEF EnterLead, GateTypes, GenTypes
      <3>2. CASE state # "cold"
        BY <1>0, <1>2, <3>2 DEF EnterLead, GateTypes, GenTypes
      <3> QED BY <3>1, <3>2
    <2>2. stats' \in Counters
      BY <1>0, <1>2 DEF EnterLead, GateTypes, Counters
    <2>3. GateTypes'
      BY <1>0, <1>2, <2>1, <2>2 DEF EnterLead, GateTypes
    <2>4. lg' \in [Requests -> 0..gen']
      BY <1>0, <1>2, <2>1 DEF EnterLead, CallTypes
    <2>5. pc' \in [Requests -> PCs]
      BY <1>0, <1>2 DEF EnterLead, CallTypes, Goto
    <2> QED
      BY <1>0, <1>2, <2>3, <2>4, <2>5 DEF EnterLead, CallTypes
  <1>3. ASSUME NEW r \in Requests, EnterPark(r) PROVE GateTypes' /\ CallTypes'
    <2>0. gen \in Gens
      BY <1>3 DEF EnterPark, IInv, GateInv, DialingIsLed, RefsExist
    <2>1. waiters' \in [Gens -> Int]
      BY <1>0, <1>3, <2>0 DEF EnterPark, GateTypes, GenTypes
    <2>2. GateTypes'
      BY <1>0, <1>3, <2>1 DEF EnterPark, GateTypes, GenTypes
    <2>3. lg' \in [Requests -> 0..gen]
      BY <1>0, <1>3 DEF EnterPark, CallTypes
    <2>4. pc' \in [Requests -> PCs]
      BY <1>0, <1>3 DEF EnterPark, CallTypes, Goto
    <2>5. bound' \in [Requests -> {"none", "armed", "fired"}]
      BY <1>0, <1>3 DEF EnterPark, CallTypes
    <2> QED
      BY <1>0, <1>3, <2>2, <2>3, <2>4, <2>5 DEF EnterPark, CallTypes
  <1>4. ASSUME NEW r \in Requests, Leave(r) PROVE GateTypes' /\ CallTypes'
    <2>0. lg[r] \in Gens
      BY <1>4, LeaderGens DEF Leave, Parks
    <2>1. waiters' \in [Gens -> Int]
      BY <1>0, <1>4, <2>0 DEF Leave, GateTypes, GenTypes
    <2>2. stats' \in Counters
      BY <1>0, <1>4 DEF Leave, GateTypes, Counters
    <2>3. GateTypes'
      BY <1>0, <1>4, <2>1, <2>2 DEF Leave, GateTypes, GenTypes
    <2>4. \E l \in PCs, x \in Rets : /\ pc' = [pc EXCEPT ![r] = l]
                                     /\ ret' = ret \/ ret' = [ret EXCEPT ![r] = x]
      BY <1>4 DEF Leave, Goto, Return
    <2>5. gen' = gen /\ UNCHANGED <<lg, ctx, bound, err>>
      BY <1>4 DEF Leave
    <2> QED
      BY <1>0, <2>3, <2>4, <2>5, CallTypesKept
  <1>5. ASSUME NEW r \in Requests, GotConn(r) \/ LeadAnswered(r) PROVE GateTypes' /\ CallTypes'
    <2>1. lg[r] \in Gens
      BY <1>5, LeaderGens DEF GotConn, LeadAnswered, Led
    <2>2. GateTypes' /\ gen' = gen
      BY <1>0, <1>5, <2>1, ReleaseTypes DEF GotConn, LeadAnswered
    <2>3. CASE GotConn(r)
      BY <1>0, <2>2, <2>3 DEF GotConn, CallTypes
    <2>4. CASE LeadAnswered(r)
      <3>1. /\ pc' = [pc EXCEPT ![r] = "done"] /\ ret' = [ret EXCEPT ![r] = "sent"]
            /\ UNCHANGED <<lg, ctx, bound, err>>
        BY <2>4 DEF LeadAnswered, Return
      <3> QED
        BY <1>0, <2>2, <3>1, CallTypesKept
    <2> QED
      BY <1>5, <2>2, <2>3, <2>4
  <1>6. ASSUME NEW r \in Requests, LeadErred(r) PROVE GateTypes' /\ CallTypes'
    <2>1. GateTypes' /\ gen' = gen
      BY <1>0, <1>6 DEF LeadErred, gateVars, GateTypes, GenTypes
    <2>2. err' \in [Requests -> Errs] /\ pc' \in [Requests -> PCs]
      BY <1>0, <1>6 DEF LeadErred, CallTypes, Goto
    <2> QED
      BY <1>0, <1>6, <2>1, <2>2 DEF LeadErred, CallTypes
  <1>7. ASSUME NEW r \in Requests, LeadResolve(r) \/ LeadPanics(r) PROVE GateTypes' /\ CallTypes'
    <2>1. lg[r] \in Gens
      BY <1>7, LeaderGens DEF LeadResolve, LeadPanics, Led
    <2>2. UNCHANGED gateVars \/ AbandonLocked(lg[r]) \/ FailLocked(lg[r])
      BY <1>7 DEF LeadResolve, LeadPanics
    <2>3. GateTypes' /\ (gen' = gen \/ gen' = gen + 1)
      <3>1. CASE UNCHANGED gateVars
        BY <1>0, <3>1 DEF gateVars, GateTypes, GenTypes
      <3>2. CASE AbandonLocked(lg[r])
        BY <1>0, <2>1, <3>2, AbandonTypes, AbandonGrows
      <3>3. CASE FailLocked(lg[r])
        BY <1>0, <2>1, <3>3, FailTypes
      <3> QED
        BY <2>2, <3>1, <3>2, <3>3
    <2>4. \E x \in Rets : pc' = [pc EXCEPT ![r] = "done"] /\ ret' = [ret EXCEPT ![r] = x]
      BY <1>7 DEF LeadResolve, LeadPanics, Return
    <2>5. UNCHANGED <<lg, ctx, bound, err>>
      BY <1>7 DEF LeadResolve, LeadPanics
    <2> QED
      BY <1>0, <2>3, <2>4, <2>5, CallTypesKept
  <1>8. ASSUME NEW r \in Requests, EndCtx(r) \/ FireBound(r) PROVE GateTypes' /\ CallTypes'
    <2>1. UNCHANGED gateVars /\ UNCHANGED <<pc, lg, err, ret>>
      BY <1>8 DEF EndCtx, FireBound
    <2>2. /\ ctx' \in [Requests -> {"alive", "ended"}]
          /\ bound' \in [Requests -> {"none", "armed", "fired"}]
      BY <1>0, <1>8 DEF EndCtx, FireBound, CallTypes
    <2> QED
      BY <1>0, <2>1, <2>2 DEF gateVars, GateTypes, GenTypes, CallTypes
  <1>9. CASE UNCHANGED vars
    BY <1>0, <1>9 DEF vars, GateTypes, GenTypes, CallTypes
  <1> QED
    BY <1>1, <1>2, <1>3, <1>4, <1>5, <1>6, <1>7, <1>8, <1>9 DEF Next

----------------------------------------------------------------------------
(* The gate's invariant, one lemma per way of changing the gate.           *)

LeadingStays(r) ==
  /\ \A q \in Requests \ {r} : pc'[q] = pc[q]
  /\ UNCHANGED lg

\* A step that leaves the gate alone: its request gains no part in a
\* generation and gives up a lead only when the generation is resolved.
LEMMA LocalStep ==
  ASSUME IInv, UNCHANGED gateVars, NEW r \in Requests, LeadingStays(r),
         Led(r)' => Led(r), Parks(r)' => Parks(r),
         Led(r) /\ ~Led(r)' => outcome[lg[r]] # "pending"
  PROVE  GateInv'
  <1>1. \A q \in Requests : /\ Led(q)' => Led(q)
                            /\ Parks(q)' => Parks(q)
                            /\ Led(q) /\ ~Led(q)' => outcome[lg[q]] # "pending"
    BY DEF LeadingStays, Led, Parks
  <1> USE DEF IInv, GateInv, gateVars, LeadingStays
  <1>2. RefsExist'
    BY <1>1 DEF RefsExist
  <1>3. LeaderUnique'
    BY <1>1 DEF LeaderUnique
  <1>4. PendingIsCurrent' /\ CloseOnce'
    BY DEF PendingIsCurrent, CloseOnce
  <1>5. DialingIsLed'
    BY <1>1 DEF DialingIsLed
  <1>6. HandoverIsFresh'
    BY <1>1 DEF HandoverIsFresh
  <1>7. WarmIsState' /\ Ledger'
    BY DEF WarmIsState, Ledger
  <1> QED
    BY <1>2, <1>3, <1>4, <1>5, <1>6, <1>7

LEMMA EnterLeadGate ==
  ASSUME IInv, NEW r \in Requests, EnterLead(r)
  PROVE  GateInv'
  <1>0. GateTypes /\ CallTypes
    BY TypeSplit DEF IInv
  <1>1. /\ pc' = [pc EXCEPT ![r] = "lead"] /\ lg' = [lg EXCEPT ![r] = gen']
        /\ pc[r] = "loop" /\ state' = "dialing" /\ ~handover' /\ state # "warm" /\ warm' = warm
        /\ (state = "cold" \/ handover)
    BY DEF EnterLead, Goto, CanLead
  <1>2. \A q \in Requests : /\ Led(q)' <=> Led(q) \/ q = r
                            /\ Parks(q)' <=> Parks(q)
                            /\ lg'[q] = IF q = r THEN gen' ELSE lg[q]
    BY <1>0, <1>1 DEF CallTypes, Led, Parks
  <1>3. /\ gen' \in Nat /\ gen' \in Gens' /\ Gens \subseteq Gens'
        /\ outcome'[gen'] = "pending" /\ closes'[gen'] = 0
        /\ \A g \in Gens' : g # gen' => g \in Gens /\ outcome'[g] = outcome[g] /\ closes'[g] = closes[g]
        /\ \A g \in Gens' : g # gen' => outcome[g] # "pending"
        /\ \A q \in Requests : Led(q) \/ Parks(q) => lg[q] # gen'
    <2>1. CASE state = "cold"
      <3>1. NewGeneration(outcome, closes) /\ GenTypes /\ outcome \in [Gens -> Outcomes] /\ closes \in [Gens -> Nat]
        BY <1>0, <2>1 DEF EnterLead, GateTypes, GenTypes
      <3>2. \A g \in Gens : outcome[g] # "pending"
        BY <2>1 DEF IInv, GateInv, PendingIsCurrent
      <3>3. \A q \in Requests : Led(q) \/ Parks(q) => lg[q] \in Gens
        BY LeaderGens
      <3> HIDE DEF Gens
      <3>4. gen' \in Nat
        BY <3>1, NewGenerationType DEF GenTypes
      <3> QED
        BY <3>1, <3>2, <3>3, <3>4, NewGenerationType
    <2>2. CASE state # "cold"
      <3>1. UNCHANGED <<gen, outcome, closes, waiters>> /\ handover
        BY <1>1, <2>2 DEF EnterLead
      <3>2. /\ state = "dialing" /\ gen \in Gens /\ outcome[gen] = "pending"
            /\ \A q \in Requests : Led(q) \/ Parks(q) => lg[q] # gen
        BY <3>1 DEF IInv, GateInv, HandoverIsFresh
      <3>3. closes[gen] = 0 /\ gen \in Nat
        BY <3>2, <1>0 DEF IInv, GateInv, CloseOnce, GateTypes, GenTypes
      <3>4. \A g \in Gens : g # gen => outcome[g] # "pending"
        BY DEF IInv, GateInv, PendingIsCurrent
      <3> QED
        BY <3>1, <3>2, <3>3, <3>4
    <2> QED
      BY <2>1, <2>2
  <1>4. RefsExist'
    BY <1>2, <1>3, LeaderGens DEF RefsExist
  <1>5. LeaderUnique'
    BY <1>2, <1>3 DEF LeaderUnique, IInv, GateInv
  <1>6. PendingIsCurrent' /\ CloseOnce'
    BY <1>1, <1>3 DEF PendingIsCurrent, CloseOnce, IInv, GateInv
  <1>7. DialingIsLed'
    BY <1>2, <1>3 DEF DialingIsLed
  <1>8. HandoverIsFresh' /\ WarmIsState'
    BY <1>1 DEF HandoverIsFresh, WarmIsState, IInv, GateInv
  <1>9. Ledger'
    <2>1. stats' = [stats EXCEPT !.leaders = @ + 1] /\ stats \in Counters
      BY <1>0 DEF EnterLead, GateTypes
    <2>2. /\ stats'.leaders = stats.leaders + 1 /\ stats'.releases = stats.releases
          /\ stats'.handovers = stats.handovers /\ stats'.coldResets = stats.coldResets
          /\ stats'.failures = stats.failures
      BY <2>1 DEF Counters
    <2>3. stats.leaders \in Nat /\ stats.releases \in Nat /\ stats.handovers \in Nat /\ stats.coldResets \in Nat
      BY <2>1 DEF Counters
    <2> QED
      BY <1>1, <2>2, <2>3 DEF Ledger, IInv, GateInv, HandoverIsFresh
  <1> QED
    BY <1>4, <1>5, <1>6, <1>7, <1>8, <1>9 DEF GateInv

\* Parking and leaving change waiters only, which the gate's invariant does
\* not read: see WaitersStep.
LEMMA ParkGate ==
  ASSUME IInv, NEW r \in Requests, EnterPark(r)
  PROVE  GateInv'
  <1>0. GateTypes /\ CallTypes
    BY TypeSplit DEF IInv
  <1>1. /\ pc' = [pc EXCEPT ![r] = "parked"] /\ lg' = [lg EXCEPT ![r] = gen]
        /\ pc[r] = "loop" /\ state = "dialing" /\ ~handover
        /\ UNCHANGED <<state, warm, gen, handover, outcome, closes, stats>>
    BY DEF EnterPark, Goto
  <1>2. \A q \in Requests : /\ Led(q)' <=> Led(q)
                            /\ Led(q) => lg'[q] = lg[q]
                            /\ Parks(q)' <=> Parks(q) \/ q = r
                            /\ lg'[q] = IF q = r THEN gen ELSE lg[q]
    BY <1>0, <1>1 DEF CallTypes, Led, Parks
  <1>3. gen \in Gens
    BY <1>1 DEF IInv, GateInv, DialingIsLed, RefsExist
  <1> USE DEF IInv, GateInv
  <1>4. RefsExist' /\ LeaderUnique'
    BY <1>1, <1>2, <1>3 DEF RefsExist, LeaderUnique
  <1>5. PendingIsCurrent' /\ CloseOnce' /\ WarmIsState' /\ Ledger'
    BY <1>1 DEF PendingIsCurrent, CloseOnce, WarmIsState, Ledger
  <1>6. DialingIsLed' /\ HandoverIsFresh'
    BY <1>1, <1>2 DEF DialingIsLed, HandoverIsFresh
  <1> QED
    BY <1>4, <1>5, <1>6

LEMMA LeaveGate ==
  ASSUME IInv, NEW r \in Requests, Leave(r)
  PROVE  GateInv'
  <1>0. GateTypes /\ CallTypes
    BY TypeSplit DEF IInv
  <1>1. /\ \E l \in {"done", "send"} : pc' = [pc EXCEPT ![r] = l]
        /\ pc[r] \in {"leaveCtx", "leaveBound"}
        /\ UNCHANGED <<state, warm, gen, handover, outcome, closes, lg>>
        /\ stats' = stats \/ stats' = [stats EXCEPT !.fallThroughs = @ + 1]
    BY DEF Leave, Goto, Return
  <1>2. \A q \in Requests : (Led(q)' <=> Led(q)) /\ (Parks(q)' => Parks(q))
    BY <1>0, <1>1 DEF CallTypes, Led, Parks
  <1> USE DEF IInv, GateInv
  <1>3. RefsExist' /\ LeaderUnique'
    BY <1>1, <1>2 DEF RefsExist, LeaderUnique
  <1>4. PendingIsCurrent' /\ CloseOnce' /\ WarmIsState'
    BY <1>1 DEF PendingIsCurrent, CloseOnce, WarmIsState
  <1>5. DialingIsLed' /\ HandoverIsFresh'
    BY <1>1, <1>2 DEF DialingIsLed, HandoverIsFresh
  <1>6. Ledger'
    <2>1. /\ stats'.leaders = stats.leaders /\ stats'.releases = stats.releases
          /\ stats'.handovers = stats.handovers /\ stats'.coldResets = stats.coldResets
          /\ stats'.failures = stats.failures
      BY <1>0, <1>1 DEF GateTypes, Counters
    <2> QED
      BY <1>1, <2>1 DEF Ledger
  <1> QED
    BY <1>3, <1>4, <1>5, <1>6

\* What holds of a leader that has not resolved its generation.
LEMMA LeadingFacts ==
  ASSUME IInv, NEW r \in Requests, Leading(r)
  PROVE  /\ lg[r] = gen /\ gen \in Gens /\ gen \in Nat /\ outcome[gen] = "pending"
         /\ closes[gen] = 0 /\ state = "dialing" /\ ~handover
         /\ \A q \in Requests : Led(q) /\ lg[q] = gen => q = r
         /\ \A g \in Gens : g # gen => outcome[g] # "pending"
         /\ stats.releases = 0
  <1>1. lg[r] \in Gens /\ outcome[lg[r]] = "pending" /\ Led(r)
    BY LeaderGens DEF Leading, Led
  <1>2. lg[r] = gen /\ state = "dialing" /\ gen \in Nat
    BY <1>1 DEF IInv, GateInv, PendingIsCurrent, TypeOK
  <1>3. ~handover
    BY <1>1, <1>2 DEF IInv, GateInv, HandoverIsFresh
  <1>4. closes[gen] = 0 /\ stats.releases = 0
    BY <1>1, <1>2 DEF IInv, GateInv, CloseOnce, Ledger
  <1>5. \A q \in Requests : Led(q) /\ lg[q] = gen => q = r
    BY <1>1, <1>2 DEF IInv, GateInv, LeaderUnique
  <1>6. \A g \in Gens : g # gen => outcome[g] # "pending"
    BY DEF IInv, GateInv, PendingIsCurrent
  <1> QED
    BY <1>1, <1>2, <1>3, <1>4, <1>5, <1>6

\* The request r drops or keeps its lead; nobody else changes.
Retires(r) ==
  /\ \A q \in Requests \ {r} : pc'[q] = pc[q]
  /\ pc'[r] \in {pc[r], "done"}
  /\ UNCHANGED lg

LEMMA RetiresFacts ==
  ASSUME NEW r \in Requests, Retires(r)
  PROVE  \A q \in Requests : /\ Led(q)' => Led(q)
                             /\ Parks(q)' => Parks(q)
                             /\ lg'[q] = lg[q]
  BY DEF Retires, Led, Parks

\* What resolving the current generation in place does.
LEMMA ResolveInPlace ==
  ASSUME GenTypes, gen \in Gens, gen' = gen,
         NEW o \in Outcomes \ {"pending"},
         outcome' = Resolved(gen, o), closes' = Closed(gen)
  PROVE  /\ Gens' = Gens
         /\ outcome'[gen] = o /\ closes'[gen] = closes[gen] + 1
         /\ \A g \in Gens : g # gen => outcome'[g] = outcome[g] /\ closes'[g] = closes[g]
  BY DEF GenTypes, Resolved, Closed

LEMMA ReleaseGate ==
  ASSUME IInv, NEW r \in Requests, Leading(r), Release(r), Retires(r)
  PROVE  GateInv'
  <1>0. GateTypes /\ GenTypes
    BY TypeSplit DEF IInv, GateTypes
  <1>1. /\ outcome' = Resolved(gen, "released") /\ closes' = Closed(gen)
        /\ state' = "warm" /\ warm' /\ UNCHANGED <<gen, handover, waiters>>
        /\ stats' = [stats EXCEPT !.releases = @ + 1]
    BY LeadingFacts DEF Release, Leading
  <1>2. /\ Gens' = Gens /\ outcome'[gen] = "released" /\ closes'[gen] = 1
        /\ \A g \in Gens : g # gen => outcome'[g] = outcome[g] /\ closes'[g] = closes[g]
    BY <1>0, <1>1, LeadingFacts, ResolveInPlace
  <1>3. RefsExist' /\ LeaderUnique'
    BY <1>2, RetiresFacts DEF RefsExist, LeaderUnique, IInv, GateInv
  <1>4. PendingIsCurrent' /\ CloseOnce'
    BY <1>1, <1>2, LeadingFacts DEF PendingIsCurrent, CloseOnce, IInv, GateInv
  <1>5. DialingIsLed' /\ HandoverIsFresh' /\ WarmIsState'
    BY <1>1, LeadingFacts DEF DialingIsLed, HandoverIsFresh, WarmIsState
  <1>6. Ledger'
    <2>1. /\ stats'.leaders = stats.leaders /\ stats'.releases = stats.releases + 1
          /\ stats'.handovers = stats.handovers /\ stats'.coldResets = stats.coldResets
          /\ stats'.failures = stats.failures
          /\ stats.leaders \in Nat /\ stats.handovers \in Nat /\ stats.coldResets \in Nat
      BY <1>0, <1>1 DEF GateTypes, Counters
    <2> QED
      BY <1>1, <2>1, LeadingFacts DEF Ledger, IInv, GateInv
  <1> QED
    BY <1>3, <1>4, <1>5, <1>6 DEF GateInv

LEMMA FailGate ==
  ASSUME IInv, NEW r \in Requests, Leading(r), FailLocked(lg[r]), Retires(r)
  PROVE  GateInv'
  <1>0. GateTypes /\ GenTypes
    BY TypeSplit DEF IInv, GateTypes
  <1>1. /\ outcome' = Resolved(gen, "failed") /\ closes' = Closed(gen)
        /\ state' = "cold" /\ UNCHANGED <<warm, gen, handover, waiters>>
        /\ stats' = [stats EXCEPT !.failures = @ + 1, !.coldResets = @ + 1]
    BY LeadingFacts DEF FailLocked
  <1>2. /\ Gens' = Gens /\ outcome'[gen] = "failed" /\ closes'[gen] = 1
        /\ \A g \in Gens : g # gen => outcome'[g] = outcome[g] /\ closes'[g] = closes[g]
    BY <1>0, <1>1, LeadingFacts, ResolveInPlace
  <1>3. RefsExist' /\ LeaderUnique'
    BY <1>2, RetiresFacts DEF RefsExist, LeaderUnique, IInv, GateInv
  <1>4. PendingIsCurrent' /\ CloseOnce'
    BY <1>1, <1>2, LeadingFacts DEF PendingIsCurrent, CloseOnce, IInv, GateInv
  <1>5. DialingIsLed' /\ HandoverIsFresh' /\ WarmIsState'
    BY <1>1, LeadingFacts DEF DialingIsLed, HandoverIsFresh, WarmIsState, IInv, GateInv
  <1>6. Ledger'
    <2>1. /\ stats'.leaders = stats.leaders /\ stats'.releases = stats.releases
          /\ stats'.handovers = stats.handovers /\ stats'.coldResets = stats.coldResets + 1
          /\ stats'.failures = stats.failures + 1
      BY <1>0, <1>1 DEF GateTypes, Counters
    <2>2. /\ stats.leaders \in Nat /\ stats.handovers \in Nat /\ stats.coldResets \in Nat
          /\ stats.failures \in Nat
      BY <1>0 DEF GateTypes, Counters
    <2> QED
      BY <1>1, <2>1, <2>2, LeadingFacts DEF Ledger, IInv, GateInv
  <1> QED
    BY <1>3, <1>4, <1>5, <1>6 DEF GateInv

LEMMA AbandonGate ==
  ASSUME IInv, NEW r \in Requests, Leading(r), AbandonLocked(lg[r]), Retires(r), ~Led(r)'
  PROVE  GateInv'
  <1>0. GateTypes /\ GenTypes
    BY TypeSplit DEF IInv, GateTypes
  <1>1. AbandonLocked(gen) /\ gen \in Gens /\ gen \in Nat
    BY LeadingFacts
  <1>2. CASE waiters[gen] = 0
    <2>1. /\ outcome' = Resolved(gen, "leaderGone") /\ closes' = Closed(gen)
          /\ state' = "cold" /\ UNCHANGED <<warm, gen, handover, waiters>>
          /\ stats' = [stats EXCEPT !.coldResets = @ + 1]
      BY <1>1, <1>2 DEF AbandonLocked
    <2>2. /\ Gens' = Gens /\ outcome'[gen] = "leaderGone" /\ closes'[gen] = 1
          /\ \A g \in Gens : g # gen => outcome'[g] = outcome[g] /\ closes'[g] = closes[g]
      BY <1>0, <2>1, LeadingFacts, ResolveInPlace
    <2>3. RefsExist' /\ LeaderUnique'
      BY <2>2, RetiresFacts DEF RefsExist, LeaderUnique, IInv, GateInv
    <2>4. PendingIsCurrent' /\ CloseOnce'
      BY <2>1, <2>2, LeadingFacts DEF PendingIsCurrent, CloseOnce, IInv, GateInv
    <2>5. DialingIsLed' /\ HandoverIsFresh' /\ WarmIsState'
      BY <2>1, LeadingFacts DEF DialingIsLed, HandoverIsFresh, WarmIsState, IInv, GateInv
    <2>6. Ledger'
      <3>1. /\ stats'.leaders = stats.leaders /\ stats'.releases = stats.releases
            /\ stats'.handovers = stats.handovers /\ stats'.coldResets = stats.coldResets + 1
            /\ stats'.failures = stats.failures
        BY <1>0, <2>1 DEF GateTypes, Counters
      <3>2. /\ stats.leaders \in Nat /\ stats.handovers \in Nat /\ stats.coldResets \in Nat
            /\ stats.failures \in Nat
        BY <1>0 DEF GateTypes, Counters
      <3> QED
        BY <2>1, <3>1, <3>2, LeadingFacts DEF Ledger, IInv, GateInv
    <2> QED
      BY <2>3, <2>4, <2>5, <2>6 DEF GateInv
  <1>3. CASE waiters[gen] # 0
    <2>1. /\ NewGeneration(Resolved(gen, "leaderGone"), Closed(gen))
          /\ state' = state /\ handover' /\ warm' = warm
          /\ stats' = [stats EXCEPT !.handovers = @ + 1]
      BY <1>1, <1>3 DEF AbandonLocked
    <2>2. Resolved(gen, "leaderGone") \in [Gens -> Outcomes] /\ Closed(gen) \in [Gens -> Nat]
      BY <1>0, <1>1, ResolveTypes
    <2>3. /\ gen' \in Nat /\ gen' = gen + 1 /\ gen' \in Gens' /\ Gens \subseteq Gens'
          /\ outcome'[gen'] = "pending" /\ closes'[gen'] = 0
          /\ (\A g \in Gens' : g \in Gens \/ g = gen')
          /\ \A g \in Gens : g # gen' /\ outcome'[g] = Resolved(gen, "leaderGone")[g]
                               /\ closes'[g] = Closed(gen)[g]
      <3> HIDE DEF Gens
      <3>1. GenTypes' /\ gen' = gen + 1 /\ gen' \in Gens' /\ Gens \subseteq Gens'
            /\ outcome'[gen'] = "pending" /\ closes'[gen'] = 0
            /\ (\A g \in Gens' : g \in Gens \/ g = gen')
            /\ \A g \in Gens : g # gen' /\ outcome'[g] = Resolved(gen, "leaderGone")[g]
                               /\ closes'[g] = Closed(gen)[g]
        BY <1>0, <2>1, <2>2, NewGenerationType
      <3> QED
        BY <3>1 DEF GenTypes
    <2>4. \A g \in Gens : /\ outcome'[g] # "pending" /\ closes'[g] = 1
      <3>1. outcome'[gen] = "leaderGone" /\ closes'[gen] = 1
        BY <1>0, <1>1, <2>3, LeadingFacts DEF Resolved, Closed, GenTypes
      <3>2. \A g \in Gens : g # gen => outcome'[g] = outcome[g] /\ closes'[g] = closes[g]
        BY <1>0, <2>3 DEF Resolved, Closed, GenTypes
      <3> QED
        BY <3>1, <3>2, LeadingFacts DEF IInv, GateInv, CloseOnce
    <2>5. RefsExist' /\ LeaderUnique'
      BY <2>3, RetiresFacts DEF RefsExist, LeaderUnique, IInv, GateInv
    <2>6. PendingIsCurrent' /\ CloseOnce'
      BY <2>1, <2>3, <2>4, LeadingFacts DEF PendingIsCurrent, CloseOnce
    <2>7. DialingIsLed' /\ WarmIsState'
      BY <2>1, LeadingFacts DEF DialingIsLed, WarmIsState, IInv, GateInv
    <2>8. HandoverIsFresh'
      <3>1. \A q \in Requests : Led(q)' \/ Parks(q)' => lg'[q] # gen'
        BY <2>3, RetiresFacts, LeaderGens
      <3> QED
        BY <2>1, <2>3, <3>1, LeadingFacts DEF HandoverIsFresh
    <2>9. Ledger'
      <3>1. /\ stats'.leaders = stats.leaders /\ stats'.releases = stats.releases
            /\ stats'.handovers = stats.handovers + 1 /\ stats'.coldResets = stats.coldResets
            /\ stats'.failures = stats.failures
        BY <1>0, <2>1 DEF GateTypes, Counters
      <3>2. /\ stats.leaders \in Nat /\ stats.handovers \in Nat /\ stats.coldResets \in Nat
            /\ stats.failures \in Nat
        BY <1>0 DEF GateTypes, Counters
      <3> QED
        BY <2>1, <3>1, <3>2, LeadingFacts DEF Ledger, IInv, GateInv
    <2> QED
      BY <2>5, <2>6, <2>7, <2>8, <2>9 DEF GateInv
  <1> QED
    BY <1>2, <1>3

LEMMA GateStep == IInv /\ [Next]_vars => GateInv'
  <1> SUFFICES ASSUME IInv, [Next]_vars PROVE GateInv'
    OBVIOUS
  <1>0. pc \in [Requests -> PCs]
    BY DEF IInv, TypeOK
  <1>1. ASSUME NEW r \in Requests, Call(r) \/ EnterWarm(r) \/ Wake(r) \/ SelectCtx(r)
                                     \/ SelectBound(r) \/ SendEnds(r) \/ LeadErred(r)
        PROVE  GateInv'
    <2>1. UNCHANGED gateVars /\ UNCHANGED lg
      BY <1>1 DEF Call, EnterWarm, Wake, SelectCtx, SelectBound, SendEnds, LeadErred
    <2>2. \E l \in PCs : /\ pc' = [pc EXCEPT ![r] = l]
                         /\ l \in {"lead", "leadErr"} <=> Led(r)
                         /\ l \in {"parked", "leaveCtx", "leaveBound"} => Parks(r)
      BY <1>1 DEF Call, EnterWarm, Wake, SelectCtx, SelectBound, SendEnds, LeadErred,
                  Goto, Return, Led, Parks
    <2>3. (Led(r)' <=> Led(r)) /\ (Parks(r)' => Parks(r)) /\ LeadingStays(r)
      BY <1>0, <2>1, <2>2 DEF Led, Parks, LeadingStays
    <2> QED
      BY <2>1, <2>3, LocalStep
  <1>2. ASSUME NEW r \in Requests, GotConn(r) \/ LeadAnswered(r) PROVE GateInv'
    <2>1. /\ pc' = pc \/ pc' = [pc EXCEPT ![r] = "done"]
          /\ pc[r] = "lead" /\ UNCHANGED lg /\ Release(r)
      BY <1>2 DEF GotConn, LeadAnswered, Return
    <2>2. Retires(r)
      BY <1>0, <2>1 DEF Retires
    <2>3. CASE outcome[lg[r]] = "pending"
      BY <2>1, <2>2, <2>3, ReleaseGate DEF Leading
    <2>4. CASE outcome[lg[r]] # "pending"
      <3>1. UNCHANGED gateVars /\ LeadingStays(r) /\ (Led(r)' => Led(r)) /\ (Parks(r)' => Parks(r))
        BY <2>1, <2>2, <2>4, RetiresFacts DEF Release, LeadingStays, Retires
      <3> QED
        BY <2>4, <3>1, LocalStep
    <2> QED
      BY <2>3, <2>4
  <1>3. ASSUME NEW r \in Requests, LeadResolve(r) \/ LeadPanics(r) PROVE GateInv'
    <2>1. /\ pc' = [pc EXCEPT ![r] = "done"] /\ UNCHANGED lg /\ Led(r)
          /\ \/ outcome[lg[r]] # "pending" /\ UNCHANGED gateVars
             \/ outcome[lg[r]] = "pending" /\ AbandonLocked(lg[r])
             \/ outcome[lg[r]] = "pending" /\ FailLocked(lg[r])
      BY <1>3 DEF LeadResolve, LeadPanics, Return, Led
    <2>2. Retires(r) /\ ~Led(r)' /\ ~Parks(r)' /\ LeadingStays(r)
      BY <1>0, <2>1 DEF Retires, Led, Parks, LeadingStays
    <2> QED
      BY <2>1, <2>2, LocalStep, AbandonGate, FailGate DEF Leading, Led
  <1>4. ASSUME NEW r \in Requests, EndCtx(r) \/ FireBound(r) PROVE GateInv'
    <2>1. UNCHANGED gateVars /\ UNCHANGED <<pc, lg>>
      BY <1>4 DEF EndCtx, FireBound
    <2>2. LeadingStays(r) /\ (Led(r)' <=> Led(r)) /\ (Parks(r)' <=> Parks(r))
      BY <2>1 DEF LeadingStays, Led, Parks
    <2> QED
      BY <2>1, <2>2, LocalStep
  <1>5. CASE UNCHANGED vars
    BY <1>5 DEF vars, IInv, GateInv, RefsExist, LeaderUnique, PendingIsCurrent, DialingIsLed,
                HandoverIsFresh, WarmIsState, CloseOnce, Ledger, Led, Parks
  <1> QED
    BY <1>1, <1>2, <1>3, <1>4, <1>5, EnterLeadGate, ParkGate, LeaveGate DEF Next

\* The inductive invariant holds in every state of the gate.
THEOREM GateInvariant == Spec => []IInv
  <1>1. IInv /\ [Next]_vars => IInv'
    BY TypeStep, GateStep DEF IInv
  <1> QED
    BY InitIInv, <1>1, PTL DEF Spec

\* Type correctness, for any set of requests.
THEOREM GateTypeOK == Spec => []TypeOK
  <1>1. IInv => TypeOK
    BY DEF IInv
  <1> QED
    BY <1>1, GateInvariant, PTL

\* The gate serialises the cold dials.
THEOREM GateOneLeader == Spec => []OneLeader
  <1>1. IInv => OneLeader
    <2> SUFFICES ASSUME IInv, NEW r \in Requests, NEW s \in Requests, Leading(r), Leading(s)
                 PROVE  r = s
      BY DEF OneLeader
    <2>1. lg[r] = gen /\ lg[s] = gen /\ Led(r) /\ Led(s)
      BY LeadingFacts DEF Leading, Led
    <2> QED
      BY <2>1 DEF IInv, GateInv, LeaderUnique
  <1> QED
    BY <1>1, GateInvariant, PTL

\* No request is parked on a generation nobody will resolve.
THEOREM GateNoOrphan == Spec => []NoOrphan
  <1>1. IInv => NoOrphan
    <2> SUFFICES ASSUME IInv, NEW r \in Requests, pc[r] = "parked", outcome[lg[r]] = "pending"
                 PROVE  \E l \in Requests : Leading(l) /\ lg[l] = lg[r]
      BY DEF NoOrphan
    <2>1. lg[r] \in Gens /\ Parks(r)
      BY LeaderGens DEF Parks
    <2>2. lg[r] = gen /\ state = "dialing"
      BY <2>1 DEF IInv, GateInv, PendingIsCurrent
    <2>3. ~handover
      BY <2>1, <2>2 DEF IInv, GateInv, HandoverIsFresh
    <2>4. PICK l \in Requests : Led(l) /\ lg[l] = gen /\ outcome[gen] = "pending"
      BY <2>2, <2>3 DEF IInv, GateInv, DialingIsLed
    <2> QED
      BY <2>2, <2>4 DEF Leading, Led
  <1> QED
    BY <1>1, GateInvariant, PTL

\* A generation's channel is closed once, exactly when it is resolved.
THEOREM GateCloseOnce == Spec => []CloseOnce
  <1>1. IInv => CloseOnce
    BY DEF IInv, GateInv
  <1> QED
    BY <1>1, GateInvariant, PTL

\* The counters balance whenever no call runs.
THEOREM GateStatsBalance == Spec => []StatsBalance
  <1>1. IInv => StatsBalance
    <2> SUFFICES ASSUME IInv PROVE StatsBalance
      OBVIOUS
    <2>1. stats.releases \in Nat /\ stats.handovers \in Nat /\ stats.coldResets \in Nat /\ stats.leaders \in Nat
      BY TypeSplit DEF IInv, GateTypes, Counters
    <2>2. ASSUME Quiet PROVE ~(state = "dialing" /\ ~handover)
      BY <2>2 DEF Quiet, IInv, GateInv, DialingIsLed, Led
    <2>3. Ledger
      BY DEF IInv, GateInv
    <2> QED
      BY <2>1, <2>2, <2>3 DEF Ledger, StatsBalance
  <1> QED
    BY <1>1, GateInvariant, PTL

\* No step leaves the warm state: a late leader finds its generation resolved.
THEOREM GateWarmForGood == Spec => WarmForGood
  <1>1. IInv /\ [Next]_vars => [warm => warm' /\ state' = "warm"]_vars
    <2> SUFFICES ASSUME IInv, [Next]_vars, warm PROVE warm' /\ state' = "warm"
      BY DEF vars
    <2>1. state = "warm"
      BY DEF IInv, GateInv, WarmIsState
    <2>2. \A r \in Requests : ~Leading(r)
      BY <2>1, LeadingFacts
    <2>3. ASSUME NEW r \in Requests, EnterLead(r) PROVE FALSE
      BY <2>1, <2>3 DEF EnterLead, CanLead
    <2>4. ASSUME NEW r \in Requests, GotConn(r) \/ LeadAnswered(r) PROVE UNCHANGED gateVars
      BY <2>2, <2>4 DEF GotConn, LeadAnswered, Release, Leading
    <2>5. ASSUME NEW r \in Requests, LeadResolve(r) \/ LeadPanics(r) PROVE UNCHANGED gateVars
      BY <2>2, <2>5 DEF LeadResolve, LeadPanics, Leading
    <2>6. ASSUME NEW r \in Requests, Call(r) \/ EnterWarm(r) \/ Wake(r) \/ SelectCtx(r)
                   \/ SelectBound(r) \/ SendEnds(r) \/ LeadErred(r) \/ EndCtx(r) \/ FireBound(r)
          PROVE UNCHANGED gateVars
      BY <2>6 DEF Call, EnterWarm, Wake, SelectCtx, SelectBound, SendEnds, LeadErred, EndCtx, FireBound
    <2>7. ASSUME NEW r \in Requests, EnterPark(r) \/ Leave(r) PROVE UNCHANGED <<warm, state>>
      BY <2>7 DEF EnterPark, Leave
    <2>8. UNCHANGED <<warm, state>>
      BY <2>3, <2>4, <2>5, <2>6, <2>7 DEF Next, vars, gateVars
    <2> QED
      BY <2>1, <2>8
  <1> QED
    BY <1>1, GateInvariant, PTL DEF Spec, WarmForGood

----------------------------------------------------------------------------
(* The waiters counter.                                                    *)

CountedOn(g) == {r \in Requests : Counted(r, g)}

WaitersInv ==
  \A g \in Gens :
    outcome[g] = "pending" =>
      IsFiniteSet(CountedOn(g)) /\ waiters[g] = Cardinality(CountedOn(g))

\* Nothing changes for the generations that stay pending.
LEMMA WaitersKept ==
  ASSUME WaitersInv,
         \A g \in Gens' : outcome'[g] = "pending" =>
            g \in Gens /\ outcome[g] = "pending" /\ waiters'[g] = waiters[g]
              /\ \A q \in Requests : Counted(q, g)' <=> Counted(q, g)
  PROVE  WaitersInv'
  <1> SUFFICES ASSUME NEW g \in Gens', outcome'[g] = "pending"
               PROVE  IsFiniteSet(CountedOn(g)') /\ waiters'[g] = Cardinality(CountedOn(g)')
    BY DEF WaitersInv
  <1>1. CountedOn(g)' = CountedOn(g)
    BY DEF CountedOn
  <1> QED
    BY <1>1 DEF WaitersInv

LEMMA WaitersStep == IInv /\ WaitersInv /\ [Next]_vars => WaitersInv'
  <1> SUFFICES ASSUME IInv, WaitersInv, [Next]_vars PROVE WaitersInv'
    OBVIOUS
  <1>0. GateTypes /\ CallTypes /\ GenTypes
    BY TypeSplit DEF IInv, GateTypes
  <1>1. ASSUME NEW r \in Requests, Call(r) \/ EnterWarm(r) \/ Wake(r) \/ SelectCtx(r)
                   \/ SelectBound(r) \/ SendEnds(r) \/ LeadErred(r) \/ EndCtx(r) \/ FireBound(r)
        PROVE  WaitersInv'
    <2>1. UNCHANGED gateVars /\ UNCHANGED lg
      BY <1>1 DEF Call, EnterWarm, Wake, SelectCtx, SelectBound, SendEnds, LeadErred, EndCtx, FireBound
    <2>2. ASSUME NEW g \in Gens, outcome[g] = "pending", NEW q \in Requests
          PROVE  Counted(q, g)' <=> Counted(q, g)
      <3>1. CASE Wake(r)
        <4>1. lg[r] # g
          BY <2>2, <3>1 DEF Wake, IInv, GateInv, CloseOnce
        <4>2. q # r => pc'[q] = pc[q]
          BY <1>0, <3>1 DEF Wake, Goto, Return, CallTypes
        <4> QED
          BY <2>1, <4>1, <4>2 DEF Counted
      <3>2. CASE ~Wake(r)
        BY <1>0, <1>1, <2>1, <3>2 DEF Call, EnterWarm, SelectCtx, SelectBound, SendEnds,
             LeadErred, EndCtx, FireBound, Goto, Return, Counted, CallTypes
      <3> QED
        BY <3>1, <3>2
    <2> QED
      BY <2>1, <2>2, WaitersKept DEF gateVars
  <1>2. ASSUME NEW r \in Requests, EnterLead(r) PROVE WaitersInv'
    <2>1. \A q \in Requests, g \in Nat : Counted(q, g)' <=> Counted(q, g)
      BY <1>0, <1>2 DEF EnterLead, Goto, CallTypes, Counted
    <2>2. CASE state # "cold"
      BY <1>0, <1>2, <2>1, <2>2, WaitersKept DEF EnterLead, GenTypes
    <2>3. CASE state = "cold"
      <3>1. /\ gen' \in Nat /\ waiters'[gen'] = 0 /\ gen' \notin Gens
            /\ (\A g \in Gens' : g \in Gens \/ g = gen')
            /\ \A g \in Gens : outcome'[g] = outcome[g]
        BY <1>0, <1>2, <2>3, NewGenerationType DEF EnterLead, GenTypes
      <3>2. \A g \in Gens' : outcome'[g] = "pending" => g = gen'
        BY <2>3, <3>1 DEF IInv, GateInv, PendingIsCurrent
      <3>3. CountedOn(gen)' = {}
        BY <2>1, <3>1, LeaderGens DEF CountedOn, Counted, Parks
      <3> QED
        BY <3>1, <3>2, <3>3, FS_EmptySet DEF WaitersInv
    <2> QED
      BY <2>2, <2>3
  <1>3. ASSUME NEW r \in Requests, EnterPark(r) PROVE WaitersInv'
    <2>1. /\ gen \in Gens /\ outcome[gen] = "pending"
      BY <1>3 DEF EnterPark, IInv, GateInv, DialingIsLed, RefsExist
    <2>2. /\ UNCHANGED <<gen, outcome>> /\ waiters'[gen] = waiters[gen] + 1
      BY <1>0, <1>3, <2>1 DEF EnterPark, GenTypes
    <2>3. CountedOn(gen)' = CountedOn(gen) \cup {r} /\ r \notin CountedOn(gen)
      BY <1>0, <1>3, <2>2 DEF EnterPark, Goto, CallTypes, Counted, CountedOn
    <2>4. \A g \in Gens' : outcome'[g] = "pending" => g = gen
      BY <2>2 DEF IInv, GateInv, PendingIsCurrent
    <2>5. IsFiniteSet(CountedOn(gen)) /\ waiters[gen] = Cardinality(CountedOn(gen))
      BY <2>1 DEF WaitersInv
    <2>6. IsFiniteSet(CountedOn(gen)') /\ waiters'[gen] = Cardinality(CountedOn(gen)')
      BY <2>2, <2>3, <2>5, FS_AddElement
    <2> QED
      BY <2>2, <2>4, <2>6 DEF WaitersInv
  <1>4. ASSUME NEW r \in Requests, Leave(r) PROVE WaitersInv'
    <2>1. lg[r] \in Gens
      BY <1>4, LeaderGens DEF Leave, Parks
    <2>2. /\ UNCHANGED <<gen, outcome, lg>>
          /\ waiters'[lg[r]] = waiters[lg[r]] - 1
          /\ \A g \in Gens : g # lg[r] => waiters'[g] = waiters[g]
      BY <1>0, <1>4, <2>1 DEF Leave, GenTypes
    <2>3. /\ \A g \in Nat : g # lg[r] => \A q \in Requests : Counted(q, g)' <=> Counted(q, g)
          /\ CountedOn(lg[r])' = CountedOn(lg[r]) \ {r} /\ r \in CountedOn(lg[r])
      BY <1>0, <1>4, <2>2 DEF Leave, Goto, Return, CallTypes, Counted, CountedOn
    <2>4. CASE outcome[lg[r]] = "pending"
      <3>1. IsFiniteSet(CountedOn(lg[r])) /\ waiters[lg[r]] = Cardinality(CountedOn(lg[r]))
        BY <2>1, <2>4 DEF WaitersInv
      <3>2. IsFiniteSet(CountedOn(lg[r])') /\ waiters'[lg[r]] = Cardinality(CountedOn(lg[r])')
        BY <2>2, <2>3, <3>1, FS_RemoveElement
      <3>3. \A g \in Gens' : outcome'[g] = "pending" => g = lg[r]
        BY <2>1, <2>2, <2>4 DEF IInv, GateInv, PendingIsCurrent
      <3> QED
        BY <2>2, <3>2, <3>3 DEF WaitersInv
    <2>5. CASE outcome[lg[r]] # "pending"
      BY <1>0, <2>2, <2>3, <2>5, WaitersKept DEF GenTypes
    <2> QED
      BY <2>4, <2>5
  <1>5. ASSUME NEW r \in Requests,
               GotConn(r) \/ LeadAnswered(r) \/ LeadResolve(r) \/ LeadPanics(r)
        PROVE  WaitersInv'
    <2>1. \A q \in Requests, g \in Nat : Counted(q, g)' <=> Counted(q, g)
      BY <1>0, <1>5 DEF GotConn, LeadAnswered, LeadResolve, LeadPanics, Return, CallTypes, Counted
    <2>2. lg[r] \in Gens /\ Led(r)
      BY <1>5, LeaderGens DEF GotConn, LeadAnswered, LeadResolve, LeadPanics, Led
    <2>3. CASE UNCHANGED gateVars
      BY <1>0, <2>1, <2>3, WaitersKept DEF gateVars, GenTypes
    <2>4. CASE ~UNCHANGED gateVars
      <3>1. Leading(r) /\ (Release(r) \/ FailLocked(gen) \/ AbandonLocked(gen))
        BY <1>5, <2>2, <2>4, LeadingFacts DEF GotConn, LeadAnswered, LeadResolve, LeadPanics,
             Release, Leading, Led
      <3>2. CASE UNCHANGED gen
        <4>1. \E o \in Outcomes \ {"pending"} : outcome' = Resolved(gen, o)
          BY <1>0, <2>2, <3>1, <3>2, LeadingFacts DEF Release, FailLocked, AbandonLocked, NewGeneration, Leading, GenTypes
        <4>2. \A g \in Gens' : outcome'[g] # "pending"
          BY <1>0, <3>1, <3>2, <4>1, LeadingFacts DEF Resolved, GenTypes
        <4> QED
          BY <4>2 DEF WaitersInv
      <3>3. CASE gen' # gen
        <4>1. NewGeneration(Resolved(gen, "leaderGone"), Closed(gen))
          BY <3>1, <3>3 DEF Release, FailLocked, AbandonLocked, gateVars
        <4>2. Resolved(gen, "leaderGone") \in [Gens -> Outcomes] /\ Closed(gen) \in [Gens -> Nat]
          BY <1>0, <3>1, LeadingFacts, ResolveTypes
        <4>3. /\ gen' \in Nat /\ waiters'[gen'] = 0 /\ gen' \notin Gens
              /\ (\A g \in Gens' : g \in Gens \/ g = gen')
              /\ \A g \in Gens : outcome'[g] = Resolved(gen, "leaderGone")[g]
          BY <1>0, <4>1, <4>2, NewGenerationType DEF GenTypes
        <4>4. \A g \in Gens : outcome'[g] # "pending"
          BY <1>0, <3>1, <4>3, LeadingFacts DEF Resolved, GenTypes
        <4>5. CountedOn(gen)' = {}
          BY <2>1, <4>3, LeaderGens DEF CountedOn, Counted, Parks
        <4> QED
          BY <4>3, <4>4, <4>5, FS_EmptySet DEF WaitersInv
      <3> QED
        BY <3>2, <3>3
    <2> QED
      BY <2>3, <2>4
  <1>6. CASE UNCHANGED vars
    BY <1>6, WaitersKept DEF vars, Counted
  <1> QED
    BY <1>1, <1>2, <1>3, <1>4, <1>5, <1>6 DEF Next

\* A pending generation's counter is the number of requests parked on it or
\* on their way out, so abandonLocked never drops a waiter.
THEOREM GateWaitersExact == Spec => []WaitersExact
  <1>1. Init => WaitersInv
    BY DEF Init, WaitersInv
  <1>2. WaitersInv => WaitersExact
    BY DEF WaitersInv, WaitersExact, CountedOn
  <1> QED
    BY <1>1, <1>2, WaitersStep, GateInvariant, PTL DEF Spec

----------------------------------------------------------------------------
(* The gate implements single flight.                                      *)

\* How one request's step changes the roles: only r's own role moves.
LEMMA RoleMoves ==
  ASSUME NEW r \in Requests, NEW x, Role(r)' = x,
         \A q \in Requests \ {r} : Role(q)' = Role(q)
  PROVE  RoleOf' = [RoleOf EXCEPT ![r] = x]
  BY DEF RoleOf

LEMMA RolesKept ==
  ASSUME \A q \in Requests : Role(q)' = Role(q)
  PROVE  RoleOf' = RoleOf
  BY DEF RoleOf

\* A request that neither moves nor sees its generation's outcome change
\* keeps its role.
LEMMA RoleStays ==
  ASSUME NEW q \in Requests, pc'[q] = pc[q], ret'[q] = ret[q],
         Led(q) => (outcome'[lg'[q]] = "pending" <=> outcome[lg[q]] = "pending")
  PROVE  Role(q)' = Role(q)
  BY DEF Role, AtGate, Leading, Led

LEMMA RoleValue ==
  ASSUME NEW q \in Requests
  PROVE  /\ pc[q] = "idle" => Role(q) = "out"
         /\ AtGate(q) => Role(q) = "waiting"
         /\ Leading(q) => Role(q) = "leading"
         /\ Led(q) /\ ~Leading(q) => Role(q) = "through"
         /\ pc[q] = "send" => Role(q) = "through"
         /\ pc[q] = "done" => Role(q) = CASE ret[q] = "cause" -> "refused"
                                          [] ret[q] \in {"ctx", "gone"} -> "gone"
                                          [] OTHER -> "through"
  BY DEF Role, AtGate, Leading, Led

\* A step that leaves the gate and every other request alone.
LocalMove(r) ==
  /\ UNCHANGED gateVars /\ UNCHANGED lg
  /\ \A q \in Requests \ {r} : pc'[q] = pc[q] /\ ret'[q] = ret[q]

LEMMA LocalFlight ==
  ASSUME NEW r \in Requests, LocalMove(r)
  PROVE  /\ Phase' = Phase
         /\ RoleOf' = [RoleOf EXCEPT ![r] = Role(r)']
         /\ Role(r)' = Role(r) => RoleOf' = RoleOf
         /\ Doomed' \ {r} = Doomed \ {r}
  <1>1. Phase' = Phase
    BY DEF LocalMove, gateVars, Phase
  <1>2. \A q \in Requests \ {r} : Role(q)' = Role(q)
    BY RoleStays DEF LocalMove, gateVars
  <1>3. Doomed' \ {r} = Doomed \ {r}
    BY DEF LocalMove, gateVars, Doomed
  <1>4. RoleOf' = [RoleOf EXCEPT ![r] = Role(r)']
    BY <1>2 DEF RoleOf
  <1>5. Role(r)' = Role(r) => RoleOf' = RoleOf
    BY <1>2 DEF RoleOf
  <1> QED
    BY <1>1, <1>3, <1>4, <1>5

USE DEF Flight!Become

LEMMA LocalFlightStep ==
  ASSUME IInv, NEW r \in Requests,
         Call(r) \/ EnterWarm(r) \/ Wake(r) \/ SelectCtx(r) \/ SelectBound(r)
           \/ SendEnds(r) \/ LeadErred(r) \/ EndCtx(r) \/ FireBound(r)
  PROVE  [Flight!FlightNext]_(Flight!flightVars)
  <1>0. CallTypes /\ WarmIsState /\ RoleOf[r] = Role(r)
    BY TypeSplit DEF IInv, GateInv, RoleOf
  <1>1. LocalMove(r)
    BY <1>0 DEF Call, EnterWarm, Wake, SelectCtx, SelectBound, SendEnds, LeadErred, EndCtx,
         FireBound, LocalMove, Goto, Return, CallTypes
  <1>2. CASE Call(r) /\ warm
    <2>1. /\ pc[r] = "idle" /\ pc'[r] = "send" /\ Phase = "open"
      BY <1>0, <1>2 DEF Call, Goto, CallTypes, WarmIsState, Phase
    <2>2. Role(r) = "out" /\ Role(r)' = "through" /\ Doomed' = Doomed
      BY <1>1, <2>1 DEF Role, AtGate, Leading, Doomed, LocalMove, gateVars
    <2>3. Flight!PassOpen(r)
      BY <1>0, <1>1, <2>1, <2>2, LocalFlight DEF Flight!PassOpen
    <2> QED
      BY <2>3 DEF Flight!FlightNext
  <1>3. CASE Call(r) /\ ~warm
    <2>1. /\ pc[r] = "idle" /\ pc'[r] = "loop"
      BY <1>0, <1>3 DEF Call, Goto, CallTypes
    <2>2. Role(r) = "out" /\ Role(r)' = "waiting" /\ Doomed' = Doomed
      BY <1>1, <2>1 DEF Role, AtGate, Leading, Doomed, LocalMove, gateVars
    <2>3. Flight!Arrive(r)
      BY <1>0, <1>1, <2>2, LocalFlight DEF Flight!Arrive
    <2> QED
      BY <2>3 DEF Flight!FlightNext
  <1>4. CASE EnterWarm(r) \/ (Wake(r) /\ outcome[lg[r]] = "released")
    <2>1. /\ pc[r] \in {"loop", "parked"} /\ pc'[r] = "send"
      BY <1>0, <1>4 DEF EnterWarm, Wake, Goto, Return, CallTypes
    <2>2. Role(r) = "waiting" /\ Role(r)' = "through" /\ r \notin Doomed'
      BY <2>1 DEF Role, AtGate, Leading, Doomed
    <2>3. Flight!Depart(r)
      BY <1>0, <1>1, <2>2, LocalFlight DEF Flight!Depart
    <2> QED
      BY <2>3 DEF Flight!FlightNext
  <1>5. CASE Wake(r) /\ outcome[lg[r]] = "failed"
    <2>1. /\ pc[r] = "parked" /\ pc'[r] = "done" /\ ret'[r] = "cause"
      BY <1>0, <1>5 DEF Wake, Goto, Return, CallTypes
    <2>2. Role(r) = "waiting" /\ Role(r)' = "refused" /\ r \in Doomed /\ r \notin Doomed'
      BY <1>5, <2>1 DEF Role, AtGate, Leading, Doomed
    <2>3. Flight!Refuse(r)
      BY <1>0, <1>1, <2>2, LocalFlight DEF Flight!Refuse
    <2> QED
      BY <2>3 DEF Flight!FlightNext
  <1>6. CASE \/ Wake(r) /\ outcome[lg[r]] = "leaderGone"
             \/ SelectCtx(r) \/ SelectBound(r) \/ SendEnds(r) \/ LeadErred(r)
             \/ EndCtx(r) \/ FireBound(r)
    <2>1. Role(r)' = Role(r) /\ (r \in Doomed' <=> r \in Doomed)
      <3>1. CASE Wake(r) /\ outcome[lg[r]] = "leaderGone"
        <4>1. pc[r] = "parked" /\ pc'[r] = "loop"
          BY <1>0, <3>1 DEF Wake, Goto, Return, CallTypes
        <4> QED
          BY <3>1, <4>1 DEF Role, AtGate, Doomed
      <3>2. CASE SelectCtx(r) \/ SelectBound(r)
        <4>1. pc[r] = "parked" /\ (pc'[r] = "leaveCtx" \/ pc'[r] = "leaveBound")
          BY <1>0, <3>2 DEF SelectCtx, SelectBound, Goto, CallTypes
        <4>2. Role(r) = "waiting" /\ Role(r)' = "waiting"
          BY <4>1 DEF Role, AtGate, Leading
        <4>3. UNCHANGED <<lg, outcome>>
          BY <1>1 DEF LocalMove, gateVars
        <4> QED
          BY <4>1, <4>2, <4>3 DEF Doomed
      <3>3. CASE SendEnds(r)
        <4>1. pc[r] = "send" /\ pc'[r] = "done" /\ ret'[r] = "sent"
          BY <1>0, <3>3 DEF SendEnds, Return, CallTypes
        <4> QED
          BY <4>1 DEF Role, AtGate, Leading, Doomed
      <3>4. CASE LeadErred(r)
        <4>1. pc[r] = "lead" /\ pc'[r] = "leadErr"
          BY <1>0, <3>4 DEF LeadErred, Goto, CallTypes
        <4> QED
          BY <1>1, <4>1 DEF Role, AtGate, Leading, Doomed, LocalMove, gateVars
      <3>5. CASE EndCtx(r) \/ FireBound(r)
        <4>1. UNCHANGED <<pc, lg, ret, outcome>>
          BY <1>1, <3>5 DEF EndCtx, FireBound, LocalMove, gateVars
        <4> QED
          BY <4>1, RoleStays DEF Doomed
      <3> QED
        BY <1>6, <3>1, <3>2, <3>3, <3>4, <3>5
    <2>2. Doomed' = Doomed
      BY <1>1, <2>1, LocalFlight
    <2> QED
      BY <1>1, <2>1, <2>2, LocalFlight DEF Flight!flightVars
  <1> QED
    BY <1>2, <1>3, <1>4, <1>5, <1>6 DEF Wake

LEMMA EnterLeadFlight ==
  ASSUME IInv, NEW r \in Requests, EnterLead(r)
  PROVE  Flight!Fly(r)
  <1>0. CallTypes /\ GateTypes /\ GenTypes /\ RoleOf[r] = Role(r)
    BY TypeSplit DEF IInv, GateInv, RoleOf, GateTypes
  <1>1. /\ pc' = [pc EXCEPT ![r] = "lead"] /\ lg' = [lg EXCEPT ![r] = gen']
        /\ pc[r] = "loop" /\ state' = "dialing" /\ ~handover' /\ ret' = ret
        /\ state # "warm" /\ (state = "cold" \/ handover)
    BY DEF EnterLead, Goto, CanLead
  <1>2. Phase = "cold" /\ Phase' = "led"
    BY <1>1 DEF Phase
  <1>3. /\ outcome'[gen'] = "pending"
        /\ \A g \in Gens : outcome'[g] = outcome[g]
    <2>1. CASE state = "cold"
      BY <1>0, <2>1, NewGenerationType DEF EnterLead, GenTypes
    <2>2. CASE state # "cold"
      BY <1>1, <2>2 DEF EnterLead, IInv, GateInv, HandoverIsFresh
    <2> QED
      BY <2>1, <2>2
  <1>4. \A q \in Requests \ {r} : pc'[q] = pc[q] /\ lg'[q] = lg[q] /\ ret'[q] = ret[q]
    BY <1>0, <1>1 DEF CallTypes
  <1>5. pc'[r] = "lead" /\ lg'[r] = gen'
    BY <1>0, <1>1 DEF CallTypes
  <1>6. \A q \in Requests \ {r} : Role(q)' = Role(q)
    BY <1>3, <1>4, RoleStays, LeaderGens DEF IInv
  <1>7. Role(r) = "waiting" /\ Role(r)' = "leading"
    BY <1>1, <1>3, <1>5 DEF Role, AtGate, Leading
  <1>8. \A q \in Requests : Parks(q)' <=> Parks(q)
    BY <1>1, <1>4, <1>5 DEF Parks
  <1>9. \A q \in Requests : Parks(q) => q # r /\ outcome'[lg'[q]] = outcome[lg[q]]
    BY <1>1, <1>3, <1>4, LeaderGens DEF Parks
  <1>10. Doomed' = Doomed /\ r \notin Doomed
    BY <1>8, <1>9 DEF Doomed, Parks
  <1>11. RoleOf' = [RoleOf EXCEPT ![r] = "leading"]
    BY <1>6, <1>7, RoleMoves
  <1> QED
    BY <1>0, <1>2, <1>7, <1>10, <1>11 DEF Flight!Fly

LEMMA ParkFlight ==
  ASSUME IInv, NEW r \in Requests, EnterPark(r)
  PROVE  UNCHANGED Flight!flightVars
  <1>0. CallTypes
    BY TypeSplit DEF IInv
  <1>1. /\ pc' = [pc EXCEPT ![r] = "parked"] /\ lg' = [lg EXCEPT ![r] = gen]
        /\ pc[r] = "loop" /\ state = "dialing" /\ ~handover
        /\ UNCHANGED <<state, handover, outcome, ret>>
    BY DEF EnterPark, Goto
  <1>2. outcome[gen] = "pending"
    BY <1>1 DEF IInv, GateInv, DialingIsLed
  <1>3. \A q \in Requests \ {r} : pc'[q] = pc[q] /\ lg'[q] = lg[q] /\ ret'[q] = ret[q]
    BY <1>0, <1>1 DEF CallTypes
  <1>4. pc'[r] = "parked" /\ lg'[r] = gen
    BY <1>0, <1>1 DEF CallTypes
  <1>5. Role(r) = "waiting" /\ Role(r)' = "waiting"
    BY <1>1, <1>4 DEF Role, AtGate, Leading
  <1>6. \A q \in Requests \ {r} : Role(q)' = Role(q)
    BY <1>1, <1>3, RoleStays
  <1>7. RoleOf' = RoleOf
    BY <1>5, <1>6, RolesKept
  <1>8. Doomed' = Doomed
    BY <1>1, <1>2, <1>3, <1>4 DEF Doomed
  <1>9. Phase' = Phase
    BY <1>1 DEF Phase
  <1> QED
    BY <1>7, <1>8, <1>9 DEF Flight!flightVars

LEMMA LeaveFlight ==
  ASSUME IInv, NEW r \in Requests, Leave(r)
  PROVE  Flight!Depart(r)
  <1>0. CallTypes /\ RoleOf[r] = Role(r)
    BY TypeSplit DEF IInv, RoleOf
  <1>1. /\ \A q \in Requests \ {r} : pc'[q] = pc[q] /\ ret'[q] = ret[q]
        /\ pc[r] \in {"leaveCtx", "leaveBound"}
        /\ (pc'[r] = "done" /\ ret'[r] = "ctx") \/ pc'[r] = "send"
        /\ UNCHANGED <<state, handover, outcome, lg>>
    <2>1. CASE pc[r] = "leaveCtx"
      BY <1>0, <2>1 DEF Leave, Return, CallTypes
    <2>2. CASE pc[r] = "leaveBound"
      BY <1>0, <2>2 DEF Leave, Goto, CallTypes
    <2> QED
      BY <2>1, <2>2 DEF Leave
  <1>2. Role(r) = "waiting" /\ Role(r)' \in {"through", "gone"}
    BY <1>1 DEF Role, AtGate, Leading
  <1>3. \A q \in Requests \ {r} : Role(q)' = Role(q)
    BY <1>1, RoleStays
  <1>4. RoleOf' = [RoleOf EXCEPT ![r] = Role(r)']
    BY <1>3, RoleMoves
  <1>5. Doomed' = Doomed \ {r}
    BY <1>1 DEF Doomed
  <1>6. Phase' = Phase
    BY <1>1 DEF Phase
  <1> QED
    BY <1>0, <1>2, <1>4, <1>5, <1>6 DEF Flight!Depart

\* A leader resolves its generation: nobody else's role depends on it,
\* except that a failure dooms the generation's waiters.
LEMMA ResolveFlight ==
  ASSUME IInv, NEW r \in Requests, Leading(r), Retires(r),
         \A q \in Requests \ {r} : ret'[q] = ret[q],
         \A g \in Gens \ {gen} : outcome'[g] = outcome[g]
  PROVE  /\ Phase = "led" /\ RoleOf[r] = "leading"
         /\ RoleOf' = [RoleOf EXCEPT ![r] = Role(r)']
         /\ outcome'[gen] # "failed" => Doomed' = Doomed
         /\ outcome'[gen] = "failed" => \E D \in SUBSET Flight!Waiting : Doomed' = Doomed \cup D
  <1>1. Phase = "led"
    BY LeadingFacts DEF Phase
  <1>2. RoleOf[r] = "leading"
    BY RoleValue DEF RoleOf
  <1>3. \A q \in Requests \ {r} : pc'[q] = pc[q] /\ lg'[q] = lg[q] /\ (Led(q) => lg[q] # gen)
    BY LeadingFacts DEF Retires
  <1>4. \A q \in Requests \ {r} : Role(q)' = Role(q)
    BY <1>3, RoleStays, LeaderGens
  <1>5. RoleOf' = [RoleOf EXCEPT ![r] = Role(r)']
    BY <1>4, RoleMoves
  <1>6. \A q \in Requests : Parks(q)' <=> Parks(q)
    BY <1>3 DEF Parks, Retires, Leading
  <1>7. \A q \in Requests : Parks(q) => /\ lg[q] \in Gens /\ lg'[q] = lg[q]
                                        /\ lg[q] # gen => outcome'[lg[q]] = outcome[lg[q]]
    BY LeaderGens DEF Retires
  <1>8. outcome[gen] = "pending"
    BY LeadingFacts
  <1>9. outcome'[gen] # "failed" => Doomed' = Doomed
    BY <1>6, <1>7, <1>8 DEF Doomed, Parks
  <1>10. ASSUME outcome'[gen] = "failed"
         PROVE  \E D \in SUBSET Flight!Waiting : Doomed' = Doomed \cup D
    <2> DEFINE D == {q \in Requests : Parks(q) /\ lg[q] = gen}
    <2>1. Doomed' = Doomed \cup D
      BY <1>6, <1>7, <1>8, <1>10 DEF Doomed, Parks
    <2>2. D \subseteq Flight!Waiting
      BY RoleValue DEF Flight!Waiting, RoleOf, Parks, AtGate
    <2> QED
      BY <2>1, <2>2
  <1> QED
    BY <1>1, <1>2, <1>5, <1>9, <1>10

\* Every step of the gate is a step of single flight or leaves it unchanged.
LEMMA FlightStep ==
  IInv /\ [Next]_vars => [Flight!FlightNext]_(Flight!flightVars)
  <1> SUFFICES ASSUME IInv, [Next]_vars PROVE [Flight!FlightNext]_(Flight!flightVars)
    OBVIOUS
  <1>0. CallTypes /\ GenTypes
    BY TypeSplit DEF IInv, GateTypes
  <1>1. ASSUME NEW r \in Requests, GotConn(r) \/ LeadAnswered(r)
        PROVE  [Flight!FlightNext]_(Flight!flightVars)
    <2>1. /\ pc[r] = "lead" /\ Release(r) /\ UNCHANGED lg
          /\ \/ UNCHANGED <<pc, ret>>
             \/ pc' = [pc EXCEPT ![r] = "done"] /\ ret' = [ret EXCEPT ![r] = "sent"]
      BY <1>1 DEF GotConn, LeadAnswered, Return
    <2>2. /\ \A q \in Requests \ {r} : pc'[q] = pc[q] /\ ret'[q] = ret[q]
          /\ pc'[r] = "lead" \/ (pc'[r] = "done" /\ ret'[r] = "sent")
      BY <1>0, <2>1 DEF CallTypes
    <2>3. CASE outcome[lg[r]] # "pending"
      <3>1. UNCHANGED gateVars
        BY <2>1, <2>3 DEF Release
      <3>2. LocalMove(r)
        BY <2>1, <2>2, <3>1 DEF LocalMove
      <3>3. Role(r) = "through" /\ Role(r)' = "through" /\ r \notin Doomed /\ r \notin Doomed'
        BY <2>1, <2>2, <2>3, <3>1 DEF Role, AtGate, Leading, Doomed, gateVars
      <3> QED
        BY <3>2, <3>3, LocalFlight DEF Flight!flightVars
    <2>4. CASE outcome[lg[r]] = "pending"
      <3>1. Leading(r) /\ Retires(r)
        BY <2>1, <2>2, <2>4 DEF Leading, Retires
      <3>2. /\ outcome' = Resolved(gen, "released") /\ state' = "warm" /\ UNCHANGED gen
        BY <2>1, <3>1, LeadingFacts DEF Release, Leading
      <3>3. outcome'[gen] = "released" /\ \A g \in Gens \ {gen} : outcome'[g] = outcome[g]
        BY <1>0, <3>1, <3>2, LeadingFacts DEF Resolved, GenTypes
      <3>4. Role(r)' = "through"
        BY <2>1, <2>2, <3>1, <3>3, LeadingFacts DEF Role, AtGate, Leading
      <3>5. Phase' = "open"
        BY <3>2 DEF Phase
      <3>6. Flight!Land(r)
        BY <2>2, <3>1, <3>3, <3>4, <3>5, ResolveFlight DEF Flight!Land
      <3> QED
        BY <3>6 DEF Flight!FlightNext
    <2> QED
      BY <2>3, <2>4
  <1>2. ASSUME NEW r \in Requests, LeadResolve(r) \/ LeadPanics(r)
        PROVE  [Flight!FlightNext]_(Flight!flightVars)
    <2>1. /\ Led(r) /\ UNCHANGED lg /\ pc' = [pc EXCEPT ![r] = "done"]
          /\ \/ outcome[lg[r]] # "pending" /\ UNCHANGED gateVars /\ ret' = [ret EXCEPT ![r] = "sent"]
             \/ outcome[lg[r]] = "pending" /\ AbandonLocked(lg[r]) /\ ret' = [ret EXCEPT ![r] = "gone"]
             \/ outcome[lg[r]] = "pending" /\ FailLocked(lg[r]) /\ ret' = [ret EXCEPT ![r] = "cause"]
      BY <1>2 DEF LeadResolve, LeadPanics, Return, Led
    <2>2. /\ \A q \in Requests \ {r} : pc'[q] = pc[q] /\ ret'[q] = ret[q]
          /\ pc'[r] = "done" /\ Retires(r)
      BY <1>0, <2>1 DEF CallTypes, Retires
    <2>3. CASE outcome[lg[r]] # "pending"
      <3>1. UNCHANGED gateVars /\ ret'[r] = "sent"
        BY <1>0, <2>1, <2>3 DEF CallTypes
      <3>2. LocalMove(r)
        BY <2>1, <2>2, <3>1 DEF LocalMove
      <3>3. Role(r) = "through" /\ Role(r)' = "through" /\ r \notin Doomed /\ r \notin Doomed'
        BY <2>1, <2>2, <2>3, <3>1 DEF Role, AtGate, Leading, Led, Doomed
      <3> QED
        BY <3>2, <3>3, LocalFlight DEF Flight!flightVars
    <2>4. CASE outcome[lg[r]] = "pending" /\ FailLocked(lg[r]) /\ ret' = [ret EXCEPT ![r] = "cause"]
      <3>1. Leading(r) /\ ret'[r] = "cause"
        BY <1>0, <2>1, <2>4 DEF Leading, Led, CallTypes
      <3>2. /\ outcome' = Resolved(gen, "failed") /\ state' = "cold"
        BY <2>4, <3>1, LeadingFacts DEF FailLocked
      <3>3. outcome'[gen] = "failed" /\ \A g \in Gens \ {gen} : outcome'[g] = outcome[g]
        BY <1>0, <3>1, <3>2, LeadingFacts DEF Resolved, GenTypes
      <3>4. Role(r)' = "refused" /\ Phase' = "cold"
        BY <2>2, <3>1, <3>2 DEF Role, AtGate, Leading, Phase
      <3>5. Flight!Crash(r)
        BY <2>2, <3>1, <3>3, <3>4, ResolveFlight DEF Flight!Crash
      <3> QED
        BY <3>5 DEF Flight!FlightNext
    <2>5. CASE outcome[lg[r]] = "pending" /\ AbandonLocked(lg[r]) /\ ret' = [ret EXCEPT ![r] = "gone"]
      <3>1. Leading(r) /\ ret'[r] = "gone" /\ AbandonLocked(gen)
        BY <1>0, <2>1, <2>5, LeadingFacts DEF Leading, Led, CallTypes
      <3>2. outcome'[gen] = "leaderGone" /\ \A g \in Gens \ {gen} : outcome'[g] = outcome[g]
        <4>1. \A g \in Gens : outcome'[g] = Resolved(gen, "leaderGone")[g]
          <5>1. CASE waiters[gen] = 0
            BY <3>1, <5>1 DEF AbandonLocked
          <5>2. CASE waiters[gen] # 0
            <6>1. NewGeneration(Resolved(gen, "leaderGone"), Closed(gen))
              BY <3>1, <5>2 DEF AbandonLocked
            <6>2. Resolved(gen, "leaderGone") \in [Gens -> Outcomes] /\ Closed(gen) \in [Gens -> Nat]
              BY <1>0, <3>1, LeadingFacts, ResolveTypes, TypeSplit DEF IInv
            <6> QED
              BY <1>0, <6>1, <6>2, NewGenerationType
          <5> QED
            BY <5>1, <5>2
        <4> QED
          BY <1>0, <3>1, <4>1, LeadingFacts DEF Resolved, GenTypes
      <3>3. Phase' = "cold"
        BY <3>1, LeadingFacts DEF AbandonLocked, Phase
      <3>4. Role(r)' = "gone"
        BY <2>2, <3>1 DEF Role, AtGate, Leading
      <3>5. Flight!GiveUp(r)
        BY <2>2, <3>1, <3>2, <3>3, <3>4, ResolveFlight DEF Flight!GiveUp
      <3> QED
        BY <3>5 DEF Flight!FlightNext
    <2> QED
      BY <2>1, <2>3, <2>4, <2>5
  <1>3. CASE UNCHANGED vars
    <2>1. Phase' = Phase /\ Doomed' = Doomed
      BY <1>3 DEF vars, Phase, Doomed
    <2>2. \A q \in Requests : Role(q)' = Role(q)
      BY <1>3, RoleStays DEF vars
    <2> QED
      BY <2>1, <2>2, RolesKept DEF Flight!flightVars
  <1> QED
    BY <1>1, <1>2, <1>3, LocalFlightStep, EnterLeadFlight, ParkFlight, LeaveFlight
       DEF Next, Flight!FlightNext

\* The gate implements SingleFlight: one dial at a time until one lands, and
\* a request is refused only by a flight that failed while it waited.
THEOREM GateImplementsSingleFlight == Spec => ImplementsSingleFlight
  <1>1. Init => Flight!FlightInit
    <2> SUFFICES ASSUME Init PROVE Flight!FlightInit
      OBVIOUS
    <2>1. Phase = "cold" /\ Doomed = {}
      BY DEF Init, Phase, Doomed
    <2>2. \A q \in Requests : Role(q) = "out"
      BY RoleValue DEF Init
    <2>3. RoleOf = [q \in Requests |-> "out"]
      BY <2>2 DEF RoleOf
    <2> QED
      BY <2>1, <2>3 DEF Flight!FlightInit
  <1> QED
    BY <1>1, FlightStep, GateInvariant, PTL DEF Spec, ImplementsSingleFlight, Flight!FlightSpec
============================================================================
