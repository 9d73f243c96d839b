------------------------------ MODULE PlanCache ------------------------------
(***************************************************************************)
(* The process-wide cache of plans (typed.go): planFor is a Load, a build  *)
(* outside any lock, and a LoadOrStore, on a sync.Map.                     *)
(*                                                                         *)
(* A plan is the type it was built of and the goroutine and the call that  *)
(* built it; what it says depends on the type alone and is Typed's.        *)
(***************************************************************************)
EXTENDS Integers

CONSTANTS
    Goroutines,
    Types,       \* the types a program asks about
    MaxCalls,    \* bound: the calls of one goroutine
    NoPlan

ASSUME CallsAssumption == MaxCalls \in Nat

VARIABLES
    plans,     \* typedPlans: a function on the types it has an entry for
    tpc,       \* where each goroutine is: idle, build, store, use
    wants,     \* the type it asks about
    built,     \* the plan it has built
    chosen,    \* the plan planFor gave it
    calls,     \* the calls it has made
    returned   \* history: the plans that calls have used, each with its type

cacheVars == <<plans, tpc, wants, built, chosen, calls, returned>>

CacheInit ==
    /\ plans = [t \in {} |-> NoPlan]
    /\ tpc = [g \in Goroutines |-> "idle"]
    /\ wants = [g \in Goroutines |-> NoPlan]
    /\ built = [g \in Goroutines |-> NoPlan]
    /\ chosen = [g \in Goroutines |-> NoPlan]
    /\ calls = [g \in Goroutines |-> 0]
    /\ returned = {}

Step(g, from, to) == tpc[g] = from /\ tpc' = [tpc EXCEPT ![g] = to]

\* planFor begins: the Load of the cache, for type t.
Load(g, t) ==
    /\ calls[g] < MaxCalls
    /\ calls' = [calls EXCEPT ![g] = @ + 1]
    /\ wants' = [wants EXCEPT ![g] = t]
    /\ \/ /\ t \in DOMAIN plans
          /\ Step(g, "idle", "use")
          /\ chosen' = [chosen EXCEPT ![g] = plans[t]]
       \/ /\ t \notin DOMAIN plans
          /\ Step(g, "idle", "build")
          /\ UNCHANGED chosen
    /\ UNCHANGED <<plans, built, returned>>

Build(g) ==
    /\ Step(g, "build", "store")
    /\ built' = [built EXCEPT ![g] = [of |-> wants[g], by |-> g, call |-> calls[g]]]
    /\ UNCHANGED <<plans, wants, chosen, calls, returned>>

\* Variant: Store for LoadOrStore.
StoreOwn(g) ==
    /\ Step(g, "store", "use")
    /\ plans' = [t \in DOMAIN plans \cup {wants[g]} |-> IF t = wants[g] THEN built[g] ELSE plans[t]]
    /\ chosen' = [chosen EXCEPT ![g] = built[g]]
    /\ UNCHANGED <<wants, built, calls, returned>>

\* The plan that is in the cache already wins.
LoadOrStore(g) ==
    /\ Step(g, "store", "use")
    /\ plans' = [t \in DOMAIN plans \cup {wants[g]} |-> IF t \in DOMAIN plans THEN plans[t] ELSE built[g]]
    /\ chosen' = [chosen EXCEPT ![g] = plans'[wants[g]]]
    /\ UNCHANGED <<wants, built, calls, returned>>

\* PreparedFor returns the chosen's set or its error, DecodeAs and Ask decode by it.
Use(g) ==
    /\ Step(g, "use", "idle")
    /\ returned' = returned \cup {[type |-> wants[g], plan |-> chosen[g]]}
    /\ UNCHANGED <<plans, wants, built, chosen, calls>>

CacheNext ==
    \E g \in Goroutines :
        \/ \E t \in Types : Load(g, t)
        \/ Build(g) \/ LoadOrStore(g) \/ Use(g)

CacheSpec == CacheInit /\ [][CacheNext]_cacheVars

-----------------------------------------------------------------------------
(* Properties.                                                             *)

Plan == [of : Types, by : Goroutines, call : Nat]

\* The types of the cache and of the goroutines' state.
CacheTypeOK ==
    /\ DOMAIN plans \subseteq Types /\ \A t \in DOMAIN plans : plans[t] \in Plan
    /\ tpc \in [Goroutines -> {"idle", "build", "store", "use"}]
    /\ wants \in [Goroutines -> Types \cup {NoPlan}]
    /\ built \in [Goroutines -> Plan \cup {NoPlan}]
    /\ chosen \in [Goroutines -> Plan \cup {NoPlan}]
    /\ calls \in [Goroutines -> Nat]
    /\ returned \subseteq [type : Types, plan : Plan]

(***************************************************************************)
(* Every call for a type, in whatever goroutine and however the first      *)
(* builds overlap, gets the same plan for the life of the process, one     *)
(* that was built of that type.                                            *)
(***************************************************************************)
OnePlan ==
    /\ \A u \in returned : u.plan.of = u.type
    /\ \A u, v \in returned : u.type = v.type => u.plan = v.plan

\* typedPlans only grows, and an entry stays what it is.
PlansOnlyGrow ==
    [][\A t \in DOMAIN plans : t \in DOMAIN plans' /\ plans'[t] = plans[t]]_cacheVars
=============================================================================
