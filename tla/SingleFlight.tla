--------------------------- MODULE SingleFlight ---------------------------
(***************************************************************************)
(* What the cold-start gate promises, without generations, handovers,      *)
(* counters or locks: until a connection exists the requests take turns at *)
(* flying one dial, one at a time; once one has landed everyone passes;    *)
(* and a request is refused only by a flight that failed while it waited.  *)
(***************************************************************************)
EXTENDS FiniteSets

CONSTANT Requests

VARIABLES
  phase,    \* "cold": nobody flies; "led": one request flies; "open": landed
  role,     \* each request's part
  doomed    \* waiting requests that a failed flight may refuse

flightVars == <<phase, role, doomed>>

Roles == {"out", "waiting", "leading", "through", "refused", "gone"}

FlightInit ==
  /\ phase = "cold"
  /\ role = [r \in Requests |-> "out"]
  /\ doomed = {}

Waiting == {r \in Requests : role[r] = "waiting"}

Become(r, x) == role' = [role EXCEPT ![r] = x]

Arrive(r) ==
  /\ role[r] = "out"
  /\ Become(r, "waiting")
  /\ UNCHANGED <<phase, doomed>>

Fly(r) ==
  /\ role[r] = "waiting" /\ r \notin doomed /\ phase = "cold"
  /\ phase' = "led"
  /\ Become(r, "leading")
  /\ UNCHANGED doomed

Land(r) ==
  /\ role[r] = "leading" /\ phase = "led"
  /\ phase' = "open"
  /\ Become(r, "through")
  /\ UNCHANGED doomed

Crash(r) ==
  /\ role[r] = "leading" /\ phase = "led"
  /\ phase' = "cold"
  /\ Become(r, "refused")
  /\ \E D \in SUBSET Waiting : doomed' = doomed \cup D

GiveUp(r) ==
  /\ role[r] = "leading" /\ phase = "led"
  /\ phase' = "cold"
  /\ Become(r, "gone")
  /\ UNCHANGED doomed

Refuse(r) ==
  /\ role[r] = "waiting" /\ r \in doomed
  /\ Become(r, "refused")
  /\ doomed' = doomed \ {r}
  /\ UNCHANGED phase

\* A waiting request passes, onto the landed connection or because its
\* patience ended, or returns with its context's error.
Depart(r) ==
  /\ role[r] = "waiting"
  /\ \E x \in {"through", "gone"} : Become(r, x)
  /\ doomed' = doomed \ {r}
  /\ UNCHANGED phase

\* A request that finds the gate open does not wait.
PassOpen(r) ==
  /\ role[r] = "out" /\ phase = "open"
  /\ Become(r, "through")
  /\ UNCHANGED <<phase, doomed>>

FlightNext ==
  \E r \in Requests :
    \/ Arrive(r) \/ Fly(r) \/ Land(r) \/ Crash(r) \/ GiveUp(r)
    \/ Refuse(r) \/ Depart(r) \/ PassOpen(r)

FlightSpec == FlightInit /\ [][FlightNext]_flightVars
============================================================================
