----------------------------- MODULE MCEvaluate -----------------------------
(* A small instance of Evaluate: every pair of defects a request can have,  *)
(* and calls that retry at once, after a wait within a budget, and never.   *)
EXTENDS Evaluate

PolicyOf(m, d, b, t, p) ==
    [max |-> m, delay |-> d, budget |-> b, timeouts |-> t, connections |-> ~t,
     predicate |-> p]

MCRequests == {d \in SUBSET Defects : Cardinality(d) <= 2}
MCDeadlines == {Never, 2}
MCPolicies ==
    {PolicyOf(1, 0, NoBudget, FALSE, TRUE), PolicyOf(2, 1, 3, FALSE, FALSE),
     PolicyOf(0, 1, 3, TRUE, FALSE)}
=============================================================================
