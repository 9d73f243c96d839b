---------------------------- MODULE MCRetryLoop ----------------------------
(* RetryLoop for TLC: four policies. *)
EXTENDS RetryLoop

\* The shape of DefaultRetry: doubled waits under a budget.
Default ==
  [max |-> 2, budget |-> 6, initial |-> 1, maximum |-> 3, jitter |-> FALSE,
   statuses |-> {"429"}, timeouts |-> TRUE, connections |-> TRUE,
   respect |-> TRUE, predicate |-> FALSE]

MCPolicies ==
  {Default,
   [Default EXCEPT !.budget = NoBudget, !.initial = 0, !.predicate = TRUE],
   [Default EXCEPT !.jitter = TRUE, !.respect = FALSE, !.statuses = Statuses],
   [Default EXCEPT !.max = 1, !.timeouts = FALSE, !.connections = FALSE]}

\* An APIError never has a 2xx status, so a decoder's failure is told by its kind.
MCServerWaits == {NoWait, 0, 2}
MCDeadlines == {Never, 0, 2, 4}
============================================================================
