---------------------------- MODULE MCWaitBound ----------------------------
(* WaitBound for TLC: requests of one kind are interchangeable. *)
EXTENDS WaitBound, TLC

Symmetric == Permutations(Hooked) \cup Permutations(Requests \ Hooked)
============================================================================
