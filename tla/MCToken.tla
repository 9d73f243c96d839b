------------------------------ MODULE MCToken ------------------------------
(* Token for TLC. *)
EXTENDS Token, TLC

CONSTANT Late  \* requests that start after a replay, if at all

\* The early requests are interchangeable, and so are the late ones.
Symmetric == {p @@ q : p \in Permutations(Requests \ Late), q \in Permutations(Late)}

\* Once loose, always loose, and OneHolderUnsettled says nothing of it; the
\* callback of a hold that expires makes it so, or finds the token given; and
\* a request that left before it got a connection changed nothing.
NotLoose ==
  /\ ~loose
  /\ \A r \in Requests : ~late[r] /\ (spc[r] \in {"give", "stop", "done"} => at[r] = "sent")

\* Two requests do whatever they can, with two replays when no connection is
\* HTTP/1.1 and one otherwise; two more join them when both are out
\* and one replay has opened a connection that is not settled, while no hold
\* has expired.
Explored ==
  \/ /\ \A r \in Late : spc[r] = "idle"
     /\ replays <= 1 \/ dialed \cap H1Conns = {}
  \/ /\ NotLoose /\ replays = 1 /\ dialed \cap H1Conns = {}
     /\ unsettled # <<>> \/ \E r \in Late : spc[r] \notin {"idle", "tokenWait"}
     /\ \A r \in Requests \ Late : spc[r] \notin {"idle", "tokenWait"}
StaysExplored == Explored'
============================================================================
