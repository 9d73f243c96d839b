----------------------------- MODULE LeasedBody -----------------------------
(***************************************************************************)
(* What the pooled request body promises, without a count, a packed word,  *)
(* compare-and-swaps or buffers: the memory of one body is given to one    *)
(* call at a time, who leases it to readers; an Open or a Release takes    *)
(* effect at once, or does nothing because its body is over; and the       *)
(* memory is free again only when the call and every reader have given the *)
(* body back, so a reader sees no other body than the one it leased.       *)
(***************************************************************************)
EXTENDS Integers

CONSTANTS Readers, Droppers

VARIABLES
  gen,     \* the number of the body, one more each time the memory is taken
  call,    \* its call still has it
  home,    \* where the memory is: in the "pool", "making" a body, or "out"
  asks,    \* the body each Open under way is for, 0 is none
  drops,   \* the body each Release under way is for
  lease,   \* the body each reader has
  sees     \* the body whose bytes each reader's Read is copying

leaseVars == <<gen, call, home, asks, drops, lease, sees>>

LeaseInit ==
  /\ gen = 0 /\ call = FALSE /\ home = "pool"
  /\ asks = [x \in Readers |-> 0] /\ drops = [p \in Droppers |-> 0]
  /\ lease = [x \in Readers |-> 0] /\ sees = [x \in Readers |-> 0]

InUse == call \/ \E x \in Readers : lease[x] # 0

\* The memory is taken, becomes the next body, and is filled.
Take ==
  /\ home = "pool" /\ home' = "making"
  /\ UNCHANGED <<gen, call, asks, drops, lease, sees>>

Begin ==
  /\ home = "making" /\ ~InUse
  /\ gen' = gen + 1 /\ call' = TRUE
  /\ UNCHANGED <<home, asks, drops, lease, sees>>

Fill ==
  /\ home = "making" /\ call
  /\ home' = "out"
  /\ UNCHANGED <<gen, call, asks, drops, lease, sees>>

Free ==
  /\ home = "out" /\ ~InUse
  /\ home' = "pool"
  /\ UNCHANGED <<gen, call, asks, drops, lease, sees>>

\* Open of any body there ever was: it is leased, or refused when it is over.
Ask(x) ==
  /\ asks[x] = 0 /\ lease[x] = 0
  /\ \E g \in 1..gen : asks' = [asks EXCEPT ![x] = g]
  /\ UNCHANGED <<gen, call, home, drops, lease, sees>>

Grant(x) ==
  /\ asks[x] = gen /\ InUse /\ home = "out"
  /\ asks' = [asks EXCEPT ![x] = 0]
  /\ lease' = [lease EXCEPT ![x] = gen]
  /\ UNCHANGED <<gen, call, home, drops, sees>>

Refuse(x) ==
  /\ asks[x] # 0 /\ (asks[x] # gen \/ ~InUse)
  /\ asks' = [asks EXCEPT ![x] = 0]
  /\ UNCHANGED <<gen, call, home, drops, lease, sees>>

\* Release of any body there ever was: the call's first one gives it back.
Drop(p) ==
  /\ drops[p] = 0
  /\ \E g \in 1..gen : drops' = [drops EXCEPT ![p] = g]
  /\ UNCHANGED <<gen, call, home, asks, lease, sees>>

Dropped(p) ==
  /\ drops[p] = gen /\ call /\ home = "out"
  /\ drops' = [drops EXCEPT ![p] = 0]
  /\ call' = FALSE
  /\ UNCHANGED <<gen, home, asks, lease, sees>>

DropVoid(p) ==
  /\ drops[p] # 0 /\ (drops[p] # gen \/ ~call)
  /\ drops' = [drops EXCEPT ![p] = 0]
  /\ UNCHANGED <<gen, call, home, asks, lease, sees>>

\* Read shows the leased body; Close gives it back, and waits for a Read.
See(x) ==
  /\ lease[x] # 0 /\ sees[x] = 0
  /\ sees' = [sees EXCEPT ![x] = lease[x]]
  /\ UNCHANGED <<gen, call, home, asks, drops, lease>>

LookAway(x) ==
  /\ sees[x] # 0
  /\ sees' = [sees EXCEPT ![x] = 0]
  /\ UNCHANGED <<gen, call, home, asks, drops, lease>>

Return(x) ==
  /\ lease[x] # 0 /\ sees[x] = 0
  /\ lease' = [lease EXCEPT ![x] = 0]
  /\ UNCHANGED <<gen, call, home, asks, drops, sees>>

LeaseNext ==
  \/ Take \/ Begin \/ Fill \/ Free
  \/ \E x \in Readers : Ask(x) \/ Grant(x) \/ Refuse(x) \/ See(x) \/ LookAway(x) \/ Return(x)
  \/ \E p \in Droppers : Drop(p) \/ Dropped(p) \/ DropVoid(p)

LeaseSpec == LeaseInit /\ [][LeaseNext]_leaseVars
=============================================================================
