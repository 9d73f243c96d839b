------------------------- MODULE ScratchBodyProofs -------------------------
(***************************************************************************)
(* The safety properties of ScratchBody, for every number of readers and   *)
(* releasing goroutines.                                                   *)
(*                                                                         *)
(* The invariant says who owns the scratch: the pool, NewBody between its  *)
(* Load and its Store, the references, or the one goroutine that dropped   *)
(* the last of them and has not recycled it yet.                           *)
(***************************************************************************)
EXTENDS ScratchBody, FiniteSetTheorems, TLAPS

\* The call's own reference.
Own == IF word.rel \/ word.gen = 0 THEN 0 ELSE 1

ReaderPCs == {"idle", "swap", "refused", "panicked", "opened", "open",
              "closing", "unref", "recycle", "done"}

RefsAre == word.refs = Cardinality(Counted) + Own

NoRecycler ==
  /\ \A p \in Droppers : dpc[p] # "recycle"
  /\ \A x \in Readers : rpc[x] # "recycle"

\* Nobody refers to the word's body, and no handle can change the word.
Dead == word.refs = 0 /\ (word.rel \/ word.gen = 0)

PoolOwns == pool \in {0, 1} /\ (pool = 1 => Dead /\ NoRecycler /\ bpc \in {"none", "built"})

MakerOwns ==
  /\ bpc = "none" => word.gen = 0
  /\ bpc = "store" => pool = 0 /\ Dead /\ NoRecycler /\ word = saved /\ word.gen < MaxGen
  /\ bpc \in {"build", "built"} => word.gen > 0
  /\ bpc = "build" => word.refs = 1 /\ ~word.rel /\ buf # 0

ReferencesOwn == word.refs > 0 => pool = 0 /\ NoRecycler /\ bpc \in {"build", "built"}

RecyclerOwns ==
  /\ ~NoRecycler => pool = 0 /\ Dead /\ bpc = "built"
  /\ \A p, q \in Droppers : dpc[p] = "recycle" /\ dpc[q] = "recycle" => p = q
  /\ \A x, y \in Readers : rpc[x] = "recycle" /\ rpc[y] = "recycle" => x = y
  /\ \A p \in Droppers, x \in Readers : ~(dpc[p] = "recycle" /\ rpc[x] = "recycle")

\* A handle a goroutine works with is of this body, built, or of an
\* earlier one.
HandlesKnown ==
  /\ \A p \in Droppers :
       dpc[p] = "swap" => /\ dgen[p] \in 1..word.gen
                          /\ dgen[p] = word.gen => bpc \in {"built", "store"}
  /\ \A x \in Readers :
       rpc[x] = "swap" => /\ rgen[x] \in 1..word.gen
                          /\ rgen[x] = word.gen => bpc \in {"built", "store"}

CountedCurrent == \A x \in Counted : rgen[x] = word.gen /\ bpc = "built"

UnrefSees == \A x \in Readers : rpc[x] = "unref" => rword[x].gen = rgen[x] /\ rword[x].refs > 0

BytesKept ==
  /\ bpc = "built" /\ word.refs > 0 => buf # 0 /\ mem[buf] = word.gen
  /\ \A x \in Readers : rpc[x] \in {"open", "closing"} => data[x] = buf

ReadsInside ==
  \A x \in Readers :
    /\ reading[x] = "copying" => rpc[x] \in {"open", "closing"}
    /\ reading[x] = "locked" => rpc[x] \in {"open", "closing", "unref", "recycle", "done"}
    /\ rpc[x] \in {"closing", "unref", "recycle", "done"} => closed[x]

Owners == PoolOwns /\ MakerOwns /\ ReferencesOwn /\ RecyclerOwns
Users == HandlesKnown /\ CountedCurrent /\ UnrefSees /\ BytesKept /\ ReadsInside

SInv == ScratchTypeOK /\ RefsAre /\ Owners /\ Users

----------------------------------------------------------------------------
(* Counting.                                                               *)

\* The counted readers are finitely many.
LEMMA CountedFinite == IsFiniteSet(Counted) /\ Cardinality(Counted) \in Nat
<1>1. Counted \subseteq Readers
  BY DEF Counted
<1> QED
  BY <1>1, ScratchAssumption, FS_Subset, FS_CardinalityType

\* No count, no counted reader; and a counted reader is a reference.
LEMMA CountedRefs ==
  ASSUME ScratchTypeOK, RefsAre
  PROVE  /\ word.refs = 0 => Counted = {}
         /\ \A x \in Counted : word.refs > 0
         /\ word.refs = 0 => word.rel \/ word.gen = 0
<1>1. Cardinality(Counted) \in Nat /\ IsFiniteSet(Counted)
  BY CountedFinite
<1>2. Cardinality(Counted) = 0 <=> Counted = {}
  BY <1>1, FS_EmptySet
<1>3. word.refs \in Nat /\ word.refs = Cardinality(Counted) + Own
  BY ScratchAssumption DEF ScratchTypeOK, Words, RefsAre
<1>4. Own \in {0, 1} /\ (Own = 0 => word.rel \/ word.gen = 0)
  BY DEF Own
<1> QED
  BY <1>1, <1>2, <1>3, <1>4

\* A swap that succeeds in Open adds its reader to the counted ones.
LEMMA CountedAdds ==
  ASSUME NEW x \in Readers, rpc \in [Readers -> ReaderPCs], rpc[x] = "swap",
         rpc' = [rpc EXCEPT ![x] = "opened"]
  PROVE  Counted' = Counted \cup {x} /\ Cardinality(Counted') = Cardinality(Counted) + 1
<1>1. Counted' = Counted \cup {x} /\ x \notin Counted
  BY DEF Counted
<1> QED
  BY <1>1, CountedFinite, FS_AddElement

\* A swap that succeeds in unref removes it.
LEMMA CountedRemoves ==
  ASSUME NEW x \in Readers, rpc \in [Readers -> ReaderPCs], rpc[x] = "unref",
         NEW l \in {"recycle", "done"}, rpc' = [rpc EXCEPT ![x] = l]
  PROVE  /\ Counted' = Counted \ {x} /\ x \in Counted
         /\ Cardinality(Counted') = Cardinality(Counted) - 1
<1>1. Counted' = Counted \ {x} /\ x \in Counted
  BY DEF Counted
<1> QED
  BY <1>1, CountedFinite, FS_RemoveElement

----------------------------------------------------------------------------
(* The invariant holds initially, and every step keeps it.                 *)

\* The invariant holds of a new scratch in the pool.
LEMMA SInvInit == ScratchInit => SInv
<1> SUFFICES ASSUME ScratchInit PROVE SInv
  OBVIOUS
<1>0. Fresh \in Words /\ 0 \in Gens
  BY ScratchAssumption DEF Words, Gens, Fresh
<1>1. ScratchTypeOK
  BY <1>0 DEF ScratchInit, ScratchTypeOK
<1>2. Counted = {}
  BY DEF ScratchInit, Counted
<1>3. RefsAre
  BY <1>2, FS_EmptySet DEF ScratchInit, RefsAre, Own, Fresh
<1>4. Owners
  BY DEF ScratchInit, Owners, PoolOwns, MakerOwns, ReferencesOwn, RecyclerOwns,
         NoRecycler, Dead, Fresh
<1>5. Users
  BY <1>2 DEF ScratchInit, Users, HandlesKnown, CountedCurrent, UnrefSees, BytesKept,
         ReadsInside, Fresh
<1> QED
  BY <1>1, <1>3, <1>4, <1>5 DEF SInv

\* NewBody takes the scratch from the pool.
LEMMA NewLoadKeeps == SInv /\ NewLoad => SInv'
<1> SUFFICES ASSUME SInv, NewLoad PROVE SInv'
  OBVIOUS
<1> USE DEF SInv, scratchVars, dropVars, readerVars
<1>1. ScratchTypeOK'
  BY ScratchAssumption DEF ScratchTypeOK, NewLoad
<1>2. Counted' = Counted /\ Counted = {}
  BY CountedRefs DEF NewLoad, Counted, Owners, PoolOwns, Dead
<1>3. RefsAre'
  BY <1>2 DEF RefsAre, Own, NewLoad
<1>4. Owners'
  BY DEF Owners, PoolOwns, MakerOwns, ReferencesOwn, RecyclerOwns, NoRecycler, Dead,
         NewLoad, ScratchTypeOK, Words, Gens
<1>5. Users'
  BY <1>2 DEF Users, HandlesKnown, CountedCurrent, UnrefSees, BytesKept, ReadsInside,
         NewLoad, Owners, PoolOwns, Dead
<1> QED
  BY <1>1, <1>3, <1>4, <1>5

\* NewBody stores the word of the next generation.
LEMMA NewStoreKeeps == SInv /\ NewStore => SInv'
<1> SUFFICES ASSUME SInv, NewStore PROVE SInv'
  OBVIOUS
<1> USE DEF SInv, dropVars, readerVars
<1>0. word.gen \in Nat /\ word = saved /\ word.gen < MaxGen /\ word.refs = 0
  BY ScratchAssumption DEF Owners, MakerOwns, NewStore, ScratchTypeOK, Words, Gens, Dead
<1>1. ScratchTypeOK'
  <2>1. word' \in Words
    BY <1>0, ScratchAssumption DEF NewStore, Words, Gens
  <2>2. buf' \in Gens
    BY <1>0, ScratchAssumption DEF NewStore, Gens, ScratchTypeOK
  <2> QED
    BY <2>1, <2>2 DEF ScratchTypeOK, NewStore
<1>2. Counted' = Counted /\ Counted = {}
  BY <1>0, CountedRefs DEF NewStore, Counted
<1>3. word'.gen = word.gen + 1 /\ ~word'.rel /\ word'.refs = 1
  BY <1>0 DEF NewStore
<1>4. RefsAre'
  BY <1>0, <1>2, <1>3, FS_EmptySet DEF RefsAre, Own
<1>5. Owners'
  BY <1>0, <1>3 DEF Owners, PoolOwns, MakerOwns, ReferencesOwn, RecyclerOwns, NoRecycler, Dead,
         NewStore
<1>6. Users'
  <2>1. HandlesKnown'
    BY <1>0, <1>3 DEF Users, HandlesKnown, NewStore, ScratchTypeOK, Gens
  <2>2. \A x \in Readers : rpc[x] \notin {"open", "closing"}
    BY <1>2 DEF Counted
  <2> QED
    BY <1>2, <2>1, <2>2 DEF Users, CountedCurrent, UnrefSees, BytesKept, ReadsInside, NewStore
<1> QED
  BY <1>1, <1>4, <1>5, <1>6

\* The encoder fills the buffer.
LEMMA BuildKeeps == SInv /\ Build => SInv'
<1> SUFFICES ASSUME SInv, Build PROVE SInv'
  OBVIOUS
<1> USE DEF SInv, dropVars, readerVars
<1>0. /\ word.gen \in 1..MaxGen /\ word.refs = 1 /\ buf \in 1..MaxGen /\ pool = 0
      /\ NoRecycler
  BY ScratchAssumption DEF Owners, MakerOwns, ReferencesOwn, Build, ScratchTypeOK, Words, Gens
<1>1. buf' \in 1..MaxGen /\ big' \in BOOLEAN
  BY <1>0 DEF Build, ScratchTypeOK
<1>2. mem' \in [1..MaxGen -> Gens] /\ mem'[buf'] = word.gen
  BY <1>0, <1>1 DEF Build, ScratchTypeOK, Gens
<1>3. ScratchTypeOK'
  BY <1>0, <1>1, <1>2 DEF ScratchTypeOK, Build, Gens
<1>4. Counted' = Counted /\ Counted = {}
  BY DEF Build, Counted, Users, CountedCurrent
<1>5. RefsAre'
  BY <1>4 DEF RefsAre, Own, Build
<1>6. Owners'
  BY <1>0, <1>1 DEF Owners, PoolOwns, MakerOwns, ReferencesOwn, RecyclerOwns, NoRecycler, Dead, Build
<1>7. Users'
  <2>1. \A x \in Readers : rpc[x] \notin {"open", "closing"}
    BY <1>4 DEF Counted
  <2>2. HandlesKnown'
    BY DEF Users, HandlesKnown, Build
  <2> QED
    BY <1>0, <1>1, <1>2, <1>4, <2>1, <2>2
       DEF Users, CountedCurrent, UnrefSees, BytesKept, ReadsInside, Build
<1> QED
  BY <1>3, <1>5, <1>6, <1>7

----------------------------------------------------------------------------

\* Release looks at the word.
LEMMA ReleaseLoadKeeps == ASSUME SInv, NEW p \in Droppers, ReleaseLoad(p) PROVE SInv'
<1> USE DEF SInv, scratchVars, readerVars
<1>0. PICK g \in 1..MaxGen : Handle(g) /\ dgen' = [dgen EXCEPT ![p] = g]
  BY DEF ReleaseLoad
<1>1. ScratchTypeOK'
  BY <1>0 DEF ScratchTypeOK, ReleaseLoad, Gens
<1>2. Counted' = Counted
  BY DEF ReleaseLoad, Counted
<1>3. RefsAre'
  BY <1>2 DEF RefsAre, Own, ReleaseLoad
<1>4. Owners'
  BY DEF Owners, PoolOwns, MakerOwns, ReferencesOwn, RecyclerOwns, NoRecycler, Dead,
         ReleaseLoad, ScratchTypeOK
<1>5. HandlesKnown'
  BY <1>0 DEF Users, HandlesKnown, Handle, ReleaseLoad, ScratchTypeOK
<1>6. Users'
  BY <1>2, <1>5 DEF Users, CountedCurrent, UnrefSees, BytesKept, ReadsInside, ReleaseLoad
<1> QED
  BY <1>1, <1>3, <1>4, <1>6

\* Release drops the call's reference, or finds nothing to drop.
LEMMA ReleaseSwapKeeps == ASSUME SInv, NEW p \in Droppers, ReleaseSwap(p) PROVE SInv'
<1> USE DEF SInv, readerVars, ReleaseVoid, LastRef
<1>1. CASE dword[p].gen # dgen[p] \/ dword[p].rel
  <2>0. dpc' = [dpc EXCEPT ![p] = "idle"] /\ UNCHANGED <<word, dword>>
    BY <1>1 DEF ReleaseSwap
  <2>1. ScratchTypeOK'
    BY <2>0 DEF ScratchTypeOK, ReleaseSwap
  <2>2. Counted' = Counted
    BY DEF ReleaseSwap, Counted
  <2>3. RefsAre'
    BY <2>0, <2>2 DEF RefsAre, Own
  <2>4. Owners'
    BY <2>0 DEF Owners, PoolOwns, MakerOwns, ReferencesOwn, RecyclerOwns, NoRecycler, Dead,
           ReleaseSwap, ScratchTypeOK
  <2>5. HandlesKnown'
    BY <2>0 DEF Users, HandlesKnown, ReleaseSwap, ScratchTypeOK
  <2>6. Users'
    BY <2>0, <2>2, <2>5 DEF Users, CountedCurrent, UnrefSees, BytesKept, ReadsInside, ReleaseSwap
  <2> QED
    BY <2>1, <2>3, <2>4, <2>6
<1>2. CASE dword[p].gen = dgen[p] /\ ~dword[p].rel /\ word # dword[p]
  <2>0. dword' = [dword EXCEPT ![p] = word] /\ UNCHANGED <<word, dpc>>
    BY <1>2 DEF ReleaseSwap
  <2>1. ScratchTypeOK'
    BY <2>0 DEF ScratchTypeOK, ReleaseSwap
  <2>2. Counted' = Counted
    BY DEF ReleaseSwap, Counted
  <2>3. RefsAre'
    BY <2>0, <2>2 DEF RefsAre, Own
  <2>4. Owners'
    BY <2>0 DEF Owners, PoolOwns, MakerOwns, ReferencesOwn, RecyclerOwns, NoRecycler, Dead,
           ReleaseSwap
  <2>6. Users'
    BY <2>0, <2>2 DEF Users, HandlesKnown, CountedCurrent, UnrefSees, BytesKept, ReadsInside,
           ReleaseSwap
  <2> QED
    BY <2>1, <2>3, <2>4, <2>6
<1>3. CASE dword[p].gen = dgen[p] /\ ~dword[p].rel /\ word = dword[p]
  <2>0. /\ word' = [word EXCEPT !.rel = TRUE, !.refs = @ - 1]
        /\ dpc' = [dpc EXCEPT ![p] = IF word.refs = 1 THEN "recycle" ELSE "idle"]
        /\ UNCHANGED <<dword, dgen>> /\ dpc[p] = "swap"
        /\ UNCHANGED <<buf, big, mem, pool, bpc, saved, rpc, rgen, rword, data, closed, reading>>
    BY <1>3 DEF ReleaseSwap
  <2>1. word.gen = dgen[p] /\ ~word.rel /\ word.gen > 0 /\ word.gen \in Nat
    BY <1>3, <2>0 DEF Users, HandlesKnown, ScratchTypeOK, Gens
  <2>2. bpc = "built"
    BY <2>0, <2>1 DEF Users, HandlesKnown, Owners, MakerOwns, Dead
  <2>3. Cardinality(Counted) \in Nat /\ word.refs = Cardinality(Counted) + 1
    BY <2>1, CountedFinite DEF RefsAre, Own
  <2>4. /\ word'.gen = word.gen /\ word'.rel = TRUE /\ word'.refs = word.refs - 1
        /\ word.refs \in 1..MaxRefs /\ word' \in Words
    <3>1. word.refs \in 1..MaxRefs /\ word.refs - 1 \in 0..MaxRefs
      BY <2>3, ScratchAssumption DEF ScratchTypeOK, Words
    <3>2. word' = [gen |-> word.gen, rel |-> TRUE, refs |-> word.refs - 1]
      BY <2>0 DEF ScratchTypeOK, Words
    <3> QED
      BY <3>1, <3>2 DEF ScratchTypeOK, Words
  <2>5. Counted' = Counted
    BY <2>0 DEF Counted
  <2>6. RefsAre'
    BY <2>3, <2>4, <2>5 DEF RefsAre, Own
  <2>7. ScratchTypeOK'
    BY <2>0, <2>4 DEF ScratchTypeOK
  <2>8. pool = 0 /\ NoRecycler
    BY <2>4 DEF Owners, ReferencesOwn
  <2>9. Owners'
    <3>1. PoolOwns' /\ MakerOwns'
      BY <2>0, <2>2, <2>4, <2>8 DEF PoolOwns, MakerOwns, Owners
    <3>2. ReferencesOwn'
      BY <2>0, <2>2, <2>4, <2>8 DEF ReferencesOwn, NoRecycler, ScratchTypeOK
    <3>3. RecyclerOwns'
      BY <2>0, <2>2, <2>4, <2>8 DEF RecyclerOwns, NoRecycler, Dead, ScratchTypeOK
    <3> QED
      BY <3>1, <3>2, <3>3 DEF Owners
  <2>10. Users'
    <3>1. HandlesKnown'
      BY <2>0, <2>4 DEF Users, HandlesKnown, ScratchTypeOK
    <3> QED
      BY <2>0, <2>4, <2>5, <3>1 DEF Users, CountedCurrent, UnrefSees, BytesKept, ReadsInside
  <2> QED
    BY <2>6, <2>7, <2>9, <2>10
<1> QED
  BY <1>1, <1>2, <1>3

\* recycle, as it changes the scratch.
LEMMA RecycleKeeps ==
  ASSUME SInv, Recycle, ~NoRecycler, NoRecycler', UNCHANGED <<word, mem, bpc, saved>>,
         Counted' = Counted, ScratchTypeOK', UNCHANGED <<rgen, rword, data, closed, reading>>,
         HandlesKnown', UnrefSees', ReadsInside'
  PROVE  SInv'
<1>1. pool = 0 /\ Dead /\ bpc = "built" /\ Counted = {}
  BY CountedRefs DEF SInv, Owners, RecyclerOwns, Dead
<1>2. RefsAre'
  BY DEF SInv, RefsAre, Own
<1>3. Owners'
  BY <1>1 DEF SInv, Owners, PoolOwns, MakerOwns, ReferencesOwn, RecyclerOwns, NoRecycler, Dead, Recycle
<1>4. BytesKept' /\ CountedCurrent'
  <2>1. \A x \in Readers : rpc'[x] \notin {"open", "closing"}
    BY <1>1 DEF Counted
  <2> QED
    BY <1>1, <2>1 DEF BytesKept, CountedCurrent, Dead
<1> QED
  BY <1>2, <1>3, <1>4 DEF SInv, Users

\* Release's recycle.
LEMMA ReleaseRecycleKeeps == ASSUME SInv, NEW p \in Droppers, ReleaseRecycle(p) PROVE SInv'
<1> USE DEF SInv, readerVars
<1>0. Recycle /\ ~NoRecycler
  BY DEF ReleaseRecycle, NoRecycler
<1>1. ScratchTypeOK'
  <2>1. buf' \in Gens /\ pool' \in Nat
    BY <1>0, ScratchAssumption DEF Recycle, ScratchTypeOK, Gens
  <2>2. big' = FALSE
    BY <1>0 DEF Recycle
  <2> QED
    BY <2>1, <2>2 DEF ScratchTypeOK, ReleaseRecycle
<1>2. NoRecycler'
  BY DEF Owners, RecyclerOwns, NoRecycler, ReleaseRecycle, ScratchTypeOK
<1>3. Counted' = Counted
  BY DEF Counted, ReleaseRecycle
<1>4. HandlesKnown' /\ UnrefSees' /\ ReadsInside'
  BY DEF Users, HandlesKnown, UnrefSees, ReadsInside, ReleaseRecycle, ScratchTypeOK
<1> QED
  BY <1>0, <1>1, <1>2, <1>3, <1>4, RecycleKeeps DEF ReleaseRecycle

----------------------------------------------------------------------------

\* Open looks at the word.
LEMMA OpenLoadKeeps == ASSUME SInv, NEW x \in Readers, OpenLoad(x) PROVE SInv'
<1> USE DEF SInv, scratchVars, dropVars
<1>0. PICK g \in 1..MaxGen : Handle(g) /\ rgen' = [rgen EXCEPT ![x] = g]
  BY DEF OpenLoad
<1>1. ScratchTypeOK'
  BY <1>0 DEF ScratchTypeOK, OpenLoad, Gens
<1>2. Counted' = Counted /\ x \notin Counted
  BY DEF OpenLoad, Counted, ScratchTypeOK
<1>3. RefsAre'
  BY <1>2 DEF RefsAre, Own, OpenLoad
<1>4. Owners'
  BY DEF Owners, PoolOwns, MakerOwns, ReferencesOwn, RecyclerOwns, NoRecycler, Dead,
         OpenLoad, ScratchTypeOK
<1>5. HandlesKnown'
  BY <1>0 DEF Users, HandlesKnown, Handle, OpenLoad, ScratchTypeOK
<1>6. CountedCurrent'
  BY <1>0, <1>2 DEF Users, CountedCurrent, OpenLoad, ScratchTypeOK, Counted
<1>7. UnrefSees' /\ BytesKept' /\ ReadsInside'
  BY <1>0 DEF Users, UnrefSees, BytesKept, ReadsInside, OpenLoad, ScratchTypeOK
<1> QED
  BY <1>1, <1>3, <1>4, <1>5, <1>6, <1>7 DEF Users

\* Open takes a reference, or ends without one.
LEMMA OpenSwapKeeps == ASSUME SInv, NEW x \in Readers, OpenSwap(x) PROVE SInv'
<1> USE DEF SInv, dropVars, OpenRefused
<1>0. rpc \in [Readers -> ReaderPCs] /\ rpc[x] = "swap"
  BY DEF OpenSwap, ScratchTypeOK, ReaderPCs
<1>1. CASE (rpc' = [rpc EXCEPT ![x] = "refused"] \/ rpc' = [rpc EXCEPT ![x] = "panicked"])
             /\ UNCHANGED <<word, rword>>
  <2>1. ScratchTypeOK'
    BY <1>1 DEF ScratchTypeOK, OpenSwap
  <2>2. Counted' = Counted
    BY <1>0, <1>1 DEF Counted
  <2>3. RefsAre'
    BY <1>1, <2>2 DEF RefsAre, Own
  <2>4. Owners'
    BY <1>1 DEF Owners, PoolOwns, MakerOwns, ReferencesOwn, RecyclerOwns, NoRecycler, Dead,
           OpenSwap, ScratchTypeOK
  <2>5. Users'
    BY <1>1, <2>2 DEF Users, HandlesKnown, CountedCurrent, UnrefSees, BytesKept, ReadsInside,
           OpenSwap, ScratchTypeOK
  <2> QED
    BY <2>1, <2>3, <2>4, <2>5
<1>2. CASE rword' = [rword EXCEPT ![x] = word] /\ UNCHANGED <<word, rpc>>
  <2>1. ScratchTypeOK'
    BY <1>2 DEF ScratchTypeOK, OpenSwap
  <2>2. Counted' = Counted
    BY <1>2 DEF Counted
  <2>3. RefsAre'
    BY <1>2, <2>2 DEF RefsAre, Own
  <2>4. Owners'
    BY <1>2 DEF Owners, PoolOwns, MakerOwns, ReferencesOwn, RecyclerOwns, NoRecycler, Dead, OpenSwap
  <2>5. Users'
    BY <1>0, <1>2, <2>2 DEF Users, HandlesKnown, CountedCurrent, UnrefSees, BytesKept, ReadsInside,
           OpenSwap, ScratchTypeOK
  <2> QED
    BY <2>1, <2>3, <2>4, <2>5
<1>3. CASE /\ ~OpenRefused(rword[x], rgen[x]) /\ rword[x].refs # MaxRefs /\ word = rword[x]
           /\ word' = [word EXCEPT !.refs = @ + 1]
           /\ rpc' = [rpc EXCEPT ![x] = "opened"] /\ UNCHANGED rword
  <2>0. /\ word' = [gen |-> word.gen, rel |-> word.rel, refs |-> word.refs + 1]
        /\ word.gen = rgen[x] /\ word.refs \in 1..(MaxRefs - 1)
        /\ UNCHANGED <<buf, big, mem, pool, bpc, saved, dpc, dgen, dword, rgen, data, closed, reading>>
    <3>1. word.refs \in 0..MaxRefs /\ word.refs # 0 /\ word.refs # MaxRefs /\ word.gen = rgen[x]
      BY <1>3 DEF ScratchTypeOK, Words
    <3>2. word.refs \in 1..(MaxRefs - 1)
      BY <3>1, ScratchAssumption
    <3>3. word' = [gen |-> word.gen, rel |-> word.rel, refs |-> word.refs + 1]
      BY <1>3 DEF ScratchTypeOK, Words
    <3> QED
      BY <3>1, <3>2, <3>3 DEF OpenSwap
  <2>1. word' \in Words
    BY <2>0, ScratchAssumption DEF ScratchTypeOK, Words
  <2>2. ScratchTypeOK'
    BY <1>3, <2>0, <2>1 DEF ScratchTypeOK
  <2>3. Counted' = Counted \cup {x} /\ Cardinality(Counted') = Cardinality(Counted) + 1
    BY <1>0, <1>3, CountedAdds
  <2>4. word.refs = Cardinality(Counted) + Own /\ Own' = Own /\ Own \in {0, 1}
    BY <2>0 DEF RefsAre, Own
  <2>5. RefsAre'
    BY <2>0, <2>3, <2>4, CountedFinite DEF RefsAre
  <2>6. bpc = "built" /\ pool = 0 /\ NoRecycler
    BY <1>0, <2>0 DEF Users, HandlesKnown, Owners, ReferencesOwn
  <2>7. Owners'
    BY <1>0, <1>3, <2>0, <2>6 DEF Owners, PoolOwns, MakerOwns, ReferencesOwn, RecyclerOwns, NoRecycler,
           Dead, ScratchTypeOK
  <2>8. CountedCurrent'
    BY <2>0, <2>3, <2>6 DEF Users, CountedCurrent
  <2>9. BytesKept' /\ HandlesKnown'
    BY <1>0, <1>3, <2>0, <2>6 DEF Users, BytesKept, HandlesKnown
  <2>10. UnrefSees' /\ ReadsInside'
    BY <1>0, <1>3, <2>0 DEF Users, UnrefSees, ReadsInside
  <2> QED
    BY <2>2, <2>5, <2>7, <2>8, <2>9, <2>10 DEF Users
<1> QED
  BY <1>1, <1>2, <1>3 DEF OpenSwap

\* Open reads the buffer.
LEMMA OpenBufKeeps == ASSUME SInv, NEW x \in Readers, OpenBuf(x) PROVE SInv'
<1> USE DEF SInv, scratchVars, dropVars
<1>1. ScratchTypeOK'
  BY DEF ScratchTypeOK, OpenBuf
<1>2. Counted' = Counted
  BY DEF OpenBuf, Counted, ScratchTypeOK
<1>3. RefsAre'
  BY <1>2 DEF RefsAre, Own, OpenBuf
<1>4. Owners'
  BY DEF Owners, PoolOwns, MakerOwns, ReferencesOwn, RecyclerOwns, NoRecycler, Dead,
         OpenBuf, ScratchTypeOK
<1>5. Users'
  BY <1>2 DEF Users, HandlesKnown, CountedCurrent, UnrefSees, BytesKept, ReadsInside, OpenBuf, ScratchTypeOK
<1> QED
  BY <1>1, <1>3, <1>4, <1>5

\* Read's three steps touch only the reader's lock.
LEMMA ReadKeeps ==
  ASSUME SInv, NEW x \in Readers, ReadLock(x) \/ ReadCheck(x) \/ ReadCopy(x)
  PROVE  SInv'
<1> USE DEF SInv, scratchVars, dropVars
<1>0. UNCHANGED <<scratchVars, bpc, saved, dropVars, rpc, rgen, rword, data, closed>>
  BY DEF ReadLock, ReadCheck, ReadCopy
<1>1. reading' \in [Readers -> {"off", "locked", "copying"}]
  BY DEF ScratchTypeOK, ReadLock, ReadCheck, ReadCopy
<1>2. ScratchTypeOK'
  BY <1>0, <1>1 DEF ScratchTypeOK
<1>3. Counted' = Counted
  BY <1>0 DEF Counted
<1>4. RefsAre'
  BY <1>0, <1>3 DEF RefsAre, Own
<1>5. Owners'
  BY <1>0 DEF Owners, PoolOwns, MakerOwns, ReferencesOwn, RecyclerOwns, NoRecycler, Dead
<1>6. HandlesKnown' /\ CountedCurrent' /\ UnrefSees' /\ BytesKept'
  BY <1>0, <1>3 DEF Users, HandlesKnown, CountedCurrent, UnrefSees, BytesKept
<1>7. ReadsInside'
  BY <1>0 DEF Users, ReadsInside, ReadLock, ReadCheck, ReadCopy, ScratchTypeOK
<1> QED
  BY <1>2, <1>4, <1>5, <1>6, <1>7 DEF Users

\* Close takes the flag.
LEMMA CloseFlagKeeps == ASSUME SInv, NEW x \in Readers, CloseFlag(x) PROVE SInv'
<1> USE DEF SInv, scratchVars, dropVars
<1>1. ScratchTypeOK'
  BY DEF ScratchTypeOK, CloseFlag
<1>2. Counted' = Counted
  BY DEF CloseFlag, Counted, ScratchTypeOK
<1>3. RefsAre'
  BY <1>2 DEF RefsAre, Own, CloseFlag
<1>4. Owners'
  BY DEF Owners, PoolOwns, MakerOwns, ReferencesOwn, RecyclerOwns, NoRecycler, Dead,
         CloseFlag, ScratchTypeOK
<1>5. Users'
  BY <1>2 DEF Users, HandlesKnown, CountedCurrent, UnrefSees, BytesKept, ReadsInside, CloseFlag, ScratchTypeOK
<1> QED
  BY <1>1, <1>3, <1>4, <1>5

\* Close waits for Read, and unref looks at the word.
LEMMA CloseWaitKeeps == ASSUME SInv, NEW x \in Readers, CloseWait(x) PROVE SInv'
<1> USE DEF SInv, scratchVars, dropVars
<1>1. ScratchTypeOK'
  BY ScratchAssumption DEF ScratchTypeOK, CloseWait, Gens
<1>2. Counted' = Counted /\ x \in Counted
  BY DEF CloseWait, Counted, ScratchTypeOK
<1>3. RefsAre'
  BY <1>2 DEF RefsAre, Own, CloseWait
<1>4. Owners'
  BY DEF Owners, PoolOwns, MakerOwns, ReferencesOwn, RecyclerOwns, NoRecycler, Dead,
         CloseWait, ScratchTypeOK
<1>5. word.refs > 0 /\ word.gen = rgen[x]
  BY <1>2, CountedRefs DEF Users, CountedCurrent
<1>6. UnrefSees'
  BY <1>5 DEF Users, UnrefSees, CloseWait, ScratchTypeOK
<1>7. HandlesKnown' /\ CountedCurrent' /\ BytesKept' /\ ReadsInside'
  BY <1>2 DEF Users, HandlesKnown, CountedCurrent, BytesKept, ReadsInside, CloseWait, ScratchTypeOK
<1> QED
  BY <1>1, <1>3, <1>4, <1>6, <1>7 DEF Users

\* unref drops the reader's reference; it never panics.
LEMMA UnrefKeeps == ASSUME SInv, NEW x \in Readers, Unref(x) PROVE SInv'
<1> USE DEF SInv, dropVars, UnrefBroken, LastRef
<1>0. /\ rpc \in [Readers -> ReaderPCs] /\ rpc[x] = "unref"
      /\ rword[x].gen = rgen[x] /\ rword[x].refs # 0
      /\ UNCHANGED <<buf, big, mem, pool, bpc, saved, dpc, dgen, dword, rgen, data, closed, reading>>
  BY DEF Unref, ScratchTypeOK, Users, UnrefSees, ReaderPCs
<1>1. CASE rword' = [rword EXCEPT ![x] = word] /\ UNCHANGED <<word, rpc>>
  <2>1. ScratchTypeOK'
    BY <1>0, <1>1 DEF ScratchTypeOK
  <2>2. Counted' = Counted /\ x \in Counted
    BY <1>0, <1>1 DEF Counted
  <2>3. RefsAre'
    BY <1>1, <2>2 DEF RefsAre, Own
  <2>4. Owners'
    BY <1>0, <1>1 DEF Owners, PoolOwns, MakerOwns, ReferencesOwn, RecyclerOwns, NoRecycler, Dead
  <2>5. word.refs > 0 /\ word.gen = rgen[x]
    BY <2>2, CountedRefs DEF Users, CountedCurrent
  <2>6. UnrefSees'
    BY <1>0, <1>1, <2>5 DEF Users, UnrefSees, ScratchTypeOK
  <2>7. HandlesKnown' /\ CountedCurrent' /\ BytesKept' /\ ReadsInside'
    BY <1>0, <1>1, <2>2 DEF Users, HandlesKnown, CountedCurrent, BytesKept, ReadsInside
  <2> QED
    BY <2>1, <2>3, <2>4, <2>6, <2>7 DEF Users
<1>2. CASE /\ word = rword[x] /\ word' = [word EXCEPT !.refs = @ - 1]
           /\ rpc' = [rpc EXCEPT ![x] = IF word.refs = 1 THEN "recycle" ELSE "done"]
           /\ UNCHANGED rword
  <2>0. PICK l \in {"recycle", "done"} :
          /\ l = IF word.refs = 1 THEN "recycle" ELSE "done"
          /\ rpc' = [rpc EXCEPT ![x] = l]
    BY <1>2
  <2>1. /\ Counted' = Counted \ {x} /\ x \in Counted
        /\ Cardinality(Counted') = Cardinality(Counted) - 1
    BY <1>0, <2>0, CountedRemoves
  <2>2. word.refs \in 1..MaxRefs /\ bpc = "built" /\ pool = 0 /\ NoRecycler
    BY <2>1, CountedRefs, ScratchAssumption
       DEF Users, CountedCurrent, Owners, ReferencesOwn, ScratchTypeOK, Words
  <2>3. word' = [gen |-> word.gen, rel |-> word.rel, refs |-> word.refs - 1]
    BY <1>2 DEF ScratchTypeOK, Words
  <2>4. word' \in Words
    BY <2>2, <2>3, ScratchAssumption DEF ScratchTypeOK, Words
  <2>5. ScratchTypeOK'
    BY <1>0, <1>2, <2>0, <2>4 DEF ScratchTypeOK
  <2>6. word.refs = Cardinality(Counted) + Own /\ Own' = Own /\ Own \in {0, 1}
    BY <2>3 DEF RefsAre, Own
  <2>7. RefsAre'
    BY <2>1, <2>3, <2>6, CountedFinite DEF RefsAre
  <2>8. l = "recycle" => Dead'
    <3>1. Cardinality(Counted) \in Nat /\ Cardinality(Counted) # 0
      BY <2>1, CountedFinite, FS_EmptySet
    <3>2. word.refs = 1 => Own = 0
      BY <2>6, <3>1
    <3> QED
      BY <2>0, <2>3, <3>2 DEF Dead, Own
  <2>9. Owners'
    <3>1. PoolOwns' /\ MakerOwns'
      BY <1>0, <2>2, <2>3 DEF PoolOwns, MakerOwns, Owners
    <3>2. ReferencesOwn'
      BY <1>0, <2>0, <2>2, <2>3 DEF ReferencesOwn, NoRecycler
    <3>3. RecyclerOwns'
      BY <1>0, <2>0, <2>2, <2>8 DEF RecyclerOwns, NoRecycler
    <3> QED
      BY <3>1, <3>2, <3>3 DEF Owners
  <2>10. CountedCurrent'
    BY <1>0, <2>1, <2>3 DEF Users, CountedCurrent
  <2>11. HandlesKnown' /\ UnrefSees' /\ ReadsInside'
    BY <1>0, <1>2, <2>0, <2>3 DEF Users, HandlesKnown, UnrefSees, ReadsInside
  <2>12. BytesKept'
    BY <1>0, <2>0, <2>2, <2>3 DEF Users, BytesKept
  <2> QED
    BY <2>5, <2>7, <2>9, <2>10, <2>11, <2>12 DEF Users
<1> QED
  BY <1>0, <1>1, <1>2 DEF Unref

\* unref's recycle.
LEMMA UnrefRecycleKeeps == ASSUME SInv, NEW x \in Readers, UnrefRecycle(x) PROVE SInv'
<1> USE DEF SInv, dropVars
<1>0. Recycle /\ ~NoRecycler
  BY DEF UnrefRecycle, NoRecycler
<1>1. ScratchTypeOK'
  <2>1. buf' \in Gens /\ pool' \in Nat
    BY <1>0, ScratchAssumption DEF Recycle, ScratchTypeOK, Gens
  <2>2. big' = FALSE
    BY <1>0 DEF Recycle
  <2> QED
    BY <2>1, <2>2 DEF ScratchTypeOK, UnrefRecycle
<1>2. NoRecycler'
  BY DEF Owners, RecyclerOwns, NoRecycler, UnrefRecycle, ScratchTypeOK
<1>3. Counted' = Counted
  BY DEF Counted, UnrefRecycle, ScratchTypeOK
<1>4. HandlesKnown' /\ UnrefSees' /\ ReadsInside'
  BY DEF Users, HandlesKnown, UnrefSees, ReadsInside, UnrefRecycle, ScratchTypeOK
<1> QED
  BY <1>0, <1>1, <1>2, <1>3, <1>4, RecycleKeeps DEF UnrefRecycle

----------------------------------------------------------------------------

\* Every step keeps the invariant.
LEMMA ScratchInvariantStep == SInv /\ [ScratchNext]_svars => SInv'
<1> SUFFICES ASSUME SInv, [ScratchNext]_svars PROVE SInv'
  OBVIOUS
<1>1. CASE UNCHANGED svars
  <2>1. Counted' = Counted
    BY <1>1 DEF svars, readerVars, Counted
  <2>2. ScratchTypeOK' /\ RefsAre'
    BY <1>1, <2>1 DEF SInv, svars, scratchVars, dropVars, readerVars, ScratchTypeOK, RefsAre, Own
  <2>3. Owners'
    BY <1>1 DEF SInv, svars, scratchVars, dropVars, readerVars, Owners, PoolOwns, MakerOwns,
           ReferencesOwn, RecyclerOwns, NoRecycler, Dead
  <2>4. Users'
    BY <1>1, <2>1 DEF SInv, svars, scratchVars, dropVars, readerVars, Users, HandlesKnown,
           CountedCurrent, UnrefSees, BytesKept, ReadsInside
  <2> QED
    BY <2>2, <2>3, <2>4 DEF SInv
<1>2. CASE NewLoad \/ NewStore \/ Build
  BY <1>2, NewLoadKeeps, NewStoreKeeps, BuildKeeps
<1>3. CASE \E p \in Droppers : ReleaseLoad(p) \/ ReleaseSwap(p) \/ ReleaseRecycle(p)
  BY <1>3, ReleaseLoadKeeps, ReleaseSwapKeeps, ReleaseRecycleKeeps
<1>4. CASE \E x \in Readers :
              \/ OpenLoad(x) \/ OpenSwap(x) \/ OpenBuf(x)
              \/ ReadLock(x) \/ ReadCheck(x) \/ ReadCopy(x)
              \/ CloseFlag(x) \/ CloseWait(x) \/ Unref(x) \/ UnrefRecycle(x)
  BY <1>4, OpenLoadKeeps, OpenSwapKeeps, OpenBufKeeps, ReadKeeps, CloseFlagKeeps,
     CloseWaitKeeps, UnrefKeeps, UnrefRecycleKeeps
<1> QED
  BY <1>1, <1>2, <1>3, <1>4 DEF ScratchNext

\* The invariant holds in every reachable state: the scratch always has
\* exactly one owner.
THEOREM ScratchInvariant == ScratchSpec => []SInv
<1>1. ScratchInit => SInv
  BY SInvInit
<1>2. SInv /\ [ScratchNext]_svars => SInv'
  BY ScratchInvariantStep
<1> QED
  BY <1>1, <1>2, PTL DEF ScratchSpec

\* Every state the scratch reaches is well typed: the count stays between 0
\* and stateRefs.
THEOREM ScratchTypes == ScratchSpec => []ScratchTypeOK
<1>1. SInv => ScratchTypeOK
  BY DEF SInv
<1> QED
  BY <1>1, ScratchInvariant, PTL

\* A Read never shows the bytes of another call's body, for any number of
\* readers, releases and reuses of the scratch.
THEOREM ScratchReadsOwnBody == ScratchSpec => []ReadsOwnBody
<1>1. SInv => ReadsOwnBody
  <2> SUFFICES ASSUME SInv, NEW x \in Readers, reading[x] = "copying"
               PROVE  data[x] # 0 /\ mem[data[x]] = rgen[x]
    BY DEF ReadsOwnBody
  <2>1. rpc[x] \in {"open", "closing"} /\ x \in Counted
    BY DEF SInv, Users, ReadsInside, Counted
  <2>2. word.refs > 0 /\ rgen[x] = word.gen /\ bpc = "built"
    BY <2>1, CountedRefs DEF SInv, Users, CountedCurrent
  <2> QED
    BY <2>1, <2>2 DEF SInv, Users, BytesKept
<1> QED
  BY <1>1, ScratchInvariant, PTL

\* unref never panics: a counted reader's generation is the scratch's.
THEOREM ScratchReadersKeepBody == ScratchSpec => []ReadersKeepBody
<1>1. SInv => ReadersKeepBody
  BY CountedRefs DEF SInv, Users, CountedCurrent, UnrefSees, ReadersKeepBody, Counted
<1> QED
  BY <1>1, ScratchInvariant, PTL

\* The count is exact.
THEOREM ScratchRefsExact == ScratchSpec => []RefsExact
<1>1. SInv => RefsExact
  BY DEF SInv, RefsAre, RefsExact, Own, ScratchTypeOK, Words, Gens
<1> QED
  BY <1>1, ScratchInvariant, PTL

\* The scratch is pooled at most once and only when nobody refers to it.
THEOREM ScratchPooledAlone == ScratchSpec => []PooledAlone
<1>1. SInv => PooledAlone
  BY CountedRefs DEF SInv, Owners, PoolOwns, PooledAlone, NoRecycler, Dead
<1> QED
  BY <1>1, ScratchInvariant, PTL

\* NewBody's plain Store overwrites the word it loaded.
THEOREM ScratchStoreLosesNothing == ScratchSpec => []StoreLosesNothing
<1>1. SInv => StoreLosesNothing
  BY DEF SInv, Owners, MakerOwns, StoreLosesNothing
<1> QED
  BY <1>1, ScratchInvariant, PTL

----------------------------------------------------------------------------
(* The scratch implements LeasedBody.                                      *)

\* The word only advances: to a later generation, or within one to a body
\* that stays released and, once nobody refers to it, unreferenced.
LEMMA WordAdvances ==
  ASSUME SInv, [ScratchNext]_svars
  PROVE  /\ word.gen <= word'.gen
         /\ word'.gen = word.gen => /\ word.refs = 0 => word'.refs = 0
                                    /\ word.rel => word'.rel
<1>0. word.gen \in Nat /\ word.refs \in Nat /\ word \in Words
  BY ScratchAssumption DEF SInv, ScratchTypeOK, Words, Gens
<1>1. CASE UNCHANGED word
  BY <1>0, <1>1
<1>2. CASE NewStore
  <2>1. word'.gen = word.gen + 1
    BY <1>2 DEF NewStore, SInv, Owners, MakerOwns
  <2> QED BY <1>0, <2>1
<1>3. ASSUME NEW p \in Droppers, ReleaseSwap(p), word # word'
      PROVE  word'.gen = word.gen /\ word'.rel /\ word.refs # 0
  <2>1. /\ word' = [word EXCEPT !.rel = TRUE, !.refs = @ - 1]
        /\ ~word.rel /\ word.gen = dgen[p] /\ dpc[p] = "swap"
    BY <1>3 DEF ReleaseSwap, ReleaseVoid
  <2>2. word.gen # 0
    BY <2>1 DEF SInv, Users, HandlesKnown
  <2> QED BY <1>0, <2>1, <2>2, CountedRefs DEF SInv, Words
<1>4. ASSUME NEW x \in Readers, OpenSwap(x) \/ Unref(x), word # word'
      PROVE  word'.gen = word.gen /\ word'.rel = word.rel /\ word.refs # 0
  BY <1>0, <1>4 DEF OpenSwap, OpenRefused, Unref, UnrefBroken, Words
<1>5. CASE ScratchNext
  BY <1>0, <1>1, <1>2, <1>3, <1>4, <1>5
     DEF ScratchNext, NewLoad, Build, ReleaseLoad, ReleaseRecycle, OpenLoad, OpenBuf, ReadLock,
         ReadCheck, ReadCopy, CloseFlag, CloseWait, UnrefRecycle, scratchVars
<1> QED BY <1>1, <1>5 DEF svars, scratchVars

\* A word that Open or Release loaded is a past word of the scratch, at least
\* as late as its handle: what it says of a body that is over stays true.
PastLoads ==
  /\ \A x \in Readers : rpc[x] = "swap" =>
       /\ rgen[x] <= rword[x].gen /\ rword[x].gen <= word.gen
       /\ rword[x].gen = word.gen /\ rword[x].refs = 0 => word.refs = 0
  /\ \A p \in Droppers : dpc[p] = "swap" =>
       /\ dgen[p] <= dword[p].gen /\ dword[p].gen <= word.gen
       /\ dword[p].gen = word.gen /\ dword[p].rel => word.rel

\* Every Open and every Release under way loaded its word earlier or just now.
LEMMA LoadedSteps ==
  ASSUME SInv, [ScratchNext]_svars
  PROVE  /\ \A x \in Readers : rpc'[x] = "swap" =>
              \/ rpc[x] = "swap" /\ rgen'[x] = rgen[x] /\ rword'[x] = rword[x]
              \/ rword'[x] = word /\ word' = word /\ rgen'[x] <= word.gen
         /\ \A p \in Droppers : dpc'[p] = "swap" =>
              \/ dpc[p] = "swap" /\ dgen'[p] = dgen[p] /\ dword'[p] = dword[p]
              \/ dword'[p] = word /\ word' = word /\ dgen'[p] <= word.gen
<1>0. ScratchTypeOK /\ HandlesKnown
  BY DEF SInv, Users
<1>1. CASE UNCHANGED <<rpc, rgen, rword, dpc, dgen, dword>>
  BY <1>1
<1>2. ASSUME NEW p \in Droppers, ReleaseLoad(p) \/ ReleaseSwap(p) \/ ReleaseRecycle(p)
      PROVE  /\ UNCHANGED <<rpc, rgen, rword>>
             /\ \A q \in Droppers : dpc'[q] = "swap" =>
                  \/ dpc[q] = "swap" /\ dgen'[q] = dgen[q] /\ dword'[q] = dword[q]
                  \/ dword'[q] = word /\ word' = word /\ dgen'[q] <= word.gen
  BY <1>0, <1>2 DEF ReleaseLoad, ReleaseSwap, ReleaseRecycle, Handle, ScratchTypeOK, HandlesKnown,
         scratchVars, readerVars
<1>3. ASSUME NEW x \in Readers, OpenLoad(x) \/ OpenSwap(x)
      PROVE  /\ UNCHANGED <<dpc, dgen, dword>>
             /\ \A y \in Readers : rpc'[y] = "swap" =>
                  \/ rpc[y] = "swap" /\ rgen'[y] = rgen[y] /\ rword'[y] = rword[y]
                  \/ rword'[y] = word /\ word' = word /\ rgen'[y] <= word.gen
  BY <1>0, <1>3 DEF OpenLoad, OpenSwap, Handle, ScratchTypeOK, HandlesKnown, scratchVars, dropVars
<1>4. ASSUME NEW x \in Readers, \/ OpenBuf(x) \/ ReadLock(x) \/ ReadCheck(x) \/ ReadCopy(x)
                                \/ CloseFlag(x) \/ CloseWait(x) \/ Unref(x) \/ UnrefRecycle(x)
      PROVE  /\ UNCHANGED <<dpc, dgen, dword>>
             /\ \A y \in Readers : rpc'[y] = "swap" =>
                  rpc[y] = "swap" /\ rgen'[y] = rgen[y] /\ rword'[y] = rword[y]
  BY <1>0, <1>4 DEF OpenBuf, ReadLock, ReadCheck, ReadCopy, CloseFlag, CloseWait, Unref,
         UnrefRecycle, ScratchTypeOK, dropVars
<1>5. CASE ScratchNext
  BY <1>1, <1>2, <1>3, <1>4, <1>5 DEF ScratchNext, NewLoad, NewStore, Build, dropVars, readerVars
<1> QED BY <1>1, <1>5 DEF svars, dropVars, readerVars

LEMMA PastLoadsKept ==
  ASSUME SInv, PastLoads, [ScratchNext]_svars
  PROVE  PastLoads'
<1>0. /\ word.gen \in Nat /\ word'.gen \in Nat
      /\ \A x \in Readers : rgen[x] \in Nat /\ rword[x].gen \in Nat
      /\ \A p \in Droppers : dgen[p] \in Nat /\ dword[p].gen \in Nat
  <2>1. ScratchTypeOK /\ word' \in Words
    BY ScratchInvariantStep DEF SInv, ScratchTypeOK
  <2> QED BY <2>1, ScratchAssumption DEF ScratchTypeOK, Words, Gens
<1>1. ASSUME NEW x \in Readers, rpc'[x] = "swap"
      PROVE  /\ rgen'[x] <= rword'[x].gen /\ rword'[x].gen <= word'.gen
             /\ rword'[x].gen = word'.gen /\ rword'[x].refs = 0 => word'.refs = 0
  BY <1>0, <1>1, WordAdvances, LoadedSteps DEF PastLoads
<1>2. ASSUME NEW p \in Droppers, dpc'[p] = "swap"
      PROVE  /\ dgen'[p] <= dword'[p].gen /\ dword'[p].gen <= word'.gen
             /\ dword'[p].gen = word'.gen /\ dword'[p].rel => word'.rel
  BY <1>0, <1>2, WordAdvances, LoadedSteps DEF PastLoads
<1> QED BY <1>1, <1>2 DEF PastLoads

\* The body is in use exactly while it is referred to, and a leased one is
\* outside the pool, filled.
LEMMA UseIsReference ==
  ASSUME SInv
  PROVE  /\ Lease!InUse <=> word.refs # 0
         /\ \A x \in Readers : LeaseOf[x] # 0 <=> x \in Counted
         /\ \A x \in Counted : LeaseOf[x] = word.gen /\ word.gen > 0
         /\ word.refs # 0 /\ bpc = "built" => Home = "out"
<1>1. /\ word.refs \in Nat /\ word.gen \in Nat
      /\ \A x \in Counted : x \in Readers /\ rgen[x] = word.gen /\ word.gen > 0
  BY ScratchAssumption DEF SInv, ScratchTypeOK, Words, Gens, Users, CountedCurrent, Owners, MakerOwns, Counted
<1>2. \A x \in Readers : LeaseOf[x] = IF x \in Counted THEN rgen[x] ELSE 0
  BY DEF LeaseOf
<1>3. \A x \in Readers : LeaseOf[x] # 0 <=> x \in Counted
  BY <1>1, <1>2
<1>4. InCall => word.refs # 0
  BY <1>1, CountedRefs DEF SInv, InCall
<1>5. word.refs # 0 => InCall \/ Counted # {}
  BY <1>1, FS_EmptySet DEF SInv, RefsAre, Own, InCall
<1>6. Lease!InUse <=> word.refs # 0
  BY <1>1, <1>3, <1>4, <1>5, CountedRefs DEF SInv, Lease!InUse
<1>7. word.refs # 0 /\ bpc = "built" => Home = "out"
  BY <1>1 DEF SInv, Owners, ReferencesOwn, Home
<1> QED BY <1>1, <1>2, <1>3, <1>6, <1>7

\* What the readers and the releasing goroutines see is kept.
ReadersAsWere == OpensOf' = OpensOf /\ LeaseOf' = LeaseOf /\ ShownTo' = ShownTo

LEMMA ReadersAsWereIf ==
  ASSUME UNCHANGED <<rpc, rgen, data, reading>>, UNCHANGED mem \/ \A x \in Readers : reading[x] # "copying"
  PROVE  ReadersAsWere
<1>1. Counted' = Counted
  BY DEF Counted
<1>2. OpensOf' = OpensOf /\ LeaseOf' = LeaseOf
  BY <1>1 DEF OpensOf, LeaseOf
<1>3. \A x \in Readers : ShownTo'[x] = ShownTo[x]
  BY DEF ShownTo
<1>4. ShownTo' = ShownTo
  BY <1>3 DEF ShownTo
<1> QED BY <1>2, <1>4 DEF ReadersAsWere

\* NewBody and the encoder take the memory, begin the next body and fill it.
LEMMA MakerLeases ==
  ASSUME SInv, NewLoad \/ NewStore \/ Build
  PROVE  Lease!Take \/ Lease!Begin \/ Lease!Fill
<1>0. pool \in {0, 1} /\ word.gen \in Nat
  BY ScratchAssumption DEF SInv, Owners, PoolOwns, ScratchTypeOK, Words, Gens
<1>1. UNCHANGED <<rpc, rgen, data, reading, dpc, dgen>>
  BY DEF NewLoad, NewStore, Build, dropVars, readerVars
<1>2. UNCHANGED mem \/ \A x \in Readers : reading[x] # "copying"
  BY DEF NewLoad, NewStore, Build, SInv, Users, CountedCurrent, ReadsInside, Counted
<1>3. ReadersAsWere
  BY <1>1, <1>2, ReadersAsWereIf
<1>4. ReleasesOf' = ReleasesOf
  BY <1>1 DEF ReleasesOf
<1>5. CASE NewLoad
  <2>1. Home = "pool" /\ Home' = "making" /\ UNCHANGED word
    BY <1>0, <1>5 DEF NewLoad, Home
  <2>2. InCall' = InCall
    BY <2>1 DEF InCall
  <2> QED BY <1>3, <1>4, <2>1, <2>2 DEF Lease!Take, ReadersAsWere
<1>6. CASE NewStore
  <2>1. word.refs = 0 /\ word'.gen = word.gen + 1 /\ ~word'.rel
    BY <1>6 DEF NewStore, SInv, Owners, MakerOwns, Dead
  <2>2. Home = "making" /\ Home' = "making"
    BY <1>6 DEF NewStore, Home, SInv, Owners, MakerOwns
  <2>3. InCall' = TRUE
    BY <1>0, <2>1 DEF InCall
  <2>4. ~Lease!InUse
    BY <2>1, UseIsReference
  <2> QED BY <1>3, <1>4, <2>1, <2>2, <2>3, <2>4 DEF Lease!Begin, ReadersAsWere
<1>7. CASE Build
  <2>1. pool = 0 /\ word.gen > 0 /\ ~word.rel /\ UNCHANGED <<word, pool>>
    BY <1>7 DEF Build, SInv, Owners, MakerOwns, ReferencesOwn
  <2>2. Home = "making" /\ Home' = "out"
    BY <1>7, <2>1 DEF Build, Home
  <2>3. InCall /\ InCall' = InCall
    BY <2>1 DEF InCall
  <2> QED BY <1>3, <1>4, <2>1, <2>2, <2>3 DEF Lease!Fill, ReadersAsWere
<1> QED BY <1>5, <1>6, <1>7

\* Recycling frees the memory.
LEMMA RecycleFrees ==
  ASSUME SInv, ~NoRecycler, Recycle, UNCHANGED <<word, bpc>>, ReadersAsWere, ReleasesOf' = ReleasesOf
  PROVE  Lease!Free
<1>1. pool = 0 /\ bpc = "built" /\ word.refs = 0 /\ pool' = 1
  BY DEF SInv, Owners, RecyclerOwns, Dead, Recycle
<1>2. Home = "out" /\ Home' = "pool"
  BY <1>1 DEF Home
<1>3. InCall' = InCall
  BY DEF InCall
<1>4. ~Lease!InUse
  BY <1>1, UseIsReference
<1> QED BY <1>2, <1>3, <1>4 DEF Lease!Free, ReadersAsWere

\* Release asks, gives the call's reference back at its swap, or is void.
LEMMA ReleaseLeases ==
  ASSUME SInv, PastLoads, NEW p \in Droppers, ReleaseLoad(p) \/ ReleaseSwap(p) \/ ReleaseRecycle(p)
  PROVE  \/ Lease!Drop(p) \/ Lease!Dropped(p) \/ Lease!DropVoid(p) \/ Lease!Free
         \/ UNCHANGED Lease!leaseVars
<1>0. /\ word \in Words /\ word.gen \in Nat
      /\ dpc \in [Droppers -> {"idle", "swap", "recycle"}] /\ dgen \in [Droppers -> Gens]
  BY ScratchAssumption DEF SInv, ScratchTypeOK, Words, Gens
<1>1. ReadersAsWere /\ UNCHANGED <<bpc>>
  <2>1. UNCHANGED <<rpc, rgen, data, reading, mem, bpc>>
    BY DEF ReleaseLoad, ReleaseSwap, ReleaseRecycle, scratchVars, readerVars
  <2> QED BY <2>1, ReadersAsWereIf
<1>2. CASE ReleaseLoad(p)
  <2>1. PICK g \in 1..word.gen : dgen' = [dgen EXCEPT ![p] = g]
    BY <1>2 DEF ReleaseLoad, Handle
  <2>2. ReleasesOf[p] = 0 /\ ReleasesOf' = [ReleasesOf EXCEPT ![p] = g]
    BY <1>0, <1>2, <2>1 DEF ReleaseLoad, ReleasesOf
  <2>3. UNCHANGED <<word, pool>> /\ Home' = Home /\ InCall' = InCall
    BY <1>1, <1>2 DEF ReleaseLoad, scratchVars, Home, InCall
  <2> QED BY <1>1, <2>2, <2>3 DEF Lease!Drop, ReadersAsWere
<1>3. ASSUME ReleaseSwap(p), dword[p].gen # dgen[p] \/ dword[p].rel
      PROVE  Lease!DropVoid(p)
  <2>1. dpc' = [dpc EXCEPT ![p] = "idle"] /\ UNCHANGED <<word, dgen, pool>> /\ dpc[p] = "swap"
    BY <1>3 DEF ReleaseSwap, ReleaseVoid
  <2>2. ReleasesOf[p] = dgen[p] /\ ReleasesOf' = [ReleasesOf EXCEPT ![p] = 0]
    BY <1>0, <2>1 DEF ReleasesOf
  <2>3. Home' = Home /\ InCall' = InCall
    BY <1>1, <2>1 DEF Home, InCall
  <2>4. dgen[p] # 0 /\ (dgen[p] # word.gen \/ ~InCall)
    <3>1. dgen[p] \in 1..word.gen /\ dword[p].gen \in Nat
      BY <2>1, ScratchAssumption DEF SInv, Users, HandlesKnown, ScratchTypeOK, Words, Gens
    <3>2. /\ dgen[p] <= dword[p].gen /\ dword[p].gen <= word.gen
          /\ dword[p].gen = word.gen /\ dword[p].rel => word.rel
      BY <2>1 DEF PastLoads
    <3> QED BY <1>0, <1>3, <3>1, <3>2 DEF InCall
  <2> QED BY <1>1, <2>1, <2>2, <2>3, <2>4 DEF Lease!DropVoid, ReadersAsWere
<1>4. ASSUME ReleaseSwap(p), dword[p].gen = dgen[p], ~dword[p].rel, word # dword[p]
      PROVE  UNCHANGED Lease!leaseVars
  <2>1. UNCHANGED <<word, dpc, dgen, pool>>
    BY <1>4 DEF ReleaseSwap, ReleaseVoid
  <2>2. Home' = Home /\ InCall' = InCall /\ ReleasesOf' = ReleasesOf
    BY <1>1, <2>1 DEF Home, InCall, ReleasesOf
  <2> QED BY <1>1, <2>1, <2>2 DEF Lease!leaseVars, ReadersAsWere
<1>5. ASSUME ReleaseSwap(p), dword[p].gen = dgen[p], ~dword[p].rel, word = dword[p]
      PROVE  Lease!Dropped(p)
  <2>1. /\ word' = [word EXCEPT !.rel = TRUE, !.refs = @ - 1] /\ UNCHANGED <<dgen, pool>>
        /\ dpc' = [dpc EXCEPT ![p] = IF LastRef(word) THEN "recycle" ELSE "idle"] /\ dpc[p] = "swap"
    BY <1>5 DEF ReleaseSwap, ReleaseVoid
  <2>2. word'.gen = word.gen /\ word'.rel
    BY <1>0, <2>1 DEF Words
  <2>3. ReleasesOf[p] = word.gen /\ ReleasesOf' = [ReleasesOf EXCEPT ![p] = 0]
    BY <1>0, <1>5, <2>1 DEF ReleasesOf
  <2>4. word.gen > 0 /\ word.gen = dgen[p] /\ bpc \in {"built", "store"}
    BY <1>5, <2>1 DEF SInv, Users, HandlesKnown
  <2>5. InCall = TRUE /\ InCall' = FALSE
    BY <1>5, <2>2, <2>4 DEF InCall
  <2>6. word.refs # 0
    BY <1>5, <2>4, CountedRefs DEF SInv
  <2>7. pool = 0 /\ bpc = "built"
    BY <2>4, <2>6 DEF SInv, Owners, PoolOwns, MakerOwns, Dead
  <2>8. Home = "out" /\ Home' = "out"
    BY <1>1, <2>1, <2>7 DEF Home
  <2> QED BY <1>1, <2>2, <2>3, <2>5, <2>8 DEF Lease!Dropped, ReadersAsWere
<1>6. CASE ReleaseRecycle(p)
  <2>1. ~NoRecycler /\ Recycle /\ UNCHANGED <<word, bpc>>
    BY <1>6 DEF ReleaseRecycle, NoRecycler
  <2>2. ReleasesOf' = ReleasesOf
    BY <1>0, <1>6 DEF ReleaseRecycle, ReleasesOf
  <2> QED BY <1>1, <2>1, <2>2, RecycleFrees
<1> QED BY <1>2, <1>3, <1>4, <1>5, <1>6

\* A reader's step leaves the memory's place and the releases alone.
LEMMA ReaderStepHome ==
  ASSUME UNCHANGED <<pool, bpc, dpc, dgen>>
  PROVE  /\ Home' = Home /\ ReleasesOf' = ReleasesOf
         /\ word'.gen = word.gen /\ word'.rel = word.rel => InCall' = InCall
  BY DEF Home, ReleasesOf, InCall

\* Open asks, and at its swap leases the body, or is refused because the body
\* is over.
LEMMA OpenLeases ==
  ASSUME SInv, PastLoads, NEW x \in Readers, OpenLoad(x) \/ OpenSwap(x)
  PROVE  Lease!Ask(x) \/ Lease!Grant(x) \/ Lease!Refuse(x) \/ UNCHANGED Lease!leaseVars
<1>0. /\ word \in Words /\ word.gen \in Nat
      /\ rpc \in [Readers -> ReaderPCs] /\ rgen \in [Readers -> Gens]
  BY ScratchAssumption DEF SInv, ScratchTypeOK, Words, Gens, ReaderPCs
<1>1. UNCHANGED <<pool, bpc, dpc, dgen, mem, data, reading>>
  BY DEF OpenLoad, OpenSwap, scratchVars, dropVars
<1>2. Home' = Home /\ ReleasesOf' = ReleasesOf /\ ShownTo' = ShownTo
  BY <1>1, ReaderStepHome DEF ShownTo
<1>3. CASE OpenLoad(x)
  <2>1. PICK g \in 1..word.gen : rgen' = [rgen EXCEPT ![x] = g]
    BY <1>3 DEF OpenLoad, Handle
  <2>2. rpc[x] = "idle" /\ rpc' = [rpc EXCEPT ![x] = "swap"] /\ UNCHANGED word
    BY <1>3 DEF OpenLoad, scratchVars
  <2>3. OpensOf[x] = 0 /\ OpensOf' = [OpensOf EXCEPT ![x] = g]
    BY <1>0, <2>1, <2>2 DEF OpensOf
  <2>4. LeaseOf[x] = 0 /\ LeaseOf' = LeaseOf
    BY <1>0, <2>1, <2>2 DEF LeaseOf, Counted
  <2>5. InCall' = InCall
    BY <2>2 DEF InCall
  <2> QED BY <1>2, <2>2, <2>3, <2>4, <2>5 DEF Lease!Ask
<1>4. ASSUME OpenSwap(x), OpenRefused(rword[x], rgen[x])
      PROVE  Lease!Refuse(x)
  <2>1. rpc[x] = "swap" /\ rpc' = [rpc EXCEPT ![x] = "refused"] /\ UNCHANGED <<word, rgen>>
    BY <1>4 DEF OpenSwap
  <2>2. OpensOf[x] = rgen[x] /\ OpensOf' = [OpensOf EXCEPT ![x] = 0]
    BY <1>0, <2>1 DEF OpensOf
  <2>3. LeaseOf' = LeaseOf
    BY <1>0, <2>1 DEF LeaseOf, Counted
  <2>4. rgen[x] # 0 /\ (rgen[x] # word.gen \/ word.refs = 0)
    <3>1. rgen[x] \in 1..word.gen /\ rword[x].gen \in Nat
      BY <2>1, ScratchAssumption DEF SInv, Users, HandlesKnown, ScratchTypeOK, Words, Gens
    <3>2. /\ rgen[x] <= rword[x].gen /\ rword[x].gen <= word.gen
          /\ rword[x].gen = word.gen /\ rword[x].refs = 0 => word.refs = 0
      BY <2>1 DEF PastLoads
    <3> QED BY <1>0, <1>4, <3>1, <3>2 DEF OpenRefused
  <2>5. InCall' = InCall
    BY <2>1 DEF InCall
  <2> QED BY <1>2, <2>1, <2>2, <2>3, <2>4, <2>5, UseIsReference DEF Lease!Refuse
<1>5. ASSUME OpenSwap(x), UNCHANGED <<word, rgen>>,
             rpc[x] = "swap", rpc' = [rpc EXCEPT ![x] = "panicked"] \/ UNCHANGED rpc
      PROVE  UNCHANGED Lease!leaseVars
  <2>1. OpensOf' = OpensOf
    BY <1>0, <1>5 DEF OpensOf
  <2>2. LeaseOf' = LeaseOf
    BY <1>0, <1>5 DEF LeaseOf, Counted
  <2>3. InCall' = InCall
    BY <1>5 DEF InCall
  <2> QED BY <1>2, <1>5, <2>1, <2>2, <2>3 DEF Lease!leaseVars
<1>6. ASSUME OpenSwap(x), ~OpenRefused(rword[x], rgen[x]), word = rword[x],
             word' = [word EXCEPT !.refs = @ + 1], rpc' = [rpc EXCEPT ![x] = "opened"]
      PROVE  Lease!Grant(x)
  <2>1. rpc[x] = "swap" /\ UNCHANGED rgen /\ rgen[x] = word.gen /\ word.refs # 0
    BY <1>6 DEF OpenSwap, OpenRefused
  <2>2. word'.gen = word.gen /\ word'.rel = word.rel
    BY <1>0, <1>6 DEF Words
  <2>3. OpensOf[x] = word.gen /\ OpensOf' = [OpensOf EXCEPT ![x] = 0]
    BY <1>0, <1>6, <2>1 DEF OpensOf
  <2>4. LeaseOf' = [LeaseOf EXCEPT ![x] = word.gen]
    BY <1>0, <1>6, <2>1 DEF LeaseOf, Counted
  <2>5. Home = "out"
    <3>1. bpc = "built"
      BY <2>1 DEF SInv, Users, HandlesKnown, Owners, MakerOwns, Dead
    <3> QED BY <2>1, <3>1, UseIsReference
  <2>6. InCall' = InCall
    BY <2>2 DEF InCall
  <2> QED BY <1>2, <2>1, <2>2, <2>3, <2>4, <2>5, <2>6, UseIsReference DEF Lease!Grant
<1> QED BY <1>3, <1>4, <1>5, <1>6 DEF OpenSwap

\* A Read that copies shows the body its reader leased.
LEMMA CopyingShows ==
  ASSUME SInv, NEW x \in Readers, rpc[x] \in {"open", "closing"}
  PROVE  data[x] # 0 /\ mem[data[x]] = LeaseOf[x] /\ LeaseOf[x] # 0
<1>1. x \in Counted
  BY DEF Counted
<1>2. word.refs > 0 /\ bpc = "built" /\ LeaseOf[x] = word.gen /\ LeaseOf[x] # 0
  BY <1>1, CountedRefs, UseIsReference DEF SInv, Users, CountedCurrent
<1> QED BY <1>2 DEF SInv, Users, BytesKept

\* Read shows the body and looks away.
LEMMA ReadLeases ==
  ASSUME SInv, NEW x \in Readers, ReadLock(x) \/ ReadCheck(x) \/ ReadCopy(x)
  PROVE  Lease!See(x) \/ Lease!LookAway(x) \/ UNCHANGED Lease!leaseVars
<1>0. reading \in [Readers -> {"off", "locked", "copying"}]
  BY DEF SInv, ScratchTypeOK
<1>1. UNCHANGED <<word, pool, bpc, dpc, dgen, mem, data, rpc, rgen>>
  BY DEF ReadLock, ReadCheck, ReadCopy, scratchVars, dropVars
<1>2. /\ Home' = Home /\ ReleasesOf' = ReleasesOf /\ InCall' = InCall
      /\ OpensOf' = OpensOf /\ LeaseOf' = LeaseOf
  BY <1>1, ReaderStepHome DEF OpensOf, LeaseOf, Counted
<1>3. CASE reading'[x] # "copying" /\ reading[x] # "copying"
  <2>1. \A y \in Readers : ShownTo'[y] = ShownTo[y]
    BY <1>0, <1>1, <1>3 DEF ShownTo, ReadLock, ReadCheck, ReadCopy
  <2>2. ShownTo' = ShownTo
    BY <2>1 DEF ShownTo
  <2> QED BY <1>1, <1>2, <2>2 DEF Lease!leaseVars
<1>4. CASE ReadCheck(x) /\ reading'[x] = "copying"
  <2>1. reading[x] = "locked" /\ reading' = [reading EXCEPT ![x] = "copying"] /\ ~closed[x]
    BY <1>0, <1>4 DEF ReadCheck
  <2>2. rpc[x] = "open"
    BY <2>1 DEF SInv, Users, ReadsInside
  <2>3. data[x] # 0 /\ mem[data[x]] = LeaseOf[x] /\ LeaseOf[x] # 0
    BY <2>2, CopyingShows
  <2>4. ShownTo[x] = 0 /\ ShownTo' = [ShownTo EXCEPT ![x] = LeaseOf[x]]
    BY <1>0, <1>1, <2>1, <2>3 DEF ShownTo
  <2> QED BY <1>1, <1>2, <2>3, <2>4 DEF Lease!See
<1>5. CASE ReadCopy(x)
  <2>1. reading[x] = "copying" /\ reading' = [reading EXCEPT ![x] = "off"]
    BY <1>5 DEF ReadCopy
  <2>2. rpc[x] \in {"open", "closing"}
    BY <2>1 DEF SInv, Users, ReadsInside
  <2>3. data[x] # 0 /\ mem[data[x]] # 0
    BY <2>2, CopyingShows
  <2>4. ShownTo[x] # 0 /\ ShownTo' = [ShownTo EXCEPT ![x] = 0]
    BY <1>0, <1>1, <2>1, <2>3 DEF ShownTo
  <2> QED BY <1>1, <1>2, <2>4 DEF Lease!LookAway
<1> QED BY <1>0, <1>3, <1>4, <1>5 DEF ReadLock, ReadCheck

\* Close and unref: the reader gives its body back, and may free the memory.
LEMMA CloseLeases ==
  ASSUME SInv, NEW x \in Readers,
         OpenBuf(x) \/ CloseFlag(x) \/ CloseWait(x) \/ Unref(x) \/ UnrefRecycle(x)
  PROVE  Lease!Return(x) \/ Lease!Free \/ UNCHANGED Lease!leaseVars
<1>0. /\ word \in Words /\ rpc \in [Readers -> ReaderPCs] /\ data \in [Readers -> Gens]
      /\ reading[x] = "copying" => rpc[x] \in {"open", "closing"}
  BY DEF SInv, ScratchTypeOK, ReaderPCs, Users, ReadsInside
<1>1. UNCHANGED <<bpc, dpc, dgen, mem, rgen, reading>>
  BY DEF OpenBuf, CloseFlag, CloseWait, Unref, UnrefRecycle, scratchVars, dropVars
<1>2. ShownTo' = ShownTo
  <2>1. \A y \in Readers : reading[y] = "copying" => data'[y] = data[y]
    BY <1>0, <1>1 DEF OpenBuf, CloseFlag, CloseWait, Unref, UnrefRecycle
  <2>2. \A y \in Readers : ShownTo'[y] = ShownTo[y]
    BY <1>1, <2>1 DEF ShownTo
  <2> QED BY <2>2 DEF ShownTo
<1>3. CASE OpenBuf(x) \/ CloseFlag(x) \/ CloseWait(x)
  <2>1. OpensOf' = OpensOf
    BY <1>0, <1>1, <1>3 DEF OpenBuf, CloseFlag, CloseWait, OpensOf
  <2>2. LeaseOf' = LeaseOf
    <3>1. Counted' = Counted
      BY <1>0, <1>3 DEF OpenBuf, CloseFlag, CloseWait, Counted
    <3> QED BY <1>1, <3>1 DEF LeaseOf
  <2>3. UNCHANGED <<word, pool>>
    BY <1>3 DEF OpenBuf, CloseFlag, CloseWait, scratchVars
  <2> QED BY <1>1, <1>2, <2>1, <2>2, <2>3, ReaderStepHome DEF Lease!leaseVars
<1>4. CASE Unref(x)
  <2>1. rpc[x] = "unref" /\ UNCHANGED pool /\ rword[x].gen = rgen[x] /\ rword[x].refs # 0
    BY <1>4 DEF Unref, SInv, Users, UnrefSees
  <2>2. CASE UNCHANGED <<word, rpc>>
    <3>1. OpensOf' = OpensOf /\ LeaseOf' = LeaseOf
      BY <1>1, <2>2 DEF OpensOf, LeaseOf, Counted
    <3> QED BY <1>1, <1>2, <2>1, <2>2, <3>1, ReaderStepHome DEF Lease!leaseVars
  <2>3. ASSUME word' = [word EXCEPT !.refs = @ - 1],
               rpc' = [rpc EXCEPT ![x] = IF LastRef(word) THEN "recycle" ELSE "done"]
        PROVE  Lease!Return(x)
    <3>1. word'.gen = word.gen /\ word'.rel = word.rel
      BY <1>0, <2>3 DEF Words
    <3>2. OpensOf' = OpensOf
      BY <1>0, <1>1, <2>1, <2>3 DEF OpensOf
    <3>3. LeaseOf' = [LeaseOf EXCEPT ![x] = 0]
      BY <1>0, <1>1, <2>1, <2>3 DEF LeaseOf, Counted
    <3>4. LeaseOf[x] # 0
      BY <2>1, UseIsReference DEF Counted
    <3>5. ShownTo[x] = 0
      BY <1>0, <2>1 DEF ShownTo
    <3> QED BY <1>1, <1>2, <2>1, <3>1, <3>2, <3>3, <3>4, <3>5, ReaderStepHome DEF Lease!Return
  <2> QED BY <1>4, <2>1, <2>2, <2>3 DEF Unref, UnrefBroken
<1>5. CASE UnrefRecycle(x)
  <2>1. ~NoRecycler /\ Recycle /\ UNCHANGED <<word, bpc>>
    BY <1>5 DEF UnrefRecycle, NoRecycler
  <2>2. OpensOf' = OpensOf
    BY <1>0, <1>1, <1>5 DEF UnrefRecycle, OpensOf
  <2>3. LeaseOf' = LeaseOf
    BY <1>0, <1>1, <1>5 DEF UnrefRecycle, LeaseOf, Counted
  <2>4. ReleasesOf' = ReleasesOf
    BY <1>1 DEF ReleasesOf
  <2> QED BY <1>2, <2>1, <2>2, <2>3, <2>4, RecycleFrees DEF ReadersAsWere
<1> QED BY <1>3, <1>4, <1>5

\* Every step of the scratch is one of LeasedBody's or changes none of its state.
LEMMA LeaseStep ==
  ASSUME SInv, PastLoads, [ScratchNext]_svars
  PROVE  [Lease!LeaseNext]_(Lease!leaseVars)
<1>1. CASE UNCHANGED svars
  <2>1. UNCHANGED <<word, pool, bpc, dpc, dgen, mem, data, rpc, rgen, reading>>
    BY <1>1 DEF svars, scratchVars, dropVars, readerVars
  <2> QED BY <2>1, ReadersAsWereIf, ReaderStepHome DEF Lease!leaseVars, ReadersAsWere
<1>2. CASE ScratchNext
  BY <1>2, MakerLeases, ReleaseLeases, OpenLeases, ReadLeases, CloseLeases
     DEF ScratchNext, Lease!LeaseNext
<1> QED BY <1>1, <1>2

\* The scratch implements LeasedBody: Open and Release are atomic though each
\* is a load and a compare-and-swap, a stale handle has no effect, and the
\* memory is reused only when nobody has a body in it.
THEOREM ScratchImplementsLease == ScratchSpec => ImplementsLease
<1>1. ScratchInit => Lease!LeaseInit /\ PastLoads
  <2> SUFFICES ASSUME ScratchInit PROVE Lease!LeaseInit /\ PastLoads
    OBVIOUS
  <2>1. word.gen = 0 /\ InCall = FALSE /\ Home = "pool"
    BY DEF ScratchInit, Fresh, InCall, Home
  <2>2. OpensOf = [x \in Readers |-> 0] /\ ReleasesOf = [p \in Droppers |-> 0]
    BY DEF ScratchInit, OpensOf, ReleasesOf
  <2>3. LeaseOf = [x \in Readers |-> 0] /\ ShownTo = [x \in Readers |-> 0]
    BY DEF ScratchInit, LeaseOf, Counted, ShownTo
  <2>4. PastLoads
    BY DEF ScratchInit, PastLoads
  <2> QED BY <2>1, <2>2, <2>3, <2>4 DEF Lease!LeaseInit
<1>2. SInv /\ PastLoads /\ [ScratchNext]_svars => PastLoads' /\ [Lease!LeaseNext]_(Lease!leaseVars)
  BY PastLoadsKept, LeaseStep
<1> QED BY <1>1, <1>2, ScratchInvariant, PTL DEF ScratchSpec, ImplementsLease, Lease!LeaseSpec

============================================================================
