-------------------------- MODULE LifecycleProofs --------------------------
(***************************************************************************)
(* The safety properties of Lifecycle, for every number of callers,        *)
(* closers, providers and attempts.                                        *)
(*                                                                         *)
(* The invariant says who may touch the cache: the calls that running      *)
(* counts, one of which may hold cacheMu while its factory works; or, once *)
(* closed is set and running has drained, the one closer that closing      *)
(* names.  While that closer sweeps, owned is what it kept and what it has *)
(* not reached.                                                            *)
(***************************************************************************)
EXTENDS Lifecycle, FiniteSetTheorems, SequenceTheorems, TLAPS

CallerPCs == {"idle", "attempt", "lookup", "build", "use", "served", "failed", "done"}

RunningAre == running = Cardinality(Inside)

\* closing names the closer that cleans up.
OneCleanup ==
  \A k \in Closers : closing = k <=> kpc[k] \in {"drain", "lock", "sweep", "finish"}

\* cacheMu names the call that builds or the closer that sweeps.
LockHeld ==
  /\ \A c \in Callers : cacheMu = c <=> cpc[c] = "build"
  /\ \A k \in Closers : cacheMu = k <=> kpc[k] = "sweep"

\* A provider that is built is not owned yet; one in use is.
KeysKnown ==
  \A c \in Callers :
    /\ cpc[c] = "build" => key[c] \in Keys \ owned
    /\ cpc[c] = "use" => key[c] \in owned

\* The Adapter is closed to calls, and none runs.
Quiet == closed /\ running = 0

Drained ==
  \A k \in Closers :
    /\ kpc[k] \in {"join", "drain"} => closed
    /\ kpc[k] \in {"lock", "sweep", "finish", "wake", "done"} => Quiet

Listed == Elements(order) = owned /\ Injective(order)

\* The positions of order that a sweep has reached.
Reached == {order[n] : n \in 1 .. i - 1}
Unreached == {order[n] : n \in i .. Len(order)}

SweepAt ==
  /\ i \in 1 .. Len(order) + 1 /\ Injective(order)
  /\ Injective(kept) /\ Elements(kept) \subseteq Reached
  /\ owned = Elements(kept) \cup Unreached
  /\ first = "nil" => kept = <<>>

CacheOK == IF cacheMu \in Closers THEN SweepAt ELSE Listed

\* A provider whose Close succeeded is not owned, and no call can build it again.
SweptOnce == \A p \in Keys : swept[p] # 0 => swept[p] = 1 /\ p \notin owned /\ Quiet

\* What a Close returns: cleanup.err has its first value until the sweep ends.
Returned ==
  \A k \in Closers :
    /\ kpc[k] = "join" => joined[k] \in Closers
    /\ cdone[k] => kpc[k] = "done"
    /\ kpc[k] \notin {"finish", "wake", "done"} => cerr[k] = "panicked"
    /\ kpc[k] \in {"finish", "wake", "done"} /\ cerr[k] = "nil" => owned = {}

LInv ==
  /\ LifeTypeOK /\ RunningAre /\ OneCleanup /\ LockHeld /\ KeysKnown /\ Drained
  /\ CacheOK /\ SweptOnce /\ Returned

-----------------------------------------------------------------------------
(* Counting the running calls. *)

\* The running calls are finitely many, and running = 0 means there is none.
LEMMA InsideFinite ==
  /\ IsFiniteSet(Inside) /\ Cardinality(Inside) \in Nat
  /\ Cardinality(Inside) = 0 <=> Inside = {}
<1>1. Inside \subseteq Callers
  BY DEF Inside
<1>2. IsFiniteSet(Inside)
  BY <1>1, GoroutinesAssumption, FS_Subset
<1> QED
  BY <1>2, FS_CardinalityType, FS_EmptySet

\* A step inside RoundTrip neither adds nor removes a running call.
LEMMA InsideStays ==
  ASSUME NEW c \in Callers, cpc \in [Callers -> CallerPCs], c \in Inside,
         NEW l \in {"lookup", "build", "use", "served"}, cpc' = [cpc EXCEPT ![c] = l]
  PROVE  Inside' = Inside
BY DEF Inside

\* A step outside RoundTrip does not either.
LEMMA OutsideStays ==
  ASSUME NEW c \in Callers, cpc \in [Callers -> CallerPCs], c \notin Inside,
         NEW l \in {"idle", "attempt", "failed", "done"}, cpc' = [cpc EXCEPT ![c] = l]
  PROVE  Inside' = Inside
BY DEF Inside

\* running.Add(1)
LEMMA InsideAdds ==
  ASSUME NEW c \in Callers, cpc \in [Callers -> CallerPCs], c \notin Inside,
         cpc' = [cpc EXCEPT ![c] = "lookup"]
  PROVE  Cardinality(Inside') = Cardinality(Inside) + 1
<1>1. Inside' = Inside \cup {c}
  BY DEF Inside
<1> QED
  BY <1>1, InsideFinite, FS_AddElement

\* running.Done()
LEMMA InsideRemoves ==
  ASSUME NEW c \in Callers, cpc \in [Callers -> CallerPCs], c \in Inside,
         cpc' = [cpc EXCEPT ![c] = "failed"]
  PROVE  Cardinality(Inside') = Cardinality(Inside) - 1
<1>1. Inside' = Inside \ {c}
  BY DEF Inside
<1> QED
  BY <1>1, InsideFinite, FS_RemoveElement

\* While a call runs, no closer has drained and no provider was closed.
LEMMA CallRuns ==
  ASSUME LInv, NEW c \in Callers, c \in Inside
  PROVE  /\ running > 0 /\ ~Quiet /\ running \in Nat
         /\ \A k \in Closers : kpc[k] \notin {"lock", "sweep", "finish", "wake", "done"}
         /\ \A p \in Keys : swept[p] = 0
         /\ cacheMu \notin Closers
<1>1. running \in Nat /\ running > 0
  BY InsideFinite DEF LInv, RunningAre
<1>2. ~Quiet
  BY <1>1 DEF Quiet
<1> QED
  BY <1>1, <1>2 DEF LInv, Drained, SweptOnce, LockHeld

-----------------------------------------------------------------------------
(* The invariant holds initially, and every step keeps it. *)

\* The invariant holds of a new client.
LEMMA LInvInit == LifeInit => LInv
<1> SUFFICES ASSUME LifeInit PROVE LInv
  OBVIOUS
<1>1. LifeTypeOK
  <2>1. order \in Seq(Keys) /\ kept \in Seq(Keys)
    BY EmptySeq DEF LifeInit
  <2>2. attempts \in [Callers -> 0 .. MaxAttempts]
    BY AttemptsAssumption DEF LifeInit
  <2> QED
    BY <2>1, <2>2 DEF LifeInit, LifeTypeOK
<1>2. RunningAre
  <2>1. Inside = {}
    BY DEF LifeInit, Inside
  <2> QED
    BY <2>1, FS_EmptySet DEF LifeInit, RunningAre
<1>3. OneCleanup /\ LockHeld /\ KeysKnown /\ Drained /\ SweptOnce /\ Returned
  BY ClosersAssumption DEF LifeInit, OneCleanup, LockHeld, KeysKnown, Drained, SweptOnce, Returned
<1>4. CacheOK
  BY ClosersAssumption DEF LifeInit, CacheOK, Listed, Elements, Injective
<1> QED
  BY <1>1, <1>2, <1>3, <1>4 DEF LInv

\* usable
LEMMA UsableKeeps == ASSUME LInv, NEW c \in Callers, Usable(c) PROVE LInv'
<1> USE DEF LInv, adapterVars, cacheVars, callerVars, closerVars, sweepVars
<1>1. LifeTypeOK'
  BY DEF LifeTypeOK, Usable
<1>2. RunningAre'
  BY OutsideStays DEF RunningAre, Usable, LifeTypeOK, CallerPCs, Inside
<1>3. OneCleanup' /\ LockHeld' /\ KeysKnown' /\ Drained' /\ SweptOnce' /\ Returned'
  BY DEF LifeTypeOK, Usable, OneCleanup, LockHeld, KeysKnown, Drained, Quiet, SweptOnce, Returned
<1>4. CacheOK'
  BY DEF Usable, CacheOK, Listed, SweepAt, Reached, Unreached
<1> QED
  BY <1>1, <1>2, <1>3, <1>4

\* RoundTrip checks closed and counts itself.
LEMMA EnterKeeps == ASSUME LInv, NEW c \in Callers, Enter(c) PROVE LInv'
<1> USE DEF LInv, adapterVars, cacheVars, callerVars, closerVars, sweepVars
<1>1. LifeTypeOK'
  <2>1. attempts' \in [Callers -> 0 .. MaxAttempts]
    BY AttemptsAssumption DEF LifeTypeOK, Enter
  <2>2. running' \in Nat
    BY DEF LifeTypeOK, Enter
  <2> QED
    BY <2>1, <2>2 DEF LifeTypeOK, Enter
<1>2. RunningAre'
  <2>1. c \notin Inside /\ cpc \in [Callers -> CallerPCs]
    BY DEF Inside, Enter, LifeTypeOK, CallerPCs
  <2>2. CASE closed
    BY <2>1, <2>2, OutsideStays DEF RunningAre, Enter
  <2>3. CASE ~closed
    BY <2>1, <2>3, InsideAdds DEF RunningAre, Enter
  <2> QED
    BY <2>2, <2>3
<1>3. OneCleanup' /\ LockHeld' /\ KeysKnown' /\ Returned'
  BY DEF LifeTypeOK, Enter, OneCleanup, LockHeld, KeysKnown, Returned
<1>4. Drained' /\ SweptOnce'
  BY DEF LifeTypeOK, Enter, Drained, Quiet, SweptOnce
<1>5. CacheOK'
  BY DEF Enter, CacheOK, Listed, SweepAt, Reached, Unreached
<1> QED
  BY <1>1, <1>2, <1>3, <1>4, <1>5

\* A request that needs no owned provider.
LEMMA ServeBorrowedKeeps == ASSUME LInv, NEW c \in Callers, ServeBorrowed(c) PROVE LInv'
<1> USE DEF LInv, adapterVars, cacheVars, callerVars, closerVars, sweepVars
<1>1. LifeTypeOK'
  BY DEF LifeTypeOK, ServeBorrowed
<1>2. RunningAre'
  BY InsideStays DEF RunningAre, ServeBorrowed, LifeTypeOK, CallerPCs, Inside
<1>3. OneCleanup' /\ LockHeld' /\ KeysKnown' /\ Drained' /\ SweptOnce' /\ Returned'
  BY DEF LifeTypeOK, ServeBorrowed, OneCleanup, LockHeld, KeysKnown, Drained, Quiet, SweptOnce, Returned
<1>4. CacheOK'
  BY DEF ServeBorrowed, CacheOK, Listed, SweepAt, Reached, Unreached
<1> QED
  BY <1>1, <1>2, <1>3, <1>4

\* provider finds the provider, or takes cacheMu and starts its factory.
LEMMA LookupKeeps == ASSUME LInv, NEW c \in Callers, NEW p \in Keys, Lookup(c, p) PROVE LInv'
<1> USE DEF LInv, adapterVars, cacheVars, callerVars, closerVars, sweepVars
<1>0. c \in Inside /\ cpc \in [Callers -> CallerPCs]
  BY DEF Inside, Lookup, LifeTypeOK, CallerPCs
<1>1. LifeTypeOK'
  BY DEF LifeTypeOK, Lookup
<1>2. RunningAre'
  BY <1>0, InsideStays DEF RunningAre, Lookup
<1>3. OneCleanup' /\ Drained' /\ SweptOnce' /\ Returned'
  BY DEF Lookup, OneCleanup, Drained, Quiet, SweptOnce, Returned
<1>4. LockHeld' /\ KeysKnown'
  BY ClosersAssumption, GoroutinesAssumption DEF LifeTypeOK, Lookup, LockHeld, KeysKnown
<1>5. CacheOK'
  BY ClosersAssumption, GoroutinesAssumption DEF Lookup, CacheOK, Listed
<1> QED
  BY <1>1, <1>2, <1>3, <1>4, <1>5

\* A sequence that lists each element once still does with a new one appended.
LEMMA AppendNew ==
  ASSUME NEW s \in Seq(Keys), NEW p \in Keys \ Elements(s), Injective(s)
  PROVE  /\ Append(s, p) \in Seq(Keys) /\ Injective(Append(s, p))
         /\ Elements(Append(s, p)) = Elements(s) \cup {p}
<1>1. /\ Append(s, p) \in Seq(Keys) /\ Len(s) \in Nat /\ Len(Append(s, p)) = Len(s) + 1
      /\ \A n \in 1 .. Len(s) : Append(s, p)[n] = s[n]
      /\ Append(s, p)[Len(s) + 1] = p
  BY AppendProperties, LenProperties
<1>2. Elements(Append(s, p)) = Elements(s) \cup {p}
  BY <1>1 DEF Elements
<1>3. Injective(Append(s, p))
  BY <1>1 DEF Elements, Injective
<1> QED
  BY <1>1, <1>2, <1>3

\* The factory's provider is owned and listed.
LEMMA BuiltKeeps == ASSUME LInv, NEW c \in Callers, Built(c) PROVE LInv'
<1> USE DEF LInv, adapterVars, cacheVars, callerVars, closerVars, sweepVars
<1>0. c \in Inside /\ cpc \in [Callers -> CallerPCs] /\ key[c] \in Keys \ owned /\ cacheMu = c
  BY DEF Inside, Built, LifeTypeOK, CallerPCs, KeysKnown, LockHeld
<1>1. /\ ~Quiet /\ cacheMu \notin Closers /\ Listed
      /\ \A k \in Closers : kpc[k] \notin {"lock", "sweep", "finish", "wake", "done"}
      /\ \A p \in Keys : swept[p] = 0
  BY <1>0, CallRuns DEF CacheOK
<1>2. /\ order' \in Seq(Keys) /\ Injective(order')
      /\ Elements(order') = owned' /\ owned' \subseteq Keys
  BY <1>0, <1>1, AppendNew DEF Built, Listed, LifeTypeOK
<1>3. LifeTypeOK'
  BY <1>2 DEF LifeTypeOK, Built
<1>4. RunningAre'
  BY <1>0, InsideStays DEF RunningAre, Built
<1>5. OneCleanup' /\ Drained' /\ SweptOnce' /\ Returned'
  BY <1>1 DEF Built, OneCleanup, Drained, Quiet, SweptOnce, Returned
<1>6. LockHeld' /\ KeysKnown'
  BY <1>0, <1>1, ClosersAssumption DEF LifeTypeOK, Built, LockHeld, KeysKnown
<1>7. CacheOK'
  BY <1>2, ClosersAssumption DEF Built, CacheOK, Listed
<1> QED
  BY <1>3, <1>4, <1>5, <1>6, <1>7

\* The factory failed: the lock is released and nothing is owned.
LEMMA NotBuiltKeeps == ASSUME LInv, NEW c \in Callers, NotBuilt(c) PROVE LInv'
<1> USE DEF LInv, adapterVars, cacheVars, callerVars, closerVars, sweepVars
<1>0. c \in Inside /\ cpc \in [Callers -> CallerPCs] /\ cacheMu = c
  BY DEF Inside, NotBuilt, LifeTypeOK, CallerPCs, LockHeld
<1>1. /\ cacheMu \notin Closers /\ Listed
      /\ \A k \in Closers : kpc[k] # "sweep"
  BY <1>0, CallRuns DEF CacheOK
<1>2. LifeTypeOK'
  BY DEF LifeTypeOK, NotBuilt
<1>3. RunningAre'
  BY <1>0, InsideStays DEF RunningAre, NotBuilt
<1>4. OneCleanup' /\ Drained' /\ SweptOnce' /\ Returned'
  BY DEF NotBuilt, OneCleanup, Drained, Quiet, SweptOnce, Returned
<1>5. LockHeld' /\ KeysKnown'
  BY <1>0, <1>1, ClosersAssumption DEF LifeTypeOK, NotBuilt, LockHeld, KeysKnown
<1>6. CacheOK'
  BY <1>1, ClosersAssumption DEF NotBuilt, CacheOK, Listed
<1> QED
  BY <1>2, <1>3, <1>4, <1>5, <1>6

\* The evaluation ends.
LEMMA UsedKeeps == ASSUME LInv, NEW c \in Callers, Used(c) PROVE LInv'
<1> USE DEF LInv, adapterVars, cacheVars, callerVars, closerVars, sweepVars
<1>1. LifeTypeOK'
  BY DEF LifeTypeOK, Used
<1>2. RunningAre'
  BY InsideStays DEF RunningAre, Used, LifeTypeOK, CallerPCs, Inside
<1>3. OneCleanup' /\ LockHeld' /\ KeysKnown' /\ Drained' /\ SweptOnce' /\ Returned'
  BY DEF LifeTypeOK, Used, OneCleanup, LockHeld, KeysKnown, Drained, Quiet, SweptOnce, Returned
<1>4. CacheOK'
  BY DEF Used, CacheOK, Listed, SweepAt, Reached, Unreached
<1> QED
  BY <1>1, <1>2, <1>3, <1>4

\* The deferred running.Done.
LEMMA DoneKeeps == ASSUME LInv, NEW c \in Callers, Done(c) PROVE LInv'
<1> USE DEF LInv, adapterVars, cacheVars, callerVars, closerVars, sweepVars
<1>0. c \in Inside /\ cpc \in [Callers -> CallerPCs]
  BY DEF Inside, Done, LifeTypeOK, CallerPCs
<1>1. /\ running > 0 /\ ~Quiet /\ running \in Nat /\ cacheMu \notin Closers
      /\ \A k \in Closers : kpc[k] \notin {"lock", "sweep", "finish", "wake", "done"}
      /\ \A p \in Keys : swept[p] = 0
  BY <1>0, CallRuns
<1>2. LifeTypeOK'
  BY <1>1 DEF LifeTypeOK, Done
<1>3. RunningAre'
  BY <1>0, InsideRemoves DEF RunningAre, Done
<1>4. OneCleanup' /\ LockHeld' /\ KeysKnown' /\ Returned'
  BY DEF LifeTypeOK, Done, OneCleanup, LockHeld, KeysKnown, Returned
<1>5. Drained' /\ SweptOnce'
  BY <1>1 DEF Done, Drained, SweptOnce
<1>6. CacheOK'
  BY <1>1 DEF Done, CacheOK, Listed
<1> QED
  BY <1>2, <1>3, <1>4, <1>5, <1>6

\* The client makes another attempt.
LEMMA AgainKeeps == ASSUME LInv, NEW c \in Callers, Again(c) PROVE LInv'
<1> USE DEF LInv, adapterVars, cacheVars, callerVars, closerVars, sweepVars
<1>1. LifeTypeOK'
  BY DEF LifeTypeOK, Again
<1>2. RunningAre'
  BY OutsideStays DEF RunningAre, Again, LifeTypeOK, CallerPCs, Inside
<1>3. OneCleanup' /\ LockHeld' /\ KeysKnown' /\ Drained' /\ SweptOnce' /\ Returned'
  BY DEF LifeTypeOK, Again, OneCleanup, LockHeld, KeysKnown, Drained, Quiet, SweptOnce, Returned
<1>4. CacheOK'
  BY DEF Again, CacheOK, Listed, SweepAt, Reached, Unreached
<1> QED
  BY <1>1, <1>2, <1>3, <1>4

\* The client returns the attempt's result.
LEMMA ReturnKeeps == ASSUME LInv, NEW c \in Callers, Return(c) PROVE LInv'
<1> USE DEF LInv, adapterVars, cacheVars, callerVars, closerVars, sweepVars
<1>1. LifeTypeOK'
  BY DEF LifeTypeOK, Return
<1>2. RunningAre'
  BY OutsideStays DEF RunningAre, Return, LifeTypeOK, CallerPCs, Inside
<1>3. OneCleanup' /\ LockHeld' /\ KeysKnown' /\ Drained' /\ SweptOnce' /\ Returned'
  BY DEF LifeTypeOK, Return, OneCleanup, LockHeld, KeysKnown, Drained, Quiet, SweptOnce, Returned
<1>4. CacheOK'
  BY DEF Return, CacheOK, Listed, SweepAt, Reached, Unreached
<1> QED
  BY <1>1, <1>2, <1>3, <1>4

\* Client.Close
LEMMA CloseClientKeeps == ASSUME LInv, NEW k \in Closers, CloseClient(k) PROVE LInv'
<1> USE DEF LInv, adapterVars, cacheVars, callerVars, closerVars, sweepVars
<1>1. LifeTypeOK'
  BY DEF LifeTypeOK, CloseClient
<1>2. RunningAre'
  BY DEF RunningAre, Inside, CloseClient
<1>3. OneCleanup' /\ LockHeld' /\ KeysKnown' /\ Drained' /\ SweptOnce'
  BY ClosersAssumption DEF LifeTypeOK, CloseClient, OneCleanup, LockHeld, KeysKnown, Drained, Quiet, SweptOnce
<1>4. Returned'
  BY ClosersAssumption DEF LifeTypeOK, CloseClient, Returned
<1>5. CacheOK'
  BY DEF CloseClient, CacheOK, Listed, SweepAt, Reached, Unreached
<1> QED
  BY <1>1, <1>2, <1>3, <1>4, <1>5

\* Adapter.Close is called.
LEMMA CloseAdapterKeeps == ASSUME LInv, NEW k \in Closers, CloseAdapter(k) PROVE LInv'
<1> USE DEF LInv, adapterVars, cacheVars, callerVars, closerVars, sweepVars
<1>1. LifeTypeOK'
  BY DEF LifeTypeOK, CloseAdapter
<1>2. RunningAre'
  BY DEF RunningAre, Inside, CloseAdapter
<1>3. OneCleanup' /\ LockHeld' /\ KeysKnown' /\ Drained' /\ SweptOnce'
  BY ClosersAssumption DEF LifeTypeOK, CloseAdapter, OneCleanup, LockHeld, KeysKnown, Drained, Quiet, SweptOnce
<1>4. Returned'
  BY ClosersAssumption DEF LifeTypeOK, CloseAdapter, Returned
<1>5. CacheOK'
  BY DEF CloseAdapter, CacheOK, Listed, SweepAt, Reached, Unreached
<1> QED
  BY <1>1, <1>2, <1>3, <1>4, <1>5

\* Close's critical section.
LEMMA CloseEnterKeeps == ASSUME LInv, NEW k \in Closers, CloseEnter(k) PROVE LInv'
<1> USE DEF LInv, adapterVars, cacheVars, callerVars, closerVars, sweepVars
<1>1. LifeTypeOK'
  BY DEF LifeTypeOK, CloseEnter
<1>2. RunningAre'
  BY DEF RunningAre, Inside, CloseEnter
<1>3. OneCleanup' /\ LockHeld' /\ KeysKnown' /\ Drained' /\ SweptOnce'
  BY ClosersAssumption DEF LifeTypeOK, CloseEnter, OneCleanup, LockHeld, KeysKnown, Drained, Quiet, SweptOnce
<1>4. Returned'
  <2>1. CASE closing # Nobody
    BY <2>1 DEF LifeTypeOK, CloseEnter, Returned
  <2>2. CASE closing = Nobody
    BY <2>2 DEF LifeTypeOK, CloseEnter, Returned
  <2> QED
    BY <2>1, <2>2
<1>5. CacheOK'
  BY DEF CloseEnter, CacheOK, Listed, SweepAt, Reached, Unreached
<1> QED
  BY <1>1, <1>2, <1>3, <1>4, <1>5

\* A Close that joined returns: the cleanup it joined has returned.
LEMMA CloseJoinedKeeps == ASSUME LInv, NEW k \in Closers, CloseJoined(k) PROVE LInv'
<1> USE DEF LInv, adapterVars, cacheVars, callerVars, closerVars, sweepVars
<1>0. joined[k] \in Closers /\ kpc[joined[k]] = "done"
  BY DEF CloseJoined, Returned
<1>1. LifeTypeOK'
  BY <1>0 DEF LifeTypeOK, CloseJoined
<1>2. RunningAre'
  BY DEF RunningAre, Inside, CloseJoined
<1>3. OneCleanup' /\ LockHeld' /\ KeysKnown' /\ Drained' /\ SweptOnce'
  BY <1>0 DEF LifeTypeOK, CloseJoined, OneCleanup, LockHeld, KeysKnown, Drained, Quiet, SweptOnce
<1>4. Returned'
  BY <1>0 DEF LifeTypeOK, CloseJoined, Returned
<1>5. CacheOK'
  BY DEF CloseJoined, CacheOK, Listed, SweepAt, Reached, Unreached
<1> QED
  BY <1>1, <1>2, <1>3, <1>4, <1>5

\* running.Wait
LEMMA DrainKeeps == ASSUME LInv, NEW k \in Closers, Drain(k) PROVE LInv'
<1> USE DEF LInv, adapterVars, cacheVars, callerVars, closerVars, sweepVars
<1>1. LifeTypeOK'
  BY DEF LifeTypeOK, Drain
<1>2. RunningAre'
  BY DEF RunningAre, Inside, Drain
<1>3. OneCleanup' /\ LockHeld' /\ KeysKnown' /\ Drained' /\ SweptOnce'
  BY ClosersAssumption DEF LifeTypeOK, Drain, OneCleanup, LockHeld, KeysKnown, Drained, Quiet, SweptOnce
<1>4. Returned'
  BY ClosersAssumption DEF LifeTypeOK, Drain, Returned
<1>5. CacheOK'
  BY DEF Drain, CacheOK, Listed, SweepAt, Reached, Unreached
<1> QED
  BY <1>1, <1>2, <1>3, <1>4, <1>5

\* closeOwned takes cacheMu: it has kept nothing and reached nothing.
LEMMA SweepLockKeeps == ASSUME LInv, NEW k \in Closers, SweepLock(k) PROVE LInv'
<1> USE DEF LInv, adapterVars, cacheVars, callerVars, closerVars, sweepVars
<1>1. LifeTypeOK'
  BY EmptySeq DEF LifeTypeOK, SweepLock
<1>2. RunningAre'
  BY DEF RunningAre, Inside, SweepLock
<1>3. OneCleanup' /\ KeysKnown' /\ Drained' /\ SweptOnce' /\ Returned'
  BY DEF LifeTypeOK, SweepLock, OneCleanup, KeysKnown, Drained, Quiet, SweptOnce, Returned
<1>4. LockHeld'
  BY ClosersAssumption, GoroutinesAssumption DEF LifeTypeOK, SweepLock, LockHeld
<1>5. CacheOK'
  <2>1. Listed /\ cacheMu' \in Closers
    BY ClosersAssumption DEF CacheOK, SweepLock
  <2>2. Len(order) \in Nat /\ order' = order /\ i' = 1 /\ kept' = <<>> /\ owned' = owned
    BY LenProperties DEF LifeTypeOK, SweepLock
  <2>3. Elements(kept') = {} /\ Injective(kept')
    BY <2>2 DEF Elements, Injective
  <2>4. Unreached' = Elements(order)
    BY <2>2 DEF Unreached, Elements
  <2>5. SweepAt'
    BY <2>1, <2>2, <2>3, <2>4 DEF SweepAt, Listed
  <2> QED
    BY <2>1, <2>5 DEF CacheOK
<1> QED
  BY <1>1, <1>2, <1>3, <1>4, <1>5

\* A sweep that has not ended has reached a provider that is owned, was not
\* kept, and is listed nowhere else.
LEMMA NextUnreached ==
  ASSUME LifeTypeOK, SweepAt, i <= Len(order)
  PROVE  /\ order[i] \in Keys /\ order[i] \in Unreached /\ order[i] \notin Elements(kept)
         /\ i + 1 \in 1 .. Len(order) + 1
         /\ {order[n] : n \in 1 .. (i + 1) - 1} = Reached \cup {order[i]}
         /\ {order[n] : n \in i + 1 .. Len(order)} = Unreached \ {order[i]}
<1>1. Len(order) \in Nat /\ i \in 1 .. Len(order) /\ order \in [1 .. Len(order) -> Keys]
  BY LenProperties DEF LifeTypeOK, SweepAt
<1>2. order[i] \in Keys /\ order[i] \in Unreached /\ i + 1 \in 1 .. Len(order) + 1
  BY <1>1 DEF Unreached
<1>3. order[i] \notin Reached
  BY <1>1 DEF Reached, SweepAt, Injective
<1>4. {order[n] : n \in 1 .. (i + 1) - 1} = Reached \cup {order[i]}
  BY <1>1 DEF Reached
<1>5. {order[n] : n \in i + 1 .. Len(order)} = Unreached \ {order[i]}
  BY <1>1 DEF Unreached, SweepAt, Injective
<1> QED
  BY <1>2, <1>3, <1>4, <1>5 DEF SweepAt

\* Who holds the lock while a sweep steps, and that nothing runs.
LEMMA Sweeping ==
  ASSUME LInv, NEW k \in Closers, kpc[k] = "sweep"
  PROVE  /\ cacheMu = k /\ SweepAt /\ Quiet
         /\ \A c \in Callers : cpc[c] \notin {"build", "use"}
         /\ \A q \in Closers : kpc[q] = "sweep" => q = k
<1>1. cacheMu = k /\ SweepAt /\ Quiet
  BY DEF LInv, LockHeld, CacheOK, Drained
<1>2. Inside = {}
  BY <1>1, InsideFinite DEF LInv, RunningAre, Quiet
<1> QED
  BY <1>1, <1>2 DEF Inside, LInv, LockHeld

\* A provider is closed, or needs no closing, and is owned no more.
LEMMA SweepDropKeeps == ASSUME LInv, NEW k \in Closers, SweepDrop(k) PROVE LInv'
<1> USE DEF LInv, adapterVars, cacheVars, callerVars, closerVars, sweepVars
<1>0. /\ cacheMu = k /\ SweepAt /\ Quiet /\ i <= Len(order)
      /\ \A c \in Callers : cpc[c] \notin {"build", "use"}
  BY Sweeping DEF SweepDrop
<1> DEFINE p == order[i]
<1>1. /\ p \in Keys /\ p \in Unreached /\ p \notin Elements(kept)
      /\ i + 1 \in 1 .. Len(order) + 1
      /\ {order[n] : n \in 1 .. (i + 1) - 1} = Reached \cup {p}
      /\ {order[n] : n \in i + 1 .. Len(order)} = Unreached \ {p}
  BY <1>0, NextUnreached
<1>2. p \in owned
  BY <1>0, <1>1 DEF SweepAt
<1>3. LifeTypeOK'
  BY <1>1 DEF LifeTypeOK, SweepDrop
<1>4. RunningAre'
  BY DEF RunningAre, Inside, SweepDrop
<1>5. OneCleanup' /\ LockHeld' /\ KeysKnown' /\ Drained'
  BY <1>0 DEF SweepDrop, OneCleanup, LockHeld, KeysKnown, Drained, Quiet
<1>6. SweptOnce'
  BY <1>0, <1>1, <1>2 DEF LifeTypeOK, SweepDrop, SweptOnce, Quiet
<1>7. Returned'
  BY DEF SweepDrop, Returned
<1>8. CacheOK'
  <2>1. Reached' = Reached \cup {p} /\ Unreached' = Unreached \ {p}
    BY <1>1 DEF Reached, Unreached, SweepDrop
  <2>2. SweepAt'
    BY <1>0, <1>1, <2>1 DEF SweepAt, SweepDrop
  <2> QED
    BY <1>0, <2>2 DEF CacheOK, SweepDrop
<1> QED
  BY <1>3, <1>4, <1>5, <1>6, <1>7, <1>8

\* A provider's Close failed: it is kept.
LEMMA SweepFailKeeps == ASSUME LInv, NEW k \in Closers, SweepFail(k) PROVE LInv'
<1> USE DEF LInv, adapterVars, cacheVars, callerVars, closerVars, sweepVars
<1>0. cacheMu = k /\ SweepAt /\ Quiet /\ i <= Len(order)
  BY Sweeping DEF SweepFail
<1> DEFINE p == order[i]
<1>1. /\ p \in Keys /\ p \in Unreached /\ p \notin Elements(kept)
      /\ i + 1 \in 1 .. Len(order) + 1
      /\ {order[n] : n \in 1 .. (i + 1) - 1} = Reached \cup {p}
      /\ {order[n] : n \in i + 1 .. Len(order)} = Unreached \ {p}
  BY <1>0, NextUnreached
<1>2. kept' \in Seq(Keys) /\ Injective(kept') /\ Elements(kept') = Elements(kept) \cup {p}
  BY <1>0, <1>1, AppendNew DEF LifeTypeOK, SweepAt, SweepFail
<1>3. LifeTypeOK'
  BY <1>1, <1>2 DEF LifeTypeOK, SweepFail
<1>4. RunningAre'
  BY DEF RunningAre, Inside, SweepFail
<1>5. OneCleanup' /\ LockHeld' /\ KeysKnown' /\ Drained' /\ SweptOnce' /\ Returned'
  BY DEF SweepFail, OneCleanup, LockHeld, KeysKnown, Drained, Quiet, SweptOnce, Returned
<1>6. CacheOK'
  <2>1. Reached' = Reached \cup {p} /\ Unreached' = Unreached \ {p}
    BY <1>1 DEF Reached, Unreached, SweepFail
  <2>2. SweepAt'
    BY <1>0, <1>1, <1>2, <2>1 DEF SweepAt, SweepFail
  <2> QED
    BY <1>0, <2>2 DEF CacheOK, SweepFail
<1> QED
  BY <1>3, <1>4, <1>5, <1>6

\* The deferred assignment to order lists what is still owned, each provider once.
LEMMA SweepEndLists ==
  ASSUME LifeTypeOK, SweepAt
  PROVE  LET rest == kept \o SubSeq(order, i, Len(order))
         IN  rest \in Seq(Keys) /\ Elements(rest) = owned /\ Injective(rest)
<1> DEFINE tail == SubSeq(order, i, Len(order))
           rest == kept \o tail
<1>1. /\ Len(order) \in Nat /\ i \in 1 .. Len(order) + 1 /\ Len(kept) \in Nat
      /\ order \in [1 .. Len(order) -> Keys] /\ kept \in [1 .. Len(kept) -> Keys]
  BY LenProperties DEF LifeTypeOK, SweepAt
<1>2. /\ tail \in Seq(Keys) /\ Len(tail) = Len(order) - i + 1
      /\ \A n \in 1 .. Len(tail) : tail[n] = order[i + n - 1]
  BY <1>1, SubSeqProperties
<1>3. /\ rest \in Seq(Keys) /\ Len(rest) = Len(kept) + Len(tail)
      /\ \A n \in 1 .. Len(rest) : rest[n] = IF n <= Len(kept) THEN kept[n] ELSE tail[n - Len(kept)]
  <2> HIDE DEF tail
  <2>1. kept \in Seq(Keys)
    BY DEF LifeTypeOK
  <2>2. /\ kept \o tail \in Seq(Keys) /\ Len(kept \o tail) = Len(kept) + Len(tail)
        /\ \A n \in 1 .. Len(kept) + Len(tail) :
             (kept \o tail)[n] = IF n <= Len(kept) THEN kept[n] ELSE tail[n - Len(kept)]
    BY <1>2, <2>1, ConcatProperties
  <2> QED
    BY <2>2
<1> HIDE DEF rest, tail
<1>4. Elements(tail) = Unreached
  <2>1. ASSUME NEW n \in i .. Len(order)
        PROVE  n - i + 1 \in 1 .. Len(tail) /\ tail[n - i + 1] = order[n]
    BY <1>1, <1>2
  <2>2. ASSUME NEW n \in 1 .. Len(tail)
        PROVE  i + n - 1 \in i .. Len(order) /\ tail[n] = order[i + n - 1]
    BY <1>1, <1>2
  <2>3. \A n \in i .. Len(order) : \E m \in 1 .. Len(tail) : tail[m] = order[n]
    BY <2>1
  <2>4. \A n \in 1 .. Len(tail) : \E m \in i .. Len(order) : tail[n] = order[m]
    BY <2>2
  <2> QED
    BY <2>3, <2>4 DEF Elements, Unreached
<1>5. Elements(rest) = Elements(kept) \cup Elements(tail)
  <2>1. ASSUME NEW n \in 1 .. Len(kept) PROVE n \in 1 .. Len(rest) /\ rest[n] = kept[n]
    BY <1>1, <1>2, <1>3
  <2>2. ASSUME NEW n \in 1 .. Len(tail)
        PROVE  Len(kept) + n \in 1 .. Len(rest) /\ rest[Len(kept) + n] = tail[n]
    BY <1>1, <1>2, <1>3
  <2>3. ASSUME NEW n \in 1 .. Len(rest), ~(n <= Len(kept))
        PROVE  n - Len(kept) \in 1 .. Len(tail) /\ rest[n] = tail[n - Len(kept)]
    BY <2>3, <1>1, <1>2, <1>3
  <2>4. ASSUME NEW n \in 1 .. Len(rest), n <= Len(kept)
        PROVE  n \in 1 .. Len(kept) /\ rest[n] = kept[n]
    BY <2>4, <1>1, <1>2, <1>3
  <2>5. \A n \in 1 .. Len(kept) : \E m \in 1 .. Len(rest) : rest[m] = kept[n]
    BY <2>1
  <2>6. \A n \in 1 .. Len(tail) : \E m \in 1 .. Len(rest) : rest[m] = tail[n]
    BY <2>2
  <2>7. \A n \in 1 .. Len(rest) : \/ \E m \in 1 .. Len(kept) : rest[n] = kept[m]
                                  \/ \E m \in 1 .. Len(tail) : rest[n] = tail[m]
    BY <2>3, <2>4
  <2> QED
    BY <2>5, <2>6, <2>7 DEF Elements
<1>6. Elements(kept) \cap Elements(tail) = {}
  <2>1. Reached \cap Unreached = {}
    BY <1>1 DEF Reached, Unreached, SweepAt, Injective
  <2> QED
    BY <1>4, <2>1 DEF SweepAt
<1>7. Injective(tail)
  BY <1>1, <1>2 DEF SweepAt, Injective
<1>8. Injective(rest)
  <2> SUFFICES ASSUME NEW m \in 1 .. Len(rest), NEW n \in 1 .. Len(rest), rest[m] = rest[n]
               PROVE  m = n
    BY DEF Injective
  <2>1. CASE m <= Len(kept) /\ n <= Len(kept)
    BY <1>1, <1>2, <1>3, <2>1 DEF SweepAt, Injective
  <2>2. CASE m > Len(kept) /\ n > Len(kept)
    <3>1. /\ m - Len(kept) \in 1 .. Len(tail) /\ n - Len(kept) \in 1 .. Len(tail)
          /\ tail[m - Len(kept)] = tail[n - Len(kept)]
      <4>1. ~(m <= Len(kept)) /\ ~(n <= Len(kept)) /\ m \in Nat /\ n \in Nat
        BY <1>1, <2>2
      <4>2. rest[m] = tail[m - Len(kept)] /\ rest[n] = tail[n - Len(kept)]
        BY <1>3, <4>1
      <4>3. m - Len(kept) \in 1 .. Len(tail) /\ n - Len(kept) \in 1 .. Len(tail)
        BY <1>1, <1>2, <1>3, <4>1
      <4> QED
        BY <4>2, <4>3
    <3>2. m - Len(kept) = n - Len(kept)
      BY <1>7, <3>1 DEF Injective
    <3> QED
      BY <1>1, <3>2
  <2>3. CASE m <= Len(kept) /\ n > Len(kept)
    <3>1. /\ m \in 1 .. Len(kept) /\ n - Len(kept) \in 1 .. Len(tail)
          /\ kept[m] = tail[n - Len(kept)]
      BY <1>1, <1>2, <1>3, <2>3
    <3> QED
      BY <1>6, <3>1 DEF Elements
  <2>4. CASE m > Len(kept) /\ n <= Len(kept)
    <3>1. /\ n \in 1 .. Len(kept) /\ m - Len(kept) \in 1 .. Len(tail)
          /\ kept[n] = tail[m - Len(kept)]
      BY <1>1, <1>2, <1>3, <2>4
    <3> QED
      BY <1>6, <3>1 DEF Elements
  <2> QED
    BY <1>1, <2>1, <2>2, <2>3, <2>4
<1> QED
  BY <1>3, <1>4, <1>5, <1>8 DEF rest, tail, SweepAt

\* The sweep reached every provider and returns its first error.
LEMMA SweepReturnKeeps == ASSUME LInv, NEW k \in Closers, SweepReturn(k) PROVE LInv'
<1> USE DEF LInv, adapterVars, cacheVars, callerVars, closerVars, sweepVars
<1>0. cacheMu = k /\ SweepAt /\ Quiet /\ \A q \in Closers : kpc[q] = "sweep" => q = k
  BY Sweeping DEF SweepReturn
<1>1. order' \in Seq(Keys) /\ Elements(order') = owned /\ Injective(order')
  BY <1>0, SweepEndLists DEF SweepReturn, SweepEnd
<1>2. LifeTypeOK'
  BY <1>1 DEF LifeTypeOK, SweepReturn, SweepEnd
<1>3. RunningAre'
  BY DEF RunningAre, Inside, SweepReturn, SweepEnd
<1>4. OneCleanup' /\ KeysKnown' /\ Drained' /\ SweptOnce'
  BY <1>0 DEF LifeTypeOK, SweepReturn, SweepEnd, OneCleanup, KeysKnown, Drained, Quiet, SweptOnce
<1>5. LockHeld'
  BY <1>0, ClosersAssumption, GoroutinesAssumption DEF LifeTypeOK, SweepReturn, SweepEnd, LockHeld
<1>6. Returned'
  <2>1. first = "nil" => owned = {}
    <3>1. Unreached = {}
      BY <1>0 DEF Unreached, SweepReturn, SweepAt, LifeTypeOK
    <3>2. kept = <<>> => Elements(kept) = {}
      BY DEF Elements
    <3> QED
      BY <1>0, <3>1, <3>2 DEF SweepAt
  <2> QED
    BY <2>1 DEF LifeTypeOK, SweepReturn, SweepEnd, Returned
<1>7. CacheOK'
  BY <1>1, ClosersAssumption DEF SweepReturn, SweepEnd, CacheOK, Listed
<1> QED
  BY <1>2, <1>3, <1>4, <1>5, <1>6, <1>7

\* A provider's Close panicked.
LEMMA SweepPanicKeeps == ASSUME LInv, NEW k \in Closers, SweepPanic(k) PROVE LInv'
<1> USE DEF LInv, adapterVars, cacheVars, callerVars, closerVars, sweepVars
<1>0. cacheMu = k /\ SweepAt /\ Quiet /\ \A q \in Closers : kpc[q] = "sweep" => q = k
  BY Sweeping DEF SweepPanic
<1>1. order' \in Seq(Keys) /\ Elements(order') = owned /\ Injective(order')
  BY <1>0, SweepEndLists DEF SweepPanic, SweepEnd
<1>2. LifeTypeOK'
  BY <1>1 DEF LifeTypeOK, SweepPanic, SweepEnd
<1>3. RunningAre'
  BY DEF RunningAre, Inside, SweepPanic, SweepEnd
<1>4. OneCleanup' /\ KeysKnown' /\ Drained' /\ SweptOnce'
  BY <1>0 DEF LifeTypeOK, SweepPanic, SweepEnd, OneCleanup, KeysKnown, Drained, Quiet, SweptOnce
<1>5. LockHeld'
  BY <1>0, ClosersAssumption, GoroutinesAssumption DEF LifeTypeOK, SweepPanic, SweepEnd, LockHeld
<1>6. Returned'
  BY DEF LifeTypeOK, SweepPanic, SweepEnd, Returned
<1>7. CacheOK'
  BY <1>1, ClosersAssumption DEF SweepPanic, SweepEnd, CacheOK, Listed
<1> QED
  BY <1>2, <1>3, <1>4, <1>5, <1>6, <1>7

\* Close's deferred function clears closing.
LEMMA CloseFinishKeeps == ASSUME LInv, NEW k \in Closers, CloseFinish(k) PROVE LInv'
<1> USE DEF LInv, adapterVars, cacheVars, callerVars, closerVars, sweepVars
<1>1. LifeTypeOK'
  BY DEF LifeTypeOK, CloseFinish
<1>2. RunningAre'
  BY DEF RunningAre, Inside, CloseFinish
<1>3. OneCleanup' /\ LockHeld' /\ KeysKnown' /\ Drained' /\ SweptOnce'
  BY ClosersAssumption DEF LifeTypeOK, CloseFinish, OneCleanup, LockHeld, KeysKnown, Drained, Quiet, SweptOnce
<1>4. Returned'
  BY ClosersAssumption DEF LifeTypeOK, CloseFinish, Returned
<1>5. CacheOK'
  BY DEF CloseFinish, CacheOK, Listed, SweepAt, Reached, Unreached
<1> QED
  BY <1>1, <1>2, <1>3, <1>4, <1>5

\* Close's deferred function closes the channel.
LEMMA CloseWakeKeeps == ASSUME LInv, NEW k \in Closers, CloseWake(k) PROVE LInv'
<1> USE DEF LInv, adapterVars, cacheVars, callerVars, closerVars, sweepVars
<1>1. LifeTypeOK'
  BY DEF LifeTypeOK, CloseWake
<1>2. RunningAre'
  BY DEF RunningAre, Inside, CloseWake
<1>3. OneCleanup' /\ LockHeld' /\ KeysKnown' /\ Drained' /\ SweptOnce'
  BY ClosersAssumption DEF LifeTypeOK, CloseWake, OneCleanup, LockHeld, KeysKnown, Drained, Quiet, SweptOnce
<1>4. Returned'
  BY ClosersAssumption DEF LifeTypeOK, CloseWake, Returned
<1>5. CacheOK'
  BY DEF CloseWake, CacheOK, Listed, SweepAt, Reached, Unreached
<1> QED
  BY <1>1, <1>2, <1>3, <1>4, <1>5

-----------------------------------------------------------------------------
(* The theorems. *)

\* Every step keeps the invariant.
LEMMA LInvStep == LInv /\ [LifeNext]_lifeVars => LInv'
<1> SUFFICES ASSUME LInv, [LifeNext]_lifeVars PROVE LInv'
  OBVIOUS
<1>1. ASSUME NEW c \in Callers, CallerStep(c) PROVE LInv'
  BY <1>1, UsableKeeps, EnterKeeps, ServeBorrowedKeeps, LookupKeeps, BuiltKeeps,
     NotBuiltKeeps, UsedKeeps, DoneKeeps, AgainKeeps, ReturnKeeps DEF CallerStep
<1>2. ASSUME NEW k \in Closers, CloserStep(k) PROVE LInv'
  BY <1>2, CloseEnterKeeps, CloseJoinedKeeps, DrainKeeps, SweepLockKeeps, SweepDropKeeps,
     SweepFailKeeps, SweepReturnKeeps, SweepPanicKeeps, CloseFinishKeeps, CloseWakeKeeps
  DEF CloserStep
<1>3. ASSUME NEW k \in Closers, CloseClient(k) \/ CloseAdapter(k) PROVE LInv'
  BY <1>3, CloseClientKeeps, CloseAdapterKeeps
<1>4. CASE UNCHANGED lifeVars
  BY <1>4 DEF lifeVars, adapterVars, cacheVars, callerVars, closerVars, sweepVars, LInv,
     LifeTypeOK, RunningAre, Inside, OneCleanup, LockHeld, KeysKnown, Drained, Quiet,
     CacheOK, Listed, SweepAt, Reached, Unreached, SweptOnce, Returned
<1> QED
  BY <1>1, <1>2, <1>3, <1>4 DEF LifeNext

\* The invariant holds in every behaviour of the specification.
LEMMA LInvAlways == LifeSpec => []LInv
BY LInvInit, LInvStep, PTL DEF LifeSpec

\* The Adapter's and the client's state stays within its types.
THEOREM LifecycleTyped == LifeSpec => []LifeTypeOK
BY LInvAlways, PTL DEF LInv

\* No Close reaches a provider that a running call uses (RoundTrip, closeOwned).
THEOREM LifecycleUsesOwned == LifeSpec => []UsesOwned
<1>1. LInv => UsesOwned
  BY DEF LInv, KeysKnown, UsesOwned
<1> QED
  BY <1>1, LInvAlways, PTL

\* The cache's list and its map agree whenever the lock is free, and no
\* provider is closed again once its Close succeeded (provider, closeOwned).
THEOREM LifecycleOwnedOnce == LifeSpec => []OwnedOnce
<1>1. LInv => OwnedOnce
  <2> SUFFICES ASSUME LInv PROVE OwnedOnce
    OBVIOUS
  <2>1. cacheMu = Nobody => Elements(order) = owned /\ Injective(order)
    BY ClosersAssumption DEF LInv, CacheOK, Listed
  <2>2. \A p \in Keys : swept[p] <= 1
    <3>1. ASSUME NEW p \in Keys PROVE swept[p] = 0 \/ swept[p] = 1
      BY DEF LInv, SweptOnce
    <3> QED
      BY <3>1
  <2> QED
    BY <2>1, <2>2 DEF OwnedOnce
<1> QED
  BY <1>1, LInvAlways, PTL

\* When a Close returned, no call runs, and a nil result means that nothing is
\* owned any more, for the closer that swept and for those that joined it (Close).
THEOREM LifecycleCloseIsFinal == LifeSpec => []CloseIsFinal
<1>1. LInv => CloseIsFinal
  BY DEF LInv, Drained, Quiet, Returned, CloseIsFinal
<1> QED
  BY <1>1, LInvAlways, PTL

-----------------------------------------------------------------------------
(* The Adapter implements Shutdown. *)

\* A step of call c changes what Shutdown sees of no other call, and nothing
\* of a Close.
LEMMA CallerSeen ==
  ASSUME LInv, NEW c \in Callers, CallerStep(c)
  PROVE  /\ UNCHANGED <<closed, swept, Answers>>
         /\ cpc \in [Callers -> CallerPCs]
         /\ \A q \in Callers \ {c} : cpc'[q] = cpc[q] /\ key'[q] = key[q]
<1>1. UNCHANGED <<closed, kpc, cerr, swept>>
  BY DEF CallerStep, Usable, Enter, ServeBorrowed, Lookup, Built, NotBuilt, Used, Done, Again, Return,
         adapterVars, closerVars
<1>2. cpc \in [Callers -> CallerPCs] /\ key \in [Callers -> Keys \cup {Nobody}]
  BY DEF LInv, LifeTypeOK, CallerPCs
<1>3. \A q \in Callers \ {c} : cpc'[q] = cpc[q] /\ key'[q] = key[q]
  BY <1>2 DEF CallerStep, Usable, Enter, ServeBorrowed, Lookup, Built, NotBuilt, Used, Done, Again, Return
<1> QED BY <1>1, <1>2, <1>3 DEF Answers

\* A step of a call arrives, uses a provider, ends its use, leaves, or is not
\* seen.
LEMMA CallerCloses ==
  ASSUME LInv, NEW c \in Callers, CallerStep(c)
  PROVE  \/ Closing!Arrive(c) \/ (\E p \in Keys : Closing!Use(c, p)) \/ Closing!EndUse(c)
         \/ Closing!Leave(c) \/ UNCHANGED Closing!shutdownVars
<1> USE CallerSeen
<1>0. /\ cpc \in [Callers -> CallerPCs] /\ key \in [Callers -> Keys \cup {Nobody}]
      /\ owned \subseteq Keys /\ Nobody \notin Keys
  BY KeysAssumption DEF LInv, LifeTypeOK, CallerPCs
<1>1. ASSUME cpc'[c] # "use", cpc[c] # "use", c \in Inside <=> c \in Inside', UNCHANGED owned
      PROVE  UNCHANGED Closing!shutdownVars
  <2>1. Inside' = Inside
    BY <1>1 DEF Inside
  <2>2. InUse' = InUse
    BY <1>1 DEF InUse
  <2> QED BY <1>1, <2>1, <2>2 DEF Closing!shutdownVars
<1>2. CASE Usable(c) \/ ServeBorrowed(c) \/ NotBuilt(c) \/ Again(c) \/ Return(c)
  <2>1. cpc'[c] # "use" /\ cpc[c] # "use" /\ (c \in Inside <=> c \in Inside') /\ UNCHANGED owned
    BY <1>0, <1>2 DEF Usable, ServeBorrowed, NotBuilt, Again, Return, Inside, cacheVars
  <2> QED BY <1>1, <2>1
<1>3. CASE Enter(c)
  <2>1. CASE closed
    <3>1. cpc'[c] # "use" /\ cpc[c] # "use" /\ (c \in Inside <=> c \in Inside') /\ UNCHANGED owned
      BY <1>0, <1>3, <2>1 DEF Enter, Inside, cacheVars
    <3> QED BY <1>1, <3>1
  <2>2. CASE ~closed
    <3>1. cpc[c] = "attempt" /\ cpc' = [cpc EXCEPT ![c] = "lookup"] /\ UNCHANGED <<key, owned>>
      BY <1>3, <2>2 DEF Enter, cacheVars
    <3>2. c \notin Inside /\ Inside' = Inside \cup {c}
      BY <1>0, <3>1 DEF Inside
    <3>3. InUse' = InUse
      BY <1>0, <3>1 DEF InUse
    <3> QED BY <2>2, <3>1, <3>2, <3>3 DEF Closing!Arrive
  <2> QED BY <2>1, <2>2
<1>4. ASSUME NEW p \in Keys, cpc[c] \in {"lookup", "build"}, cpc' = [cpc EXCEPT ![c] = "use"],
             key'[c] = p, owned' = owned \cup {p}
      PROVE  Closing!Use(c, p)
  <2>1. c \in Inside /\ Inside' = Inside
    BY <1>0, <1>4 DEF Inside
  <2>2. InUse[c] = Nobody /\ InUse' = [InUse EXCEPT ![c] = p]
    BY <1>0, <1>4 DEF InUse
  <2> QED BY <1>4, <2>1, <2>2 DEF Closing!Use
<1>5. ASSUME NEW p \in Keys, Lookup(c, p)
      PROVE  Closing!Use(c, p) \/ UNCHANGED Closing!shutdownVars
  <2>1. CASE p \in owned
    <3>1. key'[c] = p /\ owned' = owned \cup {p}
      BY <1>0, <1>5, <2>1 DEF Lookup
    <3> QED BY <1>4, <1>5, <2>1, <3>1 DEF Lookup
  <2>2. CASE p \notin owned
    <3>1. cpc'[c] # "use" /\ cpc[c] # "use" /\ (c \in Inside <=> c \in Inside') /\ UNCHANGED owned
      BY <1>0, <1>5, <2>2 DEF Lookup, Inside
    <3> QED BY <1>1, <3>1
  <2> QED BY <2>1, <2>2
<1>6. CASE Built(c)
  <2>1. key[c] \in Keys
    BY <1>6 DEF Built, LInv, KeysKnown
  <2> QED BY <1>4, <1>6, <2>1 DEF Built
<1>7. CASE Used(c)
  <2>1. cpc[c] = "use" /\ cpc' = [cpc EXCEPT ![c] = "served"] /\ UNCHANGED <<key, owned>>
    BY <1>7 DEF Used, cacheVars
  <2>2. Inside' = Inside
    BY <1>0, <2>1 DEF Inside
  <2>3. InUse[c] # Nobody /\ InUse' = [InUse EXCEPT ![c] = Nobody]
    BY <1>0, <2>1 DEF InUse, LInv, KeysKnown
  <2> QED BY <2>1, <2>2, <2>3 DEF Closing!EndUse
<1>8. CASE Done(c)
  <2>1. cpc[c] = "served" /\ cpc' = [cpc EXCEPT ![c] = "failed"] /\ UNCHANGED owned
    BY <1>8 DEF Done, cacheVars
  <2>2. c \in Inside /\ Inside' = Inside \ {c}
    BY <1>0, <2>1 DEF Inside
  <2>3. InUse[c] = Nobody /\ InUse' = InUse
    BY <1>0, <2>1 DEF InUse
  <2> QED BY <2>1, <2>2, <2>3 DEF Closing!Leave
<1> QED BY <1>2, <1>3, <1>5, <1>6, <1>7, <1>8 DEF CallerStep

\* A step of a Close closes the Adapter, closes a provider, answers, or is not
\* seen.
LEMMA CloserCloses ==
  ASSUME LInv, NEW k \in Closers, CloseClient(k) \/ CloseAdapter(k) \/ CloserStep(k)
  PROVE  \/ Closing!Shut \/ (\E p \in Keys : Closing!Dispose(p))
         \/ (\E r \in {"nil", "error", "panicked"} : Closing!Answer(k, r))
         \/ UNCHANGED Closing!shutdownVars
<1>0. /\ kpc \in [Closers -> {"idle", "skipped", "close", "join", "drain", "lock", "sweep",
                              "finish", "wake", "done"}]
      /\ cerr \in [Closers -> {"nil", "error", "panicked"}]
  BY DEF LInv, LifeTypeOK
<1>1. Inside' = Inside /\ InUse' = InUse
  <2>1. UNCHANGED <<cpc, key>>
    BY DEF CloserStep, CloseClient, CloseAdapter, CloseEnter, CloseJoined, Drain, SweepLock,
           SweepDrop, SweepFail, SweepReturn, SweepPanic, SweepEnd, CloseFinish, CloseWake, callerVars
  <2> QED BY <2>1 DEF Inside, InUse
<1>2. ASSUME kpc[k] # "done", kpc'[k] # "done",
             \A q \in Closers \ {k} : kpc'[q] = kpc[q] /\ cerr'[q] = cerr[q]
      PROVE  Answers' = Answers
  <2>1. \A q \in Closers : Answers'[q] = Answers[q]
    BY <1>2 DEF Answers
  <2> QED BY <2>1 DEF Answers
<1>3. Quiet => Closing!Quiet
  BY InsideFinite DEF Quiet, Closing!Quiet, LInv, RunningAre
<1>4. CASE CloseClient(k) \/ CloseAdapter(k) \/ Drain(k) \/ SweepLock(k) \/ CloseFinish(k)
  <2>1. UNCHANGED <<closed, owned, swept>>
    BY <1>4 DEF CloseClient, CloseAdapter, Drain, SweepLock, CloseFinish, adapterVars, cacheVars
  <2>2. Answers' = Answers
    BY <1>0, <1>2, <1>4 DEF CloseClient, CloseAdapter, Drain, SweepLock, CloseFinish
  <2> QED BY <1>1, <2>1, <2>2 DEF Closing!shutdownVars
<1>5. CASE CloseEnter(k)
  <2>1. closed' = TRUE /\ UNCHANGED <<owned, swept>>
    BY <1>5 DEF CloseEnter, cacheVars
  <2>2. Answers' = Answers
    BY <1>0, <1>2, <1>5 DEF CloseEnter
  <2> QED BY <1>1, <2>1, <2>2 DEF Closing!Shut
<1>6. ASSUME kpc[k] # "done", kpc' = [kpc EXCEPT ![k] = "done"], Quiet,
             \A q \in Closers \ {k} : cerr'[q] = cerr[q],
             NEW r \in {"nil", "error", "panicked"}, cerr'[k] = r, r = "nil" => owned = {},
             UNCHANGED <<closed, owned, swept>>
      PROVE  Closing!Answer(k, r)
  <2>1. Answers[k] = "none" /\ Answers' = [Answers EXCEPT ![k] = r]
    BY <1>0, <1>6 DEF Answers
  <2> QED BY <1>1, <1>3, <1>6, <2>1 DEF Closing!Answer
<1>7. CASE CloseJoined(k)
  <2>1. kpc[k] = "join" /\ joined[k] \in Closers /\ kpc[joined[k]] = "done"
    BY <1>7 DEF CloseJoined, LInv, Returned
  <2>2. Quiet /\ (cerr[joined[k]] = "nil" => owned = {})
    BY <2>1 DEF LInv, Drained, Returned
  <2>3. cerr'[k] = cerr[joined[k]] /\ cerr'[k] \in {"nil", "error", "panicked"}
    BY <1>0, <1>7, <2>1 DEF CloseJoined
  <2> QED BY <1>0, <1>6, <1>7, <2>1, <2>2, <2>3 DEF CloseJoined, adapterVars, cacheVars
<1>8. CASE CloseWake(k)
  <2>1. kpc[k] = "wake" /\ Quiet /\ (cerr[k] = "nil" => owned = {})
    BY <1>8 DEF CloseWake, LInv, Drained, Returned
  <2> QED BY <1>0, <1>6, <1>8, <2>1 DEF CloseWake, adapterVars, cacheVars
<1>9. CASE SweepDrop(k)
  <2>1. kpc[k] = "sweep" /\ i <= Len(order) /\ UNCHANGED <<closed, kpc, cerr>>
    BY <1>9 DEF SweepDrop, adapterVars, closerVars
  <2>2. SweepAt /\ Quiet
    BY <2>1, Sweeping
  <2>3. order[i] \in Keys /\ order[i] \in owned
    BY <2>1, <2>2, NextUnreached DEF LInv, SweepAt
  <2>4. Answers' = Answers
    BY <2>1 DEF Answers
  <2>5. Closing!Dispose(order[i])
    BY <1>1, <1>3, <1>9, <2>1, <2>2, <2>3, <2>4 DEF SweepDrop, Closing!Dispose
  <2> QED BY <2>3, <2>5
<1>10. CASE SweepFail(k)
  <2>1. UNCHANGED <<closed, owned, swept, kpc, cerr>>
    BY <1>10 DEF SweepFail, adapterVars, cacheVars, closerVars
  <2>2. Answers' = Answers
    BY <2>1 DEF Answers
  <2> QED BY <1>1, <2>1, <2>2 DEF Closing!shutdownVars
<1>11. CASE SweepReturn(k) \/ SweepPanic(k)
  <2>1. UNCHANGED <<closed, owned, swept>>
    BY <1>11 DEF SweepReturn, SweepPanic, SweepEnd, adapterVars
  <2>2. Answers' = Answers
    BY <1>0, <1>2, <1>11 DEF SweepReturn, SweepPanic, SweepEnd
  <2> QED BY <1>1, <2>1, <2>2 DEF Closing!shutdownVars
<1> QED BY <1>4, <1>5, <1>7, <1>8, <1>9, <1>10, <1>11 DEF CloserStep

\* Every step is one of Shutdown's or changes nothing it sees.
LEMMA ShutdownStep == LInv /\ [LifeNext]_lifeVars => [Closing!ShutdownNext]_(Closing!shutdownVars)
<1> SUFFICES ASSUME LInv, [LifeNext]_lifeVars PROVE [Closing!ShutdownNext]_(Closing!shutdownVars)
  OBVIOUS
<1>1. CASE UNCHANGED lifeVars
  BY <1>1 DEF lifeVars, adapterVars, cacheVars, callerVars, closerVars, Inside, InUse, Answers,
              Closing!shutdownVars
<1>2. CASE LifeNext
  BY <1>2, CallerCloses, CloserCloses DEF LifeNext, Closing!ShutdownNext
<1> QED BY <1>1, <1>2

\* The Adapter implements Shutdown: its locks, its counter of running calls and
\* the cleanup that Closes share never show (RoundTrip, provider, Close,
\* closeOwned).
THEOREM LifecycleImplementsShutdown == LifeSpec => ImplementsShutdown
<1>1. LifeInit => Closing!ShutdownInit
  <2> SUFFICES ASSUME LifeInit PROVE Closing!ShutdownInit
    OBVIOUS
  <2>1. Inside = {}
    BY DEF LifeInit, Inside
  <2>2. InUse = [c \in Callers |-> Nobody]
    BY DEF LifeInit, InUse
  <2>3. Answers = [k \in Closers |-> "none"]
    BY DEF LifeInit, Answers
  <2> QED BY <2>1, <2>2, <2>3 DEF LifeInit, Closing!ShutdownInit
<1> QED BY <1>1, ShutdownStep, LInvAlways, PTL
           DEF LifeSpec, ImplementsShutdown, Closing!ShutdownSpec

=============================================================================
