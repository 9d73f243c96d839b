----------------------------- MODULE Lifecycle -----------------------------
(***************************************************************************)
(* The lifecycle of a client over an Adapter: Client.usable and Close      *)
(* (client.go), Transport.Close (internal/engine/transport.go), and the    *)
(* Adapter's RoundTrip, provider, Close and closeOwned                     *)
(* (adapter/adapter.go).  A critical section of mu is one step; cacheMu is *)
(* held across a factory's work and across the sweep of the providers, so  *)
(* it is a variable.  A provider's or a factory's panic is an outcome.     *)
(***************************************************************************)
EXTENDS Integers, FiniteSets, Sequences

CONSTANTS Callers,        \* goroutines that make a call
          Closers,        \* goroutines that close
          ClientClosers,  \* those of them that close the client, not the Adapter
          Keys,           \* the providers the factories can build
          Closable,       \* those of them that are io.Closers
          Nobody,
          MaxAttempts     \* the attempts of a call

ASSUME ClosersAssumption == ClientClosers \subseteq Closers /\ Nobody \notin Closers \cup Callers
ASSUME GoroutinesAssumption == Callers \cap Closers = {} /\ IsFiniteSet(Callers)
ASSUME KeysAssumption == Closable \subseteq Keys /\ Nobody \notin Keys
ASSUME AttemptsAssumption == MaxAttempts \in Nat

VARIABLES shut,                          \* Client.closed
          closed, running, closing,      \* Adapter, under mu
          cacheMu, owned, order,         \* the provider cache and who holds it
          cpc, key, attempts,     \* the callers
          kpc, joined, cerr, cdone,      \* the closers; cleanup.err and done
          i, kept, first,                \* closeOwned's locals
          swept                          \* the providers whose Close succeeded, and how often

adapterVars == <<closed, running, closing>>
cacheVars == <<cacheMu, owned, order>>
callerVars == <<cpc, key, attempts>>
closerVars == <<kpc, joined, cerr, cdone>>
sweepVars == <<i, kept, first>>
lifeVars == <<shut, adapterVars, cacheVars, callerVars, closerVars, sweepVars, swept>>

LifeInit ==
  /\ shut = FALSE
  /\ closed = FALSE /\ running = 0 /\ closing = Nobody
  /\ cacheMu = Nobody /\ owned = {} /\ order = <<>>
  /\ cpc = [c \in Callers |-> "idle"] /\ key = [c \in Callers |-> Nobody]
  /\ attempts = [c \in Callers |-> 0]
  /\ kpc = [k \in Closers |-> "idle"] /\ joined = [k \in Closers |-> Nobody]
  /\ cerr = [k \in Closers |-> "panicked"] /\ cdone = [k \in Closers |-> FALSE]
  /\ i = 0 /\ kept = <<>> /\ first = "nil"
  /\ swept = [p \in Keys |-> 0]

-----------------------------------------------------------------------------
(* A call. *)

\* usable
Usable(c) ==
  /\ cpc[c] = "idle"
  /\ cpc' = [cpc EXCEPT ![c] = IF shut THEN "done" ELSE "attempt"]
  /\ UNCHANGED <<shut, adapterVars, cacheVars, key, attempts, closerVars, sweepVars, swept>>

\* RoundTrip checks closed and counts itself as running under mu.
Enter(c) ==
  /\ cpc[c] = "attempt" /\ attempts[c] < MaxAttempts
  /\ attempts' = [attempts EXCEPT ![c] = @ + 1]
  /\ IF closed THEN cpc' = [cpc EXCEPT ![c] = "failed"] /\ UNCHANGED running
     ELSE cpc' = [cpc EXCEPT ![c] = "lookup"] /\ running' = running + 1
  /\ UNCHANGED <<shut, closed, closing, cacheVars, key, closerVars, sweepVars, swept>>

\* A request that needs no owned provider: a borrowed one, the model list, a
\* body that is refused.
ServeBorrowed(c) ==
  /\ cpc[c] = "lookup"
  /\ cpc' = [cpc EXCEPT ![c] = "served"]
  /\ UNCHANGED <<shut, adapterVars, cacheVars, key, attempts, closerVars, sweepVars, swept>>

\* provider: an owned provider is found, or its factory starts.
Lookup(c, p) ==
  /\ cpc[c] = "lookup" /\ cacheMu = Nobody
  /\ key' = [key EXCEPT ![c] = p]
  /\ IF p \in owned THEN cpc' = [cpc EXCEPT ![c] = "use"] /\ UNCHANGED cacheMu
     ELSE cpc' = [cpc EXCEPT ![c] = "build"] /\ cacheMu' = c
  /\ UNCHANGED <<shut, adapterVars, owned, order, attempts, closerVars, sweepVars, swept>>

Built(c) ==
  /\ cpc[c] = "build"
  /\ owned' = owned \cup {key[c]} /\ order' = Append(order, key[c]) /\ cacheMu' = Nobody
  /\ cpc' = [cpc EXCEPT ![c] = "use"]
  /\ UNCHANGED <<shut, adapterVars, key, attempts, closerVars, sweepVars, swept>>

\* Variant: the lock is not released on this path.
NotBuiltLocked(c) ==
  /\ cpc[c] = "build"
  /\ cpc' = [cpc EXCEPT ![c] = "served"]
  /\ UNCHANGED <<shut, adapterVars, cacheVars, key, attempts, closerVars, sweepVars, swept>>

\* The factory failed, returned nothing, or panicked.
NotBuilt(c) ==
  /\ cpc[c] = "build"
  /\ cacheMu' = Nobody /\ cpc' = [cpc EXCEPT ![c] = "served"]
  /\ UNCHANGED <<shut, adapterVars, owned, order, key, attempts, closerVars, sweepVars, swept>>

\* The evaluation with the provider ends, with an answer, an error or a panic.
Used(c) ==
  /\ cpc[c] = "use"
  /\ cpc' = [cpc EXCEPT ![c] = "served"]
  /\ UNCHANGED <<shut, adapterVars, cacheVars, key, attempts, closerVars, sweepVars, swept>>

\* The deferred running.Done.
Done(c) ==
  /\ cpc[c] = "served"
  /\ running' = running - 1
  /\ cpc' = [cpc EXCEPT ![c] = "failed"] /\ key' = [key EXCEPT ![c] = Nobody]
  /\ UNCHANGED <<shut, closed, closing, cacheVars, attempts, closerVars, sweepVars, swept>>

\* The client returns the attempt's result, or makes another attempt.
Again(c) ==
  /\ cpc[c] = "failed" /\ attempts[c] < MaxAttempts
  /\ cpc' = [cpc EXCEPT ![c] = "attempt"]
  /\ UNCHANGED <<shut, adapterVars, cacheVars, key, attempts, closerVars, sweepVars, swept>>

Return(c) ==
  /\ cpc[c] = "failed"
  /\ cpc' = [cpc EXCEPT ![c] = "done"]
  /\ UNCHANGED <<shut, adapterVars, cacheVars, key, attempts, closerVars, sweepVars, swept>>

-----------------------------------------------------------------------------
(* A Close. *)

\* Client.Close: the first one closes the transport, once; the others do nothing.
CloseClient(k) ==
  /\ kpc[k] = "idle" /\ k \in ClientClosers
  /\ shut' = TRUE
  /\ kpc' = [kpc EXCEPT ![k] = IF shut THEN "skipped" ELSE "close"]
  /\ UNCHANGED <<adapterVars, cacheVars, callerVars, joined, cerr, cdone, sweepVars, swept>>

CloseAdapter(k) ==
  /\ kpc[k] = "idle" /\ k \notin ClientClosers
  /\ kpc' = [kpc EXCEPT ![k] = "close"]
  /\ UNCHANGED <<shut, adapterVars, cacheVars, callerVars, joined, cerr, cdone, sweepVars, swept>>

\* Close's critical section: join the cleanup that runs, or run one.
CloseEnter(k) ==
  /\ kpc[k] = "close"
  /\ closed' = TRUE
  /\ IF closing # Nobody
     THEN /\ joined' = [joined EXCEPT ![k] = closing] /\ kpc' = [kpc EXCEPT ![k] = "join"]
          /\ UNCHANGED closing
     ELSE closing' = k /\ kpc' = [kpc EXCEPT ![k] = "drain"] /\ UNCHANGED joined
  /\ UNCHANGED <<shut, running, cacheVars, callerVars, cerr, cdone, sweepVars, swept>>

\* Variant: a Close that joins does not wait for the cleanup's end.
CloseJoinedAtOnce(k) ==
  /\ kpc[k] = "join"
  /\ kpc' = [kpc EXCEPT ![k] = "done"]
  /\ cerr' = [cerr EXCEPT ![k] = first]
  /\ UNCHANGED <<shut, adapterVars, cacheVars, callerVars, joined, cdone, sweepVars, swept>>

\* The Close that joined returns the cleanup's result.
CloseJoined(k) ==
  /\ kpc[k] = "join" /\ cdone[joined[k]]
  /\ kpc' = [kpc EXCEPT ![k] = "done"]
  /\ cerr' = [cerr EXCEPT ![k] = cerr[joined[k]]]
  /\ UNCHANGED <<shut, adapterVars, cacheVars, callerVars, joined, cdone, sweepVars, swept>>

\* Variant: the cleanup does not wait for the running calls.
DrainAtOnce(k) ==
  /\ kpc[k] = "drain"
  /\ kpc' = [kpc EXCEPT ![k] = "lock"]
  /\ UNCHANGED <<shut, adapterVars, cacheVars, callerVars, joined, cerr, cdone, sweepVars, swept>>

\* running.Wait
Drain(k) ==
  /\ kpc[k] = "drain" /\ running = 0
  /\ kpc' = [kpc EXCEPT ![k] = "lock"]
  /\ UNCHANGED <<shut, adapterVars, cacheVars, callerVars, joined, cerr, cdone, sweepVars, swept>>

\* closeOwned takes the cache's lock.
SweepLock(k) ==
  /\ kpc[k] = "lock" /\ cacheMu = Nobody
  /\ cacheMu' = k /\ i' = 1 /\ kept' = <<>> /\ first' = "nil"
  /\ kpc' = [kpc EXCEPT ![k] = "sweep"]
  /\ UNCHANGED <<shut, adapterVars, owned, order, callerVars, joined, cerr, cdone, swept>>

\* One provider: not an io.Closer, closed, or failed and kept.
SweepDrop(k) ==
  /\ kpc[k] = "sweep" /\ i <= Len(order)
  /\ LET p == order[i]
     IN  /\ owned' = owned \ {p}
         /\ swept' = IF p \in Closable THEN [swept EXCEPT ![p] = @ + 1] ELSE swept
  /\ i' = i + 1
  /\ UNCHANGED <<shut, adapterVars, cacheMu, order, callerVars, closerVars, kept, first>>

SweepFail(k) ==
  /\ kpc[k] = "sweep" /\ i <= Len(order) /\ order[i] \in Closable
  /\ first' = "error" /\ kept' = Append(kept, order[i]) /\ i' = i + 1
  /\ UNCHANGED <<shut, adapterVars, cacheVars, callerVars, closerVars, swept>>

\* Variant: the deferred assignment forgets the providers not reached.
SweepEndKept(k) ==
  /\ order' = kept /\ cacheMu' = Nobody
  /\ kpc' = [kpc EXCEPT ![k] = "finish"]
  /\ UNCHANGED <<shut, adapterVars, owned, callerVars, joined, cdone, sweepVars, swept>>

\* The deferred assignment to order, and the unlock.
SweepEnd(k) ==
  /\ order' = kept \o SubSeq(order, i, Len(order)) /\ cacheMu' = Nobody
  /\ kpc' = [kpc EXCEPT ![k] = "finish"]
  /\ UNCHANGED <<shut, adapterVars, owned, callerVars, joined, cdone, sweepVars, swept>>

SweepReturn(k) ==
  /\ kpc[k] = "sweep" /\ i > Len(order)
  /\ cerr' = [cerr EXCEPT ![k] = first] /\ SweepEnd(k)

\* A provider's Close panics: cerr stays errCleanupPanicked.
SweepPanic(k) ==
  /\ kpc[k] = "sweep" /\ i <= Len(order) /\ order[i] \in Closable
  /\ UNCHANGED cerr /\ SweepEnd(k)

\* Close's deferred function: closing under mu, then the channel.
CloseFinish(k) ==
  /\ kpc[k] = "finish"
  /\ closing' = Nobody /\ kpc' = [kpc EXCEPT ![k] = "wake"]
  /\ UNCHANGED <<shut, closed, running, cacheVars, callerVars, joined, cerr, cdone, sweepVars, swept>>

CloseWake(k) ==
  /\ kpc[k] = "wake"
  /\ cdone' = [cdone EXCEPT ![k] = TRUE] /\ kpc' = [kpc EXCEPT ![k] = "done"]
  /\ UNCHANGED <<shut, adapterVars, cacheVars, callerVars, joined, cerr, sweepVars, swept>>

-----------------------------------------------------------------------------
CallerStep(c) ==
  \/ Usable(c) \/ Enter(c) \/ ServeBorrowed(c) \/ (\E p \in Keys : Lookup(c, p))
  \/ Built(c) \/ NotBuilt(c) \/ Used(c) \/ Done(c) \/ Again(c) \/ Return(c)

CloserStep(k) ==
  \/ CloseEnter(k) \/ CloseJoined(k) \/ Drain(k) \/ SweepLock(k)
  \/ SweepDrop(k) \/ SweepFail(k) \/ SweepReturn(k) \/ SweepPanic(k)
  \/ CloseFinish(k) \/ CloseWake(k)

LifeNext ==
  \/ \E c \in Callers : CallerStep(c)
  \/ \E k \in Closers : CloseClient(k) \/ CloseAdapter(k) \/ CloserStep(k)

LifeSpec == LifeInit /\ [][LifeNext]_lifeVars

\* Calls, factories and providers' Closes end; a lock that is free again and
\* again is taken (sync.Mutex does not starve).
FairLifeSpec ==
  /\ LifeSpec
  /\ \A c \in Callers : SF_lifeVars(CallerStep(c))
  /\ \A k \in Closers : SF_lifeVars(CloserStep(k))

-----------------------------------------------------------------------------
Injective(s) == \A m, n \in 1 .. Len(s) : s[m] = s[n] => m = n
Elements(s) == {s[n] : n \in 1 .. Len(s)}

\* The types of the Adapter's state.
LifeTypeOK ==
  /\ shut \in BOOLEAN /\ closed \in BOOLEAN /\ running \in Nat
  /\ closing \in Closers \cup {Nobody} /\ cacheMu \in Callers \cup Closers \cup {Nobody}
  /\ owned \subseteq Keys /\ order \in Seq(Keys)
  /\ cpc \in [Callers -> {"idle", "attempt", "lookup", "build", "use", "served", "failed", "done"}]
  /\ key \in [Callers -> Keys \cup {Nobody}] /\ attempts \in [Callers -> 0 .. MaxAttempts]
  /\ kpc \in [Closers -> {"idle", "skipped", "close", "join", "drain", "lock", "sweep",
                          "finish", "wake", "done"}]
  /\ joined \in [Closers -> Closers \cup {Nobody}]
  /\ cerr \in [Closers -> {"nil", "error", "panicked"}] /\ cdone \in [Closers -> BOOLEAN]
  /\ i \in Nat /\ kept \in Seq(Keys) /\ first \in {"nil", "error"}
  /\ swept \in [Keys -> Nat]

\* A call holds a provider only while the Adapter owns it: no Close reaches a
\* provider that a running call uses.
UsesOwned == \A c \in Callers : cpc[c] = "use" => key[c] \in owned

\* Whenever the cache's lock is free, order lists the owned providers, each
\* once: after a cleanup that failed half-way or panicked as well.
\* A provider is closed until its Close succeeds, and never again.
OwnedOnce ==
  /\ cacheMu = Nobody => Elements(order) = owned /\ Injective(order)
  /\ \A p \in Keys : swept[p] <= 1

\* Once a Close of the Adapter returned, no call runs in it; and when it
\* returned nil, its own cleanup or the one it joined left nothing owned.
CloseIsFinal ==
  \A k \in Closers : kpc[k] = "done" =>
    /\ running = 0
    /\ cerr[k] = "nil" => owned = {}

\* The calls between running.Add and running.Done, the providers they work
\* with, and the results of the Closes that returned.
Inside == {c \in Callers : cpc[c] \in {"lookup", "build", "use", "served"}}
InUse == [c \in Callers |-> IF cpc[c] = "use" THEN key[c] ELSE Nobody]
Answers == [k \in Closers |-> IF kpc[k] = "done" THEN cerr[k] ELSE "none"]

Closing == INSTANCE Shutdown WITH inside <- Inside, uses <- InUse, closes <- swept, answer <- Answers

\* Every behaviour of the Adapter is one of Shutdown: nobody enters once it is
\* closed, a provider is closed only when every call has left, once, and a
\* Close, joined or not, answers nil only when nothing is owned.
ImplementsShutdown == Closing!ShutdownSpec

\* Every Close returns, whoever runs the cleanup and however it ends.
ClosesReturn == \A k \in Closers : (kpc[k] = "close") ~> (kpc[k] = "done")
=============================================================================
