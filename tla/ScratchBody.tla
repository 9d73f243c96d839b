---------------------------- MODULE ScratchBody ----------------------------
(***************************************************************************)
(* The pooled, reference-counted request body of internal/codec/scratch.go.*)
(*                                                                         *)
(* One scratch is modelled: scratches share only the pool.  Its state word *)
(* packs a generation, a released flag and a reference count; every change *)
(* of it through a handle is a Load followed by a compare-and-swap, and    *)
(* the two are separate steps here.  A handle (Body) is a generation, and  *)
(* handles of every earlier generation stay in use: the transport may Open *)
(* or Release through one at any time.  Release runs on Droppers, each     *)
(* again and again; a reader is opened, read and closed on Readers, Read   *)
(* and Close on goroutines of their own.                                   *)
(*                                                                         *)
(* A buffer is named after the generation that allocated it, and holds the *)
(* bytes of the generation that last wrote it.                             *)
(***************************************************************************)
EXTENDS Integers, FiniteSets

CONSTANTS
  Readers,    \* BodyReader values, each opened once
  Droppers,   \* goroutines that call Release
  MaxGen,     \* bound: generations of the scratch (2^32 in the code)
  MaxRefs     \* stateRefs, the largest reference count

ASSUME ScratchAssumption ==
  MaxGen \in Nat /\ MaxRefs \in Nat \ {0} /\ IsFiniteSet(Readers)

VARIABLES
  word,     \* scratch.state
  buf,      \* scratch.buf: the generation that allocated it, 0 is nil
  big,      \* its capacity is past ScratchCeiling
  mem,      \* whose bytes each buffer holds
  pool,     \* how many times the scratch is in the pool
  bpc,      \* NewBody and the encoder
  saved,    \* the word NewBody loaded
  dpc, dgen, dword,    \* Release: where, through which handle, the word loaded
  rpc, rgen, rword,    \* a reader's Open, then its Close and unref
  data,     \* BodyReader.data
  closed,   \* BodyReader.closed
  reading   \* Read: it holds BodyReader.mu unless "off"

scratchVars == <<word, buf, big, mem, pool>>
dropVars == <<dpc, dgen, dword>>
readerVars == <<rpc, rgen, rword, data, closed, reading>>
svars == <<scratchVars, bpc, saved, dropVars, readerVars>>

Gens == 0..MaxGen
Words == [gen : Gens, rel : BOOLEAN, refs : 0..MaxRefs]
Fresh == [gen |-> 0, rel |-> FALSE, refs |-> 0]

\* Readers whose reference is counted: between Open's swap and unref's.
Counted == {x \in Readers : rpc[x] \in {"opened", "open", "closing", "unref"}}

\* A handle may be used once its body is built (an encoder that failed
\* leaves what it wrote, and the call releases it).
Handle(g) == g \in 1..word.gen /\ (g = word.gen => bpc = "built")

ScratchInit ==
  /\ word = Fresh /\ buf = 0 /\ big = FALSE /\ pool = 1
  /\ mem = [a \in 1..MaxGen |-> 0]
  /\ bpc = "none" /\ saved = Fresh
  /\ dpc = [p \in Droppers |-> "idle"]
  /\ dgen = [p \in Droppers |-> 0]
  /\ dword = [p \in Droppers |-> Fresh]
  /\ rpc = [x \in Readers |-> "idle"]
  /\ rgen = [x \in Readers |-> 0]
  /\ rword = [x \in Readers |-> Fresh]
  /\ data = [x \in Readers |-> 0]
  /\ closed = [x \in Readers |-> FALSE]
  /\ reading = [x \in Readers |-> "off"]

----------------------------------------------------------------------------
(* What the three loops read from a loaded word w, for a handle of         *)
(* generation g.                                                           *)

\* Variant: Open checks only the count.
OpenRefusedCount(w, g) == w.refs = 0

\* Open: ErrBodyReleased.
OpenRefused(w, g) == w.gen # g \/ w.refs = 0

\* Release: a stale handle, or not the first call.
ReleaseVoid(w, g) == w.gen # g \/ w.rel

\* unref: the panic.
UnrefBroken(w, g) == w.gen # g \/ w.refs = 0

\* Variant: the recycle never comes.
LastRefNever(w) == FALSE

\* The swap from w drops the last reference.
LastRef(w) == w.refs = 1

----------------------------------------------------------------------------
(* NewBody and the encoder.                                                *)

\* Get and the Load of the word.
NewLoad ==
  /\ pool > 0 /\ bpc \in {"none", "built"} /\ word.gen < MaxGen
  /\ pool' = pool - 1
  /\ saved' = word
  /\ bpc' = "store"
  /\ UNCHANGED <<word, buf, big, mem, dropVars, readerVars>>

\* A plain Store: what happened to the word since the Load is lost.
NewStore ==
  /\ bpc = "store"
  /\ word' = [gen |-> saved.gen + 1, rel |-> FALSE, refs |-> 1]
  /\ buf' = IF buf = 0 THEN saved.gen + 1 ELSE buf
  /\ bpc' = "build"
  /\ UNCHANGED <<big, mem, pool, saved, dropVars, readerVars>>

\* The encoder appends through Buffer; it may outgrow the buffer.
Build ==
  /\ bpc = "build"
  /\ \E grow \in BOOLEAN :
       /\ buf' = IF grow THEN word.gen ELSE buf
       /\ big' \in IF grow THEN BOOLEAN ELSE {big}
  /\ mem' = [mem EXCEPT ![buf'] = word.gen]
  /\ bpc' = "built"
  /\ UNCHANGED <<word, pool, saved, dropVars, readerVars>>

----------------------------------------------------------------------------
(* Release and recycle.                                                    *)

ReleaseLoad(p) ==
  /\ dpc[p] = "idle"
  /\ \E g \in 1..MaxGen :
       Handle(g) /\ dgen' = [dgen EXCEPT ![p] = g]
  /\ dword' = [dword EXCEPT ![p] = word]
  /\ dpc' = [dpc EXCEPT ![p] = "swap"]
  /\ UNCHANGED <<scratchVars, bpc, saved, readerVars>>

\* A stale handle or a second Release changes nothing; a swap that fails
\* loads again.
ReleaseSwap(p) ==
  /\ dpc[p] = "swap"
  /\ \/ /\ ReleaseVoid(dword[p], dgen[p])
        /\ dpc' = [dpc EXCEPT ![p] = "idle"]
        /\ UNCHANGED <<word, dword>>
     \/ /\ ~ReleaseVoid(dword[p], dgen[p])
        /\ \/ /\ word = dword[p]
              /\ word' = [word EXCEPT !.rel = TRUE, !.refs = @ - 1]
              /\ dpc' = [dpc EXCEPT ![p] = IF LastRef(word) THEN "recycle" ELSE "idle"]
              /\ UNCHANGED dword
           \/ /\ word # dword[p]
              /\ dword' = [dword EXCEPT ![p] = word]
              /\ UNCHANGED <<word, dpc>>
  /\ UNCHANGED <<buf, big, mem, pool, bpc, saved, dgen, readerVars>>

\* A buffer past the ceiling is dropped; the scratch goes back either way.
Recycle ==
  /\ buf' = IF big THEN 0 ELSE buf
  /\ big' = FALSE
  /\ pool' = pool + 1

ReleaseRecycle(p) ==
  /\ dpc[p] = "recycle"
  /\ Recycle
  /\ dpc' = [dpc EXCEPT ![p] = "idle"]
  /\ UNCHANGED <<word, mem, bpc, saved, dgen, dword, readerVars>>

----------------------------------------------------------------------------
(* Open, or GetBody.                                                       *)

OpenLoad(x) ==
  /\ rpc[x] = "idle"
  /\ \E g \in 1..MaxGen :
       Handle(g) /\ rgen' = [rgen EXCEPT ![x] = g]
  /\ rword' = [rword EXCEPT ![x] = word]
  /\ rpc' = [rpc EXCEPT ![x] = "swap"]
  /\ UNCHANGED <<scratchVars, bpc, saved, dropVars, data, closed, reading>>

\* ErrBodyReleased, the overflow panic, the new reference, or once more.
OpenSwap(x) ==
  /\ rpc[x] = "swap"
  /\ \/ /\ OpenRefused(rword[x], rgen[x])
        /\ rpc' = [rpc EXCEPT ![x] = "refused"]
        /\ UNCHANGED <<word, rword>>
     \/ /\ ~OpenRefused(rword[x], rgen[x]) /\ rword[x].refs = MaxRefs
        /\ rpc' = [rpc EXCEPT ![x] = "panicked"]
        /\ UNCHANGED <<word, rword>>
     \/ /\ ~OpenRefused(rword[x], rgen[x]) /\ rword[x].refs # MaxRefs
        /\ \/ /\ word = rword[x]
              /\ word' = [word EXCEPT !.refs = @ + 1]
              /\ rpc' = [rpc EXCEPT ![x] = "opened"]
              /\ UNCHANGED rword
           \/ /\ word # rword[x]
              /\ rword' = [rword EXCEPT ![x] = word]
              /\ UNCHANGED <<word, rpc>>
  /\ UNCHANGED <<buf, big, mem, pool, bpc, saved, dropVars, rgen, data, closed, reading>>

\* Open reads the buffer only after its swap.
OpenBuf(x) ==
  /\ rpc[x] = "opened"
  /\ data' = [data EXCEPT ![x] = buf]
  /\ rpc' = [rpc EXCEPT ![x] = "open"]
  /\ UNCHANGED <<scratchVars, bpc, saved, dropVars, rgen, rword, closed, reading>>

----------------------------------------------------------------------------
(* Read and Close.                                                         *)

\* Read locks mu and looks at closed.
ReadLock(x) ==
  /\ rpc[x] \in {"open", "closing", "unref", "recycle", "done"} /\ reading[x] = "off"
  /\ reading' = [reading EXCEPT ![x] = "locked"]
  /\ UNCHANGED <<scratchVars, bpc, saved, dropVars, rpc, rgen, rword, data, closed>>

ReadCheck(x) ==
  /\ reading[x] = "locked"
  /\ reading' = [reading EXCEPT ![x] = IF closed[x] THEN "off" ELSE "copying"]
  /\ UNCHANGED <<scratchVars, bpc, saved, dropVars, rpc, rgen, rword, data, closed>>

\* The copy, and the unlock.
ReadCopy(x) ==
  /\ reading[x] = "copying"
  /\ reading' = [reading EXCEPT ![x] = "off"]
  /\ UNCHANGED <<scratchVars, bpc, saved, dropVars, rpc, rgen, rword, data, closed>>

\* Close wins the flag; a second Close returns.
CloseFlag(x) ==
  /\ rpc[x] = "open"
  /\ closed' = [closed EXCEPT ![x] = TRUE]
  /\ rpc' = [rpc EXCEPT ![x] = "closing"]
  /\ UNCHANGED <<scratchVars, bpc, saved, dropVars, rgen, rword, data, reading>>

\* Variant: Close does not wait for a Read.
CloseAtOnce(x) ==
  /\ rpc[x] = "closing"
  /\ data' = [data EXCEPT ![x] = 0]
  /\ rword' = [rword EXCEPT ![x] = word]
  /\ rpc' = [rpc EXCEPT ![x] = "unref"]
  /\ UNCHANGED <<scratchVars, bpc, saved, dropVars, rgen, closed, reading>>

\* Close waits for mu, then unref loads the word.
CloseWait(x) ==
  /\ rpc[x] = "closing" /\ reading[x] = "off"
  /\ data' = [data EXCEPT ![x] = 0]
  /\ rword' = [rword EXCEPT ![x] = word]
  /\ rpc' = [rpc EXCEPT ![x] = "unref"]
  /\ UNCHANGED <<scratchVars, bpc, saved, dropVars, rgen, closed, reading>>

\* unref's checks on the word it loaded: it panics, swaps, or loads again.
Unref(x) ==
  /\ rpc[x] = "unref"
  /\ \/ /\ UnrefBroken(rword[x], rgen[x])
        /\ rpc' = [rpc EXCEPT ![x] = "panicked"]
        /\ UNCHANGED <<word, rword>>
     \/ /\ ~UnrefBroken(rword[x], rgen[x])
        /\ \/ /\ word = rword[x]
              /\ word' = [word EXCEPT !.refs = @ - 1]
              /\ rpc' = [rpc EXCEPT ![x] = IF LastRef(word) THEN "recycle" ELSE "done"]
              /\ UNCHANGED rword
           \/ /\ word # rword[x]
              /\ rword' = [rword EXCEPT ![x] = word]
              /\ UNCHANGED <<word, rpc>>
  /\ UNCHANGED <<buf, big, mem, pool, bpc, saved, dropVars, rgen, data, closed, reading>>

UnrefRecycle(x) ==
  /\ rpc[x] = "recycle"
  /\ Recycle
  /\ rpc' = [rpc EXCEPT ![x] = "done"]
  /\ UNCHANGED <<word, mem, bpc, saved, dropVars, rgen, rword, data, closed, reading>>

Drop(p) == ReleaseSwap(p) \/ ReleaseRecycle(p)
Shut(x) == Unref(x) \/ UnrefRecycle(x)
Read(x) == ReadCheck(x) \/ ReadCopy(x)

ScratchNext ==
  \/ NewLoad \/ NewStore \/ Build
  \/ \E p \in Droppers : ReleaseLoad(p) \/ ReleaseSwap(p) \/ ReleaseRecycle(p)
  \/ \E x \in Readers :
       \/ OpenLoad(x) \/ OpenSwap(x) \/ OpenBuf(x)
       \/ ReadLock(x) \/ ReadCheck(x) \/ ReadCopy(x)
       \/ CloseFlag(x) \/ CloseWait(x) \/ Unref(x) \/ UnrefRecycle(x)

ScratchSpec == ScratchInit /\ [][ScratchNext]_svars

----------------------------------------------------------------------------
(* Properties.                                                             *)

ScratchTypeOK ==
  /\ word \in Words /\ saved \in Words
  /\ buf \in Gens /\ big \in BOOLEAN /\ pool \in Nat
  /\ mem \in [1..MaxGen -> Gens]
  /\ bpc \in {"none", "store", "build", "built"}
  /\ dpc \in [Droppers -> {"idle", "swap", "recycle"}]
  /\ dgen \in [Droppers -> Gens] /\ dword \in [Droppers -> Words]
  /\ rpc \in [Readers -> {"idle", "swap", "refused", "panicked", "opened", "open",
                          "closing", "unref", "recycle", "done"}]
  /\ rgen \in [Readers -> Gens] /\ rword \in [Readers -> Words]
  /\ data \in [Readers -> Gens]
  /\ closed \in [Readers -> BOOLEAN]
  /\ reading \in [Readers -> {"off", "locked", "copying"}]

\* A Read that copies, copies the bytes of its own body: neither a recycle
\* under it nor a stale handle shows it the bytes of another call.
ReadsOwnBody ==
  \A x \in Readers :
    reading[x] = "copying" => data[x] # 0 /\ mem[data[x]] = rgen[x]

\* A body a reader refers to keeps its generation and a reference, also in
\* the word unref has loaded: unref never panics.
ReadersKeepBody ==
  \A x \in Counted :
    /\ word.gen = rgen[x] /\ word.refs > 0
    /\ rpc[x] = "unref" => rword[x].gen = rgen[x] /\ rword[x].refs > 0

\* The count is the readers' references and the call's own.
RefsExact ==
  bpc # "store" /\ word.gen > 0 =>
    word.refs = Cardinality(Counted) + IF word.rel THEN 0 ELSE 1

\* The scratch is in the pool at most once, and only when nobody refers to
\* its body and no recycle of it is under way.
PooledAlone ==
  /\ pool <= 1
  /\ pool = 1 => /\ word.refs = 0 /\ Counted = {}
                 /\ \A p \in Droppers : dpc[p] # "recycle"
                 /\ \A x \in Readers : rpc[x] # "recycle"

\* NewBody's plain Store loses nothing: no handle changes the word of a
\* scratch that was taken from the pool.
StoreLosesNothing == bpc = "store" => word = saved

(***************************************************************************)
(* The scratch as memory that is leased: its call has the body until       *)
(* Release's swap, a reader from Open's swap to unref's, and an Open that  *)
(* panics on the largest count never returns.                              *)
(***************************************************************************)
Home == CASE pool = 1 -> "pool"
          [] pool # 1 /\ bpc \in {"store", "build"} -> "making"
          [] OTHER -> "out"

InCall == word.gen > 0 /\ ~word.rel

OpensOf == [x \in Readers |-> IF rpc[x] \in {"swap", "panicked"} THEN rgen[x] ELSE 0]

ReleasesOf == [p \in Droppers |-> IF dpc[p] = "swap" THEN dgen[p] ELSE 0]

LeaseOf == [x \in Readers |-> IF x \in Counted THEN rgen[x] ELSE 0]

\* A Read that copies from a slice that is gone shows no body there is.
ShownTo == [x \in Readers |-> IF reading[x] # "copying" THEN 0
                              ELSE IF data[x] = 0 THEN -1 ELSE mem[data[x]]]

Lease == INSTANCE LeasedBody WITH gen <- word.gen, call <- InCall, home <- Home, asks <- OpensOf,
                                  drops <- ReleasesOf, lease <- LeaseOf, sees <- ShownTo

\* Every behaviour of the scratch is one of LeasedBody: Open and Release take
\* effect at one instant though each is a load and a swap, a stale handle has
\* none, and the memory is reused only when nobody has a body in it.
ImplementsLease == Lease!LeaseSpec

\* The call has returned and every reader of its body was told to close.
Dropped == bpc = "built" /\ word.rel /\ \A x \in Counted : closed[x]

\* Such a body goes back to the pool, unless a replay opens it again: the
\* last of the droppers racing on the word recycles it.
Recycled == Dropped ~> pool = 1 \/ ~Dropped

\* Goroutines run on, and a Close that waits for mu gets it in the end,
\* however often Read is called (sync.Mutex does not starve a waiter).
ScratchFair ==
  /\ \A p \in Droppers : WF_svars(Drop(p))
  /\ \A x \in Readers : WF_svars(Read(x)) /\ SF_svars(CloseWait(x)) /\ WF_svars(Shut(x))

FairScratchSpec == ScratchSpec /\ ScratchFair
============================================================================
