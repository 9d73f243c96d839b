---------------------------- MODULE TokenProofs ----------------------------
(***************************************************************************)
(* The safety properties of Token, for every number of requests and        *)
(* connections and every bound on replays and marks.                       *)
(*                                                                         *)
(* The invariant accounts for the token and for the connection that is     *)
(* being settled.  A call that left the stock transport has given the      *)
(* token back, or never had it and has no hook and no timer that could     *)
(* give it.  As long as nothing is loose, the live HTTP/2 connection that  *)
(* no response came over yet has one guard: the holder that keeps the      *)
(* token for it, or a mark in unsettled that the next holder will find.    *)
(***************************************************************************)
EXTENDS Token, FiniteSetTheorems, SequenceTheorems, TLAPS

\* A call with no hook to run and no timer.
Untouched(r) == ~due[r] /\ ~late[r] /\ hpc[r] = "off" /\ hold[r] = "none"

Calls ==
  \A r \in Requests :
    /\ spc[r] \in {"idle", "tokenWait"} => ~given[r] /\ at[r] = "out" /\ conn[r] = NoConn /\ Untouched(r)
    /\ spc[r] = "stop" => given[r]
    /\ spc[r] = "done" => given[r] \/ Untouched(r)
    /\ ok[r] => spc[r] \in {"give", "stop", "done"} /\ conn[r] \in settled
    /\ at[r] = "sent" => conn[r] \in Conns

\* A timer that is left when its call has returned is one that the hook will
\* still look at.
Timers == \A r \in Requests : spc[r] = "done" /\ hold[r] = "armed" => hpc[r] = "armed"

\* The stock transport's connections.
Connections ==
  /\ live \subseteq dialed
  /\ \A c, d \in LiveH2 : c = d
  /\ \A c \in Conns \ dialed : holders[c] = {} /\ \A r \in Requests : marked[r] # c

\* h keeps the token for c until a response, and no one else had it there.
Keeps(h, c) ==
  /\ Holds(h) /\ spc[h] = "stock" /\ first[h] /\ conn[h] = c
  /\ holders[c] \subseteq {h}

Awaits(c) == Marked(c) /\ holders[c] = {}

Guarded == \A c \in LiveH2 \ settled : Awaits(c) \/ \E h \in Requests : Keeps(h, c)

\* Only the request that a mark is for can clear it without taking it.
MarksKnown == \A r \in Requests, c \in LiveH2 \ settled : marked[r] = c => conn[r] = c

OneHolder == \A c \in Conns \ settled : \A r, s \in holders[c] : r = s

TInv ==
  /\ TokenTypeOK /\ TokenConserved /\ Calls /\ Timers /\ Connections
  /\ MarksKnown /\ (~loose => Guarded /\ OneHolder)

----------------------------------------------------------------------------
(* Giving the token back, and the marks.                                   *)

\* giveBack by a call that holds the token frees it; by one that has given it
\* does nothing.
LEMMA GiveBackConserves ==
  ASSUME TokenTypeOK, TokenConserved, NEW r \in Requests, GiveBack(r),
         given[r] \/ Holds(r), \A q \in Requests \ {r} : spc'[q] = spc[q]
  PROVE  /\ given' = [given EXCEPT ![r] = TRUE] /\ tok' \in {0, 1}
         /\ given' \in [Requests -> BOOLEAN]
         /\ TokenConserved'
<1>1. given' = [given EXCEPT ![r] = TRUE]
  BY DEF GiveBack, TokenTypeOK
<1>2. given' \in [Requests -> BOOLEAN] /\ given'[r] /\ \A q \in Requests \ {r} : given'[q] = given[q]
  BY <1>1 DEF TokenTypeOK
<1>3. \A q \in Requests : Holds(q)' <=> q # r /\ Holds(q)
  BY <1>2 DEF Holds
<1>4. CASE given[r]
  <2>1. ~Holds(r) /\ tok' = tok
    BY <1>4 DEF Holds, GiveBack
  <2> QED
    BY <1>1, <1>2, <1>3, <2>1 DEF TokenConserved, TokenTypeOK
<1>5. CASE ~given[r]
  <2>1. Holds(r) /\ tok' = tok - 1
    BY <1>5 DEF GiveBack
  <2>2. tok = 1 /\ \A q \in Requests : Holds(q) => q = r
    BY <2>1 DEF TokenConserved
  <2> QED
    BY <1>1, <1>2, <1>3, <2>1, <2>2 DEF TokenConserved
<1> QED
  BY <1>4, <1>5

\* A mark of another connection stays when one is taken, and the list keeps
\* its type.
LEMMA TakeKeepsOthers ==
  ASSUME TokenTypeOK, NEW c, TakeUnsettled(c)
  PROVE  /\ unsettled' \in Seq(Conns) /\ Len(unsettled') <= MaxUnsettled
         /\ \A d : d # c /\ Marked(d) => Marked(d)'
<1>1. CASE ~Marked(c)
  BY <1>1 DEF TakeUnsettled, TokenTypeOK, Marked
<1>2. CASE Marked(c)
  <2>1. PICK n \in 1 .. Len(unsettled) : unsettled[n] = c /\ unsettled' = Without(unsettled, n)
    BY <1>2 DEF TakeUnsettled
  <2> DEFINE a == SubSeq(unsettled, 1, n - 1)
             b == SubSeq(unsettled, n + 1, Len(unsettled))
  <2>2. Len(unsettled) \in Nat /\ unsettled \in [1 .. Len(unsettled) -> Conns] /\ MaxUnsettled \in Nat
    BY LenProperties, TokenAssumption DEF TokenTypeOK
  <2>3. a \in Seq(Conns) /\ Len(a) = n - 1 /\ \A m \in 1 .. n - 1 : a[m] = unsettled[m]
    <3>1. n - 1 \in Int /\ \A m \in 1 .. n - 1 : unsettled[m] \in Conns
      BY <2>2
    <3>2. /\ a \in Seq(Conns) /\ Len(a) = IF 1 <= n - 1 THEN (n - 1) - 1 + 1 ELSE 0
          /\ \A m \in 1 .. (n - 1) - 1 + 1 : a[m] = unsettled[1 + m - 1]
      BY <3>1, SubSeqProperties
    <3> QED
      BY <2>2, <3>2
  <2>4. /\ b \in Seq(Conns) /\ Len(b) = Len(unsettled) - n
        /\ \A m \in 1 .. Len(unsettled) - n : b[m] = unsettled[n + m]
    <3>1. n + 1 \in Int /\ Len(unsettled) \in Int /\ \A m \in n + 1 .. Len(unsettled) : unsettled[m] \in Conns
      BY <2>2
    <3>2. /\ b \in Seq(Conns)
          /\ Len(b) = IF n + 1 <= Len(unsettled) THEN Len(unsettled) - (n + 1) + 1 ELSE 0
          /\ \A m \in 1 .. Len(unsettled) - (n + 1) + 1 : b[m] = unsettled[(n + 1) + m - 1]
      BY <3>1, SubSeqProperties
    <3> HIDE DEF a, b
    <3>3. Len(b) = Len(unsettled) - n
      <4>1. n \in Nat /\ n <= Len(unsettled) /\ Len(unsettled) \in Nat
        BY <2>2
      <4>2. Len(b) = IF n + 1 <= Len(unsettled) THEN Len(unsettled) - (n + 1) + 1 ELSE 0
        BY <3>2
      <4>3. CASE n + 1 <= Len(unsettled)
        <5>1. Len(b) = Len(unsettled) - (n + 1) + 1
          BY <4>2, <4>3
        <5> QED
          BY <4>1, <5>1
      <4>4. CASE ~(n + 1 <= Len(unsettled))
        <5>1. Len(b) = 0
          BY <4>2, <4>4
        <5>2. n = Len(unsettled)
          BY <4>1, <4>4
        <5> QED
          BY <4>1, <5>1, <5>2
      <4> QED
        BY <4>3, <4>4
    <3>4. ASSUME NEW m \in 1 .. Len(unsettled) - n PROVE b[m] = unsettled[n + m]
      <4>1. m \in 1 .. Len(unsettled) - (n + 1) + 1 /\ (n + 1) + m - 1 = n + m
        BY <2>2
      <4> QED
        BY <3>2, <4>1
    <3> QED
      BY <3>2, <3>3, <3>4
  <2>5. unsettled' = a \o b
    BY <2>1 DEF Without
  <2> HIDE DEF a, b
  <2>6. /\ unsettled' \in Seq(Conns) /\ Len(unsettled') = Len(unsettled) - 1
        /\ \A m \in 1 .. Len(unsettled) - 1 :
             unsettled'[m] = IF m <= n - 1 THEN a[m] ELSE b[m - (n - 1)]
    <3>1. /\ a \o b \in Seq(Conns) /\ Len(a \o b) = Len(a) + Len(b)
          /\ \A m \in 1 .. Len(a) + Len(b) : (a \o b)[m] = IF m <= Len(a) THEN a[m] ELSE b[m - Len(a)]
      BY <2>3, <2>4, ConcatProperties
    <3>2. Len(a) + Len(b) = Len(unsettled) - 1
      BY <2>2, <2>3, <2>4
    <3> QED
      BY <2>3, <2>5, <3>1, <3>2
  <2>7. ASSUME NEW d, d # c, Marked(d) PROVE Marked(d)'
    <3>1. PICK m \in 1 .. Len(unsettled) : unsettled[m] = d
      BY <2>7 DEF Marked
    <3>2. m # n
      BY <2>1, <2>7, <3>1
    <3>3. CASE m < n
      <4>1. m \in 1 .. n - 1 /\ m \in 1 .. Len(unsettled) - 1 /\ m <= n - 1
        BY <2>2, <3>1, <3>3
      <4>2. unsettled'[m] = d
        BY <2>3, <2>6, <3>1, <4>1
      <4> QED
        BY <2>6, <4>1, <4>2 DEF Marked
    <3>4. CASE m > n
      <4>1. /\ m - 1 \in 1 .. Len(unsettled) - 1 /\ ~(m - 1 <= n - 1)
            /\ (m - 1) - (n - 1) = m - n /\ m - n \in 1 .. Len(unsettled) - n /\ n + (m - n) = m
        BY <2>2, <3>1, <3>4
      <4>2. unsettled'[m - 1] = d
        BY <2>4, <2>6, <3>1, <4>1
      <4> QED
        BY <2>6, <4>1, <4>2 DEF Marked
    <3> QED
      BY <2>2, <3>2, <3>3, <3>4
  <2> QED
    BY <2>2, <2>6, <2>7 DEF TokenTypeOK
<1> QED
  BY <1>1, <1>2

\* A new mark is there, whether or not the oldest one had to go.
LEMMA MarkMarks ==
  ASSUME TokenTypeOK, NEW c \in Conns, MarkUnsettled(c)
  PROVE  unsettled' \in Seq(Conns) /\ Len(unsettled') <= MaxUnsettled /\ Marked(c)'
<1> DEFINE s == IF Len(unsettled) = MaxUnsettled THEN Tail(unsettled) ELSE unsettled
<1>1. Len(unsettled) \in Nat /\ unsettled \in Seq(Conns) /\ MaxUnsettled \in Nat \ {0}
  BY LenProperties, TokenAssumption DEF TokenTypeOK
<1>2. s \in Seq(Conns) /\ Len(s) \in Nat /\ Len(s) < MaxUnsettled
  <2>1. CASE Len(unsettled) = MaxUnsettled
    <3>1. unsettled # <<>>
      BY <1>1, <2>1, EmptySeq
    <3> QED
      BY <1>1, <2>1, <3>1, HeadTailProperties
  <2>2. CASE Len(unsettled) # MaxUnsettled
    BY <1>1, <2>2 DEF TokenTypeOK
  <2> QED
    BY <2>1, <2>2
<1>3. unsettled' = Append(s, c)
  BY DEF MarkUnsettled
<1> HIDE DEF s
<1>4. /\ unsettled' \in Seq(Conns) /\ Len(unsettled') = Len(s) + 1
      /\ unsettled'[Len(s) + 1] = c
  BY <1>2, <1>3, AppendProperties
<1> QED
  BY <1>1, <1>2, <1>4 DEF Marked

----------------------------------------------------------------------------
(* The guard of the live connection.                                       *)

\* A step that hands out no connection keeps the guard when it keeps the marks
\* of live connections, and every call that keeps the token for one of them
\* still does or has settled it.
LEMMA GuardStays ==
  ASSUME Guarded, OneHolder, LiveH2' \subseteq LiveH2, settled \subseteq settled', holders' = holders,
         \A c \in LiveH2 \ settled : Marked(c) => Marked(c)',
         \A h \in Requests, c \in LiveH2 \ settled : Keeps(h, c) => c \in settled' \/ Keeps(h, c)'
  PROVE  Guarded' /\ OneHolder'
<1>1. LiveH2' \ settled' \subseteq LiveH2 \ settled
  OBVIOUS
<1>2. Guarded'
  <2> SUFFICES ASSUME NEW c \in (LiveH2 \ settled)'
               PROVE  Awaits(c)' \/ \E h \in Requests : Keeps(h, c)'
    BY DEF Guarded
  <2>1. c \in LiveH2 \ settled /\ c \notin settled'
    BY <1>1
  <2>2. CASE Awaits(c)
    BY <2>1, <2>2 DEF Awaits
  <2>3. CASE \E h \in Requests : Keeps(h, c)
    BY <2>1, <2>3
  <2> QED
    BY <2>1, <2>2, <2>3 DEF Guarded
<1>3. OneHolder'
  BY DEF OneHolder
<1> QED
  BY <1>2, <1>3

\* With the list unchanged, so are the marks.
LEMMA MarksStay == ASSUME unsettled' = unsettled, NEW c PROVE Marked(c)' <=> Marked(c)
BY DEF Marked

----------------------------------------------------------------------------
(* The invariant holds initially, and every step keeps it.                 *)

\* The invariant holds of a new Transport.
LEMMA TInvInit == TokenInit => TInv
<1> SUFFICES ASSUME TokenInit PROVE TInv
  OBVIOUS
<1>1. TokenTypeOK
  <2>1. unsettled \in Seq(Conns) /\ Len(unsettled) <= MaxUnsettled
    BY EmptySeq, TokenAssumption DEF TokenInit
  <2>2. tstats \in [firstHolds : Nat, settleHolds : Nat, holdExpiries : Nat]
    BY DEF TokenInit
  <2>3. replays \in 0 .. MaxReplays
    BY TokenAssumption DEF TokenInit
  <2>4. /\ given \in [Requests -> BOOLEAN] /\ first \in [Requests -> BOOLEAN]
        /\ late \in [Requests -> BOOLEAN] /\ due \in [Requests -> BOOLEAN]
        /\ ok \in [Requests -> BOOLEAN]
    BY DEF TokenInit
  <2> QED
    BY <2>1, <2>2, <2>3, <2>4 DEF TokenInit, TokenTypeOK, SPCs
<1>2. TokenConserved
  BY DEF TokenInit, TokenConserved, Holds
<1>3. Calls /\ Timers
  BY DEF TokenInit, Calls, Timers, Untouched
<1>4. Connections /\ MarksKnown /\ Guarded
  BY TokenAssumption DEF TokenInit, Connections, MarksKnown, Guarded, LiveH2
<1>5. OneHolder
  BY DEF TokenInit, OneHolder
<1> QED
  BY <1>1, <1>2, <1>3, <1>4, <1>5 DEF TInv

\* The token was free.
LEMMA SendFreeKeeps == ASSUME TInv, NEW r \in Requests, SendFree(r) PROVE TInv'
<1> USE DEF TInv, transportVars, callVars, stockVars, history
<1>1. TokenTypeOK'
  BY DEF TokenTypeOK, SPCs, SendFree, EnterStock
<1>2. TokenConserved'
  <2>1. \A q \in Requests : ~Holds(q)
    BY DEF TokenConserved, SendFree
  <2>2. ~given[r]
    BY DEF Calls, SendFree
  <2>3. \A q \in Requests : Holds(q)' <=> q = r
    BY <2>1, <2>2 DEF Holds, SendFree, EnterStock, TokenTypeOK
  <2>4. tok' = 1
    BY DEF SendFree
  <2> QED
    BY <2>3, <2>4 DEF TokenConserved
<1>3. Calls'
  BY DEF Calls, Untouched, SendFree, EnterStock, TokenTypeOK
<1>4. Timers'
  BY DEF Timers, SendFree, EnterStock, TokenTypeOK
<1>5. Connections'
  BY DEF Connections, LiveH2, SendFree
<1>6. MarksKnown'
  BY DEF MarksKnown, LiveH2, SendFree
<1>7. ASSUME ~loose' PROVE Guarded' /\ OneHolder'
  <2>1. ~loose /\ LiveH2' \subseteq LiveH2 /\ settled \subseteq settled' /\ holders' = holders
    BY <1>7 DEF SendFree, TokenTypeOK, LiveH2
  <2>2. \A c \in LiveH2 \ settled : Marked(c) => Marked(c)'
    BY MarksStay DEF SendFree
  <2>3. ASSUME NEW h \in Requests, NEW c \in LiveH2 \ settled, Keeps(h, c)
        PROVE  c \in settled' \/ Keeps(h, c)'
    BY <1>7, <2>1, <2>3 DEF Keeps, Holds, SendFree, EnterStock, TokenTypeOK
  <2> QED
    BY <2>1, <2>2, <2>3, GuardStays
<1> QED
  BY <1>1, <1>2, <1>3, <1>4, <1>5, <1>6, <1>7

\* The token was not free.
LEMMA SendBusyKeeps == ASSUME TInv, NEW r \in Requests, SendBusy(r) PROVE TInv'
<1> USE DEF TInv, transportVars, callVars, stockVars, history
<1>1. TokenTypeOK'
  BY DEF TokenTypeOK, SPCs, SendBusy, EnterStock
<1>2. TokenConserved'
  BY DEF TokenConserved, Holds, SendBusy, EnterStock, TokenTypeOK
<1>3. Calls'
  BY DEF Calls, Untouched, SendBusy, EnterStock, TokenTypeOK
<1>4. Timers'
  BY DEF Timers, SendBusy, EnterStock, TokenTypeOK
<1>5. Connections'
  BY DEF Connections, LiveH2, SendBusy
<1>6. MarksKnown'
  BY DEF MarksKnown, LiveH2, SendBusy
<1>7. ASSUME ~loose' PROVE Guarded' /\ OneHolder'
  <2>1. ~loose /\ LiveH2' \subseteq LiveH2 /\ settled \subseteq settled' /\ holders' = holders
    BY <1>7 DEF SendBusy, TokenTypeOK, LiveH2
  <2>2. \A c \in LiveH2 \ settled : Marked(c) => Marked(c)'
    BY MarksStay DEF SendBusy
  <2>3. ASSUME NEW h \in Requests, NEW c \in LiveH2 \ settled, Keeps(h, c)
        PROVE  c \in settled' \/ Keeps(h, c)'
    BY <1>7, <2>1, <2>3 DEF Keeps, Holds, SendBusy, EnterStock, TokenTypeOK
  <2> QED
    BY <2>1, <2>2, <2>3, GuardStays
<1> QED
  BY <1>1, <1>2, <1>3, <1>4, <1>5, <1>6, <1>7

\* The wait for the token ends with it.
LEMMA TokenTakenKeeps == ASSUME TInv, NEW r \in Requests, TokenTaken(r) PROVE TInv'
<1> USE DEF TInv, transportVars, callVars, stockVars, history
<1>1. TokenTypeOK'
  BY DEF TokenTypeOK, SPCs, TokenTaken, EnterStock
<1>2. TokenConserved'
  <2>1. \A q \in Requests : ~Holds(q)
    BY DEF TokenConserved, TokenTaken
  <2>2. ~given[r]
    BY DEF Calls, TokenTaken
  <2>3. \A q \in Requests : Holds(q)' <=> q = r
    BY <2>1, <2>2 DEF Holds, TokenTaken, EnterStock, TokenTypeOK
  <2>4. tok' = 1
    BY DEF TokenTaken
  <2> QED
    BY <2>3, <2>4 DEF TokenConserved
<1>3. Calls'
  BY DEF Calls, Untouched, TokenTaken, EnterStock, TokenTypeOK
<1>4. Timers'
  BY DEF Timers, TokenTaken, EnterStock, TokenTypeOK
<1>5. Connections'
  BY DEF Connections, LiveH2, TokenTaken
<1>6. MarksKnown'
  BY DEF MarksKnown, LiveH2, TokenTaken
<1>7. ASSUME ~loose' PROVE Guarded' /\ OneHolder'
  <2>1. ~loose /\ LiveH2' \subseteq LiveH2 /\ settled \subseteq settled' /\ holders' = holders
    BY <1>7 DEF TokenTaken, TokenTypeOK, LiveH2
  <2>2. \A c \in LiveH2 \ settled : Marked(c) => Marked(c)'
    BY MarksStay DEF TokenTaken
  <2>3. ASSUME NEW h \in Requests, NEW c \in LiveH2 \ settled, Keeps(h, c)
        PROVE  c \in settled' \/ Keeps(h, c)'
    BY <1>7, <2>1, <2>3 DEF Keeps, Holds, TokenTaken, EnterStock, TokenTypeOK
  <2> QED
    BY <2>1, <2>2, <2>3, GuardStays
<1> QED
  BY <1>1, <1>2, <1>3, <1>4, <1>5, <1>6, <1>7

\* The request's context ended the wait.
LEMMA TokenCtxKeeps == ASSUME TInv, NEW r \in Requests, TokenCtx(r) PROVE TInv'
<1> USE DEF TInv, transportVars, callVars, stockVars, history
<1>1. TokenTypeOK'
  BY DEF TokenTypeOK, SPCs, TokenCtx, EnterStock
<1>2. TokenConserved'
  BY DEF TokenConserved, Holds, TokenCtx, EnterStock, TokenTypeOK
<1>3. Calls'
  BY DEF Calls, Untouched, TokenCtx, EnterStock, TokenTypeOK
<1>4. Timers'
  BY DEF Timers, Calls, Untouched, TokenCtx, TokenTypeOK
<1>5. Connections'
  BY DEF Connections, LiveH2, TokenCtx
<1>6. MarksKnown'
  BY DEF MarksKnown, LiveH2, TokenCtx
<1>7. ASSUME ~loose' PROVE Guarded' /\ OneHolder'
  <2>1. ~loose /\ LiveH2' \subseteq LiveH2 /\ settled \subseteq settled' /\ holders' = holders
    BY <1>7 DEF TokenCtx, TokenTypeOK, LiveH2
  <2>2. \A c \in LiveH2 \ settled : Marked(c) => Marked(c)'
    BY MarksStay DEF TokenCtx
  <2>3. ASSUME NEW h \in Requests, NEW c \in LiveH2 \ settled, Keeps(h, c)
        PROVE  c \in settled' \/ Keeps(h, c)'
    BY <1>7, <2>1, <2>3 DEF Keeps, Holds, TokenCtx, EnterStock, TokenTypeOK
  <2> QED
    BY <2>1, <2>2, <2>3, GuardStays
<1> QED
  BY <1>1, <1>2, <1>3, <1>4, <1>5, <1>6, <1>7

\* The hold bound ended the wait.
LEMMA TokenExpiredKeeps == ASSUME TInv, NEW r \in Requests, TokenExpired(r) PROVE TInv'
<1> USE DEF TInv, transportVars, callVars, stockVars, history
<1>1. TokenTypeOK'
  BY DEF TokenTypeOK, SPCs, TokenExpired, EnterStock
<1>2. TokenConserved'
  BY DEF TokenConserved, Holds, TokenExpired, EnterStock, TokenTypeOK
<1>3. Calls'
  BY DEF Calls, Untouched, TokenExpired, EnterStock, TokenTypeOK
<1>4. Timers'
  BY DEF Timers, TokenExpired, EnterStock, TokenTypeOK
<1>5. Connections'
  BY DEF Connections, LiveH2, TokenExpired
<1>6. MarksKnown'
  BY DEF MarksKnown, LiveH2, TokenExpired
<1>7. ASSUME ~loose' PROVE Guarded' /\ OneHolder'
  <2>1. ~loose /\ LiveH2' \subseteq LiveH2 /\ settled \subseteq settled' /\ holders' = holders
    BY <1>7 DEF TokenExpired, TokenTypeOK, LiveH2
  <2>2. \A c \in LiveH2 \ settled : Marked(c) => Marked(c)'
    BY MarksStay DEF TokenExpired
  <2>3. ASSUME NEW h \in Requests, NEW c \in LiveH2 \ settled, Keeps(h, c)
        PROVE  c \in settled' \/ Keeps(h, c)'
    BY <1>7, <2>1, <2>3 DEF Keeps, Holds, TokenExpired, EnterStock, TokenTypeOK
  <2> QED
    BY <2>1, <2>2, <2>3, GuardStays
<1> QED
  BY <1>1, <1>2, <1>3, <1>4, <1>5, <1>6, <1>7

\* The stock transport looks for a connection.
LEMMA GetConnKeeps == ASSUME TInv, NEW r \in Requests, GetConn(r) PROVE TInv'
<1> USE DEF TInv, transportVars, callVars, stockVars, history
<1>1. TokenTypeOK'
  BY DEF TokenTypeOK, SPCs, GetConn, EnterStock
<1>2. TokenConserved'
  BY DEF TokenConserved, Holds, GetConn, EnterStock, TokenTypeOK
<1>3. Calls'
  BY DEF Calls, Untouched, GetConn, EnterStock, TokenTypeOK
<1>4. Timers'
  BY DEF Timers, GetConn, EnterStock, TokenTypeOK
<1>5. Connections'
  BY DEF Connections, LiveH2, GetConn
<1>6. MarksKnown'
  BY DEF MarksKnown, LiveH2, GetConn
<1>7. ASSUME ~loose' PROVE Guarded' /\ OneHolder'
  <2>1. ~loose /\ LiveH2' \subseteq LiveH2 /\ settled \subseteq settled' /\ holders' = holders
    BY <1>7 DEF GetConn, TokenTypeOK, LiveH2
  <2>2. \A c \in LiveH2 \ settled : Marked(c) => Marked(c)'
    BY MarksStay DEF GetConn
  <2>3. ASSUME NEW h \in Requests, NEW c \in LiveH2 \ settled, Keeps(h, c)
        PROVE  c \in settled' \/ Keeps(h, c)'
    BY <1>7, <2>1, <2>3 DEF Keeps, Holds, GetConn, EnterStock, TokenTypeOK
  <2> QED
    BY <2>1, <2>2, <2>3, GuardStays
<1> QED
  BY <1>1, <1>2, <1>3, <1>4, <1>5, <1>6, <1>7

\* The hook stores its timer.
LEMMA SwapHoldKeeps == ASSUME TInv, NEW r \in Requests, SwapHold(r) PROVE TInv'
<1> USE DEF TInv, transportVars, callVars, stockVars, history
<1>1. TokenTypeOK'
  BY DEF TokenTypeOK, SPCs, SwapHold, EnterStock
<1>2. TokenConserved'
  BY DEF TokenConserved, Holds, SwapHold, EnterStock, TokenTypeOK
<1>3. Calls'
  BY DEF Calls, Untouched, SwapHold, EnterStock, TokenTypeOK
<1>4. Timers'
  BY DEF Timers, SwapHold, EnterStock, TokenTypeOK
<1>5. Connections'
  BY DEF Connections, LiveH2, SwapHold
<1>6. MarksKnown'
  BY DEF MarksKnown, LiveH2, SwapHold
<1>7. ASSUME ~loose' PROVE Guarded' /\ OneHolder'
  <2>1. ~loose /\ LiveH2' \subseteq LiveH2 /\ settled \subseteq settled' /\ holders' = holders
    BY <1>7 DEF SwapHold, TokenTypeOK, LiveH2
  <2>2. \A c \in LiveH2 \ settled : Marked(c) => Marked(c)'
    BY MarksStay DEF SwapHold
  <2>3. ASSUME NEW h \in Requests, NEW c \in LiveH2 \ settled, Keeps(h, c)
        PROVE  c \in settled' \/ Keeps(h, c)'
    BY <1>7, <2>1, <2>3 DEF Keeps, Holds, SwapHold, EnterStock, TokenTypeOK
  <2> QED
    BY <2>1, <2>2, <2>3, GuardStays
<1> QED
  BY <1>1, <1>2, <1>3, <1>4, <1>5, <1>6, <1>7

\* The hook looks at given again.
LEMMA RecheckGivenKeeps == ASSUME TInv, NEW r \in Requests, RecheckGiven(r) PROVE TInv'
<1> USE DEF TInv, transportVars, callVars, stockVars, history
<1>1. TokenTypeOK'
  BY DEF TokenTypeOK, SPCs, RecheckGiven, EnterStock
<1>2. TokenConserved'
  BY DEF TokenConserved, Holds, RecheckGiven, EnterStock, TokenTypeOK
<1>3. Calls'
  BY DEF Calls, Untouched, RecheckGiven, EnterStock, TokenTypeOK
<1>4. Timers'
  BY DEF Timers, Calls, Untouched, RecheckGiven, TokenTypeOK
<1>5. Connections'
  BY DEF Connections, LiveH2, RecheckGiven
<1>6. MarksKnown'
  BY DEF MarksKnown, LiveH2, RecheckGiven
<1>7. ASSUME ~loose' PROVE Guarded' /\ OneHolder'
  <2>1. ~loose /\ LiveH2' \subseteq LiveH2 /\ settled \subseteq settled' /\ holders' = holders
    BY <1>7 DEF RecheckGiven, TokenTypeOK, LiveH2
  <2>2. \A c \in LiveH2 \ settled : Marked(c) => Marked(c)'
    BY MarksStay DEF RecheckGiven
  <2>3. ASSUME NEW h \in Requests, NEW c \in LiveH2 \ settled, Keeps(h, c)
        PROVE  c \in settled' \/ Keeps(h, c)'
    BY <1>7, <2>1, <2>3 DEF Keeps, Holds, RecheckGiven, EnterStock, TokenTypeOK
  <2> QED
    BY <2>1, <2>2, <2>3, GuardStays
<1> QED
  BY <1>1, <1>2, <1>3, <1>4, <1>5, <1>6, <1>7

\* The hold timer fires.
LEMMA HoldFiresKeeps == ASSUME TInv, NEW r \in Requests, HoldFires(r) PROVE TInv'
<1> USE DEF TInv, transportVars, callVars, stockVars, history
<1>1. TokenTypeOK'
  BY DEF TokenTypeOK, SPCs, HoldFires, EnterStock
<1>2. TokenConserved'
  BY DEF TokenConserved, Holds, HoldFires, EnterStock, TokenTypeOK
<1>3. Calls'
  BY DEF Calls, Untouched, HoldFires, EnterStock, TokenTypeOK
<1>4. Timers'
  BY DEF Timers, HoldFires, EnterStock, TokenTypeOK
<1>5. Connections'
  BY DEF Connections, LiveH2, HoldFires
<1>6. MarksKnown'
  BY DEF MarksKnown, LiveH2, HoldFires
<1>7. ASSUME ~loose' PROVE Guarded' /\ OneHolder'
  <2>1. ~loose /\ LiveH2' \subseteq LiveH2 /\ settled \subseteq settled' /\ holders' = holders
    BY <1>7 DEF HoldFires, TokenTypeOK, LiveH2
  <2>2. \A c \in LiveH2 \ settled : Marked(c) => Marked(c)'
    BY MarksStay DEF HoldFires
  <2>3. ASSUME NEW h \in Requests, NEW c \in LiveH2 \ settled, Keeps(h, c)
        PROVE  c \in settled' \/ Keeps(h, c)'
    BY <1>7, <2>1, <2>3 DEF Keeps, Holds, HoldFires, EnterStock, TokenTypeOK
  <2> QED
    BY <2>1, <2>2, <2>3, GuardStays
<1> QED
  BY <1>1, <1>2, <1>3, <1>4, <1>5, <1>6, <1>7

\* The stock transport answers.
LEMMA AnsweredKeeps == ASSUME TInv, NEW r \in Requests, Answered(r) PROVE TInv'
<1> USE DEF TInv, transportVars, callVars, stockVars, history
<1>1. TokenTypeOK'
  BY DEF TokenTypeOK, SPCs, Answered, Calls
<1>2. TokenConserved'
  BY DEF TokenConserved, Holds, Answered, EnterStock, TokenTypeOK
<1>3. Calls'
  BY DEF Calls, Untouched, Answered, EnterStock, TokenTypeOK
<1>4. Timers'
  BY DEF Timers, Answered, EnterStock, TokenTypeOK
<1>5. Connections'
  BY DEF Connections, LiveH2, Answered
<1>6. MarksKnown'
  BY DEF MarksKnown, LiveH2, Answered
<1>7. ASSUME ~loose' PROVE Guarded' /\ OneHolder'
  <2>1. ~loose /\ LiveH2' \subseteq LiveH2 /\ settled \subseteq settled' /\ holders' = holders
    BY <1>7 DEF Answered, TokenTypeOK, LiveH2
  <2>2. \A c \in LiveH2 \ settled : Marked(c) => Marked(c)'
    BY MarksStay DEF Answered
  <2>3. ASSUME NEW h \in Requests, NEW c \in LiveH2 \ settled, Keeps(h, c)
        PROVE  c \in settled' \/ Keeps(h, c)'
    BY <1>7, <2>1, <2>3 DEF Keeps, Holds, Answered, EnterStock, TokenTypeOK
  <2> QED
    BY <2>1, <2>2, <2>3, GuardStays
<1> QED
  BY <1>1, <1>2, <1>3, <1>4, <1>5, <1>6, <1>7

\* The stock transport fails.
LEMMA FailedKeeps == ASSUME TInv, NEW r \in Requests, Failed(r) PROVE TInv'
<1> USE DEF TInv, transportVars, callVars, stockVars, history
<1>1. TokenTypeOK'
  BY DEF TokenTypeOK, SPCs, Failed, EnterStock
<1>2. TokenConserved'
  BY DEF TokenConserved, Holds, Failed, EnterStock, TokenTypeOK
<1>3. Calls'
  BY DEF Calls, Untouched, Failed, EnterStock, TokenTypeOK
<1>4. Timers'
  BY DEF Timers, Failed, EnterStock, TokenTypeOK
<1>5. Connections'
  BY DEF Connections, LiveH2, Failed
<1>6. MarksKnown'
  BY DEF MarksKnown, LiveH2, Failed
<1>7. ASSUME ~loose' PROVE Guarded' /\ OneHolder'
  <2>1. ~loose /\ LiveH2' \subseteq LiveH2 /\ settled \subseteq settled' /\ holders' = holders
    BY <1>7 DEF Failed, TokenTypeOK, LiveH2
  <2>2. \A c \in LiveH2 \ settled : Marked(c) => Marked(c)'
    BY MarksStay DEF Failed
  <2>3. ASSUME NEW h \in Requests, NEW c \in LiveH2 \ settled, Keeps(h, c)
        PROVE  c \in settled' \/ Keeps(h, c)'
    BY <1>7, <2>1, <2>3 DEF Keeps, Holds, Failed, EnterStock, TokenTypeOK
  <2> QED
    BY <2>1, <2>2, <2>3, GuardStays
<1> QED
  BY <1>1, <1>2, <1>3, <1>4, <1>5, <1>6, <1>7

\* The stock transport replays the request.
LEMMA ReplayKeeps == ASSUME TInv, NEW r \in Requests, Replay(r) PROVE TInv'
<1> USE DEF TInv, transportVars, callVars, stockVars, history
<1>1. TokenTypeOK'
  <2>1. replays' \in 0 .. MaxReplays
    BY TokenAssumption DEF TokenTypeOK, Replay
  <2> QED
    BY <2>1 DEF TokenTypeOK, Replay
<1>2. TokenConserved'
  BY DEF TokenConserved, Holds, Replay, EnterStock, TokenTypeOK
<1>3. Calls'
  BY DEF Calls, Untouched, Replay, EnterStock, TokenTypeOK
<1>4. Timers'
  BY DEF Timers, Replay, EnterStock, TokenTypeOK
<1>5. Connections'
  BY DEF Connections, LiveH2, Replay
<1>6. MarksKnown'
  BY DEF MarksKnown, LiveH2, Replay
<1>7. ASSUME ~loose' PROVE Guarded' /\ OneHolder'
  <2>1. ~loose /\ LiveH2' \subseteq LiveH2 /\ settled \subseteq settled' /\ holders' = holders
    BY <1>7 DEF Replay, TokenTypeOK, LiveH2
  <2>2. \A c \in LiveH2 \ settled : Marked(c) => Marked(c)'
    BY MarksStay DEF Replay
  <2>3. ASSUME NEW h \in Requests, NEW c \in LiveH2 \ settled, Keeps(h, c)
        PROVE  c \in settled' \/ Keeps(h, c)'
    BY <1>7, <2>1, <2>3 DEF Keeps, Holds, Replay, EnterStock, TokenTypeOK
  <2> QED
    BY <2>1, <2>2, <2>3, GuardStays
<1> QED
  BY <1>1, <1>2, <1>3, <1>4, <1>5, <1>6, <1>7

\* The timer's callback gives the token back.
LEMMA HoldExpiredKeeps == ASSUME TInv, NEW r \in Requests, HoldExpired(r) PROVE TInv'
<1> USE DEF TInv, transportVars, callVars, stockVars, history
<1>0. /\ given' = [given EXCEPT ![r] = TRUE] /\ tok' \in {0, 1}
      /\ given' \in [Requests -> BOOLEAN] /\ TokenConserved'
  <2>1. given[r] \/ Holds(r)
    BY DEF Calls, Untouched, Holds, HoldExpired, TokenTypeOK, SPCs
  <2> QED
    BY <2>1, GiveBackConserves DEF HoldExpired, TokenTypeOK
<1>1. TokenTypeOK'
  BY <1>0 DEF TokenTypeOK, SPCs, HoldExpired
<1>2. TokenConserved'
  BY <1>0
<1>3. Calls'
  BY <1>0 DEF Calls, Untouched, HoldExpired, TokenTypeOK
<1>4. Timers'
  BY <1>0 DEF Timers, HoldExpired, TokenTypeOK
<1>5. Connections'
  BY DEF Connections, LiveH2, HoldExpired
<1>6. MarksKnown'
  BY DEF MarksKnown, LiveH2, HoldExpired
<1>7. ASSUME ~loose' PROVE Guarded' /\ OneHolder'
  <2>1. ~loose /\ LiveH2' \subseteq LiveH2 /\ settled \subseteq settled' /\ holders' = holders
    BY <1>7 DEF HoldExpired, TokenTypeOK, LiveH2
  <2>2. \A c \in LiveH2 \ settled : Marked(c) => Marked(c)'
    BY MarksStay DEF HoldExpired
  <2>3. ASSUME NEW h \in Requests, NEW c \in LiveH2 \ settled, Keeps(h, c)
        PROVE  c \in settled' \/ Keeps(h, c)'
    BY <1>0, <1>7, <2>1, <2>3 DEF Keeps, Holds, HoldExpired, TokenTypeOK
  <2> QED
    BY <2>1, <2>2, <2>3, GuardStays
<1> QED
  BY <1>1, <1>2, <1>3, <1>4, <1>5, <1>6, <1>7

\* finish gives the token back.
LEMMA FinishGiveKeeps == ASSUME TInv, NEW r \in Requests, FinishGive(r) PROVE TInv'
<1> USE DEF TInv, transportVars, callVars, stockVars, history
<1>0. /\ given' = [given EXCEPT ![r] = TRUE] /\ tok' \in {0, 1}
      /\ given' \in [Requests -> BOOLEAN] /\ TokenConserved'
  <2>1. given[r] \/ Holds(r)
    BY DEF Holds, FinishGive
  <2> QED
    BY <2>1, GiveBackConserves DEF FinishGive, TokenTypeOK
<1>1. TokenTypeOK'
  BY <1>0 DEF TokenTypeOK, SPCs, FinishGive
<1>2. TokenConserved'
  BY <1>0
<1>3. Calls'
  BY <1>0 DEF Calls, Untouched, FinishGive, TokenTypeOK
<1>4. Timers'
  BY <1>0 DEF Timers, FinishGive, TokenTypeOK
<1>5. Connections'
  BY DEF Connections, LiveH2, FinishGive
<1>6. MarksKnown'
  BY DEF MarksKnown, LiveH2, FinishGive
<1>7. ASSUME ~loose' PROVE Guarded' /\ OneHolder'
  <2>1. ~loose /\ LiveH2' \subseteq LiveH2 /\ settled \subseteq settled' /\ holders' = holders
    BY <1>7 DEF FinishGive, TokenTypeOK, LiveH2
  <2>2. \A c \in LiveH2 \ settled : Marked(c) => Marked(c)'
    BY MarksStay DEF FinishGive
  <2>3. ASSUME NEW h \in Requests, NEW c \in LiveH2 \ settled, Keeps(h, c)
        PROVE  c \in settled' \/ Keeps(h, c)'
    BY <1>0, <1>7, <2>1, <2>3 DEF Keeps, Holds, FinishGive, TokenTypeOK
  <2> QED
    BY <2>1, <2>2, <2>3, GuardStays
<1> QED
  BY <1>1, <1>2, <1>3, <1>4, <1>5, <1>6, <1>7

\* The WroteHeaders hook: a call without a hold gives the token back; one with
\* a hold arms its timer, unless the token is given already.
LEMMA WroteHeadersKeeps == ASSUME TInv, NEW r \in Requests, WroteHeaders(r) PROVE TInv'
<1> USE DEF TInv, transportVars, callVars, stockVars, history
<1>0. given[r] \/ Holds(r)
  BY DEF Calls, Untouched, Holds, WroteHeaders, TokenTypeOK, SPCs
<1>1. CASE ~first[r] /\ GiveBack(r) /\ UNCHANGED hpc
  <2>0. /\ given' = [given EXCEPT ![r] = TRUE] /\ tok' \in {0, 1}
        /\ given' \in [Requests -> BOOLEAN] /\ TokenConserved'
    BY <1>0, <1>1, GiveBackConserves DEF WroteHeaders
  <2>1. TokenTypeOK'
    BY <1>1, <2>0 DEF TokenTypeOK, WroteHeaders
  <2>2. Calls' /\ Timers'
    BY <1>1, <2>0 DEF Calls, Timers, Untouched, WroteHeaders, TokenTypeOK
  <2>3. Connections' /\ MarksKnown'
    BY DEF Connections, MarksKnown, LiveH2, WroteHeaders
  <2>4. ASSUME ~loose' PROVE Guarded' /\ OneHolder'
    <3>1. ~loose /\ LiveH2' \subseteq LiveH2 /\ settled' = settled /\ holders' = holders
      BY <2>4 DEF WroteHeaders, LiveH2
    <3>2. \A c : Marked(c) => Marked(c)'
      BY MarksStay DEF WroteHeaders
    <3>3. ASSUME NEW h \in Requests, NEW c \in LiveH2 \ settled, Keeps(h, c) PROVE Keeps(h, c)'
      BY <1>1, <2>0, <3>3 DEF Keeps, Holds, WroteHeaders, TokenTypeOK
    <3> QED
      BY <3>1, <3>2, <3>3, GuardStays
  <2> QED
    BY <2>0, <2>1, <2>2, <2>3, <2>4
<1>2. CASE \/ first[r] /\ given[r] /\ UNCHANGED <<given, tok, hpc>>
           \/ /\ first[r] /\ ~given[r]
              /\ hpc' = [hpc EXCEPT ![r] = "arming"] /\ UNCHANGED <<given, tok>>
  <2>1. TokenTypeOK'
    BY <1>2 DEF TokenTypeOK, WroteHeaders
  <2>2. TokenConserved'
    BY <1>2 DEF TokenConserved, Holds, WroteHeaders
  <2>3. Calls' /\ Timers'
    BY <1>0, <1>2 DEF Calls, Timers, Untouched, Holds, WroteHeaders, TokenTypeOK
  <2>4. Connections' /\ MarksKnown'
    BY DEF Connections, MarksKnown, LiveH2, WroteHeaders
  <2>5. ASSUME ~loose' PROVE Guarded' /\ OneHolder'
    <3>1. ~loose /\ LiveH2' \subseteq LiveH2 /\ settled' = settled /\ holders' = holders
      BY <2>5 DEF WroteHeaders, LiveH2
    <3>2. \A c : Marked(c) => Marked(c)'
      BY MarksStay DEF WroteHeaders
    <3>3. ASSUME NEW h \in Requests, NEW c \in LiveH2 \ settled, Keeps(h, c) PROVE Keeps(h, c)'
      BY <1>2, <3>3 DEF Keeps, Holds, WroteHeaders
    <3> QED
      BY <3>1, <3>2, <3>3, GuardStays
  <2> QED
    BY <2>1, <2>2, <2>3, <2>4, <2>5
<1> QED
  BY <1>1, <1>2 DEF WroteHeaders

\* send returns: it stops the timer, and clears a mark only of a connection
\* that is gone or that a response came over.
LEMMA ReturnKeeps == ASSUME TInv, NEW r \in Requests, Return(r) PROVE TInv'
<1> USE DEF TInv, transportVars, callVars, stockVars, history
<1>0. /\ unsettled' \in Seq(Conns) /\ Len(unsettled') <= MaxUnsettled
      /\ \A c \in LiveH2 \ settled : Marked(c) => Marked(c)'
  <2>1. CASE ok[r] /\ marked[r] # NoConn
    <3>1. TakeUnsettled(marked[r])
      BY <2>1 DEF Return
    <3>2. \A c \in LiveH2 \ settled : c # marked[r]
      BY <2>1 DEF MarksKnown, Calls
    <3> QED
      BY <3>1, <3>2, TakeKeepsOthers
  <2>2. CASE ~(ok[r] /\ marked[r] # NoConn)
    <3>1. unsettled' = unsettled
      BY <2>2 DEF Return
    <3> QED
      BY <3>1, MarksStay DEF TokenTypeOK
  <2> QED
    BY <2>1, <2>2
<1>1. TokenTypeOK'
  BY <1>0 DEF TokenTypeOK, SPCs, Return
<1>2. TokenConserved'
  BY DEF TokenConserved, Holds, Return, TokenTypeOK
<1>3. Calls' /\ Timers'
  BY DEF Calls, Timers, Untouched, Return, TokenTypeOK
<1>4. Connections' /\ MarksKnown'
  BY DEF Connections, MarksKnown, LiveH2, Return
<1>5. ASSUME ~loose' PROVE Guarded' /\ OneHolder'
  <2>1. ~loose /\ LiveH2' \subseteq LiveH2 /\ settled' = settled /\ holders' = holders
    BY <1>5 DEF Return, LiveH2
  <2>2. ASSUME NEW h \in Requests, NEW c \in LiveH2 \ settled, Keeps(h, c) PROVE Keeps(h, c)'
    BY <2>2 DEF Keeps, Holds, Return, TokenTypeOK
  <2> QED
    BY <1>0, <2>1, <2>2, GuardStays
<1> QED
  BY <1>1, <1>2, <1>3, <1>4, <1>5

\* A connection goes away.
LEMMA GoAwayKeeps == ASSUME TInv, NEW d \in Conns, GoAway(d) PROVE TInv'
<1> USE DEF TInv, transportVars, callVars, stockVars, history
<1>1. TokenTypeOK'
  BY DEF TokenTypeOK, GoAway
<1>2. TokenConserved' /\ Calls' /\ Timers'
  BY DEF TokenConserved, Holds, Calls, Timers, Untouched, GoAway
<1>3. Connections' /\ MarksKnown'
  BY DEF Connections, MarksKnown, LiveH2, GoAway
<1>4. ASSUME ~loose' PROVE Guarded' /\ OneHolder'
  <2>1. ~loose /\ LiveH2' \subseteq LiveH2 /\ settled' = settled /\ holders' = holders
    BY <1>4 DEF GoAway, LiveH2
  <2>2. \A c : Marked(c) => Marked(c)'
    BY MarksStay DEF GoAway
  <2>3. ASSUME NEW h \in Requests, NEW c \in LiveH2 \ settled, Keeps(h, c) PROVE Keeps(h, c)'
    BY <2>3 DEF Keeps, Holds, GoAway
  <2> QED
    BY <2>1, <2>2, <2>3, GuardStays
<1> QED
  BY <1>1, <1>2, <1>3, <1>4

\* What gotConn's switch does: the token goes back only on an HTTP/1.1
\* connection; a holder on a new or a marked connection engages FirstHold; a
\* call without the token marks a new connection; no other mark of a
\* connection that was there goes.
LEMMA OnConnDoes ==
  ASSUME TInv, NEW r \in Requests, spc[r] = "stock", spc' = spc,
         NEW c \in Conns, NEW new \in BOOLEAN, OnConn(r, c, new)
  PROVE  /\ TokenConserved' /\ tok' \in {0, 1} /\ given' \in [Requests -> BOOLEAN]
         /\ unsettled' \in Seq(Conns) /\ Len(unsettled') <= MaxUnsettled
         /\ tstats' \in [firstHolds : Nat, settleHolds : Nat, holdExpiries : Nat]
         /\ first' \in [Requests -> BOOLEAN] /\ marked' \in [Requests -> Conns \cup {NoConn}]
         /\ IF c \in H1Conns THEN given' = [given EXCEPT ![r] = TRUE] ELSE given' = given
         /\ marked' = marked \/ (c \notin H1Conns /\ marked' = [marked EXCEPT ![r] = c])
         /\ \A h \in Requests : first[h] => first'[h]
         /\ c \notin H1Conns /\ ~given[r] /\ (new \/ Marked(c)) => first'[r]
         /\ c \notin H1Conns /\ given[r] /\ new => Marked(c)'
         /\ c \in H1Conns \/ (~new /\ given[r]) => unsettled' = unsettled
<1> USE DEF TInv, transportVars
<1>0. /\ \A h \in Requests : first[h] \in BOOLEAN
      /\ tstats.firstHolds \in Nat /\ tstats.settleHolds \in Nat
      /\ unsettled \in Seq(Conns) /\ Len(unsettled) <= MaxUnsettled
  BY DEF TokenTypeOK
<1>1. UNCHANGED <<tok, given>> => TokenConserved' /\ tok' \in {0, 1} /\ given' \in [Requests -> BOOLEAN]
  BY DEF TokenConserved, Holds, TokenTypeOK
<1>2. ASSUME NEW settle \in BOOLEAN, EngageHold(r, settle)
      PROVE  /\ tstats' \in [firstHolds : Nat, settleHolds : Nat, holdExpiries : Nat]
             /\ first' \in [Requests -> BOOLEAN] /\ first'[r]
             /\ \A h \in Requests : first[h] => first'[h]
  <2>1. first' \in [Requests -> BOOLEAN] /\ first'[r] /\ \A h \in Requests : first[h] => first'[h]
    BY <1>0, <1>2 DEF EngageHold, TokenTypeOK
  <2>2. PICK m \in Nat, n \in Nat :
          tstats' = [tstats EXCEPT !.firstHolds = m, !.settleHolds = n]
    <3>1. /\ (IF first[r] THEN tstats.firstHolds ELSE tstats.firstHolds + 1) \in Nat
          /\ (IF settle THEN tstats.settleHolds + 1 ELSE tstats.settleHolds) \in Nat
      BY <1>0
    <3> QED
      BY <1>2, <3>1 DEF EngageHold
  <2>3. tstats' \in [firstHolds : Nat, settleHolds : Nat, holdExpiries : Nat]
    BY <2>2 DEF TokenTypeOK
  <2> QED
    BY <2>1, <2>3
<1>3. CASE c \in H1Conns
  <2>1. GiveBack(r) /\ UNCHANGED <<unsettled, tstats, first, marked>>
    BY <1>3 DEF OnConn
  <2>2. given[r] \/ Holds(r)
    BY DEF Holds
  <2>3. /\ given' = [given EXCEPT ![r] = TRUE] /\ tok' \in {0, 1}
        /\ given' \in [Requests -> BOOLEAN] /\ TokenConserved'
    BY <2>1, <2>2, GiveBackConserves
  <2> QED
    BY <1>3, <2>1, <2>3 DEF TokenTypeOK
<1>4. CASE c \notin H1Conns /\ given[r] /\ new
  <2>1. MarkUnsettled(c) /\ marked' = [marked EXCEPT ![r] = c] /\ UNCHANGED <<tok, tstats, given, first>>
    BY <1>4 DEF OnConn
  <2>2. unsettled' \in Seq(Conns) /\ Len(unsettled') <= MaxUnsettled /\ Marked(c)'
    BY <2>1, MarkMarks
  <2> QED
    BY <1>1, <1>4, <2>1, <2>2 DEF TokenTypeOK
<1>5. CASE c \notin H1Conns /\ ~given[r] /\ new
  <2>1. EngageHold(r, FALSE) /\ UNCHANGED <<tok, given, unsettled, marked>>
    BY <1>5 DEF OnConn
  <2> QED
    BY <1>0, <1>1, <1>2, <1>5, <2>1 DEF TokenTypeOK
<1>6. CASE c \notin H1Conns /\ ~given[r] /\ ~new /\ Marked(c)
  <2>1. TakeUnsettled(c) /\ EngageHold(r, TRUE) /\ UNCHANGED <<tok, given, marked>>
    BY <1>6 DEF OnConn
  <2>2. unsettled' \in Seq(Conns) /\ Len(unsettled') <= MaxUnsettled
    BY <2>1, TakeKeepsOthers
  <2> QED
    BY <1>1, <1>2, <1>6, <2>1, <2>2 DEF TokenTypeOK
<1>7. CASE c \notin H1Conns /\ ~new /\ (given[r] \/ ~Marked(c))
  <2>1. UNCHANGED <<tok, unsettled, tstats, given, first, marked>>
    BY <1>7 DEF OnConn
  <2> QED
    BY <1>0, <1>1, <1>7, <2>1 DEF TokenTypeOK
<1> QED
  BY <1>3, <1>4, <1>5, <1>6, <1>7

\* The stock transport hands the call a connection.
LEMMA GotConnKeeps == ASSUME TInv, NEW r \in Requests, GotConn(r) PROVE TInv'
<1> USE DEF TInv, transportVars, callVars, stockVars, history
<1>0. PICK c \in Conns, new \in BOOLEAN :
        /\ Handed(r, c, new) /\ OnConn(r, c, new)
        /\ conn' = [conn EXCEPT ![r] = c]
        /\ holders' = IF ~given[r] /\ c \notin settled \cup H1Conns
                      THEN [holders EXCEPT ![c] = @ \cup {r}] ELSE holders
  BY DEF GotConn
<1>1. /\ spc[r] = "stock" /\ at[r] = "looking" /\ at' = [at EXCEPT ![r] = "sent"]
      /\ due' = [due EXCEPT ![r] = TRUE]
      /\ UNCHANGED <<spc, hold, late, hpc, ok, replays, settled, loose>>
  BY DEF GotConn
<1>2. /\ TokenConserved' /\ tok' \in {0, 1} /\ given' \in [Requests -> BOOLEAN]
      /\ unsettled' \in Seq(Conns) /\ Len(unsettled') <= MaxUnsettled
      /\ tstats' \in [firstHolds : Nat, settleHolds : Nat, holdExpiries : Nat]
      /\ first' \in [Requests -> BOOLEAN] /\ marked' \in [Requests -> Conns \cup {NoConn}]
      /\ IF c \in H1Conns THEN given' = [given EXCEPT ![r] = TRUE] ELSE given' = given
      /\ marked' = marked \/ (c \notin H1Conns /\ marked' = [marked EXCEPT ![r] = c])
      /\ \A h \in Requests : first[h] => first'[h]
      /\ c \notin H1Conns /\ ~given[r] /\ (new \/ Marked(c)) => first'[r]
      /\ c \notin H1Conns /\ given[r] /\ new => Marked(c)'
      /\ c \in H1Conns \/ (~new /\ given[r]) => unsettled' = unsettled
  BY <1>0, <1>1, OnConnDoes
<1>3. /\ live' = live \cup {c} /\ dialed' = dialed \cup {c}
      /\ new => c \notin dialed /\ LiveH2 = {}
      /\ ~new => c \in live
      /\ c \in H1Conns => conn[r] \notin LiveH2
  BY <1>0 DEF Handed
<1>4. TokenTypeOK'
  <2>1. holders' \in [Conns -> SUBSET Requests]
    BY <1>0 DEF TokenTypeOK
  <2>2. live' \in SUBSET Conns /\ dialed' \in SUBSET Conns
    BY <1>3 DEF TokenTypeOK
  <2>3. conn' \in [Requests -> Conns \cup {NoConn}]
    BY <1>0 DEF TokenTypeOK
  <2> QED
    BY <1>1, <1>2, <2>1, <2>2, <2>3 DEF TokenTypeOK
<1>5. Calls'
  <2>1. ASSUME NEW q \in Requests, q # r
        PROVE  /\ given'[q] = given[q] /\ at'[q] = at[q] /\ conn'[q] = conn[q] /\ due'[q] = due[q]
    BY <1>0, <1>1, <1>2, <2>1 DEF TokenTypeOK
  <2>2. conn'[r] = c /\ ~ok[r]
    BY <1>0, <1>1 DEF TokenTypeOK, Calls
  <2> QED
    BY <1>1, <2>1, <2>2 DEF Calls, Untouched
<1>6. Timers'
  BY <1>1 DEF Timers
<1>7. /\ c \in H1Conns => LiveH2' = LiveH2
      /\ c \notin H1Conns => LiveH2' = {c}
      /\ c \notin H1Conns /\ ~new => LiveH2 = {c}
  BY <1>3 DEF LiveH2, Connections
<1>8. Connections'
  <2>1. live' \subseteq dialed' /\ \A d, e \in LiveH2' : d = e
    BY <1>3, <1>7 DEF Connections
  <2>2. \A d \in Conns \ dialed' : holders'[d] = {} /\ \A q \in Requests : marked'[q] # d
    <3> SUFFICES ASSUME NEW d \in Conns \ dialed'
                 PROVE  holders'[d] = {} /\ \A q \in Requests : marked'[q] # d
      OBVIOUS
    <3>1. d # c /\ d \in Conns \ dialed
      BY <1>3
    <3>2. holders'[d] = holders[d]
      BY <1>0, <3>1 DEF TokenTypeOK
    <3>3. \A q \in Requests : marked'[q] \in {marked[q], c}
      BY <1>2 DEF TokenTypeOK
    <3> QED
      BY <3>1, <3>2, <3>3 DEF Connections
  <2> QED
    BY <2>1, <2>2 DEF Connections
<1>9. MarksKnown'
  <2> SUFFICES ASSUME NEW q \in Requests, NEW d \in LiveH2' \ settled', marked'[q] = d
               PROVE  conn'[q] = d
    BY DEF MarksKnown
  <2>1. CASE c \in H1Conns
    <3>1. d \in LiveH2 \ settled /\ marked[q] = d
      BY <1>1, <1>2, <1>7, <2>1
    <3>2. conn[q] = d
      BY <3>1 DEF MarksKnown
    <3>3. q # r
      BY <1>3, <2>1, <3>1, <3>2
    <3> QED
      BY <1>0, <3>2, <3>3 DEF TokenTypeOK
  <2>2. CASE c \notin H1Conns
    <3>1. d = c
      BY <1>7, <2>2
    <3>2. CASE q = r
      BY <1>0, <3>1, <3>2 DEF TokenTypeOK
    <3>3. CASE q # r
      <4>1. marked[q] = c /\ c \notin settled
        BY <1>1, <1>2, <3>1, <3>3 DEF TokenTypeOK
      <4>2. ~new
        BY <1>3, <4>1 DEF Connections
      <4>3. conn[q] = c
        BY <1>7, <2>2, <4>1, <4>2 DEF MarksKnown
      <4> QED
        BY <1>0, <3>1, <3>3, <4>3 DEF TokenTypeOK
    <3> QED
      BY <3>2, <3>3
  <2> QED
    BY <2>1, <2>2
<1>10. ASSUME ~loose' PROVE Guarded' /\ OneHolder'
  <2>0. Guarded /\ OneHolder
    BY <1>1, <1>10
  <2>1. CASE c \in H1Conns
    <3>1. LiveH2' \subseteq LiveH2 /\ settled' = settled /\ holders' = holders
      BY <1>0, <1>1, <1>7, <2>1
    <3>2. \A d : Marked(d) => Marked(d)'
      BY <1>2, <2>1, MarksStay
    <3>3. ASSUME NEW h \in Requests, NEW d \in LiveH2 \ settled, Keeps(h, d) PROVE Keeps(h, d)'
      <4>1. h # r
        BY <1>3, <2>1, <3>3 DEF Keeps
      <4> QED
        BY <1>0, <1>1, <1>2, <2>1, <3>1, <3>3, <4>1 DEF Keeps, Holds, TokenTypeOK
    <3> QED
      BY <2>0, <3>1, <3>2, <3>3, GuardStays
  <2>2. CASE c \notin H1Conns /\ c \in settled
    <3>1. LiveH2' \ settled' = {} /\ settled' = settled /\ holders' = holders
      BY <1>0, <1>1, <1>7, <2>2
    <3> QED
      BY <2>0, <3>1 DEF Guarded, OneHolder
  <2>3. CASE c \notin H1Conns /\ c \notin settled /\ given[r]
    <3>1. settled' = settled /\ holders' = holders /\ given' = given
      BY <1>0, <1>1, <1>2, <2>3
    <3>2. OneHolder'
      BY <2>0, <3>1 DEF OneHolder
    <3>3. Awaits(c)' \/ \E h \in Requests : Keeps(h, c)'
      <4>1. CASE new
        <5>1. holders[c] = {}
          BY <1>3, <4>1 DEF Connections
        <5> QED
          BY <1>2, <2>3, <3>1, <4>1, <5>1 DEF Awaits
      <4>2. CASE ~new
        <5>1. Awaits(c) \/ \E h \in Requests : Keeps(h, c)
          BY <1>7, <2>0, <2>3, <4>2 DEF Guarded
        <5>2. CASE Awaits(c)
          BY <1>2, <2>3, <3>1, <4>2, <5>2, MarksStay DEF Awaits
        <5>3. ASSUME NEW h \in Requests, Keeps(h, c) PROVE Keeps(h, c)'
          <6>1. h # r
            BY <2>3, <5>3 DEF Keeps, Holds
          <6> QED
            BY <1>0, <1>1, <1>2, <3>1, <5>3, <6>1 DEF Keeps, Holds, TokenTypeOK
        <5> QED
          BY <5>1, <5>2, <5>3
      <4> QED
        BY <4>1, <4>2
    <3> QED
      BY <1>7, <2>3, <3>2, <3>3 DEF Guarded
  <2>4. CASE c \notin H1Conns /\ c \notin settled /\ ~given[r]
    <3>1. settled' = settled /\ given' = given /\ holders' = [holders EXCEPT ![c] = @ \cup {r}]
      BY <1>0, <1>1, <1>2, <2>4
    <3>2. holders[c] \subseteq {r} /\ first'[r]
      <4>1. CASE new
        BY <1>2, <1>3, <2>4, <4>1 DEF Connections
      <4>2. CASE ~new
        <5>1. Awaits(c) \/ \E h \in Requests : Keeps(h, c)
          BY <1>7, <2>0, <2>4, <4>2 DEF Guarded
        <5>2. CASE Awaits(c)
          BY <1>2, <2>4, <5>2 DEF Awaits
        <5>3. ASSUME NEW h \in Requests, Keeps(h, c) PROVE holders[c] \subseteq {r} /\ first'[r]
          <6>1. h = r
            <7>1. Holds(r) /\ Holds(h)
              BY <1>1, <2>4, <5>3 DEF Keeps, Holds
            <7> QED
              BY <7>1 DEF TokenConserved
          <6> QED
            BY <1>2, <5>3, <6>1 DEF Keeps
        <5> QED
          BY <5>1, <5>2, <5>3
      <4> QED
        BY <4>1, <4>2
    <3>3. holders'[c] = holders[c] \cup {r} /\ \A d \in Conns \ {c} : holders'[d] = holders[d]
      BY <3>1 DEF TokenTypeOK
    <3>4. Keeps(r, c)'
      BY <1>0, <1>1, <2>4, <3>1, <3>2, <3>3 DEF Keeps, Holds, TokenTypeOK
    <3>5. OneHolder'
      BY <2>0, <3>1, <3>2, <3>3 DEF OneHolder
    <3> QED
      BY <1>7, <2>4, <3>4, <3>5 DEF Guarded
  <2> QED
    BY <2>1, <2>2, <2>3, <2>4 DEF TokenTypeOK
<1> QED
  BY <1>2, <1>4, <1>5, <1>6, <1>8, <1>9, <1>10

----------------------------------------------------------------------------
(* The theorems.                                                           *)

\* Every step keeps the invariant.
LEMMA TInvStep == TInv /\ [TokenNext]_tvars => TInv'
<1> SUFFICES ASSUME TInv, [TokenNext]_tvars PROVE TInv'
  OBVIOUS
<1>1. ASSUME NEW r \in Requests,
             \/ SendFree(r) \/ SendBusy(r) \/ TokenTaken(r) \/ TokenCtx(r) \/ TokenExpired(r)
             \/ GetConn(r) \/ GotConn(r) \/ WroteHeaders(r) \/ SwapHold(r) \/ RecheckGiven(r)
             \/ HoldFires(r) \/ HoldExpired(r) \/ Answered(r) \/ Failed(r) \/ FinishGive(r)
             \/ Return(r) \/ Replay(r)
      PROVE  TInv'
  BY <1>1, SendFreeKeeps, SendBusyKeeps, TokenTakenKeeps, TokenCtxKeeps, TokenExpiredKeeps,
     GetConnKeeps, GotConnKeeps, WroteHeadersKeeps, SwapHoldKeeps, RecheckGivenKeeps,
     HoldFiresKeeps, HoldExpiredKeeps, AnsweredKeeps, FailedKeeps, FinishGiveKeeps,
     ReturnKeeps, ReplayKeeps
<1>2. ASSUME NEW c \in Conns, GoAway(c) PROVE TInv'
  BY <1>2, GoAwayKeeps
<1>3. CASE UNCHANGED tvars
  BY <1>3 DEF tvars, transportVars, callVars, stockVars, history, TInv, TokenTypeOK,
     TokenConserved, Holds, Calls, Untouched, Timers, Connections, LiveH2, MarksKnown,
     Guarded, Awaits, Marked, Keeps, OneHolder
<1> QED
  BY <1>1, <1>2, <1>3 DEF TokenNext

\* The invariant holds in every behaviour of the specification.
LEMMA TInvAlways == TokenSpec => []TInv
BY TInvInit, TInvStep, PTL DEF TokenSpec

\* The token's state stays within its types: the channel holds at most one
\* token, and unsettled at most maxUnsettled marks (markUnsettled).
THEOREM TokenTyped == TokenSpec => []TokenTypeOK
BY TInvAlways, PTL DEF TInv

\* The token is in the channel exactly while one call holds it, whichever of
\* finish, GotConn, WroteHeaders and the hold timer gives it back (giveBack).
THEOREM TokenIsConserved == TokenSpec => []TokenConserved
BY TInvAlways, PTL DEF TInv

\* No hold timer outlives its call, in whatever order finish and a late
\* WroteHeaders interleave (wroteHeaders, finish).
THEOREM TokenNoTimerLeft == TokenSpec => []NoTimerLeft
<1>1. TInv => NoTimerLeft
  BY DEF TInv, Timers, NoTimerLeft
<1> QED
  BY <1>1, TInvAlways, PTL

\* While nothing is loose, no two token holders were handed the same HTTP/2
\* connection before its SETTINGS were read (gotConn, takeUnsettled, responded).
THEOREM TokenOneHolderUnsettled == TokenSpec => []OneHolderUnsettled
<1>1. TInv => OneHolderUnsettled
  <2> SUFFICES ASSUME TInv, ~loose, NEW c \in Conns \ settled PROVE Cardinality(holders[c]) <= 1
    BY DEF OneHolderUnsettled
  <2>1. \A r, s \in holders[c] : r = s
    BY DEF TInv, OneHolder
  <2>2. CASE holders[c] = {}
    BY <2>2, FS_EmptySet
  <2>3. CASE holders[c] # {}
    <3>1. PICK r \in holders[c] : TRUE
      BY <2>3
    <3>2. holders[c] = {r}
      BY <2>1, <3>1
    <3>3. Cardinality({r}) = 1
      BY FS_Singleton
    <3> QED
      BY <3>2, <3>3
  <2> QED
    BY <2>2, <2>3
<1> QED
  BY <1>1, TInvAlways, PTL
============================================================================
