--------------------------- MODULE ConnectProofs ---------------------------
(***************************************************************************)
(* The safety properties of Connect, for every set of clients, hook panics *)
(* and proxy userinfos.                                                    *)
(*                                                                         *)
(* Four invariants: who has heard of a hook's panic, where a connection    *)
(* that was dialed is, what may have been negotiated on it, and where the  *)
(* call's userinfo stands among those that are remembered.                 *)
(***************************************************************************)
EXTENDS Connect, FiniteSetTheorems, SequenceTheorems, TLAPS

\* Hooks run, and panic, only in a call that has some; a panic is kept until
\* the call returns, and only then.
Shield ==
    /\ client \in Clients
    /\ panics \in Nat /\ raised \in Nat /\ logged \in Nat
    /\ panicked \in BOOLEAN /\ returned \in BOOLEAN
    /\ call # "done" => ret = "none" /\ ~returned
    /\ call = "done" => returned = client.hooks
    /\ g = "hook" \/ writing \/ panicked => client.hooks
    /\ PanicsAccounted

\* boundedDial waits exactly while the transport is in its dial; its
\* goroutine has the connection only between dial's return and the offer.
Dialing ==
    /\ bd # "off" <=> stock = "dial"
    /\ stock = "off" => g = "off" /\ conn = "none" /\ dialed = "none"
    /\ g \in {"hook", "dialing"} =>
         dialed = "none" /\ conn = "none" /\ stock \in {"dial", "failed"}
    /\ g = "offer" =>
         /\ dialed \in {"conn", "error", "timeout"} /\ stock \in {"dial", "failed"}
         /\ conn = IF dialed = "conn" THEN "goroutine" ELSE "none"
    /\ NoConnLost

Only == ~Bare /\ Mode = "HTTP2Only" /\ client.scheme = "https"

\* A proxy may apply whose hop cannot be told from the API's by its name.
ByName == MayProxy /\ (client.host = "ip" \/ client.serverName)

\* Which route an attempt takes, and what a connection without h2 says of it.
Routed ==
    /\ client \in Clients
    /\ stock # "off" => call # "idle"
    /\ route \in {"http", "https"} => MayProxy
    /\ stock = "proxyTLS" => route = "https"
    /\ call # "done" => ret = "none"
    /\ call = "sent" => stock = "ready"
    /\ ret = "response" /\ ~Bare => stock = "ready" /\ (Mode = "HTTP2Only" => proto = "h2")
    /\ stock = "ready" /\ Only /\ proto # "h2" => ByName
    /\ culprit.hop = "proxy" => culprit.how # "proto"

\* The call's userinfo is remembered, and those after it were recorded since,
\* unless so many were that it had to go.
Remembered ==
    /\ users \in Seq(Userinfos) /\ Len(users) <= MaxProxyUserinfos
    /\ \A j, k \in 1 .. Len(users) : users[j] = users[k] => j = k
    /\ needles = ToSet(users)
    /\ IsFiniteSet(since) /\ user \notin since
    /\ user # NoUser =>
         \/ Cardinality(since) >= MaxProxyUserinfos
         \/ \E k \in 1 .. Len(users) :
              users[k] = user /\ \A j \in k + 1 .. Len(users) : users[j] \in since

\* A client's hooks are there or not.
LEMMA HooksBoolean == ASSUME client \in Clients PROVE client.hooks \in BOOLEAN
BY ClientsAssumption DEF Client

-----------------------------------------------------------------------------
(* The shield. *)

\* The call returns through done.
LEMMA ReturnShields ==
  ASSUME Shield, call # "done", client' = client, g' = g,
         NEW r, r # "hookPanic", NEW b, Return(r, b)
  PROVE  Shield'
<1>1. client.hooks \in BOOLEAN /\ ret = "none" /\ ~returned /\ raised = 0
  BY HooksBoolean DEF Shield, PanicsAccounted
<1>2. CASE panicked
  BY <1>1, <1>2 DEF Shield, PanicsAccounted, Return
<1>3. CASE ~panicked
  BY <1>1, <1>3 DEF Shield, PanicsAccounted, Return
<1> QED
  BY <1>2, <1>3

\* RoundTrip unwinds with a panic of its own.
LEMMA UnwindShields ==
  ASSUME Shield, call # "done", client' = client, g' = g, Unwind
  PROVE  Shield'
<1>1. client.hooks \in BOOLEAN /\ ret = "none" /\ ~returned /\ raised = 0
  BY HooksBoolean DEF Shield, PanicsAccounted
<1>2. CASE panicked
  BY <1>1, <1>2 DEF Shield, PanicsAccounted, Unwind
<1>3. CASE ~panicked
  BY <1>1, <1>3 DEF Shield, PanicsAccounted, Unwind
<1> QED
  BY <1>2, <1>3

\* A hook ends, with a panic or without.
LEMMA HookShields == ASSUME Shield, HookEnds PROVE Shield'
<1> USE DEF buildVars, callVars
<1>1. /\ client.hooks \in BOOLEAN /\ client' = client /\ call' = call /\ ret' = ret /\ body' = body
      /\ (g' = "hook" => g = "hook") /\ (writing' => writing) /\ client.hooks
  BY HooksBoolean DEF HookEnds, Shield
<1>2. CASE Recover
  <2>0. /\ returned' = returned /\ raised' = raised /\ panics' = panics + 1
        /\ panics = logged + raised + (IF panicked /\ ~returned THEN 1 ELSE 0)
        /\ panics \in Nat /\ raised \in Nat /\ logged \in Nat
    BY <1>2 DEF Recover, Shield, PanicsAccounted
  <2>1. CASE ~returned /\ ~panicked
    <3>1. panicked' = TRUE /\ logged' = logged /\ ~returned'
      BY <1>2, <2>0, <2>1 DEF Recover
    <3>2. panics' = logged' + raised' + 1
      BY <2>0, <2>1, <3>1
    <3>3. PanicsAccounted'
      BY <1>1, <2>0, <3>1, <3>2 DEF Shield, PanicsAccounted
    <3>4. panics' \in Nat /\ raised' \in Nat /\ logged' \in Nat
      BY <2>0, <3>1
    <3> QED
      BY <1>1, <2>0, <3>1, <3>3, <3>4 DEF Shield
  <2>2. CASE returned \/ panicked
    <3>1. panicked' = panicked /\ logged' = logged + 1
      BY <1>2, <2>2 DEF Recover
    <3>2. panics' = logged' + raised' + (IF panicked' /\ ~returned' THEN 1 ELSE 0)
      BY <2>0, <3>1
    <3>3. PanicsAccounted'
      BY <1>1, <2>0, <3>1, <3>2 DEF Shield, PanicsAccounted
    <3>4. panics' \in Nat /\ raised' \in Nat /\ logged' \in Nat
      BY <2>0, <3>1
    <3> QED
      BY <1>1, <2>0, <3>1, <3>3, <3>4 DEF Shield
  <2> QED
    BY <2>1, <2>2
<1>3. CASE UNCHANGED <<returned, panicked, panics, raised, logged>>
  BY <1>1, <1>3 DEF Shield, PanicsAccounted
<1> QED
  BY <1>2, <1>3 DEF HookEnds

\* The shield's invariant holds initially and every step keeps it.
LEMMA ShieldAlways == Spec => []Shield
<1>1. Init => Shield
  <2> SUFFICES ASSUME Init PROVE Shield
    OBVIOUS
  <2>1. /\ panicked = FALSE /\ returned = FALSE /\ writing = FALSE
        /\ panics = 0 /\ raised = 0 /\ logged = 0 /\ ret = "none"
        /\ call = "idle" /\ g = "off" /\ client \in Clients
    BY DEF Init
  <2>2. PanicsAccounted
    BY <2>1 DEF PanicsAccounted
  <2>3. panics \in Nat /\ raised \in Nat /\ logged \in Nat
    BY <2>1
  <2> QED
    BY <2>1, <2>2, <2>3 DEF Shield
<1>2. ASSUME Shield, [Next]_connVars PROVE Shield'
  <2> USE DEF buildVars, callVars, stockVars, dialVars, shieldVars, credVars
  <2>1. CASE AskFails
    BY <1>2, <2>1, ReturnShields, UnwindShields DEF AskFails
  <2>2. CASE BareReturns
    BY <1>2, <2>2, ReturnShields, UnwindShields DEF BareReturns
  <2>3. CASE SendFails
    <3>1. PICK r : r # "hookPanic" /\ Return(r, "none")
      BY <2>3 DEF SendFails, TransportError
    <3> QED
      BY <1>2, <2>3, <3>1, ReturnShields DEF SendFails
  <2>4. CASE SendCtx
    BY <1>2, <2>4, ReturnShields DEF SendCtx
  <2>5. CASE SendAnswered
    BY <1>2, <2>5, ReturnShields DEF SendAnswered
  <2>6. CASE HookEnds
    BY <1>2, <2>6, HookShields
  <2>7. CASE Ask
    BY <1>2, <2>7 DEF Ask, Shield, PanicsAccounted
  <2>8. CASE SendWrites
    BY <1>2, <2>8, HooksBoolean DEF SendWrites, Shield, PanicsAccounted
  <2>9. CASE StartDial
    BY <1>2, <2>9, HooksBoolean DEF StartDial, Shield, PanicsAccounted
  <2>10. CASE DialReturns
    BY <1>2, <2>10 DEF DialReturns, Shield, PanicsAccounted
  <2>11. CASE HandOver
    BY <1>2, <2>11 DEF HandOver, Shield, PanicsAccounted
  <2>12. CASE Abandoned
    BY <1>2, <2>12 DEF Abandoned, Shield, PanicsAccounted
  <2>13. CASE UNCHANGED <<client, call, ret, body, g, shieldVars>>
    BY <1>2, <2>13 DEF Shield, PanicsAccounted
  <2>14. Build \/ OtherAsks \/ CtxEnds => UNCHANGED <<client, call, ret, body, g, shieldVars>>
    BY DEF Build, OtherAsks, CtxEnds
  <2>15. CallerDials \/ ThinDials \/ CallerDialsTLS \/ ProxyTLS \/ ProxyConnects \/ APITLS
         => UNCHANGED <<client, call, ret, body, g, shieldVars>>
    BY DEF CallerDials, ThinDials, CallerDialsTLS, ProxyTLS, ProxyConnects, APITLS, Unbound
  <2>16. DialCtxEnds \/ SeesDeadline \/ SeesCancel \/ GraceEnds
         => UNCHANGED <<client, call, ret, body, g, shieldVars>>
    BY DEF DialCtxEnds, SeesDeadline, SeesCancel, GraceEnds
  <2>17. UNCHANGED connVars => UNCHANGED <<client, call, ret, body, g, shieldVars>>
    BY DEF connVars
  <2> HIDE DEF buildVars, callVars, stockVars, dialVars, shieldVars, credVars
  <2> QED
    BY <1>2, <2>1, <2>2, <2>3, <2>4, <2>5, <2>6, <2>7, <2>8, <2>9, <2>10, <2>11, <2>12, <2>13,
       <2>14, <2>15, <2>16, <2>17 DEF Next, BoundedDial
<1> QED
  BY <1>1, <1>2, PTL DEF Spec

\* Every panic of a hook is raised on the caller or logged, exactly once,
\* whenever it happens: before RoundTrip returns or panics itself, or after.
THEOREM ConnectPanicsAccounted == Spec => []PanicsAccounted
<1>1. Shield => PanicsAccounted
  BY DEF Shield
<1> QED
  BY <1>1, ShieldAlways, PTL

-----------------------------------------------------------------------------
(* The dial. *)

\* A failed attempt closes the connection the transport has.
LEMMA FailDials ==
  ASSUME Dialing, NEW nodes, NEW hop, NEW how, Fail(nodes, hop, how),
         g' = g, dialed' = dialed, stock \notin {"off", "dial"}, bd' = bd
  PROVE  Dialing'
BY DEF Dialing, NoConnLost, Fail

\* boundedDial gives its goroutine up: the attempt fails.
LEMMA GivingUpDials ==
  ASSUME Dialing, NEW nodes, NEW hop, NEW how, Fail(nodes, hop, how),
         g' = g, dialed' = dialed, stock = "dial", bd' = "off"
  PROVE  Dialing'
BY DEF Dialing, NoConnLost, Fail

\* Where the connection is holds initially and every step keeps it.
LEMMA DialingAlways == Spec => []Dialing
<1>1. Init => Dialing
  BY DEF Init, Dialing, NoConnLost
<1>2. ASSUME Dialing, [Next]_connVars PROVE Dialing'
  <2> USE DEF buildVars, callVars, stockVars, dialVars, shieldVars, credVars
  <2> DEFINE kept == <<bd, stock, g, conn, dialed>>
  <2>1. CASE StartDial
    BY <1>2, <2>1 DEF StartDial, Dialing, NoConnLost
  <2>2. CASE DialReturns
    <3>1. /\ g = "dialing" /\ g' = "offer" /\ bd' = bd /\ stock' = stock
          /\ conn' = IF dialed' = "conn" THEN "goroutine" ELSE conn
      BY <2>2 DEF DialReturns
    <3>2. dialed' \in {"conn", "error", "timeout"}
      BY <2>2 DEF DialReturns
    <3>3. conn = "none" /\ stock \in {"dial", "failed"}
      BY <1>2, <3>1 DEF Dialing
    <3> QED
      BY <1>2, <3>1, <3>2, <3>3 DEF Dialing, NoConnLost
  <2>3. CASE HandOver
    <3>1. /\ g = "offer" /\ bd \in {"wait", "grace"} /\ g' = "gone" /\ bd' = "off"
          /\ dialed' = dialed /\ stock = "dial"
      BY <1>2, <2>3 DEF HandOver, Dialing
    <3>2. CASE dialed = "conn"
      <4>1. conn' = "stock" /\ stock' \in {"proxyTLS", "connect", "apiTLS", "ready"}
        BY <2>3, <3>2 DEF HandOver, AfterTCP, Goes, Ready
      <4> QED
        BY <3>1, <3>2, <4>1 DEF Dialing, NoConnLost
    <3>3. CASE dialed # "conn"
      <4>1. stock' = "failed" /\ conn = "none" /\ conn' = "none"
        BY <1>2, <2>3, <3>1, <3>3 DEF HandOver, FailFirst, Fail, Dialing
      <4> QED
        BY <3>1, <3>3, <4>1 DEF Dialing, NoConnLost
    <3> QED
      BY <3>2, <3>3
  <2>4. CASE Abandoned
    BY <1>2, <2>4 DEF Abandoned, Dialing, NoConnLost
  <2>5. CASE SeesDeadline
    BY <1>2, <2>5 DEF SeesDeadline, Dialing, NoConnLost
  <2>6. CASE SeesCancel
    BY <1>2, <2>6, GivingUpDials DEF SeesCancel, FailFirst, Dialing
  <2>7. CASE GraceEnds
    BY <1>2, <2>7, GivingUpDials DEF GraceEnds, FailFirst, Dialing
  <2>8. CASE HookEnds
    BY <1>2, <2>8 DEF HookEnds, Dialing, NoConnLost
  <2>9. CASE CallerDials
    <3>1. /\ stock = "off" /\ g = "off" /\ conn = "none" /\ bd = "off"
          /\ g' = "off" /\ bd' = "off" /\ dialed' = dialed
      BY <1>2, <2>9 DEF CallerDials, Dialing, Unbound
    <3>2. \/ stock' = "failed" /\ conn' = "none"
          \/ stock' \in {"proxyTLS", "connect", "apiTLS", "ready"} /\ conn' = "stock"
      BY <2>9, <3>1 DEF CallerDials, FailFirst, Fail, AfterTCP, Goes, Ready
    <3> QED
      BY <3>1, <3>2 DEF Dialing, NoConnLost
  <2>10. CASE ThinDials
    <3>1. /\ stock = "off" /\ g = "off" /\ conn = "none" /\ bd = "off"
          /\ g' = "off" /\ bd' = "off" /\ dialed' = dialed
      BY <1>2, <2>10 DEF ThinDials, Dialing, Unbound
    <3>2. \/ stock' = "failed" /\ conn' \in {"none", "closed"}
          \/ stock' = "ready" /\ conn' = "stock"
      BY <2>10, <3>1 DEF ThinDials, Fail, ThinFails, Ready
    <3> QED
      BY <3>1, <3>2 DEF Dialing, NoConnLost
  <2>11. CASE CallerDialsTLS
    <3>1. /\ stock = "off" /\ g = "off" /\ conn = "none" /\ bd = "off"
          /\ g' = "off" /\ bd' = "off" /\ dialed' = dialed
      BY <1>2, <2>11 DEF CallerDialsTLS, Dialing, Unbound
    <3>2. \/ stock' = "failed" /\ conn' = "none"
          \/ stock' \in {"connect", "ready"} /\ conn' = "stock"
      BY <2>11, <3>1 DEF CallerDialsTLS, FailFirst, Fail, AfterProxyTLS, Goes, Ready
    <3> QED
      BY <3>1, <3>2 DEF Dialing, NoConnLost
  <2>12. ASSUME stock \in {"proxyTLS", "connect", "apiTLS"}, g' = g, dialed' = dialed, bd' = bd,
                \/ \E nodes, hop, how : Fail(nodes, hop, how)
                \/ stock' \in {"connect", "apiTLS", "ready"} /\ conn' = conn
         PROVE  Dialing'
    <3>1. CASE \E nodes, hop, how : Fail(nodes, hop, how)
      BY <1>2, <2>12, <3>1, FailDials
    <3>2. CASE stock' \in {"connect", "apiTLS", "ready"} /\ conn' = conn
      BY <1>2, <2>12, <3>2 DEF Dialing, NoConnLost
    <3> QED
      BY <2>12, <3>1, <3>2
  <2>13. CASE ProxyTLS
    <3>1. stock = "proxyTLS" /\ g' = g /\ dialed' = dialed /\ bd' = bd
      BY <2>13 DEF ProxyTLS, Unbound
    <3>2. \/ \E nodes, hop, how : Fail(nodes, hop, how)
          \/ stock' \in {"connect", "apiTLS", "ready"} /\ conn' = conn
      BY <2>13 DEF ProxyTLS, Handshake, AfterProxyTLS, Goes, Ready
    <3> QED
      BY <2>12, <3>1, <3>2
  <2>14. CASE ProxyConnects
    <3>1. stock = "connect" /\ g' = g /\ dialed' = dialed /\ bd' = bd
      BY <2>14 DEF ProxyConnects, Unbound
    <3>2. \/ \E nodes, hop, how : Fail(nodes, hop, how)
          \/ stock' \in {"connect", "apiTLS", "ready"} /\ conn' = conn
      BY <2>14 DEF ProxyConnects, Goes
    <3> QED
      BY <2>12, <3>1, <3>2
  <2>15. CASE APITLS
    <3>1. stock = "apiTLS" /\ g' = g /\ dialed' = dialed /\ bd' = bd
      BY <2>15 DEF APITLS, Unbound
    <3>2. \/ \E nodes, hop, how : Fail(nodes, hop, how)
          \/ stock' \in {"connect", "apiTLS", "ready"} /\ conn' = conn
      BY <2>15 DEF APITLS, Handshake, Ready
    <3> QED
      BY <2>12, <3>1, <3>2
  <2>16. CASE UNCHANGED kept
    BY <1>2, <2>16 DEF Dialing, NoConnLost
  <2>17. Build \/ Ask \/ OtherAsks \/ AskFails \/ BareReturns \/ CtxEnds => UNCHANGED kept
    BY DEF Build, Ask, OtherAsks, AskFails, BareReturns, CtxEnds
  <2>18. SendFails \/ SendCtx \/ SendWrites \/ SendAnswered \/ DialCtxEnds => UNCHANGED kept
    BY DEF SendFails, SendCtx, SendWrites, SendAnswered, DialCtxEnds
  <2>19. UNCHANGED connVars => UNCHANGED kept
    BY DEF connVars
  <2> HIDE DEF buildVars, callVars, stockVars, dialVars, shieldVars, credVars, kept
  <2> QED
    BY <1>2, <2>1, <2>2, <2>3, <2>4, <2>5, <2>6, <2>7, <2>8, <2>9, <2>10, <2>11, <2>13, <2>14,
       <2>15, <2>16, <2>17, <2>18, <2>19 DEF Next, BoundedDial
<1> QED
  BY <1>1, <1>2, PTL DEF Spec

\* A connection boundedDial's goroutine got is handed over or closed, and a
\* transport past its dial has one.
THEOREM ConnectNoConnLost == Spec => []NoConnLost
<1>1. Dialing => NoConnLost
  BY DEF Dialing
<1> QED
  BY <1>1, DialingAlways, PTL

-----------------------------------------------------------------------------
(* The protocol. *)

\* What the client's settings say stays what it is.
LEMMA SettingsStay ==
  ASSUME client' = client
  PROVE  Mode' = Mode /\ Bare' = Bare /\ MayProxy' = MayProxy /\ Only' = Only /\ ByName' = ByName
BY DEF Mode, Given, Bare, MayProxy, Only, ByName

\* A handshake without h2 passes only where the hop cannot be told by its
\* name, and the check never takes a proxy's hop for the API's.
LEMMA AlpnScopes ==
  ASSUME client \in Clients, NEW p, p # "h2"
  PROVE  /\ Only /\ ~AlpnRefuses(EffectiveSNI, p) => ByName
         /\ MayProxy => ~AlpnRefuses(IF client.serverName THEN "serverName" ELSE "proxy", p)
<1>1. client.host \in {"name", "ip", "nonASCII"} /\ client.serverName \in BOOLEAN
  BY ClientsAssumption DEF Client
<1>2. EffectiveSNI = "" <=> ~client.serverName /\ client.host = "ip"
  BY <1>1, Zenon DEF EffectiveSNI
<1>3. /\ ScopeFor = "every" => ~MayProxy
      /\ ScopeFor = "SNI" => ~client.serverName /\ EffectiveSNI # ""
      /\ Only /\ ScopeFor # "every" /\ ScopeFor # "SNI" =>
           MayProxy /\ (EffectiveSNI = "" \/ client.serverName)
  BY Zenon DEF ScopeFor, Only
<1>4. ASSUME Only, ~AlpnRefuses(EffectiveSNI, p) PROVE ByName
  <2>1. ScopeFor # "every" /\ ScopeFor # "SNI"
    BY <1>4 DEF AlpnRefuses
  <2> QED
    BY <1>2, <1>3, <1>4, <2>1 DEF ByName
<1>5. ASSUME MayProxy PROVE ~AlpnRefuses(IF client.serverName THEN "serverName" ELSE "proxy", p)
  <2>1. ~client.serverName /\ EffectiveSNI # "" => EffectiveSNI = "api"
    BY Zenon DEF EffectiveSNI
  <2>2. ScopeFor = "SNI" => ~client.serverName /\ EffectiveSNI = "api"
    BY <1>3, <2>1
  <2>3. "proxy" # "api"
    OBVIOUS
  <2> QED
    BY <1>3, <1>5, <2>2, <2>3 DEF AlpnRefuses
<1> QED
  BY <1>4, <1>5

\* A call that returns leaves the connection as it is.
LEMMA ReturnRoutes ==
  ASSUME Routed, NEW r, NEW b, Return(r, b), client' = client, call # "idle" \/ stock = "off",
         stock' = stock, proto' = proto, route' = route,
         culprit' = culprit \/ culprit'.hop = "api",
         r = "response" /\ ~Bare => stock = "ready" /\ (Mode = "HTTP2Only" => proto = "h2")
  PROVE  Routed'
<1>1. call' = "done" /\ ret' \in {r, "hookPanic"}
  BY DEF Return
<1> QED
  BY <1>1, SettingsStay DEF Routed

\* A call that unwinds leaves the connection as it is.
LEMMA UnwindRoutes ==
  ASSUME Routed, Unwind, client' = client, call # "idle" \/ stock = "off",
         stock' = stock, proto' = proto, route' = route, culprit' = culprit
  PROVE  Routed'
BY SettingsStay DEF Routed, Unwind

\* The transport's attempt goes on, fails, or has its connection.
LEMMA StockRoutes ==
  ASSUME Routed, client' = client, call' = call, route' = route, ret' = ret,
         call # "idle", stock # "ready",
         \/ stock' = "failed" /\ (culprit'.hop = "proxy" => culprit'.how # "proto")
         \/ /\ stock' \in {"dial", "proxyTLS", "connect", "apiTLS"} /\ culprit' = culprit
            /\ stock' = "proxyTLS" => route = "https"
         \/ stock' = "ready" /\ culprit' = culprit /\ (Only /\ proto' # "h2" => ByName)
  PROVE  Routed'
BY SettingsStay DEF Routed

\* What follows a first hop is a phase, or a connection of a plain http API.
LEMMA AfterFirstHop ==
  /\ AfterTCP =>
       \/ /\ stock' \in {"dial", "proxyTLS", "connect", "apiTLS"} /\ culprit' = culprit
          /\ stock' = "proxyTLS" => route = "https"
       \/ stock' = "ready" /\ culprit' = culprit /\ (Only /\ proto' # "h2" => ByName)
  /\ AfterProxyTLS =>
       \/ /\ stock' \in {"dial", "proxyTLS", "connect", "apiTLS"} /\ culprit' = culprit
          /\ stock' = "proxyTLS" => route = "https"
       \/ stock' = "ready" /\ culprit' = culprit /\ (Only /\ proto' # "h2" => ByName)
BY DEF AfterTCP, AfterProxyTLS, Goes, Ready, Only

\* What an attempt negotiated holds initially and every step keeps it.
LEMMA RoutedAlways == Spec => []Routed
<1>1. Init => Routed
  BY DEF Init, Routed, NoCulprit
<1>2. ASSUME Routed, Dialing, [Next]_connVars PROVE Routed'
  <2> USE DEF buildVars, callVars, stockVars, dialVars, shieldVars, credVars
  <2> DEFINE kept == <<client, call, route, stock, proto, culprit, ret>>
             cfg == <<client, call, route, ret>>
             Fails == stock' = "failed" /\ (culprit'.hop = "proxy" => culprit'.how # "proto")
             Goes1 == /\ stock' \in {"dial", "proxyTLS", "connect", "apiTLS"} /\ culprit' = culprit
                      /\ stock' = "proxyTLS" => route = "https"
             Ready1 == stock' = "ready" /\ culprit' = culprit /\ (Only /\ proto' # "h2" => ByName)
  <2>0. ASSUME UNCHANGED cfg, call # "idle", stock # "ready", Fails \/ Goes1 \/ Ready1
        PROVE  Routed'
    BY <1>2, <2>0, StockRoutes
  <2>1. \A how \in {"error", "timeout", "canceled"} : FailFirst(how) => Fails
    BY DEF FailFirst, Fail
  <2>2. CASE Ask
    <3>1. /\ call = "idle" /\ call' = "send" /\ client' = client /\ ret' = ret /\ stock' = stock
          /\ proto' = proto /\ culprit' = culprit
          /\ route' \in {"http", "https"} => MayProxy \/ route' = route
      BY <2>2 DEF Ask, MayProxy
    <3> QED
      BY <1>2, <3>1, SettingsStay DEF Routed
  <2>3. CASE AskFails
    <3>1. call # "idle" \/ stock = "off"
      BY <1>2, <2>3 DEF AskFails, Routed
    <3> QED
      BY <1>2, <2>3, <3>1, ReturnRoutes, UnwindRoutes DEF AskFails
  <2>4. CASE BareReturns
    BY <1>2, <2>4, ReturnRoutes, UnwindRoutes DEF BareReturns
  <2>5. CASE SendFails
    <3>1. PICK r : r # "response" /\ Return(r, "none")
      BY <2>5 DEF SendFails, TransportError
    <3> QED
      BY <1>2, <2>5, <3>1, ReturnRoutes DEF SendFails
  <2>6. CASE SendCtx
    BY <1>2, <2>6, ReturnRoutes DEF SendCtx
  <2>7. CASE SendWrites
    BY <1>2, <2>7, SettingsStay DEF SendWrites, Routed
  <2>8. CASE SendAnswered
    <3>1. stock = "ready" /\ call = "sent"
      BY <1>2, <2>8 DEF SendAnswered, Routed
    <3> QED
      BY <1>2, <2>8, <3>1, ReturnRoutes DEF SendAnswered
  <2>9. CASE StartDial
    BY <2>0, <2>9 DEF StartDial
  <2>10. CASE CallerDials
    <3>1. UNCHANGED cfg /\ call # "idle" /\ stock # "ready"
      BY <2>10 DEF CallerDials
    <3>2. Fails \/ Goes1 \/ Ready1
      BY <2>1, <2>10, AfterFirstHop DEF CallerDials
    <3> QED
      BY <2>0, <3>1, <3>2
  <2>11. CASE ThinDials
    <3>1. UNCHANGED cfg /\ call # "idle" /\ stock # "ready"
      BY <2>11 DEF ThinDials
    <3>2. Fails \/ Goes1 \/ Ready1
      BY <2>11 DEF ThinDials, Fail, ThinFails, ThinRefuses, Ready, Negotiated
    <3> QED
      BY <2>0, <3>1, <3>2
  <2>12. CASE CallerDialsTLS
    <3>1. UNCHANGED cfg /\ call # "idle" /\ stock # "ready"
      BY <2>12 DEF CallerDialsTLS
    <3>2. Only => route # "direct"
      BY <2>12 DEF CallerDialsTLS, Thin, Only
    <3>3. Fails \/ Goes1 \/ Ready1
      BY <2>1, <2>12, <3>2, AfterFirstHop DEF CallerDialsTLS, Ready
    <3> QED
      BY <2>0, <3>1, <3>3
  <2>13. CASE ProxyTLS
    <3>1. UNCHANGED cfg /\ call # "idle" /\ stock # "ready" /\ route = "https" /\ MayProxy
          /\ client \in Clients
      BY <1>2, <2>13 DEF ProxyTLS, Routed
    <3>2. Fails \/ AfterProxyTLS
      <4> DEFINE sni == IF client.serverName THEN "serverName" ELSE "proxy"
      <4>1. CASE \E how \in {"error", "timeout", "alert"} : Fail(FirstHopChain({how}), "proxy", how)
        BY <4>1 DEF Fail
      <4>2. ASSUME NEW p, AlpnRefuses(sni, p) PROVE FALSE
        <5>1. p # "h2"
          BY <4>2 DEF AlpnRefuses
        <5> QED
          BY <3>1, <4>2, <5>1, AlpnScopes
      <4> QED
        BY <2>13, <4>1, <4>2 DEF ProxyTLS, Handshake
    <3> QED
      BY <2>0, <3>1, <3>2, AfterFirstHop
  <2>14. CASE ProxyConnects
    <3>1. UNCHANGED cfg /\ call # "idle" /\ stock # "ready"
      BY <1>2, <2>14 DEF ProxyConnects, Routed
    <3>2. Fails \/ Goes1
      BY <2>14 DEF ProxyConnects, Goes, Fail
    <3> QED
      BY <2>0, <3>1, <3>2
  <2>15. CASE APITLS
    <3>1. UNCHANGED cfg /\ call # "idle" /\ stock # "ready" /\ client \in Clients
      BY <1>2, <2>15 DEF APITLS, Routed
    <3>2. Fails \/ Ready1
      <4>1. CASE \E nodes, how : Fail(nodes, "api", how)
        BY <4>1 DEF Fail
      <4>2. ASSUME NEW p, ~AlpnRefuses(EffectiveSNI, p), Ready(Negotiated(p)) PROVE Ready1
        <5>1. CASE p = "h2"
          BY <4>2, <5>1 DEF Ready, Negotiated
        <5>2. CASE p # "h2"
          BY <3>1, <4>2, <5>2, AlpnScopes DEF Ready
        <5> QED
          BY <5>1, <5>2
      <4> QED
        BY <2>15, <4>1, <4>2 DEF APITLS, Handshake
    <3> QED
      BY <2>0, <3>1, <3>2
  <2>16. CASE HandOver
    <3>1. /\ UNCHANGED cfg /\ call # "idle" /\ stock # "ready"
          /\ dialed \in {"conn", "error", "timeout"}
      BY <1>2, <2>16 DEF HandOver, Routed, Dialing
    <3>2. Fails \/ Goes1 \/ Ready1
      BY <2>1, <2>16, <3>1, AfterFirstHop DEF HandOver
    <3> QED
      BY <2>0, <3>1, <3>2
  <2>17. CASE SeesCancel \/ GraceEnds
    <3>1. UNCHANGED cfg /\ call # "idle" /\ stock # "ready"
      BY <1>2, <2>17 DEF SeesCancel, GraceEnds, Routed, Dialing
    <3>2. Fails
      BY <2>1, <2>17 DEF SeesCancel, GraceEnds
    <3> QED
      BY <2>0, <3>1, <3>2
  <2>18. CASE UNCHANGED kept
    BY <1>2, <2>18, SettingsStay DEF Routed
  <2>19. Build \/ OtherAsks \/ CtxEnds \/ DialReturns \/ HookEnds => UNCHANGED kept
    BY DEF Build, OtherAsks, CtxEnds, DialReturns, HookEnds
  <2>20. Abandoned \/ DialCtxEnds \/ SeesDeadline => UNCHANGED kept
    BY DEF Abandoned, DialCtxEnds, SeesDeadline
  <2>21. UNCHANGED connVars => UNCHANGED kept
    BY DEF connVars
  <2> HIDE DEF buildVars, callVars, stockVars, dialVars, shieldVars, credVars, kept
  <2> QED
    BY <1>2, <2>2, <2>3, <2>4, <2>5, <2>6, <2>7, <2>8, <2>9, <2>10, <2>11, <2>12, <2>13, <2>14,
       <2>15, <2>16, <2>17, <2>18, <2>19, <2>20, <2>21 DEF Next, BoundedDial
<1> QED
  BY <1>1, <1>2, DialingAlways, PTL DEF Spec

\* Under HTTP2Only no request goes out on a connection without h2, but where
\* a proxy's hop cannot be told from the API's, and no such response is
\* returned; a proxy is never refused for its own protocol.
THEOREM ConnectAPIHopChecked == Spec => []APIHopChecked
<1>1. Routed => APIHopChecked
  BY DEF Routed, APIHopChecked, Only, ByName, MayProxy
<1> QED
  BY <1>1, RoutedAlways, PTL

-----------------------------------------------------------------------------
(* The proxies' credentials. *)

\* Removing an element moves those after it up.
LEMMA RemoveAtProperties ==
  ASSUME NEW S, NEW s \in Seq(S), NEW p \in 1 .. Len(s)
  PROVE  /\ RemoveAt(s, p) \in Seq(S) /\ Len(RemoveAt(s, p)) = Len(s) - 1
         /\ \A j \in 1 .. Len(s) - 1 : RemoveAt(s, p)[j] = IF j >= p THEN s[j + 1] ELSE s[j]
<1> DEFINE L == SubSeq(s, 1, p - 1)
           R == SubSeq(s, p + 1, Len(s))
<1>0. Len(s) \in Nat /\ \A j \in 1 .. Len(s) : s[j] \in S
  BY LenProperties, ElementOfSeq
<1>1. /\ L \in Seq(S) /\ Len(L) = p - 1
      /\ \A j \in 1 .. p - 1 : L[j] = s[j]
  <2>1. \A j \in 1 .. p - 1 : s[j] \in S
    BY <1>0
  <2>2. /\ SubSeq(s, 1, p - 1) \in Seq(S)
        /\ Len(SubSeq(s, 1, p - 1)) = IF 1 <= p - 1 THEN (p - 1) - 1 + 1 ELSE 0
        /\ \A j \in 1 .. (p - 1) - 1 + 1 : SubSeq(s, 1, p - 1)[j] = s[1 + j - 1]
    BY <1>0, <2>1, SubSeqProperties
  <2> QED
    BY <1>0, <2>2
<1>2. /\ R \in Seq(S) /\ Len(R) = Len(s) - p
      /\ \A j \in 1 .. Len(s) - p : R[j] = s[p + j]
  <2>1. \A j \in p + 1 .. Len(s) : s[j] \in S
    BY <1>0
  <2>2. /\ SubSeq(s, p + 1, Len(s)) \in Seq(S)
        /\ Len(SubSeq(s, p + 1, Len(s))) = IF p + 1 <= Len(s) THEN Len(s) - (p + 1) + 1 ELSE 0
        /\ \A j \in 1 .. Len(s) - (p + 1) + 1 : SubSeq(s, p + 1, Len(s))[j] = s[(p + 1) + j - 1]
    BY <1>0, <2>1, SubSeqProperties
  <2> QED
    BY <1>0, <2>2
<1> HIDE DEF L, R
<1>3. /\ L \o R \in Seq(S) /\ Len(L \o R) = Len(L) + Len(R)
      /\ \A j \in 1 .. Len(L) + Len(R) : (L \o R)[j] = IF j <= Len(L) THEN L[j] ELSE R[j - Len(L)]
  BY <1>1, <1>2, ConcatProperties
<1>4. RemoveAt(s, p) = L \o R
  BY DEF RemoveAt, L, R
<1>5. Len(L \o R) = Len(s) - 1
  BY <1>0, <1>1, <1>2, <1>3
<1>6. ASSUME NEW j \in 1 .. Len(s) - 1
      PROVE  (L \o R)[j] = IF j >= p THEN s[j + 1] ELSE s[j]
  <2>1. (L \o R)[j] = IF j <= p - 1 THEN L[j] ELSE R[j - (p - 1)]
    BY <1>0, <1>1, <1>2, <1>3
  <2>2. CASE j >= p
    <3>1. j - (p - 1) \in 1 .. Len(s) - p /\ p + (j - (p - 1)) = j + 1 /\ ~(j <= p - 1)
      BY <1>0, <2>2
    <3>2. R[j - (p - 1)] = s[p + (j - (p - 1))]
      BY <1>2, <3>1
    <3> QED
      BY <2>1, <2>2, <3>1, <3>2
  <2>3. CASE ~(j >= p)
    <3>1. j \in 1 .. p - 1 /\ j <= p - 1
      BY <1>0, <2>3
    <3> QED
      BY <1>1, <2>1, <2>3, <3>1
  <2> QED
    BY <2>2, <2>3
<1> QED
  BY <1>3, <1>4, <1>5, <1>6

\* Where a userinfo is found, or that it is not.
LEMMA Found ==
  ASSUME users \in Seq(Userinfos), NEW u,
         \A j, k \in 1 .. Len(users) : users[j] = users[k] => j = k
  PROVE  LET known == SelectInSeq(users, LAMBDA x : x = u)
         IN  \/ known = 0 /\ \A j \in 1 .. Len(users) : users[j] # u
             \/ known \in 1 .. Len(users) /\ users[known] = u
<1> DEFINE I == {i \in 1 .. Len(users) : users[i] = u}
           known == SelectInSeq(users, LAMBDA x : x = u)
<1>0. known = IF I # {} THEN Min(I) ELSE 0
  BY DEF SelectInSeq
<1>1. CASE I = {}
  BY <1>0, <1>1
<1>2. CASE I # {}
  <2>1. PICK m \in 1 .. Len(users) : users[m] = u /\ I = {m}
    BY <1>2
  <2>2. Len(users) \in Nat
    BY LenProperties
  <2>3. Min({m}) = m
    BY <2>1, <2>2 DEF Min
  <2>4. known = m
    BY <1>0, <1>2, <2>1, <2>3
  <2> QED
    BY <2>1, <2>4
<1> QED
  BY <1>1, <1>2

\* Record takes one place away, the userinfo's own or, of a full list, the
\* oldest one, and puts the userinfo last.
LEMMA RecordOrders ==
  ASSUME Remembered, NEW u \in Userinfos, Record(u)
  PROVE  \E p \in 0 .. Len(users) :
           /\ p = 0 => Len(users) < MaxProxyUserinfos
           /\ p # 0 => users[p] = u \/ (p = 1 /\ Len(users) = MaxProxyUserinfos)
           /\ \A j \in 1 .. Len(users) : j # p => users[j] # u
           /\ users' \in Seq(Userinfos)
           /\ Len(users') = IF p = 0 THEN Len(users) + 1 ELSE Len(users)
           /\ \A j \in 1 .. Len(users') - 1 :
                users'[j] = IF p # 0 /\ j >= p THEN users[j + 1] ELSE users[j]
           /\ users'[Len(users')] = u
           /\ needles' = IF p # 0 /\ users[p] = u THEN needles ELSE ToSet(users')
<1> DEFINE known == SelectInSeq(users, LAMBDA x : x = u)
           rest == IF known > 0 THEN RemoveAt(users, known)
                   ELSE IF Len(users) = MaxProxyUserinfos THEN Tail(users) ELSE users
<1>0. /\ users \in Seq(Userinfos) /\ Len(users) \in Nat /\ MaxProxyUserinfos \in Nat \ {0}
      /\ Len(users) <= MaxProxyUserinfos
      /\ \A j, k \in 1 .. Len(users) : users[j] = users[k] => j = k
  BY LenProperties, UserinfosAssumption DEF Remembered
<1>1. \/ known = 0 /\ \A j \in 1 .. Len(users) : users[j] # u
      \/ known \in 1 .. Len(users) /\ users[known] = u
  BY <1>0, Found
<1>2. users' = Append(rest, u) /\ needles' = IF known > 0 THEN needles ELSE ToSet(users')
  BY DEF Record
<1> HIDE DEF known, rest
<1>3. ASSUME rest \in Seq(Userinfos)
      PROVE  /\ users' \in Seq(Userinfos) /\ Len(users') = Len(rest) + 1
             /\ users'[Len(users')] = u
             /\ \A j \in 1 .. Len(rest) : users'[j] = rest[j]
  BY <1>2, <1>3, AppendProperties
<1>4. CASE known \in 1 .. Len(users) /\ users[known] = u
  <2>1. rest = RemoveAt(users, known) /\ known > 0
    BY <1>0, <1>4 DEF rest
  <2>2. /\ rest \in Seq(Userinfos) /\ Len(rest) = Len(users) - 1
        /\ \A j \in 1 .. Len(users) - 1 : rest[j] = IF j >= known THEN users[j + 1] ELSE users[j]
    BY <1>0, <1>4, <2>1, RemoveAtProperties
  <2>3. /\ Len(users') = Len(users) /\ Len(users') - 1 = Len(users) - 1
        /\ users' \in Seq(Userinfos) /\ users'[Len(users')] = u
    BY <1>0, <1>3, <2>2
  <2>4. \A j \in 1 .. Len(users') - 1 :
          users'[j] = IF known # 0 /\ j >= known THEN users[j + 1] ELSE users[j]
    BY <1>3, <2>1, <2>2, <2>3
  <2>5. \A j \in 1 .. Len(users) : j # known => users[j] # u
    BY <1>0, <1>4
  <2>6. needles' = needles /\ known # 0
    BY <1>2, <1>4, <2>1
  <2> QED
    BY <1>4, <2>3, <2>4, <2>5, <2>6
<1>5. CASE known = 0 /\ (\A j \in 1 .. Len(users) : users[j] # u) /\ Len(users) = MaxProxyUserinfos
  <2>1. rest = Tail(users) /\ users # <<>>
    BY <1>0, <1>5, EmptySeq DEF rest
  <2>2. /\ rest \in Seq(Userinfos) /\ Len(rest) = Len(users) - 1
        /\ \A j \in 1 .. Len(users) - 1 : rest[j] = users[j + 1]
    BY <1>0, <2>1, HeadTailProperties
  <2>3. /\ Len(users') = Len(users) /\ Len(users') - 1 = Len(users) - 1
        /\ users' \in Seq(Userinfos) /\ users'[Len(users')] = u
    BY <1>0, <1>3, <2>2
  <2>4. \A j \in 1 .. Len(users') - 1 :
          users'[j] = IF 1 # 0 /\ j >= 1 THEN users[j + 1] ELSE users[j]
    BY <1>3, <2>2, <2>3
  <2>5. needles' = ToSet(users') /\ 1 \in 0 .. Len(users) /\ 1 # 0 /\ users[1] # u
    BY <1>0, <1>2, <1>5
  <2> QED
    BY <1>5, <2>3, <2>4, <2>5
<1>6. CASE known = 0 /\ (\A j \in 1 .. Len(users) : users[j] # u) /\ Len(users) # MaxProxyUserinfos
  <2>1. rest = users
    BY <1>6 DEF rest
  <2>2. /\ Len(users') = Len(users) + 1 /\ Len(users') - 1 = Len(users)
        /\ users' \in Seq(Userinfos) /\ users'[Len(users')] = u
    BY <1>0, <1>3, <2>1
  <2>3. \A j \in 1 .. Len(users') - 1 :
          users'[j] = IF 0 # 0 /\ j >= 0 THEN users[j + 1] ELSE users[j]
    BY <1>0, <1>3, <2>1, <2>2
  <2>4. needles' = ToSet(users') /\ 0 \in 0 .. Len(users) /\ Len(users) < MaxProxyUserinfos
    BY <1>0, <1>2, <1>6
  <2> QED
    BY <1>6, <2>2, <2>3, <2>4
<1> QED
  BY <1>1, <1>4, <1>5, <1>6

\* A list of distinct userinfos has as many elements as places.
LEMMA Distinct ==
  ASSUME NEW s \in Seq(Userinfos), \A j, k \in 1 .. Len(s) : s[j] = s[k] => j = k
  PROVE  IsFiniteSet(ToSet(s)) /\ Cardinality(ToSet(s)) = Len(s)
<1>1. Len(s) \in Nat /\ DOMAIN s = 1 .. Len(s) /\ s \in [1 .. Len(s) -> Userinfos]
  BY LenProperties
<1>2. s \in Bijection(1 .. Len(s), ToSet(s))
  BY <1>1 DEF Bijection, Injection, Surjection, IsInjective, ToSet
<1>3. ExistsBijection(1 .. Len(s), ToSet(s))
  BY <1>2 DEF ExistsBijection
<1>4. IsFiniteSet(1 .. Len(s)) /\ Cardinality(1 .. Len(s)) = Len(s)
  BY <1>1, FS_Interval
<1> QED
  BY <1>1, <1>3, <1>4, FS_Bijection, FS_CountingElements

\* Record keeps the list short, distinct and the needles' own.
LEMMA RecordKeeps ==
  ASSUME Remembered, NEW u \in Userinfos, Record(u)
  PROVE  /\ users' \in Seq(Userinfos) /\ Len(users') \in 1 .. MaxProxyUserinfos
         /\ users'[Len(users')] = u
         /\ \A j, k \in 1 .. Len(users') : users'[j] = users'[k] => j = k
         /\ needles' = ToSet(users')
<1>0. /\ Len(users) \in Nat /\ MaxProxyUserinfos \in Nat \ {0} /\ Len(users) <= MaxProxyUserinfos
      /\ \A j, k \in 1 .. Len(users) : users[j] = users[k] => j = k
      /\ users \in Seq(Userinfos) /\ needles = ToSet(users)
  BY LenProperties, UserinfosAssumption DEF Remembered
<1>1. PICK p \in 0 .. Len(users) :
        /\ p = 0 => Len(users) < MaxProxyUserinfos
        /\ p # 0 => users[p] = u \/ (p = 1 /\ Len(users) = MaxProxyUserinfos)
        /\ \A j \in 1 .. Len(users) : j # p => users[j] # u
        /\ users' \in Seq(Userinfos)
        /\ Len(users') = IF p = 0 THEN Len(users) + 1 ELSE Len(users)
        /\ \A j \in 1 .. Len(users') - 1 :
             users'[j] = IF p # 0 /\ j >= p THEN users[j + 1] ELSE users[j]
        /\ users'[Len(users')] = u
        /\ needles' = IF p # 0 /\ users[p] = u THEN needles ELSE ToSet(users')
  BY RecordOrders
<1>2. Len(users') \in 1 .. MaxProxyUserinfos
  BY <1>0, <1>1
<1> DEFINE from(j) == IF p # 0 /\ j >= p THEN j + 1 ELSE j
<1>3. ASSUME NEW j \in 1 .. Len(users') - 1
      PROVE  from(j) \in 1 .. Len(users) /\ from(j) # p /\ users'[j] = users[from(j)]
  BY <1>0, <1>1
<1>4. ASSUME NEW j \in 1 .. Len(users'), NEW k \in 1 .. Len(users'), users'[j] = users'[k]
      PROVE  j = k
  <2>0. Len(users') \in Nat
    BY <1>0, <1>1
  <2>1. CASE j = Len(users') /\ k = Len(users')
    BY <2>1
  <2>2. CASE j # Len(users') /\ k # Len(users')
    <3>1. j \in 1 .. Len(users') - 1 /\ k \in 1 .. Len(users') - 1
      BY <2>0, <2>2
    <3>2. from(j) = from(k)
      BY <1>0, <1>3, <1>4, <3>1
    <3> QED
      BY <2>0, <3>2
  <2>3. CASE j # Len(users') /\ k = Len(users')
    <3>1. j \in 1 .. Len(users') - 1
      BY <2>0, <2>3
    <3>2. users[from(j)] = u
      BY <1>1, <1>3, <1>4, <2>3, <3>1
    <3> QED
      BY <1>1, <1>3, <3>1, <3>2
  <2>4. CASE j = Len(users') /\ k # Len(users')
    <3>1. k \in 1 .. Len(users') - 1
      BY <2>0, <2>4
    <3>2. users[from(k)] = u
      BY <1>1, <1>3, <1>4, <2>4, <3>1
    <3> QED
      BY <1>1, <1>3, <3>1, <3>2
  <2> QED
    BY <2>1, <2>2, <2>3, <2>4
<1>5. needles' = ToSet(users')
  <2>1. CASE p # 0 /\ users[p] = u
    <3>1. /\ DOMAIN users = 1 .. Len(users) /\ DOMAIN users' = 1 .. Len(users)
          /\ Len(users') = Len(users)
      BY <1>0, <1>1, <2>1, LenProperties
    <3>0. Len(users) \in Nat /\ Len(users') = Len(users) /\ p \in 1 .. Len(users)
      BY <1>0, <2>1, <3>1
    <3>2. ASSUME NEW j \in 1 .. Len(users) PROVE users'[j] \in ToSet(users)
      <4>1. CASE j = Len(users)
        BY <1>1, <2>1, <3>1, <4>1 DEF ToSet
      <4>2. CASE j # Len(users)
        <5>1. j \in 1 .. Len(users') - 1
          BY <3>0, <4>2
        <5> QED
          BY <1>3, <3>1, <5>1 DEF ToSet
      <4> QED
        BY <4>1, <4>2
    <3>3. ASSUME NEW j \in 1 .. Len(users) PROVE users[j] \in ToSet(users')
      <4>1. CASE j = p
        <5>1. users'[Len(users)] = users[j] /\ Len(users) \in 1 .. Len(users)
          BY <1>0, <1>1, <2>1, <3>1, <4>1
        <5> QED
          BY <3>1, <5>1 DEF ToSet
      <4>2. CASE j < p
        <5>1. j \in 1 .. Len(users') - 1 /\ from(j) = j
          BY <3>0, <4>2
        <5>2. users'[j] = users[j]
          BY <1>3, <5>1
        <5> QED
          BY <3>1, <5>2 DEF ToSet
      <4>3. CASE j > p
        <5>1. j - 1 \in 1 .. Len(users') - 1 /\ from(j - 1) = j /\ j - 1 \in 1 .. Len(users)
          BY <3>0, <4>3
        <5>2. users'[j - 1] = users[j]
          BY <1>3, <5>1
        <5> QED
          BY <3>1, <5>1, <5>2 DEF ToSet
      <4> QED
        BY <3>0, <4>1, <4>2, <4>3
    <3>4. ToSet(users') = ToSet(users)
      BY <3>1, <3>2, <3>3 DEF ToSet
    <3> QED
      BY <1>0, <1>1, <2>1, <3>4
  <2>2. CASE ~(p # 0 /\ users[p] = u)
    BY <1>1, <2>2
  <2> QED
    BY <2>1, <2>2
<1> QED
  BY <1>1, <1>2, <1>4, <1>5

\* Another call's userinfo pushes this call's out only after as many others.
LEMMA OtherRemembers ==
  ASSUME Remembered, NEW u \in Userinfos, Record(u), since' = (since \cup {u}) \ {user},
         user' = user
  PROVE  Remembered'
<1>0. /\ Len(users) \in Nat /\ MaxProxyUserinfos \in Nat \ {0} /\ Len(users) <= MaxProxyUserinfos
      /\ users \in Seq(Userinfos) /\ IsFiniteSet(since) /\ user \notin since
  BY LenProperties, UserinfosAssumption DEF Remembered
<1>1. /\ users' \in Seq(Userinfos) /\ Len(users') \in 1 .. MaxProxyUserinfos
      /\ users'[Len(users')] = u
      /\ \A j, k \in 1 .. Len(users') : users'[j] = users'[k] => j = k
      /\ needles' = ToSet(users')
  BY RecordKeeps
<1>2. since' = IF u = user THEN since ELSE since \cup {u}
  BY <1>0
<1>3. IsFiniteSet(since') /\ user \notin since' /\ Cardinality(since') >= Cardinality(since)
      /\ Cardinality(since') \in Nat /\ Cardinality(since) \in Nat
  <2>1. /\ IsFiniteSet(since \cup {u}) /\ Cardinality(since) \in Nat
        /\ Cardinality(since \cup {u}) = IF u \in since THEN Cardinality(since)
                                         ELSE Cardinality(since) + 1
    BY <1>0, FS_AddElement, FS_CardinalityType
  <2>2. CASE u = user
    <3>1. since' = since
      BY <1>2, <2>2
    <3>2. Cardinality(since) >= Cardinality(since)
      BY <2>1
    <3> QED
      BY <1>0, <2>1, <3>1, <3>2
  <2>3. CASE u # user
    <3>1. since' = since \cup {u}
      BY <1>2, <2>3
    <3>2. Cardinality(since \cup {u}) \in Nat /\ Cardinality(since \cup {u}) >= Cardinality(since)
      BY <2>1
    <3> QED
      BY <1>0, <2>1, <2>3, <3>1, <3>2
  <2> QED
    BY <2>2, <2>3
<1> DEFINE Stands == \E k \in 1 .. Len(users') :
                       users'[k] = user /\ \A j \in k + 1 .. Len(users') : users'[j] \in since'
<1>4. ASSUME user # NoUser PROVE Cardinality(since') >= MaxProxyUserinfos \/ Stands
  <2>1. CASE Cardinality(since) >= MaxProxyUserinfos
    BY <1>0, <1>3, <2>1
  <2>2. CASE u = user
    <3>1. /\ Len(users') \in 1 .. Len(users') /\ users'[Len(users')] = user
          /\ Len(users') + 1 .. Len(users') = {}
      BY <1>0, <1>1, <2>2
    <3> QED
      BY <3>1
  <2>3. CASE u # user /\ ~(Cardinality(since) >= MaxProxyUserinfos)
    <3>1. PICK k \in 1 .. Len(users) :
            users[k] = user /\ \A j \in k + 1 .. Len(users) : users[j] \in since
      BY <1>4, <2>3 DEF Remembered
    <3>2. PICK p \in 0 .. Len(users) :
            /\ p = 0 => Len(users) < MaxProxyUserinfos
            /\ p # 0 => users[p] = u \/ (p = 1 /\ Len(users) = MaxProxyUserinfos)
            /\ \A j \in 1 .. Len(users) : j # p => users[j] # u
            /\ users' \in Seq(Userinfos)
            /\ Len(users') = IF p = 0 THEN Len(users) + 1 ELSE Len(users)
            /\ \A j \in 1 .. Len(users') - 1 :
                 users'[j] = IF p # 0 /\ j >= p THEN users[j + 1] ELSE users[j]
            /\ users'[Len(users')] = u
            /\ needles' = IF p # 0 /\ users[p] = u THEN needles ELSE ToSet(users')
      BY RecordOrders
    <3>3. since' = since \cup {u}
      BY <1>2, <2>3
    <3>4. CASE p = 0 \/ p > k
      <4>1. k \in 1 .. Len(users') - 1 /\ ~(p # 0 /\ k >= p)
        BY <1>0, <3>2, <3>4
      <4>2. users'[k] = user
        BY <3>1, <3>2, <4>1
      <4>3. ASSUME NEW j \in k + 1 .. Len(users') PROVE users'[j] \in since'
        <5>1. CASE j = Len(users')
          BY <3>2, <3>3, <5>1
        <5>2. CASE j # Len(users')
          <6>1. j \in 1 .. Len(users') - 1 /\ j \in k + 1 .. Len(users)
                /\ (p # 0 /\ j >= p => j + 1 \in k + 1 .. Len(users))
            BY <1>0, <3>2, <4>1, <5>2
          <6>2. users'[j] \in since
            BY <3>1, <3>2, <6>1
          <6> QED
            BY <3>3, <6>2
        <5> QED
          BY <5>1, <5>2
      <4>4. k \in 1 .. Len(users')
        BY <1>0, <3>2, <4>1
      <4> QED
        BY <4>2, <4>3, <4>4
    <3>5. CASE p # 0 /\ p < k
      <4>1. k - 1 \in 1 .. Len(users') - 1 /\ k - 1 >= p /\ (k - 1) + 1 = k
            /\ k - 1 \in 1 .. Len(users')
        BY <1>0, <3>2, <3>5
      <4>2. users'[k - 1] = user
        BY <3>1, <3>2, <3>5, <4>1
      <4>3. ASSUME NEW j \in (k - 1) + 1 .. Len(users') PROVE users'[j] \in since'
        <5>1. CASE j = Len(users')
          BY <3>2, <3>3, <5>1
        <5>2. CASE j # Len(users')
          <6>1. /\ j \in 1 .. Len(users') - 1 /\ j >= p /\ j + 1 \in k + 1 .. Len(users)
            BY <1>0, <3>2, <3>5, <5>2
          <6>2. users'[j] = users[j + 1]
            BY <3>2, <3>5, <6>1
          <6> QED
            BY <3>1, <3>3, <6>1, <6>2
        <5> QED
          BY <5>1, <5>2
      <4> QED
        BY <4>1, <4>2, <4>3
    <3>6. CASE p = k
      <4>1. p = 1 /\ k = 1 /\ Len(users) = MaxProxyUserinfos /\ Len(users') = MaxProxyUserinfos
        BY <2>3, <3>1, <3>2, <3>6
      <4>2. ASSUME NEW j \in 1 .. Len(users') PROVE users'[j] \in since'
        <5>1. CASE j = Len(users')
          BY <3>2, <3>3, <5>1
        <5>2. CASE j # Len(users')
          <6>1. j \in 1 .. Len(users') - 1 /\ j >= 1 /\ j + 1 \in 1 + 1 .. Len(users)
            BY <1>0, <4>1, <5>2
          <6>2. users'[j] = users[j + 1]
            BY <3>2, <4>1, <6>1
          <6> QED
            BY <3>1, <3>3, <4>1, <6>1, <6>2
        <5> QED
          BY <5>1, <5>2
      <4>3. DOMAIN users' = 1 .. Len(users')
        BY <1>1, LenProperties
      <4>4. ToSet(users') \in SUBSET since'
        BY <4>2, <4>3 DEF ToSet
      <4>5. Cardinality(ToSet(users')) = Len(users')
        BY <1>1, Distinct
      <4>6. Cardinality(ToSet(users')) <= Cardinality(since')
        BY <1>3, <4>4, FS_Subset
      <4> QED
        BY <1>0, <1>3, <4>1, <4>5, <4>6
    <3> QED
      BY <1>0, <3>4, <3>5, <3>6
  <2> QED
    BY <2>1, <2>2, <2>3
<1>5. Len(users') <= MaxProxyUserinfos
  BY <1>0, <1>1
<1> QED
  BY <1>1, <1>3, <1>4, <1>5 DEF Remembered

\* The call's own userinfo is the last one.
LEMMA OwnRemembers ==
  ASSUME Remembered, NEW u \in Userinfos, Record(u), user' = u, since' = {}
  PROVE  Remembered'
<1>1. /\ users' \in Seq(Userinfos) /\ Len(users') \in 1 .. MaxProxyUserinfos
      /\ users'[Len(users')] = u
      /\ \A j, k \in 1 .. Len(users') : users'[j] = users'[k] => j = k
      /\ needles' = ToSet(users')
  BY RecordKeeps
<1>2. MaxProxyUserinfos \in Nat
  BY UserinfosAssumption
<1>3. /\ Len(users') \in 1 .. Len(users') /\ Len(users') + 1 .. Len(users') = {}
      /\ Len(users') <= MaxProxyUserinfos
  BY <1>1, <1>2
<1>4. IsFiniteSet({})
  BY FS_EmptySet
<1> QED
  BY <1>1, <1>3, <1>4 DEF Remembered

\* What is remembered holds initially and every step keeps it.
LEMMA RememberedAlways == Spec => []Remembered
<1>1. Init => Remembered
  <2> SUFFICES ASSUME Init PROVE Remembered
    OBVIOUS
  <2>1. users = <<>> /\ needles = {} /\ user = NoUser /\ since = {}
    BY DEF Init
  <2>2. users \in Seq(Userinfos) /\ Len(users) = 0 /\ MaxProxyUserinfos \in Nat /\ DOMAIN users = {}
    BY <2>1, EmptySeq, UserinfosAssumption
  <2>3. ToSet(users) = {}
    BY <2>2 DEF ToSet
  <2>4. IsFiniteSet({}) /\ 1 .. 0 = {}
    BY FS_EmptySet
  <2> QED
    BY <2>1, <2>2, <2>3, <2>4 DEF Remembered
<1>2. ASSUME Remembered, [Next]_connVars PROVE Remembered'
  <2> USE DEF buildVars, callVars, stockVars, dialVars, shieldVars, credVars
  <2>1. CASE Ask
    <3>1. CASE \E u \in Userinfos : Record(u) /\ user' = u /\ since' = {}
      BY <1>2, <3>1, OwnRemembers
    <3>2. CASE UNCHANGED credVars
      BY <1>2, <3>2 DEF Remembered
    <3> QED
      BY <2>1, <3>1, <3>2 DEF Ask
  <2>2. CASE OtherAsks
    BY <1>2, <2>2, OtherRemembers DEF OtherAsks
  <2>3. CASE UNCHANGED credVars
    BY <1>2, <2>3 DEF Remembered
  <2>4. Build \/ AskFails \/ BareReturns \/ CtxEnds \/ SendFails \/ SendCtx \/ SendWrites
        \/ SendAnswered => UNCHANGED credVars
    BY DEF Build, AskFails, BareReturns, CtxEnds, SendFails, SendCtx, SendWrites, SendAnswered
  <2>5. StartDial \/ CallerDials \/ ThinDials \/ CallerDialsTLS \/ ProxyTLS \/ ProxyConnects
        \/ APITLS => UNCHANGED credVars
    BY DEF StartDial, CallerDials, ThinDials, CallerDialsTLS, ProxyTLS, ProxyConnects, APITLS
  <2>6. DialReturns \/ HookEnds \/ BoundedDial => UNCHANGED credVars
    BY DEF DialReturns, HookEnds, BoundedDial, HandOver, Abandoned, DialCtxEnds, SeesDeadline,
           SeesCancel, GraceEnds
  <2>7. UNCHANGED connVars => UNCHANGED credVars
    BY DEF connVars
  <2> HIDE DEF buildVars, callVars, stockVars, dialVars, shieldVars, credVars
  <2> QED
    BY <1>2, <2>1, <2>2, <2>3, <2>4, <2>5, <2>6, <2>7 DEF Next
<1> QED
  BY <1>1, <1>2, PTL DEF Spec

\* The text of a failed dial is scrubbed of its proxy's credential, unless as
\* many others as are remembered were recorded after it.
THEOREM ConnectProxyScrubbed == Spec => []ProxyScrubbed
<1>1. ASSUME Remembered PROVE ProxyScrubbed
  <2>1. DOMAIN users = 1 .. Len(users) /\ needles = ToSet(users)
    BY <1>1, LenProperties DEF Remembered
  <2>2. \A k \in 1 .. Len(users) : users[k] \in needles
    BY <2>1 DEF ToSet
  <2> QED
    BY <1>1, <2>2 DEF Remembered, ProxyScrubbed
<1> QED
  BY <1>1, RememberedAlways, PTL
=============================================================================
