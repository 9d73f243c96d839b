------------------------------ MODULE Connect ------------------------------
(***************************************************************************)
(* How a client gets its transport and a request its connection: the       *)
(* options (config.go, transport.go), NewTransport, Wrap and boundedDial   *)
(* (internal/h2gate/config.go), the classification of a failed dial        *)
(* (internal/h2gate/errors.go), send's last check, the shield around a     *)
(* caller's trace hooks (internal/engine/transport.go) and the credentials *)
(* of the proxies the client chose (internal/engine/proxycreds.go).        *)
(*                                                                         *)
(* One client is built and makes one call, on a cold pool.  Three other    *)
(* goroutines matter: the stock transport's, which makes the connection    *)
(* (external), the one boundedDial starts for the TCP dial, and those that *)
(* run a caller's hooks, which may panic after the call has returned.      *)
(* A TLS peer, a proxy and a dialer do whatever they may.                  *)
(***************************************************************************)
EXTENDS Integers, Sequences, FiniteSets, SequencesExt

CONSTANTS Clients,            \* the clients that may be built: records of Client
          MaxPanics,          \* bound: hooks that panic
          Userinfos,          \* the userinfos of the proxies the client's func returns
          NoUser,
          MaxProxyUserinfos   \* how many of them are remembered (16)

\* The settings resolve checks, in its order, before it builds the transport.
Settings == <<"key", "baseURL", "model", "timeout", "connectTimeout", "retry", "limit",
              "product", "header">>

Options == {"RoundTripper", "HTTPTransport", "HTTPVersion", "RootCAs", "TLSConfig", "Proxy",
            "ConnectTimeout", "Compression"}

(***************************************************************************)
(* unusable are the settings with an unusable value, opts the transport    *)
(* options given, nils those whose value is nil; scheme and host are the   *)
(* base URL's.  The rest is the transport's: with HTTPTransport the        *)
(* caller's, else the options'.                                            *)
(***************************************************************************)
Client ==
    [unusable : SUBSET ToSet(Settings),
     opts : SUBSET Options, nils : SUBSET {"RoundTripper", "HTTPTransport"},
     version : {"HTTP2Only", "HTTPAuto", "other"},
     scheme : {"http", "https"}, host : {"name", "ip", "nonASCII"},
     serverName : BOOLEAN,     \* TLSClientConfig.ServerName is set
     proxy : {"nil", "envNone", "envProxy", "envBad", "func"},
     ownH2 : BOOLEAN,          \* TLSNextProto carries "h2"
     dialTLS : BOOLEAN,        \* the transport has a TLS dialer
     h1 : BOOLEAN,             \* its Protocols allow HTTP/1.1
     userinfo : BOOLEAN,       \* its proxies have userinfos
     hooks : BOOLEAN]          \* the call has trace hooks

ASSUME ClientsAssumption == Clients \subseteq Client
ASSUME PanicsAssumption == MaxPanics \in Nat
ASSUME UserinfosAssumption == NoUser \notin Userinfos /\ MaxProxyUserinfos \in Nat \ {0}

VARIABLES
    client,    \* the client
    built,     \* "no", "ok", or what refused it
    call,      \* the caller: "idle", "send", "sent", "done"
    ctx,       \* its context
    route,     \* what the proxy func chose: "none", "direct", "http", "https"
    stock,     \* the stock transport's connection attempt
    bd,        \* boundedDial: "off", "wait", "grace"
    dctx,      \* its context: "live", "deadline", "canceled"
    abandoned, \* its channel is closed
    g,         \* its goroutine: "off", "hook", "dialing", "offer", "gone"
    dialed,    \* what dial returned to it: "none", "conn", "error", "timeout"
    conn,      \* the connection: "none", "goroutine", "stock", "closed"
    proto,     \* the API connection's protocol: "none", "h2", "h1"
    chain,     \* the nodes of the error a failed attempt gives
    culprit,   \* history: the hop that failed, and how
    ret,       \* how the call returned
    body,      \* the response's body: "none", "open", "closed"
    returned, panicked,              \* the shield
    panics, raised, logged, writing, \* history: hook panics, and a hook of the write loop
    users, needles,                  \* ProxyCreds, oldest first, and its snapshot
    user, since                      \* history: this call's userinfo, those recorded after it

buildVars == <<client, built>>
dialVars == <<bd, dctx, abandoned, g, dialed, conn>>
shieldVars == <<returned, panicked, panics, raised, logged, writing>>
stockVars == <<stock, proto, chain, culprit>>
callVars == <<call, ctx, route, ret, body>>
credVars == <<users, needles, user, since>>
connVars == <<buildVars, callVars, stockVars, dialVars, shieldVars, credVars>>

NoCulprit == [hop |-> "none", how |-> "none"]

Init ==
    /\ client \in Clients /\ built = "no"
    /\ call = "idle" /\ ctx = "live" /\ route = "none" /\ ret = "none" /\ body = "none"
    /\ stock = "off" /\ proto = "none" /\ chain = {} /\ culprit = NoCulprit
    /\ bd = "off" /\ dctx = "live" /\ abandoned = FALSE
    /\ g = "off" /\ dialed = "none" /\ conn = "none"
    /\ returned = FALSE /\ panicked = FALSE /\ panics = 0 /\ raised = 0 /\ logged = 0
    /\ writing = FALSE
    /\ users = <<>> /\ needles = {} /\ user = NoUser /\ since = {}

-----------------------------------------------------------------------------
(* The build.                                                              *)

Given(o) == o \in client.opts

\* The first option of names that was given, or "".
FirstGiven(names) ==
    LET i == SelectInSeq(names, Given) IN IF i = 0 THEN "" ELSE names[i]

\* Options that exclude each other, whatever their values.
Conflict ==
    CASE Given("RoundTripper") /\ Given("HTTPTransport") -> "HTTPTransport"
      [] Given("RoundTripper") /\ ~Given("HTTPTransport") ->
            FirstGiven(<<"HTTPVersion", "RootCAs", "TLSConfig", "Proxy", "ConnectTimeout", "Compression">>)
      [] ~Given("RoundTripper") /\ Given("HTTPTransport") ->
            FirstGiven(<<"RootCAs", "TLSConfig", "Proxy", "Compression">>)
      [] OTHER -> ""

Mode == IF Given("HTTPVersion") THEN client.version
        ELSE IF client.scheme = "http" THEN "HTTPAuto" ELSE "HTTP2Only"

Wrapped == Given("HTTPTransport")
Bare == Given("RoundTripper")

\* The first thing that refuses the client: a setting, the options together,
\* or what build, resolveTarget, Wrap and proxyMayApply refuse, in their order.
BuildRefusal ==
    IF client.unusable # {}
    THEN Settings[SelectInSeq(Settings, LAMBDA x : x \in client.unusable)]
    ELSE IF Conflict # "" THEN "conflict"
    ELSE IF Bare THEN IF "RoundTripper" \in client.nils THEN "nil" ELSE "ok"
    ELSE IF Mode = "other" THEN "version"
    ELSE IF Wrapped /\ "HTTPTransport" \in client.nils THEN "nil"
    ELSE IF Mode = "HTTP2Only" /\ client.host = "nonASCII" THEN "nonASCIIHost"
    ELSE IF Wrapped /\ client.ownH2 /\ Mode = "HTTP2Only" /\ client.scheme = "https" THEN "callerHTTP2"
    ELSE IF client.proxy = "envBad" THEN "proxyEnvironment"
    ELSE "ok"

Build ==
    /\ built = "no"
    /\ built' = BuildRefusal
    /\ UNCHANGED <<client, callVars, stockVars, dialVars, shieldVars, credVars>>

MayProxy == client.proxy \in {"envProxy", "func"}

\* effectiveSNI is empty for an IP literal without a ServerName.
EffectiveSNI == IF client.serverName THEN "serverName"
                ELSE IF client.host = "ip" THEN "" ELSE "api"

\* Variant: a ServerName that both hops carry is taken for the API's own.
ScopeForAnyName ==
    IF Mode # "HTTP2Only" \/ client.scheme # "https" THEN "none"
    ELSE IF ~MayProxy THEN "every"
    ELSE IF EffectiveSNI = "" THEN "postCheck"
    ELSE "SNI"

ScopeFor ==
    IF Mode # "HTTP2Only" \/ client.scheme # "https" THEN "none"
    ELSE IF ~MayProxy THEN "every"
    ELSE IF EffectiveSNI = "" \/ client.serverName THEN "postCheck"
    ELSE "SNI"

\* alpnCheck on a handshake that carries sni and negotiated p.
AlpnRefuses(sni, p) ==
    /\ ScopeFor = "every" \/ (ScopeFor = "SNI" /\ sni = EffectiveSNI)
    /\ p # "h2"

-----------------------------------------------------------------------------
(* The shield of the call's trace hooks.                                   *)

\* recover: the first panic before the call returned is kept, others logged.
Recover ==
    /\ panics < MaxPanics /\ panics' = panics + 1
    /\ IF ~returned /\ ~panicked THEN panicked' = TRUE /\ UNCHANGED logged
       ELSE logged' = logged + 1 /\ UNCHANGED panicked
    /\ UNCHANGED <<returned, raised>>

\* RoundTrip returns r, with a response whose body is in state b, through
\* done: a kept panic closes the body and is raised on the caller.
Return(r, b) ==
    /\ call' = "done"
    /\ returned' = client.hooks
    /\ IF panicked THEN /\ ret' = "hookPanic" /\ raised' = raised + 1
                        /\ body' = IF b = "open" THEN "closed" ELSE b
                   ELSE ret' = r /\ body' = b /\ UNCHANGED raised
    /\ UNCHANGED <<panicked, panics, logged, writing>>

\* Variant: a kept panic is lost to RoundTrip's own.
UnwindSilent ==
    /\ call' = "done" /\ ret' = "panic" /\ returned' = client.hooks
    /\ UNCHANGED <<panicked, panics, raised, logged, writing, body>>

\* RoundTrip itself panics: markReturned logs a kept panic, which that replaces.
Unwind ==
    /\ call' = "done" /\ ret' = "panic" /\ returned' = client.hooks
    /\ logged' = IF panicked THEN logged + 1 ELSE logged
    /\ UNCHANGED <<panicked, panics, raised, writing, body>>

\* A hook ends: of the dial goroutine, of the transport's write loop, or one
\* that a WithRoundTripper runs on any goroutine, before it returns or after.
HookEnds ==
    /\ \/ g = "hook" /\ g' = "dialing" /\ UNCHANGED writing
       \/ writing /\ writing' = FALSE /\ UNCHANGED g
       \/ Bare /\ client.hooks /\ call # "idle" /\ UNCHANGED <<g, writing>>
    /\ \/ Recover
       \/ UNCHANGED <<returned, panicked, panics, raised, logged>>
    /\ UNCHANGED <<buildVars, credVars, callVars, stockVars, bd, dctx, abandoned, dialed, conn>>

-----------------------------------------------------------------------------
(* The caller: RoundTrip into the stock transport.                         *)

\* Variant: a userinfo that is known keeps its place.
RecordInPlace(u) ==
    LET known == SelectInSeq(users, LAMBDA x : x = u)
        rest  == IF Len(users) = MaxProxyUserinfos THEN Tail(users) ELSE users
    IN  /\ users' = IF known > 0 THEN users ELSE Append(rest, u)
        /\ needles' = IF known > 0 THEN needles ELSE ToSet(users')

\* ProxyCreds.Record: the userinfo becomes the most recent, and the oldest is
\* forgotten when there are too many.
Record(u) ==
    LET known == SelectInSeq(users, LAMBDA x : x = u)
        rest  == IF known > 0 THEN RemoveAt(users, known)
                 ELSE IF Len(users) = MaxProxyUserinfos THEN Tail(users) ELSE users
    IN  /\ users' = Append(rest, u)
        /\ needles' = IF known > 0 THEN needles ELSE ToSet(users')

\* The stock transport asks the proxy func before it looks for a connection;
\* a WithRoundTripper is asked nothing.
Ask ==
    /\ built = "ok" /\ call = "idle"
    /\ \/ ~Bare /\ client.proxy \in {"nil", "envNone", "func"} /\ route' = "direct"
       \/ ~Bare /\ client.proxy \in {"envProxy", "func"} /\ route' \in {"http", "https"}
       \/ Bare /\ UNCHANGED route
    /\ IF route' \in {"http", "https"} /\ client.userinfo /\ ~Wrapped
       THEN \E u \in Userinfos : Record(u) /\ user' = u /\ since' = {}
       ELSE UNCHANGED credVars
    /\ call' = "send"
    /\ UNCHANGED <<buildVars, ctx, ret, body, stockVars, dialVars, shieldVars>>

\* Another call of the client asks the proxy func.
OtherAsks ==
    /\ built = "ok" /\ call # "done" /\ ~Wrapped /\ ~Bare /\ client.userinfo
    /\ \E u \in Userinfos : Record(u) /\ since' = (since \cup {u}) \ {user}
    /\ UNCHANGED <<user, buildVars, callVars, stockVars, dialVars, shieldVars>>

\* A caller's proxy func fails or panics, as it is first asked or for a
\* request the stock transport sends again, whose hooks have run.
AskFails ==
    /\ built = "ok" /\ ~Bare /\ call \in {"idle", "sent"} /\ client.proxy = "func"
    /\ Return("raw", "none") \/ Unwind
    /\ UNCHANGED <<buildVars, credVars, ctx, route, stockVars, dialVars>>

\* A WithRoundTripper fails, answers or panics.
BareReturns ==
    /\ Bare /\ call = "send"
    /\ Return("raw", "none") \/ Return("response", "open") \/ Unwind
    /\ UNCHANGED <<buildVars, credVars, ctx, route, stockVars, dialVars>>

\* classify walks the whole chain; a proxy's failure is never one to negotiate.
Classify(nodes) ==
    LET proxy == "proxyconnect" \in nodes
    IN  [proxy |-> proxy, timeout |-> "timeout" \in nodes,
         notNegotiated |-> ~proxy /\ nodes \cap {"alert", "notNegotiated"} # {}]

\* transportError's order, over a DialError around a chain of nodes.
TransportError(nodes) ==
    LET de == Classify(nodes)
    IN  IF de.proxy /\ de.timeout THEN "proxyTimeout"
        ELSE IF de.proxy THEN "proxyConn"
        ELSE IF de.notNegotiated \/ "notNegotiated" \in nodes THEN "notNegotiated"
        ELSE IF de.timeout THEN "timeout"
        ELSE "conn"

\* The attempt failed: a DialError unless the caller's context has ended, when
\* only an error that carries ErrNotNegotiated itself is mapped.
SendFails ==
    /\ call = "send" /\ stock = "failed"
    /\ Return(IF ctx = "live" THEN TransportError(chain)
              ELSE IF "notNegotiated" \in chain THEN "notNegotiated" ELSE "raw", "none")
    /\ UNCHANGED <<buildVars, credVars, ctx, route, stockVars, dialVars>>

\* The caller's context ends its wait for a connection or for the response.
SendCtx ==
    /\ call \in {"send", "sent"} /\ ~Bare /\ ctx = "ended"
    /\ Return("raw", "none")
    /\ UNCHANGED <<buildVars, credVars, ctx, route, stockVars, dialVars>>

\* The request is written; the write loop's hooks begin.
SendWrites ==
    /\ call = "send" /\ stock = "ready"
    /\ call' = "sent" /\ writing' = client.hooks
    /\ UNCHANGED <<buildVars, credVars, ctx, route, ret, body, stockVars, dialVars,
                   returned, panicked, panics, raised, logged>>

\* The response arrives, or the connection fails after it was had.
\* Under HTTP2Only a response over HTTP/1.1 is refused with its body closed.
SendAnswered ==
    /\ call = "sent"
    /\ \/ /\ Mode = "HTTP2Only" /\ proto # "h2"
          /\ Return("notNegotiated", "closed")
          /\ culprit' = [hop |-> "api", how |-> "proto"]
       \/ /\ ~(Mode = "HTTP2Only" /\ proto # "h2")
          /\ Return("response", "open")
          /\ UNCHANGED culprit
       \/ Return("raw", "none") /\ UNCHANGED culprit
    /\ UNCHANGED <<buildVars, credVars, ctx, route, stock, proto, chain, dialVars>>

CtxEnds ==
    /\ ctx = "live" /\ call \in {"send", "sent"} /\ ctx' = "ended"
    /\ UNCHANGED <<buildVars, credVars, call, route, ret, body, stockVars, dialVars, shieldVars>>

-----------------------------------------------------------------------------
(* The stock transport (external): TCP to the first hop, TLS with an https *)
(* proxy, CONNECT, TLS with the API host.                                  *)

FirstHop == IF route = "direct" THEN "api" ELSE "proxy"

\* It wraps a failure of the first hop to a proxy.
FirstHopChain(nodes) == IF FirstHop = "proxy" THEN nodes \cup {"proxyconnect"} ELSE nodes

\* The attempt fails; the stock transport closes the connection it has.
Fail(nodes, hop, how) ==
    /\ stock' = "failed" /\ chain' = nodes /\ culprit' = [hop |-> hop, how |-> how]
    /\ conn' = IF conn = "stock" THEN "closed" ELSE conn
    /\ UNCHANGED proto

FailFirst(how) == Fail(FirstHopChain({how}), FirstHop, how)

\* A TLS dialer of the caller's transport makes the first hop when it is TLS.
CustomTLS == Wrapped /\ client.dialTLS
             /\ (IF route = "direct" THEN client.scheme ELSE route) = "https"

Thin == CustomTLS /\ Mode = "HTTP2Only" /\ client.scheme = "https" /\ route = "direct"

PlainProto == IF Mode = "HTTP2Only" /\ ~(Wrapped /\ client.h1) THEN "h2" ELSE "h1"

Ready(p) == stock' = "ready" /\ proto' = p /\ UNCHANGED <<chain, culprit>>
Goes(phase) == stock' = phase /\ UNCHANGED <<proto, chain, culprit>>

\* What follows once the first hop's TCP connection, or its TLS, is there.
AfterTCP ==
    IF route = "https" THEN Goes("proxyTLS")
    ELSE IF client.scheme = "http" THEN Ready(PlainProto)
    ELSE IF route = "http" THEN Goes("connect") ELSE Goes("apiTLS")
AfterProxyTLS == IF client.scheme = "https" THEN Goes("connect") ELSE Ready(PlainProto)

\* The protocols the handshakes offer; a peer may also choose none.
Offered == IF Mode = "HTTPAuto" \/ (Wrapped /\ client.h1) THEN {"h2", "h1"} ELSE {"h2"}
Negotiated(p) == IF p = "h2" THEN "h2" ELSE "h1"

Unbound == UNCHANGED <<bd, dctx, abandoned, g, dialed>>

\* The SDK's own transport dials through boundedDial.
StartDial ==
    /\ call = "send" /\ ~Bare /\ ~Wrapped /\ stock = "off"
    /\ stock' = "dial" /\ bd' = "wait"
    /\ g' = IF client.hooks THEN "hook" ELSE "dialing"
    /\ UNCHANGED <<buildVars, credVars, callVars, proto, chain, culprit, dctx, abandoned, dialed, conn, shieldVars>>

\* A caller's transport dials with its own dialer.
CallerDials ==
    /\ call = "send" /\ Wrapped /\ stock = "off" /\ ~CustomTLS
    /\ \/ FailFirst("error") \/ FailFirst("timeout")
       \/ AfterTCP /\ conn' = "stock"
    /\ Unbound /\ UNCHANGED <<buildVars, credVars, callVars, shieldVars>>

\* thinDialTLS: c is what the caller's connection turns out to be.
ThinRefuses(c) == c # "h2"

\* It fails with the connection it has closed.
ThinFails(nodes, how) ==
    /\ stock' = "failed" /\ chain' = nodes /\ conn' = "closed"
    /\ culprit' = [hop |-> "api", how |-> how] /\ UNCHANGED proto

\* The dial may fail, an unfinished handshake too, and then the state decides.
ThinDials ==
    /\ call = "send" /\ stock = "off" /\ Thin
    /\ \/ \E how \in {"error", "timeout"} : Fail({how}, "api", how)
       \/ \E how \in {"error", "timeout", "alert"} : ThinFails({how}, how)
       \/ \E c \in {"noState", "h2", "h1", "none"} :
            IF ThinRefuses(c) THEN ThinFails({"notNegotiated"}, "proto")
            ELSE Ready(Negotiated(c)) /\ conn' = "stock"
    /\ Unbound /\ UNCHANGED <<buildVars, credVars, callVars, shieldVars>>

\* The caller's TLS dialer where the SDK does not check: HTTPAuto, or a proxy.
CallerDialsTLS ==
    /\ call = "send" /\ stock = "off" /\ CustomTLS /\ ~Thin
    /\ \/ FailFirst("error") \/ FailFirst("timeout")
       \/ /\ conn' = "stock"
          /\ IF route = "direct" THEN \E p \in {"h2", "h1"} : Ready(p) ELSE AfterProxyTLS
    /\ Unbound /\ UNCHANGED <<buildVars, credVars, callVars, shieldVars>>

\* A handshake with the hop that carries sni: it fails, times out, is refused
\* with alert 120, or negotiates p, of which VerifyConnection may refuse.
Handshake(hop, sni, wrap(_), after(_)) ==
    \/ \E how \in {"error", "timeout", "alert"} : Fail(wrap({how}), hop, how)
    \/ \E p \in Offered \cup {"none"} :
        IF AlpnRefuses(sni, p) THEN Fail(wrap({"notNegotiated"}), hop, "proto")
        ELSE after(p) /\ UNCHANGED conn

ProxyTLS ==
    /\ stock = "proxyTLS"
    /\ Handshake("proxy", IF client.serverName THEN "serverName" ELSE "proxy",
                 FirstHopChain, LAMBDA p : AfterProxyTLS)
    /\ Unbound /\ UNCHANGED <<buildVars, credVars, callVars, shieldVars>>

APITLS ==
    /\ stock = "apiTLS"
    /\ Handshake("api", EffectiveSNI, LAMBDA nodes : nodes, LAMBDA p : Ready(Negotiated(p)))
    /\ Unbound /\ UNCHANGED <<buildVars, credVars, callVars, shieldVars>>

\* refusedConnect makes a refused CONNECT a proxy failure; a caller's
\* transport returns the status alone.
RefusedConnect == IF Wrapped THEN {"status"} ELSE {"proxyconnect", "status"}

ProxyConnects ==
    /\ stock = "connect"
    /\ \/ Goes("apiTLS") /\ UNCHANGED conn
       \/ Fail(RefusedConnect, "proxy", "refused")
       \/ Fail({"error"}, "tunnel", "error")
       \/ Fail({"timeout"}, "tunnel", "timeout")
    /\ Unbound /\ UNCHANGED <<buildVars, credVars, callVars, shieldVars>>

-----------------------------------------------------------------------------
(* boundedDial.                                                            *)

\* dial returns to its goroutine; once its context has ended, with a timeout.
DialReturns ==
    /\ g = "dialing" /\ g' = "offer"
    /\ dialed' \in {"conn", "error"} \cup (IF dctx = "live" THEN {} ELSE {"timeout"})
    /\ conn' = IF dialed' = "conn" THEN "goroutine" ELSE conn
    /\ UNCHANGED <<buildVars, credVars, callVars, stockVars, bd, dctx, abandoned, shieldVars>>

\* The goroutine hands its result over, before or after the deadline.
HandOver ==
    /\ g = "offer" /\ bd \in {"wait", "grace"}
    /\ g' = "gone" /\ bd' = "off"
    /\ IF dialed = "conn" THEN AfterTCP /\ conn' = "stock" ELSE FailFirst(dialed)
    /\ UNCHANGED <<buildVars, credVars, callVars, dctx, abandoned, dialed, shieldVars>>

\* Variant: an abandoned dial's connection is dropped, not closed.
AbandonedOpen ==
    /\ g = "offer" /\ abandoned
    /\ g' = "gone"
    /\ UNCHANGED <<buildVars, credVars, callVars, stockVars, bd, dctx, abandoned, dialed, conn, shieldVars>>

\* Nobody waits any more: the goroutine closes the connection.
Abandoned ==
    /\ g = "offer" /\ abandoned
    /\ g' = "gone"
    /\ conn' = IF dialed = "conn" THEN "closed" ELSE conn
    /\ UNCHANGED <<buildVars, credVars, callVars, stockVars, bd, dctx, abandoned, dialed, shieldVars>>

\* The connect timeout passes, or net/http cancels a dial nobody waits for.
DialCtxEnds ==
    /\ bd = "wait" /\ dctx = "live"
    /\ \/ dctx' = "deadline"
       \/ call = "done" /\ dctx' = "canceled"
    /\ UNCHANGED <<buildVars, credVars, callVars, stockVars, bd, abandoned, g, dialed, conn, shieldVars>>

SeesDeadline ==
    /\ bd = "wait" /\ dctx = "deadline" /\ bd' = "grace"
    /\ UNCHANGED <<buildVars, credVars, callVars, stockVars, dctx, abandoned, g, dialed, conn, shieldVars>>

\* Variant: a canceled dial returns without a word to its goroutine.
SeesCancelSilent ==
    /\ bd = "wait" /\ dctx = "canceled"
    /\ bd' = "off" /\ FailFirst("canceled")
    /\ UNCHANGED <<buildVars, credVars, callVars, dctx, abandoned, g, dialed, shieldVars>>

SeesCancel ==
    /\ bd = "wait" /\ dctx = "canceled"
    /\ abandoned' = TRUE /\ bd' = "off" /\ FailFirst("canceled")
    /\ UNCHANGED <<buildVars, credVars, callVars, dctx, g, dialed, shieldVars>>

GraceEnds ==
    /\ bd = "grace"
    /\ abandoned' = TRUE /\ bd' = "off" /\ FailFirst("timeout")
    /\ UNCHANGED <<buildVars, credVars, callVars, dctx, g, dialed, shieldVars>>

-----------------------------------------------------------------------------
BoundedDial == HandOver \/ Abandoned \/ DialCtxEnds \/ SeesDeadline \/ SeesCancel \/ GraceEnds

Next ==
    \/ Build \/ Ask \/ OtherAsks \/ AskFails \/ BareReturns \/ CtxEnds
    \/ SendFails \/ SendCtx \/ SendWrites \/ SendAnswered
    \/ StartDial \/ CallerDials \/ ThinDials \/ CallerDialsTLS
    \/ ProxyTLS \/ ProxyConnects \/ APITLS
    \/ DialReturns \/ HookEnds \/ BoundedDial

Spec == Init /\ [][Next]_connVars

\* boundedDial's own steps, its timers and its goroutine's select go on; a
\* dialer or a hook may block for good.
FairSpec == Spec /\ WF_connVars(SeesDeadline) /\ WF_connVars(SeesCancel) /\ WF_connVars(GraceEnds)
                 /\ WF_connVars(DialCtxEnds) /\ WF_connVars(HandOver \/ Abandoned)

-----------------------------------------------------------------------------
(* Properties.                                                             *)

\* HTTP2Only on https (transport.go: "refused ... before any byte of the
\* request is sent"): a request goes out on a connection that is not HTTP/2
\* only where a proxy may apply whose hop cannot be told from the API's (an IP
\* literal, a ServerName), and even then its response is not returned; and a proxy
\* whose own handshake chose no h2 is not refused for it.
APIHopChecked ==
    LET only == built = "ok" /\ ~Bare /\ Mode = "HTTP2Only" /\ client.scheme = "https" IN
    /\ (only /\ call = "sent" /\ proto # "h2") =>
            client.proxy \in {"envProxy", "func"} /\ (client.host = "ip" \/ client.serverName)
    /\ (only /\ ret = "response") => proto = "h2"
    /\ culprit.hop = "proxy" => culprit.how # "proto"

\* The text of a failed dial is scrubbed of its proxy's credential: the set
\* still holds it, unless as many other userinfos as it remembers were
\* recorded after it (WithProxy: "the 16 most recent").
ProxyScrubbed ==
    (ret \in {"proxyTimeout", "proxyConn", "notNegotiated", "timeout", "conn"} /\ user # NoUser) =>
        user \in needles \/ Cardinality(since) >= MaxProxyUserinfos

\* A connection boundedDial's goroutine got is handed to the transport or
\* closed once the goroutine is gone, and one handed over is not closed by it.
NoConnLost ==
    /\ (g = "gone" /\ dialed = "conn") => conn \in {"stock", "closed"}
    /\ conn = "goroutine" => g = "offer"
    /\ stock \in {"proxyTLS", "connect", "apiTLS", "ready"} => conn = "stock"

\* boundedDial returns although the dialer or a hook in it never does, and
\* its goroutine ends once the dialer has returned, whenever that is.
DialSettles == (bd # "off" ~> bd = "off") /\ (g = "offer" ~> g = "gone")

\* Every hook panic reaches somebody: the first one before the call returned
\* is raised on the caller, once, with the response's body closed; all others
\* are logged, one that RoundTrip's own panic replaced included.
PanicsAccounted ==
    /\ panics = logged + raised + (IF panicked /\ ~returned THEN 1 ELSE 0)
    /\ raised = (IF ret = "hookPanic" THEN 1 ELSE 0)
    /\ ret = "hookPanic" => body # "open"
=============================================================================
