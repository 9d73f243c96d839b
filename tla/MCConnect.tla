----------------------------- MODULE MCConnect -----------------------------
(* Connect for TLC: every set of options on a plain client, and every      *)
(* transport the SDK builds or wraps.                                      *)
EXTENDS Connect

Plain == [unusable |-> {}, opts |-> {}, nils |-> {}, version |-> "HTTP2Only", scheme |-> "https", host |-> "name",
          serverName |-> FALSE, proxy |-> "envNone", ownH2 |-> FALSE, dialTLS |-> FALSE,
          h1 |-> FALSE, userinfo |-> FALSE, hooks |-> FALSE]

\* Up to two settings that cannot be used, and options that conflict.
UnusableClients == {[Plain EXCEPT !.unusable = b, !.opts = o] :
                      b \in {x \in SUBSET ToSet(Settings) : Cardinality(x) <= 2},
                      o \in {{}, {"RoundTripper", "Proxy"}}}

OptionClients == {[Plain EXCEPT !.opts = o, !.nils = n] :
                    o \in SUBSET Options, n \in {{}, {"RoundTripper", "HTTPTransport"}}}
BareClients == {[Plain EXCEPT !.opts = {"RoundTripper"}, !.hooks = TRUE]}

\* The SDK's own transport; a plain http API is reached without a proxy.
BuiltClients ==
    {[Plain EXCEPT !.opts = o, !.version = v, !.host = h, !.serverName = s, !.proxy = p, !.hooks = k] :
        o \in {{}, {"HTTPVersion"}}, v \in {"HTTP2Only", "HTTPAuto", "other"},
        h \in {"name", "ip", "nonASCII"}, s, k \in BOOLEAN,
        p \in {"nil", "envNone", "envProxy", "envBad", "func"}}
    \cup {[Plain EXCEPT !.opts = o, !.scheme = "http", !.hooks = k] :
        o \in {{}, {"HTTPVersion"}}, k \in BOOLEAN}

\* A caller's transport.
WrappedClients ==
    {[Plain EXCEPT !.opts = {"HTTPTransport", "HTTPVersion"}, !.version = v, !.host = h, !.serverName = s,
                   !.proxy = p, !.ownH2 = n, !.dialTLS = d, !.h1 = q] :
        v \in {"HTTP2Only", "HTTPAuto"}, h \in {"name", "ip", "nonASCII"}, s, n, d, q \in BOOLEAN,
        p \in {"nil", "envProxy", "envBad", "func"}}
    \cup {[Plain EXCEPT !.opts = {"HTTPTransport", "HTTPVersion"}, !.scheme = "http", !.h1 = q] :
        q \in BOOLEAN}

\* Clients whose proxies have userinfos.
UserinfoClients == {[Plain EXCEPT !.proxy = p, !.userinfo = TRUE, !.opts = o] :
                      p \in {"envProxy", "func"}, o \in {{}, {"HTTPTransport"}}}

MCClients == UnusableClients \cup UserinfoClients \cup OptionClients \cup BareClients \cup BuiltClients \cup WrappedClients
=============================================================================
