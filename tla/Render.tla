-------------------------------- MODULE Render --------------------------------
(***************************************************************************)
(* What the panel writes about a listener: the inbound in the config of a  *)
(* node (core adapters for xray and sing-box) and the entry in a user's    *)
(* subscription (URI list, Clash YAML, sing-box JSON).                     *)
(*                                                                         *)
(* A rendered object is a record of the fields that both sides must agree  *)
(* on; a field that is not written is "". The value of a string param is   *)
(* abstracted to the param's name, so two sides agree on a value only if   *)
(* they take it from the same param or the same default.                   *)
(***************************************************************************)
EXTENDS Integers

CONSTANTS
    CdnEndpoints,  \* addresses in the CDN pool
    DefaultHost,   \* the panel's own public host
    Chains,        \* chain proxies
    None           \* no endpoint pinned; no chain proxy named

Cores      == {"xray", "singbox"}
Protocols  == {"vless", "vmess", "trojan", "shadowsocks", "hysteria2", "tuic"}
Transports == {"tcp", "ws", "grpc", "xhttp", "quic"}
TlsModes   == {"none", "tls", "reality"}
Formats    == {"base64", "clash", "singbox"}

\* The string keys of listener.params that rendering reads.
Params ==
    {"public_host", "flow", "sni", "ws_path", "ws_host", "grpc_service_name",
     "xhttp_path", "reality_server_name", "reality_private_key",
     "reality_public_key", "reality_short_id", "method", "password"}

\* opt_str(params, key), and opt_str(params, key).unwrap_or(default).
Opt(l, key)         == IF key \in l.params THEN key ELSE ""
OrElse(l, key, def) == IF key \in l.params THEN key ELSE def

\* The shared secret of a shadowsocks listener.
Secret(l) == <<OrElse(l, "method", "aes-128-gcm"), Opt(l, "password")>>
NoSecret  == <<"", "">>
-----------------------------------------------------------------------------
(* Inbounds. *)

\* Reality needs VLESS over TCP or gRPC, and three params.
RealityRefused(l) ==
    /\ l.tls_mode = "reality"
    /\ \/ l.protocol # "vless"
       \/ l.transport \notin {"tcp", "grpc"}
       \/ ~({"reality_server_name", "reality_private_key", "reality_short_id"}
                \subseteq l.params)

\* The combinations each adapter's render_inbound answers with an error.
XrayRefuses(l) == l.protocol \in {"hysteria2", "tuic"} \/ RealityRefused(l)
SingboxRefuses(l) ==
    \/ l.protocol \in {"hysteria2", "tuic"} /\ l.transport # "quic"
    \/ RealityRefused(l)

\* render_node_config: an inbound whose core is not the node's is refused too.
Refuses(core, l) ==
    \/ l.core # core
    \/ IF core = "xray" THEN XrayRefuses(l) ELSE SingboxRefuses(l)

\* Users are clients of an inbound except with shadowsocks, where all share the
\* listener's own secret.
InboundClients(l, users) == IF l.protocol = "shadowsocks" THEN {} ELSE users

\* The path of a ws or xhttp inbound.
InboundPath(l) ==
    CASE l.transport = "ws"    -> OrElse(l, "ws_path", "/")
      [] l.transport = "xhttp" -> OrElse(l, "xhttp_path", "/")
      [] OTHER                 -> ""

OnWs(l, value)      == IF l.transport = "ws" THEN value ELSE ""
OnGrpc(l, value)    == IF l.transport = "grpc" THEN value ELSE ""
OnReality(l, value) == IF l.tls_mode = "reality" THEN value ELSE ""

ServerName(l) ==
    CASE l.tls_mode = "none"    -> ""
      [] l.tls_mode = "tls"     -> Opt(l, "sni")
      [] l.tls_mode = "reality" -> Opt(l, "reality_server_name")

\* What both adapters take from the same params.
CommonInbound(l, users) ==
    [protocol |-> l.protocol, clients |-> InboundClients(l, users),
     flow     |-> IF l.protocol = "vless" THEN Opt(l, "flow") ELSE "",
     secret   |-> IF l.protocol = "shadowsocks" THEN Secret(l) ELSE NoSecret,
     network  |-> "", path |-> InboundPath(l),
     host     |-> OnWs(l, Opt(l, "ws_host")),
     service  |-> OnGrpc(l, Opt(l, "grpc_service_name")),
     security |-> "", sni |-> ServerName(l),
     short_id |-> OnReality(l, Opt(l, "reality_short_id"))]

\* xray: streamSettings name every transport, and security none.
XrayInbound(l, users) ==
    [CommonInbound(l, users) EXCEPT
        !.network = l.transport, !.security = l.tls_mode]

\* sing-box writes no transport block for tcp and quic, xhttp as http, and no
\* tls block without TLS.
SingboxInbound(l, users) ==
    [CommonInbound(l, users) EXCEPT
        !.network  = CASE l.transport \in {"tcp", "quic"} -> ""
                       [] l.transport = "xhttp"           -> "http"
                       [] OTHER                           -> l.transport,
        !.security = IF l.tls_mode = "none" THEN "" ELSE l.tls_mode]

Inbound(core, l, users) ==
    IF core = "xray" THEN XrayInbound(l, users) ELSE SingboxInbound(l, users)
-----------------------------------------------------------------------------
(* Where the traffic of an inbound leaves the node: wrap_config. rows is a      *)
(* function from the ids of the config's listeners to their rows, pool the      *)
(* enabled chain proxies.                                                       *)

\* resolve_chain.
ChainOf(l, pool) == IF l.chain \in pool THEN l.chain ELSE None

\* Faulty variant, used by no operator: a listener whose chain already has an
\* outbound gets no rule.
RulesOncePerChain(rows, pool) ==
    {i \in DOMAIN rows :
        /\ ChainOf(rows[i], pool) # None
        /\ \A j \in DOMAIN rows : j < i => rows[j].chain # rows[i].chain}

\* The listeners that push a routing rule, keyed by the listener's name; their
\* order is that of the ids.
Rules(rows, pool) == {i \in DOMAIN rows : ChainOf(rows[i], pool) # None}

\* The first rule that matches decides; xray's own api rule comes first and is
\* keyed by the tag "api". (It is written for a node with a management port, which
\* the node is taken to have.)
Exit(core, rows, pool, i) ==
    LET same == {j \in Rules(rows, pool) : rows[j].name = rows[i].name}
    IN  IF core = "xray" /\ rows[i].name = "api" THEN "api"
        ELSE IF same = {} THEN "direct"
        ELSE rows[CHOOSE j \in same : \A k \in same : j <= k].chain
-----------------------------------------------------------------------------
(* Subscription entries. *)

\* Faulty variant, used by no operator: the pin is not looked up in the pool.
HostTrustsPin(l, pool) ==
    IF l.cdn = "off" \/ pool = <<>>
    THEN OrElse(l, "public_host", DefaultHost)
    ELSE IF l.cdn # "top" THEN l.cdn ELSE pool[1]

\* The dial target; pool holds the enabled endpoints by priority.
EffectiveHost(l, pool) ==
    IF l.cdn = "off" \/ pool = <<>>
    THEN OrElse(l, "public_host", DefaultHost)
    ELSE IF \E i \in DOMAIN pool : pool[i] = l.cdn THEN l.cdn ELSE pool[1]

\* build_uri prefers public_host to the host it is given.
UriHost(l, pool) == OrElse(l, "public_host", EffectiveHost(l, pool))

\* The protocols for which each of the three formats has a builder.
Emitted(l) == l.protocol \in {"vless", "trojan", "shadowsocks"}

Entry(l, host) ==
    [protocol |-> l.protocol, dial |-> host,
     flow |-> "", secret |-> NoSecret, network |-> "", path |-> "",
     host |-> "", service |-> "", security |-> "", sni |-> "",
     public_key |-> "", short_id |-> ""]

\* build_vless.
VlessUri(l, host) ==
    [Entry(l, host) EXCEPT
        !.flow = Opt(l, "flow"), !.network = l.transport,
        !.path = InboundPath(l), !.host = OnWs(l, Opt(l, "ws_host")),
        !.service    = OnGrpc(l, Opt(l, "grpc_service_name")),
        !.security   = l.tls_mode, !.sni = ServerName(l),
        !.public_key = OnReality(l, Opt(l, "reality_public_key")),
        !.short_id   = OnReality(l, Opt(l, "reality_short_id"))]

\* Faulty variant, used by no operator: the path is left out.
TrojanUriWithoutPath(l, host) ==
    [Entry(l, host) EXCEPT
        !.network = l.transport, !.security = "tls", !.sni = Opt(l, "sni"),
        !.host = OnWs(l, Opt(l, "ws_host"))]

\* build_trojan: always security=tls, no gRPC service name.
TrojanUri(l, host) ==
    [Entry(l, host) EXCEPT
        !.network = l.transport, !.security = "tls", !.sni = Opt(l, "sni"),
        !.path = OnWs(l, OrElse(l, "ws_path", "/")),
        !.host = OnWs(l, Opt(l, "ws_host"))]

\* build_ss, and the Clash block of a shadowsocks listener.
PlainShadowsocks(l, host) == [Entry(l, host) EXCEPT !.secret = Secret(l)]

UriEntry(l, host) ==
    CASE l.protocol = "vless"       -> VlessUri(l, host)
      [] l.protocol = "trojan"      -> TrojanUri(l, host)
      [] l.protocol = "shadowsocks" -> PlainShadowsocks(l, host)

\* clash_proxy_block: network http for xhttp; tls only for tls and reality.
ClashVless(l, host) ==
    [Entry(l, host) EXCEPT
        !.flow = Opt(l, "flow"),
        !.network = IF l.transport = "xhttp" THEN "http" ELSE l.transport,
        !.path = OnWs(l, OrElse(l, "ws_path", "/")),
        !.host = OnWs(l, Opt(l, "ws_host")),
        !.service    = OnGrpc(l, Opt(l, "grpc_service_name")),
        !.security   = l.tls_mode, !.sni = ServerName(l),
        !.public_key = OnReality(l, Opt(l, "reality_public_key")),
        !.short_id   = OnReality(l, Opt(l, "reality_short_id"))]

\* A Clash trojan proxy always speaks TLS; only ws is named as a network.
ClashTrojan(l, host) ==
    [Entry(l, host) EXCEPT
        !.network = OnWs(l, "ws"), !.security = "tls", !.sni = Opt(l, "sni"),
        !.path = OnWs(l, OrElse(l, "ws_path", "/")),
        !.host = OnWs(l, Opt(l, "ws_host"))]

ClashEntry(l, host) ==
    CASE l.protocol = "vless"       -> ClashVless(l, host)
      [] l.protocol = "trojan"      -> ClashTrojan(l, host)
      [] l.protocol = "shadowsocks" -> PlainShadowsocks(l, host)

\* singbox_outbound: tls and transport alike for the three protocols.
SingboxEntry(l, host) ==
    [Entry(l, host) EXCEPT
        !.flow    = IF l.protocol = "vless" THEN Opt(l, "flow") ELSE "",
        !.secret  = IF l.protocol = "shadowsocks" THEN Secret(l) ELSE NoSecret,
        !.network = IF l.transport \in {"ws", "grpc"} THEN l.transport ELSE "",
        !.path    = OnWs(l, OrElse(l, "ws_path", "/")),
        !.host    = OnWs(l, Opt(l, "ws_host")),
        !.service = OnGrpc(l, Opt(l, "grpc_service_name")),
        !.security   = IF l.tls_mode = "none" THEN "" ELSE l.tls_mode,
        !.sni        = ServerName(l),
        !.public_key = OnReality(l, Opt(l, "reality_public_key")),
        !.short_id   = OnReality(l, Opt(l, "reality_short_id"))]

\* render_base64, render_clash, render_singbox for one listener.
EntryFor(format, l, pool) ==
    CASE format = "base64"  -> UriEntry(l, UriHost(l, pool))
      [] format = "clash"   -> ClashEntry(l, EffectiveHost(l, pool))
      [] format = "singbox" -> SingboxEntry(l, EffectiveHost(l, pool))
-----------------------------------------------------------------------------
(* The two sides together. *)

\* A field that is not written means plain TCP, and no TLS.
Network(r)  == IF r.network = "" THEN "tcp" ELSE r.network
Security(r) == IF r.security = "" THEN "none" ELSE r.security

\* A client with entry e of user u gets through inbound i.
Reaches(e, u, i) ==
    /\ e.protocol = i.protocol
    /\ IF i.protocol = "shadowsocks" THEN e.secret = i.secret
                                     ELSE u \in i.clients
    /\ e.flow = i.flow
    /\ Network(e) = Network(i)
    /\ e.path = i.path /\ e.host = i.host /\ e.service = i.service
    /\ Security(e) = Security(i)
    /\ Security(e) = "reality" =>
           e.sni = i.sni /\ e.short_id = i.short_id /\ e.public_key # ""

\* The combinations that the headers of the adapters list as covered and that
\* subscriptions emit, with the key pair that Reality needs.
Covered(l) ==
    \/ /\ l.protocol = "vless" /\ l.transport \in {"tcp", "ws", "grpc"}
       /\ l.tls_mode \in {"none", "tls"}
    \/ /\ l.protocol = "vless" /\ l.tls_mode = "reality"
       /\ \/ l.transport = "tcp"
          \/ l.core = "singbox" /\ l.transport = "grpc"
       /\ {"reality_server_name", "reality_private_key", "reality_public_key",
           "reality_short_id"} \subseteq l.params
    \/ l.protocol = "trojan" /\ l.transport \in {"tcp", "ws"} /\ l.tls_mode = "tls"
=============================================================================
