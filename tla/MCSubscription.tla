---------------------------- MODULE MCSubscription ----------------------------
EXTENDS Subscription

\* A row of listener "A" on the node.
MCRow(core, protocol, transport, tls, params, cdn, chain) ==
    [core |-> core, protocol |-> protocol, transport |-> transport,
     tls_mode |-> tls, params |-> params, cdn |-> cdn, chain |-> chain,
     name |-> "A", node |-> TRUE, enabled |-> TRUE]

Edge == CHOOSE e \in CdnEndpoints : TRUE
Hop  == CHOOSE c \in Chains : TRUE

RealityKeys == {"reality_server_name", "reality_private_key",
                "reality_public_key", "reality_short_id"}

WsTls       == MCRow("xray", "vless", "ws", "tls", {}, "off", Hop)
Trojan      == MCRow("xray", "trojan", "ws", "tls", {"ws_path"}, Edge, None)
RealityGrpc == MCRow("singbox", "vless", "grpc", "reality", RealityKeys, "top", Hop)

MCFirstRows == {<<WsTls>>, <<WsTls, [Trojan EXCEPT !.name = "B"]>>,
                <<RealityGrpc, [RealityGrpc EXCEPT !.name = "B"]>>}
MCHostRows == {<<[Trojan EXCEPT !.params = @ \cup {"public_host"}]>>}
MCNewRows == {[Trojan EXCEPT !.name = "api", !.cdn = "top"]}
MCPatches == {[enabled |-> FALSE],
              [name |-> "B", params |-> {"public_host", "flow", "ws_host"}]}
MCPools == {p \in UNION {[1..n -> CdnEndpoints] : n \in 0..2} :
               Len(p) < 2 \/ (p[1] # p[2] /\ p[2] = Edge)}
=============================================================================
