------------------------------- MODULE MCPanel -------------------------------
(* Values of the constants of Panel for TLC.                                *)
EXTENDS Panel, TLC

\* REALITY over TCP, gRPC over TLS with an empty user, vmess over a websocket
\* without a port, REALITY without a key, and three texts that are refused.
MCLink ==
    "reality" :> [scheme |-> "vless", user |-> "u1", host |-> "h1", port |-> 443,
                  q |-> [security |-> "reality", sni |-> "n1", pbk |-> "k1",
                         sid |-> "i1", flow |-> "vision"]]
    @@ "grpc" :> [scheme |-> "vless", user |-> "", host |-> "h2", port |-> 8443,
                  q |-> [type |-> "grpc", security |-> "tls", sni |-> "n2",
                         serviceName |-> "svc", alpn |-> "h2"]]
    @@ "vmess" :> [scheme |-> "vmess", user |-> "u3", host |-> "h3",
                   q |-> [net |-> "ws", tls |-> "tls", path |-> "/p", host |-> "x"]]
    @@ "nokey" :> [scheme |-> "vless", user |-> "u4", host |-> "h4", port |-> 443,
                   q |-> [security |-> "reality"]]
    @@ "nouser" :> [scheme |-> "vless", host |-> "h1", port |-> 443, q |-> <<>>]
    @@ "noport" :> [scheme |-> "vless", user |-> "u5", host |-> "h5",
                    q |-> [type |-> "ws"]]
    @@ "text" :> [scheme |-> "other"]

MCHash == [t \in DOMAIN MCLink |-> "id-" \o t]

MCLinkTexts == DOMAIN MCLink

Rule(domains, ips, geoip, target, enabled) ==
    [domains |-> domains, ips |-> ips, geoip |-> geoip, target |-> target,
     enabled |-> enabled]

MCRules ==
    {Rule({"d1"}, {}, "", "balanced", TRUE),
     Rule({"d1", "d2"}, {}, "ir", "block", TRUE),
     Rule({}, {}, "ir", "out_id-grpc", TRUE),
     Rule({"d2"}, {}, "", "id-grpc", TRUE),
     Rule({}, {"1.1.1.1"}, "", "direct", TRUE),
     Rule({"d1"}, {}, "", "direct", FALSE)}

Measure(ping, status, speed, conns) ==
    [ping |-> ping, status |-> status, speed |-> speed, conns |-> conns]

\* A fast and a very slow server, and one that is offline.
MCMetrics ==
    {Measure(50, "online", 0, 0), Measure(3000, "degraded", 90, 20),
     Measure(9999, "offline", 0, 0)}

ASSUME HashDistinguishes /\ LinksAreConsistent

\* The defaults, and both proxies on one port.
MCListens == {[socks |-> 10808, http |-> 10809, address |-> ""],
              [socks |-> 10808, http |-> 10808, address |-> ""]}
==============================================================================
