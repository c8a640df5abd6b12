----------------------------- MODULE XrayConfig -----------------------------
(***************************************************************************)
(* buildXrayConfigWithMetrics: the configuration xray-core is started with *)
(* as a function of the saved configuration and of the measured pings.     *)
(*                                                                         *)
(* A ping is a number of milliseconds; a weight is kept in thousandths, so *)
(* 1000/ping is exact to a thousandth.  What xray-core makes of a          *)
(* configuration, at the end, is external: it is what the rendering has to *)
(* take into account.                                                      *)
(***************************************************************************)
EXTENDS Links, Lists, FiniteSets

\* A routing rule with what the builder looks at.  An IP list is kept by the
\* panel and read by nothing.
RoutingRule == [domains : SUBSET STRING, ips : SUBSET STRING, geoip : STRING,
                target : STRING, enabled : BOOLEAN]

SwitchedOn(s) == {i \in DOMAIN s : s[i].enabled}

EnabledServers(cfg) == Kept(cfg.servers, SwitchedOn(cfg.servers))
EnabledRules(cfg)   == Kept(cfg.rules, SwitchedOn(cfg.rules))

\* The tag of the outbound of each enabled server, in order.
Selector(cfg) == LET on == EnabledServers(cfg) IN [i \in DOMAIN on |-> on[i].tag]

Proxies(cfg) == LET on == EnabledServers(cfg) IN [i \in DOMAIN on |-> buildOutbound(on[i])]

\* Mutant of Outbounds: there is nothing to block with.
OutboundsUnblocked(cfg) == Proxies(cfg) \o <<Freedom("direct")>>

Outbounds(cfg) == Proxies(cfg) \o <<Freedom("direct"), Blackhole("block")>>
-----------------------------------------------------------------------------
(* The strategy of the balancer.                                           *)

balancerStrategy(alg) ==
    CASE alg \in {"latency", "leastping"} -> "leastPing"
      [] alg \in {"leastload", "speed"}   -> "leastLoad"
      [] alg = "random"                   -> "random"
      [] OTHER                            -> "roundRobin"

Unit == 1000

AtLeastOne(w) == IF w < Unit THEN Unit ELSE w

\* The enabled servers with a usable measurement.  pings has an entry only
\* for a server that was measured.
Measured(cfg, pings) ==
    {s \in Elems(EnabledServers(cfg)) :
       s.id \in DOMAIN pings /\ pings[s.id] > 0 /\ pings[s.id] < 9000}

\* tagPing[tag]: of servers with one tag the last in the list counts.
PingOfTag(cfg, pings, tag) ==
    LET on   == EnabledServers(cfg)
        hits == {i \in DOMAIN on : on[i].tag = tag /\ on[i] \in Measured(cfg, pings)}
    IN  pings[on[LastOf(hits)].id]

\* Mutant of WeightByPing: the ping itself is the weight.
WeightIsPing(cfg, pings) ==
    LET tags     == Selector(cfg)
        measured == {s.tag : s \in Measured(cfg, pings)}
    IN  [i \in DOMAIN tags |->
           IF tags[i] \in measured
           THEN AtLeastOne(Unit * PingOfTag(cfg, pings, tags[i]))
           ELSE Unit]

\* Mutant of WeightByPing: scaled by the weight the user gave.
WeightByPingAndUser(cfg, pings) ==
    LET on       == EnabledServers(cfg)
        tags     == Selector(cfg)
        measured == {s.tag : s \in Measured(cfg, pings)}
    IN  [i \in DOMAIN tags |->
           IF tags[i] \in measured
           THEN on[i].weight *
                AtLeastOne((1000 * Unit) \div PingOfTag(cfg, pings, tags[i]))
           ELSE Unit]

\* nil if nothing was measured, otherwise a weight for each member: 1000/ping
\* but not less than 1, and 1 for a member without a measurement.
WeightByPing(cfg, pings) ==
    LET tags     == Selector(cfg)
        measured == {s.tag : s \in Measured(cfg, pings)}
    IN  [i \in DOMAIN tags |->
           IF tags[i] \in measured
           THEN AtLeastOne((1000 * Unit) \div PingOfTag(cfg, pings, tags[i]))
           ELSE Unit]

\* The weight the user gave, and 1 for none.
WeightByUser(cfg) ==
    LET on == EnabledServers(cfg)
    IN  [i \in DOMAIN on |->
           LET w == on[LastOf({j \in DOMAIN on : on[j].tag = on[i].tag})].weight
           IN  Unit * (IF w <= 0 THEN 1 ELSE w)]

Plain(type) == [type |-> type, costs |-> <<>>]

Strategy(cfg, pings) ==
    LET type == balancerStrategy(cfg.algorithm)
    IN  CASE type \in {"leastPing", "leastLoad"} ->
               IF Measured(cfg, pings) = {}
               THEN Plain("random")
               ELSE [type |-> "random", costs |-> WeightByPing(cfg, pings)]
          [] type = "weighted" -> [type |-> "random", costs |-> WeightByUser(cfg)]
          [] OTHER -> Plain(type)

Balancers(cfg, pings) ==
    IF Selector(cfg) = <<>>
    THEN <<>>
    ELSE <<[tag |-> "balanced", selector |-> Selector(cfg),
            strategy |-> Strategy(cfg, pings)]>>
-----------------------------------------------------------------------------
(* Routing rules.                                                          *)

\* What a rule sends to: an outbound or a balancer, by tag.
Outbound(tag) == [kind |-> "outbound", tag |-> tag]
Balancer      == [kind |-> "balancer", tag |-> "balanced"]

TargetOf(rule) ==
    IF rule.target \in {"balanced", ""} THEN Balancer ELSE Outbound(rule.target)

RenderedRule(rule) ==
    [domains |-> rule.domains, geoip |-> rule.geoip, all |-> FALSE,
     to |-> TargetOf(rule)]

\* Network "tcp,udp": every connection.
CatchAll == [domains |-> {}, geoip |-> "", all |-> TRUE, to |-> Balancer]

Backwards(s) == [i \in DOMAIN s |-> s[Len(s) + 1 - i]]

CustomRules(cfg) ==
    LET on == EnabledRules(cfg) IN [i \in DOMAIN on |-> RenderedRule(on[i])]

\* Mutant of Rules: custom rules are appended behind the catch-all.
RulesAppended(cfg) ==
    (IF Selector(cfg) = <<>> THEN <<>> ELSE <<CatchAll>>) \o CustomRules(cfg)

\* Mutant of Rules: the catch-all does not depend on enabled servers.
RulesUnguarded(cfg) == Backwards(CustomRules(cfg)) \o <<CatchAll>>

\* Each custom rule is put in front of what is there already.
Rules(cfg) ==
    Backwards(CustomRules(cfg)) \o (IF Selector(cfg) = <<>> THEN <<>> ELSE <<CatchAll>>)

\* The proxies clients connect to.
listenAddr(cfg) == IF cfg.listen.address # "" THEN cfg.listen.address ELSE "127.0.0.1"

Inbounds(cfg) ==
    <<[tag |-> "socks-in", listen |-> listenAddr(cfg), port |-> cfg.listen.socks],
      [tag |-> "http-in",  listen |-> listenAddr(cfg), port |-> cfg.listen.http]>>

buildXrayConfigWithMetrics(cfg, pings) ==
    [inbounds  |-> Inbounds(cfg),
     outbounds |-> Outbounds(cfg),
     balancers |-> Balancers(cfg, pings),
     rules     |-> Rules(cfg)]

\* Manager.Apply: the metrics it takes for a measurement.
PingsOf(metrics) ==
    [id \in {id \in DOMAIN metrics : metrics[id].ping > 0 /\ metrics[id].ping < 9000} |->
       metrics[id].ping]
-----------------------------------------------------------------------------
(* xray-core.  It does not start with two outbounds of one tag, a proxy    *)
(* without credentials, REALITY without a public key, two inbounds on one  *)
(* port, a rule without any condition, or a rule for a balancer it does    *)
(* not have.  These are the defects the rendering itself can have or       *)
(* avoid, and not all the core looks for: it also refuses transports,      *)
(* flows, encryptions and ports it does not know, which the panel passes   *)
(* on as they come, and countries when it has no geoip.dat.  A rule for an *)
(* outbound it does not have fails only when it matches.                   *)

Proxied(ob) == ob.protocol \in {"vless", "vmess", "trojan"}

HasCredentials(ob) == Proxied(ob) => ob.user.id # ""

HasKey(ob) ==
    Proxied(ob) /\ ob.stream.security = "reality" => ob.stream.secured.publicKey # ""

\* None of these defects: the core may start.
WellFormed(xc) ==
    /\ \A i, j \in DOMAIN xc.outbounds :
         xc.outbounds[i].tag = xc.outbounds[j].tag /\ xc.outbounds[i].tag # "" => i = j
    /\ \A i \in DOMAIN xc.outbounds :
         HasCredentials(xc.outbounds[i]) /\ HasKey(xc.outbounds[i])
    /\ xc.inbounds[1].port # xc.inbounds[2].port
    /\ \A i \in DOMAIN xc.rules :
         /\ xc.rules[i].all \/ xc.rules[i].domains # {} \/ xc.rules[i].geoip # ""
         /\ xc.rules[i].to = Balancer => xc.balancers # <<>>

\* The core has what a rule sends to.
Resolves(xc, to) ==
    IF to = Balancer
    THEN xc.balancers # <<>>
    ELSE to.tag \in {xc.outbounds[i].tag : i \in DOMAIN xc.outbounds}

\* A connection is to a domain, which sniffing may have found, or to an address
\* in a country.
ToDomain(d)  == [domain |-> d]
ToAddress(g) == [country |-> g]

\* The conditions of one rule must all hold.  Nothing is resolved for the rules
\* (domainStrategy "AsIs"): a connection to a domain is in no country.
Matches(rule, c) ==
    /\ rule.all \/ rule.domains # {} \/ rule.geoip # ""
    /\ rule.domains # {} => "domain" \in DOMAIN c /\ c.domain \in rule.domains
    /\ rule.geoip # "" => "country" \in DOMAIN c /\ c.country = rule.geoip

\* A connection goes to the target of the first rule that matches it, or to
\* the first outbound.
RouteOf(xc, c) ==
    LET matching == {i \in DOMAIN xc.rules : Matches(xc.rules[i], c)}
    IN  IF matching = {}
        THEN Outbound(xc.outbounds[1].tag)
        ELSE xc.rules[FirstOf(matching)].to
=============================================================================
