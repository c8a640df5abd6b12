-------------------------------- MODULE Panel --------------------------------
(***************************************************************************)
(* What a user does in the panel, one request at a time, and what of it    *)
(* reaches xray: servers are added by link, edited, deleted, measured;     *)
(* rules are added and removed; an algorithm is chosen.  Every state is    *)
(* rendered by XrayConfig, as the next Apply would.                        *)
(*                                                                         *)
(* Requests that overlap, failing writes and restarts are the subject of   *)
(* ConfigStore, and when Apply runs that of XrayManager.                   *)
(***************************************************************************)
EXTENDS XrayConfig, Selection

CONSTANTS
    Algorithms,     \* the algorithms a user may choose
    Weights,        \* the weights a user may set
    NewRules,       \* the routing rules a user may add
    NewMetrics,     \* what a health check may store
    Listens,        \* ports and address of the proxies a process may start with
    MaxServers,     \* bound on the length of the server list
    MaxRules,       \* bound on the length of the rule list
    MaxItems        \* bound on servers, rules and metrics of other servers

\* store.ServerMetrics, as far as something is chosen by it.
Metric == [ping : Nat, status : STRING, speed : Nat, conns : Nat]

ASSUME PanelAssumption ==
    /\ NewRules \subseteq RoutingRule
    /\ Algorithms \subseteq AlgorithmNames
    /\ Weights \subseteq Nat
    /\ NewMetrics \subseteq Metric
    /\ MaxServers \in Nat /\ MaxRules \in Nat /\ MaxItems \in Nat

VARIABLES
    servers,    \* AppConfig.Servers
    rules,      \* AppConfig.RoutingRules
    algorithm,  \* AppConfig.Algorithm
    listen,     \* AppConfig.Listen
    metrics,    \* Store.metrics, without the entries of new servers
    edited      \* history: the servers changed in the edit dialog

vars == <<servers, rules, algorithm, listen, metrics, edited>>

cfg == [servers |-> servers, rules |-> rules, algorithm |-> algorithm,
        listen |-> listen]

\* What Apply gives to the core, if there is a server at all: without one it
\* stops the core and renders nothing.
Rendered == buildXrayConfigWithMetrics(cfg, PingsOf(metrics))

ServerIds == {servers[i].id : i \in DOMAIN servers}

\* The bound on the state: room for one more.
Room ==
    Len(servers) + Len(rules) + Cardinality(DOMAIN metrics \ ServerIds) < MaxItems
-----------------------------------------------------------------------------
Init ==
    /\ servers = <<>>
    /\ rules = <<>>
    /\ algorithm = "latency"
    /\ listen \in Listens
    /\ metrics = <<>>
    /\ edited = {}

Forget(f, id) == [x \in DOMAIN f \ {id} |-> f[x]]

\* Mutant of AddServer: a server that is there already is added again.
AddServerAgain(t) ==
    /\ Parses(t)
    /\ Len(servers) < MaxServers /\ Room
    /\ servers' = Append(servers, ParseVless(t))
    /\ metrics' = Forget(metrics, Hash[t])
    /\ UNCHANGED <<rules, algorithm, listen, edited>>

\* POST /api/servers, and each line of POST /api/servers/import.  The entry of a
\* new server takes the place of what a late check may have left behind.
AddServer(t) ==
    /\ Parses(t)
    /\ Hash[t] \notin ServerIds
    /\ Len(servers) < MaxServers /\ Room
    /\ servers' = Append(servers, ParseVless(t))
    /\ metrics' = Forget(metrics, Hash[t])
    /\ UNCHANGED <<rules, algorithm, listen, edited>>

\* The edit dialog: the server as GET /api/servers showed it, with another
\* weight or switched on or off, is sent back by PUT /api/servers/{id}.
Edited(s, weight, enabled) ==
    PutBody(s.id, [mergeServerMetrics(s) EXCEPT !.weight = weight, !.enabled = enabled])

EditServer(i, weight, enabled) ==
    /\ servers' = [servers EXCEPT ![i] = Edited(@, weight, enabled)]
    /\ edited' = edited \cup {servers[i].id}
    /\ UNCHANGED <<rules, algorithm, listen, metrics>>

\* A client that sends back all fields, as POST /api/servers returned them.
Switched(s, enabled) == PutBody(s.id, [s EXCEPT !.enabled = enabled])

PutServer(i, enabled) ==
    /\ servers' = [servers EXCEPT ![i] = Switched(@, enabled)]
    /\ UNCHANGED <<rules, algorithm, listen, metrics, edited>>

\* append(s[:i], s[i+1:]...)
Without(s, i) == [j \in 1 .. Len(s) - 1 |-> IF j < i THEN s[j] ELSE s[j + 1]]

DeleteServer(i) ==
    /\ servers' = Without(servers, i)
    /\ metrics' = Forget(metrics, servers[i].id)
    /\ edited' = edited \ {servers[i].id}
    /\ UNCHANGED <<rules, algorithm, listen>>

AddRule(rule) ==
    /\ Len(rules) < MaxRules /\ Room
    /\ rules' = Append(rules, rule)
    /\ UNCHANGED <<servers, algorithm, listen, metrics, edited>>

DeleteRule(i) ==
    /\ rules' = Without(rules, i)
    /\ UNCHANGED <<servers, algorithm, listen, metrics, edited>>

\* POST /api/algorithm: a name that is a key of balancer.Algorithms.
SetAlgorithm(name) ==
    /\ algorithm' = name
    /\ UNCHANGED <<servers, rules, listen, metrics, edited>>

\* POST or PUT /api/listen refuses two proxies on one port.  The flags of the
\* process and a restored file are not looked at.
SetListen(l) ==
    /\ l.socks # l.http
    /\ listen' = l
    /\ UNCHANGED <<servers, rules, algorithm, metrics, edited>>

\* The health checker stores what it measured, also for a server that was
\* deleted meanwhile.
SetMetrics(id, m) ==
    /\ id \in ServerIds \cup DOMAIN metrics \/ Room
    /\ metrics' = [x \in DOMAIN metrics \cup {id} |-> IF x = id THEN m ELSE metrics[x]]
    /\ UNCHANGED <<servers, rules, algorithm, listen, edited>>

Next ==
    \/ \E t \in LinkTexts : AddServer(t)
    \/ \E i \in DOMAIN servers, w \in Weights, e \in BOOLEAN : EditServer(i, w, e)
    \/ \E i \in DOMAIN servers, e \in BOOLEAN : PutServer(i, e)
    \/ \E i \in DOMAIN servers : DeleteServer(i)
    \/ \E rule \in NewRules : AddRule(rule)
    \/ \E i \in DOMAIN rules : DeleteRule(i)
    \/ \E name \in Algorithms : SetAlgorithm(name)
    \/ \E l \in Listens : SetListen(l)
    \/ \E t \in LinkTexts, m \in NewMetrics : Parses(t) /\ SetMetrics(Hash[t], m)

Spec == Init /\ [][Next]_vars
-----------------------------------------------------------------------------
(* Properties.                                                             *)

\* Server IDs are unique, also when a link is added that was deleted before, and
\* a server of the list has its fields and no others (AddServer, PutBody).
TypeOK ==
    /\ \A i \in DOMAIN servers :
         /\ DOMAIN servers[i] = DOMAIN ZeroServer
         /\ servers[i].weight \in Nat
         /\ servers[i].enabled \in BOOLEAN
    /\ rules \in Seq(RoutingRule)
    /\ algorithm \in AlgorithmNames
    /\ listen \in Listens
    /\ \A i, j \in DOMAIN servers : servers[i].id = servers[j].id => i = j
    /\ \A id \in DOMAIN metrics : metrics[id] \in Metric
    /\ edited \subseteq ServerIds

Enabled == Elems(EnabledServers(cfg))

Active == Elems(EnabledRules(cfg))

\* A link with what its outbound cannot do without: credentials, and the public
\* key of REALITY, which is read from vless links only.
Complete(t) ==
    /\ Link[t].user # ""
    /\ IF Link[t].scheme = "vless"
       THEN Get(Link[t].q, "security") = "reality" => Get(Link[t].q, "pbk") # ""
       ELSE Get(Link[t].q, "tls") # "reality"

\* What buildXrayConfigWithMetrics renders has a defect that keeps the core from
\* starting exactly if the panel let one of these happen: both proxies have one
\* port, a rule with IP addresses only is on, a rule for the balancer is on
\* while no server is, or a server is on that was changed in the edit dialog,
\* which drops its UUID and its key, or added by a link without them.  One such
\* server is enough: none of the others is of use then.
DefectsExplained ==
    servers # <<>> =>
      (WellFormed(Rendered) <=>
         /\ listen.socks # listen.http
         /\ \A rule \in Active : rule.domains # {} \/ rule.geoip # ""
         /\ Enabled = {} => \A rule \in Active : rule.target \notin {"balanced", ""}
         /\ \A s \in Enabled :
              /\ s.id \notin edited
              /\ \E t \in LinkTexts : s.id = Hash[t] /\ Complete(t))

Connections ==
    {ToDomain(d) : d \in {"d1", "d2"}} \cup {ToAddress(g) : g \in {"ir", "us"}}

\* The rule added last decides: a connection goes where the last rule of the
\* list sends it that is on and matches, otherwise to the balancer, or past the
\* proxies if no server is on.  Prepending each rule, so that it comes before
\* the catch-all, turns the list around: the panel shows it with the words that
\* it is carried out in order, and the core goes through it from its end.
LaterRulesWin ==
    \A c \in Connections :
      LET list    == EnabledRules(cfg)
          applies == {i \in DOMAIN list : Matches(RenderedRule(list[i]), c)}
      IN  servers # <<>> =>
            RouteOf(Rendered, c) =
              IF applies # {} THEN TargetOf(list[LastOf(applies)])
              ELSE IF Enabled # {} THEN Balancer ELSE Outbound("direct")

\* A rule names something the core has exactly if it says direct or block, or
\* balanced while a server is on, or spells out the tag of a server that is on
\* and was not changed in the dialog.  The ID of a server, which the panel
\* offers as a target, is none of these.
TargetsThatResolve ==
    \A rule \in Active :
      Resolves(Rendered, TargetOf(rule)) <=>
        \/ rule.target \in {"direct", "block"}
        \/ rule.target \in {"balanced", ""} /\ Enabled # {}
        \/ \E s \in Enabled \ {s \in Enabled : s.id \in edited} :
             rule.target = s.tag

\* With an algorithm that goes by ping, the lower the ping the greater the
\* weight; nobody gets less than 1, and a server that failed its last check
\* gets no more than one that answered (buildWeightedRandom).  Servers changed
\* in the edit dialog have lost their tag, and all get what the last of them
\* is worth.
PingDecidesWeight ==
    (/\ algorithm \in {"latency", "speed"}
     /\ Measured(cfg, PingsOf(metrics)) # {}) =>
      LET list  == EnabledServers(cfg)
          costs == Rendered.balancers[1].strategy.costs
          good  == {i \in DOMAIN list : list[i] \in Measured(cfg, PingsOf(metrics))}
          bad   == {i \in DOMAIN list : /\ list[i].id \in DOMAIN metrics
                                        /\ metrics[list[i].id].ping = 9999}
          whole == {i \in DOMAIN list : list[i].id \notin edited}
      IN  /\ \A i \in DOMAIN list : costs[i] >= Unit
          /\ \A i, j \in good \cap whole :
               metrics[list[i].id].ping <= metrics[list[j].id].ping => costs[i] >= costs[j]
          /\ \A i \in good, j \in bad \cap whole : costs[i] >= costs[j]

\* Where a parameter of a link is found in an outbound.
Place(ob, key) ==
    CASE key \in {"type", "net"}     -> ob.stream.network
      [] key \in {"security", "tls"} -> ob.stream.security
      [] key = "flow"       -> ob.user.flow
      [] key = "encryption" -> ob.user.encryption
      [] key = "sni"  -> IF ob.stream.security = "tls"
                         THEN ob.stream.secured.tls.serverName
                         ELSE ob.stream.secured.serverName
      [] key = "fp"   -> IF ob.stream.security = "tls"
                         THEN ob.stream.secured.tls.fingerprint
                         ELSE ob.stream.secured.fingerprint
      [] key = "pbk"  -> ob.stream.secured.publicKey
      [] key = "sid"  -> ob.stream.secured.shortId
      [] key = "path" -> ob.stream.transport.path
      [] key = "host" -> IF ob.stream.network = "ws"
                         THEN ob.stream.transport.headers.Host
                         ELSE ob.stream.transport.host

\* The parameters the parser does not read although the builder has a use for
\* them.
Unread == {"serviceName", "mode", "alpn", "spx", "headerType", "allowInsecure"}

\* A link that makes sense: no parameter is empty, or unknown, or one that goes
\* with another security or another transport.
Consistent(t) ==
    LET q        == Link[t].q
        read     == DOMAIN q \ Unread
        vless    == Link[t].scheme = "vless"
        security == Get(q, IF vless THEN "security" ELSE "tls")
        network  == Get(q, IF vless THEN "type" ELSE "net")
    IN  /\ "" \notin {q[key] : key \in read}
        /\ read \subseteq
             (IF vless THEN {"type", "security", "flow", "encryption", "fp", "pbk", "sid"}
                       ELSE {"net", "tls"}) \cup {"sni", "path", "host"}
        /\ {"sni", "fp"} \cap read # {} => security \in {"tls", "reality"}
        /\ {"pbk", "sid"} \cap read # {} => security = "reality"
        /\ {"path", "host"} \cap read # {} =>
             network \in {"ws", "h2", "http", "httpupgrade"}

LinksAreConsistent == \A t \in LinkTexts : Parses(t) => Consistent(t)

\* The outbound of a server that was added by link and not changed in the edit
\* dialog has the endpoint, the credentials and every parameter of the link,
\* but for the unread ones, whatever was done to the list meanwhile.
LinkReachesOutbound ==
    \A i \in DOMAIN EnabledServers(cfg), t \in LinkTexts :
      LET s  == EnabledServers(cfg)[i]
          ob == Rendered.outbounds[i]
      IN  s.id = Hash[t] /\ s.id \notin edited =>
            /\ <<ob.protocol, ob.address, ob.user.id>> =
                 <<Link[t].scheme, Link[t].host, Link[t].user>>
            /\ HasPort(t) => ob.port = Link[t].port
            /\ \A key \in DOMAIN Link[t].q \ Unread : Place(ob, key) = Link[t].q[key]

\* Whatever the metrics say, Pick returns a server that is on and not known to
\* be offline, if there is one.
PickIsUsable == PicksUsable(servers, metrics)

\* Round robin and weighted round robin deal out the connections evenly and by
\* weight over the servers that are left.
PicksAreShared == SharesAreFair(servers, metrics)

\* The weights a user sets make no difference to the balancer of xray, under
\* any algorithm: the strategy goes by what balancerStrategy returns, which is
\* never "weighted", so the branch that honours them is dead (line 183 of
\* config_builder.go).
UserWeightsUnused ==
    \A w \in Weights, name \in AlgorithmNames :
      LET now        == [cfg EXCEPT !.algorithm = name]
          reweighted == [i \in DOMAIN servers |-> [servers[i] EXCEPT !.weight = w]]
      IN  Balancers([now EXCEPT !.servers = reweighted], PingsOf(metrics)) =
            Balancers(now, PingsOf(metrics))
==============================================================================
