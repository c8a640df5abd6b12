-------------------------------- MODULE Links --------------------------------
(***************************************************************************)
(* From a share link to the outbound of xray: config.ParseVless and        *)
(* parseVmess make a server record of a link, buildOutbound and            *)
(* buildStreamSettings of config_builder.go make an outbound of a record.  *)
(* In between the record is shown to the panel (mergeServerMetrics) and    *)
(* comes back from it as the body of a PUT.                                *)
(*                                                                         *)
(* A string is "" or a value nobody looks into, except where the code      *)
(* compares it with a literal.  A link is what url.Parse, or base64 and    *)
(* JSON, finds in it: its scheme, user, host, port and named parameters.   *)
(* It may have no user or no port; 0 is a port that is not a number.       *)
(***************************************************************************)
EXTENDS Naturals, Sequences

CONSTANTS
    LinkTexts,      \* the links somebody may paste
    Link,           \* Link[t]: what a decoder finds in text t
    Hash            \* Hash[t]: shortHash of text t

ASSUME LinksAssumption ==
    /\ DOMAIN Link = LinkTexts
    /\ DOMAIN Hash = LinkTexts
    /\ "" \notin {Hash[t] : t \in LinkTexts}

\* No two texts at hand have one hash.  The code counts on it but does not
\* check it: of two such links AddServer takes the first and refuses the other.
HashDistinguishes == \A t, u \in LinkTexts : Hash[t] = Hash[u] => t = u
-----------------------------------------------------------------------------
(* Servers.                                                                *)

\* A config.Server nothing was assigned to.
ZeroServer ==
    [id |-> "", tag |-> "", protocol |-> "", address |-> "", port |-> 0,
     uuid |-> "", encryption |-> "", network |-> "", security |-> "",
     sni |-> "", host |-> "", path |-> "", flow |-> "", pbk |-> "", sid |-> "",
     fp |-> "", spx |-> "", alpn |-> "", insecure |-> FALSE,
     serviceName |-> "", multi |-> FALSE, headerType |-> "",
     weight |-> 0, enabled |-> FALSE]

\* A server with some of its fields assigned, by name.
Assigned(s, fields) ==
    [f \in DOMAIN s |-> IF f \in DOMAIN fields THEN fields[f] ELSE s[f]]

firstNonEmpty(a, b) == IF a # "" THEN a ELSE b

\* url.Values.Get, and a field encoding/json leaves at its zero value.
Get(q, key) == IF key \in DOMAIN q THEN q[key] ELSE ""

OutTag(t) == "out_" \o Hash[t]

\* What a prefix does to a name: it stays a name of its own, and none of those
\* the code uses itself.
ASSUME TagAssumption ==
    \A t \in LinkTexts :
      /\ OutTag(t) \notin {"", "direct", "block", "balanced"}
      /\ \A u \in LinkTexts : OutTag(t) = OutTag(u) => Hash[t] = Hash[u]

HasPort(t) == "port" \in DOMAIN Link[t]

\* What both parsers fill in alike.
NewServer(t) ==
    [ZeroServer EXCEPT !.id = Hash[t], !.tag = OutTag(t),
                       !.protocol = Link[t].scheme, !.address = Link[t].host,
                       !.uuid = Link[t].user, !.weight = 1, !.enabled = TRUE]

\* Mutant of VlessServer: security is looked up under its vmess name.
VlessServerByTls(t) ==
    LET q == Link[t].q
    IN  Assigned(NewServer(t),
          [port       |-> Link[t].port,
           encryption |-> firstNonEmpty(Get(q, "encryption"), "none"),
           network    |-> firstNonEmpty(Get(q, "type"), "tcp"),
           security   |-> firstNonEmpty(Get(q, "tls"), "none"),
           sni |-> Get(q, "sni"), host |-> Get(q, "host"),
           path |-> Get(q, "path"), flow |-> Get(q, "flow"),
           pbk |-> Get(q, "pbk"), sid |-> Get(q, "sid"), fp |-> Get(q, "fp")])

\* The query of a vless link, read key by key.
VlessServer(t) ==
    LET q == Link[t].q
    IN  Assigned(NewServer(t),
          [port       |-> Link[t].port,
           encryption |-> firstNonEmpty(Get(q, "encryption"), "none"),
           network    |-> firstNonEmpty(Get(q, "type"), "tcp"),
           security   |-> firstNonEmpty(Get(q, "security"), "none"),
           sni |-> Get(q, "sni"), host |-> Get(q, "host"),
           path |-> Get(q, "path"), flow |-> Get(q, "flow"),
           pbk |-> Get(q, "pbk"), sid |-> Get(q, "sid"), fp |-> Get(q, "fp")])

\* The JSON of a vmess link; 443 stands in for a port that is not there.
parseVmess(t) ==
    LET q == Link[t].q
    IN  Assigned(NewServer(t),
          [port     |-> IF HasPort(t) THEN Link[t].port ELSE 443,
           network  |-> firstNonEmpty(Get(q, "net"), "tcp"),
           security |-> firstNonEmpty(Get(q, "tls"), "none"),
           host |-> Get(q, "host"), path |-> Get(q, "path"), sni |-> Get(q, "sni")])

\* ParseVless returns a server and no error.
Parses(t) ==
    CASE Link[t].scheme = "vmess" -> TRUE
      [] Link[t].scheme = "vless" ->
           /\ "user" \in DOMAIN Link[t] /\ Link[t].host # ""
           /\ HasPort(t) /\ Link[t].port # 0
      [] OTHER -> FALSE

ParseVless(t) ==
    IF Link[t].scheme = "vmess" THEN parseVmess(t) ELSE VlessServer(t)
-----------------------------------------------------------------------------
(* What the panel is shown of a server, and what a PUT makes of the body.  *)

ShownFields ==
    {"id", "protocol", "address", "port", "network", "security", "weight",
     "enabled", "sni"}

mergeServerMetrics(s) == [f \in ShownFields |-> s[f]]

\* json.Unmarshal of an object into a zero Server.
DecodedServer(body) == Assigned(ZeroServer, body)

\* handleServerByID: the ID of the path replaces the one of the body.
PutBody(id, body) == [DecodedServer(body) EXCEPT !.id = id]
-----------------------------------------------------------------------------
(* Outbounds.                                                              *)

defaultStr(s, fallback) == IF s = "" THEN fallback ELSE s

\* A map that is given its optional entries only when they are not empty.
NonEmpty(map) == [k \in {k \in DOMAIN map : map[k] # ""} |-> map[k]]

\* Security settings: none, TLS or REALITY.
securitySettings(s) ==
    CASE s.security = "tls" ->
           [tls |-> NonEmpty([serverName |-> s.sni, fingerprint |-> s.fp,
                              alpn |-> s.alpn]),
            allowInsecure |-> s.insecure]
      [] s.security = "reality" ->
           [serverName |-> s.sni, fingerprint |-> defaultStr(s.fp, "chrome"),
            publicKey |-> s.pbk, shortId |-> s.sid,
            extra |-> NonEmpty([spiderX |-> s.spx])]
      [] OTHER -> <<>>

\* Transport settings by network.
transportSettings(s) ==
    CASE s.network = "ws" ->
           [path |-> defaultStr(s.path, "/"), headers |-> NonEmpty([Host |-> s.host])]
      [] s.network = "grpc" ->
           [serviceName |-> s.serviceName, multiMode |-> s.multi]
      [] s.network \in {"h2", "http", "httpupgrade"} ->
           [path |-> defaultStr(s.path, "/"), host |-> s.host]
      [] s.network = "tcp" /\ s.headerType = "http" -> [header |-> "http"]
      [] OTHER -> <<>>

buildStreamSettings(s) ==
    [network   |-> defaultStr(s.network, "tcp"),
     security  |-> defaultStr(s.security, "none"),
     secured   |-> securitySettings(s),
     transport |-> transportSettings(s)]

\* Endpoint and credentials, per protocol.
buildVlessOutbound(s) ==
    [tag |-> s.tag, protocol |-> "vless", address |-> s.address, port |-> s.port,
     user |-> [id |-> s.uuid, encryption |-> defaultStr(s.encryption, "none"),
               flow |-> s.flow],
     stream |-> buildStreamSettings(s)]

buildVmessOutbound(s) ==
    [tag |-> s.tag, protocol |-> "vmess", address |-> s.address, port |-> s.port,
     user |-> [id |-> s.uuid, alterId |-> 0,
               security |-> defaultStr(s.encryption, "auto")],
     stream |-> buildStreamSettings(s)]

buildTrojanOutbound(s) ==
    [tag |-> s.tag, protocol |-> "trojan", address |-> s.address, port |-> s.port,
     user |-> [id |-> s.uuid],
     stream |-> buildStreamSettings(s)]

\* An outbound that sends where the client asked, without a proxy.
Freedom(tag)   == [tag |-> tag, protocol |-> "freedom"]
Blackhole(tag) == [tag |-> tag, protocol |-> "blackhole"]

buildOutbound(s) ==
    CASE s.protocol = "vless"  -> buildVlessOutbound(s)
      [] s.protocol = "vmess"  -> buildVmessOutbound(s)
      [] s.protocol = "trojan" -> buildTrojanOutbound(s)
      [] OTHER                 -> Freedom(s.tag)
=============================================================================
