----------------------------- MODULE PanelProofs -----------------------------
(***************************************************************************)
(* What holds of the panel and of what it renders, whatever links, rules,  *)
(* weights and measurements there are and however long the lists.          *)
(***************************************************************************)
EXTENDS Panel, ListProofs, FiniteSetTheorems

(***************************************************************************)
(* Servers as records.                                                     *)

Fields == DOMAIN ZeroServer

\* The SMT backend has no word for the empty string.
Blank == ""

LEMMA FieldNames ==
    {"id", "tag", "protocol", "address", "port", "uuid", "encryption", "network",
     "security", "sni", "host", "path", "flow", "pbk", "sid", "fp", "weight",
     "enabled"} \subseteq Fields
  BY DEF Fields, ZeroServer

LEMMA AssignedIs ==
    ASSUME NEW s, NEW b
    PROVE  /\ DOMAIN Assigned(s, b) = DOMAIN s
           /\ \A f \in DOMAIN s : Assigned(s, b)[f] = IF f \in DOMAIN b THEN b[f] ELSE s[f]
  BY DEF Assigned

\* The fields both parsers fill in alike.
Core == {"id", "tag", "protocol", "address", "uuid", "weight", "enabled"}

LEMMA ParsedIs ==
    ASSUME NEW t \in LinkTexts
    PROVE  /\ DOMAIN ParseVless(t) = Fields
           /\ ParseVless(t).id = Hash[t] /\ ParseVless(t).tag = OutTag(t)
           /\ ParseVless(t).protocol = Link[t].scheme
           /\ ParseVless(t).address = Link[t].host
           /\ ParseVless(t).uuid = Link[t].user
           /\ ParseVless(t).weight = 1 /\ ParseVless(t).enabled = TRUE
  <1> DEFINE n == NewServer(t)
  <1>1. /\ DOMAIN n = Fields
        /\ n.id = Hash[t] /\ n.tag = OutTag(t) /\ n.protocol = Link[t].scheme
        /\ n.address = Link[t].host /\ n.uuid = Link[t].user
        /\ n.weight = 1 /\ n.enabled = TRUE
    BY DEF NewServer, ZeroServer, Fields
  <1> HIDE DEF n
  <1>2. CASE Link[t].scheme = "vmess"
    <2>1. PICK b : ParseVless(t) = Assigned(n, b) /\ DOMAIN b \cap Core = {}
      BY <1>2 DEF ParseVless, parseVmess, n, Core
    <2>2. PICK p : p = ParseVless(t)
      OBVIOUS
    <2>3. DOMAIN p = Fields /\ \A f \in Core : p[f] = n[f]
      BY <1>1, <2>1, <2>2, AssignedIs, FieldNames DEF Core
    <2> QED
      BY <1>1, <2>2, <2>3 DEF Core
  <1>3. CASE Link[t].scheme # "vmess"
    <2>1. PICK b : ParseVless(t) = Assigned(n, b) /\ DOMAIN b \cap Core = {}
      BY <1>3 DEF ParseVless, VlessServer, n, Core
    <2>2. PICK p : p = ParseVless(t)
      OBVIOUS
    <2>3. DOMAIN p = Fields /\ \A f \in Core : p[f] = n[f]
      BY <1>1, <2>1, <2>2, AssignedIs, FieldNames DEF Core
    <2> QED
      BY <1>1, <2>2, <2>3 DEF Core
  <1> QED
    BY <1>2, <1>3

LEMMA PutIs ==
    ASSUME NEW s, DOMAIN s = Fields, NEW e
    PROVE  /\ DOMAIN Switched(s, e) = Fields /\ Switched(s, e).enabled = e
           /\ \A f \in Fields \ {"enabled"} : Switched(s, e)[f] = s[f]
  <1>0. PICK p : p = Switched(s, e)
    OBVIOUS
  <1>1. PICK b : b = [s EXCEPT !.enabled = e]
    OBVIOUS
  <1>2. DOMAIN b = Fields /\ b.enabled = e /\ \A f \in Fields \ {"enabled"} : b[f] = s[f]
    BY <1>1, FieldNames
  <1>3. PICK d : d = DecodedServer(b)
    OBVIOUS
  <1>4. DOMAIN d = Fields /\ \A f \in Fields : d[f] = b[f]
    BY <1>2, <1>3 DEF DecodedServer, Assigned, Fields
  <1>5. p = [d EXCEPT !.id = s.id]
    BY <1>0, <1>1, <1>3 DEF Switched, PutBody
  <1>6. DOMAIN p = Fields /\ p.id = s.id /\ \A f \in Fields \ {"id"} : p[f] = d[f]
    BY <1>4, <1>5, FieldNames
  <1> QED
    BY <1>0, <1>2, <1>4, <1>6, FieldNames

\* A server comes back from the edit dialog with the fields of the form.
LEMMA EditTakes ==
    ASSUME NEW s, DOMAIN s = Fields, NEW w, NEW e,
           NEW p, p = Edited(s, w, e)
    PROVE  /\ DOMAIN p = Fields
           /\ \A f \in Fields :
                p[f] = CASE f = "weight"  -> w
                        [] f = "enabled" -> e
                        [] f \in ShownFields \ {"weight", "enabled"} -> s[f]
                        [] OTHER -> ZeroServer[f]
  <1>1. PICK m : m = mergeServerMetrics(s)
    OBVIOUS
  <1>2. PICK b : b = [m EXCEPT !.weight = w, !.enabled = e]
    OBVIOUS
  <1>3. DOMAIN m = ShownFields /\ \A f \in ShownFields : m[f] = s[f]
    BY <1>1 DEF mergeServerMetrics
  <1>4. /\ DOMAIN b = ShownFields /\ b.weight = w /\ b.enabled = e
        /\ \A f \in ShownFields \ {"weight", "enabled"} : b[f] = s[f]
    BY <1>2, <1>3 DEF ShownFields
  <1>5. PICK d : d = DecodedServer(b)
    OBVIOUS
  <1>6. /\ DOMAIN d = Fields
        /\ \A f \in Fields : d[f] = IF f \in DOMAIN b THEN b[f] ELSE ZeroServer[f]
    BY <1>5, AssignedIs DEF DecodedServer, Fields
  <1>7. p = [d EXCEPT !.id = s.id]
    BY <1>1, <1>2, <1>5 DEF Edited, PutBody
  <1>8. DOMAIN p = Fields /\ p.id = s.id /\ \A f \in Fields \ {"id"} : p[f] = d[f]
    BY <1>6, <1>7, FieldNames
  <1>9. "weight" \in ShownFields /\ "enabled" \in ShownFields /\ "id" \in ShownFields
    BY DEF ShownFields
  <1>10. ASSUME NEW f \in Fields
         PROVE  p[f] = CASE f = "weight"  -> w
                         [] f = "enabled" -> e
                         [] f \in ShownFields \ {"weight", "enabled"} -> s[f]
                         [] OTHER -> ZeroServer[f]
    BY <1>4, <1>6, <1>8, <1>9
  <1> QED
    BY <1>8, <1>10

\* It keeps its ID and its protocol; the tag and the UUID are lost.
LEMMA EditKeeps ==
    ASSUME NEW s, DOMAIN s = Fields, NEW w, NEW e,
           NEW p, p = Edited(s, w, e)
    PROVE  /\ DOMAIN p = Fields /\ p.id = s.id /\ p.protocol = s.protocol
           /\ p.weight = w /\ p.enabled = e
  BY EditTakes, FieldNames DEF ShownFields

LEMMA EditLoses ==
    ASSUME NEW s, DOMAIN s = Fields, NEW w, NEW e,
           NEW p, p = Edited(s, w, e)
    PROVE  p.tag = Blank /\ p.uuid = Blank
  <1>1. /\ "tag" \in Fields /\ "uuid" \in Fields
        /\ "tag" \notin ShownFields /\ "uuid" \notin ShownFields
        /\ "weight" \in ShownFields /\ "enabled" \in ShownFields
    BY FieldNames DEF ShownFields
  <1>2. ZeroServer["tag"] = Blank /\ ZeroServer["uuid"] = Blank
    BY Zenon DEF ZeroServer, Blank
  <1> QED
    BY <1>1, <1>2, EditTakes
-----------------------------------------------------------------------------
(***************************************************************************)
(* The inductive invariant.                                                *)

\* Server s was added by link t, and is what the parser made of it but for
\* the weight and the switch, unless it is one of those that were changed in
\* the edit dialog.
ComesFrom(s, t, changed) ==
    /\ Parses(t) /\ s.id = Hash[t] /\ s.protocol = Link[t].scheme
    /\ s.id \in changed => s.tag = Blank /\ s.uuid = Blank
    /\ s.id \notin changed =>
         \A f \in Fields \ {"weight", "enabled"} : s[f] = ParseVless(t)[f]

\* Every server has a link it comes from.
Provenance ==
    \A i \in DOMAIN servers : \E t \in LinkTexts : ComesFrom(servers[i], t, edited)

IInv ==
    /\ servers \in Seq(Elems(servers))
    /\ TypeOK
    /\ Provenance

\* A function on 1 .. n is a list.
LEMMA ListByElems ==
    ASSUME NEW n \in Nat, NEW s, s = [i \in 1 .. n |-> s[i]]
    PROVE  s \in Seq(Elems(s)) /\ Len(s) = n /\ DOMAIN s = 1 .. n
  <1>1. DOMAIN s = 1 .. n
    OBVIOUS
  <1>2. s \in [1 .. n -> Elems(s)]
    BY <1>1 DEF Elems
  <1>3. s \in Seq(Elems(s))
    BY <1>2, SeqDef
  <1> QED
    BY <1>1, <1>3, LenProperties

\* A list has positions from 1 to its length.
LEMMA ListHas ==
    ASSUME NEW S, NEW s \in Seq(S)
    PROVE  /\ Len(s) \in Nat /\ DOMAIN s = 1 .. Len(s)
           /\ \A i \in 1 .. Len(s) : s[i] \in S
           /\ s = [i \in 1 .. Len(s) |-> s[i]]
  BY LenProperties, ElementOfSeq, SeqDef

\* One element less.
LEMMA WithoutIs ==
    ASSUME NEW S, NEW s \in Seq(S), NEW i \in 1 .. Len(s)
    PROVE  /\ Without(s, i) \in Seq(S) /\ DOMAIN Without(s, i) = 1 .. Len(s) - 1
           /\ Len(s) - 1 \in Nat /\ Len(Without(s, i)) = Len(s) - 1
           /\ \A j \in 1 .. Len(s) - 1 :
                Without(s, i)[j] = s[IF j < i THEN j ELSE j + 1]
  <1>1. Len(s) \in Nat /\ \A j \in 1 .. Len(s) : s[j] \in S
    BY ListHas
  <1>2. Len(s) - 1 \in Nat
    BY <1>1
  <1>3. \A j \in 1 .. Len(s) - 1 : j \in 1 .. Len(s) /\ j + 1 \in 1 .. Len(s)
    BY <1>1
  <1>4. Without(s, i) \in [1 .. Len(s) - 1 -> S]
    BY <1>1, <1>3 DEF Without
  <1>5. Without(s, i) \in Seq(S)
    BY <1>2, <1>4, SeqDef
  <1>6. \A j \in 1 .. Len(s) - 1 : Without(s, i)[j] = s[IF j < i THEN j ELSE j + 1]
    BY DEF Without
  <1> QED
    BY <1>2, <1>4, <1>5, <1>6, LenProperties

\* One element more.
LEMMA AppendIs ==
    ASSUME NEW s, s \in Seq(Elems(s)), NEW x
    PROVE  /\ Append(s, x) \in Seq(Elems(Append(s, x)))
           /\ DOMAIN Append(s, x) = 1 .. Len(s) + 1 /\ Len(s) + 1 \in Nat
           /\ Len(Append(s, x)) = Len(s) + 1
           /\ \A j \in 1 .. Len(s) : Append(s, x)[j] = s[j]
           /\ Append(s, x)[Len(s) + 1] = x
  <1> DEFINE S == Elems(s) \cup {x}
  <1>1. s \in Seq(S) /\ x \in S /\ Len(s) \in Nat
    BY LenProperties
  <1> HIDE DEF S
  <1>2. /\ Append(s, x) \in Seq(S) /\ Len(Append(s, x)) = Len(s) + 1
        /\ \A j \in 1 .. Len(s) : Append(s, x)[j] = s[j]
        /\ Append(s, x)[Len(s) + 1] = x
    BY <1>1, AppendProperties
  <1>3. /\ DOMAIN Append(s, x) = 1 .. Len(s) + 1 /\ Len(s) + 1 \in Nat
        /\ Append(s, x) = [j \in 1 .. Len(s) + 1 |-> Append(s, x)[j]]
    BY <1>1, <1>2, ListHas
  <1>4. PICK m, n : m = Append(s, x) /\ n = Len(s) + 1 /\ n \in Nat
    BY <1>3
  <1>5. m \in Seq(Elems(m))
    BY <1>3, <1>4, ListByElems
  <1> QED
    BY <1>2, <1>3, <1>4, <1>5

\* The facts about the server list the steps below start from.
LEMMA ServersAre ==
    ASSUME IInv
    PROVE  /\ Len(servers) \in Nat /\ DOMAIN servers = 1 .. Len(servers)
           /\ servers = [i \in 1 .. Len(servers) |-> servers[i]]
           /\ ServerIds = {servers[i].id : i \in 1 .. Len(servers)}
           /\ \A i \in 1 .. Len(servers) : /\ DOMAIN servers[i] = Fields
                                           /\ servers[i].weight \in Nat
                                           /\ servers[i].enabled \in BOOLEAN
           /\ \A i, j \in 1 .. Len(servers) : servers[i].id = servers[j].id => i = j
  <1>1. /\ Len(servers) \in Nat /\ DOMAIN servers = 1 .. Len(servers)
        /\ servers = [i \in 1 .. Len(servers) |-> servers[i]]
    BY ListHas DEF IInv
  <1> QED
    BY <1>1 DEF IInv, TypeOK, ServerIds, Fields

\* What comes from a link still does if no server with its ID is changed.
LEMMA StillComesFrom ==
    ASSUME NEW s, NEW t, NEW a, NEW b, ComesFrom(s, t, a), s.id \in a <=> s.id \in b
    PROVE  ComesFrom(s, t, b)
  BY DEF ComesFrom

\* A server added by link.
LEMMA AddServerStep ==
    ASSUME IInv, NEW t \in LinkTexts, AddServer(t)
    PROVE  IInv'
  <1> DEFINE n == Len(servers)
             p == ParseVless(t)
  <1>1. /\ Parses(t) /\ Hash[t] \notin ServerIds /\ servers' = Append(servers, p)
        /\ metrics' = Forget(metrics, Hash[t])
        /\ UNCHANGED <<rules, algorithm, listen, edited>>
    BY DEF AddServer
  <1>2. n \in Nat /\ DOMAIN servers = 1 .. n /\ ServerIds = {servers[i].id : i \in 1 .. n}
    BY ServersAre
  <1>3. /\ servers' \in Seq(Elems(servers'))
        /\ DOMAIN servers' = 1 .. n + 1
        /\ \A j \in 1 .. n : servers'[j] = servers[j]
        /\ servers'[n + 1] = p
    BY <1>1, AppendIs DEF IInv
  <1>4. \A j \in 1 .. n + 1 : j \in 1 .. n \/ j = n + 1
    BY <1>2
  <1>5. /\ DOMAIN p = Fields /\ p.id = Hash[t] /\ p.protocol = Link[t].scheme
        /\ p.weight = 1 /\ p.enabled = TRUE
    BY ParsedIs
  <1>6. Hash[t] \notin edited
    BY <1>1 DEF IInv, TypeOK
  <1>7. ComesFrom(p, t, edited)
    BY <1>1, <1>5, <1>6 DEF ComesFrom
  <1> HIDE DEF p
  <1>8. ServerIds' = ServerIds \cup {Hash[t]}
    BY <1>2, <1>3, <1>4, <1>5 DEF ServerIds
  <1>9. TypeOK'
    <2>1. ASSUME NEW j \in 1 .. n + 1
          PROVE  /\ DOMAIN servers'[j] = Fields /\ servers'[j].weight \in Nat
                 /\ servers'[j].enabled \in BOOLEAN
      <3>1. CASE j \in 1 .. n
        <4>1. servers'[j] = servers[j]
          BY <1>3, <3>1
        <4> QED
          BY <3>1, <4>1, ServersAre
      <3>2. CASE j = n + 1
        <4>1. servers'[j] = p
          BY <1>3, <3>2
        <4>2. p.weight \in Nat
          BY <1>5
        <4>3. p.enabled \in BOOLEAN
          BY <1>5, Zenon
        <4> QED
          BY <1>5, <4>1, <4>2, <4>3, Zenon
      <3> QED
        BY <1>4, <3>1, <3>2
    <2>2. ASSUME NEW j \in 1 .. n + 1, NEW k \in 1 .. n + 1,
                 servers'[j].id = servers'[k].id
          PROVE  j = k
      <3>1. \A i \in 1 .. n : servers'[i].id = servers[i].id /\ servers[i].id # Hash[t]
        BY <1>1, <1>2, <1>3
      <3>2. servers'[n + 1].id = Hash[t]
        BY <1>3, <1>5
      <3> QED
        BY <1>4, <2>2, <3>1, <3>2, ServersAre
    <2>3. /\ rules' \in Seq(RoutingRule) /\ algorithm' \in AlgorithmNames
          /\ listen' \in Listens
      BY <1>1 DEF IInv, TypeOK
    <2>4. /\ edited' \subseteq ServerIds'
          /\ \A x \in DOMAIN metrics' : metrics'[x] \in Metric
      BY <1>1, <1>8 DEF IInv, TypeOK, Forget
    <2> QED
      BY <1>3, <2>1, <2>2, <2>3, <2>4 DEF TypeOK, Fields
  <1>10. Provenance'
    <2>1. ASSUME NEW j \in 1 .. n + 1
          PROVE  \E u \in LinkTexts : ComesFrom(servers'[j], u, edited)
      BY <1>2, <1>3, <1>4, <1>7 DEF IInv, Provenance
    <2> QED
      BY <1>1, <1>3, <2>1 DEF Provenance
  <1> QED
    BY <1>3, <1>9, <1>10 DEF IInv

\* A server in the list is replaced by another with its ID.
LEMMA ReplaceStep ==
    ASSUME IInv, NEW i \in DOMAIN servers, NEW p, NEW t \in LinkTexts,
           servers' = [servers EXCEPT ![i] = p],
           DOMAIN p = Fields, p.weight \in Nat, p.enabled \in BOOLEAN,
           p.id = servers[i].id,
           edited' = edited \/ edited' = edited \cup {servers[i].id},
           ComesFrom(p, t, edited'),
           UNCHANGED <<rules, algorithm, listen, metrics>>
    PROVE  IInv'
  <1> DEFINE n == Len(servers)
  <1>1. n \in Nat /\ DOMAIN servers = 1 .. n /\ i \in 1 .. n
    BY ServersAre
  <1>2. /\ DOMAIN servers' = 1 .. n /\ servers' = [j \in 1 .. n |-> servers'[j]]
        /\ servers'[i] = p /\ \A j \in 1 .. n \ {i} : servers'[j] = servers[j]
    BY <1>1
  <1>3. servers' \in Seq(Elems(servers'))
    BY <1>1, <1>2, ListByElems
  <1>4. \A j \in 1 .. n : servers'[j].id = servers[j].id
    BY <1>2
  <1>5. ServerIds' = ServerIds /\ servers[i].id \in ServerIds
    BY <1>1, <1>2, <1>4 DEF ServerIds
  <1>6. TypeOK'
    <2>1. ASSUME NEW j \in 1 .. n
          PROVE  /\ DOMAIN servers'[j] = Fields /\ servers'[j].weight \in Nat
                 /\ servers'[j].enabled \in BOOLEAN
      <3>1. CASE j = i
        BY <1>2, <3>1
      <3>2. CASE j # i
        BY <1>2, <3>2, ServersAre
      <3> QED
        BY <3>1, <3>2
    <2>2. \A j, k \in 1 .. n : servers'[j].id = servers'[k].id => j = k
      BY <1>4, ServersAre
    <2>3. /\ rules' \in Seq(RoutingRule) /\ algorithm' \in AlgorithmNames
          /\ listen' \in Listens
      BY DEF IInv, TypeOK
    <2>4. /\ edited' \subseteq ServerIds'
          /\ \A x \in DOMAIN metrics' : metrics'[x] \in Metric
      BY <1>5 DEF IInv, TypeOK
    <2> QED
      BY <1>2, <2>1, <2>2, <2>3, <2>4 DEF TypeOK, Fields
  <1>7. Provenance'
    <2>1. ASSUME NEW j \in 1 .. n
          PROVE  \E u \in LinkTexts : ComesFrom(servers'[j], u, edited')
      <3>1. CASE j = i
        BY <1>2, <3>1
      <3>2. CASE j # i
        <4>1. PICK u \in LinkTexts : ComesFrom(servers[j], u, edited)
          BY <1>1 DEF IInv, Provenance
        <4>2. servers[j].id # servers[i].id
          BY <1>1, <3>2, ServersAre
        <4>3. ComesFrom(servers[j], u, edited')
          BY <4>1, <4>2, StillComesFrom
        <4> QED
          BY <1>2, <3>2, <4>3
      <3> QED
        BY <3>1, <3>2
    <2> QED
      BY <1>2, <2>1 DEF Provenance
  <1> QED
    BY <1>3, <1>6, <1>7 DEF IInv

\* The edit dialog.
LEMMA EditServerStep ==
    ASSUME IInv, NEW i \in DOMAIN servers, NEW w \in Weights, NEW e \in BOOLEAN,
           EditServer(i, w, e)
    PROVE  IInv'
  <1>1. PICK s, p : s = servers[i] /\ p = Edited(s, w, e)
    OBVIOUS
  <1>2. /\ servers' = [servers EXCEPT ![i] = p] /\ edited' = edited \cup {s.id}
        /\ UNCHANGED <<rules, algorithm, listen, metrics>>
    BY <1>1 DEF EditServer
  <1>3. DOMAIN s = Fields
    BY <1>1, ServersAre
  <1>4. /\ DOMAIN p = Fields /\ p.id = s.id /\ p.protocol = s.protocol
        /\ p.weight = w /\ p.enabled = e
    BY <1>1, <1>3, EditKeeps
  <1>4a. p.tag = Blank /\ p.uuid = Blank
    BY <1>1, <1>3, EditLoses
  <1>5. PICK t \in LinkTexts : ComesFrom(s, t, edited)
    BY <1>1 DEF IInv, Provenance
  <1>6. ComesFrom(p, t, edited')
    BY <1>2, <1>4, <1>4a, <1>5 DEF ComesFrom
  <1>7. w \in Nat
    BY PanelAssumption
  <1> QED
    BY <1>1, <1>2, <1>4, <1>6, <1>7, ReplaceStep

\* A PUT with all fields.
LEMMA PutServerStep ==
    ASSUME IInv, NEW i \in DOMAIN servers, NEW e \in BOOLEAN, PutServer(i, e)
    PROVE  IInv'
  <1>1. PICK s, p : s = servers[i] /\ p = Switched(s, e)
    OBVIOUS
  <1>2. /\ servers' = [servers EXCEPT ![i] = p]
        /\ UNCHANGED <<rules, algorithm, listen, metrics, edited>>
    BY <1>1 DEF PutServer
  <1>3. DOMAIN s = Fields /\ s.weight \in Nat
    BY <1>1, ServersAre
  <1>4. /\ DOMAIN p = Fields /\ p.enabled = e
        /\ \A f \in Fields \ {"enabled"} : p[f] = s[f]
    BY <1>1, <1>3, PutIs
  <1>5. /\ p.id = s.id /\ p.protocol = s.protocol /\ p.weight = s.weight
        /\ p.tag = s.tag /\ p.uuid = s.uuid
    BY <1>4, FieldNames
  <1>6. PICK t \in LinkTexts : ComesFrom(s, t, edited)
    BY <1>1 DEF IInv, Provenance
  <1>7. ComesFrom(p, t, edited)
    BY <1>4, <1>5, <1>6 DEF ComesFrom
  <1> QED
    BY <1>1, <1>2, <1>3, <1>4, <1>5, <1>7, ReplaceStep

\* A server is deleted with its measurements.
LEMMA DeleteServerStep ==
    ASSUME IInv, NEW i \in DOMAIN servers, DeleteServer(i)
    PROVE  IInv'
  <1> DEFINE n  == Len(servers)
             id == servers[i].id
             At(j) == IF j < i THEN j ELSE j + 1
  <1>1. n \in Nat /\ DOMAIN servers = 1 .. n /\ i \in 1 .. n
    BY ServersAre
  <1>2. /\ servers' = Without(servers, i) /\ metrics' = Forget(metrics, id)
        /\ edited' = edited \ {id} /\ UNCHANGED <<rules, algorithm, listen>>
    BY DEF DeleteServer
  <1>3. /\ DOMAIN servers' = 1 .. n - 1 /\ n - 1 \in Nat
        /\ \A j \in 1 .. n - 1 : servers'[j] = servers[At(j)]
    <2>1. servers \in Seq(Elems(servers))
      BY DEF IInv
    <2> QED
      BY <1>1, <1>2, <2>1, WithoutIs
  <1>4. servers' \in Seq(Elems(servers'))
    <2>1. servers' = [j \in 1 .. n - 1 |-> servers'[j]]
      BY <1>2, <1>3 DEF Without
    <2> QED
      BY <1>3, <2>1, ListByElems
  <1>5. \A j \in 1 .. n - 1 : At(j) \in 1 .. n /\ At(j) # i
    BY <1>1
  <1>6. \A k \in 1 .. n : k # i => \E j \in 1 .. n - 1 : At(j) = k
    <2> SUFFICES ASSUME NEW k \in 1 .. n, k # i
                 PROVE  \E j \in 1 .. n - 1 : At(j) = k
      OBVIOUS
    <2>1. CASE k < i
      BY <1>1, <2>1
    <2>2. CASE k > i
      <3>1. k - 1 \in 1 .. n - 1 /\ At(k - 1) = k
        BY <1>1, <2>2
      <3> QED
        BY <3>1
    <2> QED
      BY <1>1, <2>1, <2>2
  <1>7. \A j, k \in 1 .. n - 1 : At(j) = At(k) => j = k
    BY <1>1
  <1> HIDE DEF At
  <1>8. ServerIds' = ServerIds \ {id}
    <2>1. ASSUME NEW x \in ServerIds'
          PROVE  x \in ServerIds \ {id}
      <3>1. PICK j \in 1 .. n - 1 : x = servers'[j].id
        BY <1>3 DEF ServerIds
      <3> QED
        BY <1>1, <1>3, <1>5, <3>1, ServersAre
    <2>2. ASSUME NEW x \in ServerIds \ {id}
          PROVE  x \in ServerIds'
      <3>1. PICK k \in 1 .. n : x = servers[k].id /\ k # i
        BY ServersAre
      <3>2. PICK j \in 1 .. n - 1 : At(j) = k
        BY <1>6, <3>1
      <3>3. x = servers'[j].id
        BY <1>3, <3>1, <3>2
      <3> QED
        BY <1>3, <3>3 DEF ServerIds
    <2> QED
      BY <2>1, <2>2
  <1>9. TypeOK'
    <2>1. ASSUME NEW j \in 1 .. n - 1
          PROVE  /\ DOMAIN servers'[j] = Fields /\ servers'[j].weight \in Nat
                 /\ servers'[j].enabled \in BOOLEAN
      BY <1>3, <1>5, ServersAre
    <2>2. ASSUME NEW j \in 1 .. n - 1, NEW k \in 1 .. n - 1,
                 servers'[j].id = servers'[k].id
          PROVE  j = k
      <3>1. servers[At(j)].id = servers[At(k)].id
        BY <1>3, <2>2
      <3>2. At(j) = At(k)
        BY <1>5, <3>1, ServersAre
      <3> QED
        BY <1>7, <3>2
    <2>3. /\ rules' \in Seq(RoutingRule) /\ algorithm' \in AlgorithmNames
          /\ listen' \in Listens
      BY <1>2 DEF IInv, TypeOK
    <2>4. /\ edited' \subseteq ServerIds'
          /\ \A x \in DOMAIN metrics' : metrics'[x] \in Metric
      BY <1>2, <1>8 DEF IInv, TypeOK, Forget
    <2> QED
      BY <1>3, <2>1, <2>2, <2>3, <2>4 DEF TypeOK, Fields
  <1>10. Provenance'
    <2>1. ASSUME NEW j \in 1 .. n - 1
          PROVE  \E u \in LinkTexts : ComesFrom(servers'[j], u, edited')
      <3>1. PICK k : k = At(j) /\ k \in 1 .. n /\ k # i /\ servers'[j] = servers[k]
        BY <1>3, <1>5
      <3>2. PICK u \in LinkTexts : ComesFrom(servers[k], u, edited)
        BY <1>1, <3>1 DEF IInv, Provenance
      <3>3. servers[k].id # id
        BY <1>1, <3>1, ServersAre
      <3>4. ComesFrom(servers[k], u, edited')
        BY <1>2, <3>2, <3>3, StillComesFrom
      <3> QED
        BY <3>1, <3>4
    <2> QED
      BY <1>3, <2>1 DEF Provenance
  <1> QED
    BY <1>4, <1>9, <1>10 DEF IInv
-----------------------------------------------------------------------------
(***************************************************************************)
(* The invariant holds.                                                    *)

LEMMA InitIInv ==
    ASSUME Init
    PROVE  IInv
  <1>1. servers \in Seq(Elems(servers)) /\ DOMAIN servers = {} /\ rules \in Seq(RoutingRule)
    BY DEF Init
  <1>2. /\ DOMAIN metrics = {} /\ edited = {} /\ algorithm \in AlgorithmNames
        /\ listen \in Listens
    BY DEF Init, AlgorithmNames
  <1> QED
    BY <1>1, <1>2 DEF IInv, TypeOK, Provenance

LEMMA NextIInv ==
    ASSUME IInv, [Next]_vars
    PROVE  IInv'
  <1>1. ASSUME NEW t \in LinkTexts, AddServer(t)
        PROVE  IInv'
    BY <1>1, AddServerStep
  <1>2. ASSUME NEW i \in DOMAIN servers, NEW w \in Weights, NEW e \in BOOLEAN,
               EditServer(i, w, e)
        PROVE  IInv'
    BY <1>2, EditServerStep
  <1>3. ASSUME NEW i \in DOMAIN servers, NEW e \in BOOLEAN, PutServer(i, e)
        PROVE  IInv'
    BY <1>3, PutServerStep
  <1>4. ASSUME NEW i \in DOMAIN servers, DeleteServer(i)
        PROVE  IInv'
    BY <1>4, DeleteServerStep
  <1>5. ASSUME NEW rule \in NewRules, AddRule(rule)
        PROVE  IInv'
    <2>1. rules' \in Seq(RoutingRule)
      BY <1>5, PanelAssumption DEF AddRule, IInv, TypeOK
    <2> QED
      BY <1>5, <2>1 DEF AddRule, IInv, TypeOK, Provenance, ServerIds
  <1>6. ASSUME NEW i \in DOMAIN rules, DeleteRule(i)
        PROVE  IInv'
    <2>1. rules \in Seq(RoutingRule) /\ i \in 1 .. Len(rules)
      BY ListHas DEF IInv, TypeOK
    <2>2. rules' \in Seq(RoutingRule)
      BY <1>6, <2>1, WithoutIs DEF DeleteRule
    <2> QED
      BY <1>6, <2>2 DEF DeleteRule, IInv, TypeOK, Provenance, ServerIds
  <1>7. ASSUME NEW name \in Algorithms, SetAlgorithm(name)
        PROVE  IInv'
    BY <1>7, PanelAssumption DEF SetAlgorithm, IInv, TypeOK, Provenance, ServerIds
  <1>8. ASSUME NEW l \in Listens, SetListen(l)
        PROVE  IInv'
    BY <1>8 DEF SetListen, IInv, TypeOK, Provenance, ServerIds
  <1>9. ASSUME NEW t \in LinkTexts, NEW m \in NewMetrics, SetMetrics(Hash[t], m)
        PROVE  IInv'
    <2>1. PICK id : id = Hash[t]
      OBVIOUS
    <2>2. /\ DOMAIN metrics' = DOMAIN metrics \cup {id} /\ metrics'[id] = m
          /\ \A x \in DOMAIN metrics \ {id} : metrics'[x] = metrics[x]
      BY <1>9, <2>1 DEF SetMetrics
    <2>3. m \in Metric
      BY PanelAssumption
    <2>4. \A x \in DOMAIN metrics' : metrics'[x] \in Metric
      BY <2>2, <2>3 DEF IInv, TypeOK
    <2>5. UNCHANGED <<servers, rules, algorithm, listen, edited>> /\ ServerIds' = ServerIds
      BY <1>9 DEF SetMetrics, ServerIds
    <2>6. TypeOK' /\ Provenance'
      BY <2>4, <2>5 DEF IInv, TypeOK, Provenance
    <2> QED
      BY <2>5, <2>6 DEF IInv
  <1>10. CASE UNCHANGED vars
    BY <1>10 DEF vars, IInv, TypeOK, Provenance, ServerIds
  <1> QED
    BY <1>1, <1>2, <1>3, <1>4, <1>5, <1>6, <1>7, <1>8, <1>9, <1>10 DEF Next

LEMMA Invariance == Spec => []IInv
  <1>1. Init => IInv
    BY InitIInv
  <1>2. IInv /\ [Next]_vars => IInv'
    BY NextIInv
  <1> QED
    BY <1>1, <1>2, PTL DEF Spec

\* However long the lists get, servers and rules keep their form, and no two
\* servers share an ID (AddServer, DeleteServer of store.go, handleServerByID).
THEOREM PanelTypeCorrect == Spec => []TypeOK
  <1>1. IInv => TypeOK
    BY DEF IInv
  <1> QED
    BY <1>1, Invariance, PTL
-----------------------------------------------------------------------------
(***************************************************************************)
(* What is rendered.                                                       *)

\* Two lists one after the other.
LEMMA ConcatIs ==
    ASSUME NEW m \in Nat, NEW n \in Nat, NEW s, NEW t,
           s = [i \in 1 .. m |-> s[i]], t = [i \in 1 .. n |-> t[i]]
    PROVE  /\ Len(s \o t) = m + n /\ DOMAIN (s \o t) = 1 .. m + n
           /\ \A i \in 1 .. m : (s \o t)[i] = s[i]
           /\ \A i \in 1 .. n : (s \o t)[m + i] = t[i]
  <1>1. /\ s \in Seq(Elems(s)) /\ Len(s) = m /\ DOMAIN s = 1 .. m
        /\ t \in Seq(Elems(t)) /\ Len(t) = n /\ DOMAIN t = 1 .. n
    BY ListByElems
  <1> DEFINE S == Elems(s) \cup Elems(t)
  <1>2. s \in Seq(S) /\ t \in Seq(S)
    <2>1. s \in [1 .. m -> S] /\ t \in [1 .. n -> S]
      BY <1>1 DEF Elems
    <2>2. s \in Seq(S)
      BY <2>1, SeqDef
    <2>3. t \in Seq(S)
      BY <2>1, SeqDef
    <2> QED
      BY <2>2, <2>3
  <1> HIDE DEF S
  <1>3. /\ s \o t \in Seq(S) /\ Len(s \o t) = m + n
        /\ \A i \in 1 .. m + n : (s \o t)[i] = IF i <= m THEN s[i] ELSE t[i - m]
    <2>1. /\ s \o t \in Seq(S) /\ Len(s \o t) = Len(s) + Len(t)
          /\ \A i \in 1 .. Len(s) + Len(t) :
               (s \o t)[i] = IF i <= Len(s) THEN s[i] ELSE t[i - Len(s)]
      BY <1>2, ConcatProperties
    <2>2. Len(s) = m /\ Len(t) = n
      BY <1>1
    <2> QED
      BY <2>1, <2>2
  <1>4. DOMAIN (s \o t) = 1 .. m + n
    BY <1>3, LenProperties
  <1>5. \A i \in 1 .. m : i \in 1 .. m + n /\ i <= m
    OBVIOUS
  <1>6. \A i \in 1 .. n : m + i \in 1 .. m + n /\ ~ (m + i <= m) /\ (m + i) - m = i
    OBVIOUS
  <1> QED
    BY <1>3, <1>4, <1>5, <1>6

\* The servers that are on, as a list and as a set.
LEMMA EnabledAre ==
    ASSUME IInv, NEW on, on = EnabledServers(cfg)
    PROVE  /\ Len(on) \in Nat /\ DOMAIN on = 1 .. Len(on)
           /\ on = [i \in 1 .. Len(on) |-> on[i]]
           /\ Enabled = {on[i] : i \in 1 .. Len(on)}
           /\ Enabled = {servers[i] : i \in SwitchedOn(servers)}
           /\ Len(on) = 0 <=> Enabled = {}
           /\ \A i, j \in 1 .. Len(on) : on[i].id = on[j].id => i = j
  <1> DEFINE P == SwitchedOn(servers)
  <1>1. P \subseteq 1 .. Len(servers) /\ Len(servers) \in Nat /\ on = Kept(servers, P)
    BY ServersAre DEF SwitchedOn, EnabledServers, cfg
  <1> HIDE DEF P
  <1>2. PICK at : KeepsAt(servers, P, at)
    BY <1>1, KeptIs
  <1>3. /\ Len(on) \in Nat /\ DOMAIN on = 1 .. Len(on)
        /\ on = [i \in 1 .. Len(on) |-> on[i]]
        /\ \A i \in 1 .. Len(on) : on[i] = servers[at[i]] /\ at[i] \in 1 .. Len(servers)
        /\ \A i, j \in 1 .. Len(on) : i < j => at[i] < at[j]
    BY <1>1, <1>2 DEF KeepsAt
  <1>4. Enabled = {on[i] : i \in 1 .. Len(on)}
    BY <1>3 DEF Enabled, Elems
  <1>5. Enabled = {servers[i] : i \in P}
    BY <1>1, KeptElems DEF Enabled
  <1>6. Len(on) = 0 <=> Enabled = {}
    <2>1. ASSUME Len(on) # 0
          PROVE  Enabled # {}
      <3>1. 1 \in 1 .. Len(on)
        BY <1>3, <2>1
      <3> QED
        BY <1>4, <3>1
    <2>2. ASSUME Len(on) = 0
          PROVE  Enabled = {}
      <3>1. 1 .. Len(on) = {}
        BY <2>2
      <3> QED
        BY <1>4, <3>1
    <2> QED
      BY <2>1, <2>2
  <1>7. ASSUME NEW i \in 1 .. Len(on), NEW j \in 1 .. Len(on), on[i].id = on[j].id
        PROVE  i = j
    <2>1. at[i] = at[j]
      BY <1>3, <1>7, ServersAre
    <2>2. i \in Nat /\ j \in Nat /\ at[i] \in Nat /\ ~ (at[i] < at[j]) /\ ~ (at[j] < at[i])
      BY <1>3, <2>1
    <2>3. ~ (i < j) /\ ~ (j < i)
      BY <1>3, <2>2
    <2> QED
      BY <2>2, <2>3
  <1> QED
    BY <1>3, <1>4, <1>5, <1>6, <1>7 DEF P

\* The rules that are on.
LEMMA ActiveAre ==
    ASSUME IInv, NEW on, on = EnabledRules(cfg)
    PROVE  /\ Len(on) \in Nat /\ DOMAIN on = 1 .. Len(on)
           /\ on = [i \in 1 .. Len(on) |-> on[i]]
           /\ Active = {on[i] : i \in 1 .. Len(on)}
           /\ Active \subseteq RoutingRule
  <1> DEFINE P == SwitchedOn(rules)
  <1>1. /\ P \subseteq 1 .. Len(rules) /\ Len(rules) \in Nat /\ on = Kept(rules, P)
        /\ \A i \in 1 .. Len(rules) : rules[i] \in RoutingRule
    BY ListHas DEF IInv, TypeOK, SwitchedOn, EnabledRules, cfg
  <1> HIDE DEF P
  <1>2. PICK at : KeepsAt(rules, P, at)
    BY <1>1, KeptIs
  <1>3. /\ Len(on) \in Nat /\ DOMAIN on = 1 .. Len(on)
        /\ on = [i \in 1 .. Len(on) |-> on[i]]
        /\ \A i \in 1 .. Len(on) : on[i] = rules[at[i]] /\ at[i] \in 1 .. Len(rules)
    BY <1>1, <1>2 DEF KeepsAt
  <1>4. Active = {on[i] : i \in 1 .. Len(on)}
    BY <1>3 DEF Active, Elems
  <1> QED
    BY <1>1, <1>3, <1>4

\* There is a balancer exactly if a server is on.
LEMMA BalancerIs ==
    ASSUME IInv
    PROVE  /\ Selector(cfg) = <<>> <=> Enabled = {}
           /\ Rendered.balancers = <<>> <=> Enabled = {}
  <1>1. PICK on : on = EnabledServers(cfg)
    OBVIOUS
  <1>2. Selector(cfg) = [i \in 1 .. Len(on) |-> on[i].tag] /\ Len(on) \in Nat
    BY <1>1, EnabledAre DEF Selector
  <1>3. Selector(cfg) = <<>> <=> Len(on) = 0
    <2>1. ASSUME Len(on) = 0
          PROVE  Selector(cfg) = <<>>
      BY <1>2, <2>1
    <2>2. ASSUME Selector(cfg) = <<>>
          PROVE  Len(on) = 0
      BY <1>2, <2>2
    <2> QED
      BY <2>1, <2>2
  <1>4. Selector(cfg) = <<>> <=> Enabled = {}
    BY <1>1, <1>3, EnabledAre
  <1>5. Rendered.balancers = Balancers(cfg, PingsOf(metrics))
    BY DEF Rendered, buildXrayConfigWithMetrics
  <1>6. ASSUME NEW x
        PROVE  <<x>> # <<>>
    OBVIOUS
  <1>7. Rendered.balancers = <<>> <=> Selector(cfg) = <<>>
    BY <1>5, <1>6, Zenon DEF Balancers
  <1> QED
    BY <1>4, <1>7

LEMMA TagOfOutbound ==
    ASSUME NEW s
    PROVE  buildOutbound(s).tag = s.tag
  BY DEF buildOutbound, buildVlessOutbound, buildVmessOutbound, buildTrojanOutbound,
         Freedom

\* The proxies come first, in the order of the servers, then two more.
LEMMA OutboundsAre ==
    ASSUME IInv, NEW on, on = EnabledServers(cfg), NEW out, out = Rendered.outbounds
    PROVE  /\ DOMAIN out = 1 .. Len(on) + 2
           /\ \A i \in 1 .. Len(on) : out[i] = buildOutbound(on[i])
           /\ out[Len(on) + 1] = Freedom("direct") /\ out[Len(on) + 2] = Blackhole("block")
  <1> DEFINE n == Len(on)
             s == Proxies(cfg)
             t == <<Freedom("direct"), Blackhole("block")>>
  <1>1. n \in Nat /\ s = [i \in 1 .. n |-> buildOutbound(on[i])]
    BY EnabledAre DEF Proxies
  <1>2. t = [i \in 1 .. 2 |-> t[i]] /\ t[1] = Freedom("direct") /\ t[2] = Blackhole("block")
    OBVIOUS
  <1>3. out = s \o t
    BY DEF Rendered, buildXrayConfigWithMetrics, Outbounds
  <1> HIDE DEF s, t
  <1>4. s = [i \in 1 .. n |-> s[i]]
    BY <1>1
  <1>5. /\ DOMAIN out = 1 .. n + 2 /\ \A i \in 1 .. n : out[i] = s[i]
        /\ \A i \in 1 .. 2 : out[n + i] = t[i]
    BY <1>1, <1>2, <1>3, <1>4, ConcatIs
  <1> QED
    BY <1>1, <1>2, <1>5

LEMMA OutboundTags ==
    ASSUME IInv, NEW out, out = Rendered.outbounds
    PROVE  {out[i].tag : i \in DOMAIN out} = {s.tag : s \in Enabled} \cup {"direct", "block"}
  <1>1. PICK on, n : on = EnabledServers(cfg) /\ n = Len(on)
    OBVIOUS
  <1>2. n \in Nat /\ Enabled = {on[i] : i \in 1 .. n}
    BY <1>1, EnabledAre
  <1>3. DOMAIN out = 1 .. n + 2
    BY <1>1, OutboundsAre
  <1>4. \A i \in 1 .. n : out[i].tag = on[i].tag
    BY <1>1, OutboundsAre, TagOfOutbound
  <1>5. out[n + 1].tag = "direct" /\ out[n + 2].tag = "block"
    BY <1>1, OutboundsAre DEF Freedom, Blackhole
  <1>6. \A i \in 1 .. n + 2 : i \in 1 .. n \/ i = n + 1 \/ i = n + 2
    BY <1>2
  <1>7. /\ n + 1 \in 1 .. n + 2 /\ n + 2 \in 1 .. n + 2
        /\ \A i \in 1 .. n : i \in 1 .. n + 2
    BY <1>2
  <1> QED
    BY <1>2, <1>3, <1>4, <1>5, <1>6, <1>7
-----------------------------------------------------------------------------
(***************************************************************************)
(* Targets of rules.                                                       *)

LEMMA NamesOfTags ==
    ASSUME NEW t \in LinkTexts
    PROVE  /\ OutTag(t) \notin {Blank, "direct", "block", "balanced"}
           /\ \A u \in LinkTexts : OutTag(t) = OutTag(u) => Hash[t] = Hash[u]
  BY TagAssumption, Zenon DEF Blank

LEMMA TargetIs ==
    ASSUME NEW rule
    PROVE  TargetOf(rule) = IF rule.target \in {"balanced", Blank}
                            THEN Balancer ELSE Outbound(rule.target)
  BY Zenon DEF TargetOf, Blank

\* Where the servers that are on come from.
LEMMA EnabledComeFrom ==
    ASSUME IInv, NEW s \in Enabled
    PROVE  /\ DOMAIN s = Fields /\ s.id \in ServerIds
           /\ \E t \in LinkTexts : ComesFrom(s, t, edited)
  <1>1. PICK i \in SwitchedOn(servers) : s = servers[i]
    BY EnabledAre
  <1>2. i \in 1 .. Len(servers) /\ i \in DOMAIN servers
    BY ServersAre DEF SwitchedOn
  <1> QED
    BY <1>1, <1>2, ServersAre DEF IInv, Provenance

\* A server has the tag the parser made up for its link, until it is changed in
\* the edit dialog: then it has none.
LEMMA TagsOfServers ==
    ASSUME IInv, NEW s \in Enabled
    PROVE  /\ s.id \in edited => s.tag = Blank
           /\ s.id \notin edited =>
                \E t \in LinkTexts : s.tag = OutTag(t) /\ s.id = Hash[t]
  <1>1. PICK t \in LinkTexts : ComesFrom(s, t, edited)
    BY EnabledComeFrom
  <1>2. s.id = Hash[t] /\ s.id \in edited => s.tag = Blank
    BY <1>1 DEF ComesFrom
  <1>3. s.id \notin edited => s.tag = ParseVless(t).tag
    BY <1>1, FieldNames DEF ComesFrom
  <1>4. ParseVless(t).tag = OutTag(t) /\ s.id = Hash[t]
    BY <1>1, ParsedIs DEF ComesFrom
  <1> QED
    BY <1>2, <1>3, <1>4

\* No two servers that are on have one tag, apart from those that have none.
LEMMA EnabledTagsDiffer ==
    ASSUME IInv, NEW on, on = EnabledServers(cfg)
    PROVE  \A i, j \in 1 .. Len(on) : on[i].tag = on[j].tag /\ on[i].tag # Blank => i = j
  <1>1. /\ \A i \in 1 .. Len(on) : on[i] \in Enabled
        /\ \A i, j \in 1 .. Len(on) : on[i].id = on[j].id => i = j
    BY EnabledAre
  <1>2. ASSUME NEW i \in 1 .. Len(on), NEW j \in 1 .. Len(on),
               on[i].tag = on[j].tag, on[i].tag # Blank
        PROVE  i = j
    <2>1. PICK t \in LinkTexts : on[i].tag = OutTag(t) /\ on[i].id = Hash[t]
      BY <1>1, <1>2, TagsOfServers
    <2>2. PICK u \in LinkTexts : on[j].tag = OutTag(u) /\ on[j].id = Hash[u]
      BY <1>1, <1>2, TagsOfServers
    <2>3. Hash[t] = Hash[u]
      BY <1>2, <2>1, <2>2, NamesOfTags
    <2> QED
      BY <1>1, <2>1, <2>2, <2>3
  <1> QED
    BY <1>2

LEMMA ResolvesIs ==
    ASSUME IInv, NEW x
    PROVE  /\ Resolves(Rendered, Balancer) <=> Enabled # {}
           /\ Resolves(Rendered, Outbound(x)) <=>
                x \in {s.tag : s \in Enabled} \cup {"direct", "block"}
  <1>1. Outbound(x) # Balancer /\ Outbound(x).tag = x
    BY DEF Outbound, Balancer
  <1>2. Resolves(Rendered, Balancer) <=> Enabled # {}
    BY BalancerIs DEF Resolves
  <1>3. Resolves(Rendered, Outbound(x)) <=>
          x \in {Rendered.outbounds[i].tag : i \in DOMAIN Rendered.outbounds}
    BY <1>1 DEF Resolves
  <1> QED
    BY <1>2, <1>3, OutboundTags

\* What the target of a rule must be for the core to have it.
LEMMA RuleResolves ==
    ASSUME IInv, NEW rule
    PROVE  Resolves(Rendered, TargetOf(rule)) <=>
             \/ rule.target \in {"direct", "block"}
             \/ rule.target \in {"balanced", Blank} /\ Enabled # {}
             \/ \E s \in Enabled \ {s \in Enabled : s.id \in edited} : rule.target = s.tag
  <1> DEFINE name == rule.target
             Whole == Enabled \ {s \in Enabled : s.id \in edited}
  <1>1. \A s \in Whole : s.tag \notin {"direct", "block", "balanced", Blank}
    BY TagsOfServers, NamesOfTags
  <1>2. \A s \in Enabled \ Whole : s.tag = Blank
    BY TagsOfServers
  <1>3. CASE name \in {"balanced", Blank}
    <2>1. TargetOf(rule) = Balancer
      BY <1>3, TargetIs
    <2>2. name \notin {"direct", "block"}
      BY <1>3, Zenon DEF Blank
    <2>3. Resolves(Rendered, TargetOf(rule)) <=> Enabled # {}
      BY <2>1, ResolvesIs
    <2> QED
      BY <1>1, <1>3, <2>2, <2>3
  <1>4. CASE name \notin {"balanced", Blank}
    <2>1. TargetOf(rule) = Outbound(name)
      BY <1>4, TargetIs
    <2>2. Resolves(Rendered, TargetOf(rule)) <=>
            name \in {s.tag : s \in Enabled} \cup {"direct", "block"}
      BY <2>1, ResolvesIs
    <2>3. name \in {s.tag : s \in Enabled} <=> \E s \in Whole : name = s.tag
      BY <1>2, <1>4
    <2> QED
      BY <1>4, <2>2, <2>3
  <1> QED
    BY <1>3, <1>4

\* Whatever servers and rules there are, a rule names something the core has
\* only with the word direct or block, with balanced while a server is on, or
\* with the tag of a server that never went through the edit dialog
\* (buildXrayConfigWithMetrics, handleServerByID).
THEOREM TargetsResolve == Spec => []TargetsThatResolve
  <1>1. ASSUME IInv
        PROVE  TargetsThatResolve
    BY <1>1, RuleResolves, Zenon DEF TargetsThatResolve, Blank
  <1> QED
    BY <1>1, Invariance, PTL
-----------------------------------------------------------------------------
(***************************************************************************)
(* The balancer.                                                           *)

\* A ping that counts.
Good(pings, id) == id \in DOMAIN pings /\ pings[id] > 0 /\ pings[id] < 9000

\* The positions whose ping may count for a tag.
Hits(on, pings, tag) == {i \in DOMAIN on : on[i].tag = tag /\ Good(pings, on[i].id)}

LEMMA MeasuredIs ==
    ASSUME NEW c, NEW pings, NEW on, on = EnabledServers(c)
    PROVE  /\ \A i \in DOMAIN on :
                on[i] \in Measured(c, pings) <=> Good(pings, on[i].id)
           /\ \A s \in Measured(c, pings) : \E i \in DOMAIN on : s = on[i]
           /\ \A tag : tag \in {s.tag : s \in Measured(c, pings)} <=>
                         Hits(on, pings, tag) # {}
  <1>1. \A i \in DOMAIN on : on[i] \in Measured(c, pings) <=> Good(pings, on[i].id)
    BY DEF Measured, Elems, Good
  <1>2. \A s \in Measured(c, pings) : \E i \in DOMAIN on : s = on[i]
    BY DEF Measured, Elems
  <1>3. ASSUME NEW tag
        PROVE  tag \in {s.tag : s \in Measured(c, pings)} <=> Hits(on, pings, tag) # {}
    BY <1>1, <1>2 DEF Hits
  <1> QED
    BY <1>1, <1>2, <1>3

\* Of the servers with one tag the last counts.
LEMMA PingIs ==
    ASSUME NEW c, NEW pings, NEW on, on = EnabledServers(c), NEW tag,
           NEW i, i = LastOf(Hits(on, pings, tag))
    PROVE  PingOfTag(c, pings, tag) = pings[on[i].id]
  <1>1. {j \in DOMAIN on : on[j].tag = tag /\ on[j] \in Measured(c, pings)} =
          Hits(on, pings, tag)
    BY MeasuredIs DEF Hits
  <1> QED
    BY <1>1, Zenon DEF PingOfTag

\* The names balancerStrategy returns.
LEMMA StrategyIs ==
    ASSUME NEW name
    PROVE  balancerStrategy(name) \in {"leastPing", "leastLoad", "random", "roundRobin"}
  BY DEF balancerStrategy

\* The balancer goes by the IDs and the tags of the servers that are on and by
\* the algorithm, and by nothing else.
LEMMA SameBalancers ==
    ASSUME NEW c, NEW d, c.algorithm = d.algorithm, NEW pings,
           NEW on, on = EnabledServers(c), NEW to, to = EnabledServers(d),
           NEW n \in Nat, DOMAIN on = 1 .. n, DOMAIN to = 1 .. n,
           \A i \in 1 .. n : to[i].id = on[i].id /\ to[i].tag = on[i].tag
    PROVE  Balancers(d, pings) = Balancers(c, pings)
  <1>1. Selector(d) = Selector(c)
    BY DEF Selector
  <1>2. \A tag : Hits(to, pings, tag) = Hits(on, pings, tag)
    BY DEF Hits
  <1>3. {s.tag : s \in Measured(d, pings)} = {s.tag : s \in Measured(c, pings)}
    <2> DEFINE S == {s.tag : s \in Measured(c, pings)}
               T == {s.tag : s \in Measured(d, pings)}
    <2>1. \A tag : tag \in S <=> Hits(on, pings, tag) # {}
      BY MeasuredIs
    <2>2. \A tag : tag \in T <=> Hits(to, pings, tag) # {}
      BY MeasuredIs
    <2> HIDE DEF S, T
    <2>3. T = S
      BY <1>2, <2>1, <2>2
    <2> QED
      BY <2>3 DEF S, T
  <1>4. ASSUME NEW tag \in {s.tag : s \in Measured(c, pings)}
        PROVE  PingOfTag(d, pings, tag) = PingOfTag(c, pings, tag)
    <2>1. PICK hits : hits = Hits(on, pings, tag)
      OBVIOUS
    <2>2. hits # {} /\ hits \subseteq 1 .. n
      BY <2>1, MeasuredIs DEF Hits
    <2>3. PICK i : i = LastOf(hits) /\ i \in 1 .. n
      BY <2>2, LastIs
    <2>4. PingOfTag(c, pings, tag) = pings[on[i].id]
      BY <2>1, <2>3, PingIs
    <2>5. i = LastOf(Hits(to, pings, tag))
      BY <1>2, <2>1, <2>3
    <2>6. PingOfTag(d, pings, tag) = pings[to[i].id]
      BY <2>5, PingIs
    <2>7. to[i].id = on[i].id
      BY <2>3
    <2> QED
      BY <2>4, <2>6, <2>7
  <1>5. WeightByPing(d, pings) = WeightByPing(c, pings)
    BY <1>1, <1>3, <1>4 DEF WeightByPing
  <1>6. Measured(d, pings) = {} <=> Measured(c, pings) = {}
    <2>1. \A S : {s.tag : s \in S} = {} <=> S = {}
      OBVIOUS
    <2> QED
      BY <1>3, <2>1
  <1>7. Strategy(d, pings) = Strategy(c, pings)
    <2>1. PICK type : type = balancerStrategy(c.algorithm) /\ type # "weighted"
      BY StrategyIs
    <2>2. type = balancerStrategy(d.algorithm)
      BY <2>1
    <2> QED
      BY <1>5, <1>6, <2>1, <2>2 DEF Strategy
  <1> QED
    BY <1>1, <1>7 DEF Balancers

\* The list with another weight for everybody: the same servers are on.
Reweighted(w) == [i \in DOMAIN servers |-> [servers[i] EXCEPT !.weight = w]]

LEMMA ReweightedIs ==
    ASSUME IInv, NEW w \in Nat, NEW t, t = Reweighted(w),
           NEW on, on = Kept(servers, SwitchedOn(servers)),
           NEW to, to = Kept(t, SwitchedOn(t))
    PROVE  \E n \in Nat :
             /\ DOMAIN on = 1 .. n /\ DOMAIN to = 1 .. n
             /\ \A i \in 1 .. n : to[i].id = on[i].id /\ to[i].tag = on[i].tag
  <1>1. PICK m : m = Len(servers) /\ m \in Nat /\ DOMAIN servers = 1 .. m
    BY ServersAre
  <1>2. t = [i \in 1 .. m |-> t[i]] /\ DOMAIN t = 1 .. m
    BY <1>1 DEF Reweighted
  <1>3. Len(t) = m
    BY <1>1, <1>2, ListByElems
  <1>4. \A i \in 1 .. m : /\ t[i].id = servers[i].id /\ t[i].tag = servers[i].tag
                          /\ t[i].enabled = servers[i].enabled
    BY <1>1, ServersAre, FieldNames DEF Reweighted
  <1>5. PICK P : P = SwitchedOn(servers) /\ P = SwitchedOn(t) /\ P \subseteq 1 .. m
    <2>1. SwitchedOn(servers) = {i \in 1 .. m : servers[i].enabled}
      BY <1>1 DEF SwitchedOn
    <2>2. SwitchedOn(t) = {i \in 1 .. m : t[i].enabled}
      BY <1>2 DEF SwitchedOn
    <2>3. SwitchedOn(t) = SwitchedOn(servers)
      BY <1>4, <2>1, <2>2
    <2> QED
      BY <2>1, <2>3
  <1>6. PICK at : at = Positions(P, m)
    OBVIOUS
  <1>7. KeepsAt(servers, P, at)
    BY <1>1, <1>5, <1>6, KeptIs
  <1>8. KeepsAt(t, P, at)
    BY <1>1, <1>3, <1>5, <1>6, KeptIs
  <1>9. /\ Len(at) \in Nat /\ DOMAIN on = 1 .. Len(at) /\ DOMAIN to = 1 .. Len(at)
        /\ \A i \in 1 .. Len(at) : on[i] = servers[at[i]] /\ to[i] = t[at[i]] /\ at[i] \in 1 .. m
    BY <1>5, <1>7, <1>8 DEF KeepsAt
  <1>10. ASSUME NEW i \in 1 .. Len(at)
         PROVE  to[i].id = on[i].id /\ to[i].tag = on[i].tag
    <2>1. PICK j \in 1 .. m : j = at[i] /\ on[i] = servers[j] /\ to[i] = t[j]
      BY <1>9
    <2> QED
      BY <1>4, <2>1
  <1> QED
    BY <1>9, <1>10

\* The configurations to compare.
Under(name) == [cfg EXCEPT !.algorithm = name]

UnderWith(name, w) == [Under(name) EXCEPT !.servers = Reweighted(w)]

\* For any lists, weights, measurements and algorithm, the weights set by a
\* user do not show in the balancer (balancerStrategy, buildBalancer).
THEOREM WeightsUnused == Spec => []UserWeightsUnused
  <1>1. ASSUME IInv, NEW w \in Weights, NEW name \in AlgorithmNames
        PROVE  Balancers(UnderWith(name, w), PingsOf(metrics)) =
                 Balancers(Under(name), PingsOf(metrics))
    <2>1. PICK c, d, t : c = Under(name) /\ d = UnderWith(name, w) /\ t = Reweighted(w)
      OBVIOUS
    <2>2. c.servers = servers /\ d.servers = t /\ c.algorithm = d.algorithm
      BY <2>1 DEF Under, UnderWith, cfg
    <2>3. PICK on, to : on = EnabledServers(c) /\ to = EnabledServers(d)
      OBVIOUS
    <2>4. /\ on = Kept(servers, SwitchedOn(servers)) /\ to = Kept(t, SwitchedOn(t))
          /\ w \in Nat
      BY <2>2, <2>3, PanelAssumption DEF EnabledServers
    <2>5. \E n \in Nat :
             /\ DOMAIN on = 1 .. n /\ DOMAIN to = 1 .. n
             /\ \A i \in 1 .. n : to[i].id = on[i].id /\ to[i].tag = on[i].tag
      BY <1>1, <2>1, <2>4, ReweightedIs
    <2>6. Balancers(d, PingsOf(metrics)) = Balancers(c, PingsOf(metrics))
      BY <2>2, <2>3, <2>5, SameBalancers
    <2> QED
      BY <2>1, <2>6
  <1>2. ASSUME IInv
        PROVE  UserWeightsUnused
    BY <1>1, <1>2, Zenon DEF UserWeightsUnused, Under, UnderWith, Reweighted
  <1> QED
    BY <1>2, Invariance, PTL
-----------------------------------------------------------------------------
(***************************************************************************)
(* The order of the rules.                                                 *)

\* The rules of the user from the last to the first, then the catch-all.
LEMMA RulesAre ==
    ASSUME IInv, NEW list, list = EnabledRules(cfg), NEW n, n = Len(list),
           NEW all, all = Rendered.rules
    PROVE  /\ n \in Nat
           /\ \A i \in 1 .. n : all[i] = RenderedRule(list[n + 1 - i])
           /\ Enabled = {} => DOMAIN all = 1 .. n
           /\ Enabled # {} => DOMAIN all = 1 .. n + 1 /\ all[n + 1] = CatchAll
  <1>1. n \in Nat /\ DOMAIN list = 1 .. n
    BY ActiveAre
  <1>2. PICK s : s = CustomRules(cfg)
    OBVIOUS
  <1>3. s = [i \in 1 .. n |-> RenderedRule(list[i])]
    BY <1>1, <1>2 DEF CustomRules
  <1>4. Len(s) = n /\ DOMAIN s = 1 .. n
    <2>1. s = [i \in 1 .. n |-> s[i]]
      BY <1>3
    <2> QED
      BY <1>1, <2>1, ListByElems
  <1>5. PICK b : b = Backwards(s)
    OBVIOUS
  <1>6. b = [i \in 1 .. n |-> s[n + 1 - i]]
    BY <1>4, <1>5 DEF Backwards
  <1>7. b = [i \in 1 .. n |-> b[i]]
    BY <1>6
  <1>8. \A i \in 1 .. n : b[i] = RenderedRule(list[n + 1 - i])
    <2>1. \A i \in 1 .. n : n + 1 - i \in 1 .. n
      BY <1>1
    <2> QED
      BY <1>3, <1>6, <2>1
  <1>9. all = b \o (IF Selector(cfg) = <<>> THEN <<>> ELSE <<CatchAll>>)
    BY <1>2, <1>5 DEF Rendered, buildXrayConfigWithMetrics, Rules
  <1>10. CASE Enabled = {}
    <2>1. all = b \o <<>>
      BY <1>9, <1>10, BalancerIs
    <2>2. PICK e : e = <<>> /\ e = [i \in 1 .. 0 |-> e[i]]
      OBVIOUS
    <2>3. DOMAIN all = 1 .. n + 0 /\ \A i \in 1 .. n : all[i] = b[i]
      BY <1>1, <1>7, <2>1, <2>2, ConcatIs
    <2> QED
      BY <1>1, <1>8, <1>10, <2>3
  <1>11. CASE Enabled # {}
    <2>1. PICK e : e = <<CatchAll>> /\ e = [i \in 1 .. 1 |-> e[i]] /\ e[1] = CatchAll
      <3>1. \A x : <<x>> = [i \in 1 .. 1 |-> <<x>>[i]] /\ <<x>>[1] = x
        OBVIOUS
      <3> QED
        BY <3>1, Zenon
    <2>2. all = b \o e
      BY <1>9, <1>11, <2>1, BalancerIs
    <2>3. /\ DOMAIN all = 1 .. n + 1 /\ \A i \in 1 .. n : all[i] = b[i]
          /\ \A i \in 1 .. 1 : all[n + i] = e[i]
      BY <1>1, <1>7, <2>1, <2>2, ConcatIs
    <2> QED
      BY <1>1, <1>8, <1>11, <2>1, <2>3
  <1> QED
    BY <1>10, <1>11

LEMMA CatchAllMatches ==
    ASSUME NEW c
    PROVE  Matches(CatchAll, c) /\ CatchAll.to = Balancer
  BY Zenon DEF Matches, CatchAll

\* The positions of the rules that match a connection.
Applying(list, c) == {i \in DOMAIN list : Matches(RenderedRule(list[i]), c)}

\* The first rule that matches is the last of the list that does.
LEMMA RouteIs ==
    ASSUME IInv, NEW c, NEW list, list = EnabledRules(cfg),
           NEW applies, applies = Applying(list, c)
    PROVE  RouteOf(Rendered, c) =
             IF applies # {} THEN TargetOf(list[LastOf(applies)])
             ELSE IF Enabled # {} THEN Balancer ELSE Outbound("direct")
  <1> DEFINE n        == Len(list)
             all      == Rendered.rules
             matching == {i \in DOMAIN all : Matches(all[i], c)}
  <1>1. /\ n \in Nat /\ DOMAIN list = 1 .. n
        /\ \A i \in 1 .. n : all[i] = RenderedRule(list[n + 1 - i])
        /\ Enabled = {} => DOMAIN all = 1 .. n
        /\ Enabled # {} => DOMAIN all = 1 .. n + 1 /\ all[n + 1] = CatchAll
    BY RulesAre, ActiveAre
  <1>2. RouteOf(Rendered, c) = IF matching = {}
                               THEN Outbound(Rendered.outbounds[1].tag)
                               ELSE all[FirstOf(matching)].to
    BY DEF RouteOf
  <1>3. \A rule : RenderedRule(rule).to = TargetOf(rule)
    BY DEF RenderedRule
  <1> HIDE DEF n, all
  <1>4. \A i \in 1 .. n : n + 1 - i \in 1 .. n /\ n + 1 - (n + 1 - i) = i
    BY <1>1
  <1>5. \A i \in 1 .. n : i \in DOMAIN all
    BY <1>1
  <1>6. \A i \in 1 .. n : i \in matching <=> n + 1 - i \in applies
    BY <1>1, <1>4, <1>5 DEF Applying
  <1>7. matching \subseteq Nat /\ applies \subseteq 1 .. n
    BY <1>1 DEF Applying
  <1>8. n + 1 \in matching <=> Enabled # {}
    <2>1. n + 1 \notin 1 .. n /\ n + 1 \in 1 .. n + 1
      BY <1>1
    <2> QED
      BY <1>1, <2>1, CatchAllMatches
  <1>9. \A i \in matching : i \in 1 .. n \/ i = n + 1
    BY <1>1
  <1> HIDE DEF matching
  <1>10. CASE applies # {}
    <2>1. PICK k \in applies : k = LastOf(applies) /\ \A j \in applies : j <= k
      BY <1>1, <1>7, <1>10, LastIs
    <2>2. k \in 1 .. n /\ n + 1 - k \in matching
      BY <1>4, <1>6, <1>7
    <2>3. PICK i \in matching : i = FirstOf(matching) /\ \A j \in matching : i <= j
      BY <1>7, <2>2, FirstIs
    <2>4. i \in 1 .. n /\ n + 1 - i \in applies
      BY <1>1, <1>6, <1>9, <2>2, <2>3
    <2>5. i = n + 1 - k
      <3>1. i <= n + 1 - k /\ n + 1 - i <= k
        BY <2>1, <2>2, <2>3, <2>4
      <3> QED
        BY <1>1, <2>2, <2>4, <3>1
    <2>6. all[i].to = TargetOf(list[k])
      BY <1>1, <1>3, <1>4, <2>2, <2>4, <2>5
    <2> QED
      BY <1>2, <1>10, <2>1, <2>2, <2>3, <2>6
  <1>11. CASE applies = {} /\ Enabled # {}
    <2>1. matching = {n + 1}
      BY <1>6, <1>8, <1>9, <1>11
    <2>2. FirstOf(matching) = n + 1
      BY <1>7, <2>1, FirstIs
    <2>3. all[n + 1].to = Balancer
      BY <1>1, <1>11, CatchAllMatches
    <2> QED
      BY <1>2, <1>11, <2>1, <2>2, <2>3
  <1>12. CASE applies = {} /\ Enabled = {}
    <2>1. matching = {}
      BY <1>6, <1>8, <1>9, <1>12
    <2>2. Len(EnabledServers(cfg)) = 0
      BY <1>12, EnabledAre
    <2>3. Rendered.outbounds[1] = Freedom("direct")
      BY <2>2, OutboundsAre
    <2>4. Freedom("direct").tag = "direct"
      BY DEF Freedom
    <2> QED
      BY <1>2, <1>12, <2>1, <2>3, <2>4
  <1> QED
    BY <1>10, <1>11, <1>12

\* Whatever rules there are, the rule added last decides for any connection, and
\* not the first of the list as the panel shows it (buildXrayConfigWithMetrics).
THEOREM LastRuleWins == Spec => []LaterRulesWin
  <1>1. ASSUME IInv, NEW c
        PROVE  RouteOf(Rendered, c) =
                 IF Applying(EnabledRules(cfg), c) # {}
                 THEN TargetOf(EnabledRules(cfg)[LastOf(Applying(EnabledRules(cfg), c))])
                 ELSE IF Enabled # {} THEN Balancer ELSE Outbound("direct")
    BY <1>1, RouteIs
  <1>2. ASSUME IInv
        PROVE  LaterRulesWin
    BY <1>1, <1>2, Zenon DEF LaterRulesWin, Applying
  <1> QED
    BY <1>2, Invariance, PTL
-----------------------------------------------------------------------------
(***************************************************************************)
(* The selection algorithms.                                               *)

\* Arithmetic the provers do not find by themselves.
LEMMA TimesIsMonotonic ==
    ASSUME NEW a \in Nat, NEW b \in Nat, NEW c \in Nat, a <= b
    PROVE  a * c <= b * c /\ a * c \in Nat /\ b * c \in Nat
  <1>1. b - a \in Nat /\ b = a + (b - a)
    OBVIOUS
  <1>2. b * c = a * c + (b - a) * c
    BY <1>1
  <1>3. (b - a) * c \in Nat /\ a * c \in Nat
    BY <1>1
  <1> QED
    BY <1>2, <1>3

LEMMA TimesIsNat ==
    ASSUME NEW a \in Nat, NEW b \in Nat
    PROVE  a * b \in Nat
  OBVIOUS

LEMMA Remainder ==
    ASSUME NEW a \in Nat, NEW b \in Nat \ {0}
    PROVE  a % b \in 0 .. b - 1
  OBVIOUS

\* The servers that are left, as a list and as a set.
LEMMA LeftAre ==
    ASSUME IInv, NEW list, list = filterOnline(servers, metrics)
    PROVE  /\ Len(list) \in Nat /\ DOMAIN list = 1 .. Len(list)
           /\ list = <<>> <=> Len(list) = 0
           /\ Usable(servers, metrics) = {list[i] : i \in 1 .. Len(list)}
           /\ \A i \in 1 .. Len(list) : list[i].weight \in Nat
           /\ \A i, j \in 1 .. Len(list) : list[i].id = list[j].id => i = j
  <1> DEFINE P == {i \in DOMAIN servers : /\ servers[i].enabled
                                          /\ ~ IsOffline(metrics, servers[i].id)}
  <1>1. /\ DOMAIN servers = 1 .. Len(servers) /\ Len(servers) \in Nat
        /\ P \subseteq 1 .. Len(servers) /\ list = Kept(servers, P)
    BY ServersAre DEF filterOnline
  <1>2. Usable(servers, metrics) = {servers[i] : i \in P}
    BY DEF Usable, Elems
  <1> HIDE DEF P
  <1>3. PICK at : KeepsAt(servers, P, at)
    BY <1>1, KeptIs
  <1>4. /\ Len(list) \in Nat /\ DOMAIN list = 1 .. Len(list)
        /\ \A i \in 1 .. Len(list) : list[i] = servers[at[i]] /\ at[i] \in P
        /\ \A i, j \in 1 .. Len(list) : i < j => at[i] < at[j]
        /\ \A p \in P : \E i \in 1 .. Len(list) : at[i] = p
        /\ Kept(servers, P) = [k \in 1 .. Len(list) |-> servers[at[k]]]
    BY <1>1, <1>3 DEF KeepsAt
  <1>5. list = <<>> <=> Len(list) = 0
    <2>1. ASSUME Len(list) = 0
          PROVE  list = <<>>
      BY <1>1, <1>4, <2>1
    <2> QED
      BY <2>1
  <1>6. Usable(servers, metrics) = {list[i] : i \in 1 .. Len(list)}
    BY <1>2, <1>4
  <1>7. \A i \in 1 .. Len(list) : at[i] \in 1 .. Len(servers)
    BY <1>1, <1>4
  <1>8. \A i \in 1 .. Len(list) : list[i].weight \in Nat
    BY <1>4, <1>7, ServersAre
  <1>9. ASSUME NEW i \in 1 .. Len(list), NEW j \in 1 .. Len(list), list[i].id = list[j].id
        PROVE  i = j
    <2>1. at[i] = at[j]
      BY <1>4, <1>7, <1>9, ServersAre
    <2>2. i \in Nat /\ j \in Nat /\ at[i] \in Nat /\ ~ (at[i] < at[j]) /\ ~ (at[j] < at[i])
      BY <1>4, <1>7, <2>1
    <2>3. ~ (i < j) /\ ~ (j < i)
      BY <1>4, <2>2
    <2> QED
      BY <2>2, <2>3
  <1> QED
    BY <1>4, <1>5, <1>6, <1>8, <1>9

\* The sums of the first weights.
LEMMA SumsAre ==
    ASSUME NEW list, NEW n \in Nat, n = Len(list), \A i \in 1 .. n : list[i].weight \in Nat
    PROVE  /\ WeightUpTo(list)[0] = 0
           /\ \A i \in 1 .. n : /\ UserWeight(list[i]) \in Nat \ {0}
                                /\ WeightUpTo(list)[i] =
                                     WeightUpTo(list)[i - 1] + UserWeight(list[i])
           /\ \A i \in 0 .. n : WeightUpTo(list)[i] \in Nat
  <1>1. \A i \in 1 .. n : UserWeight(list[i]) \in Nat \ {0}
    BY DEF UserWeight
  <1> DEFINE Loop(f) == [i \in 0 .. Len(list) |->
                           IF i = 0 THEN 0 ELSE f[i - 1] + UserWeight(list[i])]
             step == [a \in Nat \X Nat |->
                        a[2] + (IF a[1] \in 1 .. n THEN UserWeight(list[a[1]]) ELSE 0)]
  <1>2. step \in [Nat \X Nat -> Nat]
    BY <1>1
  <1>3. \A i \in 1 .. n, x \in Nat : step[<<i, x>>] = x + UserWeight(list[i])
    OBVIOUS
  <1> HIDE DEF step
  <1>4. PICK f : /\ f \in [0 .. n -> Nat] /\ f[0] = 0
                 /\ \A i \in 1 .. n : f[i] = step[<<i, f[i - 1]>>]
    <2>1. \E f : f \in [0 .. n -> Nat] /\ Runs(f, n, 0, step)
      BY <1>2, Recursion
    <2> QED
      BY <2>1 DEF Runs
  <1>5. ASSUME NEW i \in 0 .. n
        PROVE  f[i] = Loop(f)[i]
    <2>1. CASE i = 0
      BY <1>4, <2>1
    <2>2. CASE i # 0
      <3>1. i \in 1 .. n /\ i - 1 \in 0 .. n
        BY <2>2
      <3>2. f[i - 1] \in Nat
        BY <1>4, <3>1
      <3>3. f[i] = f[i - 1] + UserWeight(list[i])
        BY <1>3, <1>4, <3>1, <3>2
      <3> QED
        BY <2>2, <3>3
    <2> QED
      BY <2>1, <2>2
  <1>6. f = Loop(f)
    BY <1>4, <1>5
  <1>7. PICK g : g = Loop(g) /\ WeightUpTo(list) = g
    BY <1>6, Zenon DEF WeightUpTo
  <1>8. g[0] = 0
    BY <1>7
  <1>9. ASSUME NEW i \in 1 .. n
        PROVE  g[i] = g[i - 1] + UserWeight(list[i])
    <2>1. i \in 0 .. n /\ i # 0
      OBVIOUS
    <2>2. g[i] = Loop(g)[i]
      BY <1>7
    <2> QED
      BY <2>1, <2>2
  <1> DEFINE S == {i \in Nat : i <= n => g[i] \in Nat}
  <1>10. 0 \in S
    BY <1>8
  <1>11. ASSUME NEW i \in Nat, i \in S
         PROVE  i + 1 \in S
    <2> SUFFICES ASSUME i + 1 <= n
                 PROVE  g[i + 1] \in Nat
      OBVIOUS
    <2>1. g[i] \in Nat /\ i + 1 \in 1 .. n /\ (i + 1) - 1 = i
      BY <1>11
    <2>2. g[i + 1] = g[i] + UserWeight(list[i + 1])
      BY <1>9, <2>1
    <2> QED
      BY <1>1, <2>1, <2>2
  <1> HIDE DEF S
  <1>12. \A i \in Nat : i \in S
    BY <1>10, <1>11, Induction
  <1>13. \A i \in 0 .. n : g[i] \in Nat
    BY <1>12 DEF S
  <1> QED
    BY <1>1, <1>7, <1>8, <1>9, <1>13

LEMMA LeastIs ==
    ASSUME NEW n \in Nat \ {0}, NEW list, DOMAIN list = 1 .. n,
           NEW key, \A i \in 1 .. n : key[i] \in Nat
    PROVE  Least(list, key) \subseteq {list[i] : i \in 1 .. n} /\ Least(list, key) # {}
  <1>1. PICK i \in 1 .. n : \A j \in 1 .. n : key[i] <= key[j]
    BY LeastOfMany
  <1>2. list[i] \in Least(list, key)
    BY <1>1 DEF Least
  <1> QED
    BY <1>2 DEF Least

\* Every algorithm chooses from what is left, and always chooses.
LEMMA PickIs ==
    ASSUME IInv, NEW list, list = filterOnline(servers, metrics), list # <<>>,
           NEW name \in AlgorithmNames, NEW counter \in Nat
    PROVE  /\ Pick(name, servers, metrics, counter) \subseteq {list[i] : i \in 1 .. Len(list)}
           /\ Pick(name, servers, metrics, counter) # {}
  <1> DEFINE S == {list[i] : i \in 1 .. Len(list)}
             Chooses(T) == T \subseteq S /\ T # {}
  <1>1. PICK n : n = Len(list) /\ n \in Nat \ {0} /\ DOMAIN list = 1 .. n
    BY LeftAre
  <1>2. \A i \in 1 .. n : Chooses({list[i]})
    BY <1>1
  <1>3. \A id : Known(metrics, id) =>
          /\ metrics[id].ping \in Nat /\ metrics[id].speed \in Nat
          /\ metrics[id].conns \in Nat
    BY DEF Known, IInv, TypeOK, Metric
  <1>4. Chooses(latencyBased(list, metrics))
    <2>1. PICK key : key = [i \in DOMAIN list |->
                              IF Known(metrics, list[i].id) /\ metrics[list[i].id].ping > 0
                              THEN metrics[list[i].id].ping
                              ELSE 999]
      OBVIOUS
    <2>2. \A i \in 1 .. n : key[i] \in Nat
      BY <1>1, <1>3, <2>1
    <2>3. latencyBased(list, metrics) = Least(list, key)
      BY <2>1, Zenon DEF latencyBased
    <2> QED
      BY <1>1, <2>2, <2>3, LeastIs
  <1>5. Chooses(leastConnections(list, metrics))
    <2>1. PICK key : key = [i \in DOMAIN list |->
                              IF Known(metrics, list[i].id)
                              THEN metrics[list[i].id].conns ELSE 0]
      OBVIOUS
    <2>2. \A i \in 1 .. n : key[i] \in Nat
      BY <1>1, <1>3, <2>1
    <2>3. leastConnections(list, metrics) = Least(list, key)
      BY <2>1, Zenon DEF leastConnections
    <2> QED
      BY <1>1, <2>2, <2>3, LeastIs
  <1>6. Chooses(speedBased(list, metrics))
    <2> DEFINE speed(s) == IF Known(metrics, s.id) THEN metrics[s.id].speed ELSE 0
    <2>1. PICK f : f = [i \in 1 .. n |-> speed(list[i])]
      OBVIOUS
    <2>2. \A i \in 1 .. n : f[i] \in Nat /\ f[i] = speed(list[i])
      BY <1>1, <1>3, <2>1
    <2>3. PICK i \in 1 .. n : \A j \in 1 .. n : f[j] <= f[i]
      BY <1>1, <2>2, GreatestOfMany
    <2>4. \A j \in 1 .. n : speed(list[i]) >= speed(list[j])
      BY <2>2, <2>3
    <2>5. list[i] \in speedBased(list, metrics)
      BY <1>1, <2>4 DEF speedBased
    <2>6. speedBased(list, metrics) \subseteq S
      BY <1>1 DEF speedBased
    <2> QED
      BY <2>5, <2>6
  <1>7. Chooses(roundRobin(list, counter)) /\ Chooses(randomPick(list, counter))
    <2>1. (counter % n) + 1 \in 1 .. n
      <3>1. counter % n \in 0 .. n - 1
        BY <1>1, Remainder
      <3> QED
        BY <1>1, <3>1
    <2> QED
      BY <1>1, <1>2, <2>1 DEF roundRobin, randomPick
  <1>8. Chooses(weightedRoundRobin(list, counter))
    <2>1. PICK upTo, total, p : /\ upTo = WeightUpTo(list) /\ total = upTo[n]
                                /\ p = counter % Slots
      OBVIOUS
    <2>2. total \in Nat
      BY <1>1, <2>1, SumsAre, LeftAre
    <2>3. p \in Nat /\ Slots \in Nat /\ p <= Slots
      BY <2>1, Remainder, SelectionAssumption
    <2>4. p * total <= total * Slots
      <3>1. p * total <= Slots * total
        BY <2>2, <2>3, TimesIsMonotonic
      <3>2. Slots * total = total * Slots
        BY <2>2, <2>3
      <3> QED
        BY <3>1, <3>2
    <2>5. PICK reached : reached = {i \in DOMAIN list : p * total <= upTo[i] * Slots}
      OBVIOUS
    <2>6. n \in reached /\ reached \subseteq 1 .. n
      BY <1>1, <2>1, <2>4, <2>5
    <2>7. FirstOf(reached) \in 1 .. n
      <3>1. reached \subseteq Nat /\ reached # {}
        BY <2>6
      <3>2. FirstOf(reached) \in reached
        BY <3>1, FirstIs
      <3> QED
        BY <2>6, <3>2
    <2>8. weightedRoundRobin(list, counter) = {list[FirstOf(reached)]}
      BY <1>1, <2>1, <2>5, Zenon DEF weightedRoundRobin
    <2> QED
      BY <1>2, <2>7, <2>8
  <1> HIDE DEF Chooses
  <1>9. Chooses(Pick(name, servers, metrics, counter))
    BY <1>4, <1>5, <1>6, <1>7, <1>8 DEF Pick
  <1> QED
    BY <1>9 DEF Chooses

\* Whatever is measured and however many servers there are, every algorithm
\* returns a server that is on and not known to be offline, if there is one
\* (Pick, filterOnline).
THEOREM PicksAreUsable == Spec => []PickIsUsable
  <1>1. ASSUME IInv, NEW name \in AlgorithmNames, NEW counter \in 0 .. Slots
        PROVE  LET chosen == Pick(name, servers, metrics, counter)
               IN  /\ chosen \subseteq Usable(servers, metrics)
                   /\ Usable(servers, metrics) # {} => chosen # {}
    <2>1. PICK list : list = filterOnline(servers, metrics)
      OBVIOUS
    <2>2. Usable(servers, metrics) = {list[i] : i \in 1 .. Len(list)} /\ counter \in Nat
      BY <1>1, <2>1, LeftAre, SelectionAssumption
    <2>3. CASE list = <<>>
      <3>1. Pick(name, servers, metrics, counter) = {}
        BY <2>1, <2>3 DEF Pick
      <3>2. Usable(servers, metrics) = {}
        <4>1. Len(list) = 0
          BY <2>3
        <4> QED
          BY <2>2, <4>1
      <3> QED
        BY <3>1, <3>2
    <2>4. CASE list # <<>>
      BY <1>1, <2>1, <2>2, <2>4, PickIs
    <2> QED
      BY <2>3, <2>4
  <1>2. ASSUME IInv
        PROVE  PickIsUsable
    BY <1>1, <1>2 DEF PickIsUsable, PicksUsable
  <1> QED
    BY <1>2, Invariance, PTL
-----------------------------------------------------------------------------
(***************************************************************************)
(* Pings and weights.                                                      *)

LEMMA QuotientIs ==
    ASSUME NEW a \in Nat, NEW b \in Nat \ {0}
    PROVE  a \div b \in Nat /\ b * (a \div b) <= a /\ a < b * ((a \div b) + 1)
  OBVIOUS

\* Of two divisors the greater gives the lesser quotient.
LEMMA QuotientIsMonotonic ==
    ASSUME NEW n \in Nat, NEW p \in Nat \ {0}, NEW q \in Nat \ {0}, p <= q
    PROVE  n \div q <= n \div p
  <1>1. PICK a, b : a = n \div q /\ b = n \div p
    OBVIOUS
  <1>2. a \in Nat /\ b \in Nat /\ q * a <= n /\ n < p * (b + 1)
    BY <1>1, QuotientIs
  <1>3. ASSUME b + 1 <= a
        PROVE  FALSE
    <2>1. (b + 1) * p <= a * p /\ (b + 1) * p \in Nat /\ a * p \in Nat
      BY <1>2, <1>3, TimesIsMonotonic
    <2>2. p * a <= q * a /\ q * a \in Nat
      BY <1>2, TimesIsMonotonic
    <2>3. (b + 1) * p = p * (b + 1) /\ a * p = p * a
      BY <1>2
    <2> QED
      BY <1>2, <2>1, <2>2, <2>3
  <1>4. a <= b
    BY <1>2, <1>3
  <1> QED
    BY <1>1, <1>4

\* Which pings reach the builder.
LEMMA PingsAre ==
    ASSUME IInv, NEW id
    PROVE  /\ Good(PingsOf(metrics), id) =>
                /\ id \in DOMAIN metrics /\ PingsOf(metrics)[id] = metrics[id].ping
                /\ PingsOf(metrics)[id] \in Nat \ {0}
           /\ id \in DOMAIN metrics /\ metrics[id].ping = 9999 =>
                ~ Good(PingsOf(metrics), id)
  <1>1. \A x \in DOMAIN metrics : metrics[x].ping \in Nat
    BY DEF IInv, TypeOK, Metric
  <1> QED
    BY <1>1 DEF Good, PingsOf

\* What the balancer is told of the server at each position.
Worth(on, pings, i) ==
    IF Hits(on, pings, on[i].tag) # {}
    THEN AtLeastOne((1000 * Unit) \div
                      pings[on[LastOf(Hits(on, pings, on[i].tag))].id])
    ELSE Unit

LEMMA CostsAre ==
    ASSUME IInv, algorithm \in {"latency", "speed"}, NEW pings, pings = PingsOf(metrics),
           Measured(cfg, pings) # {}, NEW on, on = EnabledServers(cfg)
    PROVE  \A i \in 1 .. Len(on) :
             Rendered.balancers[1].strategy.costs[i] = Worth(on, pings, i)
  <1>1. Rendered.balancers = Balancers(cfg, pings)
    BY DEF Rendered, buildXrayConfigWithMetrics
  <1>2. PICK n : n = Len(on) /\ n \in Nat /\ DOMAIN on = 1 .. n
    BY EnabledAre
  <1>3. Selector(cfg) # <<>>
    <2>1. Enabled # {}
      BY DEF Measured, Enabled
    <2> QED
      BY <2>1, BalancerIs
  <1>4. Rendered.balancers[1].strategy = Strategy(cfg, pings)
    BY <1>1, <1>3 DEF Balancers
  <1>5. balancerStrategy(cfg.algorithm) \in {"leastPing", "leastLoad"}
    BY DEF balancerStrategy, cfg
  <1>6. Strategy(cfg, pings).costs = WeightByPing(cfg, pings)
    BY <1>5 DEF Strategy
  <1>7. Selector(cfg) = [i \in 1 .. n |-> on[i].tag]
    BY <1>2 DEF Selector
  <1>8. ASSUME NEW i \in 1 .. n
        PROVE  WeightByPing(cfg, pings)[i] = Worth(on, pings, i)
    <2>1. PICK tag : tag = on[i].tag /\ Selector(cfg)[i] = tag /\ i \in DOMAIN Selector(cfg)
      BY <1>7
    <2>2. tag \in {s.tag : s \in Measured(cfg, pings)} <=> Hits(on, pings, tag) # {}
      BY MeasuredIs
    <2>3. PingOfTag(cfg, pings, tag) = pings[on[LastOf(Hits(on, pings, tag))].id]
      BY PingIs
    <2>4. WeightByPing(cfg, pings)[i] =
            IF tag \in {s.tag : s \in Measured(cfg, pings)}
            THEN AtLeastOne((1000 * Unit) \div PingOfTag(cfg, pings, tag))
            ELSE Unit
      BY <2>1 DEF WeightByPing
    <2> QED
      BY <2>1, <2>2, <2>3, <2>4 DEF Worth
  <1> QED
    BY <1>2, <1>4, <1>6, <1>8

\* What a server is worth that still has its tag: its own ping decides.
LEMMA WorthIs ==
    ASSUME IInv, NEW pings, pings = PingsOf(metrics), NEW on, on = EnabledServers(cfg),
           NEW i \in 1 .. Len(on)
    PROVE  /\ Worth(on, pings, i) \in Nat /\ Worth(on, pings, i) >= Unit
           /\ on[i].id \notin edited /\ Good(pings, on[i].id) =>
                Worth(on, pings, i) = AtLeastOne((1000 * Unit) \div pings[on[i].id])
           /\ on[i].id \notin edited /\ ~ Good(pings, on[i].id) => Worth(on, pings, i) = Unit
  <1>1. PICK n, tag, hits : /\ n = Len(on) /\ n \in Nat /\ DOMAIN on = 1 .. n
                            /\ tag = on[i].tag /\ hits = Hits(on, pings, tag)
    BY EnabledAre
  <1>2. hits = {j \in 1 .. n : on[j].tag = tag /\ Good(pings, on[j].id)}
    BY <1>1 DEF Hits
  <1>3. \A j \in hits : pings[on[j].id] \in Nat \ {0}
    BY <1>2, PingsAre
  <1>4. hits # {} => LastOf(hits) \in hits
    <2>1. hits \subseteq 1 .. n
      BY <1>2
    <2> QED
      BY <1>1, <2>1, LastIs
  <1>5. Worth(on, pings, i) = IF hits # {}
                              THEN AtLeastOne((1000 * Unit) \div pings[on[LastOf(hits)].id])
                              ELSE Unit
    BY <1>1 DEF Worth
  <1>6. 1000 * Unit \in Nat /\ Unit \in Nat
    BY DEF Unit
  <1>7. \A p \in Nat \ {0} : /\ AtLeastOne((1000 * Unit) \div p) \in Nat
                             /\ AtLeastOne((1000 * Unit) \div p) >= Unit
    BY <1>6, QuotientIs DEF AtLeastOne
  <1>8. Worth(on, pings, i) \in Nat /\ Worth(on, pings, i) >= Unit
    <2>1. CASE hits = {}
      BY <1>5, <1>6, <2>1
    <2>2. CASE hits # {}
      <3>1. pings[on[LastOf(hits)].id] \in Nat \ {0}
        BY <1>3, <1>4, <2>2
      <3> QED
        BY <1>5, <1>7, <2>2, <3>1
    <2> QED
      BY <2>1, <2>2
  <1>9. ASSUME on[i].id \notin edited
        PROVE  hits = IF Good(pings, on[i].id) THEN {i} ELSE {}
    <2>1. on[i] \in Enabled
      BY EnabledAre
    <2>2. tag # Blank
      BY <1>1, <1>9, <2>1, TagsOfServers, NamesOfTags
    <2>3. \A j \in 1 .. n : on[j].tag = tag => j = i
      BY <1>1, <2>2, EnabledTagsDiffer
    <2>4. i \in 1 .. n /\ on[i].tag = tag
      BY <1>1
    <2>5. CASE Good(pings, on[i].id)
      BY <1>2, <2>3, <2>4, <2>5
    <2>6. CASE ~ Good(pings, on[i].id)
      BY <1>2, <2>3, <2>4, <2>6
    <2> QED
      BY <2>5, <2>6
  <1>10. ASSUME on[i].id \notin edited, Good(pings, on[i].id)
         PROVE  Worth(on, pings, i) = AtLeastOne((1000 * Unit) \div pings[on[i].id])
    <2>1. hits = {i}
      BY <1>9, <1>10
    <2>2. LastOf(hits) = i
      BY <1>4, <2>1
    <2> QED
      BY <1>5, <2>1, <2>2
  <1>11. ASSUME on[i].id \notin edited, ~ Good(pings, on[i].id)
         PROVE  Worth(on, pings, i) = Unit
    <2>1. hits = {}
      BY <1>9, <1>11
    <2> QED
      BY <1>5, <2>1
  <1> QED
    BY <1>8, <1>10, <1>11

\* For any list and any measurements, the lower the ping the greater the weight
\* among servers that never went through the edit dialog; nobody gets less than
\* 1, and one that failed its check no more than one that answered
\* (buildWeightedRandom).
THEOREM PingDecides == Spec => []PingDecidesWeight
  <1> DEFINE Costs == Rendered.balancers[1].strategy.costs
             On    == EnabledServers(cfg)
             Ps    == PingsOf(metrics)
             good  == {i \in DOMAIN On : On[i] \in Measured(cfg, Ps)}
             bad   == {i \in DOMAIN On : /\ On[i].id \in DOMAIN metrics
                                         /\ metrics[On[i].id].ping = 9999}
             whole == {i \in DOMAIN On : On[i].id \notin edited}
  <1>1. ASSUME IInv, algorithm \in {"latency", "speed"}, Measured(cfg, Ps) # {}
        PROVE  /\ \A i \in DOMAIN On : Costs[i] >= Unit
               /\ \A i, j \in good \cap whole :
                    metrics[On[i].id].ping <= metrics[On[j].id].ping => Costs[i] >= Costs[j]
               /\ \A i \in good, j \in bad \cap whole : Costs[i] >= Costs[j]
    <2>1. PICK on, pings, n : /\ on = On /\ pings = Ps /\ n = Len(on)
                              /\ n \in Nat /\ DOMAIN on = 1 .. n
      BY <1>1, EnabledAre
    <2>2. \A i \in 1 .. n : Costs[i] = Worth(on, pings, i)
      BY <1>1, <2>1, CostsAre
    <2>3. ASSUME NEW i \in 1 .. n
          PROVE  /\ Worth(on, pings, i) \in Nat /\ Worth(on, pings, i) >= Unit
                 /\ on[i].id \notin edited /\ Good(pings, on[i].id) =>
                      Worth(on, pings, i) = AtLeastOne((1000 * Unit) \div pings[on[i].id])
                 /\ on[i].id \notin edited /\ ~ Good(pings, on[i].id) =>
                      Worth(on, pings, i) = Unit
      BY <1>1, <2>1, WorthIs
    <2>4. \A i \in 1 .. n : on[i] \in Measured(cfg, pings) <=> Good(pings, on[i].id)
      BY <2>1, MeasuredIs
    <2>5. \A i \in 1 .. n :
            /\ Good(pings, on[i].id) => /\ pings[on[i].id] = metrics[on[i].id].ping
                                        /\ pings[on[i].id] \in Nat \ {0}
            /\ on[i].id \in DOMAIN metrics /\ metrics[on[i].id].ping = 9999 =>
                 ~ Good(pings, on[i].id)
      BY <1>1, <2>1, PingsAre
    <2>6. ASSUME NEW p \in Nat \ {0}, NEW q \in Nat \ {0}, p <= q
          PROVE  AtLeastOne((1000 * Unit) \div p) >= AtLeastOne((1000 * Unit) \div q)
      <3>1. PICK m : m = 1000 * Unit /\ m \in Nat /\ Unit \in Nat
        BY DEF Unit
      <3>2. PICK a, b : a = m \div p /\ b = m \div q
        OBVIOUS
      <3>3. a \in Nat /\ b \in Nat /\ b <= a
        <4>1. m \div q <= m \div p
          <5>1. m \in Nat
            BY <3>1
          <5> QED
            BY <2>6, <5>1, QuotientIsMonotonic
        <4>2. a \in Nat
          BY <3>1, <3>2, QuotientIs
        <4>3. b \in Nat
          BY <3>1, <3>2, QuotientIs
        <4> QED
          BY <3>2, <4>1, <4>2, <4>3
      <3> QED
        BY <3>1, <3>2, <3>3 DEF AtLeastOne
    <2>7. \A i \in 1 .. n : Costs[i] >= Unit
      BY <2>2, <2>3
    <2>8. ASSUME NEW i \in good \cap whole, NEW j \in good \cap whole,
                 metrics[On[i].id].ping <= metrics[On[j].id].ping
          PROVE  Costs[i] >= Costs[j]
      <3>1. /\ i \in 1 .. n /\ Good(pings, on[i].id) /\ on[i].id \notin edited
            /\ j \in 1 .. n /\ Good(pings, on[j].id) /\ on[j].id \notin edited
        BY <2>1, <2>4
      <3>2. PICK p, q \in Nat \ {0} : p = pings[on[i].id] /\ q = pings[on[j].id] /\ p <= q
        BY <2>1, <2>5, <2>8, <3>1
      <3>3. /\ Costs[i] = AtLeastOne((1000 * Unit) \div p)
            /\ Costs[j] = AtLeastOne((1000 * Unit) \div q)
        BY <2>2, <2>3, <3>1, <3>2
      <3> QED
        BY <2>6, <3>2, <3>3
    <2>9. ASSUME NEW i \in good, NEW j \in bad \cap whole
          PROVE  Costs[i] >= Costs[j]
      <3>1. i \in 1 .. n /\ j \in 1 .. n /\ on[j].id \notin edited
        BY <2>1
      <3>2. ~ Good(pings, on[j].id)
        BY <2>1, <2>5, <3>1
      <3>3. Costs[j] = Unit
        BY <2>2, <2>3, <3>1, <3>2
      <3> QED
        BY <2>7, <3>1, <3>3
    <2> HIDE DEF good, bad, whole, Costs
    <2> QED
      BY <2>1, <2>7, <2>8, <2>9
  <1>2. ASSUME IInv
        PROVE  PingDecidesWeight
    BY <1>1, <1>2 DEF PingDecidesWeight
  <1> QED
    BY <1>2, Invariance, PTL
-----------------------------------------------------------------------------
(***************************************************************************)
(* From a link to an outbound.                                             *)

LEMMA StringHelpersAre ==
    /\ \A a, b : firstNonEmpty(a, b) = IF a # Blank THEN a ELSE b
    /\ \A s, fallback : defaultStr(s, fallback) = IF s = Blank THEN fallback ELSE s
    /\ \A q, key : Get(q, key) = IF key \in DOMAIN q THEN q[key] ELSE Blank
    /\ \A map : NonEmpty(map) = [k \in {k \in DOMAIN map : map[k] # Blank} |-> map[k]]
  <1>1. \A a, b : firstNonEmpty(a, b) = IF a # Blank THEN a ELSE b
    BY Zenon DEF firstNonEmpty, Blank
  <1>2. \A s, fallback : defaultStr(s, fallback) = IF s = Blank THEN fallback ELSE s
    BY Zenon DEF defaultStr, Blank
  <1>3. \A q, key : Get(q, key) = IF key \in DOMAIN q THEN q[key] ELSE Blank
    BY Zenon DEF Get, Blank
  <1>4. \A map : NonEmpty(map) = [k \in {k \in DOMAIN map : map[k] # Blank} |-> map[k]]
    BY Zenon DEF NonEmpty, Blank
  <1> QED
    BY <1>1, <1>2, <1>3, <1>4

LEMMA NamesAreNotBlank ==
    Blank \notin {"tls", "reality", "ws", "h2", "http", "httpupgrade"}
  BY Zenon DEF Blank

LEMMA ParsesIs ==
    ASSUME NEW t, Parses(t)
    PROVE  Link[t].scheme \in {"vless", "vmess"}
  BY Zenon DEF Parses

LEMMA ConsistentVless ==
    ASSUME NEW t, Consistent(t), Link[t].scheme = "vless", NEW q, q = Link[t].q,
           NEW key \in DOMAIN q \ Unread
    PROVE  /\ q[key] # Blank
           /\ key \in {"type", "security", "flow", "encryption", "fp", "pbk", "sid",
                       "sni", "path", "host"}
           /\ key \in {"sni", "fp"} => Get(q, "security") \in {"tls", "reality"}
           /\ key \in {"pbk", "sid"} => Get(q, "security") = "reality"
           /\ key \in {"path", "host"} =>
                Get(q, "type") \in {"ws", "h2", "http", "httpupgrade"}
  BY Zenon DEF Consistent, Blank

LEMMA ConsistentVmess ==
    ASSUME NEW t, Consistent(t), Link[t].scheme = "vmess", NEW q, q = Link[t].q,
           NEW key \in DOMAIN q \ Unread
    PROVE  /\ q[key] # Blank
           /\ key \in {"net", "tls", "sni", "path", "host"}
           /\ key = "sni" => Get(q, "tls") \in {"tls", "reality"}
           /\ key \in {"path", "host"} =>
                Get(q, "net") \in {"ws", "h2", "http", "httpupgrade"}
  BY Zenon DEF Consistent, Blank

\* Security and transport of an outbound, as far as a link can set them.
LEMMA StreamIs ==
    ASSUME NEW s, NEW st, st = buildStreamSettings(s)
    PROVE  /\ s.network # Blank => st.network = s.network
           /\ s.security # Blank => st.security = s.security
           /\ s.security = "tls" =>
                /\ s.sni # Blank => st.secured.tls.serverName = s.sni
                /\ s.fp # Blank => st.secured.tls.fingerprint = s.fp
           /\ s.security = "reality" =>
                /\ st.secured.serverName = s.sni
                /\ s.fp # Blank => st.secured.fingerprint = s.fp
                /\ st.secured.publicKey = s.pbk /\ st.secured.shortId = s.sid
           /\ s.network \in {"ws", "h2", "http", "httpupgrade"} /\ s.path # Blank =>
                st.transport.path = s.path
           /\ s.network = "ws" /\ s.host # Blank => st.transport.headers.Host = s.host
           /\ s.network \in {"h2", "http", "httpupgrade"} => st.transport.host = s.host
  <1>1. /\ st.network = defaultStr(s.network, "tcp")
        /\ st.security = defaultStr(s.security, "none")
        /\ st.secured = securitySettings(s) /\ st.transport = transportSettings(s)
    BY DEF buildStreamSettings
  <1>2. /\ s.network # Blank => st.network = s.network
        /\ s.security # Blank => st.security = s.security
    BY <1>1, StringHelpersAre
  <1>3. ASSUME s.security = "tls"
        PROVE  /\ s.sni # Blank => st.secured.tls.serverName = s.sni
               /\ s.fp # Blank => st.secured.tls.fingerprint = s.fp
    <2>1. PICK map : map = [serverName |-> s.sni, fingerprint |-> s.fp, alpn |-> s.alpn]
      OBVIOUS
    <2>2. st.secured.tls = NonEmpty(map)
      BY <1>1, <1>3, <2>1 DEF securitySettings
    <2>3. \A k \in DOMAIN map : map[k] # Blank => NonEmpty(map)[k] = map[k]
      BY StringHelpersAre
    <2> QED
      BY <2>1, <2>2, <2>3
  <1>4. ASSUME s.security = "reality"
        PROVE  /\ st.secured.serverName = s.sni
               /\ s.fp # Blank => st.secured.fingerprint = s.fp
               /\ st.secured.publicKey = s.pbk /\ st.secured.shortId = s.sid
    <2>1. /\ st.secured.serverName = s.sni
          /\ st.secured.fingerprint = defaultStr(s.fp, "chrome")
          /\ st.secured.publicKey = s.pbk /\ st.secured.shortId = s.sid
      BY <1>1, <1>4 DEF securitySettings
    <2> QED
      BY <2>1, StringHelpersAre
  <1>5. ASSUME s.network = "ws"
        PROVE  /\ s.path # Blank => st.transport.path = s.path
               /\ s.host # Blank => st.transport.headers.Host = s.host
    <2>1. PICK map : map = [Host |-> s.host]
      OBVIOUS
    <2>2. /\ st.transport.path = defaultStr(s.path, "/")
          /\ st.transport.headers = NonEmpty(map)
      BY <1>1, <1>5, <2>1 DEF transportSettings
    <2>3. \A k \in DOMAIN map : map[k] # Blank => NonEmpty(map)[k] = map[k]
      BY StringHelpersAre
    <2> QED
      BY <2>1, <2>2, <2>3, StringHelpersAre
  <1>6. ASSUME s.network \in {"h2", "http", "httpupgrade"}
        PROVE  /\ s.path # Blank => st.transport.path = s.path
               /\ st.transport.host = s.host
    <2>1. st.transport.path = defaultStr(s.path, "/") /\ st.transport.host = s.host
      BY <1>1, <1>6 DEF transportSettings
    <2> QED
      BY <2>1, StringHelpersAre
  <1> QED
    BY <1>2, <1>3, <1>4, <1>5, <1>6

\* What the parsers make of the parameters.
LEMMA VlessParametersAre ==
    ASSUME NEW t, Link[t].scheme = "vless", NEW q, q = Link[t].q,
           NEW p, p = ParseVless(t)
    PROVE  /\ p.port = Link[t].port
           /\ p.encryption = firstNonEmpty(Get(q, "encryption"), "none")
           /\ p.network = firstNonEmpty(Get(q, "type"), "tcp")
           /\ p.security = firstNonEmpty(Get(q, "security"), "none")
           /\ p.sni = Get(q, "sni") /\ p.host = Get(q, "host") /\ p.path = Get(q, "path")
           /\ p.flow = Get(q, "flow") /\ p.pbk = Get(q, "pbk") /\ p.sid = Get(q, "sid")
           /\ p.fp = Get(q, "fp")
  <1>1. PICK n, b :
          /\ n = NewServer(t)
          /\ b = [port       |-> Link[t].port,
                  encryption |-> firstNonEmpty(Get(q, "encryption"), "none"),
                  network    |-> firstNonEmpty(Get(q, "type"), "tcp"),
                  security   |-> firstNonEmpty(Get(q, "security"), "none"),
                  sni |-> Get(q, "sni"), host |-> Get(q, "host"),
                  path |-> Get(q, "path"), flow |-> Get(q, "flow"),
                  pbk |-> Get(q, "pbk"), sid |-> Get(q, "sid"), fp |-> Get(q, "fp")]
    OBVIOUS
  <1>2. p = Assigned(n, b)
    BY <1>1 DEF ParseVless, VlessServer
  <1>3. DOMAIN n = Fields
    BY <1>1 DEF NewServer, ZeroServer, Fields
  <1>4. \A f \in DOMAIN b \cap Fields : p[f] = b[f]
    BY <1>2, <1>3, AssignedIs
  <1> QED
    BY <1>1, <1>4, FieldNames

LEMMA VmessParametersAre ==
    ASSUME NEW t, Link[t].scheme = "vmess", NEW q, q = Link[t].q,
           NEW p, p = ParseVless(t)
    PROVE  /\ HasPort(t) => p.port = Link[t].port
           /\ p.network = firstNonEmpty(Get(q, "net"), "tcp")
           /\ p.security = firstNonEmpty(Get(q, "tls"), "none")
           /\ p.host = Get(q, "host") /\ p.path = Get(q, "path") /\ p.sni = Get(q, "sni")
  <1>0. PICK port : port = IF HasPort(t) THEN Link[t].port ELSE 443
    OBVIOUS
  <1>1. PICK n, b :
          /\ n = NewServer(t)
          /\ b = [port     |-> port,
                  network  |-> firstNonEmpty(Get(q, "net"), "tcp"),
                  security |-> firstNonEmpty(Get(q, "tls"), "none"),
                  host |-> Get(q, "host"), path |-> Get(q, "path"), sni |-> Get(q, "sni")]
    OBVIOUS
  <1>2. p = Assigned(n, b)
    BY <1>0, <1>1 DEF ParseVless, parseVmess
  <1>3. DOMAIN n = Fields
    BY <1>1 DEF NewServer, ZeroServer, Fields
  <1>4. \A f \in DOMAIN b \cap Fields : p[f] = b[f]
    BY <1>2, <1>3, AssignedIs
  <1> QED
    BY <1>0, <1>1, <1>4, FieldNames

\* A server as its link made it, but for the weight and the switch.
AsParsed(s, t) ==
    /\ DOMAIN s = Fields /\ Parses(t)
    /\ \A f \in Fields \ {"weight", "enabled"} : s[f] = ParseVless(t)[f]

LEMMA VlessReaches ==
    ASSUME NEW t \in LinkTexts, NEW s, AsParsed(s, t), Consistent(t),
           Link[t].scheme = "vless",
           NEW ob, ob = buildOutbound(s), NEW key \in DOMAIN Link[t].q \ Unread
    PROVE  Place(ob, key) = Link[t].q[key]
  <1>1. PICK q, p, st : q = Link[t].q /\ p = ParseVless(t) /\ st = buildStreamSettings(s)
    OBVIOUS
  <1>2. /\ s.encryption = p.encryption /\ s.network = p.network /\ s.security = p.security
        /\ s.sni = p.sni /\ s.host = p.host /\ s.path = p.path /\ s.flow = p.flow
        /\ s.pbk = p.pbk /\ s.sid = p.sid /\ s.fp = p.fp /\ s.protocol = "vless"
    <2>1. p.protocol = "vless"
      BY <1>1, ParsedIs
    <2> QED
      BY <1>1, <2>1, FieldNames DEF AsParsed
  <1>3. /\ ob.stream = st /\ ob.user.flow = s.flow
        /\ ob.user.encryption = defaultStr(s.encryption, "none")
    BY <1>1, <1>2 DEF buildOutbound, buildVlessOutbound
  <1>4. /\ q[key] # Blank /\ Get(q, key) = q[key]
        /\ key \in {"type", "security", "flow", "encryption", "fp", "pbk", "sid",
                    "sni", "path", "host"}
        /\ key \in {"sni", "fp"} => Get(q, "security") \in {"tls", "reality"}
        /\ key \in {"pbk", "sid"} => Get(q, "security") = "reality"
        /\ key \in {"path", "host"} =>
             Get(q, "type") \in {"ws", "h2", "http", "httpupgrade"}
    BY <1>1, ConsistentVless, StringHelpersAre
  <1>5. /\ s.encryption = firstNonEmpty(Get(q, "encryption"), "none")
        /\ s.network = firstNonEmpty(Get(q, "type"), "tcp")
        /\ s.security = firstNonEmpty(Get(q, "security"), "none")
        /\ s.sni = Get(q, "sni") /\ s.host = Get(q, "host") /\ s.path = Get(q, "path")
        /\ s.flow = Get(q, "flow") /\ s.pbk = Get(q, "pbk") /\ s.sid = Get(q, "sid")
        /\ s.fp = Get(q, "fp")
    BY <1>1, <1>2, VlessParametersAre
  <1>6. Get(q, "security") # Blank => s.security = Get(q, "security")
    BY <1>5, StringHelpersAre
  <1>7. Get(q, "type") # Blank => s.network = Get(q, "type")
    BY <1>5, StringHelpersAre
  <1>8. CASE key \in {"type", "security", "flow", "encryption"}
    <2>1. CASE key = "type"
      <3>1. st.network = q[key]
        BY <1>1, <1>4, <1>7, <2>1, StreamIs
      <3> QED
        BY <1>1, <1>3, <2>1, <3>1 DEF Place
    <2>2. CASE key = "security"
      <3>1. st.security = q[key]
        BY <1>1, <1>4, <1>6, <2>2, StreamIs
      <3> QED
        BY <1>1, <1>3, <2>2, <3>1 DEF Place
    <2>3. CASE key = "flow"
      BY <1>1, <1>3, <1>4, <1>5, <2>3 DEF Place
    <2>4. CASE key = "encryption"
      <3>1. ob.user.encryption = q[key]
        BY <1>3, <1>4, <1>5, <2>4, StringHelpersAre
      <3> QED
        BY <1>1, <2>4, <3>1 DEF Place
    <2> QED
      BY <1>8, <2>1, <2>2, <2>3, <2>4
  <1>9. CASE key \in {"sni", "fp", "pbk", "sid"}
    <2>1. s.security \in {"tls", "reality"} /\ st.security = s.security
      BY <1>1, <1>4, <1>6, <1>9, NamesAreNotBlank, StreamIs
    <2>2. key \in {"pbk", "sid"} => s.security = "reality"
      BY <1>4, <1>6, NamesAreNotBlank
    <2>3. CASE s.security = "tls"
      <3>1. /\ s.sni # Blank => st.secured.tls.serverName = s.sni
            /\ s.fp # Blank => st.secured.tls.fingerprint = s.fp
        BY <1>1, <2>3, StreamIs
      <3>2. key \in {"sni", "fp"}
        BY <1>9, <2>2, <2>3
      <3>3. ob.stream.security = "tls"
        BY <1>3, <2>1, <2>3
      <3>4. CASE key = "sni"
        <4>1. Place(ob, key) = ob.stream.secured.tls.serverName
          BY <3>3, <3>4 DEF Place
        <4> QED
          BY <1>1, <1>3, <1>4, <1>5, <3>1, <3>4, <4>1
      <3>5. CASE key = "fp"
        <4>1. Place(ob, key) = ob.stream.secured.tls.fingerprint
          BY <3>3, <3>5 DEF Place
        <4> QED
          BY <1>1, <1>3, <1>4, <1>5, <3>1, <3>5, <4>1
      <3> QED
        BY <3>2, <3>4, <3>5
    <2>4. CASE s.security = "reality"
      <3>1. /\ st.secured.serverName = s.sni
            /\ s.fp # Blank => st.secured.fingerprint = s.fp
            /\ st.secured.publicKey = s.pbk /\ st.secured.shortId = s.sid
        BY <1>1, <2>4, StreamIs
      <3> QED
        BY <1>1, <1>3, <1>4, <1>5, <1>9, <2>1, <2>4, <3>1 DEF Place
    <2> QED
      BY <2>1, <2>3, <2>4
  <1>10. CASE key \in {"path", "host"}
    <2>1. s.network \in {"ws", "h2", "http", "httpupgrade"} /\ st.network = s.network
      BY <1>1, <1>4, <1>7, <1>10, NamesAreNotBlank, StreamIs
    <2>2. CASE key = "path"
      <3>1. st.transport.path = s.path
        BY <1>1, <1>4, <1>5, <2>1, <2>2, StreamIs
      <3> QED
        BY <1>1, <1>3, <1>4, <1>5, <2>2, <3>1 DEF Place
    <2>3. CASE key = "host"
      <3>1. s.host = q[key] /\ s.host # Blank
        BY <1>4, <1>5, <2>3
      <3>2. /\ s.network = "ws" => st.transport.headers.Host = s.host
            /\ s.network # "ws" => st.transport.host = s.host
        BY <1>1, <2>1, <3>1, StreamIs
      <3>3. CASE s.network = "ws"
        <4>1. Place(ob, key) = ob.stream.transport.headers.Host
          BY <1>3, <2>1, <2>3, <3>3 DEF Place
        <4> QED
          BY <1>1, <1>3, <3>1, <3>2, <3>3, <4>1
      <3>4. CASE s.network # "ws"
        <4>1. Place(ob, key) = ob.stream.transport.host
          BY <1>3, <2>1, <2>3, <3>4 DEF Place
        <4> QED
          BY <1>1, <1>3, <3>1, <3>2, <3>4, <4>1
      <3> QED
        BY <3>3, <3>4
    <2> QED
      BY <1>10, <2>2, <2>3
  <1> QED
    BY <1>4, <1>8, <1>9, <1>10

LEMMA VmessReaches ==
    ASSUME NEW t \in LinkTexts, NEW s, AsParsed(s, t), Consistent(t),
           Link[t].scheme = "vmess",
           NEW ob, ob = buildOutbound(s), NEW key \in DOMAIN Link[t].q \ Unread
    PROVE  Place(ob, key) = Link[t].q[key]
  <1>1. PICK q, p, st : q = Link[t].q /\ p = ParseVless(t) /\ st = buildStreamSettings(s)
    OBVIOUS
  <1>2. /\ s.network = p.network /\ s.security = p.security /\ s.sni = p.sni
        /\ s.host = p.host /\ s.path = p.path /\ s.protocol = "vmess"
    <2>1. p.protocol = "vmess"
      BY <1>1, ParsedIs
    <2> QED
      BY <1>1, <2>1, FieldNames DEF AsParsed
  <1>3. ob.stream = st
    BY <1>1, <1>2 DEF buildOutbound, buildVmessOutbound
  <1>4. /\ q[key] # Blank /\ Get(q, key) = q[key]
        /\ key \in {"net", "tls", "sni", "path", "host"}
        /\ key = "sni" => Get(q, "tls") \in {"tls", "reality"}
        /\ key \in {"path", "host"} =>
             Get(q, "net") \in {"ws", "h2", "http", "httpupgrade"}
    BY <1>1, ConsistentVmess, StringHelpersAre
  <1>5. /\ s.network = firstNonEmpty(Get(q, "net"), "tcp")
        /\ s.security = firstNonEmpty(Get(q, "tls"), "none")
        /\ s.sni = Get(q, "sni") /\ s.host = Get(q, "host") /\ s.path = Get(q, "path")
    BY <1>1, <1>2, VmessParametersAre
  <1>6. Get(q, "tls") # Blank => s.security = Get(q, "tls")
    BY <1>5, StringHelpersAre
  <1>7. Get(q, "net") # Blank => s.network = Get(q, "net")
    BY <1>5, StringHelpersAre
  <1>8. CASE key = "net"
    <2>1. st.network = q[key]
      BY <1>1, <1>4, <1>7, <1>8, StreamIs
    <2> QED
      BY <1>1, <1>3, <1>8, <2>1 DEF Place
  <1>9. CASE key = "tls"
    <2>1. st.security = q[key]
      BY <1>1, <1>4, <1>6, <1>9, StreamIs
    <2> QED
      BY <1>1, <1>3, <1>9, <2>1 DEF Place
  <1>10. CASE key = "sni"
    <2>1. s.security \in {"tls", "reality"} /\ st.security = s.security
      BY <1>1, <1>4, <1>6, <1>10, NamesAreNotBlank, StreamIs
    <2>2. s.sni = q[key] /\ s.sni # Blank
      BY <1>4, <1>5, <1>10
    <2>3. CASE s.security = "tls"
      <3>1. st.secured.tls.serverName = s.sni
        BY <1>1, <2>2, <2>3, StreamIs
      <3>2. Place(ob, key) = ob.stream.secured.tls.serverName
        BY <1>3, <1>10, <2>1, <2>3 DEF Place
      <3> QED
        BY <1>1, <1>3, <2>2, <3>1, <3>2
    <2>4. CASE s.security = "reality"
      <3>1. st.secured.serverName = s.sni
        BY <1>1, <2>4, StreamIs
      <3>2. Place(ob, key) = ob.stream.secured.serverName
        BY <1>3, <1>10, <2>1, <2>4 DEF Place
      <3> QED
        BY <1>1, <1>3, <2>2, <3>1, <3>2
    <2> QED
      BY <2>1, <2>3, <2>4
  <1>11. CASE key \in {"path", "host"}
    <2>1. s.network \in {"ws", "h2", "http", "httpupgrade"} /\ st.network = s.network
      BY <1>1, <1>4, <1>7, <1>11, NamesAreNotBlank, StreamIs
    <2>2. CASE key = "path"
      <3>1. st.transport.path = s.path
        BY <1>1, <1>4, <1>5, <2>1, <2>2, StreamIs
      <3> QED
        BY <1>1, <1>3, <1>4, <1>5, <2>2, <3>1 DEF Place
    <2>3. CASE key = "host"
      <3>1. s.host = q[key] /\ s.host # Blank
        BY <1>4, <1>5, <2>3
      <3>2. /\ s.network = "ws" => st.transport.headers.Host = s.host
            /\ s.network # "ws" => st.transport.host = s.host
        BY <1>1, <2>1, <3>1, StreamIs
      <3>3. CASE s.network = "ws"
        <4>1. Place(ob, key) = ob.stream.transport.headers.Host
          BY <1>3, <2>1, <2>3, <3>3 DEF Place
        <4> QED
          BY <1>1, <1>3, <3>1, <3>2, <3>3, <4>1
      <3>4. CASE s.network # "ws"
        <4>1. Place(ob, key) = ob.stream.transport.host
          BY <1>3, <2>1, <2>3, <3>4 DEF Place
        <4> QED
          BY <1>1, <1>3, <3>1, <3>2, <3>4, <4>1
      <3> QED
        BY <3>3, <3>4
    <2> QED
      BY <1>11, <2>2, <2>3
  <1> QED
    BY <1>4, <1>8, <1>9, <1>10, <1>11

\* The endpoint and the credentials.
LEMMA EndpointReaches ==
    ASSUME NEW t \in LinkTexts, NEW s, AsParsed(s, t), NEW ob, ob = buildOutbound(s)
    PROVE  /\ ob.protocol = Link[t].scheme /\ ob.address = Link[t].host
           /\ ob.user.id = Link[t].user
           /\ HasPort(t) => ob.port = Link[t].port
  <1>1. PICK p, q : p = ParseVless(t) /\ q = Link[t].q
    OBVIOUS
  <1>2. /\ p.protocol = Link[t].scheme /\ p.address = Link[t].host
        /\ p.uuid = Link[t].user
    BY <1>1, ParsedIs
  <1>3. Link[t].scheme \in {"vless", "vmess"}
    BY ParsesIs DEF AsParsed
  <1>4. HasPort(t) => p.port = Link[t].port
    BY <1>1, <1>3, VlessParametersAre, VmessParametersAre
  <1>5. /\ s.protocol = p.protocol /\ s.address = p.address /\ s.uuid = p.uuid
        /\ s.port = p.port
    BY <1>1, FieldNames DEF AsParsed
  <1>6. /\ ob.protocol = s.protocol /\ ob.address = s.address /\ ob.user.id = s.uuid
        /\ ob.port = s.port
    BY <1>2, <1>3, <1>5 DEF buildOutbound, buildVlessOutbound, buildVmessOutbound
  <1> QED
    BY <1>2, <1>4, <1>5, <1>6

\* The outbound of a server that was added by link and not changed in the edit
\* dialog has all of the link that the parser reads, whatever else was done to
\* the list (ParseVless, handleServerByID, buildOutbound).  That is so if no
\* two links have one hash and no link contradicts itself.
THEOREM LinksReach ==
    ASSUME HashDistinguishes, LinksAreConsistent
    PROVE  Spec => []LinkReachesOutbound
  <1>1. ASSUME IInv, NEW on, on = EnabledServers(cfg), NEW out, out = Rendered.outbounds,
               NEW i \in 1 .. Len(on), NEW t \in LinkTexts,
               on[i].id = Hash[t], on[i].id \notin edited
        PROVE  /\ out[i].protocol = Link[t].scheme /\ out[i].address = Link[t].host
               /\ out[i].user.id = Link[t].user
               /\ HasPort(t) => out[i].port = Link[t].port
               /\ \A key \in DOMAIN Link[t].q \ Unread : Place(out[i], key) = Link[t].q[key]
    <2>1. PICK s, ob : s = on[i] /\ ob = buildOutbound(s)
      OBVIOUS
    <2>2. out[i] = ob /\ s \in Enabled
      BY <1>1, <2>1, OutboundsAre, EnabledAre
    <2>3. PICK u \in LinkTexts : ComesFrom(s, u, edited)
      BY <1>1, <2>2, EnabledComeFrom
    <2>4. u = t
      BY <1>1, <2>1, <2>3 DEF ComesFrom, HashDistinguishes
    <2>5. AsParsed(s, t)
      <3>1. DOMAIN s = Fields
        BY <1>1, <2>2, EnabledComeFrom
      <3> QED
        BY <1>1, <2>1, <2>3, <2>4, <3>1 DEF ComesFrom, AsParsed
    <2>6. Parses(t) /\ Consistent(t) /\ Link[t].scheme \in {"vless", "vmess"}
      BY <2>5, ParsesIs DEF AsParsed, LinksAreConsistent
    <2>7. \A key \in DOMAIN Link[t].q \ Unread : Place(ob, key) = Link[t].q[key]
      BY <2>1, <2>5, <2>6, VlessReaches, VmessReaches
    <2> QED
      BY <2>1, <2>2, <2>5, <2>7, EndpointReaches
  <1>2. ASSUME IInv
        PROVE  LinkReachesOutbound
    <2>1. PICK on, out : on = EnabledServers(cfg) /\ out = Rendered.outbounds
      OBVIOUS
    <2>2. DOMAIN on = 1 .. Len(on)
      BY <1>2, <2>1, EnabledAre
    <2>3. ASSUME NEW i \in DOMAIN on, NEW t \in LinkTexts,
                 on[i].id = Hash[t], on[i].id \notin edited
          PROVE  /\ <<out[i].protocol, out[i].address, out[i].user.id>> =
                      <<Link[t].scheme, Link[t].host, Link[t].user>>
                 /\ HasPort(t) => out[i].port = Link[t].port
                 /\ \A key \in DOMAIN Link[t].q \ Unread :
                      Place(out[i], key) = Link[t].q[key]
      BY <1>1, <1>2, <2>1, <2>2, <2>3
    <2> QED
      BY <2>1, <2>3, Zenon DEF LinkReachesOutbound
  <1> QED
    BY <1>2, Invariance, PTL
-----------------------------------------------------------------------------
(***************************************************************************)
(* What keeps the core from starting.                                      *)

TagsDiffer(out) ==
    \A i, j \in DOMAIN out : out[i].tag = out[j].tag /\ out[i].tag # Blank => i = j

Conditioned(rule) == rule.domains # {} \/ rule.geoip # Blank

\* Credentials, and the key of REALITY.
HasWhatItNeeds(ob) == HasCredentials(ob) /\ HasKey(ob)

LEMMA WellFormedIs ==
    ASSUME NEW xc
    PROVE  WellFormed(xc) <=>
             /\ TagsDiffer(xc.outbounds)
             /\ \A i \in DOMAIN xc.outbounds : HasWhatItNeeds(xc.outbounds[i])
             /\ xc.inbounds[1].port # xc.inbounds[2].port
             /\ \A i \in DOMAIN xc.rules :
                  /\ xc.rules[i].all \/ Conditioned(xc.rules[i])
                  /\ xc.rules[i].to = Balancer => xc.balancers # <<>>
  BY Zenon DEF WellFormed, TagsDiffer, Conditioned, HasWhatItNeeds, Blank

LEMMA CredentialsIs ==
    ASSUME NEW s, s.protocol \in {"vless", "vmess"}
    PROVE  HasCredentials(buildOutbound(s)) <=> s.uuid # Blank
  <1>1. PICK ob : ob = buildOutbound(s)
    OBVIOUS
  <1>2. ob.protocol \in {"vless", "vmess"} /\ ob.user.id = s.uuid
    BY <1>1 DEF buildOutbound, buildVlessOutbound, buildVmessOutbound
  <1>3. HasCredentials(ob) <=> ob.user.id # Blank
    BY <1>2, Zenon DEF HasCredentials, Proxied, Blank
  <1> QED
    BY <1>1, <1>2, <1>3

\* The parser of vmess links knows no key.
LEMMA VmessHasNoKey ==
    ASSUME NEW t, Link[t].scheme = "vmess", NEW p, p = ParseVless(t)
    PROVE  p.pbk = Blank
  <1>1. PICK n, b : n = NewServer(t) /\ p = Assigned(n, b) /\ "pbk" \notin DOMAIN b
    BY DEF ParseVless, parseVmess
  <1>2. DOMAIN n = Fields /\ n.pbk = ZeroServer.pbk
    BY <1>1 DEF NewServer, ZeroServer, Fields
  <1>3. ZeroServer["pbk"] = Blank
    BY Zenon DEF ZeroServer, Blank
  <1> QED
    BY <1>1, <1>2, <1>3, AssignedIs, FieldNames

LEMMA CompleteIs ==
    ASSUME NEW t
    PROVE  Complete(t) <=>
             /\ Link[t].user # Blank
             /\ IF Link[t].scheme = "vless"
                THEN Get(Link[t].q, "security") = "reality" => Get(Link[t].q, "pbk") # Blank
                ELSE Get(Link[t].q, "tls") # "reality"
  BY Zenon DEF Complete, Blank

\* Whether REALITY is asked for, and with a key, is up to the link.
LEMMA KeyIs ==
    ASSUME NEW t \in LinkTexts, NEW s, AsParsed(s, t)
    PROVE  HasKey(buildOutbound(s)) <=>
             IF Link[t].scheme = "vless"
             THEN Get(Link[t].q, "security") = "reality" => Get(Link[t].q, "pbk") # Blank
             ELSE Get(Link[t].q, "tls") # "reality"
  <1>1. PICK q, p, st, ob : /\ q = Link[t].q /\ p = ParseVless(t)
                            /\ st = buildStreamSettings(s) /\ ob = buildOutbound(s)
    OBVIOUS
  <1>2. Link[t].scheme \in {"vless", "vmess"}
    BY ParsesIs DEF AsParsed
  <1>3. /\ s.protocol = p.protocol /\ s.security = p.security /\ s.pbk = p.pbk
        /\ p.protocol = Link[t].scheme
    BY <1>1, FieldNames, ParsedIs DEF AsParsed
  <1>4. ob.protocol \in {"vless", "vmess"} /\ ob.stream = st
    BY <1>1, <1>2, <1>3 DEF buildOutbound, buildVlessOutbound, buildVmessOutbound
  <1>5. HasKey(ob) <=> (st.security = "reality" => st.secured.publicKey # Blank)
    BY <1>4, Zenon DEF HasKey, Proxied, Blank
  <1>6. PICK name : /\ name = Get(q, IF Link[t].scheme = "vless" THEN "security" ELSE "tls")
                    /\ p.security = firstNonEmpty(name, "none")
    BY <1>1, <1>2, VlessParametersAre, VmessParametersAre
  <1>7. Blank # "none" /\ Blank # "reality"
    BY Zenon DEF Blank
  <1>8. p.security # Blank /\ (p.security = "reality" <=> name = "reality")
    BY <1>6, <1>7, StringHelpersAre
  <1>9. /\ st.security = "reality" <=> name = "reality"
        /\ name = "reality" => st.secured.publicKey = p.pbk
    BY <1>1, <1>3, <1>8, StreamIs
  <1>10. /\ Link[t].scheme = "vless" => p.pbk = Get(q, "pbk")
         /\ Link[t].scheme = "vmess" => p.pbk = Blank
    BY <1>1, VlessParametersAre, VmessHasNoKey
  <1> QED
    BY <1>1, <1>2, <1>5, <1>6, <1>9, <1>10

LEMMA NoCredentialsNeeded ==
    HasWhatItNeeds(Freedom("direct")) /\ HasWhatItNeeds(Blackhole("block"))
  <1>1. PICK a, b : a = Freedom("direct") /\ b = Blackhole("block")
    OBVIOUS
  <1>2. a.protocol = "freedom" /\ b.protocol = "blackhole"
    BY <1>1 DEF Freedom, Blackhole
  <1>3. HasWhatItNeeds(a) /\ HasWhatItNeeds(b)
    BY <1>2, Zenon DEF HasWhatItNeeds, HasCredentials, HasKey, Proxied
  <1> QED
    BY <1>1, <1>3

\* No two outbounds have one tag, apart from those that have none.
LEMMA RenderedTagsDiffer ==
    ASSUME IInv
    PROVE  TagsDiffer(Rendered.outbounds)
  <1>1. PICK on, n, out : /\ on = EnabledServers(cfg) /\ n = Len(on)
                          /\ out = Rendered.outbounds
    OBVIOUS
  <1>2. /\ n \in Nat /\ \A i \in 1 .. n : on[i] \in Enabled
        /\ \A i, j \in 1 .. n : on[i].id = on[j].id => i = j
    BY <1>1, EnabledAre
  <1>3. DOMAIN out = 1 .. n + 2
    BY <1>1, OutboundsAre
  <1>4. \A i \in 1 .. n : out[i].tag = on[i].tag
    BY <1>1, OutboundsAre, TagOfOutbound
  <1>5. out[n + 1].tag = "direct" /\ out[n + 2].tag = "block"
    BY <1>1, OutboundsAre DEF Freedom, Blackhole
  <1>6. \A i \in 1 .. n + 2 : i \in 1 .. n \/ i = n + 1 \/ i = n + 2
    BY <1>2
  <1>7. \A i \in 1 .. n : on[i].tag \notin {"direct", "block"}
    <2>1. Blank \notin {"direct", "block"}
      BY Zenon DEF Blank
    <2> QED
      BY <1>2, <2>1, TagsOfServers, NamesOfTags
  <1>8. \A i, j \in 1 .. n : on[i].tag = on[j].tag /\ on[i].tag # Blank => i = j
    BY <1>1, EnabledTagsDiffer
  <1>9. ASSUME NEW i \in 1 .. n + 2, NEW j \in 1 .. n + 2,
               out[i].tag = out[j].tag, out[i].tag # Blank
        PROVE  i = j
    <2>1. CASE i \in 1 .. n /\ j \in 1 .. n
      BY <1>4, <1>8, <1>9, <2>1
    <2>2. CASE i \in 1 .. n /\ j \notin 1 .. n
      BY <1>4, <1>5, <1>6, <1>7, <1>9, <2>2
    <2>3. CASE i \notin 1 .. n /\ j \in 1 .. n
      BY <1>4, <1>5, <1>6, <1>7, <1>9, <2>3
    <2>4. CASE i \notin 1 .. n /\ j \notin 1 .. n
      BY <1>5, <1>6, <1>9, <2>4
    <2> QED
      BY <2>1, <2>2, <2>3, <2>4
  <1> QED
    BY <1>1, <1>3, <1>9 DEF TagsDiffer

\* Who went through the dialog has no credentials, who did not has what the
\* link gave.
LEMMA NeedsOfServers ==
    ASSUME IInv, HashDistinguishes, NEW s \in Enabled
    PROVE  HasWhatItNeeds(buildOutbound(s)) <=>
             /\ s.id \notin edited
             /\ \E t \in LinkTexts : s.id = Hash[t] /\ Complete(t)
  <1>1. PICK t \in LinkTexts : ComesFrom(s, t, edited)
    BY EnabledComeFrom
  <1>2. s.protocol \in {"vless", "vmess"} /\ s.id = Hash[t]
    BY <1>1, ParsesIs DEF ComesFrom
  <1>3. HasCredentials(buildOutbound(s)) <=> s.uuid # Blank
    BY <1>2, CredentialsIs
  <1>4. \A u \in LinkTexts : s.id = Hash[u] => u = t
    BY <1>2 DEF HashDistinguishes
  <1>5. CASE s.id \in edited
    BY <1>1, <1>3, <1>5 DEF ComesFrom, HasWhatItNeeds
  <1>6. CASE s.id \notin edited
    <2>1. AsParsed(s, t)
      BY <1>1, <1>6, EnabledComeFrom DEF ComesFrom, AsParsed
    <2>2. s.uuid = Link[t].user
      BY <2>1, ParsedIs, FieldNames DEF AsParsed
    <2>3. HasWhatItNeeds(buildOutbound(s)) <=> Complete(t)
      BY <1>3, <2>1, <2>2, KeyIs, CompleteIs DEF HasWhatItNeeds
    <2> QED
      BY <1>2, <1>4, <1>6, <2>3
  <1> QED
    BY <1>5, <1>6

\* The rules the core is given, as a set.
LEMMA RulesGiven ==
    ASSUME IInv, NEW all, all = Rendered.rules
    PROVE  /\ \A rule \in Active : \E i \in DOMAIN all : all[i] = RenderedRule(rule)
           /\ \A i \in DOMAIN all : \/ \E rule \in Active : all[i] = RenderedRule(rule)
                                    \/ all[i] = CatchAll /\ Enabled # {}
  <1>1. PICK list, n : list = EnabledRules(cfg) /\ n = Len(list)
    OBVIOUS
  <1>2. /\ n \in Nat
        /\ \A i \in 1 .. n : all[i] = RenderedRule(list[n + 1 - i])
        /\ Enabled = {} => DOMAIN all = 1 .. n
        /\ Enabled # {} => DOMAIN all = 1 .. n + 1 /\ all[n + 1] = CatchAll
    BY <1>1, RulesAre
  <1>3. Active = {list[i] : i \in 1 .. n}
    BY <1>1, ActiveAre
  <1>4. \A i \in 1 .. n : n + 1 - i \in 1 .. n /\ n + 1 - (n + 1 - i) = i
    BY <1>2
  <1>5. \A i \in 1 .. n : i \in DOMAIN all
    BY <1>2
  <1>6. ASSUME NEW rule \in Active
        PROVE  \E i \in DOMAIN all : all[i] = RenderedRule(rule)
    <2>1. PICK k \in 1 .. n : rule = list[k]
      BY <1>3
    <2>2. PICK i \in 1 .. n : i = n + 1 - k /\ n + 1 - i = k
      BY <1>4
    <2>3. all[i] = RenderedRule(rule)
      BY <1>2, <2>1, <2>2
    <2> QED
      BY <1>5, <2>3
  <1>7. ASSUME NEW i \in DOMAIN all
        PROVE  \/ \E rule \in Active : all[i] = RenderedRule(rule)
               \/ all[i] = CatchAll /\ Enabled # {}
    <2>1. CASE i \in 1 .. n
      <3>1. all[i] = RenderedRule(list[n + 1 - i]) /\ list[n + 1 - i] \in Active
        BY <1>2, <1>3, <1>4, <2>1
      <3> QED
        BY <3>1
    <2>2. CASE i \notin 1 .. n
      BY <1>2, <2>2
    <2> QED
      BY <2>1, <2>2
  <1> QED
    BY <1>6, <1>7

LEMMA RenderedRuleIs ==
    ASSUME NEW rule
    PROVE  /\ ~ RenderedRule(rule).all
           /\ Conditioned(RenderedRule(rule)) <=> Conditioned(rule)
           /\ RenderedRule(rule).to = Balancer <=> rule.target \in {"balanced", Blank}
  <1>1. PICK r : r = RenderedRule(rule)
    OBVIOUS
  <1>2. /\ ~ r.all /\ r.domains = rule.domains /\ r.geoip = rule.geoip
        /\ r.to = TargetOf(rule)
    BY <1>1 DEF RenderedRule
  <1>3. \A x : Outbound(x) # Balancer
    BY DEF Outbound, Balancer
  <1>4. r.to = Balancer <=> rule.target \in {"balanced", Blank}
    BY <1>2, <1>3, TargetIs
  <1> QED
    BY <1>1, <1>2, <1>4 DEF Conditioned

\* For any servers and rules, what is rendered has one of the defects named in
\* WellFormed for one of these reasons only: both proxies have one port, a rule
\* has no condition, a rule asks for the balancer while there is none, or a
\* server has no credentials or no key, because it was changed in the edit
\* dialog or its link came without them (buildXrayConfigWithMetrics, ParseVless,
\* handleServerByID).
THEOREM DefectsHaveCauses ==
    ASSUME HashDistinguishes
    PROVE  Spec => []DefectsExplained
  <1>1. ASSUME IInv
        PROVE  WellFormed(Rendered) <=>
                 /\ listen.socks # listen.http
                 /\ \A rule \in Active : Conditioned(rule)
                 /\ Enabled = {} =>
                      \A rule \in Active : rule.target \notin {"balanced", Blank}
                 /\ \A s \in Enabled :
                      /\ s.id \notin edited
                      /\ \E t \in LinkTexts : s.id = Hash[t] /\ Complete(t)
    <2>1. PICK on, n, out : /\ on = EnabledServers(cfg) /\ n = Len(on)
                            /\ out = Rendered.outbounds
      OBVIOUS
    <2>2. n \in Nat /\ Enabled = {on[i] : i \in 1 .. n}
      BY <1>1, <2>1, EnabledAre
    <2>3. /\ DOMAIN out = 1 .. n + 2
          /\ \A i \in 1 .. n : out[i] = buildOutbound(on[i])
          /\ out[n + 1] = Freedom("direct") /\ out[n + 2] = Blackhole("block")
      BY <1>1, <2>1, OutboundsAre
    <2>4. (\A i \in DOMAIN out : HasWhatItNeeds(out[i])) <=>
            \A s \in Enabled : HasWhatItNeeds(buildOutbound(s))
      <3>1. \A i \in 1 .. n + 2 : i \in 1 .. n \/ i = n + 1 \/ i = n + 2
        BY <2>2
      <3>2. \A i \in 1 .. n : i \in 1 .. n + 2
        BY <2>2
      <3> QED
        BY <2>2, <2>3, <3>1, <3>2, NoCredentialsNeeded
    <2>5. /\ Rendered.inbounds[1].port = listen.socks
          /\ Rendered.inbounds[2].port = listen.http
      BY DEF Rendered, buildXrayConfigWithMetrics, Inbounds, cfg
    <2>6. PICK all : all = Rendered.rules
      OBVIOUS
    <2>7. (\A i \in DOMAIN all : /\ all[i].all \/ Conditioned(all[i])
                                 /\ all[i].to = Balancer => Rendered.balancers # <<>>) <=>
            /\ \A rule \in Active : Conditioned(rule)
            /\ Enabled = {} => \A rule \in Active : rule.target \notin {"balanced", Blank}
      <3>1. Rendered.balancers = <<>> <=> Enabled = {}
        BY <1>1, BalancerIs
      <3>2. CatchAll.all
        BY DEF CatchAll
      <3>3. ASSUME NEW i \in DOMAIN all,
                   \A rule \in Active : Conditioned(rule),
                   Enabled = {} =>
                     \A rule \in Active : rule.target \notin {"balanced", Blank}
            PROVE  /\ all[i].all \/ Conditioned(all[i])
                   /\ all[i].to = Balancer => Rendered.balancers # <<>>
        <4>1. CASE \E rule \in Active : all[i] = RenderedRule(rule)
          <5>1. PICK rule \in Active : all[i] = RenderedRule(rule)
            BY <4>1
          <5>2. Conditioned(all[i])
            BY <3>3, <5>1, RenderedRuleIs
          <5>3. all[i].to = Balancer => Enabled # {}
            BY <3>3, <5>1, RenderedRuleIs
          <5> QED
            BY <3>1, <5>2, <5>3
        <4>2. CASE all[i] = CatchAll /\ Enabled # {}
          BY <3>1, <3>2, <4>2
        <4> QED
          BY <1>1, <2>6, <4>1, <4>2, RulesGiven
      <3>4. ASSUME NEW rule \in Active,
                   \A i \in DOMAIN all :
                     /\ all[i].all \/ Conditioned(all[i])
                     /\ all[i].to = Balancer => Rendered.balancers # <<>>
            PROVE  /\ Conditioned(rule)
                   /\ Enabled = {} => rule.target \notin {"balanced", Blank}
        <4>1. PICK i \in DOMAIN all : all[i] = RenderedRule(rule)
          BY <1>1, <2>6, RulesGiven
        <4>2. Conditioned(rule)
          <5>1. Conditioned(all[i]) \/ all[i].all
            BY <3>4
          <5>2. ~ all[i].all
            BY <4>1, RenderedRuleIs
          <5> QED
            BY <4>1, <5>1, <5>2, RenderedRuleIs
        <4>3. Enabled = {} => rule.target \notin {"balanced", Blank}
          <5>1. all[i].to = Balancer <=> rule.target \in {"balanced", Blank}
            BY <4>1, RenderedRuleIs
          <5>2. all[i].to = Balancer => Enabled # {}
            BY <3>1, <3>4
          <5> QED
            BY <5>1, <5>2
        <4> QED
          BY <4>2, <4>3
      <3> QED
        BY <3>3, <3>4
    <2>8. \A s \in Enabled :
            HasWhatItNeeds(buildOutbound(s)) <=>
              /\ s.id \notin edited
              /\ \E t \in LinkTexts : s.id = Hash[t] /\ Complete(t)
      BY <1>1, NeedsOfServers
    <2>9. TagsDiffer(out)
      BY <1>1, <2>1, RenderedTagsDiffer
    <2> QED
      BY <2>1, <2>4, <2>5, <2>6, <2>7, <2>8, <2>9, WellFormedIs
  <1>2. ASSUME IInv
        PROVE  DefectsExplained
    BY <1>1, <1>2, Zenon DEF DefectsExplained, Conditioned, Blank
  <1> QED
    BY <1>2, Invariance, PTL
-----------------------------------------------------------------------------
(***************************************************************************)
(* How the picks are shared.                                               *)

\* A round of counters meets every remainder once, 0 last.
LEMMA RemaindersOfARound ==
    ASSUME NEW n \in Nat \ {0}
    PROVE  n % n = 0 /\ \A c \in 1 .. n - 1 : c % n = c
  <1>1. n % n = 0
    OBVIOUS
  <1>2. ASSUME NEW c \in 1 .. n - 1
        PROVE  c % n = c
    OBVIOUS
  <1> QED
    BY <1>1, <1>2

\* The quotient under a name, for the provers lose their way among divisions.
Quotient(x, t) == x \div t

LEMMA QuotientBounds ==
    ASSUME NEW x \in Nat, NEW t \in Nat \ {0}
    PROVE  /\ Quotient(x, t) \in Nat
           /\ t * Quotient(x, t) <= x /\ x < t * (Quotient(x, t) + 1)
  BY QuotientIs DEF Quotient

\* Multiples of t up to x are those of the numbers up to the quotient.
LEMMA MultiplesUpTo ==
    ASSUME NEW t \in Nat \ {0}, NEW x \in Nat, NEW p \in Nat,
           NEW a, a = Quotient(x, t)
    PROVE  p * t <= x <=> p <= a
  <1>1. a \in Nat /\ t * a <= x /\ x < t * (a + 1)
    BY QuotientBounds
  <1>2. ASSUME p <= a
        PROVE  p * t <= x
    <2>1. p * t <= a * t /\ p * t \in Nat /\ a * t \in Nat
      BY <1>1, <1>2, TimesIsMonotonic
    <2>2. a * t = t * a
      BY <1>1
    <2> QED
      BY <1>1, <2>1, <2>2
  <1>3. ASSUME ~ (p <= a)
        PROVE  ~ (p * t <= x)
    <2>1. a + 1 <= p /\ a + 1 \in Nat
      BY <1>1, <1>3
    <2>2. (a + 1) * t <= p * t /\ p * t \in Nat /\ (a + 1) * t \in Nat
      BY <2>1, TimesIsMonotonic
    <2>3. (a + 1) * t = t * (a + 1)
      BY <1>1
    <2> QED
      BY <1>1, <2>2, <2>3
  <1> QED
    BY <1>2, <1>3

\* Of slots positions, those behind x and not behind y, measured in steps of t.
\* The first share also gets position 0, which the last counter has.
Between(t, slots, x, y) ==
    {c \in 1 .. slots : (c % slots) * t <= y /\ (x = 0 \/ ~ ((c % slots) * t <= x))}

LastBefore(slots, b) == IF b < slots THEN b ELSE slots - 1

LEMMA BetweenIs ==
    ASSUME NEW t \in Nat \ {0}, NEW slots \in Nat \ {0}, NEW x \in Nat, NEW y \in Nat
    PROVE  /\ x # 0 => Between(t, slots, x, y) =
                        Quotient(x, t) + 1 .. LastBefore(slots, Quotient(y, t))
           /\ x = 0 => Between(t, slots, x, y) =
                        (1 .. LastBefore(slots, Quotient(y, t))) \cup {slots}
  <1>0. PICK a, b : a = Quotient(x, t) /\ b = Quotient(y, t)
    OBVIOUS
  <1>1. PICK last : last = LastBefore(slots, b)
    OBVIOUS
  <1>2. a \in Nat /\ b \in Nat /\ last \in Nat /\ last < slots
    BY <1>0, <1>1, QuotientBounds DEF LastBefore
  <1>3. \A p \in Nat : (p * t <= y <=> p <= b) /\ (p * t <= x <=> p <= a)
    BY <1>0, MultiplesUpTo
  <1>4. \A c \in 1 .. slots : c = slots \/ c \in 1 .. slots - 1
    OBVIOUS
  <1>5. slots % slots = 0 /\ \A c \in 1 .. slots - 1 : c % slots = c
    BY RemaindersOfARound
  <1>6. \A c \in 1 .. slots : c % slots \in Nat
    BY <1>4, <1>5
  <1>7. Between(t, slots, x, y) =
          {c \in 1 .. slots : c % slots <= b /\ (x = 0 \/ ~ (c % slots <= a))}
    BY <1>3, <1>6 DEF Between
  <1>8. ASSUME NEW c \in 1 .. slots
        PROVE  /\ (c % slots <= b /\ ~ (c % slots <= a)) <=> c \in a + 1 .. last
               /\ c % slots <= b <=> c \in (1 .. last) \cup {slots}
    <2>1. CASE c = slots
      <3>1. c % slots = 0
        BY <1>5, <2>1
      <3> QED
        BY <1>2, <2>1, <3>1
    <2>2. CASE c \in 1 .. slots - 1
      <3>1. c % slots = c /\ c \in Nat /\ c # slots
        BY <1>5, <2>2
      <3>2. c <= b <=> c <= last
        BY <1>1, <1>2, <2>2 DEF LastBefore
      <3> QED
        BY <1>2, <2>2, <3>1, <3>2
    <2> QED
      BY <1>4, <2>1, <2>2
  <1>9. a + 1 .. last \subseteq 1 .. slots /\ (1 .. last) \cup {slots} \subseteq 1 .. slots
    BY <1>2
  <1> QED
    BY <1>0, <1>1, <1>7, <1>8, <1>9

LEMMA BetweenSize ==
    ASSUME NEW t \in Nat \ {0}, NEW slots \in Nat \ {0}, NEW x \in Nat, NEW y \in Nat,
           NEW a, a = Quotient(x, t), NEW last, last = LastBefore(slots, Quotient(y, t)), a <= last
    PROVE  /\ x # 0 => Cardinality(Between(t, slots, x, y)) = last - a
           /\ x = 0 => Cardinality(Between(t, slots, x, y)) = last + 1
  <1>1. PICK b : b = Quotient(y, t)
    OBVIOUS
  <1>2. a \in Nat /\ b \in Nat /\ last \in Nat /\ last < slots
    BY <1>1, QuotientBounds DEF LastBefore
  <1>3. CASE x # 0
    <2>1. Between(t, slots, x, y) = a + 1 .. last
      BY <1>3, BetweenIs
    <2>2. a + 1 \in Int /\ last \in Int
      BY <1>2
    <2>3. Cardinality(a + 1 .. last) = IF a + 1 > last THEN 0 ELSE last - (a + 1) + 1
      BY <2>2, FS_Interval
    <2> QED
      BY <1>2, <1>3, <2>1, <2>3
  <1>4. CASE x = 0
    <2>1. Between(t, slots, x, y) = (1 .. last) \cup {slots}
      BY <1>4, BetweenIs
    <2>2. 1 \in Int /\ last \in Int /\ slots \notin 1 .. last
      BY <1>2
    <2>3. /\ IsFiniteSet(1 .. last)
          /\ Cardinality(1 .. last) = IF 1 > last THEN 0 ELSE last - 1 + 1
      BY <2>2, FS_Interval
    <2>4. Cardinality((1 .. last) \cup {slots}) = Cardinality(1 .. last) + 1
      BY <2>2, <2>3, FS_AddElement
    <2>5. Cardinality(1 .. last) = last
      BY <1>2, <2>3
    <2>6. Cardinality(Between(t, slots, x, y)) = last + 1
      BY <2>1, <2>4, <2>5
    <2> QED
      BY <1>4, <2>6
  <1> QED
    BY <1>3, <1>4

\* A share of the slots is as large as the distance, but for one.
LEMMA BetweenCounts ==
    ASSUME NEW t \in Nat \ {0}, NEW slots \in Nat \ {0}, NEW x \in Nat, NEW y \in Nat,
           NEW d \in Nat, y = x + d, x < t * slots, y <= t * slots,
           NEW share, share = Cardinality(Between(t, slots, x, y))
    PROVE  (share + 1) * t >= d /\ share * t <= d + t
  <1>0. PICK a, b : a = Quotient(x, t) /\ b = Quotient(y, t)
    OBVIOUS
  <1>1. PICK last : last = LastBefore(slots, b)
    OBVIOUS
  <1>2. /\ a \in Nat /\ t * a <= x /\ x < t * (a + 1)
        /\ b \in Nat /\ t * b <= y /\ y < t * (b + 1)
    BY <1>0, QuotientBounds
  <1>3. /\ last \in Nat /\ last < slots
        /\ last = IF b < slots THEN b ELSE slots - 1
    BY <1>1, <1>2 DEF LastBefore
  <1>4. PICK ta, tb, tl, ts : ta = a * t /\ tb = b * t /\ tl = last * t /\ ts = slots * t
    OBVIOUS
  <1>5. /\ ta \in Nat /\ tb \in Nat /\ tl \in Nat /\ ts \in Nat
        /\ ta = t * a /\ tb = t * b /\ t * (a + 1) = ta + t /\ t * (b + 1) = tb + t
        /\ ts = t * slots
    BY <1>2, <1>3, <1>4
  <1>6. ta <= x /\ x < ta + t /\ tb <= y /\ y < tb + t
    BY <1>2, <1>5
  <1>7. a < slots
    <2>1. slots <= a => ts <= ta
      BY <1>2, <1>4, TimesIsMonotonic
    <2> QED
      BY <1>2, <1>4, <1>5, <1>6, <2>1
  <1>8. a <= b
    <2>1. b + 1 <= a => (b + 1) * t <= ta
      BY <1>2, <1>4, TimesIsMonotonic
    <2>2. (b + 1) * t = tb + t
      BY <1>2, <1>4
    <2> QED
      BY <1>2, <1>5, <1>6, <2>1, <2>2
  <1>9. tl <= y /\ y <= tl + t
    <2>1. CASE b < slots
      BY <1>3, <1>4, <1>5, <1>6, <2>1
    <2>2. CASE ~ (b < slots)
      <3>1. last = slots - 1
        BY <1>3, <2>2
      <3>2. tl = ts - t
        BY <1>4, <3>1
      <3>3. ts <= tb
        BY <1>2, <1>4, <2>2, TimesIsMonotonic
      <3> QED
        BY <1>4, <1>5, <1>6, <3>2, <3>3
    <2> QED
      BY <2>1, <2>2
  <1>10. a <= last
    BY <1>2, <1>3, <1>7, <1>8
  <1>11. /\ x # 0 => share = last - a
         /\ x = 0 => share = last + 1
    BY <1>0, <1>1, <1>10, BetweenSize
  <1>12. CASE x # 0
    <2>1. share * t = tl - ta /\ (share + 1) * t = tl - ta + t
      BY <1>2, <1>3, <1>4, <1>11, <1>12
    <2> QED
      BY <1>5, <1>6, <1>9, <2>1
  <1>13. CASE x = 0
    <2>1. share * t = tl + t /\ (share + 1) * t = tl + t + t
      BY <1>3, <1>4, <1>11, <1>13
    <2> QED
      BY <1>5, <1>9, <1>13, <2>1
  <1> QED
    BY <1>12, <1>13

\* The sums of the first weights grow.
Grows(u, n) == /\ \A i \in 0 .. n : u[i] \in Nat
               /\ \A i \in 1 .. n : u[i - 1] < u[i]

LEMMA SumsGrow ==
    ASSUME NEW n \in Nat, NEW u, Grows(u, n),
           NEW i \in 0 .. n, NEW j \in 0 .. n, i <= j
    PROVE  u[i] <= u[j]
  <1> USE DEF Grows
  <1> DEFINE S == {k \in Nat : i + k <= n => u[i] <= u[i + k]}
  <1>1. 0 \in S
    OBVIOUS
  <1>2. ASSUME NEW k \in Nat, k \in S
        PROVE  k + 1 \in S
    <2> SUFFICES ASSUME i + (k + 1) <= n
                 PROVE  u[i] <= u[i + (k + 1)]
      OBVIOUS
    <2>1. /\ i + k \in 0 .. n /\ i + (k + 1) \in 1 .. n /\ i + (k + 1) \in 0 .. n
          /\ (i + (k + 1)) - 1 = i + k
      OBVIOUS
    <2>2. u[i] <= u[i + k]
      BY <1>2, <2>1
    <2>3. u[i + k] < u[i + (k + 1)]
      BY <2>1
    <2>4. u[i] \in Nat /\ u[i + k] \in Nat /\ u[i + (k + 1)] \in Nat
      BY <2>1
    <2> QED
      BY <2>2, <2>3, <2>4
  <1> HIDE DEF S
  <1>3. \A k \in Nat : k \in S
    BY <1>1, <1>2, Induction
  <1>4. j - i \in Nat /\ i + (j - i) = j /\ j <= n
    OBVIOUS
  <1>5. j - i \in S
    BY <1>3, <1>4
  <1> QED
    BY <1>4, <1>5 DEF S

\* The i-th is the first to reach position p if p is behind the sum before it,
\* or if there is none before it.
Reaching(n, u, p) == {i \in 1 .. n : p <= u[i] * Slots}

LEMMA FirstToReach ==
    ASSUME NEW n \in Nat, NEW u, Grows(u, n), NEW p \in Nat,
           Reaching(n, u, p) # {}, NEW i \in 1 .. n
    PROVE  FirstOf(Reaching(n, u, p)) = i <=>
             p <= u[i] * Slots /\ (i = 1 \/ ~ (p <= u[i - 1] * Slots))
  <1>0. PICK reached : reached = Reaching(n, u, p)
    OBVIOUS
  <1>1. reached \subseteq Nat /\ reached # {} /\ Slots \in Nat
    BY <1>0, SelectionAssumption DEF Reaching
  <1>2. FirstOf(reached) \in reached /\ \A j \in reached : FirstOf(reached) <= j
    BY <1>1, FirstIs
  <1>3. PICK f : f = FirstOf(reached) /\ f \in 1 .. n /\ f \in reached
    BY <1>0, <1>2 DEF Reaching
  <1>4. \A j \in 1 .. n : j \in reached <=> p <= u[j] * Slots
    BY <1>0 DEF Reaching
  <1>5. ASSUME f = i
        PROVE  p <= u[i] * Slots /\ (i = 1 \/ ~ (p <= u[i - 1] * Slots))
    <2>1. p <= u[i] * Slots
      BY <1>3, <1>4, <1>5
    <2>2. ASSUME i # 1
          PROVE  ~ (p <= u[i - 1] * Slots)
      <3>1. i - 1 \in 1 .. n /\ ~ (i <= i - 1)
        BY <2>2
      <3>2. i - 1 \notin reached
        BY <1>2, <1>3, <1>5, <3>1
      <3> QED
        BY <1>4, <3>1, <3>2
    <2> QED
      BY <2>1, <2>2
  <1>6. ASSUME p <= u[i] * Slots, i = 1 \/ ~ (p <= u[i - 1] * Slots)
        PROVE  f = i
    <2>1. f <= i
      BY <1>2, <1>3, <1>4, <1>6
    <2>2. ASSUME f < i
          PROVE  FALSE
      <3>1. i # 1 /\ f \in 0 .. n /\ i - 1 \in 0 .. n /\ f <= i - 1
        BY <1>3, <2>2
      <3>2. u[f] <= u[i - 1] /\ u[f] \in Nat /\ u[i - 1] \in Nat
        BY <3>1, SumsGrow DEF Grows
      <3>3. /\ u[f] * Slots <= u[i - 1] * Slots
            /\ u[f] * Slots \in Nat /\ u[i - 1] * Slots \in Nat
        BY <1>1, <3>2, TimesIsMonotonic
      <3>4. p <= u[f] * Slots
        BY <1>3, <1>4
      <3>5. p <= u[i - 1] * Slots
        BY <3>3, <3>4
      <3> QED
        BY <1>6, <3>1, <3>5
    <2> QED
      BY <1>3, <2>1, <2>2
  <1> QED
    BY <1>0, <1>3, <1>5, <1>6

\* Round robin picks the i-th of n servers for one counter of n in a row.
LEMMA RoundRobinShare ==
    ASSUME IInv, NEW list, list = filterOnline(servers, metrics),
           NEW n \in Nat, n = Len(list), NEW i \in 1 .. n
    PROVE  Share("roundrobin", servers, metrics, list[i], n) = 1
  <1>1. /\ n \in Nat \ {0} /\ list # <<>>
        /\ \A j \in 1 .. n : list[i].id = list[j].id => i = j
    BY LeftAre
  <1>2. PICK last : last = IF i = 1 THEN n ELSE i - 1
    OBVIOUS
  <1>3. ASSUME NEW c \in 1 .. n
        PROVE  list[i] \in Pick("roundrobin", servers, metrics, c) <=> c = last
    <2>1. PICK k : k = (c % n) + 1
      OBVIOUS
    <2>2. Pick("roundrobin", servers, metrics, c) = {list[k]}
      BY <1>1, <2>1 DEF Pick, roundRobin
    <2>3. c = n \/ c \in 1 .. n - 1
      BY <1>1
    <2>4. /\ c = n => k = 1
          /\ c \in 1 .. n - 1 => k = c + 1
      BY <1>1, <2>1, RemaindersOfARound
    <2>5. k \in 1 .. n /\ (k = i <=> c = last)
      BY <1>1, <1>2, <2>3, <2>4
    <2>6. list[i] = list[k] <=> i = k
      BY <1>1, <2>5
    <2> QED
      BY <2>2, <2>5, <2>6
  <1>4. last \in 1 .. n
    BY <1>1, <1>2
  <1>5. {c \in 1 .. n : list[i] \in Pick("roundrobin", servers, metrics, c)} = {last}
    BY <1>3, <1>4
  <1> QED
    BY <1>5, FS_Singleton DEF Share

\* The position of a counter, under a name for the same reason.
Position(c, total) == (c % Slots) * total

LEMMA PositionIs ==
    ASSUME NEW c \in Nat, NEW total \in Nat
    PROVE  Position(c, total) \in Nat /\ Position(c, total) <= total * Slots
  <1>1. PICK q : q = c % Slots
    OBVIOUS
  <1>2. q \in Nat /\ Slots \in Nat /\ q <= Slots
    BY <1>1, Remainder, SelectionAssumption
  <1>3. q * total \in Nat /\ q * total <= Slots * total
    BY <1>2, TimesIsMonotonic
  <1>4. Slots * total = total * Slots
    BY <1>2
  <1> QED
    BY <1>1, <1>3, <1>4 DEF Position

\* Weighted round robin picks it for the counters whose position lies between
\* the sum of the weights before it and the sum with its own.
LEMMA WeightedPicks ==
    ASSUME IInv, NEW list, list = filterOnline(servers, metrics),
           NEW n \in Nat, n = Len(list), NEW i \in 1 .. n,
           NEW u, u = WeightUpTo(list), NEW total, total = u[n],
           Grows(u, n),
           NEW c \in 1 .. Slots, NEW p, p = Position(c, total)
    PROVE  list[i] \in Pick("weighted", servers, metrics, c) <=>
             p <= u[i] * Slots /\ (i = 1 \/ ~ (p <= u[i - 1] * Slots))
  <1>1. /\ n \in Nat \ {0} /\ list # <<>> /\ DOMAIN list = 1 .. n
        /\ \A j \in 1 .. n : list[i].id = list[j].id => i = j
    BY LeftAre
  <1>2. PICK reached : reached = Reaching(n, u, p)
    OBVIOUS
  <1>2a. p \in Nat /\ p <= total * Slots
    <2>1. n \in 0 .. n /\ c \in Nat
      BY SelectionAssumption
    <2> QED
      BY <2>1, PositionIs DEF Grows
  <1>3. n \in reached /\ reached \subseteq 1 .. n
    BY <1>1, <1>2, <1>2a DEF Reaching
  <1>4. Slots \in Nat /\ reached # {}
    BY <1>3, SelectionAssumption
  <1>5. FirstOf(reached) \in 1 .. n
    <2>1. reached \subseteq Nat
      BY <1>3
    <2>2. FirstOf(reached) \in reached
      BY <1>4, <2>1, FirstIs
    <2> QED
      BY <1>3, <2>2
  <1>6. reached = {j \in DOMAIN list : (c % Slots) * total <= u[j] * Slots}
    BY <1>1, <1>2 DEF Position, Reaching
  <1>7. weightedRoundRobin(list, c) = {list[FirstOf(reached)]}
    BY <1>1, <1>6, Zenon DEF weightedRoundRobin
  <1>8. Pick("weighted", servers, metrics, c) = {list[FirstOf(reached)]}
    BY <1>1, <1>7 DEF Pick
  <1>9. list[i] \in Pick("weighted", servers, metrics, c) <=> FirstOf(reached) = i
    BY <1>1, <1>5, <1>8
  <1>10. FirstOf(reached) = i <=>
           p <= u[i] * Slots /\ (i = 1 \/ ~ (p <= u[i - 1] * Slots))
    BY <1>2, <1>2a, <1>4, FirstToReach
  <1> QED
    BY <1>9, <1>10

LEMMA WeightedShare ==
    ASSUME IInv, NEW list, list = filterOnline(servers, metrics),
           NEW n \in Nat, n = Len(list), NEW i \in 1 .. n,
           NEW total, total = WeightUpTo(list)[n],
           NEW w, w = UserWeight(list[i]),
           NEW share, share = Share("weighted", servers, metrics, list[i], Slots)
    PROVE  /\ (share + 1) * total >= w * Slots
           /\ share * total <= w * Slots + total
  <1>1. PICK u : u = WeightUpTo(list)
    OBVIOUS
  <1>2. /\ u[0] = 0 /\ \A j \in 0 .. n : u[j] \in Nat
        /\ \A j \in 1 .. n : /\ UserWeight(list[j]) \in Nat \ {0}
                             /\ u[j] = u[j - 1] + UserWeight(list[j])
    <2>1. \A j \in 1 .. n : list[j].weight \in Nat
      BY LeftAre
    <2> QED
      BY <1>1, <2>1, SumsAre
  <1>3. ASSUME NEW j \in 1 .. n
        PROVE  u[j - 1] < u[j]
    <2>1. j - 1 \in 0 .. n /\ j \in 0 .. n
      OBVIOUS
    <2>2. /\ u[j - 1] \in Nat /\ u[j] \in Nat /\ UserWeight(list[j]) \in Nat \ {0}
          /\ u[j] = u[j - 1] + UserWeight(list[j])
      BY <1>2, <2>1
    <2> QED
      BY <2>2
  <1>3a. Grows(u, n)
    BY <1>2, <1>3 DEF Grows
  <1>4. Slots \in Nat \ {0}
    BY SelectionAssumption
  <1>5. PICK before, upto : before = u[i - 1] /\ upto = u[i]
    OBVIOUS
  <1>6. /\ before \in Nat /\ upto \in Nat /\ total \in Nat /\ w \in Nat \ {0}
        /\ upto = before + w /\ upto <= total
    <2>1. i - 1 \in 0 .. n /\ i \in 0 .. n /\ n \in 0 .. n /\ i <= n
      OBVIOUS
    <2>2. u[i] <= u[n]
      BY <1>3a, <2>1, SumsGrow
    <2> QED
      BY <1>1, <1>2, <1>5, <2>1, <2>2
  <1>7. before = 0 <=> i = 1
    <2>1. CASE i = 1
      BY <1>2, <1>5, <2>1
    <2>2. CASE i # 1
      <3>1. 0 \in 0 .. n /\ i - 1 \in 0 .. n /\ i - 1 \in 1 .. n /\ (i - 1) - 1 \in 0 .. n
        BY <2>2
      <3>2. u[(i - 1) - 1] < u[i - 1] /\ u[(i - 1) - 1] \in Nat
        BY <1>2, <1>3, <3>1
      <3> QED
        BY <1>5, <1>6, <2>2, <3>2
    <2> QED
      BY <2>1, <2>2
  <1>8. PICK x, y, d : x = before * Slots /\ y = upto * Slots /\ d = w * Slots
    OBVIOUS
  <1>9. /\ x \in Nat /\ y \in Nat /\ d \in Nat /\ y = x + d
        /\ x = 0 <=> i = 1
    <2>1. x \in Nat /\ y \in Nat /\ d \in Nat
      BY <1>4, <1>6, <1>8, TimesIsNat
    <2>2. y = x + d
      BY <1>4, <1>6, <1>8
    <2>3. before = 0 => x = 0
      BY <1>4, <1>8
    <2>4. ASSUME before # 0
          PROVE  x # 0
      <3>1. 1 <= before
        BY <1>6, <2>4
      <3>2. 1 * Slots <= before * Slots
        BY <1>4, <1>6, <3>1, TimesIsMonotonic
      <3> QED
        BY <1>4, <1>8, <2>1, <3>2
    <2> QED
      BY <1>7, <2>1, <2>2, <2>3, <2>4
  <1>10. total \in Nat \ {0}
    BY <1>6
  <1>11. total * Slots \in Nat
    BY <1>4, <1>10
  <1>12. x < total * Slots /\ y <= total * Slots
    <2>1. y <= total * Slots
      <3>1. upto * Slots <= total * Slots
        BY <1>4, <1>6, TimesIsMonotonic
      <3> QED
        BY <1>8, <3>1
    <2>2. d # 0
      <3>1. 1 <= w
        BY <1>6
      <3>2. 1 * Slots <= w * Slots
        BY <1>4, <1>6, <3>1, TimesIsMonotonic
      <3> QED
        BY <1>4, <1>8, <1>9, <3>2
    <2> QED
      BY <1>9, <1>11, <2>1, <2>2
  <1>13. ASSUME NEW c \in 1 .. Slots
         PROVE  list[i] \in Pick("weighted", servers, metrics, c) <=>
                  /\ Position(c, total) <= y
                  /\ x = 0 \/ ~ (Position(c, total) <= x)
    <2>3. PICK p : p = Position(c, total)
      OBVIOUS
    <2>5. list[i] \in Pick("weighted", servers, metrics, c) <=>
            p <= u[i] * Slots /\ (i = 1 \/ ~ (p <= u[i - 1] * Slots))
      BY <1>1, <1>3a, <2>3, WeightedPicks
    <2>6. u[i] * Slots = y /\ u[i - 1] * Slots = x
      BY <1>5, <1>8
    <2> QED
      BY <1>9, <2>3, <2>5, <2>6
  <1>14. {c \in 1 .. Slots : list[i] \in Pick("weighted", servers, metrics, c)} =
           Between(total, Slots, x, y)
    BY <1>13 DEF Between, Position
  <1>15. share = Cardinality(Between(total, Slots, x, y))
    BY <1>14 DEF Share
  <1>16. (share + 1) * total >= d /\ share * total <= d + total
    BY <1>4, <1>9, <1>10, <1>11, <1>12, <1>15, BetweenCounts
  <1> QED
    BY <1>8, <1>16

\* However many servers there are and whatever the weights, round robin deals
\* out the connections evenly and weighted round robin by weight, but for one
\* connection in a round (roundRobin, weightedRoundRobin).
THEOREM SharesFair == Spec => []PicksAreShared
  <1>1. ASSUME IInv
        PROVE  SharesAreFair(servers, metrics)
    <2>1. PICK list, n, total : /\ list = filterOnline(servers, metrics)
                                /\ n = Len(list) /\ total = WeightUpTo(list)[n]
      OBVIOUS
    <2>2. n \in Nat /\ DOMAIN list = 1 .. n
      BY <1>1, <2>1, LeftAre
    <2>3. ASSUME NEW i \in 1 .. n
          PROVE  Share("roundrobin", servers, metrics, list[i], n) = 1
      BY <1>1, <2>1, <2>2, RoundRobinShare
    <2>4. ASSUME NEW i \in 1 .. n, NEW share, NEW exact,
                 share = Share("weighted", servers, metrics, list[i], Slots),
                 exact = UserWeight(list[i]) * Slots
          PROVE  (share + 1) * total >= exact /\ share * total <= exact + total
      BY <1>1, <2>1, <2>2, <2>4, WeightedShare
    <2> QED
      BY <2>1, <2>2, <2>3, <2>4, Zenon DEF SharesAreFair
  <1>2. ASSUME IInv
        PROVE  PicksAreShared
    BY <1>1, <1>2 DEF PicksAreShared
  <1> QED
    BY <1>2, Invariance, PTL
==============================================================================
