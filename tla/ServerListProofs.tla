--------------------------- MODULE ServerListProofs ---------------------------
(* How the server list of ConfigStore changes, for all values of the         *)
(* constants, and that its IDs stay unique while requests do not overlap.    *)
EXTENDS ConfigStoreSerial, ConfigStoreProofs
-----------------------------------------------------------------------------
(* The lists in memory.                                                      *)

\* The server list as a sequence.
LEMMA ListNow ==
    ASSUME IInv
    PROVE  /\ ServerList \in Seq(Server) /\ Len(ServerList) = cfg.servers.len
           /\ DOMAIN ServerList = 1 .. cfg.servers.len
           /\ \A i \in 1 .. cfg.servers.len : ServerList[i] = heap[cfg.servers.arr][i]
           /\ cfg.servers.len \in Nat
  <1>1. SliceOK(heap, cfg.servers, Server) /\ cfg.servers.len \in Nat
    BY ServerFacts
  <1>2. PICK s : s = cfg.servers
    OBVIOUS
  <1>3. /\ Elements(heap, s) \in Seq(Server) /\ Len(Elements(heap, s)) = s.len
        /\ \A i \in 1 .. s.len : Elements(heap, s)[i] = heap[s.arr][i]
    BY <1>1, <1>2, ElementsKind
  <1> QED
    BY <1>1, <1>2, <1>3, LenProperties DEF ServerList

\* The same after a step.
LEMMA ListNext ==
    ASSUME IInv'
    PROVE  /\ ServerList' \in Seq(Server) /\ Len(ServerList') = cfg'.servers.len
           /\ DOMAIN ServerList' = 1 .. cfg'.servers.len
           /\ \A i \in 1 .. cfg'.servers.len : ServerList'[i] = heap'[cfg'.servers.arr][i]
  <1>1. ConfigOK(heap', cfg')
    BY DEF IInv, TypeOK
  <1>2. PICK s, mem : s = cfg'.servers /\ mem = heap'
    OBVIOUS
  <1>3. /\ Elements(mem, s) \in Seq(Server) /\ Len(Elements(mem, s)) = s.len
        /\ \A i \in 1 .. s.len : Elements(mem, s)[i] = mem[s.arr][i]
    BY <1>1, <1>2, ElementsKind DEF ConfigOK
  <1> QED
    BY <1>2, <1>3, LenProperties DEF ServerList

\* A slice reads as before if its array is as before.
LEMMA SameArray ==
    ASSUME NEW mem, NEW mem2, NEW s, NEW t, mem2[s.arr] = mem[s.arr], t = s
    PROVE  Elements(mem2, t) = Elements(mem, s)
  BY DEF Elements

\* The arrays of a configuration in use.
LEMMA StoreArrays ==
    ASSUME IInv, up
    PROVE  /\ cfg.servers.arr \in Arrays /\ cfg.rules.arr \in Arrays
           /\ cfg.servers.arr # cfg.rules.arr
           /\ cfg.servers.arr \in Live /\ cfg.rules.arr \in Live
  <1>1. cfg \in InUse /\ cfg \in Config
    BY InUseFacts
  <1> QED
    BY <1>1, InUseFacts DEF IInv, Separate, Config, Slice
-----------------------------------------------------------------------------
(* The store calls.                                                          *)

\* The rules and the setting of the document stay.
RestStays ==
    /\ Elements(heap, cfg.rules)' = Elements(heap, cfg.rules)
    /\ cfg'.setting = cfg.setting

LEMMA AddServerList ==
    ASSUME IInv, NEW srv \in Server, AddServer(srv)
    PROVE  /\ srv.id \notin Ids(ServerList)
           /\ ServerList' = Append(ServerList, srv)
           /\ RestStays
  <1> DEFINE a == cfg.servers.arr
             n == cfg.servers.len
  <1>1. IInv' /\ up /\ n \in Nat
    BY AddInPlaceIInv, AddGrownIInv, ListNow DEF AddServer, AppendServer
  <1>2. srv.id \notin Ids(ServerList)
    BY DEF AddServer, ServerList
  <1>3. /\ cfg'.servers.len = n + 1
        /\ \A j \in 1 .. n : heap'[cfg'.servers.arr][j] = ServerList[j]
        /\ heap'[cfg'.servers.arr][n + 1] = srv
        /\ cfg'.rules = cfg.rules /\ cfg'.setting = cfg.setting
        /\ heap'[cfg.rules.arr] = heap[cfg.rules.arr]
    <2>1. CASE n # Len(heap[a])
      <3>1. /\ heap' = [heap EXCEPT ![a][n + 1] = srv]
            /\ cfg' = [cfg EXCEPT !.servers.len = n + 1]
        BY <2>1 DEF AddServer, AppendServer
      <3>2. PICK m \in Nat : m = n + 1
        BY <1>1
      <3>3. /\ cfg'.servers = [arr |-> a, len |-> n + 1]
            /\ cfg'.rules = cfg.rules /\ cfg'.setting = cfg.setting
        <4>1. PICK c, d : c = cfg /\ d = cfg'
          OBVIOUS
        <4>2. c \in Config /\ d = [c EXCEPT !.servers.len = m]
          BY <3>1, <3>2, <4>1, ServerFacts
        <4>3. /\ d.servers = [arr |-> c.servers.arr, len |-> m]
              /\ d.rules = c.rules /\ d.setting = c.setting
          BY <4>2, ServersResized
        <4> QED
          BY <3>2, <4>1, <4>3
      <3>4. n + 1 \in 1 .. Len(heap[a]) /\ srv \in Slot /\ heap[a] \in Seq(Slot)
        BY <2>1, ServerFacts DEF Slot
      <3>5. \A j \in 1 .. Len(heap[a]) :
               [heap[a] EXCEPT ![n + 1] = srv][j] = IF j = n + 1 THEN srv ELSE heap[a][j]
        BY <3>4, SlotWritten
      <3>6. heap'[a] = [heap[a] EXCEPT ![n + 1] = srv] /\ heap'[cfg.rules.arr] = heap[cfg.rules.arr]
        BY <1>1, <3>1, StoreArrays, InUseFacts DEF HeapOK
      <3>7. \A j \in 1 .. n : j \in 1 .. Len(heap[a]) /\ j # n + 1
        BY <1>1, <3>4, ServerFacts
      <3>8. cfg'.servers.len = n + 1 /\ cfg'.servers.arr = a
        BY <3>3
      <3>9. \A j \in 1 .. n : heap'[a][j] = ServerList[j]
        BY <3>5, <3>6, <3>7, ListNow
      <3>10. heap'[a][n + 1] = srv
        BY <3>4, <3>5, <3>6
      <3> QED
        BY <3>3, <3>6, <3>8, <3>9, <3>10
    <2>2. CASE n = Len(heap[a])
      <3>1. /\ Fresh \in Arrays /\ Fresh \notin Live
            /\ cfg' = [cfg EXCEPT !.servers = [arr |-> Fresh, len |-> n + 1]]
        BY <2>2, FreshIsFree DEF AddServer, AppendServer
      <3>2. PICK c \in Capacities :
               /\ IsCapacityFor(c, n + 1)
               /\ heap' = [heap EXCEPT ![Fresh] = ArrayOf(Append(ServerList, srv), c)]
        BY <2>2 DEF AddServer, AppendServer, ServerList
      <3>3. /\ cfg'.servers = [arr |-> Fresh, len |-> n + 1]
            /\ cfg'.rules = cfg.rules /\ cfg'.setting = cfg.setting
        BY <3>1, ServerFacts DEF Config
      <3>4. /\ Append(ServerList, srv) \in Seq(Server)
            /\ Len(Append(ServerList, srv)) = n + 1
            /\ \A j \in 1 .. n : Append(ServerList, srv)[j] = ServerList[j]
            /\ Append(ServerList, srv)[n + 1] = srv
        BY ListNow, AppendProperties
      <3>5. Append(ServerList, srv) \in Seq(Slot) /\ c \in Nat /\ n + 1 <= c
        BY <3>2, <3>4, SeqMonotonic, ConstantsAssumption DEF IsCapacityFor, Slot
      <3>6. \A j \in 1 .. n + 1 :
               ArrayOf(Append(ServerList, srv), c)[j] = Append(ServerList, srv)[j]
        BY <3>4, <3>5, ArrayMade DEF Slot
      <3>7. /\ heap'[Fresh] = ArrayOf(Append(ServerList, srv), c)
            /\ heap'[cfg.rules.arr] = heap[cfg.rules.arr]
        BY <1>1, <3>1, <3>2, StoreArrays, InUseFacts DEF HeapOK
      <3>8. n + 1 \in 1 .. n + 1 /\ \A j \in 1 .. n : j \in 1 .. n + 1
        BY <1>1
      <3> QED
        BY <3>3, <3>4, <3>6, <3>7, <3>8
    <2> QED
      BY <2>1, <2>2
  <1>4. ServerList' = Append(ServerList, srv)
    <2>1. /\ ServerList \in Seq(Server) /\ Len(ServerList) = n
          /\ ServerList' \in Seq(Server) /\ Len(ServerList') = n + 1
          /\ \A j \in 1 .. n + 1 : ServerList'[j] = heap'[cfg'.servers.arr][j]
      BY <1>1, <1>3, ListNow, ListNext
    <2>2. /\ Append(ServerList, srv) \in Seq(Server)
          /\ Len(Append(ServerList, srv)) = n + 1
          /\ \A j \in 1 .. n : Append(ServerList, srv)[j] = ServerList[j]
          /\ Append(ServerList, srv)[n + 1] = srv
      BY <2>1, AppendProperties
    <2>3. \A j \in 1 .. n + 1 : j \in 1 .. n \/ j = n + 1
      BY <1>1
    <2>4. \A j \in 1 .. n + 1 : ServerList'[j] = Append(ServerList, srv)[j]
      BY <1>3, <2>1, <2>2, <2>3
    <2> QED
      BY <2>1, <2>2, <2>4, SeqEqual
  <1>5. RestStays
    BY <1>3 DEF RestStays, Elements
  <1> QED
    BY <1>2, <1>4, <1>5

LEMMA UpdateServerList ==
    ASSUME IInv, NEW srv \in Server, UpdateServer(srv)
    PROVE  /\ \E i \in DOMAIN ServerList :
                /\ ServerList[i].id = srv.id
                /\ ServerList' = [ServerList EXCEPT ![i] = srv]
           /\ RestStays
  <1> DEFINE a == cfg.servers.arr
             n == cfg.servers.len
  <1>1. IInv' /\ up /\ cfg' = cfg
    BY UpdateServerIInv DEF UpdateServer
  <1>2. PICK i \in 1 .. n :
           /\ FoundAt(ServerList, srv.id, i)
           /\ heap' = [heap EXCEPT ![a][i] = srv]
    BY DEF UpdateServer, ServerList
  <1>3. heap[a] \in Seq(Slot) /\ n <= Len(heap[a]) /\ srv \in Slot /\ n \in Nat
    BY ServerFacts DEF Slot
  <1>4. /\ heap'[a] = [heap[a] EXCEPT ![i] = srv]
        /\ heap'[cfg.rules.arr] = heap[cfg.rules.arr]
    BY <1>1, <1>2, StoreArrays, InUseFacts DEF HeapOK
  <1>5. \A j \in 1 .. n : heap'[a][j] = IF j = i THEN srv ELSE heap[a][j]
    <2>1. Len(heap[a]) \in Nat
      BY <1>3, LenProperties
    <2>2. i \in 1 .. Len(heap[a]) /\ \A j \in 1 .. n : j \in 1 .. Len(heap[a])
      BY <1>3, <2>1
    <2> QED
      BY <1>3, <1>4, <2>2, SlotWritten
  <1>6. /\ ServerList \in Seq(Server) /\ Len(ServerList) = n /\ DOMAIN ServerList = 1 .. n
        /\ \A j \in 1 .. n : ServerList[j] = heap[a][j]
        /\ ServerList' \in Seq(Server) /\ Len(ServerList') = n
        /\ \A j \in 1 .. n : ServerList'[j] = heap'[a][j]
    BY <1>1, ListNow, ListNext
  <1>7. /\ [ServerList EXCEPT ![i] = srv] \in Seq(Server)
        /\ Len([ServerList EXCEPT ![i] = srv]) = n
        /\ \A j \in 1 .. n :
             [ServerList EXCEPT ![i] = srv][j] = IF j = i THEN srv ELSE ServerList[j]
    BY <1>6, ExceptSeq
  <1>8. ServerList' = [ServerList EXCEPT ![i] = srv]
    <2>1. \A j \in 1 .. n : ServerList'[j] = [ServerList EXCEPT ![i] = srv][j]
      BY <1>5, <1>6, <1>7
    <2> QED
      BY <1>6, <1>7, <2>1, SeqEqual
  <1>9. ServerList[i].id = srv.id /\ i \in DOMAIN ServerList
    BY <1>2, <1>6 DEF FoundAt
  <1>10. RestStays
    BY <1>1, <1>4 DEF RestStays, Elements
  <1> QED
    BY <1>8, <1>9, <1>10

\* A list without its i-th element.
WithoutAt(list, i) == [j \in 1 .. Len(list) - 1 |-> list[IF j < i THEN j ELSE j + 1]]

LEMMA DeleteServerList ==
    ASSUME IInv, NEW id \in ServerIds, DeleteServer(id)
    PROVE  /\ \E i \in DOMAIN ServerList :
                /\ FoundAt(ServerList, id, i)
                /\ ServerList' = WithoutAt(ServerList, i)
           /\ RestStays
  <1> DEFINE a == cfg.servers.arr
             n == cfg.servers.len
  <1>1. IInv' /\ up /\ n \in Nat
    BY DeleteServerIInv, ListNow DEF DeleteServer
  <1>2. PICK i \in 1 .. n :
           /\ FoundAt(ServerList, id, i)
           /\ heap' = [heap EXCEPT ![a] = ShiftedArray(@, i, n)]
    BY DEF DeleteServer, ServerList
  <1>3. PICK m \in Nat : m = n - 1
    BY <1>1, <1>2
  <1>4. cfg'.servers = [arr |-> a, len |-> m] /\ cfg'.rules = cfg.rules /\ cfg'.setting = cfg.setting
    <2>1. cfg' = [cfg EXCEPT !.servers.len = m]
      BY <1>3 DEF DeleteServer
    <2>2. PICK c, d : c = cfg /\ d = cfg'
      OBVIOUS
    <2>3. c \in Config /\ d = [c EXCEPT !.servers.len = m]
      BY <2>1, <2>2, ServerFacts
    <2>4. /\ d.servers = [arr |-> c.servers.arr, len |-> m]
          /\ d.rules = c.rules /\ d.setting = c.setting
      BY <2>3, ServersResized
    <2> QED
      BY <2>2, <2>4
  <1>5. heap[a] \in Seq(Slot) /\ n <= Len(heap[a]) /\ Len(heap[a]) \in Nat
    BY ServerFacts
  <1>6. /\ heap'[a] = ShiftedArray(heap[a], i, n)
        /\ heap'[cfg.rules.arr] = heap[cfg.rules.arr]
    BY <1>1, <1>2, StoreArrays, InUseFacts DEF HeapOK
  <1>7. \A j \in 1 .. m : heap'[a][j] = heap[a][IF j < i THEN j ELSE j + 1]
    <2>1. \A j \in 1 .. Len(heap[a]) :
             heap'[a][j] = IF i <= j /\ j < n THEN heap[a][j + 1] ELSE heap[a][j]
      <3>1. PICK q \in Seq(Slot), k \in Nat : q = heap[a] /\ k = n
        BY <1>1, <1>5
      <3>2. i \in Nat /\ 1 <= i /\ k <= Len(q)
        BY <1>1, <1>5, <3>1
      <3>3. \A j \in 1 .. Len(q) : ShiftedArray(q, i, k)[j] =
                                      IF i <= j /\ j < k THEN q[j + 1] ELSE q[j]
        BY <3>2, ArrayShifted
      <3> QED
        BY <1>6, <3>1, <3>3
    <2>2. \A j \in 1 .. m : j \in 1 .. Len(heap[a]) /\ j < n /\ (i <= j <=> ~(j < i))
      BY <1>1, <1>3, <1>5
    <2> QED
      BY <2>1, <2>2
  <1>8. /\ ServerList \in Seq(Server) /\ Len(ServerList) = n /\ DOMAIN ServerList = 1 .. n
        /\ \A j \in 1 .. n : ServerList[j] = heap[a][j]
        /\ ServerList' \in Seq(Server) /\ DOMAIN ServerList' = 1 .. m
        /\ \A j \in 1 .. m : ServerList'[j] = heap'[a][j]
    BY <1>1, <1>4, ListNow, ListNext
  <1>9. ServerList' = WithoutAt(ServerList, i)
    <2>1. \A j \in 1 .. m : (IF j < i THEN j ELSE j + 1) \in 1 .. n
      BY <1>1, <1>3
    <2>2. \A j \in 1 .. m : ServerList'[j] = ServerList[IF j < i THEN j ELSE j + 1]
      BY <1>7, <1>8, <2>1
    <2>3. ServerList' \in [1 .. m -> Server]
      BY <1>4, <1>8, ListNext, <1>1, LenProperties
    <2>4. ServerList' = [j \in 1 .. m |-> ServerList[IF j < i THEN j ELSE j + 1]]
      BY <2>2, <2>3
    <2> QED
      BY <1>3, <1>8, <2>4 DEF WithoutAt
  <1>10. RestStays
    BY <1>4, <1>6 DEF RestStays, Elements
  <1> QED
    BY <1>2, <1>8, <1>9, <1>10

\* A restore makes the uploaded document the configuration.
LEMMA ImportDocument ==
    ASSUME IInv, NEW doc \in Backups, Import(doc)
    PROVE  Contents(heap', cfg') = doc /\ Restored(doc)
  <1>1. doc \in Document /\ up /\ Load(doc, FreshPair[1], FreshPair[2])
    BY ConstantsAssumption DEF Import
  <1>2. /\ FreshPair[1] \in Arrays /\ FreshPair[2] \in Arrays
        /\ FreshPair[1] # FreshPair[2]
    BY FreshPairIsFree DEF Import
  <1>3. Contents(heap', cfg') = doc
    BY <1>1, <1>2, InUseFacts, LoadFacts
  <1>4. {cfg'.servers.arr, cfg'.rules.arr} \subseteq Free
    <2>1. cfg' = Decoded(doc, FreshPair[1], FreshPair[2])
      BY <1>1 DEF Load
    <2>2. FreshPair[1] \in Free /\ FreshPair[2] \in Free
      BY FreshPairIsFree DEF Import, Free
    <2> QED
      BY <2>1, <2>2 DEF Decoded
  <1> QED
    BY <1>1, <1>3, <1>4 DEF Import, Restored, Contents
-----------------------------------------------------------------------------
(* The handlers.                                                             *)

\* No step of a handler but SaveConfig touches the server list, whatever array
\* it writes.
LEMMA HandlerLeavesServers ==
    ASSUME IInv, NEW h \in Handlers, HandlerStep(h), ~SaveConfig(h)
    PROVE  ServerList' = ServerList /\ cfg' = cfg
  <1>1. SUFFICES cfg' = cfg /\ heap'[cfg.servers.arr] = heap[cfg.servers.arr]
    BY DEF ServerList, Elements
  <1>2. CASE Begin(h) \/ BadRequest(h) \/ EditSetting(h) \/ FindRule(h) \/ RuleNotFound(h)
    BY <1>2 DEF Begin, BadRequest, EditSetting, FindRule, RuleNotFound
  <1>3. ASSUME Busy(h)
        PROVE  /\ req[h].cfg.rules.arr # cfg.servers.arr
               /\ cfg.servers.arr \in Live
    BY <1>3, BusyFacts, InUseFacts DEF IInv, Separate
  <1>4. CASE PutRule(h)
    <2>1. heap' = [heap EXCEPT ![req[h].cfg.rules.arr] =
                     [@ EXCEPT ![req[h].at] = req[h].arg]]
      BY <1>4 DEF PutRule
    <2> QED
      BY <1>3, <1>4, <2>1, InUseFacts DEF PutRule, HeapOK
  <1>5. CASE ShiftRules(h)
    BY <1>3, <1>5, InUseFacts DEF ShiftRules, HeapOK
  <1>6. CASE AppendRule(h)
    <2>1. Busy(h) /\ cfg' = cfg
      BY <1>6 DEF AppendRule
    <2>2. PICK s : s = req[h].cfg.rules
      OBVIOUS
    <2>3. CASE s.len # Len(heap[s.arr])
      <3>1. heap' = [heap EXCEPT ![s.arr] = [@ EXCEPT ![s.len + 1] = req[h].arg]]
        BY <1>6, <2>2, <2>3 DEF AppendRule
      <3> QED
        BY <1>3, <2>1, <2>2, <3>1, InUseFacts DEF HeapOK
    <2>4. CASE s.len = Len(heap[s.arr])
      <3>1. Free # {} /\ \E new : heap' = [heap EXCEPT ![Fresh] = new]
        BY <1>6, <2>2, <2>4 DEF AppendRule
      <3> QED
        BY <1>3, <2>1, <3>1, FreshIsFree, InUseFacts DEF HeapOK
    <2> QED
      BY <2>3, <2>4
  <1> QED
    BY <1>2, <1>4, <1>5, <1>6 DEF HandlerStep

\* A save puts back the servers of the copy it was given.
LEMMA SaveServers ==
    ASSUME IInv, NEW h \in Handlers, SaveConfig(h)
    PROVE  /\ Saved(h)
           /\ req[h].cfg.servers = cfg.servers => ServerList' = ServerList
  <1>1. /\ req[h].pc = "save" /\ cfg' = req[h].cfg /\ heap' = heap
        /\ req' = [req EXCEPT ![h] = Idle] /\ DOMAIN req = Handlers
    BY DEF SaveConfig, IInv, TypeOK
  <1> QED
    BY <1>1 DEF Saved, ServerList, Elements

-----------------------------------------------------------------------------
(* How the list changes.                                                     *)

LEMMA UpdatedBySlot ==
    ASSUME NEW list \in Seq(Server), NEW srv \in Server, NEW i \in DOMAIN list,
           list[i].id = srv.id
    PROVE  Updated(list, [list EXCEPT ![i] = srv])
  BY DEF Updated

LEMMA DeletedWithout ==
    ASSUME NEW list, NEW id, NEW i \in DOMAIN list, FoundAt(list, id, i)
    PROVE  Deleted(list, WithoutAt(list, i))
  <1>1. FoundAt(list, list[i].id, i)
    BY DEF FoundAt
  <1> QED
    BY <1>1 DEF Deleted, WithoutAt

\* The formula of ServerListChanges.
ListStep ==
    ServerList' # ServerList =>
      \/ /\ UNCHANGED req
         /\ \/ Added(ServerList, ServerList')
            \/ Updated(ServerList, ServerList')
            \/ Deleted(ServerList, ServerList')
      \/ \E doc \in Backups : Restored(doc)
      \/ up' # up
      \/ \E h \in Handlers : Saved(h) /\ req[h].cfg.servers # cfg.servers

LEMMA NextListStep ==
    ASSUME IInv, [Next]_vars
    PROVE  ListStep
  <1>1. CASE NewDefault \/ NewFromFile \/ Crash
    BY <1>1 DEF NewDefault, NewFromFile, Crash, ListStep
  <1>2. ASSUME NEW srv \in Server, AddServer(srv)
        PROVE  ListStep
    BY <1>2, AddServerList DEF ListStep, Added, AddServer, AppendServer
  <1>3. ASSUME NEW srv \in Server, UpdateServer(srv)
        PROVE  ListStep
    <2>1. UNCHANGED req
      BY <1>3 DEF UpdateServer
    <2>2. Updated(ServerList, ServerList')
      BY <1>3, UpdateServerList, ListNow, UpdatedBySlot
    <2> QED
      BY <2>1, <2>2 DEF ListStep
  <1>4. ASSUME NEW id \in ServerIds, DeleteServer(id)
        PROVE  ListStep
    <2>1. UNCHANGED req
      BY <1>4 DEF DeleteServer
    <2>2. Deleted(ServerList, ServerList')
      BY <1>4, DeleteServerList, DeletedWithout
    <2> QED
      BY <2>1, <2>2 DEF ListStep
  <1>5. ASSUME NEW doc \in Backups, Import(doc)
        PROVE  ListStep
    BY <1>5, ImportDocument DEF ListStep
  <1>6. ASSUME NEW h \in Handlers, HandlerStep(h)
        PROVE  ListStep
    <2>1. CASE SaveConfig(h)
      <3>1. Saved(h) /\ (req[h].cfg.servers = cfg.servers => ServerList' = ServerList)
        BY <2>1, SaveServers
      <3> QED
        BY <3>1 DEF ListStep
    <2>2. CASE ~SaveConfig(h)
      <3>1. ServerList' = ServerList
        BY <1>6, <2>2, HandlerLeavesServers
      <3> QED
        BY <3>1 DEF ListStep
    <2> QED
      BY <2>1, <2>2
  <1>7. CASE UNCHANGED vars
    <2>1. ServerList' = ServerList
      BY <1>7 DEF vars, ServerList, Elements
    <2> QED
      BY <2>1 DEF ListStep
  <1> QED
    BY <1>1, <1>2, <1>3, <1>4, <1>5, <1>6, <1>7 DEF Next, StoreCall

\* For any number of handlers, and whatever arrays they share: a step that
\* changes the list of servers is one exact add, update or delete, a restore of
\* a whole document, a start or a crash, or a SaveConfig that makes the list
\* that handler's copy (store.go, SaveConfig calls of handlers.go).
THEOREM ListChangesExactly == Spec => ServerListChanges
  <1>1. Init => IInv
    BY InitIInv
  <1>2. IInv /\ [Next]_vars => IInv'
    BY NextIInv
  <1>3. IInv /\ [Next]_vars => [ListStep]_vars
    BY NextListStep
  <1> QED
    BY <1>1, <1>2, <1>3, PTL DEF Spec, ServerListChanges, ListStep
-----------------------------------------------------------------------------
(* Unique IDs.                                                               *)

UniqueIds(list) ==
    \A i, j \in DOMAIN list : list[i].id = list[j].id => i = j

\* Nobody has written duplicates into the documents that come from outside.
CleanDocuments ==
    /\ UniqueIds(Default.servers)
    /\ \A doc \in Backups : UniqueIds(doc.servers)

\* A request in progress has the servers of the store, and what could become
\* the list, memory or file, has no duplicates.
UInv ==
    /\ IInv
    /\ UniqueIds(ServerList)
    /\ disk # NoFile => UniqueIds(disk.servers)
    /\ \A h \in Handlers : Busy(h) => req[h].cfg.servers = cfg.servers

LEMMA AddedUnique ==
    ASSUME NEW list \in Seq(Server), UniqueIds(list), NEW srv \in Server,
           srv.id \notin Ids(list)
    PROVE  UniqueIds(Append(list, srv))
  <1> DEFINE n   == Len(list)
             new == Append(list, srv)
  <1>1. /\ n \in Nat /\ DOMAIN list = 1 .. n
        /\ new \in Seq(Server) /\ Len(new) = n + 1
        /\ \A i \in 1 .. n : new[i] = list[i]
        /\ new[n + 1] = srv
    BY LenProperties, AppendProperties
  <1>2. DOMAIN new = 1 .. n + 1
    BY <1>1, LenProperties
  <1> HIDE DEF new, n
  <1>3. \A i \in 1 .. n + 1 : i \in 1 .. n \/ i = n + 1
    BY <1>1
  <1>4. \A i \in 1 .. n : new[i].id # srv.id
    BY <1>1 DEF Ids
  <1>5. UniqueIds(new)
    BY <1>1, <1>2, <1>3, <1>4 DEF UniqueIds
  <1> QED
    BY <1>5 DEF new

LEMMA UpdatedUnique ==
    ASSUME NEW list, UniqueIds(list), NEW srv, NEW i \in DOMAIN list,
           list[i].id = srv.id
    PROVE  UniqueIds([list EXCEPT ![i] = srv])
  <1>1. PICK new : new = [list EXCEPT ![i] = srv]
    OBVIOUS
  <1>2. DOMAIN new = DOMAIN list /\ \A j \in DOMAIN list : new[j].id = list[j].id
    BY <1>1
  <1> QED
    BY <1>1, <1>2 DEF UniqueIds

LEMMA DeletedUnique ==
    ASSUME NEW list \in Seq(Server), UniqueIds(list), NEW k \in DOMAIN list
    PROVE  UniqueIds(WithoutAt(list, k))
  <1> DEFINE n     == Len(list)
             at(j) == IF j < k THEN j ELSE j + 1
  <1>1. n \in Nat /\ DOMAIN list = 1 .. n /\ k \in 1 .. n
    BY LenProperties
  <1>2. /\ DOMAIN WithoutAt(list, k) = 1 .. n - 1
        /\ \A j \in 1 .. n - 1 : WithoutAt(list, k)[j] = list[at(j)]
    BY DEF WithoutAt
  <1>3. \A i, j \in 1 .. n - 1 : at(i) \in 1 .. n /\ (at(i) = at(j) => i = j)
    BY <1>1
  <1> HIDE DEF at
  <1> QED
    BY <1>1, <1>2, <1>3 DEF UniqueIds

\* Whatever is written to the file has the servers that are in memory.
LEMMA WrittenServers ==
    ASSUME NEW mem, NEW c, persist(mem, c)
    PROVE  disk' = disk \/ disk'.servers = Elements(mem, c.servers)
  BY DEF persist, Marshalled

LEMMA InitUInv ==
    ASSUME CleanDocuments, Init
    PROVE  UInv
  <1>1. IInv /\ \A h \in Handlers : ~Busy(h)
    BY InitIInv DEF Init, Busy
  <1>2. DOMAIN ServerList = {}
    BY ConstantsAssumption DEF Init, ServerList, Elements, Unloaded, Empty
  <1>3. disk # NoFile => UniqueIds(disk.servers)
    BY DEF Init, CleanDocuments
  <1> QED
    BY <1>1, <1>2, <1>3 DEF UInv, UniqueIds

\* A start takes the list of the file.
LEMMA StartUInv ==
    ASSUME CleanDocuments, UInv, NewDefault \/ NewFromFile
    PROVE  UInv'
  <1>1. IInv'
    BY NewDefaultIInv, NewFromFileIInv DEF UInv
  <1>2. disk' = Contents(heap', cfg')
    BY NewDefaultIInv, NewFromFileIInv DEF UInv
  <1>3. ServerList' = disk'.servers
    BY <1>2 DEF Contents, ServerList
  <1>4. UniqueIds(disk'.servers)
    BY DEF UInv, NewDefault, NewFromFile, CleanDocuments
  <1>5. \A h \in Handlers : ~Busy(h)'
    BY DEF UInv, IInv, NewDefault, NewFromFile, Busy
  <1> QED
    BY <1>1, <1>3, <1>4, <1>5 DEF UInv

LEMMA CrashUInv ==
    ASSUME UInv, Crash
    PROVE  UInv'
  <1>1. IInv'
    BY CrashIInv DEF UInv
  <1>2. \A h \in Handlers : ~Busy(h)'
    BY DEF Crash, Busy
  <1>3. DOMAIN ServerList' = {}
    BY ConstantsAssumption DEF Crash, ServerList, Elements, Unloaded, Empty
  <1>4. disk' # NoFile => UniqueIds(disk'.servers)
    BY DEF Crash, UInv
  <1> QED
    BY <1>1, <1>2, <1>3, <1>4 DEF UInv, UniqueIds

\* A store call that finds no request in progress.
LEMMA StoreCallUInv ==
    ASSUME CleanDocuments, UInv, AllIdle, StoreCall
    PROVE  UInv'
  <1>1. IInv /\ UniqueIds(ServerList) /\ ServerList \in Seq(Server)
    BY ListNow DEF UInv
  <1>2. /\ IInv' /\ UniqueIds(ServerList')
        /\ UNCHANGED req /\ persist(heap', cfg')
    <2>1. ASSUME NEW srv \in Server, AddServer(srv)
          PROVE  IInv' /\ UniqueIds(ServerList') /\ UNCHANGED req /\ persist(heap', cfg')
      <3>1. IInv' /\ UNCHANGED req /\ persist(heap', cfg')
        BY <1>1, <2>1, AddInPlaceIInv, AddGrownIInv DEF AddServer, AppendServer
      <3> QED
        BY <1>1, <2>1, <3>1, AddServerList, AddedUnique
    <2>2. ASSUME NEW srv \in Server, UpdateServer(srv)
          PROVE  IInv' /\ UniqueIds(ServerList') /\ UNCHANGED req /\ persist(heap', cfg')
      <3>1. IInv' /\ UNCHANGED req /\ persist(heap', cfg')
        BY <1>1, <2>2, UpdateServerIInv DEF UpdateServer
      <3> QED
        BY <1>1, <2>2, <3>1, UpdateServerList, UpdatedUnique
    <2>3. ASSUME NEW id \in ServerIds, DeleteServer(id)
          PROVE  IInv' /\ UniqueIds(ServerList') /\ UNCHANGED req /\ persist(heap', cfg')
      <3>1. IInv' /\ UNCHANGED req /\ persist(heap', cfg')
        BY <1>1, <2>3, DeleteServerIInv DEF DeleteServer
      <3> QED
        BY <1>1, <2>3, <3>1, DeleteServerList, DeletedUnique
    <2>4. ASSUME NEW doc \in Backups, Import(doc)
          PROVE  IInv' /\ UniqueIds(ServerList') /\ UNCHANGED req /\ persist(heap', cfg')
      <3>1. IInv' /\ UNCHANGED req /\ persist(heap', cfg')
        BY <1>1, <2>4, ImportIInv DEF Import
      <3>2. ServerList' = doc.servers
        BY <1>1, <2>4, ImportDocument DEF Contents, ServerList
      <3> QED
        BY <3>1, <3>2 DEF CleanDocuments
    <2> QED
      BY <2>1, <2>2, <2>3, <2>4 DEF StoreCall
  <1>3. disk' = disk \/ disk'.servers = ServerList'
    BY <1>2, WrittenServers DEF ServerList
  <1>4. \A h \in Handlers : ~Busy(h)'
    BY <1>2 DEF AllIdle, Busy
  <1> QED
    BY <1>2, <1>3, <1>4 DEF UInv

\* The copy a handler holds keeps its servers.
LEMMA CopyKeepsServers ==
    ASSUME IInv, NEW h \in Handlers, HandlerStep(h), Busy(h), Busy(h)'
    PROVE  req'[h].cfg.servers = req[h].cfg.servers
  <1>1. PICK r : r = req[h]
    OBVIOUS
  <1>2. /\ DOMAIN req = Handlers /\ r \in Request /\ r.cfg \in Config
        /\ r.cfg.rules.arr \in Arrays /\ r.cfg.rules.len \in Nat
    BY <1>1, BusyFacts
  <1>3. CASE Begin(h)
    BY <1>3 DEF Begin
  <1>4. CASE BadRequest(h) \/ RuleNotFound(h) \/ SaveConfig(h)
    BY <1>2, <1>4 DEF BadRequest, RuleNotFound, SaveConfig, Busy
  <1>5. CASE EditSetting(h)
    <2>1. req'[h] = [r EXCEPT !.pc = "save", !.cfg.setting = r.arg]
      BY <1>1, <1>2, <1>5 DEF EditSetting
    <2> QED
      BY <1>1, <1>2, <2>1 DEF Request, Config
  <1>6. CASE AppendRule(h)
    <2>1. CASE r.cfg.rules.len # Len(heap[r.cfg.rules.arr])
      <3>1. req'[h] = [r EXCEPT !.pc = "save", !.cfg.rules.len = r.cfg.rules.len + 1]
        BY <1>1, <1>2, <1>6, <2>1 DEF AppendRule
      <3> QED
        BY <1>1, <1>2, <3>1 DEF Request, Config
    <2>2. CASE r.cfg.rules.len = Len(heap[r.cfg.rules.arr])
      <3>1. req'[h] = [r EXCEPT !.pc = "save",
                                !.cfg.rules = [arr |-> Fresh, len |-> r.cfg.rules.len + 1]]
        BY <1>1, <1>2, <1>6, <2>2 DEF AppendRule
      <3> QED
        BY <1>1, <1>2, <3>1 DEF Request, Config
    <2> QED
      BY <2>1, <2>2
  <1>7. CASE PutRule(h)
    <2>1. req'[h] = [r EXCEPT !.pc = "save", !.at = 0]
      BY <1>1, <1>2, <1>7 DEF PutRule
    <2> QED
      BY <1>1, <1>2, <2>1 DEF Request
  <1>8. CASE FindRule(h)
    <2>1. PICK i \in 1 .. r.cfg.rules.len :
             req' = [req EXCEPT ![h].pc = IF req[h].op = "putRule" THEN "put" ELSE "shift",
                                ![h].at = i]
      BY <1>1, <1>8 DEF FindRule
    <2>2. req'[h] = [r EXCEPT !.pc = IF r.op = "putRule" THEN "put" ELSE "shift",
                              !.at = i]
      BY <1>1, <1>2, <2>1
    <2> QED
      BY <1>1, <1>2, <2>2 DEF Request
  <1>9. CASE ShiftRules(h)
    <2>1. req'[h] = [r EXCEPT !.pc = "save", !.at = 0,
                              !.cfg.rules.len = r.cfg.rules.len - 1]
      BY <1>1, <1>2, <1>9 DEF ShiftRules
    <2> QED
      BY <1>1, <1>2, <2>1 DEF Request, Config
  <1> QED
    BY <1>3, <1>4, <1>5, <1>6, <1>7, <1>8, <1>9 DEF HandlerStep

\* A step of the one request in progress.
LEMMA HandlerUInv ==
    ASSUME UInv, NEW h \in Handlers, \A g \in Handlers \ {h} : ~Busy(g), HandlerStep(h)
    PROVE  UInv'
  <1>1. IInv /\ IInv'
    BY HandlerStepIInv DEF UInv
  <1>2. \A g \in Handlers \ {h} : req'[g] = req[g]
    BY <1>1 DEF IInv, TypeOK, HandlerStep, Begin, BadRequest, EditSetting, AppendRule,
                PutRule, FindRule, ShiftRules, RuleNotFound, SaveConfig
  <1>3. \A g \in Handlers \ {h} : ~Busy(g)'
    BY <1>2 DEF Busy
  <1>4. CASE SaveConfig(h)
    <2>1. /\ ServerList' = ServerList /\ persist(heap', cfg') /\ heap' = heap
          /\ req' = [req EXCEPT ![h] = Idle]
      BY <1>1, <1>4, SaveServers DEF SaveConfig, UInv
    <2>2. disk' = disk \/ disk'.servers = ServerList'
      BY <2>1, WrittenServers DEF ServerList
    <2>3. ~Busy(h)'
      BY <1>1, <2>1 DEF Busy, IInv, TypeOK
    <2> QED
      BY <1>1, <1>3, <2>1, <2>2, <2>3 DEF UInv
  <1>5. CASE ~SaveConfig(h)
    <2>1. ServerList' = ServerList /\ cfg' = cfg
      BY <1>1, <1>5, HandlerLeavesServers
    <2>2. disk' = disk
      BY <1>5 DEF HandlerStep, Begin, BadRequest, EditSetting, AppendRule,
                  PutRule, FindRule, ShiftRules, RuleNotFound
    <2>3. Busy(h)' => req'[h].cfg.servers = cfg.servers
      <3>1. CASE Busy(h)
        BY <1>1, <3>1, CopyKeepsServers DEF UInv
      <3>2. CASE ~Busy(h)
        <4>1. Begin(h)
          BY <1>5, <3>2 DEF HandlerStep, BadRequest, EditSetting, AppendRule,
                            PutRule, FindRule, ShiftRules, RuleNotFound
        <4> QED
          BY <1>1, <4>1 DEF Begin, IInv, TypeOK
      <3> QED
        BY <3>1, <3>2
    <2> QED
      BY <1>1, <1>3, <2>1, <2>2, <2>3 DEF UInv
  <1> QED
    BY <1>4, <1>5

\* While requests do not overlap, no add, save, write that fails, crash or
\* restart brings a server into the list twice, for any number of servers and
\* rules, provided that the documents a user restores have no duplicates
\* ("AddServer appends a new server (deduplicated by ID)", store.go).
THEOREM SerialIdsUnique ==
    ASSUME CleanDocuments
    PROVE  SerialSpec => []UniqueServerIds
  <1>1. Init => UInv
    BY InitUInv
  <1>2. UInv /\ [SerialNext]_vars => UInv'
    <2> SUFFICES ASSUME UInv, [SerialNext]_vars
                 PROVE  UInv'
      OBVIOUS
    <2>1. CASE NewDefault \/ NewFromFile
      BY <2>1, StartUInv
    <2>2. CASE Crash
      BY <2>2, CrashUInv
    <2>3. CASE AllIdle /\ StoreCall
      BY <2>3, StoreCallUInv
    <2>4. ASSUME NEW h \in Handlers, \A g \in Handlers \ {h} : ~Busy(g), HandlerStep(h)
          PROVE  UInv'
      BY <2>4, HandlerUInv
    <2>5. CASE UNCHANGED vars
      <3>1. IInv'
        BY <2>5, UnchangedIInv DEF UInv
      <3> QED
        BY <2>5, <3>1 DEF vars, UInv, ServerList, Elements, Busy
    <2> QED
      BY <2>1, <2>2, <2>3, <2>4, <2>5 DEF SerialNext
  <1>3. UInv => UniqueServerIds
    BY DEF UInv, UniqueIds, UniqueServerIds
  <1> QED
    BY <1>1, <1>2, <1>3, PTL DEF SerialSpec
=============================================================================
