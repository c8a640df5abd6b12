------------------------------ MODULE ConfigStore ------------------------------
(***************************************************************************)
(* The configuration half of internal/store together with the HTTP         *)
(* handlers of internal/api that edit it.                                  *)
(*                                                                         *)
(* The store hands out its configuration by value (Store.Config), but an   *)
(* AppConfig holds Go slices, so the copy shares the backing arrays of the *)
(* server list and of the rule list with the store and with every other    *)
(* copy.  Three things in the code write such an array in place: append    *)
(* into spare capacity, assignment to an element, and the shift that       *)
(* append(s[:i], s[i+1:]...) performs.  The server list is only written    *)
(* under Store.mu; the rule list is written by handlers that hold no lock. *)
(* The model therefore keeps a heap of backing arrays, and a list is a     *)
(* slice header that points into it.                                       *)
(*                                                                         *)
(* A request that edits the rules or one of the other settings is served   *)
(* by a goroutine in several steps: Store.Config, decoding of the body,    *)
(* the edit of its copy, Store.SaveConfig.  The calls on the server list   *)
(* (AddServer, UpdateServer, DeleteServer, Import) hold Store.mu from      *)
(* beginning to end and are one step each.                                 *)
(***************************************************************************)
EXTENDS Naturals, Sequences

CONSTANTS
    ServerIds,    \* IDs of servers
    RuleIds,      \* IDs of routing rules
    Bodies,       \* what a server or a rule holds beside its ID
    Settings,     \* values of the part of AppConfig that holds no shared list
    Handlers,     \* goroutines that serve the read-modify-write requests
    RMWOps,       \* the read-modify-write requests that are served
    Arrays,       \* identities of backing arrays (bounds the memory in use)
    Capacities,   \* the capacities runtime.growslice gives to a slice
    Blank,        \* content of an array slot that was never assigned
    NoFile,       \* content of the disk before the first start
    Default,      \* what config.Default() returns
    Backups,      \* the documents POST /api/restore may be given
    MaxServers,   \* bound on the length of the server list
    MaxRules,     \* bound on the length of the rule list
    MaxUnsaved    \* bound on the writes of the file that fail in a row

Server == [id : ServerIds, body : Bodies]
Rule   == [id : RuleIds, body : Bodies]

\* A configuration as a JSON document: what persist writes and New reads.
Document == [servers : Seq(Server), rules : Seq(Rule), setting : Settings]

ASSUME ConstantsAssumption ==
    /\ RMWOps \subseteq {"set", "addRule", "putRule", "deleteRule"}
    /\ Blank \notin Server \cup Rule
    /\ NoFile \notin Document
    /\ Default \in Document
    /\ Backups \subseteq Document
    /\ Capacities \subseteq Nat
    /\ MaxServers \in Nat
    /\ MaxRules \in Nat
    /\ MaxUnsaved \in Nat
    /\ Arrays # {}

VARIABLES
    up,        \* the process is running
    heap,      \* backing arrays
    cfg,       \* Store.cfg
    metrics,   \* the IDs that have an entry in Store.metrics
    disk,      \* content of config.json
    req,       \* what each handler goroutine is doing
    unsaved    \* history: the calls of persist that failed since one succeeded

vars == <<up, heap, cfg, metrics, disk, req, unsaved>>
-----------------------------------------------------------------------------
(* Slices.                                                                 *)

Slice  == [arr : Arrays, len : Nat]
Config == [servers : Slice, rules : Slice, setting : Settings]

Empty == [arr |-> CHOOSE a \in Arrays : TRUE, len |-> 0]

\* The configuration before New has run.
Unloaded == [servers |-> Empty, rules |-> Empty, setting |-> Default.setting]

Elements(mem, s) == [i \in 1 .. s.len |-> mem[s.arr][i]]

\* A configuration with its lists read from memory.
Contents(mem, c) ==
    [servers |-> Elements(mem, c.servers),
     rules   |-> Elements(mem, c.rules),
     setting |-> c.setting]

Ids(list) == {list[i].id : i \in DOMAIN list}

\* The first position of an ID in a list, as the loops of the code find it.
FoundAt(list, id, i) ==
    /\ i \in DOMAIN list
    /\ list[i].id = id
    /\ \A j \in DOMAIN list : j < i => list[j].id # id

\* The array after append(s[:i], s[i+1:]...): slots i+1..len moved down by one.
ShiftedArray(array, i, len) ==
    [j \in DOMAIN array |-> IF i <= j /\ j < len THEN array[j + 1] ELSE array[j]]

\* A new array with the elements of a list and capacity c.
ArrayOf(list, c) ==
    [j \in 1 .. c |-> IF j \in DOMAIN list THEN list[j] ELSE Blank]

\* c is the capacity the runtime gives to a slice that must hold n elements.
IsCapacityFor(c, n) ==
    c \in Capacities /\ n <= c /\ \A d \in Capacities : n <= d => c <= d
-----------------------------------------------------------------------------
(* Handlers.  A goroutine is idle, or it serves a request, of which it     *)
(* holds the copy of the configuration that Store.Config returned.         *)

Args(op) ==
    CASE op = "set"        -> Settings
      [] op = "deleteRule" -> RuleIds
      [] OTHER             -> Rule

Arg == Settings \cup RuleIds \cup Rule

Idle    == [pc |-> "idle"]
Request == [pc : {"decode", "put", "shift", "save"}, op : RMWOps, arg : Arg,
            cfg : Config, at : Nat]

Busy(h) == req[h] # Idle

\* The arrays something still points to.
Live ==
    {cfg.servers.arr, cfg.rules.arr}
      \cup UNION {{req[h].cfg.servers.arr, req[h].cfg.rules.arr} :
                     h \in {g \in Handlers : Busy(g)}}

\* The arrays nothing points to, and the one an allocation returns.
Free  == Arrays \ Live
Fresh == CHOOSE a \in Free : TRUE

\* Handler h is inside the memmove of a rule deletion on slot i of array a.
Shifting(h, a, i) ==
    /\ req[h].pc = "shift"
    /\ req[h].cfg.rules.arr = a
    /\ req[h].at <= i /\ i < req[h].cfg.rules.len

\* What a reader that does not exclude the handlers may find in a list: next
\* to a memmove in progress each slot shows its old or its new element.
Readings(mem, s) ==
    {[i \in 1 .. s.len |->
        IF i \in new THEN mem[s.arr][i + 1] ELSE mem[s.arr][i]] :
       new \in SUBSET {i \in 1 .. s.len :
                         \E h \in Handlers : Shifting(h, s.arr, i)}}

\* What json.MarshalIndent may make of a configuration in memory.
Marshalled(mem, c) ==
    {[servers |-> Elements(mem, c.servers), rules |-> r, setting |-> c.setting] :
       r \in Readings(mem, c.rules)}

\* Store.persist: the file is replaced by os.Rename, or not touched at all.
persist(mem, c) ==
    \/ disk' \in Marshalled(mem, c) /\ unsaved' = 0
    \/ unsaved < MaxUnsaved /\ UNCHANGED disk /\ unsaved' = unsaved + 1
-----------------------------------------------------------------------------
(* Start and end of the process.                                           *)

Init ==
    /\ up = FALSE
    /\ heap = [a \in Arrays |-> <<>>]
    /\ cfg = Unloaded
    /\ metrics = {}
    /\ disk \in Backups \cup {NoFile}
    /\ req = [h \in Handlers |-> Idle]
    /\ unsaved = 0

\* json.Unmarshal of a document: both lists get new arrays a and b.
Decoded(doc, a, b) ==
    [servers |-> [arr |-> a, len |-> Len(doc.servers)],
     rules   |-> [arr |-> b, len |-> Len(doc.rules)],
     setting |-> doc.setting]

\* Load document doc into the arrays a and b.
Load(doc, a, b) ==
    \E c, d \in Capacities :
       /\ IsCapacityFor(c, Len(doc.servers))
       /\ IsCapacityFor(d, Len(doc.rules))
       /\ heap' = [heap EXCEPT ![a] = ArrayOf(doc.servers, c),
                               ![b] = ArrayOf(doc.rules, d)]
       /\ cfg' = Decoded(doc, a, b)

\* Two arrays nothing points to.
FreshPair == CHOOSE p \in Free \X Free : p[1] # p[2]

RoomForTwo == \E a, b \in Free : a # b

\* Store.New without a file: the default configuration, which must be written.
NewDefault ==
    /\ ~up /\ disk = NoFile
    /\ RoomForTwo
    /\ Load(Default, FreshPair[1], FreshPair[2])
    /\ up' = TRUE
    /\ disk' = Default /\ unsaved' = 0
    /\ UNCHANGED <<metrics, req>>

\* Store.New with a file: every server in it gets "unknown" metrics.
NewFromFile ==
    /\ ~up /\ disk # NoFile
    /\ RoomForTwo
    /\ Load(disk, FreshPair[1], FreshPair[2])
    /\ up' = TRUE
    /\ metrics' = Ids(disk.servers)
    /\ unsaved' = 0
    /\ UNCHANGED <<disk, req>>

\* The process ends, at any moment: only the file survives.
Crash ==
    /\ up
    /\ up' = FALSE
    /\ heap' = [a \in Arrays |-> <<>>]
    /\ cfg' = Unloaded
    /\ metrics' = {}
    /\ req' = [h \in Handlers |-> Idle]
    /\ unsaved' = 0
    /\ UNCHANGED disk
-----------------------------------------------------------------------------
(* The calls that hold Store.mu from beginning to end.                     *)

\* s.cfg.Servers = append(s.cfg.Servers, srv), and what follows it.
AppendServer(srv) ==
    LET s    == cfg.servers
        full == s.len = Len(heap[s.arr])
    IN  /\ up
        /\ s.len < MaxServers
        /\ \/ /\ ~full
              /\ heap' = [heap EXCEPT ![s.arr][s.len + 1] = srv]
              /\ cfg' = [cfg EXCEPT !.servers.len = s.len + 1]
           \/ /\ full
              /\ Free # {}
              /\ \E c \in Capacities :
                   /\ IsCapacityFor(c, s.len + 1)
                   /\ heap' = [heap EXCEPT ![Fresh] =
                                 ArrayOf(Append(Elements(heap, s), srv), c)]
              /\ cfg' = [cfg EXCEPT !.servers = [arr |-> Fresh, len |-> s.len + 1]]
        /\ metrics' = metrics \cup {srv.id}
        /\ persist(heap', cfg')
        /\ UNCHANGED <<up, req>>

\* Mutant of AddServer: the loop that looks for the ID is gone.
AddServerUnchecked(srv) == AppendServer(srv)

AddServer(srv) ==
    /\ srv.id \notin Ids(Elements(heap, cfg.servers))
    /\ AppendServer(srv)

UpdateServer(srv) ==
    LET s == cfg.servers
    IN  /\ up
        /\ \E i \in 1 .. s.len :
             /\ FoundAt(Elements(heap, s), srv.id, i)
             /\ heap' = [heap EXCEPT ![s.arr][i] = srv]
        /\ persist(heap', cfg)
        /\ UNCHANGED <<up, cfg, metrics, req>>

\* Mutant of DeleteServer: the last server moves into the gap.
DeleteServerBySwap(id) ==
    LET s == cfg.servers
    IN  /\ up
        /\ \E i \in 1 .. s.len :
             /\ FoundAt(Elements(heap, s), id, i)
             /\ heap' = [heap EXCEPT ![s.arr][i] = heap[s.arr][s.len]]
        /\ cfg' = [cfg EXCEPT !.servers.len = s.len - 1]
        /\ metrics' = metrics \ {id}
        /\ persist(heap', cfg')
        /\ UNCHANGED <<up, req>>

\* Mutant of DeleteServer: the file is written before the slice is cut.
DeleteServerWritesFirst(id) ==
    LET s == cfg.servers
    IN  /\ up
        /\ \E i \in 1 .. s.len :
             /\ FoundAt(Elements(heap, s), id, i)
             /\ heap' = [heap EXCEPT ![s.arr] = ShiftedArray(@, i, s.len)]
        /\ cfg' = [cfg EXCEPT !.servers.len = s.len - 1]
        /\ metrics' = metrics \ {id}
        /\ persist(heap', cfg)
        /\ UNCHANGED <<up, req>>

DeleteServer(id) ==
    LET s == cfg.servers
    IN  /\ up
        /\ \E i \in 1 .. s.len :
             /\ FoundAt(Elements(heap, s), id, i)
             /\ heap' = [heap EXCEPT ![s.arr] = ShiftedArray(@, i, s.len)]
        /\ cfg' = [cfg EXCEPT !.servers.len = s.len - 1]
        /\ metrics' = metrics \ {id}
        /\ persist(heap', cfg')
        /\ UNCHANGED <<up, req>>

\* POST /api/restore: the uploaded document becomes the configuration as it is.
Import(doc) ==
    /\ up
    /\ RoomForTwo
    /\ Load(doc, FreshPair[1], FreshPair[2])
    /\ persist(heap', cfg')
    /\ UNCHANGED <<up, metrics, req>>
-----------------------------------------------------------------------------
(* The read-modify-write requests.                                         *)

\* The handler's first statement: cfg := s.store.Config().
Begin(h) ==
    /\ up /\ ~Busy(h)
    /\ \E op \in RMWOps : \E arg \in Args(op) :
         req' = [req EXCEPT ![h] = [pc |-> "decode", op |-> op, arg |-> arg,
                                    cfg |-> cfg, at |-> 0]]
    /\ UNCHANGED <<up, heap, cfg, metrics, disk, unsaved>>

\* The body does not decode, a bound or a name is refused: 400, nothing kept.
BadRequest(h) ==
    /\ Busy(h) /\ req[h].pc = "decode"
    /\ req' = [req EXCEPT ![h] = Idle]
    /\ UNCHANGED <<up, heap, cfg, metrics, disk, unsaved>>

\* cfg.Algorithm = ..., cfg.DNS = ..., and the like: the copy alone changes.
EditSetting(h) ==
    /\ Busy(h) /\ req[h].pc = "decode" /\ req[h].op = "set"
    /\ req' = [req EXCEPT ![h].pc = "save", ![h].cfg.setting = req[h].arg]
    /\ UNCHANGED <<up, heap, cfg, metrics, disk, unsaved>>

\* cfg.RoutingRules = append(cfg.RoutingRules, rule): an array with spare
\* capacity is written in place, and others may point to it.
AppendRule(h) ==
    LET s    == req[h].cfg.rules
        full == s.len = Len(heap[s.arr])
    IN  /\ Busy(h) /\ req[h].pc = "decode" /\ req[h].op = "addRule"
        /\ s.len < MaxRules
        /\ \/ /\ ~full
              /\ heap' = [heap EXCEPT ![s.arr][s.len + 1] = req[h].arg]
              /\ req' = [req EXCEPT ![h].pc = "save",
                                    ![h].cfg.rules.len = s.len + 1]
           \/ /\ full
              /\ Free # {}
              /\ \E c \in Capacities : \E list \in Readings(heap, s) :
                   /\ IsCapacityFor(c, s.len + 1)
                   /\ heap' = [heap EXCEPT ![Fresh] =
                                 ArrayOf(Append(list, req[h].arg), c)]
              /\ req' = [req EXCEPT ![h].pc = "save",
                                    ![h].cfg.rules = [arr |-> Fresh, len |-> s.len + 1]]
        /\ UNCHANGED <<up, cfg, metrics, disk, unsaved>>

\* Mutant of FindRule: the index found in one copy is used in a later one.
FindRuleThenRead(h) ==
    LET s  == req[h].cfg.rules
        id == IF req[h].op = "putRule" THEN req[h].arg.id ELSE req[h].arg
    IN  /\ Busy(h) /\ req[h].pc = "decode"
        /\ req[h].op \in {"putRule", "deleteRule"}
        /\ \E list \in Readings(heap, s), i \in 1 .. s.len :
             /\ FoundAt(list, id, i)
             /\ req' = [req EXCEPT ![h].pc = IF req[h].op = "putRule"
                                               THEN "put" ELSE "shift",
                                   ![h].at = i,
                                   ![h].cfg = cfg]
        /\ UNCHANGED <<up, heap, cfg, metrics, disk, unsaved>>

\* The loop of a PUT or a DELETE has found its rule.
FindRule(h) ==
    LET s  == req[h].cfg.rules
        id == IF req[h].op = "putRule" THEN req[h].arg.id ELSE req[h].arg
    IN  /\ Busy(h) /\ req[h].pc = "decode"
        /\ req[h].op \in {"putRule", "deleteRule"}
        /\ \E list \in Readings(heap, s), i \in 1 .. s.len :
             /\ FoundAt(list, id, i)
             /\ req' = [req EXCEPT ![h].pc = IF req[h].op = "putRule"
                                               THEN "put" ELSE "shift",
                                   ![h].at = i]
        /\ UNCHANGED <<up, heap, cfg, metrics, disk, unsaved>>

\* Mutant of PutRule: the handler answers without SaveConfig.
PutRuleUnsaved(h) ==
    /\ Busy(h) /\ req[h].pc = "put"
    /\ heap' = [heap EXCEPT ![req[h].cfg.rules.arr][req[h].at] = req[h].arg]
    /\ req' = [req EXCEPT ![h] = Idle]
    /\ UNCHANGED <<up, cfg, metrics, disk, unsaved>>

\* cfg.RoutingRules[i] = rule, in the array the store reads too.
PutRule(h) ==
    /\ Busy(h) /\ req[h].pc = "put"
    /\ heap' = [heap EXCEPT ![req[h].cfg.rules.arr][req[h].at] = req[h].arg]
    /\ req' = [req EXCEPT ![h].pc = "save", ![h].at = 0]
    /\ UNCHANGED <<up, cfg, metrics, disk, unsaved>>

\* The memmove of a DELETE is done; the handler's own slice is one shorter.
ShiftRules(h) ==
    LET s == req[h].cfg.rules
    IN  /\ Busy(h) /\ req[h].pc = "shift"
        /\ heap' = [heap EXCEPT ![s.arr] = ShiftedArray(@, req[h].at, s.len)]
        /\ req' = [req EXCEPT ![h].pc = "save", ![h].at = 0,
                              ![h].cfg.rules.len = s.len - 1]
        /\ UNCHANGED <<up, cfg, metrics, disk, unsaved>>

\* The loops of PUT and DELETE end without a match: 404.
RuleNotFound(h) ==
    /\ Busy(h) /\ req[h].pc = "decode"
    /\ \E list \in Readings(heap, req[h].cfg.rules) :
         \/ req[h].op = "putRule" /\ req[h].arg.id \notin Ids(list)
         \/ req[h].op = "deleteRule" /\ req[h].arg \notin Ids(list)
    /\ req' = [req EXCEPT ![h] = Idle]
    /\ UNCHANGED <<up, heap, cfg, metrics, disk, unsaved>>

\* Mutant of SaveConfig: persist runs before the assignment to s.cfg.
SaveConfigWritesFirst(h) ==
    /\ Busy(h) /\ req[h].pc = "save"
    /\ cfg' = req[h].cfg
    /\ persist(heap, cfg)
    /\ req' = [req EXCEPT ![h] = Idle]
    /\ UNCHANGED <<up, heap, metrics>>

\* Store.SaveConfig(cfg) with the handler's copy; the answer goes out.
SaveConfig(h) ==
    /\ Busy(h) /\ req[h].pc = "save"
    /\ cfg' = req[h].cfg
    /\ persist(heap, cfg')
    /\ req' = [req EXCEPT ![h] = Idle]
    /\ UNCHANGED <<up, heap, metrics>>
-----------------------------------------------------------------------------
StoreCall ==
    \/ \E srv \in Server : AddServer(srv)
    \/ \E srv \in Server : UpdateServer(srv)
    \/ \E id \in ServerIds : DeleteServer(id)
    \/ \E doc \in Backups : Import(doc)

HandlerStep(h) ==
    \/ Begin(h)
    \/ BadRequest(h)
    \/ EditSetting(h)
    \/ AppendRule(h)
    \/ PutRule(h)
    \/ FindRule(h)
    \/ ShiftRules(h)
    \/ RuleNotFound(h)
    \/ SaveConfig(h)

Next ==
    \/ NewDefault
    \/ NewFromFile
    \/ Crash
    \/ StoreCall
    \/ \E h \in Handlers : HandlerStep(h)

Spec == Init /\ [][Next]_vars
-----------------------------------------------------------------------------
(* Properties.                                                             *)

\* Every element a slice covers was assigned, and is of the slice's kind.
SliceOK(mem, s, Kind) ==
    /\ s \in Slice
    /\ s.len <= Len(mem[s.arr])
    /\ \A i \in 1 .. s.len : mem[s.arr][i] \in Kind

ConfigOK(mem, c) ==
    /\ c \in Config
    /\ SliceOK(mem, c.servers, Server)
    /\ SliceOK(mem, c.rules, Rule)

RequestOK(mem, r) ==
    /\ r \in Request
    /\ r.arg \in Args(r.op)
    /\ ConfigOK(mem, r.cfg)
    /\ r.pc = "put" => r.op = "putRule" /\ r.at \in 1 .. r.cfg.rules.len
    /\ r.pc = "shift" => r.op = "deleteRule" /\ r.at \in 1 .. r.cfg.rules.len

\* Type invariant, with memory safety: whatever the handlers do to the shared
\* arrays, each slice in use - the store's and every handler's copy, however
\* old - stays within its array, covers elements of its own kind only, and
\* the index a handler found stays within its slice.
TypeOK ==
    /\ up \in BOOLEAN
    /\ heap \in [Arrays -> Seq(Server \cup Rule \cup {Blank})]
    /\ ConfigOK(heap, cfg)
    /\ metrics \in SUBSET ServerIds
    /\ disk \in Document \cup {NoFile}
    /\ unsaved \in 0 .. MaxUnsaved
    /\ DOMAIN req = Handlers
    /\ \A h \in Handlers : Busy(h) => RequestOK(heap, req[h])

\* A handler has written a shared array, or is about to, and has not saved yet.
Editing(h) == req[h].pc \in {"put", "shift", "save"}

\* persist after every change (store.go): if the last write of the file went
\* through and no rule edit is under way, the file holds exactly what the
\* store holds in memory.  An edit through a shared array changes the store's
\* configuration without a write; this says the write always follows, and
\* that a file written in the middle of such an edit is written again.
DiskFollowsMemory ==
    (up /\ unsaved = 0 /\ \A h \in Handlers : ~Editing(h)) =>
        disk = Contents(heap, cfg)

\* The list of the servers in memory.
ServerList == Elements(heap, cfg.servers)

\* What AddServer, UpdateServer and DeleteServer promise, on lists.
Added(list, new)   == \E srv \in Server : srv.id \notin Ids(list) /\ new = Append(list, srv)
Updated(list, new) == /\ DOMAIN new = DOMAIN list
                      /\ \E i \in DOMAIN list :
                           /\ new[i].id = list[i].id
                           /\ \A j \in DOMAIN list \ {i} : new[j] = list[j]
Deleted(list, new) == \E i \in DOMAIN list :
                         /\ FoundAt(list, list[i].id, i)
                         /\ new = [j \in 1 .. Len(list) - 1 |->
                                      list[IF j < i THEN j ELSE j + 1]]

\* This step is Store.Import(doc): the whole document, in arrays of its own.
Restored(doc) ==
    /\ up /\ UNCHANGED req
    /\ Contents(heap, cfg)' = doc
    /\ {cfg'.servers.arr, cfg'.rules.arr} \subseteq Free

\* This step is h's SaveConfig: the store has the copy that h has edited, with
\* the servers it shows now, and h is done.
Saved(h) ==
    /\ req[h].pc = "save" /\ req'[h] = Idle
    /\ cfg' = req[h].cfg
    /\ ServerList' = Elements(heap, req[h].cfg.servers)

\* No request disturbs the server list by accident: when it changes, then by
\* one exact add, update or delete that no handler had a part in, by a restore
\* of one whole document, at a start or a crash, or in the step in which a
\* handler saves its copy - and then it becomes that copy, whose slice is not
\* the store's.  (The last case is how a server that was deleted comes back,
\* one that was added is lost and one is listed twice; no other step does
\* that, whatever arrays are shared.)
ServerListChanges ==
    [][ServerList' # ServerList =>
         \/ /\ UNCHANGED req
            /\ \/ Added(ServerList, ServerList')
               \/ Updated(ServerList, ServerList')
               \/ Deleted(ServerList, ServerList')
         \/ \E doc \in Backups : Restored(doc)
         \/ up' # up
         \/ \E h \in Handlers : Saved(h) /\ req[h].cfg.servers # cfg.servers]_vars

\* "AddServer appends a new server (deduplicated by ID)" (store.go:160).
UniqueServerIds ==
    \A i, j \in DOMAIN ServerList : ServerList[i].id = ServerList[j].id => i = j
=============================================================================
