---------------------------- MODULE HealthChecker ----------------------------
(***************************************************************************)
(* The health checker (internal/balancer/healthcheck.go), the traffic loop *)
(* of demo mode (balancer.go) and the runtime half of the store they write *)
(* to (SetMetrics, AddAlert of store.go), next to the requests that change *)
(* the server list.                                                        *)
(*                                                                         *)
(* A call of the store is one step.  checkOne reads the metrics of its     *)
(* server, dials for seconds and writes the metrics back: anything can     *)
(* happen to the server in between.  An address is reachable or not, and   *)
(* that changes at any time.                                               *)
(*                                                                         *)
(* The server list is a sequence and may hold an ID twice: a restore takes *)
(* any document, and saving an old copy of the configuration can double an *)
(* ID as well.  A round checks every element of the list it has read, so   *)
(* two checks of one ID can run side by side.                              *)
(*                                                                         *)
(* In real mode sampleTraffic resets what demo mode may have left behind,  *)
(* and metrics are not kept over a restart: it finds nothing to reset.     *)
(***************************************************************************)
EXTENDS Naturals, Sequences

CONSTANTS
    Ids,            \* server IDs
    Addrs,          \* addresses of servers
    Home,           \* Home[id]: the address in the link of server id
    Documents,      \* the configurations a user may restore
    Edits,          \* the addresses and switches an edit of a server may set
    StaleSaves,     \* whether a handler holds a copy of the configuration
    Modes,          \* with --demo or without
    Networks,       \* the sets of addresses that answer at one time
    Slow,           \* whether a dial that is answered may take 200 ms or more
    Watched,        \* the kinds of alerts whose age is kept
    MaxServers,     \* bound on the length of the server list
    MaxFails        \* failure counts are not told apart from here on

Kinds == {"offline", "slow", "back"}

\* Metrics are a map from some of the IDs.
Some(T) == UNION {[S -> T] : S \in SUBSET Ids}

Slots == 1 .. MaxServers

Server == [id : Ids, addr : Addrs, on : BOOLEAN]

Lists == UNION {[1 .. n -> Server] : n \in 0 .. MaxServers}

Document == [servers  : Lists,
             interval : Nat,
             failures : 0 .. MaxFails]

ASSUME HealthAssumption ==
    /\ Home \in [Ids -> Addrs]
    /\ Modes \subseteq BOOLEAN
    /\ Networks \subseteq SUBSET Addrs
    /\ Slow \subseteq BOOLEAN /\ Slow # {}
    /\ Edits \subseteq [addr : Addrs, on : BOOLEAN]
    /\ StaleSaves \in BOOLEAN
    /\ Watched \subseteq Kinds
    /\ MaxServers \in Nat
    /\ MaxFails \in Nat \ {0}
    /\ Documents \subseteq Document

VARIABLES
    up,         \* the process runs
    demo,       \* it was started with --demo
    stop,       \* the channels of HealthChecker and Balancer are closed
    cfg,        \* Store.cfg, and config.json: servers, interval, failures
    copy,       \* what a handler got from Store.Config and has not saved yet
    metrics,    \* Store.metrics
    window,     \* the alerts of the last minute, by kind and server
    reach,      \* the addresses that answer
    loop,       \* HealthChecker.loop: where it is
    task,       \* task[i]: checkOne for element i of the list of this round
    traffic,    \* sampleTraffic: where it is and its copies
    streak,     \* history: checks of id that failed since a success or the start
    excused,    \* history: unlisted servers that may have metrics
    doubled,    \* history: the IDs that were listed twice in this process
    missed      \* history: servers found down since sampleTraffic has read

vars == <<up, demo, stop, cfg, copy, metrics, window, reach, loop, task, traffic,
          streak, excused, doubled, missed>>

Statuses == {"unknown", "checking", "online", "degraded", "offline"}

\* A failure sets the ping to 9999 as well, a success to what was measured.
Metric == [status : Statuses, fails : 0 .. MaxFails]

\* checkOne: not running, to be started, dialling, or about to store.
Task ==
    [pc : {"idle"}]
      \cup [pc : {"start"}, id : Ids, addr : Addrs]
      \cup [pc : {"dial"}, id : Ids, addr : Addrs, readded : BOOLEAN, prev : Metric]
      \cup [pc : {"store"}, id : Ids, ok : BOOLEAN, next : Metric, readded : BOOLEAN]

Healthy(m) == m.status \in {"online", "degraded"}

IdsOf(list) == {list[i].id : i \in DOMAIN list}

\* The IDs that are in a list more than once.
Doubles(list) ==
    {id \in IdsOf(list) : \E i, j \in DOMAIN list :
        i # j /\ list[i].id = id /\ list[j].id = id}

Listed == IdsOf(cfg.servers)

\* The positions of the servers that are on.
OnSlots == {i \in DOMAIN cfg.servers : cfg.servers[i].on}

\* The first element with an ID, which is the one the store's loops find.
FoundAt(list, id, i) ==
    /\ i \in DOMAIN list
    /\ list[i].id = id
    /\ \A j \in DOMAIN list : j < i => list[j].id # id

Without(list, i) ==
    [j \in 1 .. Len(list) - 1 |-> list[IF j < i THEN j ELSE j + 1]]

Update(f, id, v) == [x \in DOMAIN f \cup {id} |-> IF x = id THEN v ELSE f[x]]
Forget(f, id)    == [x \in DOMAIN f \ {id} |-> f[x]]

NewMetrics == [status |-> "unknown", fails |-> 0]

NoTask == [pc |-> "idle"]

AtStart == [pc |-> "servers", max |-> 0, ticker |-> FALSE]

NoTraffic == [pc |-> "idle", todo |-> {}, snap |-> <<>>]

\* A handler without a copy of the configuration.
NoCopy == [held |-> FALSE]

Copy == [held : {FALSE}]
          \cup [held : {TRUE}, cfg : Document, shared : BOOLEAN]

\* What a process begins with, and what is left of it when it ends.
Blank ==
    /\ copy' = NoCopy
    /\ window' = {}
    /\ loop' = AtStart
    /\ task' = [i \in Slots |-> NoTask]
    /\ traffic' = NoTraffic
    /\ streak' = [id \in Ids |-> 0]
    /\ excused' = {}
    /\ doubled' = Doubles(cfg.servers)
    /\ missed' = {}

\* Store.New with a file, and Balancer.Start.
Started ==
    /\ up' = TRUE
    /\ stop' = FALSE
    /\ metrics' = [id \in Listed |-> NewMetrics]
    /\ Blank

Init ==
    /\ up = TRUE
    /\ demo \in Modes
    /\ stop = FALSE
    /\ cfg \in Documents
    /\ copy = NoCopy
    /\ metrics = [id \in Listed |-> NewMetrics]
    /\ window = {}
    /\ reach \in Networks
    /\ loop = AtStart
    /\ task = [i \in Slots |-> NoTask]
    /\ traffic = NoTraffic
    /\ streak = [id \in Ids |-> 0]
    /\ excused = {}
    /\ doubled = Doubles(cfg.servers)
    /\ missed = {}
-----------------------------------------------------------------------------
(* The loop of the health checker.                                         *)

LoopOnly == UNCHANGED <<up, demo, stop, cfg, copy, metrics, window, reach, traffic,
                        streak, excused, doubled, missed>>

\* The checks of a round for the elements of the list at some positions.
ToStart(slots) ==
    [i \in Slots |->
       IF i \in slots
       THEN [pc |-> "start", id |-> cfg.servers[i].id, addr |-> cfg.servers[i].addr]
       ELSE NoTask]

\* Mutant of ReadServers: a server that is offline is given up.
ReadServersOnline ==
    /\ up /\ loop.pc = "servers"
    /\ loop' = [loop EXCEPT !.pc = "config"]
    /\ task' = ToStart({i \in OnSlots : /\ cfg.servers[i].id \in DOMAIN metrics
                                        /\ metrics[cfg.servers[i].id].status # "offline"})
    /\ LoopOnly

\* checkAll: the elements of the list that are on, at the addresses of now.
ReadServers ==
    /\ up /\ loop.pc = "servers"
    /\ loop' = [loop EXCEPT !.pc = "config"]
    /\ task' = ToStart(OnSlots)
    /\ LoopOnly

ReadConfig ==
    /\ up /\ loop.pc = "config"
    /\ loop' = [loop EXCEPT !.pc = "running", !.max = cfg.failures]
    /\ LoopOnly /\ UNCHANGED task

Idle(i) == task[i].pc = "idle"

\* Element i is being checked: its metrics have been read.
Checking(i) == task[i].pc \in {"dial", "store"}

\* The goroutine of one element starts: MetricsFor.
StartCheck(i) ==
    /\ up /\ loop.pc = "running" /\ task[i].pc = "start"
    /\ task' = [task EXCEPT ![i] =
                  [pc |-> "dial", id |-> @.id, addr |-> @.addr, readded |-> FALSE,
                   prev |-> IF @.id \in DOMAIN metrics
                            THEN metrics[@.id]
                            ELSE [status |-> "checking", fails |-> 0]]]
    /\ LoopOnly /\ UNCHANGED loop

Capped(n) == IF n < MaxFails THEN n ELSE MaxFails

\* Mutant of Failed: the alert belongs to the one failure that completes the
\* count.
FailedAtCount(prev, max) ==
    LET fails == Capped(prev.fails + 1)
    IN  IF fails >= max
        THEN [next   |-> [status |-> "offline", fails |-> fails],
              alerts |-> IF prev.fails + 1 = max THEN {"offline"} ELSE {}]
        ELSE [next |-> [status |-> "checking", fails |-> fails], alerts |-> {}]

\* Mutant of Failed: the status stays until the count is complete.
FailedKeepsStatus(prev, max) ==
    LET fails == Capped(prev.fails + 1)
    IN  IF fails >= max
        THEN [next   |-> [status |-> "offline", fails |-> fails],
              alerts |-> IF prev.status = "offline" THEN {} ELSE {"offline"}]
        ELSE [next |-> [status |-> prev.status, fails |-> fails], alerts |-> {}]

\* What checkOne makes of a failed dial: metrics and alerts.
Failed(prev, max) ==
    LET fails == Capped(prev.fails + 1)
    IN  IF fails >= max
        THEN [next   |-> [status |-> "offline", fails |-> fails],
              alerts |-> IF prev.status = "offline" THEN {} ELSE {"offline"}]
        ELSE [next |-> [status |-> "checking", fails |-> fails], alerts |-> {}]

\* Mutant of Succeeded: the failures before are not forgotten.
SucceededKeepsCount(prev, slow) ==
    [next   |-> [status |-> IF slow THEN "degraded" ELSE "online",
                 fails  |-> prev.fails],
     alerts |-> (IF slow THEN {"slow"} ELSE {})
                  \cup (IF prev.status = "offline" THEN {"back"} ELSE {})]

\* Of a dial that was answered, after 200 ms or more if slow.
Succeeded(prev, slow) ==
    [next   |-> [status |-> IF slow THEN "degraded" ELSE "online", fails |-> 0],
     alerts |-> (IF slow THEN {"slow"} ELSE {})
                  \cup (IF prev.status = "offline" THEN {"back"} ELSE {})]

\* AddAlert drops an alert of the same title and server of the last minute:
\* either way there is one of the last minute now.
AddAlerts(id, kinds) == window' = window \cup {<<k, id>> : k \in kinds \cap Watched}

\* The dial ends, and alerts are raised before anything is stored.
Dial(i) ==
    /\ up /\ task[i].pc = "dial"
    /\ \E slow \in Slow :
         LET ok == task[i].addr \in reach
             r  == IF ok THEN Succeeded(task[i].prev, slow)
                         ELSE Failed(task[i].prev, loop.max)
         IN  /\ task' = [task EXCEPT ![i] =
                           [pc |-> "store", id |-> @.id, ok |-> ok, next |-> r.next,
                            readded |-> @.readded]]
             /\ AddAlerts(task[i].id, r.alerts)
    /\ UNCHANGED <<up, demo, stop, cfg, copy, metrics, reach, loop, traffic, streak,
                   excused, doubled, missed>>

\* SetMetrics at the end of checkOne.
Store(i) ==
    LET t == task[i]
    IN  /\ up /\ t.pc = "store"
        /\ metrics' = Update(metrics, t.id, t.next)
        /\ streak' = [streak EXCEPT ![t.id] = IF t.ok THEN 0 ELSE Capped(@ + 1)]
        /\ missed' = IF traffic.pc = "visit" /\ ~t.ok THEN missed \cup {t.id} ELSE missed
        /\ task' = [task EXCEPT ![i] = NoTask]
        /\ UNCHANGED <<up, demo, stop, cfg, copy, window, reach, loop, traffic, excused,
                       doubled>>

\* The process ends: by a panic, a signal nobody handles, or the return of main.
Ended ==
    /\ up' = FALSE
    /\ stop' = FALSE
    /\ metrics' = <<>>
    /\ Blank
    /\ UNCHANGED <<demo, cfg, reach>>

\* Mutant of EndRound: the checks are not waited for.
EndRoundAtOnce ==
    /\ up /\ loop.pc = "running"
    /\ \A i \in Slots : task[i].pc # "start"
    /\ IF ~loop.ticker /\ cfg.interval = 0
       THEN Ended
       ELSE /\ loop' = [loop EXCEPT !.pc = "waiting", !.ticker = TRUE, !.max = 0]
            /\ LoopOnly /\ UNCHANGED task

\* wg.Wait; after the first round NewTicker, which panics on an interval of 0.
EndRound ==
    /\ up /\ loop.pc = "running"
    /\ \A i \in Slots : Idle(i)
    /\ IF ~loop.ticker /\ cfg.interval = 0
       THEN Ended
       ELSE /\ loop' = [loop EXCEPT !.pc = "waiting", !.ticker = TRUE, !.max = 0]
            /\ LoopOnly /\ UNCHANGED task

\* Mutant of Tick: the ticker keeps the interval it was made with.
TickUnreset ==
    /\ up /\ loop.pc = "waiting"
    /\ loop' = [loop EXCEPT !.pc = "servers"]
    /\ LoopOnly /\ UNCHANGED task

\* The ticker fires and is reset to the interval of now: 0 panics here too.
Tick ==
    /\ up /\ loop.pc = "waiting"
    /\ IF cfg.interval = 0
       THEN Ended
       ELSE /\ loop' = [loop EXCEPT !.pc = "servers"]
            /\ LoopOnly /\ UNCHANGED task

\* Mutant of LoopEnds: the channel is looked at before there is a ticker only.
LoopEndsEarly ==
    /\ up /\ loop.pc = "waiting" /\ stop /\ ~loop.ticker
    /\ loop' = [loop EXCEPT !.pc = "done"]
    /\ LoopOnly /\ UNCHANGED task

LoopEnds ==
    /\ up /\ loop.pc = "waiting" /\ stop
    /\ loop' = [loop EXCEPT !.pc = "done"]
    /\ LoopOnly /\ UNCHANGED task
-----------------------------------------------------------------------------
(* The traffic loop.                                                       *)

TrafficOnly == UNCHANGED <<up, demo, stop, cfg, copy, window, reach, loop, task, streak,
                           excused, doubled>>

\* sampleTraffic reads the servers ...
TrafficServers ==
    /\ up /\ traffic.pc = "idle" /\ demo
    /\ traffic' = [traffic EXCEPT !.pc = "metrics",
                                  !.todo = {<<i, cfg.servers[i].id>> : i \in OnSlots}]
    /\ TrafficOnly /\ UNCHANGED <<metrics, missed>>

\* ... then the metrics, and passes over servers that are not healthy.
TrafficMetrics ==
    /\ up /\ traffic.pc = "metrics"
    /\ LET ids == {id \in DOMAIN metrics : Healthy(metrics[id])}
       IN  traffic' = [pc   |-> "visit",
                       todo |-> {w \in traffic.todo : w[2] \in ids},
                       snap |-> [id \in ids |-> metrics[id]]]
    /\ missed' = {}
    /\ TrafficOnly /\ UNCHANGED metrics

\* The copies go back one by one with made-up speed and usage.
TrafficStore ==
    /\ up /\ traffic.pc = "visit"
    /\ \E w \in traffic.todo :
         /\ \A v \in traffic.todo : w[1] <= v[1]
         /\ metrics' = Update(metrics, w[2], traffic.snap[w[2]])
         /\ traffic' = [traffic EXCEPT !.todo = @ \ {w}]
    /\ TrafficOnly /\ UNCHANGED missed

\* PushTraffic.
TrafficPush ==
    /\ up /\ traffic.pc = "visit" /\ traffic.todo = {}
    /\ traffic' = NoTraffic
    /\ missed' = {}
    /\ TrafficOnly /\ UNCHANGED metrics

TrafficEnds ==
    /\ up /\ traffic.pc = "idle" /\ stop
    /\ traffic' = [traffic EXCEPT !.pc = "done"]
    /\ TrafficOnly /\ UNCHANGED <<metrics, missed>>
-----------------------------------------------------------------------------
(* Requests.                                                               *)

RequestOnly == UNCHANGED <<up, demo, stop, window, reach, loop, traffic, streak, missed>>

\* The list is written in its array, where a handler's copy may see it.
InPlace(list) ==
    /\ cfg' = [cfg EXCEPT !.servers = list]
    /\ copy' = IF copy.held /\ copy.shared
               THEN [copy EXCEPT !.cfg.servers =
                       [i \in DOMAIN @ |-> IF i \in DOMAIN list THEN list[i] ELSE @[i]]]
               ELSE copy

\* A handler's copy keeps the array it has, and the store has another one.
Parted == IF copy.held THEN [copy EXCEPT !.shared = FALSE] ELSE copy

\* append found no room.  There is room if the copy is longer than the list.
Moved(list) ==
    /\ copy.held /\ copy.shared => Len(copy.cfg.servers) <= Len(cfg.servers)
    /\ cfg' = [cfg EXCEPT !.servers = list]
    /\ copy' = Parted

\* Store.AddServer with the server of a link.
AddServer(id) ==
    LET list == Append(cfg.servers, [id |-> id, addr |-> Home[id], on |-> TRUE])
    IN  /\ up /\ id \notin Listed /\ Len(cfg.servers) < MaxServers
        /\ InPlace(list) \/ Moved(list)
        /\ metrics' = Update(metrics, id, NewMetrics)
        /\ task' = [i \in Slots |-> IF Checking(i) /\ task[i].id = id
                                    THEN [task[i] EXCEPT !.readded = TRUE]
                                    ELSE task[i]]
        /\ RequestOnly /\ UNCHANGED <<excused, doubled>>

\* Store.UpdateServer: another address, switched on or off.
UpdateServer(id, e) ==
    /\ up
    /\ \E i \in DOMAIN cfg.servers :
         /\ FoundAt(cfg.servers, id, i)
         /\ InPlace([cfg.servers EXCEPT ![i] = [id |-> id, addr |-> e.addr, on |-> e.on]])
    /\ RequestOnly /\ UNCHANGED <<metrics, task, excused, doubled>>

\* A check or the traffic loop will write the metrics of id.
InHand(id) ==
    \/ \E i \in Slots : ~Idle(i) /\ task[i].id = id
    \/ traffic.pc = "visit" /\ \E w \in traffic.todo : w[2] = id

\* Mutant of DeleteServer: the metrics stay.
DeleteServerOnly(id) ==
    /\ up
    /\ \E i \in DOMAIN cfg.servers :
         FoundAt(cfg.servers, id, i) /\ InPlace(Without(cfg.servers, i))
    /\ excused' = IF InHand(id) THEN excused \cup {id} ELSE excused \ {id}
    /\ RequestOnly /\ UNCHANGED <<metrics, task, doubled>>

\* Store.DeleteServer: the first element with the ID, and the metrics.
DeleteServer(id) ==
    /\ up
    /\ \E i \in DOMAIN cfg.servers :
         FoundAt(cfg.servers, id, i) /\ InPlace(Without(cfg.servers, i))
    /\ metrics' = Forget(metrics, id)
    /\ excused' = IF InHand(id) THEN excused \cup {id} ELSE excused \ {id}
    /\ RequestOnly /\ UNCHANGED <<task, doubled>>

\* Store.SaveConfig: the whole configuration is replaced, metrics are not.
Replace(c) ==
    /\ cfg' = c
    /\ excused' = excused \cup (Listed \ IdsOf(c.servers))
    /\ doubled' = doubled \cup Doubles(c.servers)
    /\ RequestOnly /\ UNCHANGED <<metrics, task>>

\* Store.Import: any document, in an array of its own.
Import(doc) == up /\ Replace(doc) /\ copy' = Parted

\* A handler calls Store.Config ...
Begin ==
    /\ up /\ StaleSaves /\ ~copy.held
    /\ copy' = [held |-> TRUE, cfg |-> cfg, shared |-> TRUE]
    /\ RequestOnly /\ UNCHANGED <<cfg, metrics, task, excused, doubled>>

\* ... refuses the request ...
Refuse ==
    /\ up /\ copy.held
    /\ copy' = NoCopy
    /\ RequestOnly /\ UNCHANGED <<cfg, metrics, task, excused, doubled>>

\* ... or saves its copy, with a change outside of the servers.
SaveConfig ==
    /\ up /\ copy.held
    /\ Replace(copy.cfg)
    /\ copy' = NoCopy
-----------------------------------------------------------------------------
(* The world.                                                              *)

\* Addresses start or cease to answer.
NetworkChanges(addrs) ==
    /\ reach' = addrs
    /\ UNCHANGED <<up, demo, stop, cfg, copy, metrics, window, loop, task, traffic,
                   streak, excused, doubled, missed>>

\* An alert is older than a minute.  The call of AddAlert and the SetMetrics
\* after it are taken to be nearer to each other than that.
Age(alert) ==
    /\ up
    /\ \A i \in Slots : task[i].pc # "store"
    /\ window' = window \ {alert}
    /\ UNCHANGED <<up, demo, stop, cfg, copy, metrics, reach, loop, task, traffic,
                   streak, excused, doubled, missed>>

\* Balancer.Stop closes both channels ...
Signal ==
    /\ up /\ ~stop
    /\ stop' = TRUE
    /\ UNCHANGED <<up, demo, cfg, copy, metrics, window, reach, loop, task, traffic,
                   streak, excused, doubled, missed>>

\* ... waits for both loops, and main returns.
Exit == up /\ loop.pc = "done" /\ traffic.pc = "done" /\ Ended

Crash == up /\ Ended

Restart ==
    /\ ~up
    /\ Started
    /\ UNCHANGED <<demo, cfg, reach>>
-----------------------------------------------------------------------------
LoopStep ==
    \/ ReadServers \/ ReadConfig \/ EndRound \/ Tick \/ LoopEnds
    \/ \E i \in Slots : StartCheck(i) \/ Dial(i) \/ Store(i)

TrafficStep ==
    \/ TrafficServers \/ TrafficMetrics \/ TrafficStore \/ TrafficPush
    \/ TrafficEnds

Request ==
    \/ \E id \in Ids : AddServer(id) \/ DeleteServer(id)
    \/ \E id \in Ids, e \in Edits : UpdateServer(id, e)
    \/ \E doc \in Documents : Import(doc)
    \/ Begin \/ Refuse \/ SaveConfig

World ==
    \/ \E addrs \in Networks \ {reach} : NetworkChanges(addrs)
    \/ \E alert \in window : Age(alert)
    \/ Signal \/ Exit \/ Crash \/ Restart

Next == LoopStep \/ TrafficStep \/ Request \/ World

Spec == Init /\ [][Next]_vars

\* Goroutines run, a dial ends by its timeout, tickers fire.  A select between
\* a tick and the closed channel does not choose the tick for ever.
Fairness ==
    /\ WF_vars(ReadServers) /\ WF_vars(ReadConfig) /\ WF_vars(EndRound)
    /\ WF_vars(Tick) /\ SF_vars(LoopEnds)
    /\ \A i \in Slots : WF_vars(StartCheck(i)) /\ WF_vars(Dial(i)) /\ WF_vars(Store(i))
    /\ WF_vars(TrafficMetrics) /\ WF_vars(TrafficStore) /\ WF_vars(TrafficPush)
    /\ SF_vars(TrafficEnds)
    /\ WF_vars(Exit)

FairSpec == Spec /\ Fairness
-----------------------------------------------------------------------------
(* Properties.                                                             *)

\* Goroutines of a round exist inside of the round only, and have read metrics
\* only after its configuration (wg.Wait in checkAll).  An ID that is listed
\* twice is known to be.
TypeOK ==
    /\ cfg \in Document /\ copy \in Copy /\ metrics \in Some(Metric)
    /\ loop \in [pc  : {"servers", "config", "running", "waiting", "done"},
                 max : 0 .. MaxFails, ticker : BOOLEAN]
    /\ task \in [Slots -> Task] /\ streak \in [Ids -> 0 .. MaxFails]
    /\ traffic \in [pc   : {"idle", "metrics", "visit", "done"},
                    todo : SUBSET (Slots \X Ids), snap : Some(Metric)]
    /\ window \subseteq Kinds \X Ids
    /\ doubled \subseteq Ids /\ Doubles(cfg.servers) \subseteq doubled
    /\ \A i \in Slots : ~Idle(i) => loop.pc \in {"config", "running"}
    /\ \A i \in Slots : Checking(i) => loop.pc = "running"
    /\ traffic.pc = "visit" =>
         \A w \in traffic.todo : w[2] \in DOMAIN traffic.snap

\* The count of failures is never more than the checks of that server that
\* failed in a row, whoever wrote the metrics last: nobody is taken to be
\* offline for failures that a success has ended (checkOne) - unless its ID was
\* listed twice.  Then two checks read one count: the success of one stores 0
\* and the failure of the other stores the old count plus one.
OfflineIsEarned ==
    \A id \in DOMAIN metrics :
      /\ id \notin doubled => metrics[id].fails <= streak[id]
      /\ metrics[id].status = "offline" => metrics[id].fails > 0

\* A server that is not listed has metrics only for one of three reasons: a
\* restore dropped it, or the save of a copy from before it was added did, or a
\* check or the traffic loop had it in hand when it was deleted.
GhostsExplained == DOMAIN metrics \ Listed \subseteq excused

\* In real mode a server goes offline with an alert of the last minute, unless
\* it was deleted and added again during the dial: then the check goes by the
\* status from before (checkOne, AddAlert).  Nor is it told of the second of
\* two checks of an ID that was listed twice.
OfflineIsAnnounced ==
    [][\A i \in Slots :
         LET id == task[i].id
         IN  (/\ Store(i) /\ ~demo
              /\ id \in DOMAIN metrics /\ metrics[id].status # "offline"
              /\ metrics'[id].status = "offline"
              /\ ~task[i].readded /\ id \notin doubled)
             => <<"offline", id>> \in window]_vars

\* "Use a status the traffic loop won't accept as healthy" (checkOne): a server
\* that was found down is taken to be healthy again only because a check of it
\* succeeds, or because the traffic loop of demo mode had read the metrics
\* before it was found down and writes back its copy.  The loop never lifts a
\* verdict it could see.
VerdictsAreHeeded ==
    [][\A id \in DOMAIN metrics \cap DOMAIN metrics' :
         (metrics[id].fails > 0 /\ Healthy(metrics'[id]))
         => \/ id \in missed
            \/ \E i \in Slots : /\ task[i].pc = "store" /\ Idle(i)'
                               /\ task[i].id = id /\ task[i].ok]_vars

Calm == <>[][UNCHANGED <<cfg, reach>>]_vars

\* Element i of the list is on, and no other one has its ID.
IsOn(i) == i \in OnSlots /\ cfg.servers[i].id \notin Doubles(cfg.servers)

Settled(i) ==
    IsOn(i) => LET id == cfg.servers[i].id
               IN  /\ id \in DOMAIN metrics
                   /\ IF cfg.servers[i].addr \in reach
                      THEN Healthy(metrics[id])
                      ELSE metrics[id].status = "offline"

\* In real mode, once configuration and network stay as they are, every server
\* that is on and listed once gets the status it should have and keeps it,
\* whatever checks of old addresses or of deleted servers were under way.
StatusSettles ==
    (Calm /\ <>[](up /\ ~stop /\ ~demo)) => \A i \in Slots : <>[]Settled(i)

\* With an interval of 0, which a restore may bring, the process does not stay
\* up: it panics at the next tick, and after every start.
ZeroIntervalIsFatal == up /\ cfg.interval = 0 ~> ~up \/ cfg.interval # 0

\* Balancer.Stop returns, however long checks take and however often tickers
\* fire.
ShutdownEnds == stop ~> ~stop
=============================================================================
