------------------------- MODULE HealthCheckerProofs -------------------------
(* Theorems about HealthChecker, for any servers, addresses and documents.  *)
EXTENDS HealthChecker, TLAPS

\* Two checks of one ID run side by side only if it was listed twice.
OneEach ==
    \A i, j \in Slots :
      (i # j /\ ~Idle(i) /\ ~Idle(j) /\ task[i].id = task[j].id)
      => task[i].id \in doubled

\* Only a success makes a server healthy, and it ends its failures.
HealthyIsClean ==
    /\ \A id \in DOMAIN metrics : Healthy(metrics[id]) => metrics[id].fails = 0
    /\ \A id \in DOMAIN traffic.snap :
         Healthy(traffic.snap[id]) /\ traffic.snap[id].fails = 0

\* What a check is about to store follows from the metrics it read.
ChecksFollow ==
    \A i \in Slots :
      /\ task[i].pc = "dial" =>
           (task[i].id \notin doubled => task[i].prev.fails <= streak[task[i].id])
      /\ task[i].pc = "store" =>
           IF task[i].ok
           THEN Healthy(task[i].next) /\ task[i].next.fails = 0
           ELSE /\ ~Healthy(task[i].next) /\ task[i].next.fails > 0
                /\ task[i].id \notin doubled =>
                     task[i].next.fails <= Capped(streak[task[i].id] + 1)

\* Who holds a copy of a server is excused if the server is no longer listed.
InHandExcused == \A id \in Ids : InHand(id) => id \in Listed \cup excused

\* A server the traffic loop will write, and that is down, was missed.
DownIsMissed ==
    traffic.pc = "visit" =>
      \A w \in traffic.todo :
        (w[2] \in DOMAIN metrics /\ metrics[w[2]].fails > 0) => w[2] \in missed

\* There is no made-up traffic in real mode.
RealIsQuiet == ~demo => traffic.pc \in {"idle", "done"}

\* The inductive invariant.
IInv == /\ TypeOK /\ OneEach /\ HealthyIsClean /\ ChecksFollow /\ OfflineIsEarned
        /\ GhostsExplained /\ InHandExcused /\ DownIsMissed /\ RealIsQuiet

\* In real mode nobody writes the metrics of a server during its check, unless
\* it is deleted and added again or listed twice: the check still knows the
\* status.
CopyIsCurrent ==
    ~demo => \A i \in Slots :
      LET id == task[i].id
      IN  (Checking(i) /\ id \in DOMAIN metrics /\ ~task[i].readded /\ id \notin doubled)
          => IF task[i].pc = "dial"
             THEN task[i].prev.status = metrics[id].status
             ELSE task[i].next.status = "offline" =>
                    metrics[id].status = "offline" \/ <<"offline", id>> \in window

\* The types of the parts of the state.
Loops == [pc  : {"servers", "config", "running", "waiting", "done"},
          max : 0 .. MaxFails, ticker : BOOLEAN]

Traffics == [pc   : {"idle", "metrics", "visit", "done"},
             todo : SUBSET (Slots \X Ids), snap : Some(Metric)]

USE HealthAssumption
-----------------------------------------------------------------------------
(* Maps and lists.                                                         *)

LEMMA SomeDomain ==
    ASSUME NEW T, NEW f \in Some(T)
    PROVE  /\ DOMAIN f \subseteq Ids
           /\ \A x \in DOMAIN f : f[x] \in T
           /\ f = [x \in DOMAIN f |-> f[x]]
  BY DEF Some

LEMMA SomeIs ==
    ASSUME NEW T, NEW S \in SUBSET Ids, NEW f \in [S -> T]
    PROVE  f \in Some(T)
  BY DEF Some

LEMMA ForgetIs ==
    ASSUME NEW T, NEW f \in Some(T), NEW id
    PROVE  /\ Forget(f, id) \in Some(T)
           /\ DOMAIN Forget(f, id) = DOMAIN f \ {id}
           /\ \A x \in DOMAIN f \ {id} : Forget(f, id)[x] = f[x]
  <1>1. DOMAIN f \ {id} \in SUBSET Ids /\ \A x \in DOMAIN f : f[x] \in T
    BY SomeDomain
  <1>2. Forget(f, id) \in [DOMAIN f \ {id} -> T]
    BY <1>1 DEF Forget
  <1> QED
    BY <1>1, <1>2, SomeIs DEF Forget

\* What a write of metrics comes to.
LEMMA MetricIs ==
    ASSUME metrics \in Some(Metric), NEW id \in Ids, NEW v \in Metric,
           metrics' = Update(metrics, id, v)
    PROVE  /\ metrics' \in Some(Metric) /\ DOMAIN metrics' = DOMAIN metrics \cup {id}
           /\ metrics'[id] = v
           /\ \A x \in DOMAIN metrics \ {id} : metrics'[x] = metrics[x]
  <1>1. PICK T : T = Metric
    OBVIOUS
  <1>2. DOMAIN metrics \cup {id} \in SUBSET Ids /\ \A x \in DOMAIN metrics : metrics[x] \in T
    BY <1>1, SomeDomain
  <1>3. metrics' = [x \in DOMAIN metrics \cup {id} |-> IF x = id THEN v ELSE metrics[x]]
    BY DEF Update
  <1>4. metrics' \in [DOMAIN metrics \cup {id} -> T]
    BY <1>1, <1>2, <1>3
  <1>5. metrics' \in Some(Metric)
    BY <1>1, <1>2, <1>4, SomeIs
  <1> QED
    BY <1>3, <1>5

LEMMA NoneIs ==
    ASSUME NEW T
    PROVE  <<>> \in Some(T) /\ DOMAIN <<>> = {}
  <1>1. <<>> \in [{} -> T]
    OBVIOUS
  <1> QED
    BY <1>1, SomeIs

LEMMA ListIs ==
    ASSUME NEW list
    PROVE  list \in Lists <=> list \in Seq(Server) /\ Len(list) <= MaxServers
  <1>1. ASSUME list \in Lists
        PROVE  list \in Seq(Server) /\ Len(list) <= MaxServers
    <2>1. PICK n \in 0 .. MaxServers : list \in [1 .. n -> Server]
      BY <1>1 DEF Lists
    <2>2. n \in Nat /\ n <= MaxServers
      BY <2>1
    <2>3. list \in Seq(Server) /\ Len(list) = n
      BY <2>1, <2>2
    <2> QED
      BY <2>2, <2>3
  <1>2. ASSUME list \in Seq(Server), Len(list) <= MaxServers
        PROVE  list \in Lists
    <2>1. PICK n \in 0 .. MaxServers : n = Len(list)
      BY <1>2
    <2>2. list \in [1 .. n -> Server]
      BY <1>2, <2>1
    <2> QED
      BY <2>2 DEF Lists
  <1> QED
    BY <1>1, <1>2

LEMMA IdsOfIs ==
    ASSUME NEW list \in Lists
    PROVE  /\ DOMAIN list = 1 .. Len(list) /\ Len(list) \in Nat
           /\ DOMAIN list \subseteq Slots
           /\ \A i \in DOMAIN list :
                list[i] \in Server /\ list[i].id \in IdsOf(list) /\ list[i].id \in Ids
           /\ IdsOf(list) \subseteq Ids
           /\ Doubles(list) \subseteq IdsOf(list)
  <1>1. list \in Seq(Server) /\ Len(list) <= MaxServers
    BY ListIs
  <1>2. DOMAIN list = 1 .. Len(list) /\ Len(list) \in Nat
        /\ \A i \in DOMAIN list : list[i] \in Server
    BY <1>1
  <1> QED
    BY <1>1, <1>2 DEF IdsOf, Doubles, Server, Slots

\* A server with a new ID at the end.
LEMMA AppendIs ==
    ASSUME NEW list \in Lists, Len(list) < MaxServers,
           NEW s \in Server, s.id \notin IdsOf(list)
    PROVE  /\ Append(list, s) \in Lists
           /\ IdsOf(Append(list, s)) = IdsOf(list) \cup {s.id}
           /\ Doubles(Append(list, s)) \subseteq Doubles(list)
  <1> DEFINE new == Append(list, s)
  <1>1. list \in Seq(Server) /\ Len(list) \in Nat /\ DOMAIN list = 1 .. Len(list)
    BY ListIs, IdsOfIs
  <1>2. /\ new \in Seq(Server) /\ Len(new) = Len(list) + 1
        /\ DOMAIN new = 1 .. Len(list) + 1
        /\ \A i \in 1 .. Len(list) : new[i] = list[i]
        /\ new[Len(list) + 1] = s
    BY <1>1
  <1> HIDE DEF new
  <1>3. new \in Lists
    BY <1>1, <1>2, ListIs
  <1>4. IdsOf(new) = IdsOf(list) \cup {s.id}
    <2>1. \A i \in DOMAIN new : (i \in DOMAIN list /\ new[i] = list[i]) \/ new[i] = s
      BY <1>1, <1>2
    <2>2. \A i \in DOMAIN list : i \in DOMAIN new /\ new[i] = list[i]
      BY <1>1, <1>2
    <2>3. \E i \in DOMAIN new : new[i] = s
      BY <1>1, <1>2
    <2> QED
      BY <2>1, <2>2, <2>3 DEF IdsOf
  <1>5. Doubles(new) \subseteq Doubles(list)
    <2> SUFFICES ASSUME NEW id \in Doubles(new)
                 PROVE  id \in Doubles(list)
      OBVIOUS
    <2>1. PICK i, j \in DOMAIN new : i # j /\ new[i].id = id /\ new[j].id = id
      BY DEF Doubles
    <2>2. \A k \in 1 .. Len(list) + 1 : k \in 1 .. Len(list) \/ k = Len(list) + 1
      BY <1>1
    <2>3. \A k \in DOMAIN new : \/ k \in DOMAIN list /\ new[k] = list[k]
                                \/ k = Len(list) + 1 /\ new[k] = s
      BY <1>1, <1>2, <2>2
    <2>4. i \in DOMAIN list /\ j \in DOMAIN list
      BY <2>1, <2>3 DEF IdsOf
    <2> QED
      BY <2>1, <2>3, <2>4, <1>1 DEF Doubles, IdsOf
  <1> QED
    BY <1>3, <1>4, <1>5 DEF new

\* The server at one position replaced by one with the same ID.
LEMMA ReplacedIs ==
    ASSUME NEW list \in Lists, NEW i \in DOMAIN list, NEW s \in Server, s.id = list[i].id
    PROVE  /\ [list EXCEPT ![i] = s] \in Lists
           /\ IdsOf([list EXCEPT ![i] = s]) = IdsOf(list)
           /\ Doubles([list EXCEPT ![i] = s]) = Doubles(list)
  <1> DEFINE new == [list EXCEPT ![i] = s]
  <1>1. PICK n \in 0 .. MaxServers : list \in [1 .. n -> Server]
    BY DEF Lists
  <1>2. new \in [1 .. n -> Server] /\ DOMAIN new = DOMAIN list
        /\ \A j \in DOMAIN list : new[j].id = list[j].id
    BY <1>1
  <1>3. new \in Lists
    BY <1>2 DEF Lists
  <1> HIDE DEF new
  <1>4. IdsOf(new) = IdsOf(list) /\ Doubles(new) = Doubles(list)
    BY <1>2 DEF IdsOf, Doubles
  <1> QED
    BY <1>3, <1>4 DEF new

\* The first element with an ID taken out: every other ID stays.
LEMMA WithoutIs ==
    ASSUME NEW list \in Lists, NEW i \in DOMAIN list
    PROVE  /\ Without(list, i) \in Lists
           /\ IdsOf(list) \ {list[i].id} \subseteq IdsOf(Without(list, i))
           /\ Doubles(Without(list, i)) \subseteq Doubles(list)
  <1> DEFINE new == Without(list, i)
             at(j) == IF j < i THEN j ELSE j + 1
  <1>1. PICK n \in 0 .. MaxServers : list \in [1 .. n -> Server]
    BY DEF Lists
  <1>2. n \in Nat /\ Len(list) = n /\ DOMAIN list = 1 .. n /\ i \in 1 .. n
    BY <1>1
  <1>3. /\ DOMAIN new = 1 .. n - 1
        /\ \A j \in 1 .. n - 1 : at(j) \in 1 .. n /\ new[j] = list[at(j)]
    BY <1>2 DEF Without
  <1>4. new \in [1 .. n - 1 -> Server]
    BY <1>1, <1>3 DEF Without
  <1>5. n - 1 \in 0 .. MaxServers
    BY <1>2
  <1>6. new \in Lists
    BY <1>4, <1>5 DEF Lists
  <1> HIDE DEF new
  <1>7. IdsOf(list) \ {list[i].id} \subseteq IdsOf(new)
    <2> SUFFICES ASSUME NEW k \in 1 .. n, k # i
                 PROVE  list[k].id \in IdsOf(new)
      BY <1>2 DEF IdsOf
    <2>1. CASE k < i
      <3>1. k \in 1 .. n - 1 /\ new[k] = list[k]
        BY <1>2, <1>3, <2>1
      <3> QED
        BY <1>3, <3>1 DEF IdsOf
    <2>2. CASE k > i
      <3>1. k - 1 \in 1 .. n - 1 /\ at(k - 1) = k
        BY <1>2, <2>2
      <3>2. new[k - 1] = list[k]
        BY <1>3, <3>1
      <3> QED
        BY <1>3, <3>1, <3>2 DEF IdsOf
    <2> QED
      BY <1>2, <2>1, <2>2
  <1>8. Doubles(new) \subseteq Doubles(list)
    <2> SUFFICES ASSUME NEW id \in Doubles(new)
                 PROVE  id \in Doubles(list)
      OBVIOUS
    <2>1. PICK j, k \in 1 .. n - 1 : j # k /\ new[j].id = id /\ new[k].id = id
      BY <1>3 DEF Doubles
    <2>2. at(j) \in 1 .. n /\ at(k) \in 1 .. n /\ at(j) # at(k)
      BY <1>2, <2>1
    <2>3. list[at(j)].id = id /\ list[at(k)].id = id
      BY <1>3, <2>1
    <2> HIDE DEF at
    <2> QED
      BY <1>2, <2>2, <2>3 DEF Doubles, IdsOf
  <1> QED
    BY <1>6, <1>7, <1>8 DEF new

-----------------------------------------------------------------------------
(* Checks and copies.                                                      *)

LEMMA CappedIs ==
    ASSUME NEW n \in Nat
    PROVE  Capped(n) \in 0 .. MaxFails /\ Capped(n) <= n /\ (n > 0 => Capped(n) > 0)
  BY DEF Capped

LEMMA FailedIs ==
    ASSUME NEW prev \in Metric, NEW max \in 0 .. MaxFails
    PROVE  /\ Failed(prev, max).next \in Metric
           /\ ~Healthy(Failed(prev, max).next)
           /\ Failed(prev, max).next.fails = Capped(prev.fails + 1)
           /\ Failed(prev, max).next.fails > 0
           /\ Failed(prev, max).next.status = "offline" =>
                prev.status = "offline" \/ "offline" \in Failed(prev, max).alerts
           /\ Failed(prev, max).alerts \subseteq Kinds
  <1>1. prev.fails + 1 \in Nat /\ prev.fails + 1 > 0
    BY DEF Metric
  <1>2. Capped(prev.fails + 1) \in 0 .. MaxFails /\ Capped(prev.fails + 1) > 0
    BY <1>1, CappedIs
  <1> QED
    BY <1>2 DEF Failed, Metric, Statuses, Healthy, Kinds

LEMMA SucceededIs ==
    ASSUME NEW prev \in Metric, NEW slow
    PROVE  /\ Succeeded(prev, slow).next \in Metric
           /\ Healthy(Succeeded(prev, slow).next)
           /\ Succeeded(prev, slow).next.fails = 0
           /\ Succeeded(prev, slow).alerts \subseteq Kinds
  BY DEF Succeeded, Metric, Statuses, Healthy, Kinds

\* A running check is in one of three places.
LEMMA TaskIs ==
    ASSUME NEW t \in Task
    PROVE  /\ t.pc \in {"idle", "start", "dial", "store"}
           /\ t.pc # "idle" => t.id \in Ids
           /\ t.pc = "start" => t \in [pc : {"start"}, id : Ids, addr : Addrs]
           /\ t.pc = "dial" => t \in [pc : {"dial"}, id : Ids, addr : Addrs,
                                      readded : BOOLEAN, prev : Metric]
           /\ t.pc = "store" => t \in [pc : {"store"}, id : Ids, ok : BOOLEAN,
                                       next : Metric, readded : BOOLEAN]
  BY DEF Task

LEMMA NoTaskIs == NoTask \in Task /\ NoTask.pc = "idle"
  BY DEF NoTask, Task

\* Adding a server again is noted by its checks and changes nothing else there.
LEMMA ReaddedIs ==
    ASSUME NEW t \in Task, t.pc \in {"dial", "store"}
    PROVE  /\ [t EXCEPT !.readded = TRUE] \in Task
           /\ [t EXCEPT !.readded = TRUE].pc = t.pc
           /\ [t EXCEPT !.readded = TRUE].id = t.id
           /\ [t EXCEPT !.readded = TRUE].readded
           /\ t.pc = "dial" => [t EXCEPT !.readded = TRUE].prev = t.prev
           /\ t.pc = "store" => /\ [t EXCEPT !.readded = TRUE].next = t.next
                                /\ [t EXCEPT !.readded = TRUE].ok = t.ok
  <1>1. CASE t.pc = "dial"
    BY <1>1, TaskIs DEF Task
  <1>2. CASE t.pc = "store"
    BY <1>2, TaskIs DEF Task
  <1> QED
    BY <1>1, <1>2

\* What the list becomes reaches the copy in the same array, and no more.
LEMMA ArrayIs ==
    ASSUME cfg \in Document, copy \in Copy, NEW list \in Lists,
           InPlace(list) \/ Moved(list)
    PROVE  cfg' \in Document /\ cfg'.servers = list /\ copy' \in Copy
  <1>1. cfg' = [cfg EXCEPT !.servers = list]
    BY DEF InPlace, Moved
  <1>2. cfg' \in Document /\ cfg'.servers = list
    BY <1>1 DEF Document
  <1>3. ASSUME copy.held
        PROVE  /\ copy = [held |-> TRUE, cfg |-> copy.cfg, shared |-> copy.shared]
               /\ copy.cfg \in Document /\ copy.shared \in BOOLEAN
    BY <1>3 DEF Copy
  <1>4. CASE Moved(list)
    <2>1. CASE copy.held
      <3>1. copy' = [copy EXCEPT !.shared = FALSE]
        BY <1>4, <2>1 DEF Moved, Parted
      <3>2. copy' = [held |-> TRUE, cfg |-> copy.cfg, shared |-> FALSE]
        BY <1>3, <2>1, <3>1
      <3> QED
        BY <1>2, <1>3, <2>1, <3>2 DEF Copy
    <2>2. CASE ~copy.held
      BY <1>2, <1>4, <2>2 DEF Moved, Parted
    <2> QED
      BY <1>2, <2>1, <2>2
  <1>5. CASE InPlace(list)
    <2>1. CASE copy.held /\ copy.shared
      <3> DEFINE old == copy.cfg.servers
                 new == [i \in DOMAIN old |-> IF i \in DOMAIN list THEN list[i] ELSE old[i]]
      <3>1. copy' = [copy EXCEPT !.cfg.servers = new]
        BY <1>5, <2>1 DEF InPlace
      <3>2. new \in Lists
        <4>1. old \in Lists
          BY <1>3, <2>1 DEF Document
        <4>2. PICK n \in 0 .. MaxServers : old \in [1 .. n -> Server]
          BY <4>1 DEF Lists
        <4>3. \A i \in DOMAIN list : list[i] \in Server
          BY IdsOfIs
        <4>4. new \in [1 .. n -> Server]
          BY <4>2, <4>3
        <4> QED
          BY <4>4 DEF Lists
      <3> HIDE DEF new
      <3>3. copy' = [held |-> TRUE, cfg |-> [copy.cfg EXCEPT !.servers = new],
                     shared |-> copy.shared]
        BY <1>3, <2>1, <3>1
      <3>4. [copy.cfg EXCEPT !.servers = new] \in Document
        BY <1>3, <2>1, <3>2 DEF Document
      <3> QED
        BY <1>2, <1>3, <2>1, <3>3, <3>4 DEF Copy
    <2>2. CASE ~(copy.held /\ copy.shared)
      BY <1>2, <1>5, <2>2 DEF InPlace
    <2> QED
      BY <1>2, <2>1, <2>2
  <1> QED
    BY <1>4, <1>5

LEMMA PartedIs ==
    ASSUME copy \in Copy
    PROVE  Parted \in Copy
  <1>1. ASSUME copy.held
        PROVE  [copy EXCEPT !.shared = FALSE] \in Copy
    BY <1>1 DEF Copy
  <1> QED
    BY <1>1 DEF Parted

\* What IInv says of the types, for the steps below.
LEMMA Typed ==
    ASSUME TypeOK
    PROVE  /\ cfg \in Document /\ copy \in Copy /\ cfg.servers \in Lists
           /\ Listed \subseteq Ids
           /\ metrics \in Some(Metric) /\ DOMAIN metrics \subseteq Ids
           /\ \A id \in DOMAIN metrics : metrics[id] \in Metric
           /\ loop \in Loops /\ loop.max \in 0 .. MaxFails
           /\ traffic \in Traffics /\ traffic.todo \subseteq Slots \X Ids
           /\ traffic.snap \in Some(Metric) /\ DOMAIN traffic.snap \subseteq Ids
           /\ \A id \in DOMAIN traffic.snap : traffic.snap[id] \in Metric
           /\ task \in [Slots -> Task] /\ streak \in [Ids -> 0 .. MaxFails]
           /\ window \subseteq Kinds \X Ids /\ doubled \subseteq Ids
           /\ Doubles(cfg.servers) \subseteq doubled
  <1>1. /\ cfg \in Document /\ copy \in Copy /\ metrics \in Some(Metric)
        /\ loop \in Loops /\ traffic \in Traffics
        /\ task \in [Slots -> Task] /\ streak \in [Ids -> 0 .. MaxFails]
        /\ window \subseteq Kinds \X Ids /\ doubled \subseteq Ids
        /\ Doubles(cfg.servers) \subseteq doubled
    BY DEF TypeOK, Loops, Traffics
  <1>2. cfg.servers \in Lists
    BY <1>1 DEF Document
  <1>3. Listed \subseteq Ids
    BY <1>2, IdsOfIs DEF Listed
  <1>4. DOMAIN metrics \subseteq Ids /\ \A id \in DOMAIN metrics : metrics[id] \in Metric
    BY <1>1, SomeDomain
  <1>5. traffic.snap \in Some(Metric) /\ traffic.todo \subseteq Slots \X Ids
        /\ loop.max \in 0 .. MaxFails
    BY <1>1 DEF Traffics, Loops
  <1>6. /\ DOMAIN traffic.snap \subseteq Ids
        /\ \A id \in DOMAIN traffic.snap : traffic.snap[id] \in Metric
    BY <1>5, SomeDomain
  <1> QED
    BY <1>1, <1>2, <1>3, <1>4, <1>5, <1>6

-----------------------------------------------------------------------------
(* Every step keeps IInv.                                                  *)

\* The state of a process that has just started, or that has ended.
Fresh ==
    /\ cfg \in Document /\ copy = NoCopy /\ window = {} /\ loop = AtStart
    /\ metrics = [id \in Listed |-> NewMetrics] \/ metrics = <<>>
    /\ task = [i \in Slots |-> NoTask] /\ traffic = NoTraffic
    /\ streak = [id \in Ids |-> 0] /\ excused = {} /\ doubled = Doubles(cfg.servers)

LEMMA FreshIInv == Fresh => IInv
  <1> SUFFICES ASSUME Fresh
               PROVE  IInv
    OBVIOUS
  <1>1. cfg.servers \in Lists /\ cfg \in Document
    BY DEF Fresh, Document
  <1>2. Listed \in SUBSET Ids /\ doubled \subseteq Ids /\ Doubles(cfg.servers) \subseteq doubled
    BY <1>1, IdsOfIs DEF Listed, Fresh
  <1>3. NewMetrics \in Metric /\ ~Healthy(NewMetrics) /\ NewMetrics.fails = 0
        /\ NewMetrics.status # "offline"
    BY DEF NewMetrics, Metric, Statuses, Healthy
  <1>4. metrics \in Some(Metric) /\ DOMAIN metrics \subseteq Listed
        /\ \A id \in DOMAIN metrics : metrics[id] = NewMetrics
    <2>1. [id \in Listed |-> NewMetrics] \in [Listed -> Metric]
      BY <1>3
    <2>2. [id \in Listed |-> NewMetrics] \in Some(Metric)
      BY <1>2, <2>1, SomeIs
    <2> QED
      BY <2>2, NoneIs DEF Fresh
  <1>5. loop \in Loops
    BY DEF Fresh, AtStart, Loops
  <1>6. traffic \in Traffics /\ traffic.pc = "idle" /\ DOMAIN traffic.snap = {}
    <2>1. <<>> \in Some(Metric) /\ {} \in SUBSET (Slots \X Ids) /\ DOMAIN <<>> = {}
      BY NoneIs
    <2> QED
      BY <2>1 DEF Fresh, NoTraffic, Traffics
  <1>7. task \in [Slots -> Task] /\ \A i \in Slots : task[i].pc = "idle"
    BY NoTaskIs DEF Fresh
  <1>8. streak \in [Ids -> 0 .. MaxFails] /\ \A id \in Ids : streak[id] = 0
    BY DEF Fresh
  <1>9. copy \in Copy /\ window = {}
    BY DEF Fresh, Copy, NoCopy
  <1>10. TypeOK
    BY <1>1, <1>2, <1>4, <1>5, <1>6, <1>7, <1>8, <1>9
       DEF TypeOK, Idle, Checking, Loops, Traffics
  <1>11. OneEach /\ HealthyIsClean /\ ChecksFollow /\ RealIsQuiet /\ DownIsMissed
    BY <1>3, <1>4, <1>6, <1>7
       DEF OneEach, HealthyIsClean, ChecksFollow, RealIsQuiet, DownIsMissed, Idle
  <1>12. OfflineIsEarned
    <2>1. \A id \in DOMAIN metrics :
            metrics[id].fails = 0 /\ metrics[id].status # "offline" /\ id \in Ids
      BY <1>2, <1>3, <1>4
    <2>2. ASSUME NEW id \in DOMAIN metrics
          PROVE  metrics[id].fails <= streak[id]
      <3>1. metrics[id].fails = 0 /\ streak[id] = 0
        BY <1>8, <2>1
      <3> QED
        BY <3>1
    <2> QED
      BY <2>1, <2>2 DEF OfflineIsEarned
  <1>13. GhostsExplained /\ InHandExcused
    BY <1>4, <1>6, <1>7 DEF GhostsExplained, InHandExcused, InHand, Idle
  <1> QED
    BY <1>10, <1>11, <1>12, <1>13 DEF IInv

LEMMA InitIInv == Init => IInv
  <1>1. Init => Fresh
    BY DEF Init, Fresh
  <1> QED
    BY <1>1, FreshIInv

LEMMA EndsIInv == IInv /\ (Ended \/ Restart) => IInv'
  <1>1. IInv /\ (Ended \/ Restart) => Fresh'
    <2>1. IInv => cfg \in Document
      BY DEF IInv, TypeOK
    <2> QED
      BY <2>1 DEF Ended, Restart, Started, Blank, Fresh, Listed
  <1> QED
    BY <1>1, FreshIInv, PTL

\* What most steps of the loop and of the world leave as it is.
Kept == UNCHANGED <<demo, cfg, copy, metrics, traffic, streak, excused, doubled, missed>>

LEMMA ReadServersIInv ==
    ASSUME IInv, ReadServers
    PROVE  IInv'
  <1>1. /\ loop.pc = "servers" /\ loop' = [loop EXCEPT !.pc = "config"]
        /\ task' = ToStart(OnSlots) /\ Kept /\ UNCHANGED window
    BY DEF ReadServers, LoopOnly, Kept
  <1>2. loop \in Loops /\ cfg.servers \in Lists /\ Doubles(cfg.servers) \subseteq doubled
    BY Typed DEF IInv
  <1>3. loop' \in Loops /\ loop'.pc = "config"
    BY <1>1, <1>2 DEF Loops
  <1>4. \A i \in Slots :
          /\ task'[i] \in Task
          /\ task'[i].pc # "idle" =>
               /\ task'[i].pc = "start" /\ i \in DOMAIN cfg.servers
               /\ task'[i].id = cfg.servers[i].id
    <2> SUFFICES ASSUME NEW i \in Slots
                 PROVE  /\ task'[i] \in Task
                        /\ task'[i].pc # "idle" =>
                             /\ task'[i].pc = "start" /\ i \in DOMAIN cfg.servers
                             /\ task'[i].id = cfg.servers[i].id
      OBVIOUS
    <2>1. CASE i \in OnSlots
      <3>1. i \in DOMAIN cfg.servers /\ cfg.servers[i] \in Server
        BY <1>2, <2>1, IdsOfIs DEF OnSlots
      <3>2. task'[i] = [pc |-> "start", id |-> cfg.servers[i].id,
                        addr |-> cfg.servers[i].addr]
        BY <1>1, <2>1 DEF ToStart
      <3> QED
        BY <3>1, <3>2 DEF Task, Server
    <2>2. CASE i \notin OnSlots
      BY <1>1, <2>2, NoTaskIs DEF ToStart
    <2> QED
      BY <2>1, <2>2
  <1>5. task' \in [Slots -> Task]
    <2>1. task' = [i \in Slots |-> task'[i]]
      BY <1>1 DEF ToStart
    <2> QED
      BY <1>4, <2>1
  <1>6. TypeOK'
    BY <1>1, <1>3, <1>4, <1>5 DEF IInv, TypeOK, Loops, Traffics, Idle, Checking, Kept
  <1>7. OneEach'
    <2> SUFFICES ASSUME NEW i \in Slots, NEW j \in Slots, i # j, ~Idle(i)', ~Idle(j)',
                        task'[i].id = task'[j].id
                 PROVE  task'[i].id \in doubled'
      BY DEF OneEach
    <2>1. /\ i \in DOMAIN cfg.servers /\ j \in DOMAIN cfg.servers
          /\ cfg.servers[i].id = task'[i].id /\ cfg.servers[j].id = task'[i].id
      BY <1>4 DEF Idle
    <2>2. task'[i].id \in Doubles(cfg.servers)
      BY <2>1 DEF Doubles, IdsOf
    <2> QED
      BY <1>1, <1>2, <2>2 DEF Kept
  <1>8. ChecksFollow'
    BY <1>4 DEF ChecksFollow
  <1>9. HealthyIsClean' /\ OfflineIsEarned' /\ GhostsExplained' /\ RealIsQuiet'
        /\ DownIsMissed'
    BY <1>1 DEF IInv, HealthyIsClean, OfflineIsEarned, GhostsExplained, RealIsQuiet,
                DownIsMissed, Listed, Kept
  <1>10. InHandExcused'
    <2> SUFFICES ASSUME NEW id \in Ids, InHand(id)'
                 PROVE  id \in Listed' \cup excused'
      BY DEF InHandExcused
    <2>1. CASE \E i \in Slots : ~Idle(i)' /\ task'[i].id = id
      BY <1>1, <1>4, <2>1 DEF Idle, Listed, IdsOf, Kept
    <2>2. CASE ~ \E i \in Slots : ~Idle(i)' /\ task'[i].id = id
      <3>1. InHand(id)
        BY <1>1, <2>2 DEF InHand, Kept
      <3> QED
        BY <1>1, <3>1 DEF IInv, InHandExcused, Listed, Kept
    <2> QED
      BY <2>1, <2>2
  <1> QED
    BY <1>6, <1>7, <1>8, <1>9, <1>10 DEF IInv

\* The steps that move the loop on, and what happens around it.
LEMMA AroundIInv ==
    ASSUME IInv, Kept, UNCHANGED task,
           window' \subseteq window, loop' \in Loops,
           \/ loop' = loop
           \/ loop'.pc = "running"
           \/ \A i \in Slots : Idle(i)
    PROVE  IInv'
  <1>1. \A i \in Slots : Idle(i)' <=> Idle(i)
    BY DEF Idle
  <1>2. window' \subseteq Kinds \X Ids
    BY Typed DEF IInv
  <1>3. TypeOK'
    BY <1>1, <1>2 DEF IInv, TypeOK, Loops, Traffics, Idle, Checking, Kept
  <1>4. HealthyIsClean' /\ OfflineIsEarned' /\ GhostsExplained' /\ RealIsQuiet'
        /\ DownIsMissed'
    BY DEF IInv, HealthyIsClean, OfflineIsEarned, GhostsExplained, RealIsQuiet,
           DownIsMissed, Listed, Kept
  <1>5. OneEach' /\ ChecksFollow' /\ InHandExcused'
    BY <1>1 DEF IInv, OneEach, ChecksFollow, InHandExcused, InHand, Listed, Kept
  <1> QED
    BY <1>3, <1>4, <1>5 DEF IInv

LEMMA LoopIInv ==
    ASSUME IInv, ReadConfig \/ EndRound \/ Tick \/ LoopEnds
    PROVE  IInv'
  <1>1. loop \in Loops /\ cfg.failures \in 0 .. MaxFails
    BY DEF IInv, TypeOK, Document, Loops
  <1>2. loop.pc = "waiting" => \A i \in Slots : Idle(i)
    BY DEF IInv, TypeOK
  <1>3. CASE ReadConfig
    <2>1. loop' = [loop EXCEPT !.pc = "running", !.max = cfg.failures]
          /\ Kept /\ UNCHANGED <<window, task>>
      BY <1>3 DEF ReadConfig, LoopOnly, Kept
    <2>2. loop' \in Loops /\ loop'.pc = "running"
      BY <1>1, <2>1 DEF Loops
    <2> QED
      BY <2>1, <2>2, AroundIInv
  <1>4. CASE EndRound
    <2>1. CASE Ended
      BY <2>1, EndsIInv
    <2>2. CASE ~Ended
      <3>1. /\ loop' = [loop EXCEPT !.pc = "waiting", !.ticker = TRUE, !.max = 0]
            /\ Kept /\ UNCHANGED <<window, task>> /\ \A i \in Slots : Idle(i)
        BY <1>4, <2>2 DEF EndRound, LoopOnly, Kept
      <3>2. loop' \in Loops
        <4>1. 0 \in 0 .. MaxFails
          OBVIOUS
        <4> QED
          BY <1>1, <3>1, <4>1 DEF Loops
      <3> QED
        BY <3>1, <3>2, AroundIInv
    <2> QED
      BY <2>1, <2>2
  <1>5. CASE Tick
    <2>1. CASE Ended
      BY <2>1, EndsIInv
    <2>2. CASE ~Ended
      <3>1. /\ loop' = [loop EXCEPT !.pc = "servers"] /\ loop.pc = "waiting"
            /\ Kept /\ UNCHANGED <<window, task>>
        BY <1>5, <2>2 DEF Tick, LoopOnly, Kept
      <3>2. loop' \in Loops
        BY <1>1, <3>1 DEF Loops
      <3> QED
        BY <1>2, <3>1, <3>2, AroundIInv
    <2> QED
      BY <2>1, <2>2
  <1>6. CASE LoopEnds
    <2>1. /\ loop' = [loop EXCEPT !.pc = "done"] /\ loop.pc = "waiting"
          /\ Kept /\ UNCHANGED <<window, task>>
      BY <1>6 DEF LoopEnds, LoopOnly, Kept
    <2>2. loop' \in Loops
      BY <1>1, <2>1 DEF Loops
    <2> QED
      BY <1>2, <2>1, <2>2, AroundIInv
  <1> QED
    BY <1>3, <1>4, <1>5, <1>6

\* The steps that touch neither the server list nor metrics.
LEMMA WorldIInv ==
    ASSUME IInv,
           \/ \E addrs \in Networks \ {reach} : NetworkChanges(addrs)
           \/ \E alert \in window : Age(alert)
           \/ Signal
           \/ UNCHANGED vars
    PROVE  IInv'
  <1>1. Kept /\ UNCHANGED <<loop, task>> /\ window' \subseteq window
    BY DEF NetworkChanges, Age, Signal, vars, Kept
  <1>2. loop' \in Loops
    BY <1>1, Typed DEF IInv
  <1> QED
    BY <1>1, <1>2, AroundIInv

\* One check moves on to a new place, for the same ID.
LEMMA CheckMovesIInv ==
    ASSUME IInv, Kept, UNCHANGED loop, loop.pc = "running",
           window' \subseteq Kinds \X Ids,
           NEW i \in Slots, NEW t \in Task, task' = [task EXCEPT ![i] = t],
           ~Idle(i), t.pc # "idle", t.id = task[i].id,
           t.pc = "dial" => (t.id \notin doubled => t.prev.fails <= streak[t.id]),
           t.pc = "store" =>
             IF t.ok
             THEN Healthy(t.next) /\ t.next.fails = 0
             ELSE /\ ~Healthy(t.next) /\ t.next.fails > 0
                  /\ t.id \notin doubled => t.next.fails <= Capped(streak[t.id] + 1)
    PROVE  IInv'
  <1>1. /\ task \in [Slots -> Task] /\ task'[i] = t
        /\ \A j \in Slots \ {i} : task'[j] = task[j]
    BY Typed DEF IInv
  <1>2. task' \in [Slots -> Task]
    BY <1>1
  <1>3. \A j \in Slots : /\ Idle(j)' <=> Idle(j)
                         /\ ~Idle(j) => task'[j].id = task[j].id
    BY <1>1 DEF Idle
  <1>4. TypeOK'
    BY <1>2 DEF IInv, TypeOK, Loops, Traffics, Idle, Checking, Kept
  <1>5. HealthyIsClean' /\ OfflineIsEarned' /\ GhostsExplained' /\ RealIsQuiet'
        /\ DownIsMissed'
    BY DEF IInv, HealthyIsClean, OfflineIsEarned, GhostsExplained, RealIsQuiet,
           DownIsMissed, Listed, Kept
  <1>6. OneEach' /\ InHandExcused'
    BY <1>3 DEF IInv, OneEach, InHandExcused, InHand, Listed, Kept
  <1>7. ChecksFollow'
    BY <1>1 DEF IInv, ChecksFollow, Kept
  <1> QED
    BY <1>4, <1>5, <1>6, <1>7 DEF IInv

LEMMA StartCheckIInv ==
    ASSUME IInv, NEW i \in Slots, StartCheck(i)
    PROVE  IInv'
  <1> DEFINE id == task[i].id
             prev == IF id \in DOMAIN metrics
                     THEN metrics[id]
                     ELSE [status |-> "checking", fails |-> 0]
             t == [pc |-> "dial", id |-> id, addr |-> task[i].addr, readded |-> FALSE,
                   prev |-> prev]
  <1>1. /\ loop.pc = "running" /\ task[i].pc = "start" /\ task' = [task EXCEPT ![i] = t]
        /\ Kept /\ UNCHANGED <<loop, window>>
    BY DEF StartCheck, LoopOnly, Kept
  <1>2. id \in Ids /\ task[i].addr \in Addrs /\ streak[id] \in 0 .. MaxFails
    <2>1. task[i] \in Task
      BY Typed DEF IInv
    <2>2. id \in Ids /\ task[i].addr \in Addrs
      BY <1>1, <2>1, TaskIs
    <2> QED
      BY <2>2, Typed DEF IInv
  <1>3. prev \in Metric /\ (id \notin doubled => prev.fails <= streak[id])
    <2>1. [status |-> "checking", fails |-> 0] \in Metric
      BY DEF Metric, Statuses
    <2> QED
      BY <1>2, <2>1, Typed DEF IInv, OfflineIsEarned
  <1> HIDE DEF prev
  <1>4. /\ t \in Task /\ t.pc = "dial" /\ t.id = task[i].id
        /\ (t.id \notin doubled => t.prev.fails <= streak[t.id])
    BY <1>2, <1>3 DEF Task
  <1>5. ~Idle(i) /\ window' \subseteq Kinds \X Ids
    BY <1>1, Typed DEF IInv, Idle
  <1> HIDE DEF t
  <1> QED
    BY <1>1, <1>4, <1>5, CheckMovesIInv

LEMMA DialIInv ==
    ASSUME IInv, NEW i \in Slots, Dial(i)
    PROVE  IInv'
  <1>1. PICK slow \in Slow :
          LET ok == task[i].addr \in reach
              r  == IF ok THEN Succeeded(task[i].prev, slow)
                          ELSE Failed(task[i].prev, loop.max)
          IN  /\ task' = [task EXCEPT ![i] =
                            [pc |-> "store", id |-> @.id, ok |-> ok, next |-> r.next,
                             readded |-> @.readded]]
              /\ AddAlerts(task[i].id, r.alerts)
    BY DEF Dial
  <1> DEFINE id == task[i].id
             ok == task[i].addr \in reach
             r  == IF ok THEN Succeeded(task[i].prev, slow)
                         ELSE Failed(task[i].prev, loop.max)
             t == [pc |-> "store", id |-> id, ok |-> ok, next |-> r.next,
                   readded |-> task[i].readded]
  <1>2. /\ task[i].pc = "dial" /\ task[i].prev \in Metric /\ task[i].readded \in BOOLEAN
        /\ id \in Ids /\ loop.max \in 0 .. MaxFails
        /\ Kept /\ UNCHANGED loop
    <2>1. task[i] \in Task
      BY Typed DEF IInv
    <2> QED
      BY <2>1, Typed, TaskIs DEF Dial, IInv, Kept
  <1>3. /\ id \notin doubled => task[i].prev.fails <= streak[id]
        /\ streak[id] \in 0 .. MaxFails /\ loop.pc = "running"
    BY <1>2, Typed DEF IInv, ChecksFollow, TypeOK, Checking
  <1>4. /\ ok \in BOOLEAN /\ r.next \in Metric /\ r.alerts \subseteq Kinds
        /\ IF ok
           THEN Healthy(r.next) /\ r.next.fails = 0
           ELSE /\ ~Healthy(r.next) /\ r.next.fails > 0
                /\ r.next.fails = Capped(task[i].prev.fails + 1)
    BY <1>2, SucceededIs, FailedIs
  <1>5. id \notin doubled =>
          Capped(task[i].prev.fails + 1) <= Capped(streak[id] + 1)
    <2>1. task[i].prev.fails \in Nat /\ streak[id] \in Nat
      BY <1>2, <1>3 DEF Metric
    <2> QED
      BY <1>3, <2>1 DEF Capped
  <1>6. /\ task' = [task EXCEPT ![i] = t]
        /\ window' = window \cup {<<k, id>> : k \in r.alerts \cap Watched}
    BY <1>1 DEF AddAlerts
  <1> HIDE DEF ok, r
  <1>7. /\ t \in Task /\ t.pc = "store" /\ t.id = task[i].id
        /\ IF t.ok
           THEN Healthy(t.next) /\ t.next.fails = 0
           ELSE /\ ~Healthy(t.next) /\ t.next.fails > 0
                /\ t.id \notin doubled => t.next.fails <= Capped(streak[t.id] + 1)
    BY <1>2, <1>4, <1>5 DEF Task
  <1>8. ~Idle(i) /\ window' \subseteq Kinds \X Ids
    BY <1>2, <1>4, <1>6, Typed DEF IInv, Idle
  <1> HIDE DEF t
  <1> QED
    BY <1>2, <1>3, <1>6, <1>7, <1>8, CheckMovesIInv

LEMMA StoreIInv ==
    ASSUME IInv, NEW i \in Slots, Store(i)
    PROVE  IInv'
  <1> DEFINE t == task[i]
             id == t.id
             v == t.next
  <1>1. /\ t.pc = "store" /\ metrics' = Update(metrics, id, v)
        /\ streak' = [streak EXCEPT ![id] = IF t.ok THEN 0 ELSE Capped(@ + 1)]
        /\ task' = [task EXCEPT ![i] = NoTask]
        /\ missed' = IF traffic.pc = "visit" /\ ~t.ok THEN missed \cup {id} ELSE missed
        /\ UNCHANGED <<demo, cfg, copy, window, loop, traffic, excused, doubled>>
    BY DEF Store
  <1>2. t \in Task /\ id \in Ids /\ v \in Metric /\ t.ok \in BOOLEAN
    <2>1. t \in Task
      BY Typed DEF IInv
    <2> HIDE DEF t
    <2> QED
      BY <1>1, <2>1, TaskIs
  <1>3. IF t.ok
        THEN Healthy(v) /\ v.fails = 0
        ELSE /\ ~Healthy(v) /\ v.fails > 0
             /\ id \notin doubled => v.fails <= Capped(streak[id] + 1)
    BY <1>1 DEF IInv, ChecksFollow
  <1>4. /\ streak'[id] = IF t.ok THEN 0 ELSE Capped(streak[id] + 1)
        /\ \A x \in Ids \ {id} : streak'[x] = streak[x]
        /\ streak' \in [Ids -> 0 .. MaxFails]
    <2>1. streak \in [Ids -> 0 .. MaxFails] /\ streak[id] + 1 \in Nat
      BY <1>2, Typed DEF IInv
    <2>2. Capped(streak[id] + 1) \in 0 .. MaxFails /\ 0 \in 0 .. MaxFails
      BY <2>1, CappedIs
    <2> HIDE DEF t, id
    <2> QED
      BY <1>1, <1>2, <2>1, <2>2
  <1>5. ~Idle(i)
    BY <1>1 DEF Idle
  <1>6. id \in Listed \cup excused
    BY <1>2, <1>5 DEF IInv, InHandExcused, InHand
  <1>7. \A j \in Slots \ {i} : ~Idle(j) /\ task[j].id = id => id \in doubled
    BY <1>5 DEF IInv, OneEach
  <1>8. metrics \in Some(Metric) /\ task \in [Slots -> Task]
    BY Typed DEF IInv
  <1> HIDE DEF t, id, v
  <1>9. /\ metrics' \in Some(Metric) /\ DOMAIN metrics' = DOMAIN metrics \cup {id}
        /\ metrics'[id] = v
        /\ \A x \in DOMAIN metrics \ {id} : metrics'[x] = metrics[x]
    <2>1. /\ metrics \in Some(Metric) /\ id \in Ids /\ v \in Metric
          /\ metrics' = Update(metrics, id, v)
      BY <1>1, <1>2, <1>8
    <2> QED
      BY <2>1, MetricIs
  <1>10. /\ task'[i].pc = "idle" /\ \A j \in Slots \ {i} : task'[j] = task[j]
         /\ task' \in [Slots -> Task]
    BY <1>1, <1>8, NoTaskIs
  <1>11. \A j \in Slots : ~Idle(j)' => j # i /\ ~Idle(j) /\ task'[j] = task[j]
    BY <1>10 DEF Idle
  <1>12. TypeOK'
    <2>1. \A j \in Slots : Checking(j)' => Checking(j)
      BY <1>10 DEF Checking
    <2> QED
      BY <1>1, <1>4, <1>9, <1>10, <1>11, <2>1 DEF IInv, TypeOK
  <1>13. OneEach'
    BY <1>1, <1>11 DEF IInv, OneEach
  <1>14. HealthyIsClean'
    BY <1>1, <1>3, <1>9 DEF IInv, HealthyIsClean
  <1>15. ChecksFollow'
    <2> SUFFICES ASSUME NEW j \in Slots, ~Idle(j)'
                 PROVE  /\ task'[j].pc = "dial" =>
                             (task'[j].id \notin doubled' =>
                                task'[j].prev.fails <= streak'[task'[j].id])
                        /\ task'[j].pc = "store" =>
                             IF task'[j].ok
                             THEN Healthy(task'[j].next) /\ task'[j].next.fails = 0
                             ELSE /\ ~Healthy(task'[j].next) /\ task'[j].next.fails > 0
                                  /\ task'[j].id \notin doubled' =>
                                       task'[j].next.fails <= Capped(streak'[task'[j].id] + 1)
      BY DEF ChecksFollow, Idle
    <2>1. j # i /\ ~Idle(j) /\ task'[j] = task[j] /\ doubled' = doubled
      BY <1>1, <1>11
    <2>2. task[j].id \in Ids
      BY <1>8, <2>1, TaskIs DEF Idle
    <2>3. task[j].id \in doubled \/ streak'[task[j].id] = streak[task[j].id]
      BY <1>4, <1>7, <2>1, <2>2
    <2> QED
      BY <2>1, <2>3 DEF IInv, ChecksFollow
  <1>16. OfflineIsEarned'
    <2>1. v.status = "offline" => ~t.ok
      BY <1>3 DEF Healthy
    <2>2. id \notin doubled => v.fails <= streak'[id]
      <3>1. CASE t.ok
        BY <1>3, <1>4, <3>1
      <3>2. CASE ~t.ok
        BY <1>3, <1>4, <3>2
      <3> QED
        BY <3>1, <3>2
    <2>3. \A x \in DOMAIN metrics \ {id} : x \in Ids
      BY Typed DEF IInv
    <2>4. \A x \in DOMAIN metrics' :
            IF x = id THEN metrics'[x] = v
                      ELSE x \in DOMAIN metrics /\ metrics'[x] = metrics[x]
                           /\ streak'[x] = streak[x]
      BY <1>4, <1>9, <2>3
    <2>5. \A x \in DOMAIN metrics' :
            /\ x \notin doubled => metrics'[x].fails <= streak'[x]
            /\ metrics'[x].status = "offline" => metrics'[x].fails > 0
      <3> SUFFICES ASSUME NEW x \in DOMAIN metrics'
                   PROVE  /\ x \notin doubled => metrics'[x].fails <= streak'[x]
                          /\ metrics'[x].status = "offline" => metrics'[x].fails > 0
        OBVIOUS
      <3>1. CASE x = id
        BY <1>3, <2>1, <2>2, <2>4, <3>1
      <3>2. CASE x # id
        BY <2>4, <3>2 DEF IInv, OfflineIsEarned
      <3> QED
        BY <3>1, <3>2
    <2> QED
      BY <1>1, <2>5 DEF OfflineIsEarned
  <1>17. GhostsExplained'
    BY <1>1, <1>6, <1>9 DEF IInv, GhostsExplained, Listed
  <1>18. InHandExcused'
    <2>1. \A x \in Ids : InHand(x)' => InHand(x)
      BY <1>1, <1>11 DEF InHand
    <2> QED
      BY <1>1, <2>1 DEF IInv, InHandExcused, Listed
  <1>19. DownIsMissed'
    <2> SUFFICES ASSUME traffic.pc = "visit", NEW w \in traffic.todo,
                        w[2] \in DOMAIN metrics', metrics'[w[2]].fails > 0
                 PROVE  w[2] \in missed'
      BY <1>1 DEF DownIsMissed
    <2>1. CASE w[2] = id
      BY <1>1, <1>3, <1>9, <2>1
    <2>2. CASE w[2] # id
      BY <1>1, <1>9, <2>2 DEF IInv, DownIsMissed
    <2> QED
      BY <2>1, <2>2
  <1>20. RealIsQuiet'
    BY <1>1 DEF IInv, RealIsQuiet
  <1> QED
    BY <1>12, <1>13, <1>14, <1>15, <1>16, <1>17, <1>18, <1>19, <1>20 DEF IInv

\* The traffic loop, when it writes no metrics.
LEMMA TrafficMovesIInv ==
    ASSUME IInv,
           UNCHANGED <<demo, cfg, copy, window, loop, task, streak, excused, doubled, metrics>>,
           traffic' \in Traffics,
           \A id \in DOMAIN traffic'.snap :
             Healthy(traffic'.snap[id]) /\ traffic'.snap[id].fails = 0,
           traffic'.pc = "visit" =>
             \A w \in traffic'.todo : /\ w[2] \in DOMAIN traffic'.snap
                                      /\ w[2] \in DOMAIN metrics /\ Healthy(metrics[w[2]]),
           demo \/ traffic'.pc \in {"idle", "done"}
    PROVE  IInv'
  <1>1. TypeOK'
    BY DEF IInv, TypeOK, Traffics, Idle, Checking
  <1>2. HealthyIsClean'
    BY DEF IInv, HealthyIsClean
  <1>3. OneEach' /\ ChecksFollow' /\ OfflineIsEarned' /\ GhostsExplained' /\ RealIsQuiet'
    BY DEF IInv, OneEach, ChecksFollow, OfflineIsEarned, GhostsExplained, RealIsQuiet,
           Listed, Idle
  <1>4. InHandExcused'
    <2>1. \A id \in Ids : InHand(id)' => InHand(id) \/ id \in DOMAIN metrics
      BY DEF InHand, Idle
    <2>2. DOMAIN metrics \subseteq Listed \cup excused
      BY DEF IInv, GhostsExplained
    <2> QED
      BY <2>1, <2>2 DEF IInv, InHandExcused, Listed
  <1>5. DownIsMissed'
    <2> SUFFICES ASSUME traffic'.pc = "visit", NEW w \in traffic'.todo,
                        w[2] \in DOMAIN metrics, metrics[w[2]].fails > 0
                 PROVE  FALSE
      BY DEF DownIsMissed
    <2>1. metrics[w[2]].fails = 0
      BY DEF IInv, HealthyIsClean
    <2> QED
      BY <2>1
  <1> QED
    BY <1>1, <1>2, <1>3, <1>4, <1>5 DEF IInv

LEMMA TrafficReadsIInv ==
    ASSUME IInv, TrafficServers \/ TrafficMetrics \/ TrafficPush \/ TrafficEnds
    PROVE  IInv'
  <1>1. UNCHANGED <<demo, cfg, copy, window, loop, task, streak, excused, doubled, metrics>>
    BY DEF TrafficServers, TrafficMetrics, TrafficPush, TrafficEnds, TrafficOnly
  <1>2. traffic \in Traffics /\ cfg.servers \in Lists
        /\ \A id \in DOMAIN traffic.snap :
             Healthy(traffic.snap[id]) /\ traffic.snap[id].fails = 0
    BY Typed DEF IInv, HealthyIsClean
  <1>3. CASE TrafficServers
    <2> DEFINE todo == {<<i, cfg.servers[i].id>> : i \in OnSlots}
    <2>1. traffic' = [traffic EXCEPT !.pc = "metrics", !.todo = todo] /\ demo
      BY <1>3 DEF TrafficServers
    <2>2. todo \in SUBSET (Slots \X Ids)
      BY <1>2, IdsOfIs DEF OnSlots
    <2> HIDE DEF todo
    <2>3. traffic' \in Traffics /\ traffic'.pc = "metrics" /\ traffic'.snap = traffic.snap
      BY <1>2, <2>1, <2>2 DEF Traffics
    <2> QED
      BY <1>1, <1>2, <2>1, <2>3, TrafficMovesIInv
  <1>4. CASE TrafficMetrics
    <2> DEFINE ids == {id \in DOMAIN metrics : Healthy(metrics[id])}
               snap == [id \in ids |-> metrics[id]]
               todo == {w \in traffic.todo : w[2] \in ids}
    <2>1. traffic' = [pc |-> "visit", todo |-> todo, snap |-> snap]
          /\ traffic.pc = "metrics"
      BY <1>4 DEF TrafficMetrics
    <2>2. ids \in SUBSET Ids /\ snap \in [ids -> Metric]
      BY Typed DEF IInv
    <2>3. snap \in Some(Metric)
      BY <2>2, SomeIs
    <2>4. \A id \in DOMAIN snap : Healthy(snap[id]) /\ snap[id].fails = 0
      BY DEF IInv, HealthyIsClean
    <2>5. todo \in SUBSET (Slots \X Ids)
      BY Typed DEF IInv
    <2>6. \A w \in todo : /\ w[2] \in DOMAIN snap
                          /\ w[2] \in DOMAIN metrics /\ Healthy(metrics[w[2]])
      OBVIOUS
    <2> HIDE DEF snap, todo
    <2>7. traffic' \in Traffics /\ traffic'.snap = snap /\ traffic'.todo = todo
      BY <2>1, <2>3, <2>5 DEF Traffics
    <2>8. demo
      BY <2>1 DEF IInv, RealIsQuiet
    <2> QED
      BY <1>1, <2>4, <2>6, <2>7, <2>8, TrafficMovesIInv
  <1>5. CASE TrafficPush
    <2>1. traffic' = NoTraffic
      BY <1>5 DEF TrafficPush
    <2>2. <<>> \in Some(Metric) /\ {} \in SUBSET (Slots \X Ids) /\ DOMAIN <<>> = {}
      BY NoneIs
    <2>3. traffic' \in Traffics /\ traffic'.pc = "idle" /\ DOMAIN traffic'.snap = {}
      BY <2>1, <2>2 DEF NoTraffic, Traffics
    <2> QED
      BY <1>1, <2>3, TrafficMovesIInv
  <1>6. CASE TrafficEnds
    <2>1. traffic' = [traffic EXCEPT !.pc = "done"]
      BY <1>6 DEF TrafficEnds
    <2>2. traffic' \in Traffics /\ traffic'.pc = "done" /\ traffic'.snap = traffic.snap
      BY <1>2, <2>1 DEF Traffics
    <2> QED
      BY <1>1, <1>2, <2>2, TrafficMovesIInv
  <1> QED
    BY <1>3, <1>4, <1>5, <1>6

LEMMA TrafficStoreIInv ==
    ASSUME IInv, TrafficStore
    PROVE  IInv'
  <1>1. PICK w \in traffic.todo :
          /\ metrics' = Update(metrics, w[2], traffic.snap[w[2]])
          /\ traffic' = [traffic EXCEPT !.todo = @ \ {w}]
    BY DEF TrafficStore
  <1> DEFINE id == w[2]
             v == traffic.snap[id]
  <1>2. /\ traffic.pc = "visit"
        /\ UNCHANGED <<demo, cfg, copy, window, loop, task, streak, excused, doubled, missed>>
    BY DEF TrafficStore, TrafficOnly
  <1>3. id \in Ids /\ v \in Metric /\ Healthy(v) /\ v.fails = 0
    BY <1>2, Typed DEF IInv, TypeOK, HealthyIsClean
  <1>4. id \in Listed \cup excused
    BY <1>2, <1>3 DEF IInv, InHandExcused, InHand
  <1>5. metrics \in Some(Metric) /\ traffic \in Traffics
    BY Typed DEF IInv
  <1>6. /\ traffic' \in Traffics /\ traffic'.pc = "visit" /\ traffic'.snap = traffic.snap
        /\ traffic'.todo \subseteq traffic.todo
    BY <1>1, <1>2, <1>5 DEF Traffics
  <1> HIDE DEF v, id
  <1>7. /\ metrics' \in Some(Metric) /\ DOMAIN metrics' = DOMAIN metrics \cup {id}
        /\ metrics'[id] = v
        /\ \A x \in DOMAIN metrics \ {id} : metrics'[x] = metrics[x]
    <2>1. /\ metrics \in Some(Metric) /\ id \in Ids /\ v \in Metric
          /\ metrics' = Update(metrics, id, v)
      BY <1>1, <1>3, <1>5 DEF v, id
    <2> QED
      BY <2>1, MetricIs
  <1>8. TypeOK'
    BY <1>2, <1>6, <1>7 DEF IInv, TypeOK, Traffics, Idle, Checking
  <1>9. HealthyIsClean'
    BY <1>3, <1>6, <1>7 DEF IInv, HealthyIsClean
  <1>10. OneEach' /\ ChecksFollow' /\ RealIsQuiet'
    BY <1>2, <1>6 DEF IInv, OneEach, ChecksFollow, RealIsQuiet, Idle
  <1>11. OfflineIsEarned'
    <2>1. streak[id] \in Nat /\ v.status # "offline" /\ v.fails <= streak[id]
      BY <1>3, Typed DEF IInv, Healthy
    <2> QED
      BY <1>2, <1>7, <2>1 DEF IInv, OfflineIsEarned
  <1>12. GhostsExplained' /\ InHandExcused'
    <2>1. \A x \in Ids : InHand(x)' => InHand(x)
      BY <1>2, <1>6 DEF InHand, Idle
    <2> QED
      BY <1>2, <1>4, <1>7, <2>1 DEF IInv, GhostsExplained, InHandExcused, Listed
  <1>13. DownIsMissed'
    <2> SUFFICES ASSUME NEW x \in traffic'.todo,
                        x[2] \in DOMAIN metrics', metrics'[x[2]].fails > 0
                 PROVE  x[2] \in missed
      BY <1>2 DEF DownIsMissed
    <2>1. x[2] # id
      BY <1>3, <1>7
    <2> QED
      BY <1>2, <1>6, <1>7, <2>1 DEF IInv, DownIsMissed
  <1> QED
    BY <1>8, <1>9, <1>10, <1>11, <1>12, <1>13 DEF IInv

-----------------------------------------------------------------------------
(* Requests.                                                               *)

LEMMA AddServerIInv ==
    ASSUME IInv, NEW id \in Ids, AddServer(id)
    PROVE  IInv'
  <1> DEFINE s == [id |-> id, addr |-> Home[id], on |-> TRUE]
             list == Append(cfg.servers, s)
  <1>1. /\ id \notin Listed /\ Len(cfg.servers) < MaxServers
        /\ InPlace(list) \/ Moved(list)
        /\ metrics' = Update(metrics, id, NewMetrics)
        /\ task' = [i \in Slots |-> IF Checking(i) /\ task[i].id = id
                                    THEN [task[i] EXCEPT !.readded = TRUE]
                                    ELSE task[i]]
        /\ UNCHANGED <<demo, window, loop, traffic, streak, missed, excused, doubled>>
    BY DEF AddServer, RequestOnly
  <1>2. /\ cfg \in Document /\ copy \in Copy /\ cfg.servers \in Lists
        /\ Doubles(cfg.servers) \subseteq doubled
        /\ metrics \in Some(Metric) /\ task \in [Slots -> Task]
    BY Typed DEF IInv
  <1>3. s \in Server /\ s.id = id /\ s.id \notin IdsOf(cfg.servers)
    BY <1>1 DEF Server, Listed
  <1> HIDE DEF s
  <1>4. /\ list \in Lists /\ IdsOf(list) = Listed \cup {id}
        /\ Doubles(list) \subseteq doubled
    BY <1>1, <1>2, <1>3, AppendIs DEF Listed
  <1> HIDE DEF list
  <1>5. cfg' \in Document /\ cfg'.servers = list /\ copy' \in Copy
    BY <1>1, <1>2, <1>4, ArrayIs
  <1>6. Listed' = Listed \cup {id}
    BY <1>4, <1>5 DEF Listed
  <1>7. NewMetrics \in Metric /\ ~Healthy(NewMetrics) /\ NewMetrics.fails = 0
        /\ NewMetrics.status # "offline"
    BY DEF NewMetrics, Metric, Statuses, Healthy
  <1>8. /\ metrics' \in Some(Metric) /\ DOMAIN metrics' = DOMAIN metrics \cup {id}
        /\ metrics'[id] = NewMetrics
        /\ \A x \in DOMAIN metrics \ {id} : metrics'[x] = metrics[x]
    <2>1. PICK v \in Metric : v = NewMetrics
      BY <1>7
    <2>2. metrics \in Some(Metric) /\ metrics' = Update(metrics, id, v)
      BY <1>1, <1>2, <2>1
    <2>3. /\ metrics' \in Some(Metric) /\ DOMAIN metrics' = DOMAIN metrics \cup {id}
          /\ metrics'[id] = v
          /\ \A x \in DOMAIN metrics \ {id} : metrics'[x] = metrics[x]
      BY <2>2, MetricIs
    <2> QED
      BY <2>1, <2>3
  <1>9. \A i \in Slots :
          /\ task'[i] \in Task /\ task'[i].pc = task[i].pc
          /\ ~Idle(i) => task'[i].id = task[i].id
          /\ task[i].pc = "dial" => task'[i].prev = task[i].prev
          /\ task[i].pc = "store" =>
               task'[i].next = task[i].next /\ task'[i].ok = task[i].ok
    <2> SUFFICES ASSUME NEW i \in Slots
                 PROVE  /\ task'[i] \in Task /\ task'[i].pc = task[i].pc
                        /\ ~Idle(i) => task'[i].id = task[i].id
                        /\ task[i].pc = "dial" => task'[i].prev = task[i].prev
                        /\ task[i].pc = "store" =>
                             task'[i].next = task[i].next /\ task'[i].ok = task[i].ok
      OBVIOUS
    <2>1. CASE Checking(i) /\ task[i].id = id
      <3>1. task'[i] = [task[i] EXCEPT !.readded = TRUE]
        BY <1>1, <2>1
      <3>2. task[i] \in Task /\ task[i].pc \in {"dial", "store"}
        BY <1>2, <2>1 DEF Checking
      <3> QED
        BY <3>1, <3>2, ReaddedIs
    <2>2. CASE ~(Checking(i) /\ task[i].id = id)
      BY <1>1, <1>2, <2>2
    <2> QED
      BY <2>1, <2>2
  <1>10. task' \in [Slots -> Task]
    <2>1. task' = [i \in Slots |-> task'[i]]
      BY <1>1
    <2> QED
      BY <1>9, <2>1
  <1>11. \A i \in Slots : Idle(i)' <=> Idle(i)
    BY <1>9 DEF Idle
  <1>12. TypeOK'
    <2>1. \A i \in Slots : Checking(i)' <=> Checking(i)
      BY <1>9 DEF Checking
    <2>2. Doubles(cfg'.servers) \subseteq doubled' /\ doubled' \subseteq Ids
          /\ window' \subseteq Kinds \X Ids
      BY <1>1, <1>4, <1>5, Typed DEF IInv
    <2> QED
      BY <1>1, <1>5, <1>8, <1>10, <1>11, <2>1, <2>2 DEF IInv, TypeOK
  <1>13. OneEach' /\ ChecksFollow' /\ RealIsQuiet'
    BY <1>1, <1>9, <1>11 DEF IInv, OneEach, ChecksFollow, RealIsQuiet, Idle
  <1>14. HealthyIsClean'
    BY <1>1, <1>7, <1>8 DEF IInv, HealthyIsClean
  <1>15. OfflineIsEarned'
    <2>1. streak[id] \in Nat /\ NewMetrics.fails <= streak[id]
      BY <1>7, Typed DEF IInv
    <2> QED
      BY <1>1, <1>7, <1>8, <2>1 DEF IInv, OfflineIsEarned
  <1>16. GhostsExplained' /\ InHandExcused'
    <2>1. \A x \in Ids : InHand(x)' => InHand(x)
      BY <1>1, <1>9, <1>11 DEF InHand
    <2> QED
      BY <1>1, <1>6, <1>8, <2>1 DEF IInv, GhostsExplained, InHandExcused
  <1>17. DownIsMissed'
    BY <1>1, <1>7, <1>8 DEF IInv, DownIsMissed
  <1> QED
    BY <1>12, <1>13, <1>14, <1>15, <1>16, <1>17 DEF IInv

\* The requests that write neither metrics nor checks.
LEMMA RequestIInv ==
    ASSUME IInv,
           UNCHANGED <<demo, metrics, window, loop, task, traffic, streak, missed>>,
           cfg' \in Document, copy' \in Copy, doubled' \subseteq Ids,
           doubled \subseteq doubled', Doubles(cfg'.servers) \subseteq doubled',
           Listed \cup excused \subseteq Listed' \cup excused'
    PROVE  IInv'
  <1>1. TypeOK'
    BY DEF IInv, TypeOK, Idle, Checking
  <1>2. OneEach' /\ HealthyIsClean' /\ RealIsQuiet' /\ DownIsMissed'
    BY DEF IInv, OneEach, HealthyIsClean, RealIsQuiet, DownIsMissed, Idle
  <1>3. ChecksFollow' /\ OfflineIsEarned'
    BY DEF IInv, ChecksFollow, OfflineIsEarned
  <1>4. GhostsExplained' /\ InHandExcused'
    BY DEF IInv, GhostsExplained, InHandExcused, InHand, Idle
  <1> QED
    BY <1>1, <1>2, <1>3, <1>4 DEF IInv

LEMMA UpdateServerIInv ==
    ASSUME IInv, NEW id \in Ids, NEW e \in Edits, UpdateServer(id, e)
    PROVE  IInv'
  <1>1. PICK i \in DOMAIN cfg.servers :
          /\ FoundAt(cfg.servers, id, i)
          /\ InPlace([cfg.servers EXCEPT ![i] = [id |-> id, addr |-> e.addr, on |-> e.on]])
    BY DEF UpdateServer
  <1> DEFINE s == [id |-> id, addr |-> e.addr, on |-> e.on]
             list == [cfg.servers EXCEPT ![i] = s]
  <1>2. UNCHANGED <<demo, metrics, window, loop, task, traffic, streak, missed, excused,
                    doubled>>
    BY DEF UpdateServer, RequestOnly
  <1>3. /\ cfg \in Document /\ copy \in Copy /\ cfg.servers \in Lists
        /\ Doubles(cfg.servers) \subseteq doubled /\ doubled \subseteq Ids
    BY Typed DEF IInv
  <1>4. s \in Server /\ s.id = cfg.servers[i].id
    BY <1>1 DEF Server, FoundAt
  <1> HIDE DEF s
  <1>5. list \in Lists /\ IdsOf(list) = Listed /\ Doubles(list) \subseteq doubled
    BY <1>3, <1>4, ReplacedIs DEF Listed
  <1>6. InPlace(list)
    BY <1>1 DEF s
  <1> HIDE DEF list
  <1>7. cfg' \in Document /\ cfg'.servers = list /\ copy' \in Copy
    BY <1>3, <1>5, <1>6, ArrayIs
  <1>8. Listed' = Listed
    BY <1>5, <1>7 DEF Listed
  <1> QED
    BY <1>2, <1>3, <1>5, <1>7, <1>8, RequestIInv

LEMMA DeleteServerIInv ==
    ASSUME IInv, NEW id \in Ids, DeleteServer(id)
    PROVE  IInv'
  <1>1. PICK i \in DOMAIN cfg.servers :
          FoundAt(cfg.servers, id, i) /\ InPlace(Without(cfg.servers, i))
    BY DEF DeleteServer
  <1> DEFINE list == Without(cfg.servers, i)
  <1>2. /\ metrics' = Forget(metrics, id)
        /\ excused' = IF InHand(id) THEN excused \cup {id} ELSE excused \ {id}
        /\ UNCHANGED <<demo, window, loop, traffic, streak, task, missed, doubled>>
    BY DEF DeleteServer, RequestOnly
  <1>3. /\ cfg \in Document /\ copy \in Copy /\ cfg.servers \in Lists
        /\ Doubles(cfg.servers) \subseteq doubled /\ metrics \in Some(Metric)
    BY Typed DEF IInv
  <1>4. /\ list \in Lists /\ Listed \ {id} \subseteq IdsOf(list)
        /\ Doubles(list) \subseteq doubled
    <2>1. cfg.servers[i].id = id
      BY <1>1 DEF FoundAt
    <2> QED
      BY <1>3, <2>1, WithoutIs DEF Listed
  <1>5. InPlace(list)
    BY <1>1
  <1> HIDE DEF list
  <1>6. cfg' \in Document /\ cfg'.servers = list /\ copy' \in Copy
    BY <1>3, <1>4, <1>5, ArrayIs
  <1>7. Listed \ {id} \subseteq Listed'
    BY <1>4, <1>6 DEF Listed
  <1>8. /\ metrics' \in Some(Metric) /\ DOMAIN metrics' = DOMAIN metrics \ {id}
        /\ \A x \in DOMAIN metrics \ {id} : metrics'[x] = metrics[x]
    BY <1>2, <1>3, ForgetIs
  <1>9. TypeOK'
    BY <1>2, <1>4, <1>6, <1>8 DEF IInv, TypeOK, Idle, Checking
  <1>10. OneEach' /\ ChecksFollow' /\ RealIsQuiet'
    BY <1>2 DEF IInv, OneEach, ChecksFollow, RealIsQuiet, Idle
  <1>11. HealthyIsClean' /\ OfflineIsEarned' /\ DownIsMissed'
    BY <1>2, <1>8 DEF IInv, HealthyIsClean, OfflineIsEarned, DownIsMissed
  <1>12. GhostsExplained' /\ InHandExcused'
    <2>1. \A x \in Ids : InHand(x)' <=> InHand(x)
      BY <1>2 DEF InHand, Idle
    <2> QED
      BY <1>2, <1>7, <1>8, <2>1 DEF IInv, GhostsExplained, InHandExcused
  <1> QED
    BY <1>9, <1>10, <1>11, <1>12 DEF IInv

LEMMA ReplaceIInv ==
    ASSUME IInv, NEW c \in Document, Replace(c), copy' \in Copy
    PROVE  IInv'
  <1>1. /\ cfg' = c /\ excused' = excused \cup (Listed \ IdsOf(c.servers))
        /\ doubled' = doubled \cup Doubles(c.servers)
        /\ UNCHANGED <<demo, metrics, window, loop, task, traffic, streak, missed>>
    BY DEF Replace, RequestOnly
  <1>2. c.servers \in Lists
    BY DEF Document
  <1>3. Doubles(c.servers) \subseteq Ids /\ doubled \subseteq Ids
    BY <1>2, IdsOfIs, Typed DEF IInv
  <1>4. Listed' = IdsOf(c.servers)
    BY <1>1 DEF Listed
  <1> QED
    BY <1>1, <1>3, <1>4, RequestIInv

LEMMA CopiesIInv ==
    ASSUME IInv,
           \/ \E doc \in Documents : Import(doc)
           \/ Begin \/ Refuse \/ SaveConfig
    PROVE  IInv'
  <1>1. /\ cfg \in Document /\ copy \in Copy /\ Parted \in Copy /\ NoCopy \in Copy
        /\ Doubles(cfg.servers) \subseteq doubled /\ doubled \subseteq Ids
    BY Typed, PartedIs DEF IInv, Copy, NoCopy
  <1>2. CASE \E doc \in Documents : Import(doc)
    BY <1>1, <1>2, ReplaceIInv DEF Import
  <1>3. CASE SaveConfig
    <2>1. copy.cfg \in Document /\ Replace(copy.cfg) /\ copy' \in Copy
      BY <1>1, <1>3 DEF SaveConfig, Copy
    <2> QED
      BY <2>1, ReplaceIInv
  <1>4. CASE Begin \/ Refuse
    <2>1. UNCHANGED <<demo, cfg, metrics, window, loop, task, traffic, streak, missed,
                      excused, doubled>>
      BY <1>4 DEF Begin, Refuse, RequestOnly
    <2>2. copy' \in Copy
      <3>1. [held |-> TRUE, cfg |-> cfg, shared |-> TRUE] \in Copy
        BY <1>1 DEF Copy
      <3>2. copy' \in {NoCopy, [held |-> TRUE, cfg |-> cfg, shared |-> TRUE]}
        BY <1>4 DEF Begin, Refuse
      <3> QED
        BY <1>1, <3>1, <3>2
    <2> QED
      BY <1>1, <2>1, <2>2, RequestIInv DEF Listed
  <1> QED
    BY <1>2, <1>3, <1>4

LEMMA StepIInv == IInv /\ [Next]_vars => IInv'
  <1> SUFFICES ASSUME IInv, [Next]_vars
               PROVE  IInv'
    OBVIOUS
  <1>1. CASE LoopStep
    BY <1>1, ReadServersIInv, LoopIInv, StartCheckIInv, DialIInv, StoreIInv DEF LoopStep
  <1>2. CASE TrafficStep
    BY <1>2, TrafficReadsIInv, TrafficStoreIInv DEF TrafficStep
  <1>3. CASE Request
    BY <1>3, AddServerIInv, DeleteServerIInv, UpdateServerIInv, CopiesIInv DEF Request
  <1>4. CASE World
    BY <1>4, EndsIInv, WorldIInv DEF World, Exit, Crash
  <1>5. CASE UNCHANGED vars
    BY <1>5, WorldIInv
  <1> QED
    BY <1>1, <1>2, <1>3, <1>4, <1>5 DEF Next

LEMMA IInvHolds == Spec => []IInv
  BY InitIInv, StepIInv, PTL DEF Spec
-----------------------------------------------------------------------------
(* The theorems.                                                           *)

\* Checks stay within their round, and an ID that is listed twice is known to
\* be (checkAll, Import, SaveConfig).
THEOREM CheckerTypes == Spec => []TypeOK
  <1>1. IInv => TypeOK
    BY DEF IInv
  <1> QED
    BY <1>1, IInvHolds, PTL

\* A server whose ID is listed once is never taken to be offline for failures
\* that are over, whatever is written back by whom (checkOne, sampleTraffic).
THEOREM OfflineEarned == Spec => []OfflineIsEarned
  <1>1. IInv => OfflineIsEarned
    BY DEF IInv
  <1> QED
    BY <1>1, IInvHolds, PTL

\* Metrics of servers that are not listed come from restores, from saves of old
\* copies, and from checks and rounds of traffic begun before a delete, only.
THEOREM GhostsHaveReasons == Spec => []GhostsExplained
  <1>1. IInv => GhostsExplained
    BY DEF IInv
  <1> QED
    BY <1>1, IInvHolds, PTL

\* Metrics are written by a check, by the traffic loop, by the start of the
\* process and by AddServer.
LEMMA WhoWrites ==
    ASSUME IInv, Next, NEW id \in DOMAIN metrics'
    PROVE  \/ \E i \in Slots : Store(i) /\ task[i].id = id
           \/ \E w \in traffic.todo : TrafficStore /\ w[2] = id
           \/ metrics'[id] = NewMetrics
           \/ id \in DOMAIN metrics /\ metrics'[id] = metrics[id]
  <1>1. CASE metrics' = metrics
    BY <1>1
  <1>2. CASE metrics' # metrics
    <2>1. ASSUME Ended
          PROVE  FALSE
      BY <2>1, NoneIs DEF Ended
    <2>2. CASE LoopStep
      <3>1. PICK i \in Slots : Store(i)
        BY <1>2, <2>1, <2>2
           DEF LoopStep, ReadServers, ReadConfig, EndRound, Tick, LoopEnds, StartCheck, Dial,
               LoopOnly
      <3>2. metrics' = Update(metrics, task[i].id, task[i].next)
        BY <3>1 DEF Store
      <3> QED
        BY <3>1, <3>2 DEF Update
    <2>3. CASE TrafficStep
      <3>1. TrafficStore
        BY <1>2, <2>3 DEF TrafficStep, TrafficServers, TrafficMetrics, TrafficPush,
                          TrafficEnds
      <3>2. PICK w \in traffic.todo : metrics' = Update(metrics, w[2], traffic.snap[w[2]])
        BY <3>1 DEF TrafficStore
      <3> QED
        BY <3>1, <3>2 DEF Update
    <2>4. CASE Request
      <3>1. ASSUME NEW x \in Ids, AddServer(x)
            PROVE  \/ metrics'[id] = NewMetrics
                   \/ id \in DOMAIN metrics /\ metrics'[id] = metrics[id]
        <4>1. metrics' = Update(metrics, x, NewMetrics)
          BY <3>1 DEF AddServer
        <4> QED
          BY <4>1 DEF Update
      <3>2. ASSUME NEW x \in Ids, DeleteServer(x)
            PROVE  id \in DOMAIN metrics /\ metrics'[id] = metrics[id]
        <4>1. metrics' = Forget(metrics, x)
          BY <3>2 DEF DeleteServer
        <4> QED
          BY <4>1 DEF Forget
      <3> QED
        BY <1>2, <2>4, <3>1, <3>2
           DEF Request, UpdateServer, Import, Replace, Begin, Refuse, SaveConfig
    <2>5. CASE World
      <3>1. Restart
        BY <1>2, <2>1, <2>5 DEF World, Exit, Crash, NetworkChanges, Age, Signal
      <3>2. metrics' = [x \in Listed |-> NewMetrics]
        BY <3>1 DEF Restart, Started
      <3> QED
        BY <3>2
    <2> QED
      BY <2>2, <2>3, <2>4, <2>5 DEF Next
  <1> QED
    BY <1>1, <1>2

\* Only a check that succeeds overrules one that failed, except in the copies
\* of a round of traffic that began before the failure.
THEOREM VerdictsHeeded == Spec => VerdictsAreHeeded
  <1>1. ASSUME IInv, [Next]_vars,
               NEW id \in DOMAIN metrics \cap DOMAIN metrics',
               metrics[id].fails > 0, Healthy(metrics'[id])
        PROVE  \/ id \in missed
               \/ \E i \in Slots : /\ task[i].pc = "store" /\ Idle(i)'
                                  /\ task[i].id = id /\ task[i].ok
    <2>1. ~Healthy(metrics[id])
      BY <1>1 DEF IInv, HealthyIsClean
    <2>2. ~Healthy(NewMetrics)
      BY DEF NewMetrics, Healthy
    <2>3. Next
      BY <1>1, <2>1 DEF vars
    <2>4. \/ \E i \in Slots : Store(i) /\ task[i].id = id
          \/ \E w \in traffic.todo : TrafficStore /\ w[2] = id
      BY <1>1, <2>1, <2>2, <2>3, WhoWrites
    <2>5. ASSUME NEW i \in Slots, Store(i), task[i].id = id
          PROVE  task[i].pc = "store" /\ Idle(i)' /\ task[i].ok
      <3>1. /\ task[i].pc = "store" /\ metrics' = Update(metrics, id, task[i].next)
            /\ task' = [task EXCEPT ![i] = NoTask]
        BY <2>5 DEF Store
      <3>2. metrics'[id] = task[i].next
        BY <3>1 DEF Update
      <3>3. Idle(i)'
        BY <1>1, <3>1, NoTaskIs DEF IInv, TypeOK, Idle
      <3> QED
        BY <1>1, <3>1, <3>2, <3>3 DEF IInv, ChecksFollow
    <2>6. ASSUME NEW w \in traffic.todo, TrafficStore, w[2] = id
          PROVE  id \in missed
      BY <1>1, <2>6 DEF TrafficStore, IInv, DownIsMissed
    <2> QED
      BY <2>4, <2>5, <2>6
  <1>2. IInv /\ [Next]_vars =>
          [\A id \in DOMAIN metrics \cap DOMAIN metrics' :
             (metrics[id].fails > 0 /\ Healthy(metrics'[id]))
             => \/ id \in missed
                \/ \E i \in Slots : /\ task[i].pc = "store" /\ Idle(i)'
                                   /\ task[i].id = id /\ task[i].ok]_vars
    BY <1>1
  <1> QED
    BY <1>2, IInvHolds, PTL DEF Spec, VerdictsAreHeeded

LEMMA InitCopy == Init => CopyIsCurrent
  BY DEF Init, CopyIsCurrent, NoTask, Checking

\* What CopyIsCurrent says of one check.
Knows(i) ==
    (Checking(i) /\ task[i].id \in DOMAIN metrics /\ ~task[i].readded
      /\ task[i].id \notin doubled)
    => IF task[i].pc = "dial"
       THEN task[i].prev.status = metrics[task[i].id].status
       ELSE task[i].next.status = "offline" =>
              metrics[task[i].id].status = "offline" \/ <<"offline", task[i].id>> \in window

LEMMA StepCopy ==
    ASSUME "offline" \in Watched, IInv, CopyIsCurrent, [Next]_vars
    PROVE  CopyIsCurrent'
  <1> SUFFICES ASSUME ~demo', NEW i \in Slots, Checking(i)'
               PROVE  Knows(i)'
    BY DEF CopyIsCurrent, Knows
  <1>1. ~demo
    BY DEF Next, vars, LoopStep, TrafficStep, Request, World, ReadServers, ReadConfig,
           StartCheck, Dial, Store, EndRound, Tick, LoopEnds, LoopOnly, Ended, TrafficServers,
           TrafficMetrics, TrafficStore, TrafficPush, TrafficEnds, TrafficOnly, AddServer,
           UpdateServer, DeleteServer, Import, Replace, Begin, Refuse, SaveConfig, RequestOnly,
           NetworkChanges, Age, Signal, Exit, Crash, Restart
  <1>2. Knows(i) /\ task \in [Slots -> Task]
    BY <1>1, Typed DEF CopyIsCurrent, Knows, IInv
  <1> DEFINE id == task[i].id
             Same == /\ task'[i] = task[i] /\ window \subseteq window'
                     /\ doubled \subseteq doubled'
                     /\ id \in DOMAIN metrics' =>
                          id \in DOMAIN metrics /\ metrics'[id] = metrics[id]
  <1>3. ASSUME Same
        PROVE  Knows(i)'
    BY <1>2, <1>3 DEF Knows, Checking
  <1>4. ~Ended /\ ~Restart /\ ~ReadServers
    BY DEF Ended, Restart, Started, Blank, NoTask, Checking, ReadServers, ToStart
  <1>5. CASE LoopStep
    <2>1. CASE ReadConfig \/ EndRound \/ Tick \/ LoopEnds
      <3>1. Same
        BY <1>4, <2>1 DEF ReadConfig, LoopEnds, EndRound, Tick, LoopOnly
      <3> QED
        BY <1>3, <3>1
    <2>2. ASSUME NEW j \in Slots, StartCheck(j)
          PROVE  Knows(i)'
      <3>1. CASE i = j
        <4>1. task'[i] = [pc |-> "dial", id |-> id, addr |-> task[i].addr, readded |-> FALSE,
                          prev |-> IF id \in DOMAIN metrics
                                   THEN metrics[id]
                                   ELSE [status |-> "checking", fails |-> 0]]
              /\ metrics' = metrics
          BY <1>2, <2>2, <3>1 DEF StartCheck, LoopOnly
        <4> QED
          BY <4>1 DEF Knows
      <3>2. CASE i # j
        <4>1. Same
          BY <1>2, <2>2, <3>2 DEF StartCheck, LoopOnly
        <4> QED
          BY <1>3, <4>1
      <3> QED
        BY <3>1, <3>2
    <2>3. ASSUME NEW j \in Slots, Dial(j), i # j
          PROVE  Knows(i)'
      <3>1. Same
        BY <1>2, <2>3 DEF Dial, AddAlerts
      <3> QED
        BY <1>3, <3>1
    <2>4. ASSUME Dial(i)
          PROVE  Knows(i)'
      <3>1. PICK slow \in Slow :
              LET ok == task[i].addr \in reach
                  r  == IF ok THEN Succeeded(task[i].prev, slow)
                              ELSE Failed(task[i].prev, loop.max)
              IN  /\ task' = [task EXCEPT ![i] =
                                [pc |-> "store", id |-> @.id, ok |-> ok, next |-> r.next,
                                 readded |-> @.readded]]
                  /\ AddAlerts(task[i].id, r.alerts)
        BY <2>4 DEF Dial
      <3> DEFINE ok == task[i].addr \in reach
                 r  == IF ok THEN Succeeded(task[i].prev, slow)
                             ELSE Failed(task[i].prev, loop.max)
      <3>2. /\ task[i].pc = "dial" /\ task[i].prev \in Metric /\ loop.max \in 0 .. MaxFails
            /\ metrics' = metrics /\ doubled' = doubled
        <4>1. task[i] \in Task
          BY <1>2
        <4> QED
          BY <2>4, <4>1, Typed, TaskIs DEF Dial, IInv
      <3>3. r.next.status = "offline" => task[i].prev.status = "offline" \/ "offline" \in r.alerts
        BY <3>2, SucceededIs, FailedIs DEF Healthy
      <3>4. /\ task' = [task EXCEPT ![i] = [pc |-> "store", id |-> id, ok |-> ok,
                                            next |-> r.next, readded |-> task[i].readded]]
            /\ window' = window \cup {<<k, id>> : k \in r.alerts \cap Watched}
        BY <3>1 DEF AddAlerts
      <3> HIDE DEF ok, r
      <3>5. task'[i].pc = "store" /\ task'[i].next = r.next /\ task'[i].id = id
            /\ task'[i].readded = task[i].readded
        BY <1>2, <3>4
      <3>6. "offline" \in r.alerts => <<"offline", id>> \in window'
        BY <3>4
      <3> QED
        BY <1>2, <3>2, <3>3, <3>5, <3>6 DEF Knows, Checking
    <2>5. ASSUME NEW j \in Slots, Store(j)
          PROVE  Knows(i)'
      <3>1. /\ metrics' = Update(metrics, task[j].id, task[j].next)
            /\ task' = [task EXCEPT ![j] = NoTask] /\ UNCHANGED <<window, doubled>>
            /\ task[j].pc = "store"
        BY <2>5 DEF Store
      <3>2. i # j /\ task'[i] = task[i]
        BY <1>2, <3>1 DEF Checking, NoTask
      <3>3. CASE task[j].id = id
        <4>1. ~Idle(i) /\ ~Idle(j)
          BY <3>1, <3>2 DEF Idle, Checking
        <4>2. id \in doubled
          BY <3>2, <3>3, <4>1 DEF IInv, OneEach
        <4> QED
          BY <3>1, <3>2, <4>2 DEF Knows
      <3>4. CASE task[j].id # id
        <4>1. Same
          BY <3>1, <3>2, <3>4 DEF Update
        <4> QED
          BY <1>3, <4>1
      <3> QED
        BY <3>3, <3>4
    <2> QED
      BY <1>4, <1>5, <2>1, <2>2, <2>3, <2>4, <2>5 DEF LoopStep
  <1>6. CASE TrafficStep
    <2>1. ~TrafficStore
      BY <1>1 DEF TrafficStore, IInv, RealIsQuiet
    <2>2. Same
      BY <1>6, <2>1 DEF TrafficStep, TrafficServers, TrafficMetrics, TrafficPush,
                        TrafficEnds, TrafficOnly
    <2> QED
      BY <1>3, <2>2
  <1>7. CASE Request
    <2>1. ASSUME NEW x \in Ids, AddServer(x)
          PROVE  Knows(i)'
      <3>1. /\ metrics' = Update(metrics, x, NewMetrics) /\ UNCHANGED <<window, doubled>>
            /\ task'[i] = IF Checking(i) /\ task[i].id = x
                          THEN [task[i] EXCEPT !.readded = TRUE]
                          ELSE task[i]
        BY <2>1 DEF AddServer, RequestOnly
      <3>2. CASE Checking(i) /\ id = x
        <4>1. task'[i].readded
          <5>1. task[i] \in Task /\ task[i].pc \in {"dial", "store"}
            BY <1>2, <3>2 DEF Checking
          <5> QED
            BY <3>1, <3>2, <5>1, ReaddedIs
        <4> QED
          BY <4>1 DEF Knows
      <3>3. CASE ~(Checking(i) /\ id = x)
        <4>1. task'[i] = task[i] /\ id # x
          BY <3>1, <3>3 DEF Checking
        <4>2. Same
          BY <3>1, <4>1 DEF Update
        <4> QED
          BY <1>3, <4>2
      <3> QED
        BY <3>2, <3>3
    <2>2. ASSUME NEW x \in Ids, DeleteServer(x)
          PROVE  Same
      <3>1. metrics' = Forget(metrics, x) /\ UNCHANGED <<task, window, doubled>>
        BY <2>2 DEF DeleteServer, RequestOnly
      <3> QED
        BY <3>1 DEF Forget
    <2>3. ASSUME \/ \E x \in Ids, e \in Edits : UpdateServer(x, e)
                 \/ \E doc \in Documents : Import(doc)
                 \/ Begin \/ Refuse \/ SaveConfig
          PROVE  Same
      BY <2>3 DEF UpdateServer, Import, Replace, Begin, Refuse, SaveConfig, RequestOnly
    <2> QED
      BY <1>3, <1>7, <2>1, <2>2, <2>3 DEF Request
  <1>8. CASE World
    <2>1. ASSUME NEW alert \in window, Age(alert)
          PROVE  Knows(i)'
      <3>1. task'[i] = task[i] /\ task[i].pc # "store" /\ metrics' = metrics
            /\ doubled' = doubled
        BY <2>1 DEF Age
      <3> QED
        BY <1>2, <3>1 DEF Knows, Checking
    <2>2. ASSUME Signal \/ \E addrs \in Networks \ {reach} : NetworkChanges(addrs)
          PROVE  Same
      BY <2>2 DEF NetworkChanges, Signal
    <2> QED
      BY <1>3, <1>4, <1>8, <2>1, <2>2 DEF World, Exit, Crash
  <1>9. CASE UNCHANGED vars
    <2>1. Same
      BY <1>9 DEF vars
    <2> QED
      BY <1>3, <2>1
  <1> QED
    BY <1>5, <1>6, <1>7, <1>8, <1>9 DEF Next

\* In real mode no server goes offline without an alert of the last minute,
\* unless it was deleted and added again during the check, or its ID was listed
\* twice.
THEOREM OfflineAnnounced ==
    ASSUME "offline" \in Watched
    PROVE  Spec => OfflineIsAnnounced
  <1>1. IInv /\ CopyIsCurrent /\ [Next]_vars => CopyIsCurrent'
    BY StepCopy
  <1>2. ASSUME IInv, CopyIsCurrent, NEW i \in Slots,
               Store(i), ~demo, task[i].id \in DOMAIN metrics,
               metrics[task[i].id].status # "offline",
               metrics'[task[i].id].status = "offline", ~task[i].readded,
               task[i].id \notin doubled
        PROVE  <<"offline", task[i].id>> \in window
    <2>1. /\ task[i].pc = "store"
          /\ metrics' = Update(metrics, task[i].id, task[i].next)
      BY <1>2 DEF Store
    <2>2. metrics'[task[i].id] = task[i].next
      BY <2>1 DEF Update
    <2> QED
      BY <1>2, <2>1, <2>2 DEF CopyIsCurrent, Checking
  <1>3. IInv /\ CopyIsCurrent =>
          [\A i \in Slots :
             LET id == task[i].id
             IN  (/\ Store(i) /\ ~demo
                  /\ id \in DOMAIN metrics /\ metrics[id].status # "offline"
                  /\ metrics'[id].status = "offline"
                  /\ ~task[i].readded /\ id \notin doubled)
                 => <<"offline", id>> \in window]_vars
    BY <1>2
  <1> QED
    BY <1>1, <1>3, InitCopy, IInvHolds, PTL DEF Spec, OfflineIsAnnounced
==============================================================================
