------------------------------ MODULE Selection ------------------------------
(***************************************************************************)
(* The selection algorithms of internal/balancer/algorithm.go.  Pick is    *)
(* called by nothing in the program; the names of the algorithms are what  *)
(* POST /api/algorithm accepts.  sort.Slice is not stable, so among equals *)
(* any may come first: an algorithm yields the set of servers it may       *)
(* choose.  counter is the value of rrCounter after its increment.         *)
(***************************************************************************)
EXTENDS Lists, FiniteSets

CONSTANT Slots      \* 1000: the steps in which weights are dealt out

ASSUME SelectionAssumption == Slots \in Nat \ {0}

AlgorithmNames ==
    {"latency", "speed", "weighted", "leastconn", "roundrobin", "random"}

Known(metrics, id) == id \in DOMAIN metrics

IsOffline(metrics, id) == Known(metrics, id) /\ metrics[id].status = "offline"

\* Mutant of filterOnline: an unmeasured server is left out as well.
filterMeasured(servers, metrics) ==
    Kept(servers, {i \in DOMAIN servers : /\ servers[i].enabled
                                          /\ Known(metrics, servers[i].id)
                                          /\ ~ IsOffline(metrics, servers[i].id)})

\* A server is left out if it is disabled, or known to be offline.
filterOnline(servers, metrics) ==
    Kept(servers, {i \in DOMAIN servers : /\ servers[i].enabled
                                          /\ ~ IsOffline(metrics, servers[i].id)})

\* The elements of a list with the least key; key[i] is the key of list[i].
Least(list, key) ==
    {list[i] : i \in {i \in DOMAIN list : \A j \in DOMAIN list : key[i] <= key[j]}}

latencyBased(list, metrics) ==
    Least(list, [i \in DOMAIN list |->
                   IF Known(metrics, list[i].id) /\ metrics[list[i].id].ping > 0
                   THEN metrics[list[i].id].ping
                   ELSE 999])

\* The greatest speed; the bound only turns the order round.
speedBased(list, metrics) ==
    LET speed(s) == IF Known(metrics, s.id) THEN metrics[s.id].speed ELSE 0
    IN  {list[i] : i \in {i \in DOMAIN list :
                            \A j \in DOMAIN list : speed(list[i]) >= speed(list[j])}}

leastConnections(list, metrics) ==
    Least(list, [i \in DOMAIN list |->
                   IF Known(metrics, list[i].id) THEN metrics[list[i].id].conns ELSE 0])

roundRobin(list, counter) == {list[(counter % Len(list)) + 1]}

\* randomPick is the same code.
randomPick(list, counter) == {list[(counter % Len(list)) + 1]}

UserWeight(s) == IF s.weight <= 0 THEN 1 ELSE s.weight

\* acc after the i-th round of the loop.
WeightUpTo(list) ==
    LET sum[i \in 0 .. Len(list)] ==
          IF i = 0 THEN 0 ELSE sum[i - 1] + UserWeight(list[i])
    IN  sum

\* Mutant of weightedRoundRobin: the position is not scaled to the total.
weightedUnscaled(list, counter) ==
    LET reached == {i \in DOMAIN list : counter % Slots <= WeightUpTo(list)[i] * Slots}
    IN  {list[FirstOf(reached)]}

\* The first server whose sum of weights reaches the position of the counter.
\* There is one, and the total is not 0, since no weight is: the two branches
\* of the code for that (lines 100 and 116 of algorithm.go) are never taken.
weightedRoundRobin(list, counter) ==
    LET upTo    == WeightUpTo(list)
        total   == upTo[Len(list)]
        reached == {i \in DOMAIN list :
                      (counter % Slots) * total <= upTo[i] * Slots}
    IN  {list[FirstOf(reached)]}

\* What Pick may return; {} is nil.
Pick(name, servers, metrics, counter) ==
    LET list == filterOnline(servers, metrics)
    IN  IF list = <<>>
        THEN {}
        ELSE CASE name = "speed"      -> speedBased(list, metrics)
               [] name = "weighted"   -> weightedRoundRobin(list, counter)
               [] name = "leastconn"  -> leastConnections(list, metrics)
               [] name = "roundrobin" -> roundRobin(list, counter)
               [] name = "random"     -> randomPick(list, counter)
               [] OTHER               -> latencyBased(list, metrics)
-----------------------------------------------------------------------------
(* What is expected of an algorithm over a given list and given metrics.   *)

\* The servers a connection may be given to.
Usable(servers, metrics) ==
    {s \in Elems(servers) : s.enabled /\ ~ IsOffline(metrics, s.id)}

\* Some usable server is picked, if there is one, and no other.
PicksUsable(servers, metrics) ==
    \A name \in AlgorithmNames, counter \in 0 .. Slots :
      LET chosen == Pick(name, servers, metrics, counter)
      IN  /\ chosen \subseteq Usable(servers, metrics)
          /\ Usable(servers, metrics) # {} => chosen # {}

\* The picks of n counters in a row that may be server s.
Share(name, servers, metrics, s, n) ==
    Cardinality({c \in 1 .. n : s \in Pick(name, servers, metrics, c)})

\* As many picks in a row as there are servers: each is picked once.  Slots
\* picks in a row: each server gets its part by weight, but for one.
SharesAreFair(servers, metrics) ==
    LET list  == filterOnline(servers, metrics)
        total == WeightUpTo(list)[Len(list)]
    IN  \A i \in DOMAIN list :
          /\ Share("roundrobin", servers, metrics, list[i], Len(list)) = 1
          /\ LET share == Share("weighted", servers, metrics, list[i], Slots)
                 exact == UserWeight(list[i]) * Slots
             IN  /\ (share + 1) * total >= exact
                 /\ share * total <= exact + total
==============================================================================
