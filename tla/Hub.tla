--------------------------------- MODULE Hub ---------------------------------
(***************************************************************************)
(* The websocket hub and its broadcaster (internal/api/ws.go), with the    *)
(* list of alerts it reads from the store (AddAlert, Alerts of             *)
(* internal/store/store.go).  An alert is its number; MarkAlertRead sets a *)
(* flag that only the panel looks at.                                      *)
(*                                                                         *)
(* One goroutine per connection reads until that fails; one broadcaster    *)
(* sends a snapshot to all clients every second.  They share the map of    *)
(* clients under Hub.mu, which the broadcaster holds while it writes.  The *)
(* servers and traffic of a snapshot are left out.                         *)
(***************************************************************************)
EXTENDS Naturals, Sequences

CONSTANTS
    Conns,          \* connections at one time
    Shown,          \* 5: alerts in a snapshot
    MaxAlerts,      \* 200: Store.maxAlerts
    MaxRaised       \* bound on the alerts ever raised

ASSUME HubAssumption ==
    /\ Shown \in Nat \ {0}
    /\ MaxAlerts \in Nat \ {0}
    /\ MaxRaised \in Nat

VARIABLES
    pc,         \* pc[c]: the goroutine that serves connection c
    peer,       \* peer[c]: whether the other side reads, is stuck, or gone
    open,       \* the connections that are not closed on this side
    clients,    \* Hub.clients
    mu,         \* Hub.mu is held by Broadcast
    bc,         \* the broadcaster; bc.at, history: raised at its first reading
    alerts,     \* Store.alerts, oldest first
    raised      \* history: the number of alerts raised, which numbers them

hubVars   == <<pc, peer, open, clients, mu>>
alertVars == <<alerts, raised>>
vars      == <<pc, peer, open, clients, mu, bc, alerts, raised>>

Places == {"gone", "accepted", "reading", "leaving", "closing"}

Waiting == [pc |-> "tick", at |-> 0, first |-> <<>>, msg |-> <<>>, todo |-> {}]

Init ==
    /\ pc = [c \in Conns |-> "gone"]
    /\ peer = [c \in Conns |-> "ok"]
    /\ open = {}
    /\ clients = {}
    /\ mu = FALSE
    /\ bc = Waiting
    /\ alerts = <<>>
    /\ raised = 0

\* A panic of the broadcaster ends the process.
Alive == bc.pc # "panicked"
-----------------------------------------------------------------------------
(* Connections.                                                            *)

\* The request is upgraded.
Accept(c) ==
    /\ Alive /\ pc[c] = "gone"
    /\ pc' = [pc EXCEPT ![c] = "accepted"]
    /\ peer' = [peer EXCEPT ![c] = "ok"]
    /\ open' = open \cup {c}
    /\ UNCHANGED <<clients, mu, bc, alertVars>>

\* ServeWS adds the connection to the map, and the reader starts.
Register(c) ==
    /\ Alive /\ pc[c] = "accepted" /\ ~mu
    /\ clients' = clients \cup {c}
    /\ pc' = [pc EXCEPT ![c] = "reading"]
    /\ UNCHANGED <<peer, open, mu, bc, alertVars>>

\* Mutant of ReadFails: there is no read deadline.
ReadFailsOnError(c) ==
    /\ Alive /\ pc[c] = "reading"
    /\ peer[c] = "gone" \/ c \notin open
    /\ pc' = [pc EXCEPT ![c] = "leaving"]
    /\ UNCHANGED <<peer, open, clients, mu, bc, alertVars>>

\* ReadMessage fails: the other side is gone, this side has closed, or a minute
\* has passed.  A pong would renew the minute, but browsers send one only to
\* answer a ping and the server sends none.
ReadFails(c) ==
    /\ Alive /\ pc[c] = "reading"
    /\ pc' = [pc EXCEPT ![c] = "leaving"]
    /\ UNCHANGED <<peer, open, clients, mu, bc, alertVars>>

\* Mutant of Unregister: the connection stays in the map.
UnregisterNot(c) ==
    /\ Alive /\ pc[c] = "leaving"
    /\ pc' = [pc EXCEPT ![c] = "closing"]
    /\ UNCHANGED <<peer, open, clients, mu, bc, alertVars>>

\* The deferred function of the reader: out of the map ...
Unregister(c) ==
    /\ Alive /\ pc[c] = "leaving" /\ ~mu
    /\ clients' = clients \ {c}
    /\ pc' = [pc EXCEPT ![c] = "closing"]
    /\ UNCHANGED <<peer, open, mu, bc, alertVars>>

\* ... and closed.
Close(c) ==
    /\ Alive /\ pc[c] = "closing"
    /\ open' = open \ {c}
    /\ pc' = [pc EXCEPT ![c] = "gone"]
    /\ UNCHANGED <<peer, clients, mu, bc, alertVars>>

\* The other side stops reading, reads again, or goes away.
PeerChanges(c, how) ==
    /\ Alive /\ c \in open /\ peer[c] \notin {"gone", how}
    /\ peer' = [peer EXCEPT ![c] = how]
    /\ UNCHANGED <<pc, open, clients, mu, bc, alertVars>>
-----------------------------------------------------------------------------
(* Alerts.                                                                 *)

\* Mutant of Pushed: a full list takes nothing new.
PushedUntilFull(s, x, max) == IF Len(s) < max THEN Append(s, x) ELSE s

\* append, then the oldest entries are cut: alerts, logs and traffic samples.
Pushed(s, x, max) ==
    LET t == Append(s, x)
    IN  IF Len(t) > max THEN SubSeq(t, Len(t) - max + 1, Len(t)) ELSE t

\* Store.AddAlert with an alert that is not a repetition.
AddAlert ==
    /\ Alive /\ raised < MaxRaised
    /\ raised' = raised + 1
    /\ alerts' = Pushed(alerts, raised + 1, MaxAlerts)
    /\ UNCHANGED <<hubVars, bc>>

\* Mutant of Alerts: the oldest come first.
AlertsAsKept == alerts

\* Newest first.
Alerts == [i \in 1 .. Len(alerts) |-> alerts[Len(alerts) + 1 - i]]
-----------------------------------------------------------------------------
(* The broadcaster.                                                        *)

\* A second has passed.  The first of the two calls of s.Alerts().
Tick ==
    /\ Alive /\ bc.pc = "tick"
    /\ bc' = [bc EXCEPT !.pc = "length", !.at = raised, !.first = Alerts]
    /\ UNCHANGED <<hubVars, alertVars>>

\* Mutant of Bound: the list is not cut to what a snapshot shows.
BoundUncut(n) == n

\* min(5, len(s.Alerts()))
Bound(n) == IF n < Shown THEN n ELSE Shown

\* The second call.  A bound above the capacity of the first result panics.
ReadLength ==
    /\ Alive /\ bc.pc = "length"
    /\ bc' = IF Bound(Len(alerts)) > Len(bc.first)
             THEN [bc EXCEPT !.pc = "panicked"]
             ELSE [bc EXCEPT !.pc = "lock", !.first = <<>>,
                             !.msg = SubSeq(bc.first, 1, Bound(Len(alerts)))]
    /\ UNCHANGED <<hubVars, alertVars>>

Lock ==
    /\ Alive /\ bc.pc = "lock" /\ ~mu
    /\ mu' = TRUE
    /\ bc' = [bc EXCEPT !.pc = "write", !.todo = clients]
    /\ UNCHANGED <<pc, peer, open, clients, alertVars>>

\* The message fits into the buffers, whoever reads them.
WriteSucceeds(c) ==
    /\ Alive /\ c \in bc.todo
    /\ bc' = [bc EXCEPT !.todo = @ \ {c}]
    /\ UNCHANGED <<hubVars, alertVars>>

\* Mutant of WriteFails: there is no write deadline.
WriteFailsOnError(c) ==
    /\ Alive /\ c \in bc.todo /\ peer[c] = "gone"
    /\ bc' = [bc EXCEPT !.todo = @ \ {c}]
    /\ clients' = clients \ {c}
    /\ open' = open \ {c}
    /\ UNCHANGED <<pc, peer, mu, alertVars>>

\* Mutant of WriteFails: the connection is left to its reader.
WriteFailsUnclosed(c) ==
    /\ Alive /\ c \in bc.todo /\ peer[c] # "ok"
    /\ bc' = [bc EXCEPT !.todo = @ \ {c}]
    /\ clients' = clients \ {c}
    /\ UNCHANGED <<pc, peer, open, mu, alertVars>>

\* The other side is gone, or five seconds have passed with full buffers.
WriteFails(c) ==
    /\ Alive /\ c \in bc.todo /\ peer[c] # "ok"
    /\ bc' = [bc EXCEPT !.todo = @ \ {c}]
    /\ clients' = clients \ {c}
    /\ open' = open \ {c}
    /\ UNCHANGED <<pc, peer, mu, alertVars>>

\* Mutant of Unlock: without clients Broadcast returns early and keeps the lock.
UnlockIfClients ==
    /\ Alive /\ bc.pc = "write" /\ bc.todo = {}
    /\ mu' = (clients = {})
    /\ bc' = Waiting
    /\ UNCHANGED <<pc, peer, open, clients, alertVars>>

Unlock ==
    /\ Alive /\ bc.pc = "write" /\ bc.todo = {}
    /\ mu' = FALSE
    /\ bc' = Waiting
    /\ UNCHANGED <<pc, peer, open, clients, alertVars>>
-----------------------------------------------------------------------------
Next ==
    \/ \E c \in Conns :
         \/ Accept(c) \/ Register(c) \/ ReadFails(c) \/ Unregister(c) \/ Close(c)
         \/ \E how \in {"ok", "stuck", "gone"} : PeerChanges(c, how)
    \/ AddAlert
    \/ Tick \/ ReadLength \/ Lock \/ Unlock
    \/ \E c \in Conns : WriteSucceeds(c) \/ WriteFails(c)

Spec == Init /\ [][Next]_vars

\* A write to a reader that reads succeeds, any other may fail: it does by its
\* deadline, unless the buffers still had room or the reader came back.
Written(c) ==
    \/ peer[c] = "ok" /\ WriteSucceeds(c)
    \/ WriteFails(c)

\* Goroutines run and timers fire.  A mutex that is wanted is handed over
\* although others keep taking it (strong fairness).
Fairness ==
    /\ WF_vars(Tick) /\ WF_vars(ReadLength) /\ SF_vars(Lock) /\ WF_vars(Unlock)
    /\ \A c \in Conns :
         /\ SF_vars(Register(c)) /\ WF_vars(ReadFails(c))
         /\ SF_vars(Unregister(c)) /\ WF_vars(Close(c))
         /\ WF_vars(Written(c))

FairSpec == Spec /\ Fairness
-----------------------------------------------------------------------------
(* Properties.                                                             *)

\* The lock is held exactly while the broadcaster writes, and it writes to
\* connections that are in the map and have a reader.
TypeOK ==
    /\ pc \in [Conns -> Places]
    /\ peer \in [Conns -> {"ok", "stuck", "gone"}]
    /\ open \subseteq Conns
    /\ bc \in [pc : {"tick", "length", "lock", "write", "panicked"}, at : Nat,
               first : Seq(Nat), msg : Seq(Nat), todo : SUBSET Conns]
    /\ alerts \in Seq(Nat) /\ raised \in Nat
    /\ mu = (bc.pc = "write")
    /\ bc.todo \subseteq clients
    /\ bc.todo # {} => mu
    /\ clients \subseteq {c \in Conns : pc[c] \in {"reading", "leaving"}}

\* No connection leaks: one that a goroutine has left is closed, one that is
\* read is in the map exactly while it is open, whether its reader or the
\* broadcaster gives it up first (ServeWS, Broadcast).
MapHasTheOpen ==
    \A c \in Conns :
      /\ pc[c] = "gone" => c \notin open
      /\ pc[c] \in {"reading", "leaving"} => (c \in clients <=> c \in open)

\* The list holds the newest alerts, all of them up to its cap, in the order
\* they were raised (AddAlert).
NewestSurvive ==
    /\ Len(alerts) = IF raised < MaxAlerts THEN raised ELSE MaxAlerts
    /\ \A i \in DOMAIN alerts : alerts[i] = raised - Len(alerts) + i

\* A snapshot that is sent shows the newest alerts there were when the list was
\* first read, newest first, without a gap, and as many as there are to show:
\* alerts that come later, before the length is read or while the broadcaster
\* waits for the lock, neither get in nor push one out (StartBroadcaster).
ShowsNewest ==
    bc.pc \in {"lock", "write"} =>
      LET n == Len(bc.msg)
      IN  /\ n \in {Shown, MaxAlerts, bc.at}
          /\ n <= Shown /\ n <= MaxAlerts /\ n <= bc.at
          /\ \A i \in 1 .. n : bc.msg[i] = bc.at + 1 - i

\* The broadcaster can only panic while the list is shorter than a snapshot:
\* with that many alerts the two readings of the list agree.
PanicNeedsShortList == bc.pc = "panicked" => Len(bc.first) < Shown

\* "StartBroadcaster starts a goroutine that sends periodic snapshots to
\* clients": it never stops.
BroadcasterSurvives == bc.pc # "panicked"

Panicked == bc.pc = "panicked"

\* A round of writes ends and the next begins, whatever peers do: one that is
\* stuck costs its deadline.
RoundsEnd == bc.pc = "write" ~> bc.pc = "tick" \/ Panicked

\* A new connection gets its place although the broadcaster keeps taking the
\* lock, and connections that end want it as well.
Registered == \A c \in Conns : pc[c] = "accepted" ~> pc[c] = "reading" \/ Panicked

\* No connection is served for ever: every one is closed and forgotten, also
\* if its peer vanishes without a word.
ConnectionsEnd == \A c \in Conns : pc[c] = "reading" ~> pc[c] = "gone" \/ Panicked
==============================================================================
