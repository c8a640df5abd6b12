------------------------------ MODULE XrayManager ------------------------------
(***************************************************************************)
(* The embedded xray-core under internal/xray/manager_xray.go and everyone *)
(* who starts and stops it: main at start-up and at shutdown, the handlers *)
(* of internal/api that apply what they saved, and the loop of             *)
(* internal/balancer that applies the configuration again every minute so  *)
(* that the weights follow the measured pings.                             *)
(*                                                                         *)
(* Manager.Apply holds Manager.mu throughout, but it reads the store in    *)
(* two calls, and the store changes in between, before and after.  It      *)
(* closes the running instance before it builds the new one, which may be  *)
(* refused or may fail to start.                                           *)
(*                                                                         *)
(* Of the store the model keeps what Apply tells apart: which              *)
(* configuration this is, whether it has servers, whether xray-core will   *)
(* accept its rendering, and which pings were measured.                    *)
(***************************************************************************)
EXTENDS Naturals

CONSTANTS
    Handlers,     \* goroutines that serve HTTP requests
    Cores,        \* identities of core.Instance values
    None,         \* a nil pointer; nobody; nothing read yet
    MaxEdits,     \* bound on the changes of the configuration
    MaxPings,     \* bound on the changes of the measured pings
    MaxFailures   \* bound on the starts that fail for no reason in the configuration

Callers == Handlers \cup {"main", "loop"}

\* A configuration: its age, whether it lists servers, whether xray accepts it.
Config   == [version : 0 .. MaxEdits, servers : BOOLEAN, accepted : BOOLEAN]

\* What an instance was built from.
Rendered == [version : 0 .. MaxEdits, pings : 0 .. MaxPings]

ASSUME XrayAssumption ==
    /\ {"main", "loop"} \cap Handlers = {}
    /\ None \notin Cores \cup Callers \cup Rendered \cup Config \cup Nat
    /\ MaxEdits \in Nat /\ MaxPings \in Nat /\ MaxFailures \in Nat

VARIABLES
    config,     \* Store.cfg
    pings,      \* the pings in Store.metrics
    mu,         \* Manager.mu: who holds it
    instance,   \* Manager.instance
    cores,      \* the instances that hold ports and goroutines, and what they render
    phase,      \* where main is
    pc,         \* where each caller is
    call,       \* what a call of Apply holds: what it read, the instance it made
    failures,   \* the starts that failed for no reason in the configuration
    asked,      \* history: the age of the configuration when Apply was called
    newest,     \* history: the age of the newest configuration ever started
    late        \* history: the instances made after main's Stop

vars == <<config, pings, mu, instance, cores, phase, pc, call, failures,
          asked, newest, late>>

store   == <<config, pings>>
manager == <<mu, instance, cores>>
history == <<asked, newest, late>>

Nothing == [config |-> None, pings |-> None, inst |-> None]

Init ==
    /\ config \in {c \in Config : c.version = 0}
    /\ pings = 0
    /\ mu = None /\ instance = None
    /\ cores = [c \in Cores |-> None]
    /\ phase = "boot"
    /\ pc = [p \in Callers |->
               CASE p = "main" -> "lock" [] p = "loop" -> "unborn" [] OTHER -> "idle"]
    /\ call = [p \in Callers |-> Nothing]
    /\ failures = 0
    /\ asked = [p \in Callers |-> 0] /\ newest = 0 /\ late = {}

Alive == phase # "exited"
Goto(p, label) == pc' = [pc EXCEPT ![p] = label]

\* Mutant of stopLocked: an error of Close returns before the pointer is reset.
stopLockedKeepsPointer ==
    /\ UNCHANGED instance
    /\ cores' = [c \in Cores |-> IF c = instance THEN None ELSE cores[c]]

\* m.instance.Close() and m.instance = nil, if there is an instance.
stopLocked ==
    /\ instance' = None
    /\ cores' = [c \in Cores |-> IF c = instance THEN None ELSE cores[c]]
-----------------------------------------------------------------------------
(* Manager.Apply, called by p.                                             *)

\* p calls Apply, and waits for the mutex from here on.
Call(p) == Goto(p, "lock") /\ asked' = [asked EXCEPT ![p] = config'.version]

\* Mutant of Lock: while an Apply is in progress another one returns at once.
LockOrSkip(p) ==
    /\ Alive /\ pc[p] = "lock"
    /\ IF mu = None THEN mu' = p /\ Goto(p, "config")
                    ELSE Goto(p, "done") /\ UNCHANGED mu
    /\ UNCHANGED <<store, instance, cores, phase, call, failures, history>>

Lock(p) ==
    /\ Alive /\ pc[p] = "lock" /\ mu = None
    /\ mu' = p /\ Goto(p, "config")
    /\ UNCHANGED <<store, instance, cores, phase, call, failures, history>>

\* Mutant of ReadConfig: the caller hands over the configuration it has.
ReadConfigOfCaller(p) ==
    /\ Alive /\ pc[p] = "config"
    /\ call' = [call EXCEPT ![p].config = [config EXCEPT !.version = asked[p]]]
    /\ IF config.servers
       THEN Goto(p, "metrics") /\ UNCHANGED <<instance, cores>>
       ELSE Goto(p, "done") /\ stopLocked
    /\ UNCHANGED <<store, mu, phase, failures, history>>

\* cfg := m.store.Config(); without servers the core is stopped, and its Close
\* may return an error, which becomes the result.
ReadConfig(p) ==
    /\ Alive /\ pc[p] = "config"
    /\ call' = [call EXCEPT ![p].config = config]
    /\ IF config.servers
       THEN Goto(p, "metrics") /\ UNCHANGED <<instance, cores>>
       ELSE /\ stopLocked
            /\ \E end \in {"done"} \cup (IF instance = None THEN {} ELSE {"failed"}) :
                  Goto(p, end)
    /\ UNCHANGED <<store, mu, phase, failures, history>>

\* metrics := m.store.Metrics(), and the rendering.
ReadMetrics(p) ==
    /\ Alive /\ pc[p] = "metrics"
    /\ call' = [call EXCEPT ![p].pings = pings]
    /\ Goto(p, "stop")
    /\ UNCHANGED <<store, manager, phase, failures, history>>

StopPrevious(p) ==
    /\ Alive /\ pc[p] = "stop"
    /\ stopLocked /\ Goto(p, "build")
    /\ UNCHANGED <<store, mu, phase, call, failures, history>>

\* jsonCfg.Build() or core.New() refuses the rendering.
Refused(p) ==
    /\ Alive /\ pc[p] = "build" /\ ~call[p].config.accepted
    /\ Goto(p, "failed")
    /\ UNCHANGED <<store, manager, phase, call, failures, history>>

\* core.New() succeeds: a local variable of this call holds the new instance.
New(p, c) ==
    /\ Alive /\ pc[p] = "build" /\ call[p].config.accepted
    /\ cores[c] = None
    /\ cores' = [cores EXCEPT ![c] = [version |-> call[p].config.version,
                                      pings   |-> call[p].pings]]
    /\ call' = [call EXCEPT ![p].inst = c] /\ Goto(p, "start")
    /\ late' = IF phase \in {"draining", "joining"} THEN late \cup {c} ELSE late \ {c}
    /\ UNCHANGED <<store, mu, instance, phase, failures, asked, newest>>

Start(p) ==
    /\ Alive /\ pc[p] = "start"
    /\ LET c == call[p].inst IN
       /\ instance' = c
       /\ newest' = IF cores[c].version > newest THEN cores[c].version ELSE newest
    /\ call' = [call EXCEPT ![p].inst = None] /\ Goto(p, "done")
    /\ UNCHANGED <<store, mu, cores, phase, failures, asked, late>>

\* Mutant of StartFails: the instance that did not start is not closed.
StartFailsUnclosed(p) ==
    /\ Alive /\ pc[p] = "start" /\ failures < MaxFailures
    /\ failures' = failures + 1
    /\ call' = [call EXCEPT ![p].inst = None] /\ Goto(p, "failed")
    /\ UNCHANGED <<store, manager, phase, history>>

\* inst.Start() fails, a port being taken for example, and inst.Close() follows.
StartFails(p) ==
    /\ Alive /\ pc[p] = "start" /\ failures < MaxFailures
    /\ failures' = failures + 1
    /\ cores' = [cores EXCEPT ![call[p].inst] = None]
    /\ call' = [call EXCEPT ![p].inst = None] /\ Goto(p, "failed")
    /\ UNCHANGED <<store, mu, instance, phase, history>>

\* Mutant of Unlock: the returns with an error leave the mutex locked.
UnlockOnSuccess(p) ==
    /\ Alive /\ pc[p] \in {"done", "failed"}
    /\ mu' = IF pc[p] = "done" THEN None ELSE mu
    /\ Goto(p, CASE p = "main" -> "serve" [] p = "loop" -> "select" [] OTHER -> "idle")
    /\ call' = [call EXCEPT ![p] = Nothing]
    /\ asked' = [asked EXCEPT ![p] = 0]
    /\ UNCHANGED <<store, instance, cores, phase, failures, newest, late>>

\* Mutant of Unlock: reapplyLoop returns when a reapply fails.
UnlockAndGiveUp(p) ==
    /\ Alive /\ pc[p] \in {"done", "failed"}
    /\ mu' = None
    /\ Goto(p, CASE p = "main" -> "serve"
                 [] p = "loop" -> IF pc[p] = "done" THEN "select" ELSE "ended"
                 [] OTHER -> "idle")
    /\ call' = [call EXCEPT ![p] = Nothing]
    /\ asked' = [asked EXCEPT ![p] = 0]
    /\ UNCHANGED <<store, instance, cores, phase, failures, newest, late>>

\* The deferred unlock, and the caller goes on: an error is only logged or
\* answered.  main proceeds to start the rest.
Unlock(p) ==
    /\ Alive /\ pc[p] \in {"done", "failed"}
    /\ mu' = None
    /\ Goto(p, CASE p = "main" -> "serve" [] p = "loop" -> "select" [] OTHER -> "idle")
    /\ call' = [call EXCEPT ![p] = Nothing]
    /\ asked' = [asked EXCEPT ![p] = 0]
    /\ UNCHANGED <<store, instance, cores, phase, failures, newest, late>>

Apply(p) ==
    \/ Lock(p) \/ ReadConfig(p) \/ ReadMetrics(p) \/ StopPrevious(p)
    \/ Refused(p) \/ Start(p) \/ StartFails(p) \/ Unlock(p)
    \/ \E c \in Cores : New(p, c)
-----------------------------------------------------------------------------
(* HTTP requests.                                                          *)

\* The listener is open until httpSrv.Shutdown, which main calls after xm.Stop
\* returned, closes it: some moment of "draining", the one after the last
\* request that gets in.
Accept(h) ==
    /\ phase \in {"serving", "stopping", "draining"} /\ pc[h] = "idle"
    /\ Goto(h, "request")
    /\ UNCHANGED <<store, manager, phase, call, failures, history>>

\* A call of the store changes the configuration.
Edited(servers, accepted) ==
    /\ config.version < MaxEdits
    /\ config' = [version |-> config.version + 1, servers |-> servers, accepted |-> accepted]

\* Every edit whose handler does not call Apply: rules, algorithm, speed, DNS,
\* PUT and DELETE of a server, import, restore; also an edit whose write of
\* the file fails, after which every handler returns.
Edit(h) ==
    /\ Alive /\ pc[h] = "request"
    /\ \E servers, accepted \in BOOLEAN : Edited(servers, accepted)
    /\ Goto(h, "idle")
    /\ UNCHANGED <<pings, manager, phase, call, failures, history>>

\* POST /api/servers; and POST /api/listen, which saves a copy of the
\* configuration that may be old, as a whole.
EditAndApply(h) ==
    /\ Alive /\ pc[h] = "request"
    /\ \E servers, accepted \in BOOLEAN : Edited(servers, accepted)
    /\ Call(h)
    /\ UNCHANGED <<pings, manager, phase, call, failures, newest, late>>

\* POST /api/apply.
JustApply(h) ==
    /\ Alive /\ pc[h] = "request"
    /\ UNCHANGED config
    /\ Call(h)
    /\ UNCHANGED <<pings, manager, phase, call, failures, newest, late>>

\* A 400 or 404, or a request that reads.
Answer(h) ==
    /\ Alive /\ pc[h] = "request"
    /\ Goto(h, "idle")
    /\ UNCHANGED <<store, manager, phase, call, failures, history>>

Request(h) == Accept(h) \/ Edit(h) \/ EditAndApply(h) \/ JustApply(h) \/ Answer(h)
-----------------------------------------------------------------------------
(* The balancer.                                                           *)

\* The health checker stores the result of a dial.
Ping ==
    /\ phase \notin {"boot", "exited"} /\ pings < MaxPings
    /\ pings' = pings + 1
    /\ UNCHANGED <<config, manager, phase, pc, call, failures, history>>

\* maybeReapply, when a timer of reapplyLoop fires.  Without servers it returns.
Tick ==
    /\ Alive /\ pc["loop"] = "select" /\ config.servers
    /\ UNCHANGED config
    /\ Call("loop")
    /\ UNCHANGED <<pings, manager, phase, call, failures, newest, late>>

\* The select of reapplyLoop finds the channel stop closed.
LoopEnds ==
    /\ phase = "joining" /\ pc["loop"] = "select"
    /\ Goto("loop", "ended")
    /\ UNCHANGED <<store, manager, phase, call, failures, history>>
-----------------------------------------------------------------------------
(* main.                                                                   *)

\* After its own Apply: bal.Start(), and the HTTP server.
Serve ==
    /\ phase = "boot" /\ pc["main"] = "serve"
    /\ phase' = "serving"
    /\ pc' = [pc EXCEPT !["main"] = "signal", !["loop"] = "select"]
    /\ UNCHANGED <<store, manager, call, failures, history>>

\* <-sig: SIGINT or SIGTERM.
Signal ==
    /\ phase = "serving" /\ phase' = "stopping"
    /\ UNCHANGED <<store, manager, pc, call, failures, history>>

\* Mutant of Stop: it does not take the mutex.
StopUnlocked ==
    /\ phase = "stopping"
    /\ stopLocked /\ phase' = "draining"
    /\ UNCHANGED <<store, mu, pc, call, failures, history>>

\* xm.Stop(): lock, stopLocked, unlock.
Stop ==
    /\ phase = "stopping" /\ mu = None
    /\ stopLocked /\ phase' = "draining"
    /\ UNCHANGED <<store, mu, pc, call, failures, history>>

\* httpSrv.Shutdown(ctx) waits for the requests in progress, but no longer
\* than five seconds; then the deferred bal.Stop() closes the channel stop.
Shutdown ==
    /\ phase = "draining" /\ phase' = "joining"
    /\ UNCHANGED <<store, manager, pc, call, failures, history>>

\* wg.Wait() in bal.Stop() returns, and so does main.
Exit ==
    /\ phase = "joining" /\ pc["loop"] = "ended" /\ phase' = "exited"
    /\ UNCHANGED <<store, manager, pc, call, failures, history>>

Next ==
    \/ \E p \in Callers : Apply(p)
    \/ \E h \in Handlers : Request(h)
    \/ Ping \/ Tick \/ LoopEnds
    \/ Serve \/ Signal \/ Stop \/ Shutdown \/ Exit

\* A goroutine that can run does; the timers fire; main goes on.  sync.Mutex
\* hands the lock to a waiter that has waited for a millisecond, so Stop is
\* not overtaken for ever; and a select with two ready cases does not choose
\* the ticker for ever.  Nothing says that requests or signals come.
Fairness ==
    /\ \A p \in Callers : WF_vars(Apply(p))
    /\ WF_vars(Tick) /\ SF_vars(LoopEnds)
    /\ WF_vars(Serve) /\ SF_vars(Stop) /\ WF_vars(Shutdown) /\ WF_vars(Exit)

Spec     == Init /\ [][Next]_vars
FairSpec == Spec /\ Fairness
-----------------------------------------------------------------------------
(* Properties.                                                             *)

Labels == {"idle", "request", "unborn", "select", "ended", "serve", "signal", "lock",
           "config", "metrics", "stop", "build", "start", "done", "failed"}

\* Types; and the instance the manager points to is one it has not closed,
\* which Apply and Stop rely on when they close it.
TypeOK ==
    /\ config \in Config /\ pings \in 0 .. MaxPings
    /\ mu \in Callers \cup {None}
    /\ cores \in [Cores -> Rendered \cup {None}]
    /\ instance \in {c \in Cores : cores[c] # None} \cup {None}
    /\ phase \in {"boot", "serving", "stopping", "draining", "joining", "exited"}
    /\ pc \in [Callers -> Labels]
    /\ call \in [Callers -> [config : Config \cup {None}, pings : 0 .. MaxPings \cup {None},
                             inst : Cores \cup {None}]]
    /\ failures \in 0 .. MaxFailures
    /\ asked \in [Callers -> 0 .. MaxEdits] /\ newest \in 0 .. MaxEdits
    /\ late \subseteq Cores

Live == {c \in Cores : cores[c] # None}

\* Every instance that holds ports and goroutines is the manager's or belongs
\* to the one call of Apply that holds the mutex: whatever fails in Apply, no
\* instance is forgotten while it listens, and no two ever are in use.
NoInstanceForgotten ==
    \A c \in Live :
       \/ c = instance
       \/ instance = None /\ mu # None /\ call[mu].inst = c

\* When Apply reports success, what runs is the configuration it read, which is
\* no older than the one its caller had saved; without servers nothing runs.
\* The handlers of servers and ports rely on it when they answer.
SuccessIsServed ==
    \A p \in Callers : pc[p] = "done" =>
        LET c == call[p].config IN
        /\ c # None /\ c.version >= asked[p]
        /\ IF c.servers
           THEN instance # None
                  /\ cores[instance] = [version |-> c.version, pings |-> call[p].pings]
           ELSE instance = None

\* However calls of Apply overlap, a configuration never takes the place of a
\* newer one that was started before.
NeverOlder ==
    [][instance' \notin {instance, None} => cores'[instance'].version >= newest]_vars

\* After main's Stop no instance is left that was made before it, even if an
\* Apply was in progress when Stop was called.
StopIsComplete ==
    phase \in {"draining", "joining", "exited"} => Live \subseteq late

\* While the service runs, with servers and with a configuration xray accepts,
\* the core comes to run the configuration and the pings in the store, though
\* most edits do not apply themselves and starts may fail.
Wanted == [version |-> config.version, pings |-> pings]
Usable == phase = "serving" /\ config.servers /\ config.accepted

EventuallyCurrent ==
    Usable ~> (~Usable \/ (instance # None /\ cores[instance] = Wanted))

\* A signal ends the process: no order of main, the loop and the requests
\* blocks the shutdown.
ShutdownEnds == phase = "stopping" ~> phase = "exited"

\* Graceful shutdown: no instance is left running when main returns.
NothingRunsAtExit == phase = "exited" => instance = None
=============================================================================
