# OutBalancer in TLA+

A verification project for OutBalancer, a single Go process that serves a web
panel, keeps a JSON configuration, measures the latency of upstream proxy
servers and runs an embedded xray-core with a configuration rendered from both.
The repository has no tests; its concurrency has never been exercised on
purpose. Paths below are relative to the repository root.

## 1. Inventory

The process is a handful of goroutines around one shared object, the store.

| Component | State | Operations | What makes it correct |
|---|---|---|---|
| Configuration store, `internal/store/store.go` | `cfg` (an `AppConfig` whose lists are Go slices), the file `config.json`, `mu` | `New`, `Config` (shallow copy), `SaveConfig`, `AddServer`, `UpdateServer`, `DeleteServer`, `Import`, `Export`, `persist` | a request is one exact change or none; server IDs unique; the file follows the memory; a restart finds a configuration that once was in use |
| Read-modify-write handlers, `internal/api/handlers.go` | the copy of `cfg` a request holds, an index it found | `Config`, decode, edit, `SaveConfig` for algorithm, rules, profiles, schedules, DNS, ports, speed, webhook, API key | two requests, or a request and a store call, do not undo each other; shared arrays stay well formed |
| Runtime half of the store | `metrics`, `alerts`, `logs`, `traffic` | `SetMetrics`, `Metrics`, `AddAlert`, `AddLog`, `PushTraffic` | metrics of servers that are gone have a reason; the newest entries survive a cap; a change of state raises an alert |
| Health checker, `internal/balancer/healthcheck.go` | previous metrics held through a dial | `loop`, `checkAll`, `checkOne`, `computeScore` | failures in a row lead to offline, one success leads back; a result is stored for the server that was dialled |
| Balancer, `internal/balancer/balancer.go` | `stop`, `lastApply` | `reapplyLoop`, `maybeReapply`, `trafficLoop`, `sampleTraffic`, `Stop` | the core is eventually run with the configuration in the store; demo traffic leaves the checker's verdict alone |
| Xray manager, `internal/xray/manager_xray.go` | `instance`, `mu` | `Apply`, `Stop` | at most one instance; what runs was rendered from a configuration the store had; stopped stays stopped at shutdown |
| Configuration builder, `internal/xray/config_builder.go` | none (pure) | `buildXrayConfigWithMetrics`, `balancerStrategy`, `buildWeightedRandom`, `buildExplicitWeighted` | every tag a rule or balancer names exists; custom rules precede the catch-all; lower ping, higher weight |
| Link parser, `internal/config/config.go` | none (pure) | `ParseVless`, `parseVmess` | what a link says arrives in the outbound |
| Selection algorithms, `internal/balancer/algorithm.go` | `rrCounter` | `Pick` and six algorithms; only their names are used | whoever is picked is on and not known to be offline; shares follow the weights |
| Hub, `internal/api/ws.go` | `clients`, `mu` | `ServeWS`, `Broadcast`, `StartBroadcaster` | the broadcaster survives; a connection is in the map exactly while it is open; a stuck client stops nobody |
| Start-up and shutdown, `cmd/outbalancer/main.go` | none | start: store, overrides, demo data, Apply, balancer, hub, HTTP; stop: xray, HTTP, balancer | nothing is started after it was stopped |
| Web panel, `web/dist/assets/app.js` | view state | REST calls, websocket | an edit in the dialog keeps what it does not show |

Interactions. Handlers, health checker, traffic loop, reapply loop and
broadcaster call the store, each call under `Store.mu`; nothing spans two calls,
so everything read in one call may be stale in the next. `Store.Config` returns
the `AppConfig` by value, but the copy shares the backing arrays of its slices
with the store and with every other copy. Handlers and the reapply loop call
`Manager.Apply`, which holds `Manager.mu` and calls the store inside.

What is hard: the aliasing of slices, read-modify-write without a lock, results
written after a dial of seconds, the file falling behind when a write fails, a
crash between edit and save, stop-then-start in `Apply`, the order of shutdown.
Every hazard is listed at its line in `PROJECT.json`.

## 2. Plan

All modules of the plan are written, in this order, the most important first:

1. `ConfigStore`, `AtomicConfig`, `ConfigStoreSerial`: configuration store and
   handlers, because everything else reads what they keep.
2. `XrayManager`: `Apply` and `Stop` step by step, and who calls them.
3. `HealthChecker`: the check of a server, split at its dial, next to everything that
   happens to the server meanwhile.
4. `Links`, `XrayConfig`, `Selection`, composed by `Panel`: what of a user's input
   reaches xray.
5. `Hub`: connections, broadcaster and the list of alerts.

The components meet in a few values, and each module takes what it needs of the
others as steps of its environment: `XrayManager` has edits and measurements,
`HealthChecker` has the store calls on servers, `Panel` has measurements. The
invariants that cross a boundary are therefore stated where both sides are present:
metrics of deleted servers in `HealthChecker`, links and pings to weights in
`Panel`, the copy of a slice and the file in `ConfigStore`. A composition of all
processes in one module would multiply their states without a property that needs it.

What a next step could add: `ConfigStore` under a loss of power (the rename is
not preceded by `fsync`), and weights of servers that are not whole numbers.

## 3. Modules

| Module | Content |
|---|---|
| `ConfigStore` | store and handlers over a heap of backing arrays; its properties |
| `AtomicConfig` | abstract specification: one document, one file, atomic requests |
| `ConfigStoreSerial` | `ConfigStore` with one request at a time, and its refinement of `AtomicConfig` |
| `MCConfigStore` | constants, symmetry and view for TLC |
| `ConfigStoreProofs`, `ServerListProofs`, `RefinementProofs` | inductive invariants and theorems |
| `XrayManager`, `MCXrayManager`, `XrayManagerProofs` | the embedded core, `Apply` and `Stop`, and who calls them |
| `HealthChecker`, `MCHealthChecker`, `HealthCheckerProofs` | checks, traffic loop, metrics, alerts of the last minute |
| `Lists`, `ListProofs` | the loops that filter a slice, and what they collect from a list of any length |
| `Links` | link to server record, record to outbound, record to panel and back |
| `XrayConfig` | configuration to what xray is given; what xray-core makes of it |
| `Selection` | `Pick` and its six algorithms |
| `Panel`, `MCPanel`, `PanelProofs` | requests that edit the configuration, each state rendered |
| `Hub`, `HubProofs` | websocket hub, broadcaster, list of alerts |

A definition whose comment begins with "Mutant of" is a version of another one with a
plausible bug. Nothing uses it; `PROJECT.json` pairs it with the property that
notices the bug.

### ConfigStore

A slice is a record of an array identity and a length; its capacity is the length
of the array in `heap`. `cfg` is `Store.cfg`, `disk` the parsed content of
`config.json`, `metrics` the key set of `Store.metrics`, `req[h]` what the goroutine
of one request holds: its copy of the configuration, the position its loop
found, and its program counter. `unsaved` is a history variable: the calls of
`persist` that failed since one succeeded.

| Action | Code |
|---|---|
| `NewDefault`, `NewFromFile` | `store.New` without and with a file |
| `AddServer`, `UpdateServer`, `DeleteServer`, `Import` | the store calls, one step each: they hold `Store.mu` throughout, and `persist` is part of them |
| `Begin` | `cfg := s.store.Config()`, the first statement of every read-modify-write handler |
| `BadRequest`, `RuleNotFound` | the 400 and 404 returns |
| `EditSetting` | assignment to a field of the handler's own copy: algorithm, DNS, ports, speed, webhook, API key, a whole schedule list |
| `AppendRule` | `append(cfg.RoutingRules, rule)`: in place if the array has room, into a new array if not |
| `FindRule`, `PutRule` | the loop of a PUT, then the assignment to the element |
| `FindRule`, `ShiftRules` | the loop of a DELETE, then the end of the memmove of `append(s[:i], s[i+1:]...)` |
| `SaveConfig` | `Store.SaveConfig` with the copy |
| `Crash` | the process ends; only `disk` stays |

Data races. The server list is only written under `Store.mu`. The rule list is
written by handlers without it, while `persist` of somebody else marshals it.
Between `FindRule` and `ShiftRules` a memmove is in progress, and a reader may
find the old or the new element in each slot (`Readings`). Element assignments
are one step: a rule torn inside one element (a string header half written) is
not modelled, and two memmoves over one array are ordered as if each happened at
its end. These are the two places where the model allows less than the Go
memory model does.

Rules stand for profiles too: `handleProfiles` and `handleProfileByID` are the same code
on another list. The override of ports by command line flags in `main.go` is one
more read-modify-write of a setting, before any other goroutine runs; `seedDemo`
is a series of `AddServer` calls and one `SaveConfig`. A file that cannot be read or parsed, or a
first start whose write fails, ends the process before it serves: no step.

`persist` writes a temporary file and renames it, so the file is replaced or not
touched. There is no `fsync`; loss of power is not modelled, only the end of the
process.

### AtomicConfig and ConfigStoreSerial

`AtomicConfig` is what the panel's user sees: one document, every request changes
it in one step or not at all, and the file is the document or an earlier one
(`Write` brings it up to date). `ConfigStoreSerial` lets no store call and no
other handler run while a request is in progress. The refinement mapping takes
the copy of a request that has made its edit as the current document, so edits of
rules through a shared array map to one abstract step and `SaveConfig` maps to
`Write`. The restriction is necessary: without it `config_duplicates` shows a
behaviour no atomic document has.

### XrayManager

`mu` is `Manager.mu` with its holder, `instance` is `Manager.instance`, `cores` says of each
`core.Instance` that was made and not closed what it was rendered from. `pc[p]` and
`call[p]` are program counter and locals of each goroutine that calls `Apply`: main at
start-up, the reapply loop, and the requests. `config` and `pings` are the two parts of
the store that `Apply` reads, as a version number with two facts, whether there
are servers and whether xray-core accepts the rendering. `asked`, `newest` and `late`
are history variables.

| Action | Code |
|---|---|
| `Lock`, `ReadConfig`, `ReadMetrics`, `StopPrevious`, `Refused`, `New`, `Start`, `StartFails`, `Unlock` | `Manager.Apply`, in this order; `ReadConfig` stops the core if there are no servers |
| `Accept`, `Answer`, `Edit`, `EditAndApply`, `JustApply` | a request, what it does to the store, and whether its handler applies: adding a server, changing the ports and `POST /api/apply` do |
| `Ping` | `checkOne` stores a measurement |
| `Tick`, `LoopEnds` | `maybeReapply` from a timer, and the return on a closed `stop` |
| `Serve`, `Signal`, `Stop`, `Shutdown`, `Exit` | `main` from the end of its own `Apply`; requests are accepted until the listener closes within `Shutdown`, which may time out with requests in progress; `Exit` waits for the loop |

`Edit` is also every edit that updates memory and then fails to write the file: the
handler returns before it applies. `Tick` skips an empty server list, so the core
of a deleted last server runs on until somebody applies; nothing in the repository
promises more, and `EventuallyCurrent` asks for servers. In demo mode there is no
reapply loop and `EventuallyCurrent` is not claimed. The end of the process by
another signal, a panic or `log.Fatalf` needs no step: it ends every behaviour of
this module. Pauses (150 ms in `Apply`, 20 s and 60 s timers) are not modelled. `Signal`
comes once; later signals stay in the channel.

### HealthChecker

A call of the store is one step; what is read in one step may be stale in the
next. The server list is a sequence and may hold an ID twice: a restore looks at
nothing, and `config_duplicates` shows another way. `checkAll` starts a goroutine per element, so
`task[i]` is the goroutine of `checkOne` for the element at position `i` of the list the round
has read, with the metrics it read before its dial; two of them may check one ID.
`copy` is a configuration that a handler got from `Store.Config` and has not saved: saving
it later undoes adds and deletes, and leaves the metrics as they are. `copy.shared` says
whether its list is still in the store's array, where updates and deletes are seen.
`window` holds the alerts of the last minute, which is what `AddAlert` compares with;
`streak`, `excused`, `doubled` and `missed` are history variables.

| Action | Code |
|---|---|
| `ReadServers`, `ReadConfig` | `checkAll`: the servers that are on, with their addresses, then the threshold |
| `StartCheck` | a goroutine of `checkOne` starts and reads `MetricsFor` |
| `Dial` | the dial ends; status, count and alerts are worked out and the alerts raised |
| `Store` | `SetMetrics` at the end of `checkOne` |
| `EndRound`, `Tick`, `LoopEnds` | `wg.Wait` and `NewTicker`, the `select` of `loop`, `Reset` with the interval of now |
| `TrafficServers`, `TrafficMetrics`, `TrafficStore`, `TrafficPush`, `TrafficEnds` | `sampleTraffic`: two reads, then a copy written back per server |
| `AddServer`, `UpdateServer`, `DeleteServer`, `Import` | what the store calls do to servers and metrics; `append` finds room (`InPlace`) or not (`Moved`) |
| `Begin`, `Refuse`, `SaveConfig` | any read-modify-write handler: `Store.Config`, then an early return or the save of its copy |
| `NetworkChanges`, `Age` | addresses begin or cease to answer, an alert leaves the window |
| `Signal`, `Exit`, `Crash`, `Restart` | `Balancer.Stop`, its two waits, the end and a new start of the process |

A panic (an interval of 0 in `NewTicker` or `Reset`) is `Ended`. Intervals below 0 panic
likewise and are not told apart. Failure counts stay at `MaxFails`, above every
threshold of `Documents`. Ping and speed are left out here: the status depends only
on whether the dial was answered and whether it took 200 ms. In real mode
`sampleTraffic` has nothing to reset, since metrics are not kept over a restart.
The model takes the alert of a check and its `SetMetrics`, two statements apart, to be
nearer to each other than a minute. `Age` stands for the passing of a minute for
each alert by itself.

A count of failures goes on when a server gets another address (`UpdateServer` keeps the
metrics), so `OfflineIsEarned` counts checks of the server, whatever its address was.
It does not hold for an ID that was listed twice: two checks read a count of 1, one
succeeds and stores 0, the other fails and stores 2, which may mean offline after one
failure in a row. The property says that this is the only exception.

### Links, XrayConfig, Selection and Panel

`Links` starts where `url.Parse`, base64 and JSON end: a link has a scheme, perhaps a
user and a port, and named parameters. `ParseVless` makes a server of it, key by key, and
`buildOutbound` makes an outbound of a server. `mergeServerMetrics` and `PutBody` are the way of a server
to the edit dialog and back: fields the dialog is not given are zero afterwards.

`XrayConfig` is `buildXrayConfigWithMetrics` in its parts: `Outbounds`, `balancerStrategy`,
`WeightByPing` (`buildWeightedRandom`), `WeightByUser` (`buildExplicitWeighted`), `Rules`, `Inbounds`.
Without servers `Apply` stops the core and renders nothing, so what is said of the core asks for a
server in the list.
Weights are in thousandths. `WellFormed`, `Matches`, `RouteOf` and `Resolves` are external: what
xray-core does with a rendering, as far as `config_builder.go` relies on it. `WellFormed` says that a
rendering has none of these defects: two outbounds of one tag, an account without credentials,
REALITY without a public key, two inbounds on one port, a rule without a condition, a rule for a
balancer that is not there. It does not say that the core starts: transports, flows,
encryptions and ports the core does not know are passed on as they come, and rules by country need a
`geoip.dat`, which the repository does not ship. The first rule that matches decides, and under the
`domainStrategy` `AsIs` a condition on the country holds for connections to addresses only. Whether the installed xray-core uses `costs` with the strategy
`random` is outside of this repository and not assumed.

`Selection` gives for each algorithm the set of servers `Pick` may return: one for most,
several where several are equal, because `sort.Slice` may put any of them first. A weight is a
whole number here; the code takes any `float64`. With weights of at least 1 the branch for a sum of 0
and the return after the loop of `weightedRoundRobin` are not reached.

`Lists` has the loops all of these share: `for _, s := range ...` with a test and an
`append`. `Positions` is that loop, written as a recursive function over the positions of the
slice, and `Kept` what it appends.

`Panel` composes them. Its state is the part of the configuration the builder
reads and the metrics; an action is a request.

| Action | Code |
|---|---|
| `AddServer` | `POST /api/servers` and each line of an import: `ParseVless`, then `Store.AddServer`, deduplicated by ID |
| `EditServer` | the dialog of `app.js`: `GET /api/servers`, then `PUT /api/servers/{id}` with what it was shown |
| `PutServer` | the same PUT by a client that sends every field |
| `DeleteServer`, `AddRule`, `DeleteRule`, `SetAlgorithm`, `SetListen` | the handlers of these names; `SetListen` refuses one port for both proxies, which flags and a restored file may have |
| `SetMetrics` | the health checker, also for a server that was deleted meanwhile |

`metrics` has no entry for a server nobody has measured: `AddServer` starts a new one with ping 0, which
the builder treats as none, and drops what a late check left behind.

### Hub

| Action | Code |
|---|---|
| `Accept`, `Register` | `ServeWS`: upgrade, then the map under `Hub.mu` |
| `ReadFails`, `Unregister`, `Close` | the reader's loop ends, and its deferred function |
| `AddAlert` | `Store.AddAlert`: append, cut to the cap (`Pushed`, as for logs and traffic) |
| `Tick`, `ReadLength` | the two calls of `s.Alerts()` in one expression of `StartBroadcaster`; a bound above the capacity panics |
| `Lock`, `WriteSucceeds`, `WriteFails`, `Unlock` | `Broadcast`, with the write deadline |
| `PeerChanges` | the other side stops to read, reads again, or vanishes |

The capacity of what `Alerts` returns is its length: it is made with `make([]Alert, n)`.
The server sends no pings, so the read deadline of a minute closes every
connection, as `ConnectionsEnd` says; the panel connects again. A pong that a client sends
unasked would renew the deadline and is not modelled.

## 4. Runs

| Run | Bounds | States | Shows |
|---|---|---|---|
| `config_rules` | 2 handlers, rules only, 2 rule IDs, lists up to 2, no failing write; symmetry of handlers | about 117,000 | `TypeOK` with memory safety and `DiskFollowsMemory` while both handlers append, assign and shift in shared arrays |
| `config_servers` | 3 server IDs, lists up to 3, one handler that keeps an old copy, 1 failing write in a row | 209,571 | `ServerListChanges`: the list changes by exact calls, and otherwise only in the step that saves a copy, to that copy; `DiskFollowsMemory` holds again with the first write that goes through |
| `config_serial` | 2 servers, 1 rule ID, 2 bodies, 2 settings, lists up to 2, 1 failing write, one request at a time | 269,175 | `ImplementsAtomic` and `UniqueServerIds` |
| `config_duplicates` | 2 server IDs, one handler; expected violation | | `UniqueServerIds` fails as soon as one settings request overlaps a DELETE |
| `xray_apply` | 2 requests at a time, main and the loop, 2 instances, 2 edits, 1 new ping, 1 failing start | 491,421 | `TypeOK`, `NoInstanceForgotten`, `SuccessIsServed`, `NeverOlder`, `StopIsComplete` |
| `xray_liveness` | 1 request at a time, 1 instance, 2 edits, 1 new ping, 1 failing start; fairness | 56,007 | `EventuallyCurrent`, `ShutdownEnds` |
| `xray_shutdown` | as before, 1 edit; expected violation | | `NothingRunsAtExit` fails |
| `panel_rendering` | 4 links that are accepted and 3 that are not, 2 servers and 2 rules out of 6, at most 3 of servers, rules and metrics of deleted servers at a time, 2 algorithms, 1 weight, 3 measurements, 2 settings of ports | 197,972 | `DefectsExplained`, `LaterRulesWin`, `TargetsThatResolve`, `LinkReachesOutbound`, `PingDecidesWeight`, `UserWeightsUnused`, `PickIsUsable`, `PicksAreShared` |
| `health_rounds` | 1 server ID, lists up to 2 with or without it twice, 1 address, 3 documents, a handler that keeps a copy, both modes, threshold 2 | 2,452,588 | `OfflineIsEarned`, `GhostsExplained`, `VerdictsAreHeeded` |
| `health_settles` | 1 server, 2 addresses, all networks, 2 documents, edits, slow and fast dials, the alerts of the last minute, real mode; fairness | 112,504 | `OfflineIsAnnounced`, `StatusSettles`, `ZeroIntervalIsFatal`, `ShutdownEnds` |
| `hub_rounds` | 2 connections, 2 alerts in a snapshot, 3 kept, 4 raised; fairness | 29,457 | `MapHasTheOpen`, `NewestSurvive`, `ShowsNewest`, `PanicNeedsShortList`, `RoundsEnd`, `Registered`, `ConnectionsEnd` |
| `hub_panic` | 1 connection; expected violation | | `BroadcasterSurvives` fails |

### Why the bounds suffice

`ConfigStore`. Aliasing needs an array with spare capacity shared by two headers: a list
of one in an array of two. A shift that differs from a cut needs two elements, one
that differs from a swap three. Losing an update needs one stale copy and one
call in between. `Capacities` are the powers of two that `growslice` gives to short lists.
The number of arrays (eight) is above what the store and two handlers can point
to, so allocation never blocks. The view `SharingView` identifies states that differ
only in the identity of arrays, or in arrays nothing points to, which no property
can tell apart. Writes that fail next to edits of rules are covered by
`config_serial` and, for any number of handlers, by the theorem `FileFollowsMemory`.

`XrayManager`. Two instances suffice to lose one: the first that is lost violates
`NoInstanceForgotten`. Two edits make three ages, one more than the two that two
overlapping calls of `Apply` can hold. Edits, pings and failing starts are bounded by
constants; requests to apply, reapplies and their failures for the configuration are not.

`HealthChecker`. Servers with different IDs do not touch each other's metrics, and no property
relates two of them: one ID is enough. In `health_rounds` the list holds it twice at most, which is what two
checks at a time need; a handler's copy is older or newer than the list; one address,
which answers or not, since the metrics do not depend on which address was dialled. A threshold of
two, so that one failure is not yet offline. `health_settles` has what `health_rounds` leaves out: two
addresses, so that an edit during a dial changes what the result is about, and documents that
differ in everything else a restore can change: the server is there or not, the threshold
is 2 or 1, the interval works or not. `Watched` keeps the age of offline alerts only, since no
property is about the two other kinds. The theorems have all of it at once, for any number of IDs.

`Panel`. The links cover both parsers, REALITY with and without a key, TLS over gRPC, a websocket with a
host, an empty user, and the three reasons for which a link is refused. Two servers suffice for an
order of weights and for shares; two rules for an order of rules. The six rules have each
target of the code (`balanced`, `block`, `direct`, an outbound tag, a server ID) and each
kind of condition, and one is off. `MaxItems` bounds how many
servers, rules and metrics of deleted servers there are together: two servers and a rule, two rules and a server,
one of each. `Slots` is the number of
positions the counter of `weightedRoundRobin` goes through, and the number of picks over which
shares are counted: as many as the greatest sum of weights that occurs.

`Hub`. Two connections suffice for one to be stuck while the other waits. A cap of three
with four alerts cuts once, a snapshot of two is shorter than the list and longer than
a new one.

### Fairness and deadlock

The runs of `ConfigStore`, `Panel` and `health_rounds` are about safety properties and need no
fairness. Deadlock is checked there. `XrayManager` ends with `main` and `Hub` with a panic,
so their runs do not check for deadlock; `ShutdownEnds`, `RoundsEnd`, `Registered` and
`ConnectionsEnd` say instead what must go on.

`FairSpec` of `XrayManager` assumes that a goroutine that can run does, that timers fire
(weak fairness), that `Stop` gets the mutex although requests keep taking it (strong
fairness: `sync.Mutex` hands the lock to a waiter after a millisecond), and that the loop's
`select`, which chooses at random between a tick and the closed channel, does not choose the
tick for ever (strong fairness). Nothing is assumed of requests and signals. That
starts fail at most `MaxFailures` times is part of what `EventuallyCurrent` says: a port that stays
taken keeps the core down.

`FairSpec` of `HealthChecker` assumes the same of its loops: goroutines run, a dial ends by
its timeout, tickers fire, and the two `select` statements see the closed channel in the
end. Requests, the network, crashes and restarts are free. `StatusSettles` asks that
configuration and network stay as they are from some time on, that the process stays up
and is not told to stop: only then is there a status a server should have.

`FairSpec` of `Hub` assumes that goroutines run, the ticker fires, a mutex that is
wanted is handed over (strong fairness), a read ends by its deadline and a write by
its own: it succeeds if the peer reads, and fails otherwise. New connections, alerts and the
behaviour of peers are free.

### Findings

`config_duplicates`: a settings request copies the configuration (servers s1, s2);
`DELETE s1` shifts the shared array to s2, s2 and cuts the store's slice; the request's
`SaveConfig` puts its old length back, and the store and the file list s2 twice, although
`AddServer` "appends a new server (deduplicated by ID)" (`src/internal/store/store.go:160`).
`ListChangesExactly` proves that this is the only way the list changes by accident: in a step that is
the `SaveConfig` of a handler whose slice is not the store's, and to what that slice shows.

`xray_shutdown`: `main` calls `xm.Stop()` first, then `httpSrv.Shutdown`, then `bal.Stop()`. A request
that was accepted, or a tick of the reapply loop, calls `Apply` in between and starts an
instance that nobody closes: under "graceful shutdown" (`src/cmd/outbalancer/main.go:133`) the
process ends with xray serving. The same order gives `StopIsComplete` its exact form: what is
left was made after `Stop`.

`hub_panic`: the broadcaster slices one result of `s.Alerts()` by the length of another
(`src/internal/api/ws.go:94`). While there are fewer than five alerts, one that is added in
between makes the bound exceed the capacity, and the panic ends the process.
`PanicNeedsShortList` is the other half: with five alerts or more it cannot happen.

Five findings are about documents and texts that the code does not follow; the passing runs
show them.

- `UserWeightsUnused`: the branch that honours "configured per-server Weight values"
  (`src/internal/xray/config_builder.go:184`) is never reached, because `balancerStrategy` turns
  the algorithm `weighted` into `roundRobin`.
- `TargetsThatResolve`: the target of a rule is documented as a "server ID"
  (`src/internal/config/config.go:87`) and the panel offers these IDs; the builder takes the
  target for an outbound tag, which is `out_` and the ID.
- `DefectsExplained`: "UpdateServer replaces a server in-place" (`src/internal/store/store.go:177`); the
  edit dialog sends back what it was shown, without UUID and keys, and xray then refuses
  the whole configuration while that server is on.
- `LaterRulesWin`: the panel tells the user of the list of rules that they are carried out in order
  (`src/web/dist/assets/app.js:863`); the builder puts each one in front of those before it, so the last
  one of the list that matches decides.
- `ZeroIntervalIsFatal`: a restored document with an `interval_sec` of 0, or without one, ends
  the process at the next tick and after every start.

## 5. Proofs

The theorems hold for all values of the constants that satisfy the assumption
named in the module, so for any number of handlers, servers, rules, instances and
connections.

### Configuration store

`ConfigStoreProofs`, from `ConstantsAssumption`:

- `TypeCorrect`: `Spec => []TypeOK`;
- `FileFollowsMemory`: `Spec => []DiskFollowsMemory`.

`TypeOK` alone is not inductive: nothing in it keeps the array of a server list from
being the array of some handler's rule list, and then an in-place append of a rule would
put a rule among servers. The invariant `IInv` adds `Separate`: among all configurations
somebody holds, store and handlers, no array is used for servers by one and for rules by
another. It also says that only a running process has busy handlers. The proof has a
lemma per action; the actions that write memory go through `ServerArrayWritten`,
`RuleArrayWritten` (a write in place disturbs no slice, whoever shares the array) or
`FreshArrayWritten` (a write to an array nobody points to), and `SeparateKept`. `DiskFollowsMemory`
is then inductive with `IInv`: after a successful write while no memmove is in progress the
file is the memory (`QuietWrite`), and a handler that disturbs this is still editing, so
its own `SaveConfig` is to come.

`ServerListProofs`:

- `ListChangesExactly`: `Spec => ServerListChanges`, an action property, from `IInv` and a lemma
  per action that says which sequence the slice stands for before and after;
- `SerialIdsUnique`: `SerialSpec => []UniqueServerIds`, if the default document and the
  documents a user restores have no duplicates (`CleanDocuments`; `Import` does not look). The
  invariant `UInv` adds that the file has none either and that a busy handler's copy has
  the servers of the store: nothing that changes them runs meanwhile, which is what
  overlapping requests lose.

`RefinementProofs`: `SerialImplementsAtomic`, `SerialSpec => ImplementsAtomic`. Initial states map to
initial states and every step to a step of `AtomicConfig` or a stutter. The invariant `RInv` says
that at most one handler is busy, that its copy is the store's configuration until it has
made its edit, and that the rule it found is still the one it looked for. Each edit
maps to one abstract request, although it happens in a shared array before `SaveConfig`;
`SaveConfig` maps to `Write` or, when the write fails, to a stutter.

### Embedded xray

`XrayManagerProofs`, from `XrayAssumption`:

- `ManagerTypes`: `Spec => []TypeOK`;
- `NoneForgotten`: `Spec => []NoInstanceForgotten`;
- `Served`: `Spec => []SuccessIsServed`;
- `AgesGrow`: `Spec => NeverOlder`;
- `StopCompletes`: `Spec => []StopIsComplete`.

The inductive invariant has two layers. `IInv` says who holds the mutex (exactly the caller
between `Lock` and `Unlock`), what such a call has read and made so far (`LocalsOK`), and that
between `StopPrevious` and `Start` the manager has no instance; it implies the first two. `SInv`
adds the ages (`AgesOK`): what a call has read is as new as what was asked for and as what was
ever started, which is stable because only the holder of the mutex starts anything.
Each layer has a lemma per action. `Stop` needs a free mutex, hence no call is between
`New` and `Start`, and `NoInstanceForgotten` leaves only `instance`, which it closes: that is
`StopCompletes`.

### Health checker

`HealthCheckerProofs`, from `HealthAssumption`:

- `CheckerTypes`: `Spec => []TypeOK`;
- `OfflineEarned`: `Spec => []OfflineIsEarned`;
- `GhostsHaveReasons`: `Spec => []GhostsExplained`;
- `VerdictsHeeded`: `Spec => VerdictsAreHeeded`;
- `OfflineAnnounced`: `Spec => OfflineIsAnnounced`, if the age of offline alerts is kept
  (`"offline" \in Watched`).

None of them is inductive, since three kinds of goroutines write metrics from copies.
The invariant `IInv` says of every copy what the property says of the metrics: the counts in
a task or in the traffic loop's snapshot are earned too, healthy ones have the count 0
(`HealthyIsClean`), and whoever holds a copy of an unlisted server is excused (`InHandExcused`). While no
ID is listed twice, two checks of a round have different IDs (`OneEach`, `ChecksFollow`): this is
where `OfflineIsEarned` needs its exception. What the traffic loop has read healthy and was found down
since is in `missed` (`DownIsMissed`), from which `VerdictsHeeded` follows in both modes. In real mode the
traffic loop has nothing in hand (`RealIsQuiet`), and a check that nobody deleted the server under has the
metrics of now (`CopyIsCurrent`): `OfflineAnnounced` follows from these two.

### Hub

`HubProofs`, from `HubAssumption`: `HubTypes`, `NoConnectionLeaks` (`MapHasTheOpen`), `NewestKept`
(`NewestSurvive`), `SnapshotsShowNewest` (`ShowsNewest`) and `PanicsEarlyOnly` (`PanicNeedsShortList`).
Connections and alerts have an invariant each. `CInv` adds to `MapHasTheOpen` that an accepted connection is open:
the broadcaster closes only what is in the map. `AInv` says that the first reading of the
alerts, as long as it is held, was all the kept ones of its moment (`ReadingOK`; `bc.at` remembers how many
had been raised). The bound from the second reading is no smaller than what the first one
allows, so the message is exactly the newest alerts of the first reading.

### Panel and rendering

`PanelProofs`, from `LinksAssumption`, `TagAssumption`, `SelectionAssumption` and `PanelAssumption`, for lists of
any length:

- `PanelTypeCorrect`: `Spec => []TypeOK`;
- `DefectsHaveCauses`: `Spec => []DefectsExplained`, if `HashDistinguishes`;
- `LastRuleWins`: `Spec => []LaterRulesWin`;
- `TargetsResolve`: `Spec => []TargetsThatResolve`;
- `PingDecides`: `Spec => []PingDecidesWeight`;
- `LinksReach`: `Spec => []LinkReachesOutbound`, if `HashDistinguishes` and `LinksAreConsistent`;
- `PicksAreUsable`: `Spec => []PickIsUsable`;
- `SharesFair`: `Spec => []PicksAreShared`;
- `WeightsUnused`: `Spec => []UserWeightsUnused`.

The inductive invariant `IInv` adds `Provenance` to `TypeOK`: every server in the list has a link it
comes from, whose hash is its ID and whose scheme its protocol; it is what the parser made
of that link, but for weight and switch, or it was changed in the edit dialog and has
lost tag and UUID. The properties alone are not inductive: they are about a rendering, which no
step reads. Each follows from `IInv` and from lemmas that say what the parts of the rendering are:
`EnabledAre`, `OutboundsAre`, `RulesAre`, `CostsAre`, `LeftAre`, `SumsAre`, `StreamIs`. Where a property speaks
about something else than positions, a step of its own translates: a weight depends on
the tag of a server and hence, through `Provenance`, on its ID (`TagsOfServers`); a share of picks is the
interval of positions between two sums of weights (`Between`), and its size is the difference of two
quotients (`BetweenCounts`).

The filters and sums of the code are loops, and what a loop computes for every input needs
induction. The theorems of the library on induction and recursion take an operator as a
parameter and cannot be applied; `ListProofs` derives what is needed from the theorem that `<` is
well-founded on the natural numbers (`NatLessThanWellFounded`, `WFMin`), with sets and functions in
place of operators: `Induction`, then `Recursion` (a loop that steps by a function has a result), then what
`Positions`, `Kept`, `FirstOf` and `LastOf` are.

The hypotheses. `TagAssumption` says what a prefix does: a tag `out_...` is not empty, is not
`direct`, `block` or `balanced`, and differs for different hashes. `HashDistinguishes` is not guaranteed by the code:
`shortHash` has 48 bits. Two links with one hash share an ID; `AddServer` refuses the second, so the list
stays sound (`PanelTypeCorrect` does not need the hypothesis), but a property that goes from an ID
to *the* link has no meaning then. `LinksAreConsistent` excludes a link that contradicts itself (a
REALITY key with plain TLS): the builder drops such a parameter. The links of `panel_rendering` satisfy
all of them, which TLC evaluates.

Two formulas were corrected because their proofs failed. `PingDecidesWeight` once compared every
server that answered with every server that failed; with three servers two of which were
changed in the edit dialog, and therefore share the empty tag, the failed one gets what the other
is worth, and TLC finds it as soon as it is given three servers. `Place` had overlapping guards in a
`CASE`, which TLC resolves by their order and TLA+ leaves open.

### Only model-checked

Liveness (`EventuallyCurrent`, both `ShutdownEnds`, `StatusSettles`, `ZeroIntervalIsFatal`, `RoundsEnd`,
`Registered`, `ConnectionsEnd`) is outside of what the proof system supports. Every invariant and
every action property of the passing runs is proved. The violations are counterexamples, and need
no proof.

## 6. Not modelled

- Wording, logging, static files, display fields (names, flags, guessed countries), the
  rendering of the panel, `src/scripts/genshots`.
- The sections of the rendered configuration that are copied through (DNS, log, policy).
- `computeScore`, whose result feeds the display and the made-up traffic of demo mode.
- `MarkAlertRead`, `AddLog` and `SetTopDomains`, which change only what the panel shows; the cap of
  alerts, logs and traffic samples is `Pushed` in `Hub`. An alert that was cut from the buffer within its minute may be
  raised again; it takes two hundred alerts in a minute.
- The data `seedDemo` makes up. Its calls are those of `AddServer`, `SetMetrics` and `SaveConfig`.
- In demo mode `StatusSettles` does not hold: the traffic loop may write back a copy from before a
  check, and undo it until the next one. `VerdictsAreHeeded` says when it may.
- Loss of power (see `ConfigStore`), and rules torn inside one element.

`PROJECT.json` has the status and the reason per component.
