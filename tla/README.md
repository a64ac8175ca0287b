# A TLA+ development of pflex_exporter

pflex_exporter polls Dell PowerFlex clusters over REST and serves what it finds as
Prometheus metrics and as OTLP pushes. This directory holds TLA+ modules that model the
parts of it in which order, time and failure matter, TLC configurations that check them on
small instances, and proofs that TLAPS checks for every instance.

## 1. The system

### Components

| Component | Source | State | Operations |
|---|---|---|---|
| Request gate of a cluster client | `internal/powerflex/client.go` | `activeReqs` (atomic), `closed`, `closeChan` (under `mu`) | `do`, `requestDone`, `beginClose`, `Close` |
| Token lifecycle | `internal/powerflex/auth.go` | access and refresh token, their expiries (under `mu`) | `ensureValidToken`, `login`, `refresh` |
| Statistics fan-out | `internal/powerflex/client.go` | one call's answers and success counter | `GetStatistics`, `GetStatisticsV5` |
| Collection loop | `internal/powerflex/collector.go` | cycle counter, results of the current cycle | `CollectOnce`, `Run`, `collectCluster`, `collectGen1`, `collectGen2` |
| Snapshots, snapshot store | `internal/powerflex/snapshot.go` | pointer to the last immutable snapshot | `BuildSnapshot`, `Load`, `Store` |
| Generation detection, sample derivation | `gen.go`, `state.go`, `derivations*.go`, `inventory.go`, `metrics.go`, `statistics_v5.go` | none | pure functions |
| Parsing | `internal/models/instances.go`, `relations.go`, `statistics.go` | none | pure functions |
| Export | `prometheus.go`, `otlp.go` | set of registered OTLP instruments | `Collect`, `EnsureInstruments`, callbacks |
| Kubernetes enrichment | `internal/k8s/enricher.go` | two lookup maps (under `mu`) | `Refresh`, `Run`, `VolumeLabels`, `SDCLabels` |
| Server | `main.go` | clients, collector, cancel function of the loop (under `mu`), HTTP server, error channel | `Start`, `startCollection`, `stopCollection`, `ReloadConfig`, `Shutdown` |
| Configuration | `internal/models/config.go`, `safe_config.go`, `internal/config/watcher.go`, `internal/utils/env.go` | current configuration (under `mu`) | defaults, validation, `ReloadConfig`, SIGHUP handler, file watcher |
| Telemetry, tracing, logging, files | `internal/telemetry`, `tracing.go`, `internal/logging`, `internal/utils` | none that decides anything | set-up at start |

### How they interact

The server builds one client per cluster and one collector over them. The collector runs
one goroutine per cluster in each cycle; such a goroutine calls `GetInstances`, then a
statistics fan-out, which runs up to eight requests at once. Each request passes the
client's gate and asks the token store for a token, whose mutex is held across a login or a
refresh. When every goroutine has returned, the cycle's results become one immutable
snapshot, and a pointer swap publishes it to the exporters. A reload (SIGHUP or a file
event, in two different goroutines) cancels the loop, closes the clients, and starts over.
The enricher refreshes its two lookup maps in a goroutine of its own, while the clusters'
goroutines read them, one label set at a time. A scrape of `/metrics` and the OTLP reader's
callbacks read the published snapshot whenever they run.

### What is hard about it

* `requestDone` decrements outside the mutex that `beginClose` decides under.
* Requests that arrive together at an expired token; a token that ages between the
  gateway, the store, and the wire; a gateway that forgets its tokens.
* Clusters that hang while others wait for a slot; timeouts that begin at different
  moments; a cancelled loop in the middle of a cycle.
* A result that a failed statistics path has already written to when the other one starts.
* Samples reused from a snapshot that came from a fallback, a partial or a failed cycle.
* Reloads and shutdown that overlap each other and a cycle still under way.
* Password files that change without an event, documents that resolve or do not depending
  on the environment.
* One snapshot made of two generations, fallbacks and reused samples, whose series must
  neither collide nor disagree on their labels; instruments created for the names of one
  moment.

`PROJECT.json` lists these hazards at their lines with the properties that watch them.

### What makes each component correct

* Fan-out: what is returned is exactly what was answered; no goroutine outlives the call.
* Gate: nothing enters a closed client; a waiting `Close` is woken; the channel is closed
  once; one `Close` wins; `Close` drains.
* Tokens: what is sent is alive; one login or refresh per expiry; a refused refresh heals;
  every call returns.
* Collection: clusters do not disturb one another; `pflex_up` agrees with the error; reuse
  is bounded and never doubles a series; cycles end; a cancelled loop stops.
* Server and configuration: after the last reload, one loop runs, with the clients of the
  newest configuration, and only its snapshots are published; after shutdown none runs; no
  pool is ever built of clusters that cannot be told apart or polled.
* Derivation: health gauges tell the worst reported state; an object has one identity.
* Export: no sample of a snapshot is lost; both paths export the same series.
* Enrichment: the two maps come from one refresh; a failed refresh keeps both; labels
  were true and become current.

## 2. Plan

Done, with their runs and proofs: `ClusterClient`, `TokenStore`, `Collector`, `Server`
(with the configuration holder and the reload triggers); `FanOut` over the gate, which
implements `StatisticsCall`; `Series` (parsing, relations, generation detection, derivation
of every sample), `Enrichment`, and `Exposition`, which composes the two with cycles and
both export paths; `Configuration` (expansion, defaults, validation) and `ConfiguredServer`,
which gives the server's configurations as what loading yields. Every invariant and every
action property of the passing runs, and the refinement, has its theorem.

Left, in this order:

1. The composition of gate and token store, in which a request is refused with 401, with
   the theorems of both components carried over as `FanOutProofs` does it for the gate.
2. The goroutine of the HTTP server with its error channel, and the `--once` mode.
3. The requests that the HTTP library repeats, after a transport error or a 429.

## 3. The modules

### ClusterClient

One caller is one goroutine inside `do`: `Admit` (the critical section at its top),
`HaveToken`, `Answer` (any outcome of the request), `Decrement` (the atomic subtraction),
`Signal` (the critical section of `requestDone`). One closer is one goroutine in `Close`:
`BeginClose`, then `WakeClose` or `TimeoutClose`. A short critical section that does not
block is one action; the decrement is one of its own because it is outside the mutex.
`chan` is the channel as its holder sees it after the field is set to nil; `"panic"` stands
for closing it twice. `late` remembers which callers stood between decrement and lock when
`beginClose` ran. 

### FanOut and StatisticsCall

`StatisticsCall` is what the collector is promised: a call asks for types, some are
answered, it returns exactly those, or fails if it asked for some and none was answered.
`FanOut` is how `GetStatistics` and `GetStatisticsV5` do it; it extends `ClusterClient`, and
the goroutine of type `t` is caller `t` of the gate: `Start` (errgroup has a free slot),
`Enter` or `Refused` (at the gate), `InDo` (the gate's own steps, with the answer's
usability), `Leave`, `Merge` (under the call's mutex), `Count` (the atomic success counter,
after the unlock), and `Return` (after `g.Wait`). Other callers use the client beside the
call and closers may close it in the middle. `Promise == INSTANCE StatisticsCall WITH
answered <- usable` is the refinement: `answered` is known when the gateway has answered,
not when the answer is merged. `Collector` uses the promise as one step.

### TokenStore

A worker queues for the mutex (`Call`), decides under it (`Decide`: log in, refresh, or
return the stored token), and, if it exchanges, receives the answer (`ReceiveGrant`,
`ReceiveFallback`, `ReceiveError`). The mutex is held through the exchange, so nothing but
time and the gateway moves meanwhile. The gateway (external) dates a token when it issues
it; `reply` travels up to `Latency`; the store dates the expiry when the reply arrives; the
token reaches the gateway up to `UseDelay` after `ensureValidToken` returned it. An HTTP
error, an answer without a token, and a broken exchange are told apart because the code
does. `GatewayForgets` voids all tokens issued so far.

`Latency + UseDelay < Margin` is an assumption. The margin is 30 s and so is the HTTP
client's timeout, so it holds for answers that arrive in good time, and not for a login or
refresh answered in the last instant before that timeout. Requests that the HTTP library
repeats, up to three times after any transport error or a 429, are outside it too.

### Collector

`StartCycle` is the head of `collectAll`; `StartCluster` is errgroup running a goroutine;
`Instances`, `CollectGen2`, `CollectGen1`, `CallFails` are the calls of `collectCluster`
with what it does on their return; `Publish` is the rest of `collectAll`, `BuildSnapshot`
and `Store`. A call is one action: goroutines of a cycle share only the prior snapshot,
which is immutable, and the cycle counter, which moves after they all returned. A
statistics call returns any non-empty set of answered types (`StatisticsReturn`), or fails;
a gateway may stop answering before or in the middle of a call (`Hang`), and the context
then ends it, with what was answered so far.

A `Sample` stands for all samples of one object type and kind (statistics, state metrics,
inventory counts) from one path; its age in cycles is history. `cycle` is the code's counter
modulo `slowResourceEveryN`, which is all the code looks at; the counter's overflow after
2^63 cycles is left out. Time is counted in ticks of 5 s (`Grace` = 1 tick is the 5 s that
`startCollection` adds) and passes only while all running goroutines wait for hung
gateways: a gateway that answers does so well within a tick. `CollectOnce` and `Run` differ
in `mode` and, with it, in the deadline of `Expired`. The cancelled context does not stop a
cycle that has begun, and one more may begin, since `select` chooses at random.

### Server

The disk (`file`) is what loading it would give: `WriteFile` edits `config.yaml` and raises
an event if the watcher is there; `RotateSecret` changes a password file, which raises none.
Three goroutines: `Main` (start, then shutdown), `SigHup` and `Watcher` (reloads). A pool is
what one `startCollection` makes: the clients and the collector with its loop; `current` is
the pool that `s.clients`, `s.collector` and `s.collectCancel` belong to (they are always
assigned together, under `s.mu`). A reload is `BeginReload` (receive the trigger, read and
validate the file), `Swap` (under `SafeConfig`'s lock), then, if the clusters changed,
`StopCollection`, `CancelLoop`, `CloseClients`, `BuildPool` (from the configuration of that
moment, as the code calls `s.cfg.Get()` again), `FirstCycle`, `AssignFields`. Shutdown shares
the first three. Receiving and reading are one action, because an edit between the two only
repeats the event. The loops of all pools, cancelled ones included, tick and publish on their
own. A file that is half written is `Invalid`. `overlapped` remembers whether a reload ever
ran beside another one or beside the shutdown, `heard` whether a trigger (a file event or a
SIGHUP) came since the last edit: the watcher is set up after the first cycle, so an earlier
edit raises none, and neither does a rotated password.

The `--once` mode and the HTTP server's goroutine are left out.

### Configuration and ConfiguredServer

`Configuration` has the pure functions of loading: `ExpandEnv` and `ExpandEnvSecret` (a text
is a sequence of literals and references), `ResolvePassword`, `ResolveBool`,
`SetDefaults`, `Validate`, and `Load`, which is what start-up and every reload do with them.
A duration or a number is given by whether it is written and what it parses to.
`ConfiguredServer` extends `Server` with it: `Inputs` are documents with password files, and
the server's configurations must be `LoadedConfigs`, the results of those that load; the
rest is what `Invalid` stands for. Two configurations have the same `clusters` exactly if
the resolved cluster lists are equal, as `reflect.DeepEqual` compares them in the code: a
rotated password is another cluster list.

### Series

The pure functions between an instance list with statistics and a cluster's samples:
`ParentIDs`, `FirstParent` and the label builders, `DetectGeneration`, parsing of Gen1 and
v5 statistics, `DeriveSamples`, `DeriveSamplesV5`, severities and `DeriveStateSamples`,
`InventorySamples`, `BuildSamples`, `ReusePrior`. A metric's name is a pair of type and
field, labels are sequences of pairs (their order decides what a scrape does), values are
fractions. The tables of fields are the code's. `Merge` joins the Gen1 responses, one per
type, by type and object.

### Enrichment

`Refresh` with its two concurrent Lists (`RefreshBegin`, `ListVolumes`, `ListNodes`,
`ListFails`, `RefreshEnd`), the lookup maps built from what they return, and the reads
`EnricherVolumeLabels` and `EnricherSDCLabels`, one lock each. Kubernetes (external) moves
through a given sequence of states, and its API fails a bounded number of times; a failed
List cancels the other one.

### Exposition

Extends `Enrichment` and `Series`. The calls of one cluster's cycle are one action, `Fetch`,
which chooses one of the answers its gateway may give (their timing is `Collector`'s
business); the labels of each volume and SDC are then read one at a time (`ReadLabels`)
beside the refresh; `Publish` swaps the snapshot. `EnsureLoad` and `EnsureRegister` are
`EnsureInstruments`, called by `Start` and by the reloads of two goroutines: the snapshot is
loaded before the lock is taken. A scrape and a push are functions of the published
snapshot, so they are properties (`ScrapeIsFaithful`, `PathsAgree`), not steps.

`GatewayAssumption` says what a gateway's answer is, and nothing about its values: one
System, objects of one type with different ids, statistics of an object that are a map by
name (a JSON object), no scalar statistic with the name of a derived metric (the names are
those that `querySelectedStatistics.json` asks for, and none is), and Gen2 resources that
have a metric at most once. A gateway may answer in any number of ways, with objects whose
parents are missing, statistics without objects and objects without statistics.

`ExpositionAssumption` leaves out one configuration that validation accepts: every v5 type
slow, with which a skipping cycle asks for nothing and cannot notice a failing v5 API.
`Collector` has it (`NoCall`).

## 4. The runs

| Run | Bounds | Shows |
|---|---|---|
| `gate` | fan-out of 3 types, 2 at once, skipping none, one or all; 1 other caller, 2 closers, fair | types of gate and fan-out, `NoLostWakeup`, `NoDoubleCloseOfChannel`, `OneCloseWins`, `DrainsWithoutLateSignal`, `GateStaysShut`, `CloseReturns`, `NoStragglers`, `CallReturns`, `ImplementsStatisticsCall` (refinement) |
| `gate_drain` | 2 callers, 1 closer | **violated**: `CloseDrains` |
| `token` | 2 workers, lifetimes 5 and 8, margin 3, time up to 10, one loss of tokens, fair | type, `SentTokenAccepted`, `OutageAfterForgetBounded`, `NoDoubleLogin`, `LoginHealsRefresh`, `EveryCallReturns` |
| `collector` | 2 clusters, 1 at a time: one with 3 types, 2 of them slow, every 3rd cycle full, and one that only fails or hangs; fair | type, `UpIsHonest`, `StatAgeBounded`, `StateIsFresh`, `OneSamplePerSeries`, `LoopIsolation`, `CyclesEnd`, `LoopStops` |
| `collector_startup` | 3 clusters, 1 at a time | **violated**: `Isolation` |
| `collector_gap` | the first of these clusters | **violated**: `SeriesContinuous` |
| `collector_slow_system` | the same, `System` slow | **violated**: `OneSamplePerSeries` |
| `server` | 10 inputs, of which 3 load (2 cluster lists) and 7 are rejected, the plain one first; 2 edits or rotations, 1 SIGHUP, 3 pools, fair | type, `PoolHasOneOwner`, `SerialReloadsLeakNothing`, `ConfigTakesEffect`, `PoolsUsable`, `StoreFollowsConfig` |
| `server_leak` | the same | **violated**: `LoopsStoppable` |
| `exposition` | 2 clusters, one per generation; the Gen2 one answers fully, by fallback with changes, a missing state and a failed query, or not; every 2nd cycle full, `Volume` slow; 2 states of Kubernetes, 1 failure of its API; 2 reloads, fair | type, `ScrapeIsFaithful`, `HealthHonest`, `OneIdentityPerObject`, `LabelsWereTrue`, `OneInstrumentPerName`, `EnrichmentConverges` |
| `paths_agree` | the same | **violated**: `PathsAgree` |
| `lost_signal` | the same | **violated**: `LostSignalSurfaces` |

Why the bounds are enough. Two callers suffice to stand between decrement and lock at once,
three to have a request in flight besides; of the three types of the `gate` run two are under
way while one waits for a slot, and the other caller makes four. In `TokenStore` time 10
covers a login, a refresh in the margin, the expiry of both tokens (8), and a second login.
Its initial states choose between two fault patterns: a gateway that fails in every way, and
one whose logins work, which is the case `LoginHealsRefresh` is about.
In `collector` one cluster is unrestricted, with one type that only Gen2 has, one of both,
and System; a round of three is one full and two skipping cycles, and TLC explores every
sequence of them. The other cluster (`Silent`) never gets an answer: clusters share no
samples, and what one does to another is to keep its slot, by hanging or failing, whichever
call it is in. With one slot each queues behind the other. No run bounds the number of
cycles. In `exposition` two cycles are a round, one state of Kubernetes follows another
while a cycle reads, and the answers contain each kind of object, so that TLC sees every
sequence of full, skipping, partial, failed and fallback cycles beside every refresh;
Kubernetes or OTLP is on, not both, since no variable of one is read by the other. In
`server` two edits and one signal suffice for two reloads of different files at once; serial
reloads never need more than the three pools (`MaxPools` stops only overlapping ones). The
bounds in guards are `MaxTime` and `MaxEpoch` of `TokenStore`, `MaxEdits`, `MaxSignals`
and `MaxPools` of `Server`, and `MaxFailures` of `Enrichment`.

Deadlock is checked in the token run, where a worker can always finish or start over. It is
off in the other modules: a closed client with idle callers, a stopped loop and an ended
process are the ends they are meant to have.

### Fairness

* Gate: a request ends, because each carries the context of a cycle, which has a deadline;
  a ready goroutine runs. Nothing forces a request, a `Close`, or the 30 s timer, so
  `CloseReturns` does not lean on it.
* Fan-out: errgroup starts a goroutine when a slot is free, goroutines run, requests end.
  Nothing forces a call to begin.
* Tokens: an exchange ends, because the HTTP client gives up after its timeout; a
  goroutine that waits for the mutex gets it (Go hands it over after 1 ms of starvation),
  which is strong fairness of `Decide`.
* Collector: the ticker fires, goroutines run, contexts expire as time passes. Strong
  fairness of `StopLoop`: `select` picks uniformly among ready cases.
* Server: goroutines run, handlers receive what is pending, cycles end (which `Collector`
  shows), tickers fire; strong fairness of `LoopExit` for the reason above. Edits, signals
  and the shutdown are not forced. One fairness condition per goroutine is enough, because
  at most one of its steps is enabled at a time.
* Exposition: the refresh loop goes on, and cycles are published again and again
  (`CyclesGoOn`), which `Collector` shows as `CyclesEnd`. Kubernetes need not change.

### What the violations say

1. `Close` may report the client drained while a request is in flight: a `requestDone` whose
   decrement to zero came before that request was admitted can take the lock after
   `beginClose`. `DrainsWithoutLateSignal` is what does hold.
2. With `maxConcurrentClusters`, the first cycle's single deadline
   (`collection.timeout` + 5 s) marks healthy clusters down when those before them hang. The
   loop's cycles do not have the problem (`LoopIsolation`).
3. A slow type whose query fails in the full cycle stays without statistics until the next
   full one, though the documentation promises a continuous series.
4. `System` is an accepted slow type, and its inventory counts are then reused next to the
   fresh ones of the same cycle.
5. Two reloads, one by SIGHUP and one by the watcher, may overlap, since `s.mu` is released
   between taking the old pool and assigning the new one. The later assignment overwrites
   the other's cancel function, and a loop is left that nothing can stop.
   `SerialReloadsLeakNothing` shows that the overlap is the only cause.
6. Instruments are created at start-up and when a reload rebuilds the collection, for the
   names of that moment. A metric that first appears later, for example after the first
   cycle failed, is scraped and never pushed, though the documentation says the two paths
   always agree.
7. `docs/metrics.md:151`, the comment at the head of `state.go` and a test of `severityOf`
   say that a missing state maps to 2, so that a lost signal is surfaced. `emitState` skips a
   missing state before `severityOf` is asked, so an object that reports none is healthy: an
   SDC that was `Decoupled` and then stops reporting turns from 2 to 0. The comment at
   `state.go:145` and `docs/metrics.md:143` describe it the way the code does it. `HealthHonest`
   is what both sides agree on: it says nothing of the value for an object without a state.

### Where a document and the code differ, without a run

* `docs/metrics.md:47` says that with enrichment on, the Kubernetes labels are on every
  `pflex_volume_*` and `pflex_sdc_*` series. The code adds them to statistics only
  (`appendEnrichment` is called from the two sample builders); `pflex_sdc_health`,
  `pflex_sdc_info` and `pflex_volume_mapped_sdc` never have them. `HealthHonest` asks for the
  identity and the parents (`docs/metrics.md:143`) and allows further labels.
* `docs/getting-started/configuration.md:225` says that a password reference with an empty
  default, `:-`, silently gives an empty password. `ExpandEnvSecret` and the check for empty
  credentials now refuse it.
* The comment at `main.go:337` says that `Shutdown` stops the collection loop. It does not
  stop one that a reload under way starts after `Shutdown` has passed `stopCollection`; that
  loop ends with the process.

## 5. The proofs

All for arbitrary values of the constants under the named assumptions of the modules.

* `ClusterClientProofs` (assumes finitely many callers). `GateInv`: the counter equals the
  number of callers in flight (`CounterExact`, by the cardinality lemmas of the library);
  the field and the channel agree (`ChannelShape`); an open channel has a caller in flight
  or at the lock (`SignalOwed`); closers and the closed flag agree (`CloserShape`). The
  counter is needed because `BeginClose` and `Decrement` decide on it and the properties
  speak of callers. Proved: `TypeOK`, `NoLostWakeup`, `NoDoubleCloseOfChannel`,
  `OneCloseWins`, `DrainsWithoutLateSignal`, and the action property `GateStaysShut`.
* `FanOutProofs` (assumes that types are callers, and a positive limit). Every step of the
  fan-out is a step of the gate or leaves it alone (`GateUnderFanOut`), so the gate's
  theorems hold under it. `FanInv`: without a call nothing runs (`CallShape`); a goroutine
  is at the gate only between `Enter` and `Leave` (`InGate`); how far it got
  shows in what is known of its type (`Stage`); the counter is the number of merged types
  that were counted (`CountExact`), needed because `Return` decides on the counter and
  returns the aggregate; slots are bounded (`SlotsHeld`). Proved: `FanTypeOK`,
  `NoStragglers`, and the refinement `ImplementsStatisticsCall`.
* `TokenStoreProofs` (assumes `Latency + UseDelay < Margin <= AccessTTL`). `TokenInv`: the
  mutex is held by exactly the worker in an exchange (`MutexHeld`); the stored expiry is
  late by at most `Latency` (`StoreDated`); who exchanges had a reason that still holds
  (`ExchangeJustified`); a token handed out has `Margin - Latency` left (`HandedDated`).
  `LoginHealsRefresh` needs `RepliesPossible` besides: an answer on its way is one that the
  gateway's fault pattern allows, so a login is refused only where logins may fail.
  Proved: `TypeOK`, `SentTokenAccepted`, `OutageAfterForgetBounded`, `LoginHealsRefresh`, and
  the action property `NoDoubleLogin`.
* `CollectorProofs` (assumes the shape of the configuration only). `LoopInv`: between cycles
  nothing runs, and during one the prior snapshot is the stored one (`LoopShape`); how far a
  goroutine got shows in its result (`ResultShape`); what is stored is honest
  (`StoreShape`); ages are bounded by the position in the round (`AgeInv`), without which
  `StatAgeBounded` is not inductive; state samples are new (`FreshInv`). `DistinctInv`: the
  samples of a cluster differ in type or kind, which reuse keeps because what it takes is of
  the types that were skipped. `IsolationInv`: in the loop, no time has passed since the
  timeout of a cluster began whose gateway still answers, however long the cluster queued,
  so its context cannot be what ends it (`AnsweringInTime`). Proved: `TypeOK`, `UpIsHonest`,
  `StatAgeBounded`, `StateIsFresh`, `LoopIsolation` and, if `System` is not a slow type,
  `OneSamplePerSeries`.
* `ServerProofs` (assumes that the three goroutines are different and an invalid
  configuration is none of the valid ones). `ServerInv`: a goroutine holds a pool exactly
  between taking or building it and letting it go (`HoldersHold`); what it is doing tells
  whether the pool is cancelled (`HolderStage`); what is about to be swapped in is valid
  (`SwapsValid`). Without these `PoolHasOneOwner` is not inductive: `AssignFields` needs that
  the pool it assigns is not cancelled, `CloseClients` that its pool is. `SerialInv`: without
  overlap one goroutine at a time is busy, and the fields are empty from the moment a
  rebuild took the old pool, so that `AssignFields` overwrites nothing. Proved: `TypeOK`,
  `PoolHasOneOwner` (whatever overlaps), `SerialReloadsLeakNothing`.
  The second half of the module is about what is in force. `HeardInv`: without overlap, a
  trigger that came after the last edit still waits, or the files as they stand are in force
  or about to be swapped in. `PoolInv`: what is being built, and unless somebody is
  rebuilding what runs, is of the clusters in force; it needs `SerialInv`, since a second
  swap between build and assignment would leave a pool of other clusters. Proved:
  `ConfigTakesEffect`.
* `ConfiguredServerProofs` (assumes that a document has a list of clusters, and that the
  server's configurations are those that load). Pools are built of the clusters of loaded
  configurations (`TypeOK` of the server); what is left is that whatever `Load` accepts is
  pollable: resolving and defaults keep the list (`ListKept`), a password comes from the
  document, the environment or a password file (`PasswordSource`), and names that differ
  pairwise are as many as the list is long (`NamesCounted`). Proved: `PoolsUsable`.
* `ExpositionProofs` (assumes `GatewayAssumption`, some state of Kubernetes, and a v5 type
  that is not slow). `ExpositionInv` is type correctness with what it needs of the refresh
  under way and of the instruments; it holds that every name has one instrument, because a
  name is added only when it is missing at the time of the lock (`OtlpInv`), and that both
  maps come from one past moment (`MapsFromPast`, `RefreshFromPast`). `TruthInv`: so do the
  labels a goroutine has read and those of every sample collected or published; it rests on
  lemmas about what each label builder puts into a label list, so that a workload label can
  be read off a sample (`StatLabelled`, `VolumeTrue`). `IdentityInv`: the statistics of an
  object agree on its labels; reused and fresh ones never meet, since they are of different
  types (`CollectedCoherent`). Proved: `TypeOK`, `OneInstrumentPerName`, `LabelsWereTrue`,
  `OneIdentityPerObject`.
* `ScrapeProofs` (on top of it). `ExportInv` adds three parts. `HealthInv`: the health
  gauges of a snapshot are those computed of the fetched instance list, which needs that no
  statistic, inventory count or reused sample is named like one (`StatNamed`). `ReadsInv`:
  what was read of Kubernetes has the label names of its type, whether the object is mapped
  or not. `ShapeInv`: every sample has the label names that its metric's name determines
  (`NameList`), for both generations, by a lemma for each label builder (`OwnKeyed`), each
  kind of state sample and each kind of statistic. `OneInv`: no two samples of one cluster
  have one name and the same labels; it rests on uniqueness of statistics (`Gen1Unique`,
  `Gen2Unique`: a name and labels determine the statistic), and needs that `System` is not
  slow. A health gauge is told from another object's
  by the identifying label, which no other object's labels include (`LabelsTellApart`).
  Proved: `HealthHonest` and, if `System` is not slow, `ScrapeIsFaithful`: equal label
  values and equal names give equal labels, the first of which names the cluster.

The hypothesis that `System` is not among the slow types (`SeriesUnique`, `FaithfulScrape`)
is not a weakening for the proof's sake: the run `collector_slow_system` has the
counterexample.

Each step lemma treats one action and one part of the invariant it can disturb. TLC
finds the invariants to hold on the instances of the runs. Where a property is about what the
functions of `Series` compute, the lemmas are about those functions, stated for every
object and every statistic; `Merge` and `ParseV5` are defined by comprehension, without recursion,
so that they can be reasoned about.

Only model-checked: liveness (`CloseReturns`, `CallReturns`, `EveryCallReturns`, `CyclesEnd`,
`LoopStops`, `StoreFollowsConfig`, `EnrichmentConverges`), which is out of the prover's
reach, as are fairness and `ENABLED`. The properties of the violation runs are refuted.

## 6. What is not modelled

Not yet: the `--once` mode, the HTTP server's goroutine with its error channel, and the
requests repeated after a transport error or a 429, which appear only as a call that takes
long (see the plan).

Not at all, because nothing in them is decided over time or by state: HTTP, TLS and the
decoding of JSON and YAML; the health endpoint; reading `.env` and the variables of the
process; the text of names, prefixes and help strings; building the query documents; the
set-up of telemetry, tracing and logging; build information; dashboards, charts and scripts.
The gauges about the exporter itself (`pflex_up` and the like) are in `Collector` as `up` and
not in `Exposition`. Arithmetic is exact; floating-point rounding is left out.

An action or operator that a property's mutant puts in another's place is defined in the
same module under a name that begins with `Mut`; no specification uses these.
