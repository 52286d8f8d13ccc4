# Formal models of exporter-plus

exporter-plus is one Go process that serves the metrics of seven kinds of
service to Prometheus, each on a path of its own. This directory holds TLA+
models of the parts of it that are concurrent and stateful, TLC runs over small
instances of them, and proofs that TLAPS checks for instances of every size.

```
tlc -workers 2 -config PgMaps.cfg MCPgExporter     # a run (see the table of runs)
tlapm PgExporterProofs.tla                         # the proofs, some two minutes
tlapm PgMapStoreRefinement.tla                     # that the exporter implements the store
tlapm MongoServiceProofs.tla                       # and so on: every *Proofs module
```

## Inventory

Every request goes through `promhttp` to `Registry.Gather`, which calls `Collect`
of the registered collectors in goroutines. Nothing serialises requests: two of
them that overlap run `Collect` of the same object twice at a time. This is the
source of nearly everything that is hard here. A panic in such a goroutine ends
the process, and a duplicated metric fails the whole scrape with status 500.

| Component | State | Operations | What is hard | What makes it correct |
|---|---|---|---|---|
| Start-up, routing (`exporter-plus.go`, `handlers`) | the switches and flags; the default mux; requests in flight | `main`, the `init*` functions, the `New*Handler` functions, the handlers | `Fatal` paths and panics that end all exporters, at the start and in the middle of requests | a process that listens serves every enabled exporter; it answers unless it ends; no page is served in part |
| PostgreSQL (`collector/postgres`) | `Servers.servers` under `Servers.m`; per `Server` the database, `lastMapVersion`, `metricMap`, `queryOverrides` under `mappingMtx`; the gauges of the last scrape | `Collect`, `scrape`, `scrapeDSN`, `GetServer`, `Ping`, `checkMapVersions`, `addQueries`, `Server.Scrape` | overlapping scrapes, eviction of a server in use, maps rebuilt under readers, two connections per server, lost connections | readers see whole maps that stand still; the registry holds open servers only; no connection leaks; every scrape ends; the gauges tell the truth |
| Kafka (`collector/kafka`) | `nextMetadataRefresh`; the sarama client with its brokers and connections; a map of offsets per `Collect` | `Collect`: a goroutine per topic, then one per broker | goroutines over one map, connections shared by overlapping Collects, retries, offsets read at two moments, groups that move | no map is written while it is ranged over; no connection is left; the lag is of this scrape; each group once |
| MongoDB, Collect (`mongodb_collector.go` and a file per part) | package-level metric vectors | `Collect`, the `collect*` functions and `Export` methods | vectors shared by overlapping Collects, three disciplines of `Reset` | a Collect sends what MongoDB has answered to it, nothing else, nothing twice |
| MongoDB, oplog (`oplog_status.go`, `oplog_tail.go`, vendored `gtm`) | gauges of the package; `tailer`; position and workers of a tailer | `GetOplogStatus`, `GetOplogTailStats`, `Start`, `TailOps`, `FetchDocuments` | the oplog moves between two readings, cursors die, `tailer` is not synchronised | the window is one of now; a tailer skips nothing and counts nothing twice |
| MongoDB, server status (`server_status.go` and a file per section) | gauges of the package, never reset | `GetServerStatus`, `Export` of each section | documents a server leaves out: old numbers, or a nil pointer | a section is of this reply or is not sent; a reply that lacks nothing is exported |
| MySQL, Redis, Elasticsearch, node (`handlers`) | flags, read once | a wrapper of a vendored collector each | start-up errors, a nil URL | as start-up |

`PROJECT.json` lists the components, also the ones that are left out, and under
"hazards" what in this code is hard to test, each at its line and with the
properties that watch it.

### What is left out, and why

* The metrics of Kafka and MongoDB: names, labels, values, conversions, but for the ends
  of the oplog. Those of PostgreSQL are in `PgServerScrape`. Logging everywhere.
* What the vendored collectors of MySQL, Redis, Elasticsearch and the node do in a
  Collect: it has an outcome (all metrics, some, none, a panic) and no more.
* `ParseMycnf` and `customizeTLS` of the MySQL handler, which nothing calls.
* Of the server status, the numbers themselves (a number is known by whose reply it is
  from), and how Collects mix inside one section. Of the oplog, its count and size, which
  take the way of its ends.
* Kafka's lag from ZooKeeper, and sums and replica metrics.
* The implementation of the Prometheus registry, `database/sql`, `sync.RWMutex`
  and the Kafka protocol: they appear with the behaviour the code relies on.

## Modules

| Module | What it is |
|---|---|
| `PgExporter` | the PostgreSQL exporter: concurrent scrapes, the registry, the maps, the connections, PostgreSQL and the user queries file |
| `PgMapStore` | the abstract specification of a Server's query maps: whole, withdrawn for a rebuild, stable while used |
| `PgScrapeHistory` | `PgExporter` with history variables, for what is promised to the reader of one scrape |
| `PgServerScrape` | what one scrape of one server computes: maps, overrides, user queries, settings, rows |
| `PgExporterProofs` | theorems on `PgExporter` and `PgScrapeHistory`, and the inductive invariants |
| `PgMapStoreRefinement` | the proof that `PgExporter` implements `PgMapStore`, and what that gives it |
| `PgServerScrapeProofs` | theorems on `PgServerScrape` |
| `KafkaExporter` | the two phases of the Kafka `Collect`, the sarama client, the cluster |
| `KafkaCollectHistory` | with history variables: what a Collect has sent, and since when it has been undisturbed |
| `KafkaExporterProofs` | theorems on `KafkaExporter` and `KafkaCollectHistory` |
| `MongoCollector` | the MongoDB `Collect` over the shared vectors |
| `MongoCollectHistory` | with history variables: what MongoDB has answered to a Collect |
| `MongoCollectorProofs` | theorems on `MongoCollector` and `MongoCollectHistory` |
| `MongoOplog` | the two ends of the oplog, and its tailers |
| `MongoOplogProofs` | theorems on `MongoOplog` |
| `MongoServerStatus` | what becomes of a reply to `serverStatus` |
| `MongoServerStatusProofs` | theorems on `MongoServerStatus` |
| `ExporterPlus` | the process: start-up, routes, requests and how they end |
| `MongoService` | `ExporterPlus` composed with `MongoServerStatus` |
| `MongoServiceProofs` | theorems on `ExporterPlus`, that the composition implements it and `MongoServerStatus`, and what follows |
| `MC*` | instances for TLC: model values, symmetry |

### PgExporter

A scrape is a process; `pc` says where it is, `idx` which data source it is at,
`hnd` which Server it holds, `ver` the version it has read, `done` and `nsErr`
what `queryNamespaceMappings` knows. Steps end where another goroutine can
interfere: at a lock, at a query (one step to get a connection, one for its
result), between two writes to a gauge, and between two writes to the maps of a
Server. `Servers.m` is `mutex`; `mappingMtx` is the `readers` and the `writer` of
a Server object, with the rules of `sync.RWMutex`: a writer announces itself
(`WLock`), waits for the readers there are (`WAcquire`), holds new ones back
(`RBlock`) and lets them in when it unlocks (`WUnlock`). The pool of `database/sql`
is `conns`; a closed database refuses new queries, and those that run go on.

A map of queries is abstracted to the version it was built for and whether the
user queries were merged into it; what it contains then follows (`Namespaces`,
`Disabled`). `addQueries` merges into the one map and then into the other: two
steps. The comparison of the versions takes no lock: while another scrape is
writing them its result is arbitrary, as the Go memory model has it (a torn
value, which could make the process fail, is beyond the model). Server objects
are identities out of `Handles`; one that nobody refers to becomes available
again, as garbage does. A query ends well, with an error, or is cut.

The environment stops and starts PostgreSQL, possibly with another version, and
writes the user queries file (well-formed, malformed or missing).

`PgMapStore` is implemented under this mapping: the maps of a Server are
withdrawn from the moment the writer has waited for the readers until it
unlocks; they are empty before the first rebuild and after the object has become
garbage; otherwise they are its `metricMap`. Its users are the readers of the lock.

### PgServerScrape

Here the maps are data. `checkMapVersions` is one step (`RebuildMaps`), as `PgExporter`
shows that nobody sees it half done: `MakeDescMap` and `MakeQueryOverrideMap` choose
columns and queries by version ranges, `AddMetrics` and `AddOverrides` merge the user
queries. A file is missing, not YAML, YAML of another shape (an unchecked type assertion
panics and ends the process), has a usage that does not exist, or can be loaded. A
scrape then reads settings (`NormaliseUnit`), and for each namespace rows
(`ReadRow` is the body of the loop over `rows.Next`): each column is dropped, sent or
noted as an error. The builtin tables are an excerpt with a column of each kind, with
the ranges of the code. Values are texts with their Go type; `DbToFloat64` and
`DbToString` say which are numbers and what label they make.

### KafkaExporter

`topic` and `group` are the goroutines of a Collect, one per topic and one per
broker. The sarama client is modelled as far as Collect uses it: `Broker.Open`,
`Broker.Close`, `Client.Leader`, `Client.GetOffset` with its retry, the refresh
of the metadata that forgets all brokers when none answers. One Kafka request is
one step. The environment produces messages, commits offsets, stops and starts
brokers and moves groups.

### MongoCollector

A Collect goes through its parts in the order of the code (`Parts`), those that its
options enable. A part asks MongoDB for its items (`Ask`), which may fail, sets a
series for each (`Fill`) and sends what its vector then holds (`CollectVec`). A vector
is the set of its series and stands for all the vectors of its part. What
differs between the parts is when their code resets the vectors; the table at the head of
the module (`Resets`) has it, read from each `Export`:

* *before* they are filled: the replica set status;
* *after* they are sent, one item of the reply at a time, each asked for by a command
  that may fail: databases, collections, profiles, hosts of the connection pool;
* *never*: the others. Of these the replica set configuration, the top metrics and the
  storage engine have labels that MongoDB chooses, so what once was reported stays.

`mongodb_up` has steps of its own. The tailer is started by the first Collect that finds
none; its counters are in `MongoOplog`. A series that has been created and not yet been set,
and one that is collected and read later, are not told apart from one that was set
at once.

### MongoOplog

An entry of the oplog is its place in the order of writing, and the gauges show its
second (`Second`). A Collect reads the head and then the tail, each with its two tries;
`head` and `tail` are what it got, 0 after an error, and the error of the first is
overwritten as in the code. It sets the gauges only if it has both, and sends them anyhow:
each `Set` and each reading of a gauge that was sent is a step, as the gauges are those of the
package.

A tailer is the goroutine that `OplogTailStats.Start` runs for the life of the process, with
what `gtm` starts for it. It begins at the last entry, or before all if that query
failed, whose error nobody asks for; `TailOps` moves its `position` and gives what
`ParseLogEntry` includes to every worker (`passed`); a worker counts what it was given
(`counted`). A cursor may die (`Break`): when MongoDB answers again the query is made
anew from the same position (`Repair`). Entries that have rolled off by then are gone.

### MongoServerStatus

`Export` goes through the `Sections` of a reply. A section sets its metrics (`Fill`) and
then sends them (`Send`); three of them are made of parts, set if the reply has them and sent
in any case. A reply is the set of its documents; a metric is told apart by the document it
is set from, and its number by whose reply that was: of a Collect in progress, of an `Old`
one, or nobody's. `MetricsNeeds` and its like list the documents that are dereferenced without
a nil check, read from each `Export`: a reply that has the outer one and lacks the inner one
panics (`Breaks`).

### ExporterPlus and MongoService

`config` is what the switches and flags say, as far as the code asks; `stage` is how far
`main` has come. `Refuses` collects what each handler ends the process for: flags that exclude
each other, files that cannot be read, a Kafka that does not answer (a panic), a PostgreSQL
whose scrape at the registration panics. Then requests come (`Request`), are answered with the
status that `promhttp` gives to the outcome of the Collect (`Gathered`, `Code`), or end the process
(`Panic`): a Collect runs in a goroutine of the registry, where `net/http` does not recover.

`MongoService` composes the two: a request to `/mongodb` exports a reply step by step before it
is answered, and whether it panics is no choice any more. It implements `ExporterPlus`, and
seen from MongoDB it implements `MongoServerStatus`; the theorems of both carry over.

## Runs

`PASS` runs explore their whole state space. Deadlock is checked in all of them but
`MongoService`, where the process may really end.

| Run | Properties | Instance | Distinct states |
|---|---|---|---|
| `PgMaps` | `MapsWhole`, `MapsFrozenForReaders`, `ImplementsStore` | 2 scrapes, 2 data sources (1 invalid), 2 versions, user queries, 2 connections | 1.3 million |
| `PgGauges` | `TypeOK`, `RegistrySound`, `ConnsAccounted`, `NoCircularWait`, `GaugesTruthful`, `SoloMapsCurrent` | 2 scrapes, 1 data source, 2 versions and an unparseable one, settings, 1 connection | 0.6 million |
| `PgLive` | `EveryScrapeEnds`, `MapsFollowServer` | 2 scrapes, 1 data source, 2 versions, 1 connection, no symmetry | 0.3 million |
| `PgRows` | `TypeOK`, `MapsAsConfigured`, `ValuesAccounted`, `LabelsOfOwnRow`, `NoDuplicates`, `SettingsNormalised` | versions 9.1, 9.2 and 10, 6 user queries files, 10 settings, results of up to 3 rows | 0.6 million |
| `KafkaCollects` | `TypeOK`, `NothingLeftOpen`, `OffsetsFrozen` | 2 Collects, 2 brokers, 1 partition, 1 group | 3.6 million |
| `KafkaLag` | `LagFresh`, `QuietComplete` | 1 Collect, 2 brokers, offsets to 2 | 0.4 million |
| `MongoCollects` | `TypeOK`, `NothingLeftBehind`, `SoloExact` | 2 Collects, the parts server, replset, conf, tail, database; 2 members, 2 databases, 1 storage engine | 1.0 million |
| `PgCutScrape` | `CutScrapeReportsError` violated | as `PgGauges`, 2 connections | |
| `MongoOplog` | `TypeOK`, `SoloWindow`, `NothingSkipped`, `OncePerWorker`, `TailedOrLost` | 2 Collects, 3 entries through an oplog of 2, 2 in a second, 2 workers, 1 error | 0.2 million |
| `MongoService` | `ServiceTypeOK`, `ServedAsConfigured`, `NoPartialMetrics`, `SoloFresh`, `StaleStaysInSection`, `OnlyBrokenRepliesEnd`, `StartsOrEnds`, `Answered` | 14 configurations, 2 requests to 3 paths, 3 replies | 0.2 million |
| `MongoUp` | `UpTruthful` violated | 2 Collects | |
| `MongoOplogCounts` | `EntriesCountOnce` violated | 1 Collect, 2 workers | |

What they show:

* *Maps.* Whoever holds the read lock of a Server finds `metricMap` and
  `queryOverrides` of one version, with the user queries in both or in neither,
  and neither is written under its eyes. They need not be of the version the scrape
  has read: the lock is released between the rebuild and the
  scrape, and an overlapping scrape that read another version may come between. A scrape that runs alone has the right ones (`SoloMapsCurrent`), and in
  the end the maps are right (`MapsFollowServer`).
* *Registry and connections.* A Server that fails a ping is closed and evicted
  although others hold it; the registry still never holds a closed Server, nor
  one for two data sources, and every connection in use belongs to a query that runs.
* *Waits.* A ping waits for a connection while it holds the registry, a reader of the maps
  for one while it holds the lock, writers and readers for each other. They never do so in a
  circle (`NoCircularWait`), and every scrape ends (`EveryScrapeEnds`).
* *Gauges.* `last_scrape_error` is positive if and only if a step of the scrape
  failed, when the scrape was alone (it is a count, not the flag its help text
  says). A result cut short is not an error (`PgCutScrape`).
* *Rows.* The maps are those the version and the file call for, with nothing left of
  earlier ones. Every value of a row is dropped, sent once or noted as an error, with the
  labels of its own row, and rows that differ in their label columns give no
  duplicates, if the columns have different names and the label columns text (of a type
  that `dbToString` does not know, such as `bool`, it makes none). Three things the model shows beside its properties: a label column
  that the result lacks takes the first column's value (`slot_name` of
  `pg_stat_replication` becomes a process ID), a column that a version does not
  support is discarded but stays a label, and the conversions of the usages `MAPPEDMETRIC` and
  `DURATION` are never called.
* *Kafka.* The unlocked iteration over the offset map is safe, because the topics
  are waited for. Overlapping Collects close each other's connections but leave
  none. The lag is of the time of the Collect; as the committed offset is read after the
  newest one, -1 is also a lag a healthy consumer can have, and not only the mark of no
  commit. A group that moves to another coordinator during a Collect can be sent twice, which
  fails the scrape.
* *MongoDB.* Overlapping Collects leave nothing in a vector that is reset after
  use. A Collect that runs alone sends what it was answered, and apart from that
  only what an earlier answer has left in a vector that is never reset. With overlap
  even `mongodb_up` may be missing or another's (`MongoUp`).
* *Oplog.* A Collect that ran alone reports a window the oplog had while it ran, the head not
  after the tail. A tailer skips nothing, also when its cursor dies, and whatever does not roll
  off first is counted in the end. But it is counted by each of ten workers
  (`MongoOplogCounts`), once more for a second tailer: `gtm.Start` gets no options, and the
  defaults it then takes are not those that `SetDefaults` would make.
* *Server status.* A Collect that ran alone sends all of its reply. Besides that it sends only
  zeros or numbers of an earlier reply for parts its reply lacks in a section it has; a
  section that is not there is not sent. With a reply that lacks a document it takes for
  granted (`metrics.repl.preload` for one, which servers of today no longer send) it ends the
  process, and only with such a reply.
* *Process.* It listens with everything that is enabled or it ends; a request is answered
  unless it ends; a page with status 200 is whole, but for the node exporter's.

Read off the code while modelling, and not the subject of a run: the help texts of the head
and the tail of the oplog are the wrong way round; `uptimeEstimate` is set from `uptime`, the total time of the global lock from
`lockTime`, the cursors `timed_out` from `noTimeout`, and the read tickets of WiredTiger from
`write` and vice versa; two summaries of the durability get one observation per scrape of a
number that is already a total; the counters of the inserts into the oplog are sent and
never set; a lag of the replica set of -1 second cannot be told from no primary.

### Bounds

Two scrapes (Collects) are the least that overlap, and the shared state has no
counter of them: a lock, a gauge or a vector is disturbed by one other actor. For
the maps and the registry the proofs lift this bound. Two Server objects per valid
data source are enough, as a scrape makes a new one only when the registry has
none and only the other scrape can hold an old one. One connection (the code has
two) makes waiting happen with two scrapes; `PgMaps` has the two. `GaugeBound` cuts
the gauges off; it exceeds what two scrapes can add (`PgGauges`) or is zero where
no property reads them. `MaxOffset` bounds a partition: two messages tell stale, fresh
and early apart; `KafkaCollects`, whose properties are not about the values of offsets,
leaves them out of the view of a state (`MCView`). `MaxRows` bounds a result: two rows can collide or differ, the third follows one that failed. `MongoCollects` has a part of each
way to reset; the parts it leaves out take the same steps. `MaxTailers` cuts off the number of tailers.

`MongoOplog` writes three entries through an oplog of two, so that one rolls off; two share a
second, and the middle one is no insert, update, delete or drop. Two workers stand for ten: they share
nothing, and two already count twice. `MaxErrors` lets one cursor die; the proofs lift it. The
two options are switched on in turn, as the parts share nothing but the Collect.
`MongoService` has one fault of each kind at a time in its configurations, since a start ends
at the first; paths to the exporter in detail, to one that can panic at will and to
one that tolerates errors; and the replies of an old standalone server, of a replica set, and of one
without the document newer servers dropped. It has no symmetry, for its liveness.

### Fairness

`FairSpec` is strongly fair to the steps of every scrape that has been started, and to
nothing else: no request need come, PostgreSQL may stop and start for ever. Strong
fairness is what the waits provide: `sync.Mutex` hands over to a goroutine that
has waited for a millisecond, `sync.RWMutex` alternates readers and writers,
`database/sql` queues those that wait for a connection. That a query returns is an
assumption on PostgreSQL and the network: the code sets no timeout, and a server that
never answers a ping blocks the scrapes of all data sources on `Servers.m`.

In `MongoOplog` the goroutines of a tailer run on, and a MongoDB that is asked again and again
answers a ping at last (`waitForConnection` tries for ever); Collects are not fair, and the
oplog need not move. In `MongoService` `main` runs on and the goroutine of a request does:
what it asks is answered or fails at a timeout; no request need come. All of it is weak
fairness, as none of these goroutines waits for another.

## Proofs

All safety properties of the passing runs are theorems: TLC shows them on an instance, TLAPS for
any number of actors and any data. In each module an inductive invariant carries them, with a
lemma per part of it or per group of actions, and one step per action in those.

### PostgreSQL: scrapes

`PgExporterProofs`, for any set of scrapes, data sources, Server objects, versions and
namespaces and any number of connections:

| Theorem | Statement |
|---|---|
| `TypeCorrect` | `Spec => []TypeOK` |
| `RegistryIsSound` | `Spec => []RegistrySound` |
| `MapsAreWhole` | `Spec => []MapsWhole` |
| `MapsAreFrozen` | `Spec => MapsFrozenForReaders` |
| `ConnsAreAccounted` | `Spec => []ConnsAccounted` |
| `WaitsEnd` | `Spec => []NoCircularWait` |
| `SoloMapsAreCurrent` | `HSpec => []SoloMapsCurrent` |
| `GaugesAreTruthful` | `HSpec => []GaugesTruthful`, if `NumDSN <= GaugeBound` |

They rest on one inductive invariant, `IInv`. `MapsWhole` speaks of Servers that are
read and says nothing of a rebuild, so it is not inductive. `IInv` adds

* `HandleInv`: which pcs hold a Server and a version;
* `MutexInv`: `Servers.m` is held exactly in `GetServer`, and the Server that is
  pinged is the registered one, so that the one that is evicted is the one that is closed;
* `LockInv`: who reads and who writes at which pc, and that a writer past its
  wait has no readers: two scrapes never build the maps of one Server;
* `MapsInv`: a Server that is not being rebuilt has whole maps, and a rebuild is
  as far as its pc says.

`TypeStep`, `HandleStep`, `RegistryStep`, `MutexStep`, `LockStep` and `MapsStep` say that every
step preserves its part. `OwnRebuild` and `MapsKept` say that a scrape touches the maps of its own
Server only.

`ConnsInv` adds that a pool is finite, so that one more connection is one more in its
`Cardinality`; an object made anew has no user, as `HandleInv` and the garbage rule have it. With it
and `LockInv`, whoever is waited for is further along (`WaitsGoDown`, by `Level`): the
mutex and the write lock are waited for first, then the readers, then the connections, and who
has a connection waits for none. A least one of any group therefore waits for nobody in it.

`HInv` carries what is said of a scrape on its own. It is the only one in progress (`SoloInv`),
so the maps it is about to read are those of its version; the gauges are its own from when
it has cleared them (`GaugesInv`), and count what it remembers (`ReachedInv`: a data source is
counted once). The assumption of `GaugesAreTruthful` is about the model: with a smaller bound
`pg_up` stops counting before the last data source.

`PgMapStoreRefinement` proves `StoreIsImplemented`, `Spec => ImplementsStore`: every step of the
exporter is a step of the store or leaves it alone. Two facts
are added to `IInv`: an object that nobody refers to has no maps (`GarbageInv`), so that one
that becomes garbage can be discarded; and a rebuild past its first write has maps
(`BuiltInv`), so that what the unlock publishes is a map. The steps fall into those that
touch neither lock nor maps (`QuietSteps`), those of a rebuild, which the store does not
see because the maps are withdrawn (`BuildSteps`), and the four that are steps
of the store: `RLockStep`, `WAcquireStep`, `WUnlockStep`, `LeaveStep`. What the store
promises is proved of its specification and holds of the exporter by the refinement:
`WithdrawnIsUnused` (nobody uses maps that are being rebuilt) and `UsedIsStable` (maps in
use do not change).

### PostgreSQL: what one scrape computes

`PgServerScrapeProofs`, for any versions, files, results, rows and settings: `TypeCorrect`,
`Configured` (`MapsAsConfigured`), `Accounted` (`ValuesAccounted`), `OwnLabels`
(`LabelsOfOwnRow`), `AllDistinct` (`NoDuplicates`), `Normalised` (`SettingsNormalised`). The
invariant says where everything there is comes from:

* `MapInv`: both maps are those of one version and of one reading of the file (`MapFor`,
  `OverridesFor`), which is what "nothing of an earlier one is left" comes to. `Configured` is then
  about the functions that build them: `DescMapFacts`, `LoadableFacts`, and `OneOverride`, that of
  the ranges of a namespace exactly one has the version;
* `RowsInv`: what is sent is the `Sample` of a row and a column that counts and is a number,
  all of those are, and the errors are the others that count;
* `SettingsInv`: what is sent of a setting is what `pgSetting.metric` makes of it.

The properties say by themselves when they hold: of columns of one name the last is
meant (`LastColumn`), and a value of a type without text makes no label (`Text`). The builtin
tables are the excerpt of the model, and the theorems about them hold of that.

### Kafka

`KafkaExporterProofs`, for any number of Collects, brokers, topics, partitions and groups:
`TypeCorrect`, `ClosesAll` (`NothingLeftOpen`), `Frozen` (`OffsetsFrozen`), `Fresh` (`LagFresh`) and
`Complete` (`QuietComplete`).

* `PhaseInv` ties the goroutines to the Collect that waits for them: no topic runs when a
  broker does, which is all that protects the map of offsets;
* `OpenInv`: a connection that is open has somebody who will close it, a goroutine of its
  broker or a Collect that has yet to start one. It need not be the one that opened it;
* `FreshInv`: an offset that was read lies between the end of the partition at the start of the
  Collect and the end now, which only moves up;
* `QuietInv`: as long as nothing disturbs a Collect, each partition it is past has an offset, and
  each group of the brokers it is past has been told of, by its coordinator and with its
  members (`TopicsRead`, `GroupsTold`); it began with nothing told (`ReportsInv`).

### MongoDB

`MongoCollectorProofs` proves `TypeCorrect` and `Clean` (`NothingLeftBehind`): a vector that is
reset after use holds something only while some Collect is about to reset it (`ResetAhead`).
`SoloIsExact` (`SoloExact`) is about a Collect on its own: what it has sent is of the
parts before the one it is at, and of this one of the items it is through with
(`InOrder`), so nothing is sent twice; and what it was answered has been sent, or is in the
vector or about to be (`Owing`). What it sends besides is of the parts that are never reset.

`MongoOplogProofs` proves `TypeCorrect`, `WindowIsOfNow` (`SoloWindow`) and `TailersSkipNothing`
(`NothingSkipped`), for any oplog and number of workers. What a lone Collect has read lies
between the oplog of its start and that of now (`Window`), and the gauges have it from when
it sets them until it has sent them (`Sending`); `Second` is monotone, which orders the ends.
`CountedOncePerWorker` (`OncePerWorker`), for finitely many workers: the counter of an entry is
the number of workers, each of its tailer, that have come to it (`CountInv`), and a tailer
gives them each entry once, as it passes them on in their order (`InOrder`).

`MongoServerStatusProofs` proves, for any number of Collects and any replies, `Fresh`
(`SoloFresh`), `StaleInSection` (`StaleStaysInSection`) and `Unbroken`. `SoloFresh` speaks of
the end of an export; the invariant has what holds on the way: of two Collects that export
neither is alone (`SoloAlone`), what a lone one has set is its own until it is sent
(`OwnGauges`), and the sections behind it have been sent (`SentSoFar`). `Unbroken` needs that no
section behind it panicked (`UnbrokenSoFar`).

### The process

`MongoServiceProofs` proves of `ExporterPlus` `TypeCorrect`, `Served` (`ServedAsConfigured`) and
`Whole` (`NoPartialMetrics`) for any configurations, paths and number of requests. The invariant
says at every stage which routes there are and that the services behind them could start
(`StartInv`), and of each request that it found its path there (`RequestInv`).

It then proves the two refinements, `ImplementsProcess` and `ImplementsExport`. From
them and the theorems above follow `ServiceServed`, `ServiceFresh`, `ServiceStale` and
`ServiceTypeCorrect`; `EndsByBroken` (`OnlyBrokenRepliesEnd`) adds an invariant that ties the
requests of the one to the Collects of the other (`ServiceInv`).

### What they assume, and what is left to TLC

Each theorem rests on the assumption of its module about its constants, which TLC evaluates
in the runs (`ConstantsAssumption`, `ExporterAssumption`, `ServerStatusAssumption`,
`ServiceAssumption`, `OplogAssumption`, `KafkaAssumption`, `MongoAssumption`): bounds are
positive, tables are about the things there are, `None` is none of the values. Two theorems say
more, and it is in their statements: `GaugesAreTruthful` and `CountedOncePerWorker`.

Checked by TLC only: liveness (`EveryScrapeEnds`, `MapsFollowServer`, `TailedOrLost`,
`StartsOrEnds`, `Answered`), which the proof system does not reach. The safe half of
`EveryScrapeEnds`, that scrapes do not wait in a circle, is `WaitsEnd`; what TLC adds is that
none of them starves.

## Plan

Done: the PostgreSQL core with its abstract specification, its theorems and the data of a scrape;
the Kafka and the MongoDB collectors; the oplog with its tailers; the server status; the
process, composed with the server status.

Left, in this order:

1. PostgreSQL: the names of metrics as they are joined, the labels of several data sources
   of one host (`parseFingerprint`), the type and unit of what `MAPPEDMETRIC` and
   `DURATION` promise;
2. Kafka: the lag from ZooKeeper, sums over partitions, leader changes;
3. the composition of the process with PostgreSQL, whose registration scrapes, and with Kafka;
4. proofs of what these add.
