----------------------------- MODULE PgExporter -----------------------------
(***************************************************************************)
(* The PostgreSQL exporter (collector/postgres/collector.go): one Exporter *)
(* object is shared by every HTTP request for its path, so Collect runs    *)
(* concurrently with itself.  A scrape visits the data sources in order;   *)
(* for each it takes the cached Server out of the registry (GetServer),    *)
(* asks PostgreSQL for its version, rebuilds the query maps of the Server  *)
(* when the version is not the one they were built for (checkMapVersions), *)
(* and runs the settings query and one query per namespace under the read  *)
(* lock (Server.Scrape).                                                   *)
(*                                                                         *)
(* What is concurrent here: the scrapes with each other and with the       *)
(* PostgreSQL servers, which go down, come back and change version, and    *)
(* with the editor of the user queries file.                               *)
(*                                                                         *)
(* What is abstracted: a metric is not represented, a query is its         *)
(* outcome, a map of queries is the version it was built for and whether   *)
(* the user queries were merged into it.  The counter scrapes_total and    *)
(* the duration gauge are left out: nothing reads them.                    *)
(***************************************************************************)
EXTENDS Naturals, FiniteSets

CONSTANTS
  Scrapers,               \* the goroutines that run Collect, one per request in flight
  NumDSN,                 \* the length of Exporter.dsn
  BadDSN,                 \* the data sources parseFingerprint rejects
  Handles,                \* identities of Server objects
  Versions,               \* the versions PostgreSQL may report
  OddVersions,            \* the version strings parseVersion rejects
  Builtin,                \* the namespaces of builtinMetricMaps
  UserNs,                 \* the namespaces of a well-formed user queries file
  Unsupported,            \* <<version, namespace>>: no override matches, query disabled
  MaxOpenConns,           \* the limit NewServer sets, 2 in the code
  DisableDefaultMetrics,
  DisableSettingsMetrics,
  UserQueries,            \* userQueriesPath # ""
  GaugeBound,             \* the gauges count no further: a bound of the model
  None                    \* nil: no server, no version, no map, no holder

DSN == 1..NumDSN

ASSUME ConstantsAssumption ==
  /\ NumDSN \in Nat \ {0}
  /\ BadDSN \subseteq DSN
  /\ Unsupported \subseteq Versions \X Builtin
  /\ MaxOpenConns \in Nat \ {0}
  /\ DisableDefaultMetrics \in BOOLEAN
  /\ DisableSettingsMetrics \in BOOLEAN
  /\ UserQueries \in BOOLEAN
  /\ GaugeBound \in Nat
  /\ None \notin Scrapers \cup Handles \cup Versions \cup [ver : Versions, user : BOOLEAN]
  /\ "down" \notin Versions \cup OddVersions
  /\ Versions \cap OddVersions = {}

PC == {"idle", "clear", "lock", "lookup", "ping", "pinging", "geterr", "markup",
       "version", "versionrow", "vererr", "check", "wlock", "wwait", "build", "override",
       "reset", "read", "merge", "unlock", "rlock", "rblocked", "settings", "settingrows",
       "seterr", "namespace", "namespacerows", "runlock", "report"}

PostgresState == Versions \cup OddVersions \cup {"down"}
FileState == {"ok", "bad", "missing"}

VARIABLES
  \* The scrapes: goroutine-local state.
  pc,                \* where the scrape is
  idx,               \* the data source of the loop in scrape()
  hnd,               \* its *Server
  ver,               \* the semanticVersion it read; None when reading it failed
  done,              \* the namespaces it has been through
  nsErr,             \* len(errMap) > 0
  \* The Exporter and its Servers.
  mutex,             \* Servers.m: its holder
  servers,           \* Servers.servers
  srv,               \* the Server objects
  errorGauge,        \* pg_exporter_last_scrape_error
  psqlUp,            \* pg_up
  userQueriesError,  \* the files a series of user_queries_load_error stands for
  \* The outside.
  postgres,          \* each server: down, or the version it reports
  file               \* the user queries file

scrapeVars == <<pc, idx, hnd, ver, done, nsErr>>
gaugeVars == <<errorGauge, psqlUp, userQueriesError>>
envVars == <<postgres, file>>
vars == <<scrapeVars, mutex, servers, srv, gaugeVars, envVars>>

-----------------------------------------------------------------------------
(***************************************************************************)
(* Query maps.  metricMap and queryOverrides are built for one version and *)
(* then extended, each on its own, with the user queries.                  *)
(***************************************************************************)
MapValue == [ver : Versions, user : BOOLEAN]

WithUserQueries(m) == [ver |-> m.ver, user |-> TRUE]

Namespaces(m) ==
  IF m = None THEN {}
  ELSE (IF DisableDefaultMetrics THEN {} ELSE Builtin)
       \cup (IF m.user THEN UserNs ELSE {})

\* The override found for the namespace is the empty query.
Disabled(o, ns) ==
  /\ o # None
  /\ ~DisableDefaultMetrics
  /\ <<o.ver, ns>> \in Unsupported
  /\ ~(o.user /\ ns \in UserNs)

ServerObject ==
  [db : {"unused", "open", "closed"},
   lastMapVersion : Versions \cup {None},
   metricMap : MapValue \cup {None},
   queryOverrides : MapValue \cup {None},
   readers : SUBSET Scrapers,        \* mappingMtx, read side
   writer : Scrapers \cup {None},    \* mappingMtx, the writer that holds or awaits it
   conns : SUBSET Scrapers]          \* the connections in use, by their users

NewObject(db) ==
  [db |-> db, lastMapVersion |-> None, metricMap |-> None, queryOverrides |-> None,
   readers |-> {}, writer |-> None, conns |-> {}]


TypeOK ==
  /\ pc \in [Scrapers -> PC]
  /\ idx \in [Scrapers -> DSN]
  /\ hnd \in [Scrapers -> Handles \cup {None}]
  /\ ver \in [Scrapers -> Versions \cup {None}]
  /\ done \in [Scrapers -> SUBSET (Builtin \cup UserNs)]
  /\ nsErr \in [Scrapers -> BOOLEAN]
  /\ mutex \in Scrapers \cup {None}
  /\ servers \in [DSN -> Handles \cup {None}]
  /\ srv \in [Handles -> ServerObject]
  /\ errorGauge \in 0..GaugeBound
  /\ psqlUp \in 0..GaugeBound
  /\ userQueriesError \in SUBSET FileState
  /\ postgres \in [DSN -> PostgresState]
  /\ file \in FileState

Init ==
  /\ pc = [p \in Scrapers |-> "idle"]
  /\ idx = [p \in Scrapers |-> 1]
  /\ hnd = [p \in Scrapers |-> None]
  /\ ver = [p \in Scrapers |-> None]
  /\ done = [p \in Scrapers |-> {}]
  /\ nsErr = [p \in Scrapers |-> FALSE]
  /\ mutex = None
  /\ servers = [d \in DSN |-> None]
  /\ srv = [h \in Handles |-> NewObject("unused")]
  /\ errorGauge = 0
  /\ psqlUp = 0
  /\ userQueriesError = {}
  /\ postgres \in [DSN -> PostgresState]
  /\ \A d \in BadDSN : postgres[d] = "down"
  /\ file \in FileState

-----------------------------------------------------------------------------
(***************************************************************************)
(* Steps several handlers share.                                           *)
(***************************************************************************)
\* Mutant: one data source too many.
LastDSNOffByOne(p) == idx[p] > NumDSN
LastDSN(p) == idx[p] = NumDSN

Goto(p, label) == pc' = [pc EXCEPT ![p] = label]

Inc(n) == IF n < GaugeBound THEN n + 1 ELSE n

CountError == errorGauge' = Inc(errorGauge)

\* The scrape is over with its data source: the loop goes on to the next one, and an
\* object that neither the registry nor another scrape refers to is garbage.
NextDSN(p, objects) ==
  /\ pc' = [pc EXCEPT ![p] = IF LastDSN(p) THEN "report" ELSE "lock"]
  /\ idx' = [idx EXCEPT ![p] = IF LastDSN(p) THEN @ ELSE @ + 1]
  /\ srv' = [h \in Handles |->
               IF /\ \A d \in DSN : servers[d] # h
                  /\ \A q \in Scrapers \ {p} : hnd[q] # h
               THEN NewObject("unused")
               ELSE objects[h]]
  /\ hnd' = [hnd EXCEPT ![p] = None]
  /\ ver' = [ver EXCEPT ![p] = None]
  /\ done' = [done EXCEPT ![p] = {}]
  /\ nsErr' = [nsErr EXCEPT ![p] = FALSE]

CanConnect(h) ==
  /\ srv[h].db = "open"
  /\ Cardinality(srv[h].conns) < MaxOpenConns

Connect(p) == srv' = [srv EXCEPT ![hnd[p]].conns = @ \cup {p}]

\* Mutant: the rows are not closed, and keep their connection.
DisconnectForgotten(p) == UNCHANGED srv
Disconnect(p) == srv' = [srv EXCEPT ![hnd[p]].conns = @ \ {p}]

-----------------------------------------------------------------------------
(***************************************************************************)
(* scrape: the gauges are cleared one after the other, then the data       *)
(* sources are visited in order.                                           *)
(***************************************************************************)
\* Mutant: the error of the last scrape is kept.
ErrorKept == UNCHANGED errorGauge
ClearError == errorGauge' = 0

StartScrape(p) ==
  /\ pc[p] = "idle"
  /\ Goto(p, "clear")
  /\ idx' = [idx EXCEPT ![p] = 1]
  /\ ClearError
  /\ UNCHANGED <<hnd, ver, done, nsErr, mutex, servers, srv, psqlUp, userQueriesError,
                 envVars>>

ClearUp(p) ==
  /\ pc[p] = "clear"
  /\ Goto(p, "lock")
  /\ psqlUp' = 0
  /\ UNCHANGED <<idx, hnd, ver, done, nsErr, mutex, servers, srv, errorGauge,
                 userQueriesError, envVars>>

(***************************************************************************)
(* Servers.GetServer.  The mutex of the registry is held from the lookup   *)
(* to the end of the ping; a Server that does not answer is closed and     *)
(* leaves the registry, although another scrape may be using it.           *)
(***************************************************************************)
\* Mutant: a path that returns without unlocking.
StayLocked == UNCHANGED mutex
UnlockServers == mutex' = None

LockServers(p) ==
  /\ pc[p] = "lock"
  /\ mutex = None
  /\ mutex' = p
  /\ Goto(p, "lookup")
  /\ UNCHANGED <<idx, hnd, ver, done, nsErr, servers, srv, gaugeVars, envVars>>

Lookup(p) ==
  /\ pc[p] = "lookup"
  /\ servers[idx[p]] # None
  /\ hnd' = [hnd EXCEPT ![p] = servers[idx[p]]]
  /\ Goto(p, "ping")
  /\ UNCHANGED <<idx, ver, done, nsErr, mutex, servers, srv, gaugeVars, envVars>>

NewServer(p) ==
  /\ pc[p] = "lookup"
  /\ servers[idx[p]] = None
  /\ idx[p] \notin BadDSN
  /\ \E h \in Handles :
       /\ srv[h].db = "unused"
       /\ srv' = [srv EXCEPT ![h] = NewObject("open")]
       /\ servers' = [servers EXCEPT ![idx[p]] = h]
       /\ hnd' = [hnd EXCEPT ![p] = h]
  /\ Goto(p, "ping")
  /\ UNCHANGED <<idx, ver, done, nsErr, mutex, gaugeVars, envVars>>

NewServerFails(p) ==
  /\ pc[p] = "lookup"
  /\ servers[idx[p]] = None
  /\ idx[p] \in BadDSN
  /\ UnlockServers
  /\ Goto(p, "geterr")
  /\ UNCHANGED <<idx, hnd, ver, done, nsErr, servers, srv, gaugeVars, envVars>>

StartPing(p) ==
  /\ pc[p] = "ping"
  /\ CanConnect(hnd[p])
  /\ Connect(p)
  /\ Goto(p, "pinging")
  /\ UNCHANGED <<idx, hnd, ver, done, nsErr, mutex, servers, gaugeVars, envVars>>

PingSucceeds(p) ==
  /\ pc[p] = "pinging"
  /\ postgres[idx[p]] # "down"
  /\ Disconnect(p)
  /\ UnlockServers
  /\ Goto(p, "markup")
  /\ UNCHANGED <<idx, hnd, ver, done, nsErr, servers, gaugeVars, envVars>>

\* Mutant: the closed Server stays in the registry.
EvictForgotten(p) == servers
Evict(p) == [servers EXCEPT ![idx[p]] = None]

PingFails(p) ==
  /\ pc[p] = "pinging"
  /\ postgres[idx[p]] = "down"
  /\ srv' = [srv EXCEPT ![hnd[p]].db = "closed", ![hnd[p]].conns = @ \ {p}]
  /\ servers' = Evict(p)
  /\ UnlockServers
  /\ Goto(p, "geterr")
  /\ UNCHANGED <<idx, hnd, ver, done, nsErr, gaugeVars, envVars>>

(***************************************************************************)
(* scrapeDSN up to checkMapVersions.                                       *)
(***************************************************************************)
GetServerFailed(p) ==
  /\ pc[p] = "geterr"
  /\ CountError
  /\ NextDSN(p, srv)
  /\ UNCHANGED <<mutex, servers, psqlUp, userQueriesError, envVars>>

MarkUp(p) ==
  /\ pc[p] = "markup"
  /\ psqlUp' = Inc(psqlUp)
  /\ Goto(p, "version")
  /\ UNCHANGED <<idx, hnd, ver, done, nsErr, mutex, servers, srv, errorGauge,
                 userQueriesError, envVars>>

StartVersionQuery(p) ==
  /\ pc[p] = "version"
  /\ CanConnect(hnd[p])
  /\ Connect(p)
  /\ Goto(p, "versionrow")
  /\ UNCHANGED <<idx, hnd, ver, done, nsErr, mutex, servers, gaugeVars, envVars>>

VersionQueryRefused(p) ==
  /\ pc[p] = "version"
  /\ srv[hnd[p]].db = "closed"
  /\ Goto(p, "vererr")
  /\ UNCHANGED <<idx, hnd, ver, done, nsErr, mutex, servers, srv, gaugeVars, envVars>>

\* QueryRow.Scan, then parseVersion.
ReadVersion(p) ==
  /\ pc[p] = "versionrow"
  /\ Disconnect(p)
  /\ ver' = [ver EXCEPT ![p] = IF postgres[idx[p]] \in Versions
                                THEN postgres[idx[p]] ELSE None]
  /\ Goto(p, IF ver'[p] = None THEN "vererr" ELSE "check")
  /\ UNCHANGED <<idx, hnd, done, nsErr, mutex, servers, gaugeVars, envVars>>

VersionFailed(p) ==
  /\ pc[p] = "vererr"
  /\ CountError
  /\ Goto(p, "rlock")
  /\ UNCHANGED <<idx, hnd, ver, done, nsErr, mutex, servers, srv, psqlUp,
                 userQueriesError, envVars>>

(***************************************************************************)
(* checkMapVersions.  lastMapVersion and metricMap are compared before the *)
(* lock is taken: a comparison that runs while another scrape writes them  *)
(* is a data race, whose outcome the model leaves open.                    *)
(***************************************************************************)
Building == {"build", "override", "reset", "read", "merge", "unlock"}

Rebuilding(h) == srv[h].writer # None /\ pc[srv[h].writer] \in Building

\* Mutant: maps are built once and for all.
NeedsFirstBuild(p) == srv[hnd[p]].metricMap = None

NeedsRebuild(p) ==
  \/ ver[p] # srv[hnd[p]].lastMapVersion
  \/ srv[hnd[p]].metricMap = None

CheckVersion(p) ==
  /\ pc[p] = "check"
  /\ \E rebuild \in IF Rebuilding(hnd[p]) THEN BOOLEAN ELSE {NeedsRebuild(p)} :
       Goto(p, IF rebuild THEN "wlock" ELSE "rlock")
  /\ UNCHANGED <<idx, hnd, ver, done, nsErr, mutex, servers, srv, gaugeVars, envVars>>

\* mappingMtx.Lock: exclude the other writers and hold back new readers, ...
WLock(p) ==
  /\ pc[p] = "wlock"
  /\ srv[hnd[p]].writer = None
  /\ srv' = [srv EXCEPT ![hnd[p]].writer = p]
  /\ Goto(p, "wwait")
  /\ UNCHANGED <<idx, hnd, ver, done, nsErr, mutex, servers, gaugeVars, envVars>>

\* ... then wait for the readers there are.
\* Mutant: do not wait.
ReadersIgnored(p) == TRUE
ReadersGone(p) == srv[hnd[p]].readers = {}

WAcquire(p) ==
  /\ pc[p] = "wwait"
  /\ ReadersGone(p)
  /\ Goto(p, "build")
  /\ UNCHANGED <<idx, hnd, ver, done, nsErr, mutex, servers, srv, gaugeVars, envVars>>

BuildMetricMap(p) ==
  /\ pc[p] = "build"
  /\ srv' = [srv EXCEPT ![hnd[p]].metricMap = [ver |-> ver[p], user |-> FALSE]]
  /\ Goto(p, "override")
  /\ UNCHANGED <<idx, hnd, ver, done, nsErr, mutex, servers, gaugeVars, envVars>>

BuildOverrides(p) ==
  /\ pc[p] = "override"
  /\ srv' = [srv EXCEPT ![hnd[p]].queryOverrides = [ver |-> ver[p], user |-> FALSE],
                        ![hnd[p]].lastMapVersion = ver[p]]
  /\ Goto(p, IF UserQueries THEN "reset" ELSE "unlock")
  /\ UNCHANGED <<idx, hnd, ver, done, nsErr, mutex, servers, gaugeVars, envVars>>

ResetUserQueriesError(p) ==
  /\ pc[p] = "reset"
  /\ userQueriesError' = {}
  /\ Goto(p, "read")
  /\ UNCHANGED <<idx, hnd, ver, done, nsErr, mutex, servers, srv, errorGauge, psqlUp,
                 envVars>>

\* ReadFile and addQueries, which fails before it has merged anything ...
UserQueriesFail(p) ==
  /\ pc[p] = "read"
  /\ file # "ok"
  /\ userQueriesError' = userQueriesError \cup {file}
  /\ Goto(p, "unlock")
  /\ UNCHANGED <<idx, hnd, ver, done, nsErr, mutex, servers, srv, errorGauge, psqlUp,
                 envVars>>

\* ... or merges its metrics into the one map and its queries into the other.
MergeMetrics(p) ==
  /\ pc[p] = "read"
  /\ file = "ok"
  /\ srv' = [srv EXCEPT ![hnd[p]].metricMap = WithUserQueries(@)]
  /\ Goto(p, "merge")
  /\ UNCHANGED <<idx, hnd, ver, done, nsErr, mutex, servers, gaugeVars, envVars>>

MergeOverrides(p) ==
  /\ pc[p] = "merge"
  /\ srv' = [srv EXCEPT ![hnd[p]].queryOverrides = WithUserQueries(@)]
  /\ userQueriesError' = userQueriesError \cup {"ok"}
  /\ Goto(p, "unlock")
  /\ UNCHANGED <<idx, hnd, ver, done, nsErr, mutex, servers, errorGauge, psqlUp,
                 envVars>>

\* mappingMtx.Unlock lets the readers it held back in before another writer.
Blocked(h) == {q \in Scrapers : pc[q] = "rblocked" /\ hnd[q] = h}

WUnlock(p) ==
  /\ pc[p] = "unlock"
  /\ srv' = [srv EXCEPT ![hnd[p]].writer = None, ![hnd[p]].readers = @ \cup Blocked(hnd[p])]
  /\ pc' = [q \in Scrapers |-> CASE q = p -> "rlock"
                                 [] q \in Blocked(hnd[p]) -> "settings"
                                 [] OTHER -> pc[q]]
  /\ UNCHANGED <<idx, hnd, ver, done, nsErr, mutex, servers, gaugeVars, envVars>>

(***************************************************************************)
(* Server.Scrape, under the read lock.  A query ends well, with an error,  *)
(* or is cut: rows.Next returns FALSE when the connection is lost, and no  *)
(* caller asks rows.Err.                                                   *)
(***************************************************************************)
Outcome == {"ok", "error", "cut"}

\* Mutant: the maps are read without the lock.
WriterIgnored(p) == TRUE
WriterGone(p) == srv[hnd[p]].writer = None

RLock(p) ==
  /\ pc[p] = "rlock"
  /\ WriterGone(p)
  /\ srv' = [srv EXCEPT ![hnd[p]].readers = @ \cup {p}]
  /\ Goto(p, "settings")
  /\ UNCHANGED <<idx, hnd, ver, done, nsErr, mutex, servers, gaugeVars, envVars>>

RBlock(p) ==
  /\ pc[p] = "rlock"
  /\ ~WriterGone(p)
  /\ Goto(p, "rblocked")
  /\ UNCHANGED <<idx, hnd, ver, done, nsErr, mutex, servers, srv, gaugeVars, envVars>>

StartSettings(p) ==
  /\ pc[p] = "settings"
  /\ ~DisableSettingsMetrics
  /\ CanConnect(hnd[p])
  /\ Connect(p)
  /\ Goto(p, "settingrows")
  /\ UNCHANGED <<idx, hnd, ver, done, nsErr, mutex, servers, gaugeVars, envVars>>

SkipSettings(p) ==
  /\ pc[p] = "settings"
  /\ DisableSettingsMetrics \/ srv[hnd[p]].db = "closed"
  /\ Goto(p, IF DisableSettingsMetrics THEN "namespace" ELSE "seterr")
  /\ UNCHANGED <<idx, hnd, ver, done, nsErr, mutex, servers, srv, gaugeVars, envVars>>

EndSettings(p) ==
  /\ pc[p] = "settingrows"
  /\ Disconnect(p)
  /\ \E o \in Outcome : Goto(p, IF o = "error" THEN "seterr" ELSE "namespace")
  /\ UNCHANGED <<idx, hnd, ver, done, nsErr, mutex, servers, gaugeVars, envVars>>

SettingsFailed(p) ==
  /\ pc[p] = "seterr"
  /\ CountError
  /\ Goto(p, "namespace")
  /\ UNCHANGED <<idx, hnd, ver, done, nsErr, mutex, servers, srv, psqlUp,
                 userQueriesError, envVars>>

\* queryNamespaceMappings ranges over the metric map; queryNamespaceMapping returns at once
\* for a disabled namespace.
Remaining(p) == Namespaces(srv[hnd[p]].metricMap) \ done[p]

StartNamespace(p) ==
  /\ pc[p] = "namespace"
  /\ CanConnect(hnd[p])
  /\ \E ns \in Remaining(p) :
       /\ ~Disabled(srv[hnd[p]].queryOverrides, ns)
       /\ done' = [done EXCEPT ![p] = @ \cup {ns}]
  /\ Connect(p)
  /\ Goto(p, "namespacerows")
  /\ UNCHANGED <<idx, hnd, ver, nsErr, mutex, servers, gaugeVars, envVars>>

SkipNamespace(p) ==
  /\ pc[p] = "namespace"
  /\ \E ns \in Remaining(p) :
       LET disabled == Disabled(srv[hnd[p]].queryOverrides, ns) IN
         /\ disabled \/ srv[hnd[p]].db = "closed"
         /\ done' = [done EXCEPT ![p] = @ \cup {ns}]
         /\ nsErr' = [nsErr EXCEPT ![p] = @ \/ ~disabled]
  /\ UNCHANGED <<pc, idx, hnd, ver, mutex, servers, srv, gaugeVars, envVars>>

EndNamespace(p) ==
  /\ pc[p] = "namespacerows"
  /\ Disconnect(p)
  /\ \E o \in Outcome : nsErr' = [nsErr EXCEPT ![p] = @ \/ o = "error"]
  /\ Goto(p, "namespace")
  /\ UNCHANGED <<idx, hnd, ver, done, mutex, servers, gaugeVars, envVars>>

\* len(errMap) > 0 counts once, however many namespaces failed.
EndNamespaces(p) ==
  /\ pc[p] = "namespace"
  /\ Remaining(p) = {}
  /\ IF nsErr[p] THEN CountError ELSE UNCHANGED errorGauge
  /\ Goto(p, "runlock")
  /\ UNCHANGED <<idx, hnd, ver, done, nsErr, mutex, servers, srv, psqlUp,
                 userQueriesError, envVars>>

RUnlock(p) ==
  /\ pc[p] = "runlock"
  /\ NextDSN(p, [srv EXCEPT ![hnd[p]].readers = @ \ {p}])
  /\ UNCHANGED <<mutex, servers, gaugeVars, envVars>>

\* The end of Collect: the gauges are sent and read.
Report(p) ==
  /\ pc[p] = "report"
  /\ Goto(p, "idle")
  /\ idx' = [idx EXCEPT ![p] = 1]
  /\ UNCHANGED <<hnd, ver, done, nsErr, mutex, servers, srv, gaugeVars, envVars>>

-----------------------------------------------------------------------------
(***************************************************************************)
(* The outside: PostgreSQL stops, is upgraded while it is stopped, starts; *)
(* somebody writes the user queries file.                                  *)
(***************************************************************************)
StopPostgres(d) ==
  /\ postgres[d] # "down"
  /\ postgres' = [postgres EXCEPT ![d] = "down"]
  /\ UNCHANGED <<scrapeVars, mutex, servers, srv, gaugeVars, file>>

StartPostgres(d) ==
  /\ postgres[d] = "down"
  /\ \E v \in PostgresState \ {"down"} : postgres' = [postgres EXCEPT ![d] = v]
  /\ UNCHANGED <<scrapeVars, mutex, servers, srv, gaugeVars, file>>

EditFile ==
  /\ UserQueries
  /\ file' \in FileState \ {file}
  /\ UNCHANGED <<scrapeVars, mutex, servers, srv, gaugeVars, postgres>>

-----------------------------------------------------------------------------
GetServer(p) ==
  \/ LockServers(p) \/ Lookup(p) \/ NewServer(p) \/ NewServerFails(p)
  \/ StartPing(p) \/ PingSucceeds(p) \/ PingFails(p)

CheckMapVersions(p) ==
  \/ StartVersionQuery(p) \/ VersionQueryRefused(p) \/ ReadVersion(p) \/ VersionFailed(p)
  \/ CheckVersion(p) \/ WLock(p) \/ WAcquire(p)
  \/ BuildMetricMap(p) \/ BuildOverrides(p)
  \/ ResetUserQueriesError(p) \/ UserQueriesFail(p) \/ MergeMetrics(p) \/ MergeOverrides(p)
  \/ WUnlock(p)

Scrape(p) ==
  \/ RLock(p) \/ RBlock(p)
  \/ StartSettings(p) \/ SkipSettings(p) \/ EndSettings(p) \/ SettingsFailed(p)
  \/ StartNamespace(p) \/ SkipNamespace(p) \/ EndNamespace(p) \/ EndNamespaces(p)
  \/ RUnlock(p)

\* What a scrape does once a request has started it.
Step(p) ==
  \/ ClearUp(p) \/ GetServer(p) \/ GetServerFailed(p) \/ MarkUp(p)
  \/ CheckMapVersions(p) \/ Scrape(p) \/ Report(p)

Environment ==
  \/ \E d \in DSN \ BadDSN : StopPostgres(d) \/ StartPostgres(d)
  \/ EditFile

Next ==
  \/ \E p \in Scrapers : StartScrape(p) \/ Step(p)
  \/ Environment

Spec == Init /\ [][Next]_vars

\* A started scrape goes on.  Its waits are strongly fair: sync.Mutex hands over to a
\* goroutine that has waited for a millisecond, and database/sql queues the requests for a
\* connection.  That a query returns is an assumption on PostgreSQL: the code sets no
\* timeout.  Nothing makes anybody request a scrape.
Fairness == \A p \in Scrapers : SF_vars(Step(p))

FairSpec == Spec /\ Fairness

-----------------------------------------------------------------------------
(***************************************************************************)
(* Safety.                                                                 *)
(***************************************************************************)
\* The pcs at which a scrape holds the read lock, a connection, the registry's mutex.
Reading == {"settings", "settingrows", "seterr", "namespace", "namespacerows", "runlock"}
Querying == {"pinging", "versionrow", "settingrows", "namespacerows"}
InGetServer == {"lookup", "ping", "pinging"}

\* A scrape under the read lock finds no maps at all or whole ones: the metric map and the
\* overrides are of the version the Server remembers, and the user queries are in both or
\* in neither (Server.Scrape against checkMapVersions and addQueries).
MapsWhole ==
  \A h \in Handles : srv[h].readers # {} =>
    /\ srv[h].metricMap = srv[h].queryOverrides
    /\ srv[h].metricMap # None => srv[h].metricMap.ver = srv[h].lastMapVersion

\* Neither map is written while a scrape ranges over it, which the Go runtime would abort
\* with "concurrent map iteration and map write" (queryNamespaceMappings).
MapsFrozenForReaders ==
  [][\A h \in Handles : srv[h].readers # {} /\ srv'[h].readers # {} =>
       /\ srv'[h].metricMap = srv[h].metricMap
       /\ srv'[h].queryOverrides = srv[h].queryOverrides]_vars

\* The registry only ever hands out a Server whose database is open, its own one for each
\* data source, and no scrape uses an object that is garbage (GetServer, Ping).
RegistrySound ==
  /\ \A d \in DSN : servers[d] # None =>
       /\ srv[servers[d]].db = "open"
       /\ \A e \in DSN \ {d} : servers[e] # servers[d]
  /\ \A p \in Scrapers : hnd[p] # None => srv[hnd[p]].db # "unused"

\* A Server never has more than MaxOpenConns connections in use, and the ones in use are
\* those of the queries that are running: no error path leaks one (rows.Close).
ConnsAccounted ==
  \A h \in Handles :
    /\ srv[h].conns = {p \in Scrapers : hnd[p] = h /\ pc[p] \in Querying}
    /\ Cardinality(srv[h].conns) <= MaxOpenConns

\* Whom a scrape has to wait for where the code blocks: the holder of the registry's mutex;
\* with no connection free, the users of the connections; the writer of the maps; the readers
\* a writer is held up by.
Connecting == {"ping", "version", "settings", "namespace"}

WaitsFor(p) ==
  {q \in Scrapers :
     \/ pc[p] = "lock" /\ q = mutex
     \/ /\ pc[p] \in Connecting
        /\ srv[hnd[p]].db = "open" /\ ~CanConnect(hnd[p])
        /\ q \in srv[hnd[p]].conns
     \/ pc[p] \in {"wlock", "rblocked"} /\ q = srv[hnd[p]].writer
     \/ pc[p] = "wwait" /\ q \in srv[hnd[p]].readers}

\* Scrapes never wait for each other in a circle, over whichever of the mutex, the two sides of
\* mappingMtx and the connections: in any group of them one waits for nobody in the group.
\* A ping waits for a connection under the mutex, a query for one under the read lock, and
\* writers and readers for each other (GetServer, checkMapVersions, Server.Scrape).
NoCircularWait ==
  \A group \in (SUBSET Scrapers) \ {{}} : \E p \in group : WaitsFor(p) \cap group = {}

(***************************************************************************)
(* Liveness.                                                               *)
(***************************************************************************)
\* Every scrape ends: the mutex held across a ping, the connections and the two sides of
\* mappingMtx never wait for each other in a circle, and no side starves.
EveryScrapeEnds == \A p \in Scrapers : pc[p] # "idle" ~> pc[p] = "idle"

\* Once PostgreSQL keeps one version, and as long as scrapes keep being requested, the
\* cached maps become the ones of that version and remain so: a late rebuild for an older
\* version does not stay (checkMapVersions).
MapsFollowServer ==
  \A d \in DSN \ BadDSN, v \in Versions :
    /\ <>[](postgres[d] = v)
    /\ []<>(\E p \in Scrapers : pc[p] = "report")
    => <>[](servers[d] # None /\ srv[servers[d]].lastMapVersion = v)

(***************************************************************************)
(* The maps implement the store of whole maps.                             *)
(***************************************************************************)
NoMaps == [ver |-> None, user |-> FALSE]
WithdrawnMaps == [ver |-> None, user |-> TRUE]

Maps(h) ==
  IF Rebuilding(h) THEN WithdrawnMaps
  ELSE IF srv[h].metricMap = None THEN NoMaps ELSE srv[h].metricMap

Store == INSTANCE PgMapStore WITH
  Objects <- Handles, Users <- Scrapers, Value <- MapValue,
  Empty <- NoMaps, Withdrawn <- WithdrawnMaps,
  store <- [h \in Handles |-> Maps(h)],
  using <- [h \in Handles |-> srv[h].readers]

\* Withdrawn while rebuilt, published whole, stable while used.
ImplementsStore == Store!Spec
=============================================================================
