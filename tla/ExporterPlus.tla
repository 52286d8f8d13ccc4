---------------------------- MODULE ExporterPlus ----------------------------
(***************************************************************************)
(* The process (exporter-plus.go and handlers): it starts the exporters    *)
(* its switches enable, one after the other, each on a path of its own,    *)
(* and then serves the requests of any number of readers.                  *)
(*                                                                         *)
(* Its exporters share one fate.  What one of them cannot start with ends  *)
(* the process (log.Fatal, or a panic of main) before it listens.  Once it *)
(* listens, net/http would catch a panic of the goroutine of a request,    *)
(* but the registry runs Collect in goroutines of its own: a panic there   *)
(* ends the process and every request it serves.                           *)
(*                                                                         *)
(* Flags are modelled by what the code asks of them: the name of a file is *)
(* absent, or that of a file which can be used, or of one which cannot.    *)
(* What a Collect does is not modelled here but by the outcome it has:     *)
(* all metrics; some and an error; an error only; a panic.                 *)
(***************************************************************************)
EXTENDS Naturals, Sequences, FiniteSets

CONSTANTS
  Requests,      \* the requests in flight
  Asked,         \* the paths readers ask for
  Configs,       \* the switches and flags the process may be started with
  None

Service == {"mysql", "redis", "mongodb", "elastic", "kafka", "postgres", "node"}

\* Where main routes each of them.
Path == [mysql |-> "/mysqld", redis |-> "/redis", mongodb |-> "/mongodb",
         elastic |-> "/elastic", kafka |-> "/kafka", postgres |-> "/postgres",
         node |-> "/node"]

File == {"absent", "usable", "unusable"}
Argument == {"usable", "unusable"}

Config ==
  [enabled : SUBSET (Service \ {"node"}),
   node : Argument,                              \* what its collectors need
   mysql : [dsn : {"absent", "usable"}],
   redis : [addr : {"absent", "usable"}, file : File, password : {"absent", "usable"},
            passwordFile : File, args : Argument, script : File],
   elastic : [uri : Argument, ca : File, keyPair : File],
   kafka : [version : Argument, tls : File, interval : Argument, filters : Argument,
            labels : Argument, zookeeper : File],
   postgres : [sourceFile : File, labels : Argument],
   address : Argument]

\* Of a Collect, and of the response to a request.
Outcome == {"all", "some", "nothing"}
Status == {200, 400, 404, 500}

ASSUME ExporterAssumption ==
  /\ Configs \subseteq Config
  /\ None \notin Service \cup {"main"} \cup Outcome
  /\ None \notin Status

\* main initialises the node exporter first and routes it last.
Startup == <<"node", "mysql", "redis", "mongodb", "elastic", "kafka", "postgres">>

VARIABLES
  config,
  stage,         \* an index of Startup; after it main listens, and serves
  routes,        \* of http.DefaultServeMux
  exit,          \* what has ended the process: a service, main, or nothing yet
  pc,            \* of a request
  asked,         \* its path
  outcome,       \* of the Collect it has run
  status         \* of the response

processVars == <<config, stage, routes, exit>>
requestVars == <<pc, asked, outcome, status>>
vars == <<processVars, requestVars>>

TypeOK ==
  /\ config \in Configs
  /\ stage \in 1..(Len(Startup) + 2)
  /\ routes \subseteq {Path[s] : s \in Service}
  /\ exit \in Service \cup {"main", None}
  /\ pc \in [Requests -> {"idle", "collect", "answered"}]
  /\ asked \in [Requests -> Asked \cup {None}]
  /\ outcome \in [Requests -> Outcome \cup {None}]
  /\ status \in [Requests -> Status \cup {None}]

Init ==
  /\ config \in Configs
  /\ stage = 1
  /\ routes = {}
  /\ exit = None
  /\ pc = [r \in Requests |-> "idle"]
  /\ asked = [r \in Requests |-> None]
  /\ outcome = [r \in Requests |-> None]
  /\ status = [r \in Requests |-> None]

-----------------------------------------------------------------------------
(***************************************************************************)
(* Start-up: what each exporter does not start with.                       *)
(***************************************************************************)
\* NewNodeCollector.
NodeRefuses(c) == c.node = "unusable"

\* initMysqlExporter.
MysqlRefuses(c) == c.mysql.dsn = "absent"

\* NewRedisHandler; the address has a default, so a file needs an empty address.
RedisRefuses(c) ==
  \/ c.redis.file # "absent" /\ c.redis.addr # "absent"
  \/ c.redis.passwordFile # "absent" /\ c.redis.password # "absent"
  \/ c.redis.passwordFile = "unusable"
  \/ c.redis.file = "unusable"
  \/ c.redis.args = "unusable"
  \/ c.redis.script = "unusable"

\* createTLSConfig; the key pair is looked at only with a CA, and a bad URI is a warning.
ElasticRefuses(c) ==
  \/ c.elastic.ca = "unusable"
  \/ c.elastic.ca # "absent" /\ c.elastic.keyPair = "unusable"

\* NewExporter, which looks for the brokers; that ZooKeeper cannot be found is not noticed.
KafkaRefuses(c, answered) ==
  \/ c.kafka.version = "unusable"
  \/ c.kafka.tls = "unusable"
  \/ c.kafka.interval = "unusable"
  \/ ~answered
  \/ c.kafka.filters = "unusable"
  \/ c.kafka.labels = "unusable"

\* GetDataSources, and the registration of the exporter: Describe is a whole scrape, and a
\* panic in it ends the process like one of a request (a PostgreSQL that does not answer is
\* no panic).
PostgresRefuses(c, answered) ==
  \/ c.postgres.sourceFile = "unusable"
  \/ c.postgres.labels = "unusable"
  \/ ~answered

\* answered: the servers that are asked at the start gave what the exporter can start with.
Refuses(s, c, answered) ==
  CASE s = "node" -> NodeRefuses(c)
    [] s = "mysql" -> MysqlRefuses(c)
    [] s = "redis" -> RedisRefuses(c)
    [] s = "mongodb" -> FALSE
    [] s = "elastic" -> ElasticRefuses(c)
    [] s = "kafka" -> KafkaRefuses(c, answered)
    [] s = "postgres" -> PostgresRefuses(c, answered)

\* The node exporter has no switch.
Enabled(s) == s \in config.enabled \cup {"node"}

Running == exit = None

\* ListenAndServe has been called.
Listening == Running /\ stage = Len(Startup) + 2

Here(s) == Running /\ stage <= Len(Startup) /\ s = Startup[stage]

Skip(s) ==
  /\ Here(s) /\ ~Enabled(s)
  /\ stage' = stage + 1
  /\ UNCHANGED <<config, routes, exit, requestVars>>

\* Mutant: a service that cannot start is passed over.
PassOver(s) == stage' = stage + 1 /\ UNCHANGED exit

\* Mutant: it is tried again, and again.
TryAgain(s) == UNCHANGED <<exit, stage>>

\* log.Fatal, or a panic of main.
EndProcess(s) == exit' = s /\ UNCHANGED stage

Refuse(s) ==
  /\ Here(s) /\ Enabled(s) /\ \E answered \in BOOLEAN : Refuses(s, config, answered)
  /\ EndProcess(s)
  /\ UNCHANGED <<config, routes, requestVars>>

Start(s) ==
  /\ Here(s) /\ Enabled(s) /\ \E answered \in BOOLEAN : ~Refuses(s, config, answered)
  /\ routes' = IF s = "node" THEN routes ELSE routes \cup {Path[s]}
  /\ stage' = stage + 1
  /\ UNCHANGED <<config, exit, requestVars>>

Listen ==
  /\ Running /\ stage = Len(Startup) + 1
  /\ routes' = routes \cup {Path["node"]}
  /\ IF config.address = "usable" THEN stage' = stage + 1 /\ UNCHANGED exit
     ELSE EndProcess("main")
  /\ UNCHANGED <<config, requestVars>>

-----------------------------------------------------------------------------
(***************************************************************************)
(* Requests.                                                               *)
(***************************************************************************)
ServiceOf(path) == CHOOSE s \in Service : Path[s] = path

Answer(r, code) ==
  /\ pc' = [pc EXCEPT ![r] = "answered"]
  /\ status' = [status EXCEPT ![r] = code]

\* DefaultServeMux, and what collect[] asks for; NodeExporterHandler refuses a collector it
\* does not know, while
\* NewMysqldHandler passes over a scraper it does not know, and the others have none.
Request(r) ==
  /\ Listening /\ pc[r] = "idle"
  /\ \E path \in Asked, known \in BOOLEAN :
       /\ asked' = [asked EXCEPT ![r] = path]
       /\ IF path \notin routes THEN Answer(r, 404)
          ELSE IF path = Path["node"] /\ ~known THEN Answer(r, 400)
          ELSE pc' = [pc EXCEPT ![r] = "collect"] /\ UNCHANGED status
  /\ UNCHANGED <<processVars, outcome>>

\* What the registry may gather.  The collectors of Elasticsearch dereference the URL, nil
\* when it could not be parsed; those of PostgreSQL and MongoDB have panics of their own; and
\* that of Kafka meets the ZooKeeper client that was never made at its first partition.
Outcomes(s) ==
  IF s = "elastic" /\ config.elastic.uri = "unusable" THEN {"panic"}
  ELSE Outcome \cup
       (IF \/ s \in {"mongodb", "postgres"}
           \/ s = "kafka" /\ config.kafka.zookeeper = "unusable"
        THEN {"panic"} ELSE {})

\* Mutant: every handler goes on after an error.
ContinueOnError(s) == TRUE

\* HandlerOpts.ErrorHandling: the default is HTTPErrorOnError.
Tolerant(s) == s = "node"

\* Mutant: an error of the exporter is told as that of a gateway.
GatewayCode(s, o) == IF o = "all" \/ (o = "some" /\ Tolerant(s)) THEN 200 ELSE 503

Code(s, o) ==
  IF o = "all" \/ (o = "some" /\ Tolerant(s)) THEN 200 ELSE 500

Gathered(r, o) ==
  /\ Listening /\ pc[r] = "collect"
  /\ o \in Outcomes(ServiceOf(asked[r])) \ {"panic"}
  /\ outcome' = [outcome EXCEPT ![r] = o]
  /\ Answer(r, Code(ServiceOf(asked[r]), o))
  /\ UNCHANGED <<processVars, asked>>

Panic(r) ==
  /\ Listening /\ pc[r] = "collect"
  /\ "panic" \in Outcomes(ServiceOf(asked[r]))
  /\ exit' = ServiceOf(asked[r])
  /\ UNCHANGED <<config, stage, routes, requestVars>>

Finish(r) ==
  /\ Listening /\ pc[r] = "answered"
  /\ pc' = [pc EXCEPT ![r] = "idle"]
  /\ asked' = [asked EXCEPT ![r] = None]
  /\ outcome' = [outcome EXCEPT ![r] = None]
  /\ status' = [status EXCEPT ![r] = None]
  /\ UNCHANGED <<processVars>>

-----------------------------------------------------------------------------
Boot == (\E s \in Service : Skip(s) \/ Refuse(s) \/ Start(s)) \/ Listen

Next ==
  \/ Boot
  \/ \E r \in Requests :
       Request(r) \/ (\E o \in Outcome : Gathered(r, o)) \/ Panic(r) \/ Finish(r)

Spec == Init /\ [][Next]_vars

-----------------------------------------------------------------------------
\* Nothing is left out in silence: a process that listens serves every service that is
\* enabled, with flags it could start with, and nothing else, so that a path is unknown to it
\* exactly if no enabled service has it (main, the New...Handler functions).
ServedAsConfigured ==
  /\ Listening =>
       /\ routes = {Path[s] : s \in config.enabled \cup {"node"}}
       /\ \A s \in config.enabled \cup {"node"} : ~Refuses(s, config, TRUE)
  /\ \A r \in Requests :
       pc[r] = "answered" =>
         (status[r] = 404 <=> \A s \in Service : Enabled(s) => Path[s] # asked[r])

\* A page of metrics lacks none because of an error; only the node exporter, whose
\* collectors say themselves whether they succeeded, serves what is left (HandlerFor).
NoPartialMetrics ==
  \A r \in Requests :
    status[r] = 200 => outcome[r] = "all" \/ (asked[r] = "/node" /\ outcome[r] = "some")
=============================================================================
