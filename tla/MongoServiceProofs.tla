-------------------------- MODULE MongoServiceProofs --------------------------
(***************************************************************************)
(* Proofs about the process and about its composition with the export of   *)
(* a reply, for every set of requests, of paths and of configurations.     *)
(*                                                                         *)
(* Those about ExporterPlus come first.  Their invariant of start-up says, *)
(* for each service, whether main has passed it and what followed from     *)
(* that; the one of the requests, that a request in progress has a path    *)
(* that is routed, which no later step takes back.                         *)
(*                                                                         *)
(* MongoService implements both of its parts: what is proved of the        *)
(* process and of the export of a reply therefore holds for it.            *)
(***************************************************************************)
EXTENDS MongoService, TLAPS

\* The services main has dealt with.
Passed(s) == \E i \in 1..7 : i < stage /\ Startup[i] = s

Able(s) == ~Refuses(s, config, TRUE)

StartInv ==
  /\ routes \subseteq {Path[s] : s \in Service}
  /\ stage = 9 => Path["node"] \in routes
  /\ Running /\ stage < 9 => Path["node"] \notin routes
  /\ \A s \in Service \ {"node"} : Path[s] \in routes <=> Passed(s) /\ Enabled(s)
  /\ \A s \in Service : Passed(s) /\ Enabled(s) => Able(s)

RequestInv ==
  \A r \in Requests :
    /\ pc[r] # "idle" => stage = 9
    /\ pc[r] = "collect" => asked[r] \in routes /\ status[r] = None
    /\ pc[r] = "idle" => status[r] = None
    /\ pc[r] = "answered" => (status[r] = 404 <=> asked[r] \notin routes)
    /\ status[r] = 200 =>
         outcome[r] = "all" \/ (asked[r] = "/node" /\ outcome[r] = "some")

IInv == TypeOK /\ StartInv /\ RequestInv

-----------------------------------------------------------------------------
\* What main goes through, and where each service goes.
LEMMA StartupFacts ==
  /\ Len(Startup) = 7
  /\ \A i \in 1..7 : Startup[i] \in Service
  /\ \A s \in Service : \E i \in 1..7 : Startup[i] = s
  /\ Startup[1] = "node"
  /\ \A i, j \in 1..7 : Startup[i] = Startup[j] => i = j
BY DEF Startup, Service

\* No two services share a path.
LEMMA PathInjective ==
  \A s, t \in Service : Path[s] = Path[t] => s = t
BY DEF Path, Service

\* Of a path that is routed there is one service.
LEMMA ServiceOfPath ==
  ASSUME NEW s \in Service
  PROVE  ServiceOf(Path[s]) = s
BY PathInjective DEF ServiceOf

\* A service that could start whatever Kafka and PostgreSQL answer could when they answer well.
LEMMA RefusesLess ==
  ASSUME NEW s \in Service, NEW c, NEW up \in BOOLEAN, ~Refuses(s, c, up)
  PROVE  ~Refuses(s, c, TRUE)
<1>1. CASE s \in {"kafka", "postgres"}
  BY <1>1 DEF Refuses, KafkaRefuses, PostgresRefuses
<1>2. CASE s \notin {"kafka", "postgres"}
  BY <1>2 DEF Refuses, Service
<1> QED BY <1>1, <1>2

\* The mark of a request without an answer is none of the answers.
LEMMA NoneIsNoStatus == None \notin Status
BY ExporterAssumption

\* What the next steps of main and of a request rest on.
LEMMA ListeningStage ==
  /\ Listening <=> exit = None /\ stage = 9
  /\ \A s : Here(s) <=> exit = None /\ stage <= 7 /\ s = Startup[stage]
BY StartupFacts DEF Listening, Here, Running

\* A request in progress has a path that belongs to a service.
LEMMA InProgress ==
  ASSUME IInv, NEW r \in Requests, pc[r] = "collect"
  PROVE  ServiceOf(asked[r]) \in Service /\ Path[ServiceOf(asked[r])] = asked[r]
<1>1. PICK s \in Service : asked[r] = Path[s]
  BY DEF IInv, StartInv, RequestInv
<1> QED BY <1>1, ServiceOfPath

-----------------------------------------------------------------------------
\* It holds before main begins.
LEMMA InitInv == Init => IInv
<1> SUFFICES ASSUME Init PROVE IInv
  OBVIOUS
<1>1. TypeOK
  BY StartupFacts DEF Init, TypeOK
<1>2. StartInv
  BY StartupFacts DEF Init, StartInv, Passed
<1>3. RequestInv
  BY ExporterAssumption DEF Init, RequestInv, Status
<1> QED BY <1>1, <1>2, <1>3 DEF IInv

\* Every step of main and of the requests keeps the types.
LEMMA TypeStep == IInv /\ [Next]_vars => TypeOK'
<1> SUFFICES ASSUME IInv, [Next]_vars PROVE TypeOK'
  OBVIOUS
<1> USE StartupFacts DEF IInv, TypeOK
<1>1. ASSUME NEW s \in Service, Skip(s) PROVE TypeOK'
  BY <1>1 DEF Skip, Here, requestVars
<1>2. ASSUME NEW s \in Service, Refuse(s) PROVE TypeOK'
  BY <1>2 DEF Refuse, EndProcess, requestVars
<1>3. ASSUME NEW s \in Service, Start(s) PROVE TypeOK'
  BY <1>3 DEF Start, Here, requestVars
<1>4. CASE Listen
  BY <1>4 DEF Listen, EndProcess, requestVars, Service
<1>5. ASSUME NEW r \in Requests, Request(r) PROVE TypeOK'
  BY <1>5 DEF Request, Answer, processVars, Status
<1>6. ASSUME NEW r \in Requests, NEW o \in Outcome, Gathered(r, o) PROVE TypeOK'
  <2>1. Code(ServiceOf(asked[r]), o) \in Status
    BY DEF Code, Status
  <2> QED BY <1>6, <2>1 DEF Gathered, Answer, processVars
<1>7. ASSUME NEW r \in Requests, Panic(r) PROVE TypeOK'
  BY <1>7, InProgress DEF Panic, requestVars
<1>8. ASSUME NEW r \in Requests, Finish(r) PROVE TypeOK'
  BY <1>8 DEF Finish, processVars
<1>9. CASE UNCHANGED vars
  BY <1>9 DEF vars, processVars, requestVars
<1> QED BY <1>1, <1>2, <1>3, <1>4, <1>5, <1>6, <1>7, <1>8, <1>9 DEF Next, Boot

\* Passing a service, or not yet.
LEMMA PassedNext ==
  ASSUME TypeOK, stage <= 7, stage' = stage + 1, NEW s \in Service
  PROVE  Passed(s)' <=> Passed(s) \/ s = Startup[stage]
BY StartupFacts DEF Passed, TypeOK

\* The service main is at is not yet passed.
LEMMA NotPassed ==
  ASSUME TypeOK, stage <= 7
  PROVE  ~Passed(Startup[stage])
BY StartupFacts DEF Passed, TypeOK

\* What main has left behind it is served, refused or not asked for.
LEMMA StartStep == IInv /\ [Next]_vars => StartInv'
<1> SUFFICES ASSUME IInv, [Next]_vars PROVE StartInv'
  OBVIOUS
<1>a. TypeOK /\ StartInv
  BY DEF IInv
<1>b. stage \in 1..9
  BY <1>a, StartupFacts DEF TypeOK
<1>1. ASSUME NEW s \in Service, Skip(s) PROVE StartInv'
  <2>1. stage <= 7 /\ s = Startup[stage] /\ stage' = stage + 1 /\ Running
    BY <1>1, ListeningStage DEF Skip, Here
  <2>2. UNCHANGED <<config, routes, exit>> /\ ~Enabled(s)
    BY <1>1 DEF Skip
  <2>3. s # "node"
    BY <2>2 DEF Enabled
  <2>4. \A u \in Service : Passed(u)' <=> Passed(u) \/ u = s
    BY <1>a, <2>1, PassedNext
  <2>5. \A u : (Enabled(u)' <=> Enabled(u)) /\ (Able(u)' <=> Able(u))
    BY <2>2 DEF Enabled, Able
  <2>6. stage' < 9 /\ Running'
    BY <2>1, <2>2, <1>b DEF Running
  <2> QED BY <1>a, <1>b, <2>1, <2>2, <2>3, <2>4, <2>5, <2>6 DEF StartInv
<1>2. ASSUME NEW s \in Service, Refuse(s) PROVE StartInv'
  <2>1. stage <= 7 /\ UNCHANGED <<config, stage, routes>>
    BY <1>2, ListeningStage DEF Refuse, EndProcess
  <2>2. ~Running'
    BY <1>2, ExporterAssumption DEF Refuse, EndProcess, Running
  <2>3. \A u : /\ Passed(u)' <=> Passed(u)
               /\ Enabled(u)' <=> Enabled(u)
               /\ Able(u)' <=> Able(u)
    BY <2>1 DEF Passed, Enabled, Able
  <2> QED BY <1>a, <1>b, <2>1, <2>2, <2>3 DEF StartInv
<1>3. ASSUME NEW s \in Service, Start(s) PROVE StartInv'
  <2>1. stage <= 7 /\ s = Startup[stage] /\ stage' = stage + 1 /\ Running
    BY <1>3, ListeningStage DEF Start, Here
  <2>2. UNCHANGED <<config, exit>> /\ Enabled(s)
    BY <1>3 DEF Start
  <2>3. Able(s)
    BY <1>3, RefusesLess DEF Start, Able
  <2>4. \A u \in Service : Passed(u)' <=> Passed(u) \/ u = s
    BY <1>a, <2>1, PassedNext
  <2>5. \A u : (Enabled(u)' <=> Enabled(u)) /\ (Able(u)' <=> Able(u))
    BY <2>2 DEF Enabled, Able
  <2>6. stage' < 9 /\ stage < 9 /\ Running' /\ Running
    BY <2>1, <2>2, <1>b DEF Running
  <2>7. routes' = IF s = "node" THEN routes ELSE routes \cup {Path[s]}
    BY <1>3 DEF Start
  <2>8. \A u \in Service : Path[u] \in routes' <=> Path[u] \in routes \/ (u = s /\ s # "node")
    BY <2>7, PathInjective
  <2>9. \A u \in Service : Passed(u)' /\ Enabled(u)' => Able(u)'
    BY <1>a, <2>2, <2>3, <2>4, <2>5 DEF StartInv
  <2>10. \A u \in Service \ {"node"} : Path[u] \in routes' <=> Passed(u)' /\ Enabled(u)'
    BY <1>a, <2>2, <2>4, <2>5, <2>8 DEF StartInv
  <2>11. routes' \subseteq {Path[u] : u \in Service}
    BY <1>a, <2>7 DEF StartInv
  <2>12. Path["node"] \notin routes'
    BY <1>a, <2>6, <2>8 DEF StartInv, Service
  <2> QED BY <2>6, <2>9, <2>10, <2>11, <2>12 DEF StartInv
<1>4. CASE Listen
  <2>1. stage = 8 /\ UNCHANGED config /\ routes' = routes \cup {Path["node"]}
    BY <1>4, StartupFacts DEF Listen
  <2>2. stage' = 9 \/ (stage' = 8 /\ ~Running')
    BY <1>4, <2>1, ExporterAssumption DEF Listen, EndProcess, Running
  <2>3. \A u \in Service : Passed(u) /\ Passed(u)'
    BY <2>1, <2>2, StartupFacts DEF Passed
  <2>4. \A u : (Enabled(u)' <=> Enabled(u)) /\ (Able(u)' <=> Able(u))
    BY <2>1 DEF Enabled, Able
  <2>5. \A u \in Service : Path[u] \in routes' <=> Path[u] \in routes \/ u = "node"
    BY <2>1, PathInjective DEF Service
  <2>6. \A u \in Service : Passed(u)' /\ Enabled(u)' => Able(u)'
    BY <1>a, <2>1, <2>3, <2>4 DEF StartInv
  <2>7. routes' \subseteq {Path[u] : u \in Service}
    BY <1>a, <2>1 DEF StartInv, Service
  <2> QED BY <1>a, <2>1, <2>2, <2>3, <2>4, <2>5, <2>6, <2>7 DEF StartInv
<1>5. ASSUME UNCHANGED <<config, stage, routes>>, stage = 9 PROVE StartInv'
  <2>1. \A u : /\ Passed(u)' <=> Passed(u)
               /\ Enabled(u)' <=> Enabled(u)
               /\ Able(u)' <=> Able(u)
    BY <1>5 DEF Passed, Enabled, Able
  <2> QED BY <1>a, <1>5, <2>1 DEF StartInv
<1>6. ASSUME NEW r \in Requests,
             Request(r) \/ (\E o \in Outcome : Gathered(r, o)) \/ Panic(r) \/ Finish(r)
      PROVE  StartInv'
  BY <1>5, <1>6, ListeningStage DEF Request, Gathered, Panic, Finish, processVars
<1>7. CASE UNCHANGED vars
  <2>1. \A u : /\ Passed(u)' <=> Passed(u)
               /\ Enabled(u)' <=> Enabled(u)
               /\ Able(u)' <=> Able(u)
    BY <1>7 DEF vars, processVars, Passed, Enabled, Able
  <2> QED BY <1>a, <1>7, <2>1 DEF StartInv, vars, processVars, Running
<1> QED BY <1>1, <1>2, <1>3, <1>4, <1>6, <1>7 DEF Next, Boot

\* A request is answered from what its own collectors have returned.
LEMMA RequestStep == IInv /\ [Next]_vars => RequestInv'
<1> SUFFICES ASSUME IInv, [Next]_vars PROVE RequestInv'
  OBVIOUS
<1>a. TypeOK /\ StartInv /\ RequestInv
  BY DEF IInv
<1>1. ASSUME stage <= 8, UNCHANGED requestVars PROVE RequestInv'
  <2>1. \A r \in Requests : pc[r] = "idle" /\ status[r] = None
    BY <1>a, <1>1, StartupFacts DEF RequestInv, TypeOK
  <2> QED BY <1>1, <2>1, ExporterAssumption DEF RequestInv, requestVars, Status
<1>2. ASSUME NEW s \in Service, Skip(s) \/ Refuse(s) \/ Start(s) PROVE RequestInv'
  <2>1. stage <= 8 /\ UNCHANGED requestVars
    BY <1>a, <1>2, ListeningStage, StartupFacts DEF Skip, Refuse, Start, TypeOK
  <2> QED BY <1>1, <2>1
<1>3. CASE Listen
  <2>1. stage <= 8 /\ UNCHANGED requestVars
    BY <1>3, StartupFacts DEF Listen
  <2> QED BY <1>1, <2>1
<1>4. ASSUME NEW r \in Requests, Request(r) PROVE RequestInv'
  <2>1. stage' = 9 /\ UNCHANGED <<routes, outcome>> /\ pc[r] = "idle"
    BY <1>4, ListeningStage DEF Request, processVars
  <2>2. PICK path \in Asked, known \in BOOLEAN :
          /\ asked' = [asked EXCEPT ![r] = path]
          /\ IF path \notin routes THEN Answer(r, 404)
             ELSE IF path = Path["node"] /\ ~known THEN Answer(r, 400)
             ELSE pc' = [pc EXCEPT ![r] = "collect"] /\ UNCHANGED status
    BY <1>4 DEF Request
  <2>3. CASE Answer(r, 404) /\ path \notin routes
    BY <1>a, <2>1, <2>2, <2>3 DEF Answer, RequestInv, TypeOK
  <2>4. CASE Answer(r, 400) /\ path \in routes
    BY <1>a, <2>1, <2>2, <2>4 DEF Answer, RequestInv, TypeOK
  <2>5. CASE pc' = [pc EXCEPT ![r] = "collect"] /\ UNCHANGED status /\ path \in routes
    BY <1>a, <2>1, <2>2, <2>5, ExporterAssumption DEF RequestInv, TypeOK, Status
  <2> QED BY <2>2, <2>3, <2>4, <2>5
<1>5. ASSUME NEW r \in Requests, NEW o \in Outcome, Gathered(r, o) PROVE RequestInv'
  <2> DEFINE s == ServiceOf(asked[r])
  <2>1. stage' = 9 /\ UNCHANGED <<routes, asked>> /\ pc[r] = "collect"
    BY <1>5, ListeningStage DEF Gathered, processVars
  <2>2. /\ outcome' = [outcome EXCEPT ![r] = o]
        /\ pc' = [pc EXCEPT ![r] = "answered"]
        /\ status' = [status EXCEPT ![r] = Code(s, o)]
    BY <1>5 DEF Gathered, Answer
  <2>3. Code(s, o) # 404 /\ asked[r] \in routes
    BY <1>a, <2>1 DEF Code, RequestInv
  <2>4. Code(s, o) = 200 => o = "all" \/ (asked[r] = "/node" /\ o = "some")
    <3>1. s = "node" => asked[r] = "/node"
      BY <2>1, InProgress DEF Path
    <3> QED BY <3>1 DEF Code, Tolerant
  <2> QED BY <1>a, <2>1, <2>2, <2>3, <2>4 DEF RequestInv, TypeOK
<1>6. ASSUME NEW r \in Requests, Panic(r) PROVE RequestInv'
  BY <1>a, <1>6 DEF Panic, RequestInv, requestVars
<1>7. ASSUME NEW r \in Requests, Finish(r) PROVE RequestInv'
  <2>1. stage' = 9 /\ UNCHANGED routes
    BY <1>7, ListeningStage DEF Finish, processVars
  <2> QED BY <1>a, <1>7, <2>1, ExporterAssumption DEF Finish, RequestInv, TypeOK, Status
<1>8. CASE UNCHANGED vars
  BY <1>a, <1>8 DEF RequestInv, vars, processVars, requestVars
<1> QED BY <1>2, <1>3, <1>4, <1>5, <1>6, <1>7, <1>8 DEF Next, Boot

\* The inductive invariant of start-up (main) and of the requests (promhttp.HandlerFor).
THEOREM Invariance == Spec => []IInv
<1>1. IInv /\ [Next]_vars => IInv'
  BY TypeStep, StartStep, RequestStep DEF IInv
<1> QED BY InitInv, <1>1, PTL DEF Spec

-----------------------------------------------------------------------------
\* main and the requests keep to their types (exporter-plus.go, the handlers).
THEOREM TypeCorrect == Spec => []TypeOK
<1>1. IInv => TypeOK
  BY DEF IInv
<1> QED BY Invariance, <1>1, PTL

\* A process that listens serves what is enabled and can start, and nothing else.
THEOREM Served == Spec => []ServedAsConfigured
<1>1. IInv => ServedAsConfigured
  <2> SUFFICES ASSUME IInv PROVE ServedAsConfigured
    OBVIOUS
  <2>a. TypeOK /\ StartInv /\ RequestInv
    BY DEF IInv
  <2>1. config.enabled \subseteq Service /\ "node" \in Service
    BY <2>a, ExporterAssumption DEF TypeOK, Config, Service
  <2>2. ASSUME stage = 9
        PROVE  /\ routes = {Path[s] : s \in config.enabled \cup {"node"}}
               /\ \A s \in config.enabled \cup {"node"} : Able(s)
    <3>1. \A s \in Service : Passed(s)
      BY <2>2, StartupFacts DEF Passed
    <3>2. \A s \in Service : Path[s] \in routes <=> Enabled(s)
      BY <2>a, <2>2, <3>1 DEF StartInv, Enabled
    <3>3. routes \subseteq {Path[s] : s \in Service}
      BY <2>a DEF StartInv
    <3>4. \A s \in Service : Enabled(s) <=> s \in config.enabled \cup {"node"}
      BY DEF Enabled
    <3>5. \A s \in config.enabled \cup {"node"} : Able(s)
      BY <2>a, <2>1, <3>1, <3>4 DEF StartInv
    <3> QED BY <2>1, <3>2, <3>3, <3>4, <3>5
  <2>3. Listening =>
          /\ routes = {Path[s] : s \in config.enabled \cup {"node"}}
          /\ \A s \in config.enabled \cup {"node"} : ~Refuses(s, config, TRUE)
    BY <2>2, ListeningStage DEF Able
  <2>4. ASSUME NEW r \in Requests, pc[r] = "answered"
        PROVE  status[r] = 404 <=> \A s \in Service : Enabled(s) => Path[s] # asked[r]
    <3>1. stage = 9 /\ (status[r] = 404 <=> asked[r] \notin routes)
      BY <2>a, <2>4 DEF RequestInv
    <3>2. asked[r] \in routes <=> \E s \in config.enabled \cup {"node"} : Path[s] = asked[r]
      BY <2>2, <3>1
    <3> QED BY <2>1, <3>1, <3>2 DEF Enabled
  <2> QED BY <2>3, <2>4 DEF ServedAsConfigured
<1> QED BY Invariance, <1>1, PTL

\* No page of metrics is served with some of them left out by an error.
THEOREM Whole == Spec => []NoPartialMetrics
<1>1. IInv => NoPartialMetrics
  BY DEF IInv, RequestInv, NoPartialMetrics
<1> QED BY Invariance, <1>1, PTL

-----------------------------------------------------------------------------
(***************************************************************************)
(* The composition with the export of a reply of MongoDB.                  *)
(***************************************************************************)
StatusProofs == INSTANCE MongoServerStatusProofs WITH Collects <- Requests

\* What has been exported lacks nothing that the exporter takes for granted.
ExportedUnbroken ==
  \A r \in Requests :
    /\ at[r] = 0 => reply[r] = None
    /\ ServerStatus!InSection(r) => reply[r] # None
    /\ at[r] = ServerStatus!Over /\ reply[r] # None => ~Broken(reply[r].documents)

\* A request is exported while it collects, and to the end before it is answered; and why
\* the process has ended.
ServiceInv ==
  /\ \A r \in Requests :
       /\ at[r] # 0 => pc[r] # "idle" /\ asked[r] = Path["mongodb"]
       /\ pc[r] = "answered" => at[r] \in {0, ServerStatus!Over}
  /\ exit = "mongodb" => \E r \in Requests : reply[r] # None /\ Broken(reply[r].documents)

\* A step of the composition is one of the process, or none.
THEOREM ImplementsProcess == ServiceSpec => Spec
<1>1. ServiceInit => Init
  BY DEF ServiceInit
<1>2. [ServiceNext]_serviceVars => [Next]_vars
  <2> SUFFICES ASSUME [ServiceNext]_serviceVars PROVE [Next]_vars
    OBVIOUS
  <2>1. CASE Around
    BY <2>1 DEF Around, Next
  <2>2. ASSUME NEW r \in Requests, Handle(r) PROVE [Next]_vars
    BY <2>2 DEF Handle, Export, ServiceGathered, ServicePanic, Next
  <2>3. ASSUME NEW r \in Requests, ServiceFinish(r) PROVE [Next]_vars
    BY <2>3 DEF ServiceFinish, Next
  <2>4. CASE UNCHANGED serviceVars
    BY <2>4 DEF serviceVars
  <2> QED BY <2>1, <2>2, <2>3, <2>4 DEF ServiceNext
<1> QED BY <1>1, <1>2, PTL DEF ServiceSpec, Spec

\* It is also one of the export of a reply, or none.
THEOREM ImplementsExport == ServiceSpec => ServerStatus!Spec
<1>1. ServiceInit => ServerStatus!Init
  BY DEF ServiceInit
<1>2. [ServiceNext]_serviceVars => [ServerStatus!Next]_ServerStatus!statusVars
  <2> SUFFICES ASSUME [ServiceNext]_serviceVars
               PROVE  [ServerStatus!Next]_ServerStatus!statusVars
    OBVIOUS
  <2>1. CASE Around
    BY <2>1 DEF Around, statusVars, ServerStatus!statusVars
  <2>2. ASSUME NEW r \in Requests, Handle(r)
        PROVE  [ServerStatus!Next]_ServerStatus!statusVars
    BY <2>2 DEF Handle, Export, ServiceGathered, ServicePanic, statusVars,
                ServerStatus!statusVars, ServerStatus!Next
  <2>3. ASSUME NEW r \in Requests, ServiceFinish(r)
        PROVE  [ServerStatus!Next]_ServerStatus!statusVars
    BY <2>3 DEF ServiceFinish, ServerStatus!Next
  <2>4. CASE UNCHANGED serviceVars
    BY <2>4 DEF serviceVars, statusVars, ServerStatus!statusVars
  <2> QED BY <2>1, <2>2, <2>3, <2>4 DEF ServiceNext
<1> QED BY <1>1, <1>2, PTL DEF ServiceSpec, ServerStatus!Spec

\* The theorems about the export are about the same formulas.
LEMMA SameExport ==
  /\ ServerStatus!ServerStatusAssumption => StatusProofs!ServerStatusAssumption
  /\ ServerStatus!Init => StatusProofs!Init
  /\ [ServerStatus!Next]_ServerStatus!statusVars => [StatusProofs!Next]_StatusProofs!statusVars
  /\ StatusProofs!SoloFresh => SoloFresh
  /\ StatusProofs!StaleStaysInSection => StaleStaysInSection
  /\ StatusProofs!ExportedIsUnbroken => ExportedUnbroken
BY DEF SoloFresh, StaleStaysInSection, ExportedUnbroken, Broken,
       StatusProofs!ExportedIsUnbroken,
       ServerStatus!Init, ServerStatus!Next, ServerStatus!Export,
       ServerStatus!Ask, ServerStatus!Fill, ServerStatus!Send,
       ServerStatus!SendEngine, ServerStatus!Forget, ServerStatus!OverlapsOthers,
       ServerStatus!InSection, ServerStatus!Breaks, ServerStatus!Dereferenced,
       ServerStatus!Sections, ServerStatus!Sets, ServerStatus!PartsOf,
       ServerStatus!Parts, ServerStatus!Group, ServerStatus!Plain,
       ServerStatus!Follows, ServerStatus!Present, ServerStatus!Last,
       ServerStatus!Over, ServerStatus!EngineOf, ServerStatus!Engine,
       ServerStatus!Document, ServerStatus!SoloFresh, ServerStatus!Exported,
       ServerStatus!StaleStaysInSection, ServerStatus!ServerStatusAssumption,
       ServerStatus!statusVars, StatusProofs!Init, StatusProofs!Next,
       StatusProofs!Export, StatusProofs!Ask, StatusProofs!Fill,
       StatusProofs!Send, StatusProofs!SendEngine, StatusProofs!Forget,
       StatusProofs!OverlapsOthers, StatusProofs!InSection, StatusProofs!Breaks,
       StatusProofs!Dereferenced, StatusProofs!Sections, StatusProofs!Sets,
       StatusProofs!PartsOf, StatusProofs!Parts, StatusProofs!Group,
       StatusProofs!Plain, StatusProofs!Follows, StatusProofs!Present,
       StatusProofs!Last, StatusProofs!Over, StatusProofs!EngineOf,
       StatusProofs!Engine, StatusProofs!Document, StatusProofs!SoloFresh,
       StatusProofs!Exported, StatusProofs!StaleStaysInSection,
       StatusProofs!ServerStatusAssumption, StatusProofs!statusVars,
       ServerStatus!LocksParts, ServerStatus!MetricsParts, ServerStatus!WiredTigerParts,
       ServerStatus!MetricsPlain, ServerStatus!WiredTigerPlain, ServerStatus!GlobalLockNeeds,
       ServerStatus!MetricsNeeds, ServerStatus!WiredTigerNeeds,
       StatusProofs!LocksParts, StatusProofs!MetricsParts, StatusProofs!WiredTigerParts,
       StatusProofs!MetricsPlain, StatusProofs!WiredTigerPlain, StatusProofs!GlobalLockNeeds,
       StatusProofs!MetricsNeeds, StatusProofs!WiredTigerNeeds

\* Whatever happens around it, a Collect of MongoDB that is alone sends all of its reply.
THEOREM ServiceFresh == ServiceSpec => []SoloFresh
<1>1. ServerStatus!Spec => StatusProofs!Spec
  BY SameExport, PTL DEF ServerStatus!Spec, StatusProofs!Spec
<1>2. StatusProofs!Spec => []StatusProofs!SoloFresh
  BY ServiceAssumption, SameExport, StatusProofs!Fresh
<1> QED BY <1>1, <1>2, SameExport, ImplementsExport, PTL

\* And what else it sends is of a part the server does not have.
THEOREM ServiceStale == ServiceSpec => []StaleStaysInSection
<1>1. ServerStatus!Spec => StatusProofs!Spec
  BY SameExport, PTL DEF ServerStatus!Spec, StatusProofs!Spec
<1>2. StatusProofs!Spec => []StatusProofs!StaleStaysInSection
  BY ServiceAssumption, SameExport, StatusProofs!StaleInSection
<1> QED BY <1>1, <1>2, SameExport, ImplementsExport, PTL

-----------------------------------------------------------------------------
\* A step of a request keeps ServiceInv, and so does one of main.
LEMMA ServiceStep ==
  ASSUME IInv, ServiceInv, ExportedUnbroken, TypeOK', [ServiceNext]_serviceVars,
         at \in [Requests -> 0..ServerStatus!Over],
         reply \in [Requests -> Replies \cup {None}]
  PROVE  ServiceInv'
<1>a. TypeOK /\ RequestInv /\ StartInv
  BY DEF IInv
<1>b. Path["mongodb"] = "/mongodb" /\ ServiceOf(Path["mongodb"]) = "mongodb"
  BY ServiceOfPath DEF Path, Service
<1>1. CASE Around
  <2>1. UNCHANGED <<at, reply>>
    BY <1>1 DEF Around, statusVars
  <2>2. CASE Boot
    <3>1. exit' # "mongodb" \/ exit' = exit
      <4>1. ASSUME NEW s \in Service, Refuse(s) PROVE exit' # "mongodb"
        BY <4>1 DEF Refuse, Refuses, EndProcess, Service
      <4> QED BY <2>2, <4>1 DEF Boot, Skip, Start, Listen, EndProcess
    <3>2. UNCHANGED <<pc, asked>>
      BY <2>2 DEF Boot, Skip, Refuse, Start, Listen, requestVars
    <3> QED BY <2>1, <3>1, <3>2 DEF ServiceInv
  <2>3. ASSUME NEW r \in Requests, Request(r) PROVE ServiceInv'
    <3>1. UNCHANGED exit /\ at[r] = 0
      BY <2>3 DEF Request, processVars, ServiceInv
    <3>2. \A q \in Requests \ {r} : pc'[q] = pc[q] /\ asked'[q] = asked[q]
      BY <1>a, <2>3 DEF Request, Answer, TypeOK
    <3> QED BY <2>1, <3>1, <3>2 DEF ServiceInv
  <2> QED BY <1>1, <2>2, <2>3 DEF Around
<1>2. ASSUME NEW r \in Requests, Export(r) PROVE ServiceInv'
  <2>1. UNCHANGED vars /\ ToMongo(r)
    BY <1>2 DEF Export
  <2>2. pc[r] = "collect" /\ asked[r] = Path["mongodb"] /\ exit # "mongodb"
    BY <2>1, ExporterAssumption DEF ToMongo, Listening, Running, Service
  <2>3. \A q \in Requests \ {r} : at'[q] = at[q]
    BY <1>2 DEF Export, ServerStatus!Export, ServerStatus!Ask, ServerStatus!Fill,
                ServerStatus!Send, ServerStatus!SendEngine
  <2> QED BY <2>1, <2>2, <2>3 DEF ServiceInv, vars, processVars, requestVars
<1>3. ASSUME NEW r \in Requests, ServiceGathered(r) PROVE ServiceInv'
  <2>1. PICK o \in Outcome : Gathered(r, o)
    BY <1>3 DEF ServiceGathered
  <2>2. UNCHANGED <<at, reply, asked, exit>> /\ pc[r] = "collect" /\ Listening
    BY <1>3, <2>1 DEF ServiceGathered, Gathered, statusVars, processVars
  <2>3. pc' = [pc EXCEPT ![r] = "answered"]
    BY <2>1 DEF Gathered, Answer
  <2>4. at[r] \in {0, ServerStatus!Over}
    BY <1>3, <2>2 DEF ServiceGathered, ToMongo, ServiceInv
  <2> QED BY <1>a, <2>2, <2>3, <2>4 DEF ServiceInv, TypeOK
<1>4. ASSUME NEW r \in Requests, ServicePanic(r) PROVE ServiceInv'
  <2>1. /\ UNCHANGED <<at, reply, pc, asked>> /\ Listening /\ pc[r] = "collect"
        /\ exit' = ServiceOf(asked[r])
    BY <1>4 DEF ServicePanic, Panic, statusVars, requestVars
  <2>2. ASSUME exit' = "mongodb" PROVE reply[r] # None /\ Broken(reply[r].documents)
    <3>1. asked[r] = Path["mongodb"]
      BY <2>1, <2>2, InProgress
    <3>2. ServerStatus!Panics(r)
      BY <1>4, <2>1, <3>1 DEF ServicePanic, ToMongo
    <3>3. reply[r] # None
      BY <3>2 DEF ServerStatus!Panics, ExportedUnbroken
    <3>4. Broken(reply[r].documents)
      BY <3>2 DEF ServerStatus!Panics, ServerStatus!Breaks, Broken
    <3> QED BY <3>3, <3>4
  <2> QED BY <2>1, <2>2 DEF ServiceInv
<1>5. ASSUME NEW r \in Requests, ServiceFinish(r) PROVE ServiceInv'
  <2>1. at' = [at EXCEPT ![r] = 0] /\ \A q \in Requests \ {r} : pc'[q] = pc[q] /\ asked'[q] = asked[q]
    BY <1>a, <1>5 DEF ServiceFinish, Finish, ServerStatus!Forget, TypeOK
  <2>2. exit' # "mongodb" /\ at'[r] = 0
    BY <1>5, <2>1, ExporterAssumption
       DEF ServiceFinish, Finish, Listening, Running, processVars, Service
  <2> QED BY <2>1, <2>2 DEF ServiceInv
<1>6. CASE UNCHANGED serviceVars
  BY <1>6 DEF ServiceInv, serviceVars, vars, processVars, requestVars, statusVars
<1> QED BY <1>1, <1>2, <1>3, <1>4, <1>5, <1>6 DEF ServiceNext, Handle

\* The process ends in the MongoDB exporter by a broken reply, which is never answered.
THEOREM EndsByBroken == ServiceSpec => []OnlyBrokenRepliesEnd
<1>1. ServerStatus!Spec => StatusProofs!Spec
  BY SameExport, PTL DEF ServerStatus!Spec, StatusProofs!Spec
<1>2. StatusProofs!Spec => []StatusProofs!ExportedIsUnbroken
  BY ServiceAssumption, SameExport, StatusProofs!Unbroken
<1>3. StatusProofs!Spec => []StatusProofs!TypeOK
  BY ServiceAssumption, SameExport, StatusProofs!TypeCorrect
<1>4. StatusProofs!TypeOK =>
        /\ at \in [Requests -> 0..ServerStatus!Over]
        /\ reply \in [Requests -> Replies \cup {None}]
  BY DEF StatusProofs!TypeOK, StatusProofs!Over, ServerStatus!Over,
         StatusProofs!Last, ServerStatus!Last, StatusProofs!Sections, ServerStatus!Sections
<1>5. ServiceInit => ServiceInv
  BY ExporterAssumption
     DEF ServiceInit, Init, ServerStatus!Init, ServiceInv, Service
<1>6. IInv => TypeOK
  BY DEF IInv
<1>7. ServiceInv /\ ExportedUnbroken => OnlyBrokenRepliesEnd
  BY DEF ServiceInv, ExportedUnbroken, OnlyBrokenRepliesEnd
<1> QED BY <1>1, <1>2, <1>3, <1>4, <1>5, <1>6, <1>7, ServiceStep, SameExport,
           ImplementsProcess, ImplementsExport, Invariance, PTL DEF ServiceSpec

\* The process in which MongoDB is exported serves what it was told to, and all of it.
THEOREM ServiceServed == ServiceSpec => [](ServedAsConfigured /\ NoPartialMetrics)
BY ImplementsProcess, Served, Whole, PTL

\* All of it keeps to its types.
THEOREM ServiceTypeCorrect == ServiceSpec => []ServiceTypeOK
<1>1. ServerStatus!Spec => StatusProofs!Spec
  BY SameExport, PTL DEF ServerStatus!Spec, StatusProofs!Spec
<1>2. StatusProofs!Spec => []StatusProofs!TypeOK
  BY ServiceAssumption, SameExport, StatusProofs!TypeCorrect
<1>3. StatusProofs!TypeOK /\ TypeOK => ServiceTypeOK
  BY DEF ServiceTypeOK, StatusProofs!TypeOK, ServerStatus!TypeOK,
         StatusProofs!Over, ServerStatus!Over, StatusProofs!Last, ServerStatus!Last,
         StatusProofs!Sections, ServerStatus!Sections, StatusProofs!Group,
         ServerStatus!Group, StatusProofs!PartsOf, ServerStatus!PartsOf,
         StatusProofs!Parts, ServerStatus!Parts, StatusProofs!Engine, ServerStatus!Engine,
         StatusProofs!LocksParts, StatusProofs!MetricsParts, StatusProofs!WiredTigerParts,
         ServerStatus!LocksParts, ServerStatus!MetricsParts, ServerStatus!WiredTigerParts
<1> QED BY <1>1, <1>2, <1>3, ImplementsProcess, ImplementsExport, TypeCorrect, PTL
=============================================================================
