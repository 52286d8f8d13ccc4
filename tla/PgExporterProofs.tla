--------------------------- MODULE PgExporterProofs ---------------------------
(***************************************************************************)
(* Theorems about PgExporter for every number of scrapes, data sources,    *)
(* connections and versions: types, the soundness of the registry, that    *)
(* the maps a scrape reads are whole and do not change under it, that no   *)
(* connection is leaked and that scrapes never wait in a circle; and, with *)
(* the history of PgScrapeHistory, that a scrape on its own has the maps   *)
(* of its version and reports what happened.                               *)
(*                                                                         *)
(* The inductive invariant IInv says which pcs hold what (HandleInv,       *)
(* MutexInv, LockInv) and how far a rebuild has come (MapsInv): MapsWhole  *)
(* alone is not inductive, since nothing in it keeps a scrape from taking  *)
(* the read lock in the middle of a rebuild.                               *)
(***************************************************************************)
EXTENDS PgScrapeHistory, FiniteSetTheorems, TLAPS

NoHandlePC == {"idle", "clear", "lock", "lookup", "report"}
WriterPC == {"wwait"} \cup Building

\* What a scrape has in its hands at each pc: a Server, a version.
HandleInv ==
  \A p \in Scrapers :
    /\ pc[p] \in NoHandlePC => hnd[p] = None
    /\ pc[p] \notin NoHandlePC \cup {"geterr"} => hnd[p] # None
    /\ pc[p] \in {"check", "wlock"} \cup WriterPC => ver[p] # None

\* The registry's mutex is held throughout GetServer, and what is pinged is registered.
MutexInv ==
  \A p \in Scrapers :
    /\ pc[p] \in InGetServer <=> mutex = p
    /\ pc[p] \in {"ping", "pinging"} => hnd[p] = servers[idx[p]]

\* mappingMtx is held by those who are at the pcs that hold it, and a writer that is past
\* its wait is alone.
LockInv ==
  \A h \in Handles, p \in Scrapers :
    /\ srv[h].writer = p <=> hnd[p] = h /\ pc[p] \in WriterPC
    /\ p \in srv[h].readers <=> hnd[p] = h /\ pc[p] \in Reading
    /\ hnd[p] = h /\ pc[p] \in Building => srv[h].readers = {}

Whole(h) ==
  /\ srv[h].metricMap = srv[h].queryOverrides
  /\ srv[h].metricMap # None => srv[h].metricMap.ver = srv[h].lastMapVersion

\* How far the rebuild of a scrape has come.
Progress(p) ==
  /\ pc[p] = "override" =>
       srv[hnd[p]].metricMap = [ver |-> ver[p], user |-> FALSE]
  /\ pc[p] \in {"reset", "read", "merge"} =>
       /\ srv[hnd[p]].queryOverrides = [ver |-> ver[p], user |-> FALSE]
       /\ srv[hnd[p]].lastMapVersion = ver[p]
  /\ pc[p] \in {"reset", "read"} =>
       srv[hnd[p]].metricMap = [ver |-> ver[p], user |-> FALSE]
  /\ pc[p] = "merge" =>
       srv[hnd[p]].metricMap = [ver |-> ver[p], user |-> TRUE]
  /\ pc[p] = "unlock" => Whole(hnd[p])

MapsInv ==
  /\ \A h \in Handles : ~Rebuilding(h) => Whole(h)
  /\ \A p \in Scrapers : Progress(p)

IInv == TypeOK /\ HandleInv /\ RegistrySound /\ MutexInv /\ LockInv /\ MapsInv

-----------------------------------------------------------------------------
\* The initial states satisfy the invariant (NewPostgresExporter).
LEMMA InitInv == Init => IInv
<1> SUFFICES ASSUME Init PROVE IInv
  OBVIOUS
<1> USE ConstantsAssumption DEF Init
<1>1. TypeOK
  BY DEF TypeOK, ServerObject, NewObject, PC, DSN, FileState, PostgresState
<1>2. HandleInv BY DEF HandleInv, NoHandlePC, WriterPC, Building
<1>3. RegistrySound BY DEF RegistrySound
<1>4. MutexInv BY DEF MutexInv, InGetServer
<1>5. LockInv BY DEF LockInv, NewObject, WriterPC, Building, Reading
<1>6. MapsInv BY DEF MapsInv, Whole, Progress, NewObject
<1>7. QED BY <1>1, <1>2, <1>3, <1>4, <1>5, <1>6 DEF IInv

\* A scrape past GetServer has a Server object in its hands.
LEMMA HandleOf ==
  ASSUME IInv, NEW p \in Scrapers, pc[p] \notin NoHandlePC \cup {"geterr"}
  PROVE  hnd[p] \in Handles /\ srv[hnd[p]] \in ServerObject
  BY DEF IInv, HandleInv, TypeOK

\* No two scrapes write the maps of one Server: mappingMtx excludes them.
LEMMA OneWriter ==
  ASSUME IInv, NEW p \in Scrapers, NEW q \in Scrapers,
         pc[p] \in WriterPC, pc[q] \in WriterPC, hnd[p] = hnd[q]
  PROVE  p = q
<1>1. hnd[p] \in Handles
  BY HandleOf DEF WriterPC, Building, NoHandlePC
<1>2. QED BY <1>1 DEF IInv, LockInv

\* A connection taken or given back leaves the Server objects well-formed, ...
LEMMA ConnectionTyped ==
  ASSUME srv \in [Handles -> ServerObject], NEW p \in Scrapers, hnd[p] \in Handles,
         Connect(p) \/ Disconnect(p)
  PROVE  srv' \in [Handles -> ServerObject]
<1>1. PICK cs \in SUBSET Scrapers : srv' = [srv EXCEPT ![hnd[p]].conns = cs]
  <2>1. srv[hnd[p]].conns \cup {p} \in SUBSET Scrapers /\ srv[hnd[p]].conns \ {p} \in SUBSET Scrapers
    BY DEF ServerObject
  <2>2. QED BY <2>1 DEF Connect, Disconnect
<1>2. QED BY <1>1 DEF ServerObject

\* ... and so does a new map of one, ...
LEMMA MapTyped ==
  ASSUME srv \in [Handles -> ServerObject], NEW h \in Handles, NEW m \in MapValue,
         \/ srv' = [srv EXCEPT ![h].metricMap = m]
         \/ srv' = [srv EXCEPT ![h].queryOverrides = m]
  PROVE  srv' \in [Handles -> ServerObject]
  BY DEF ServerObject

\* ... and what a scrape lets go of, if it was well-formed.
LEMMA NextTyped ==
  ASSUME NEW p \in Scrapers, NEW objects \in [Handles -> ServerObject], NextDSN(p, objects)
  PROVE  srv' \in [Handles -> ServerObject]
<1>1. NewObject("unused") \in ServerObject
  BY DEF NewObject, ServerObject
<1>2. QED BY <1>1 DEF NextDSN

\* Every step keeps the Server objects well-formed.
LEMMA ObjectsStep ==
  ASSUME IInv, NEW p \in Scrapers, StartScrape(p) \/ Step(p)
  PROVE  srv' \in [Handles -> ServerObject]
<1> USE HandleOf
<1>0. srv \in [Handles -> ServerObject] /\ ver \in [Scrapers -> Versions \cup {None}]
  BY DEF IInv, TypeOK
<1>1. CASE GetServer(p)
  <2>1. CASE NewServer(p) BY <1>0, <2>1 DEF NewServer, NewObject, ServerObject
  <2>2. CASE StartPing(p) BY <1>0, <2>2, ConnectionTyped DEF StartPing, NoHandlePC
  <2>3. CASE PingSucceeds(p) BY <1>0, <2>3, ConnectionTyped DEF PingSucceeds, NoHandlePC
  <2>4. CASE PingFails(p) BY <1>0, <2>4 DEF PingFails, NoHandlePC, ServerObject
  <2>5. QED BY <1>0, <1>1, <2>1, <2>2, <2>3, <2>4 DEF GetServer, LockServers, Lookup, NewServerFails
<1>2. CASE GetServerFailed(p)
  BY <1>0, <1>2, NextTyped DEF GetServerFailed
<1>3. CASE CheckMapVersions(p)
  <2>1. CASE StartVersionQuery(p) BY <1>0, <2>1, ConnectionTyped DEF StartVersionQuery, NoHandlePC
  <2>2. CASE ReadVersion(p) BY <1>0, <2>2, ConnectionTyped DEF ReadVersion, NoHandlePC
  <2>3. CASE WLock(p)
    <3>1. hnd[p] \in Handles BY <2>3 DEF WLock, NoHandlePC
    <3>2. QED BY <1>0, <2>3, <3>1 DEF WLock, ServerObject
  <2>4. CASE BuildMetricMap(p)
    <3>1. ver[p] \in Versions BY <1>0, <2>4 DEF BuildMetricMap, IInv, HandleInv, WriterPC, Building
    <3>2. [ver |-> ver[p], user |-> FALSE] \in MapValue
      BY <3>1 DEF MapValue
    <3>3. hnd[p] \in Handles
      BY <2>4 DEF BuildMetricMap, NoHandlePC
    <3>4. QED BY <1>0, <2>4, <3>2, <3>3, MapTyped DEF BuildMetricMap
  <2>5. CASE BuildOverrides(p)
    <3>1. ver[p] \in Versions BY <1>0, <2>5 DEF BuildOverrides, IInv, HandleInv, WriterPC, Building
    <3>2. hnd[p] \in Handles /\ srv[hnd[p]] \in ServerObject
      BY <2>5 DEF BuildOverrides, NoHandlePC
    <3>3. [ver |-> ver[p], user |-> FALSE] \in MapValue \cup {None}
      BY <3>1 DEF MapValue
    <3>4. srv' = [srv EXCEPT ![hnd[p]] =
                    [@ EXCEPT !.queryOverrides = [ver |-> ver[p], user |-> FALSE],
                              !.lastMapVersion = ver[p]]]
      BY <1>0, <2>5, <3>2 DEF BuildOverrides
    <3>5. [srv[hnd[p]] EXCEPT !.queryOverrides = [ver |-> ver[p], user |-> FALSE],
                              !.lastMapVersion = ver[p]] \in ServerObject
      BY <3>1, <3>2, <3>3 DEF ServerObject
    <3>6. QED BY <1>0, <3>2, <3>4, <3>5
  <2>6. CASE MergeMetrics(p)
    <3>1. ver[p] \in Versions BY <1>0, <2>6 DEF MergeMetrics, IInv, HandleInv, WriterPC, Building
    <3>2. srv[hnd[p]].metricMap = [ver |-> ver[p], user |-> FALSE]
      <4>1. Progress(p) BY DEF IInv, MapsInv
      <4>2. QED BY <2>6, <4>1 DEF MergeMetrics, Progress
    <3>3. WithUserQueries(srv[hnd[p]].metricMap) \in MapValue
      BY <3>1, <3>2 DEF WithUserQueries, MapValue
    <3>4. hnd[p] \in Handles
      BY <2>6 DEF MergeMetrics, NoHandlePC
    <3>5. QED BY <1>0, <2>6, <3>3, <3>4, MapTyped DEF MergeMetrics
  <2>7. CASE MergeOverrides(p)
    <3>1. ver[p] \in Versions BY <1>0, <2>7 DEF MergeOverrides, IInv, HandleInv, WriterPC, Building
    <3>2. srv[hnd[p]].queryOverrides = [ver |-> ver[p], user |-> FALSE]
      <4>1. Progress(p) BY DEF IInv, MapsInv
      <4>2. QED BY <2>7, <4>1 DEF MergeOverrides, Progress
    <3>3. WithUserQueries(srv[hnd[p]].queryOverrides) \in MapValue
      BY <3>1, <3>2 DEF WithUserQueries, MapValue
    <3>4. hnd[p] \in Handles
      BY <2>7 DEF MergeOverrides, NoHandlePC
    <3>5. QED BY <1>0, <2>7, <3>3, <3>4, MapTyped DEF MergeOverrides
  <2>8. CASE WUnlock(p)
    <3>1. hnd[p] \in Handles /\ srv[hnd[p]] \in ServerObject
      BY <2>8 DEF WUnlock, NoHandlePC
    <3>2. Blocked(hnd[p]) \subseteq Scrapers
      BY DEF Blocked
    <3>3. QED BY <1>0, <2>8, <3>1, <3>2 DEF WUnlock, ServerObject
  <2>9. QED
    BY <1>0, <1>3, <2>1, <2>2, <2>3, <2>4, <2>5, <2>6, <2>7, <2>8
    DEF CheckMapVersions, VersionQueryRefused, VersionFailed, CheckVersion, WAcquire,
      ResetUserQueriesError, UserQueriesFail
<1>4. CASE Scrape(p)
  <2>1. CASE RLock(p)
    <3>1. hnd[p] \in Handles /\ srv[hnd[p]] \in ServerObject
      BY <2>1 DEF RLock, NoHandlePC
    <3>2. PICK rs \in SUBSET Scrapers : srv' = [srv EXCEPT ![hnd[p]].readers = rs]
      <4>1. srv[hnd[p]].readers \cup {p} \in SUBSET Scrapers
        BY <3>1 DEF ServerObject
      <4>2. QED BY <2>1, <4>1 DEF RLock
    <3>3. [srv[hnd[p]] EXCEPT !.readers = rs] \in ServerObject
      BY <3>1, <3>2 DEF ServerObject
    <3>4. QED BY <1>0, <3>1, <3>2, <3>3
  <2>2. CASE StartSettings(p) BY <1>0, <2>2, ConnectionTyped DEF StartSettings, NoHandlePC
  <2>3. CASE EndSettings(p) BY <1>0, <2>3, ConnectionTyped DEF EndSettings, NoHandlePC
  <2>4. CASE StartNamespace(p) BY <1>0, <2>4, ConnectionTyped DEF StartNamespace, NoHandlePC
  <2>5. CASE EndNamespace(p) BY <1>0, <2>5, ConnectionTyped DEF EndNamespace, NoHandlePC
  <2>6. CASE RUnlock(p)
    <3>1. hnd[p] \in Handles /\ srv[hnd[p]] \in ServerObject
      BY <2>6 DEF RUnlock, NoHandlePC
    <3>2. [srv EXCEPT ![hnd[p]].readers = @ \ {p}] \in [Handles -> ServerObject]
      BY <1>0, <3>1 DEF ServerObject
    <3>3. QED BY <2>6, <3>2, NextTyped DEF RUnlock
  <2>7. QED
    BY <1>0, <1>4, <2>1, <2>2, <2>3, <2>4, <2>5, <2>6
    DEF Scrape, RBlock, SkipSettings, SettingsFailed, SkipNamespace, EndNamespaces
<1>5. QED
  BY <1>0, <1>1, <1>2, <1>3, <1>4 DEF Step, StartScrape, ClearUp, MarkUp, Report

\* Every step preserves the types.
LEMMA TypeStep ==
  ASSUME IInv, [Next]_vars
  PROVE  TypeOK'
<1> USE ConstantsAssumption DEF IInv, TypeOK, PC
<1>1. ASSUME NEW p \in Scrapers, StartScrape(p) \/ Step(p) PROVE TypeOK'
  <2>0. srv' \in [Handles -> ServerObject] BY <1>1, ObjectsStep
  <2>1. CASE StartScrape(p)
    BY <2>0, <2>1 DEF StartScrape, Goto, ClearError, envVars, DSN
  <2>2. CASE ClearUp(p)
    BY <2>0, <2>2 DEF ClearUp, Goto, envVars
  <2>3. CASE LockServers(p)
    BY <2>0, <2>3 DEF LockServers, Goto, gaugeVars, envVars
  <2>4. CASE Lookup(p)
    BY <2>0, <2>4 DEF Lookup, Goto, gaugeVars, envVars
  <2>5. CASE NewServer(p)
    BY <2>0, <2>5 DEF NewServer, Goto, gaugeVars, envVars
  <2>6. CASE NewServerFails(p)
    BY <2>0, <2>6 DEF NewServerFails, Goto, UnlockServers, gaugeVars, envVars
  <2>7. CASE StartPing(p)
    BY <2>0, <2>7 DEF StartPing, Goto, gaugeVars, envVars
  <2>8. CASE PingSucceeds(p)
    BY <2>0, <2>8 DEF PingSucceeds, Goto, UnlockServers, gaugeVars, envVars
  <2>9. CASE PingFails(p)
    BY <2>0, <2>9 DEF PingFails, Goto, UnlockServers, Evict, gaugeVars, envVars
  <2>10. CASE GetServerFailed(p)
    BY <2>0, <2>10 DEF GetServerFailed, CountError, Inc, NextDSN, LastDSN, envVars, DSN
  <2>11. CASE MarkUp(p)
    BY <2>0, <2>11 DEF MarkUp, Goto, Inc, envVars
  <2>12. CASE StartVersionQuery(p)
    BY <2>0, <2>12 DEF StartVersionQuery, Goto, gaugeVars, envVars
  <2>13. CASE VersionQueryRefused(p)
    BY <2>0, <2>13 DEF VersionQueryRefused, Goto, gaugeVars, envVars
  <2>14. CASE ReadVersion(p)
    BY <2>0, <2>14 DEF ReadVersion, Goto, gaugeVars, envVars, PostgresState
  <2>15. CASE VersionFailed(p)
    BY <2>0, <2>15 DEF VersionFailed, Goto, CountError, Inc, envVars
  <2>16. CASE CheckVersion(p)
    BY <2>0, <2>16 DEF CheckVersion, Goto, gaugeVars, envVars
  <2>17. CASE WLock(p)
    BY <2>0, <2>17 DEF WLock, Goto, gaugeVars, envVars
  <2>18. CASE WAcquire(p)
    BY <2>0, <2>18 DEF WAcquire, Goto, gaugeVars, envVars
  <2>19. CASE BuildMetricMap(p)
    BY <2>0, <2>19 DEF BuildMetricMap, Goto, gaugeVars, envVars
  <2>20. CASE BuildOverrides(p)
    BY <2>0, <2>20 DEF BuildOverrides, Goto, gaugeVars, envVars
  <2>21. CASE ResetUserQueriesError(p)
    BY <2>0, <2>21 DEF ResetUserQueriesError, Goto, envVars
  <2>22. CASE UserQueriesFail(p)
    BY <2>0, <2>22 DEF UserQueriesFail, Goto, envVars, FileState
  <2>23. CASE MergeMetrics(p)
    BY <2>0, <2>23 DEF MergeMetrics, Goto, gaugeVars, envVars
  <2>24. CASE MergeOverrides(p)
    BY <2>0, <2>24 DEF MergeOverrides, Goto, envVars, FileState
  <2>25. CASE WUnlock(p)
    BY <2>0, <2>25 DEF WUnlock, Blocked, gaugeVars, envVars
  <2>26. CASE RLock(p)
    BY <2>0, <2>26 DEF RLock, Goto, gaugeVars, envVars
  <2>27. CASE RBlock(p)
    BY <2>0, <2>27 DEF RBlock, Goto, gaugeVars, envVars
  <2>28. CASE StartSettings(p)
    BY <2>0, <2>28 DEF StartSettings, Goto, gaugeVars, envVars
  <2>29. CASE SkipSettings(p)
    BY <2>0, <2>29 DEF SkipSettings, Goto, gaugeVars, envVars
  <2>30. CASE EndSettings(p)
    BY <2>0, <2>30 DEF EndSettings, Goto, gaugeVars, envVars
  <2>31. CASE SettingsFailed(p)
    BY <2>0, <2>31 DEF SettingsFailed, Goto, CountError, Inc, envVars
  <2>32. CASE StartNamespace(p)
    BY <2>0, <2>32 DEF StartNamespace, Goto, Remaining, gaugeVars, envVars, Namespaces
  <2>33. CASE SkipNamespace(p)
    BY <2>0, <2>33 DEF SkipNamespace, Remaining, gaugeVars, envVars, Namespaces
  <2>34. CASE EndNamespace(p)
    BY <2>0, <2>34 DEF EndNamespace, Goto, gaugeVars, envVars
  <2>35. CASE EndNamespaces(p)
    BY <2>0, <2>35 DEF EndNamespaces, Goto, CountError, Inc, Remaining, envVars
  <2>36. CASE RUnlock(p)
    <3>1. idx' \in [Scrapers -> DSN] BY <2>36 DEF RUnlock, NextDSN, LastDSN, DSN
    <3>2. QED BY <2>0, <2>36, <3>1 DEF RUnlock, NextDSN, gaugeVars, envVars
  <2>37. CASE Report(p)
    BY <2>0, <2>37 DEF Report, Goto, gaugeVars, envVars, DSN
  <2>38. QED BY <1>1, <2>1, <2>2, <2>3, <2>4, <2>5, <2>6, <2>7, <2>8, <2>9, <2>10, <2>11,
      <2>12, <2>13, <2>14, <2>15, <2>16, <2>17, <2>18, <2>19, <2>20, <2>21, <2>22, <2>23,
      <2>24, <2>25, <2>26, <2>27, <2>28, <2>29, <2>30, <2>31, <2>32, <2>33, <2>34, <2>35,
      <2>36, <2>37 DEF Step, GetServer, CheckMapVersions, Scrape
<1>2. CASE Environment BY <1>2 DEF Environment, StopPostgres, StartPostgres, EditFile,
    scrapeVars, gaugeVars, envVars, PostgresState
<1>3. CASE UNCHANGED vars BY <1>3 DEF vars, scrapeVars, gaugeVars, envVars
<1>4. QED BY <1>1, <1>2, <1>3 DEF Next

\* A scrape gets a Server in GetServer and a version in checkMapVersions, and gives up
\* both at the end of scrapeDSN.
LEMMA HandleStep ==
  ASSUME IInv, [Next]_vars
  PROVE  HandleInv'
<1> USE ConstantsAssumption DEF IInv, TypeOK, HandleInv, NoHandlePC, WriterPC, Building
<1>1. ASSUME NEW p \in Scrapers, StartScrape(p) \/ Step(p) PROVE HandleInv'
  <2>1. CASE StartScrape(p)
    BY <2>1 DEF StartScrape, Goto, envVars
  <2>2. CASE ClearUp(p)
    BY <2>2 DEF ClearUp, Goto, envVars
  <2>3. CASE LockServers(p)
    BY <2>3 DEF LockServers, Goto, gaugeVars, envVars
  <2>4. CASE Lookup(p)
    BY <2>4 DEF Lookup, Goto, gaugeVars, envVars
  <2>5. CASE NewServer(p)
    BY <2>5 DEF NewServer, Goto, gaugeVars, envVars
  <2>6. CASE NewServerFails(p)
    BY <2>6 DEF NewServerFails, Goto, gaugeVars, envVars
  <2>7. CASE StartPing(p)
    BY <2>7 DEF StartPing, Goto, gaugeVars, envVars
  <2>8. CASE PingSucceeds(p)
    BY <2>8 DEF PingSucceeds, Goto, gaugeVars, envVars
  <2>9. CASE PingFails(p)
    BY <2>9 DEF PingFails, Goto, Evict, gaugeVars, envVars
  <2>10. CASE GetServerFailed(p)
    BY <2>10 DEF GetServerFailed, NextDSN, envVars
  <2>11. CASE MarkUp(p)
    BY <2>11 DEF MarkUp, Goto, envVars
  <2>12. CASE StartVersionQuery(p)
    BY <2>12 DEF StartVersionQuery, Goto, gaugeVars, envVars
  <2>13. CASE VersionQueryRefused(p)
    BY <2>13 DEF VersionQueryRefused, Goto, gaugeVars, envVars
  <2>14. CASE ReadVersion(p)
    BY <2>14 DEF ReadVersion, Goto, gaugeVars, envVars
  <2>15. CASE VersionFailed(p)
    BY <2>15 DEF VersionFailed, Goto, envVars
  <2>16. CASE CheckVersion(p)
    BY <2>16 DEF CheckVersion, Goto, gaugeVars, envVars
  <2>17. CASE WLock(p)
    BY <2>17 DEF WLock, Goto, gaugeVars, envVars
  <2>18. CASE WAcquire(p)
    BY <2>18 DEF WAcquire, Goto, gaugeVars, envVars
  <2>19. CASE BuildMetricMap(p)
    BY <2>19 DEF BuildMetricMap, Goto, gaugeVars, envVars
  <2>20. CASE BuildOverrides(p)
    BY <2>20 DEF BuildOverrides, Goto, gaugeVars, envVars
  <2>21. CASE ResetUserQueriesError(p)
    BY <2>21 DEF ResetUserQueriesError, Goto, envVars
  <2>22. CASE UserQueriesFail(p)
    BY <2>22 DEF UserQueriesFail, Goto, envVars
  <2>23. CASE MergeMetrics(p)
    BY <2>23 DEF MergeMetrics, Goto, gaugeVars, envVars
  <2>24. CASE MergeOverrides(p)
    BY <2>24 DEF MergeOverrides, Goto, envVars
  <2>25. CASE WUnlock(p)
    BY <2>25 DEF WUnlock, Blocked, gaugeVars, envVars
  <2>26. CASE RLock(p)
    BY <2>26 DEF RLock, Goto, gaugeVars, envVars
  <2>27. CASE RBlock(p)
    BY <2>27 DEF RBlock, Goto, gaugeVars, envVars
  <2>28. CASE StartSettings(p)
    BY <2>28 DEF StartSettings, Goto, gaugeVars, envVars
  <2>29. CASE SkipSettings(p)
    BY <2>29 DEF SkipSettings, Goto, gaugeVars, envVars
  <2>30. CASE EndSettings(p)
    BY <2>30 DEF EndSettings, Goto, gaugeVars, envVars
  <2>31. CASE SettingsFailed(p)
    BY <2>31 DEF SettingsFailed, Goto, envVars
  <2>32. CASE StartNamespace(p)
    BY <2>32 DEF StartNamespace, Goto, Remaining, gaugeVars, envVars
  <2>33. CASE SkipNamespace(p)
    BY <2>33 DEF SkipNamespace, Remaining, gaugeVars, envVars
  <2>34. CASE EndNamespace(p)
    BY <2>34 DEF EndNamespace, Goto, gaugeVars, envVars
  <2>35. CASE EndNamespaces(p)
    BY <2>35 DEF EndNamespaces, Goto, Remaining, envVars
  <2>36. CASE RUnlock(p)
    BY <2>36 DEF RUnlock, NextDSN, gaugeVars, envVars
  <2>37. CASE Report(p)
    BY <2>37 DEF Report, Goto, gaugeVars, envVars
  <2>38. QED BY <1>1, <2>1, <2>2, <2>3, <2>4, <2>5, <2>6, <2>7, <2>8, <2>9, <2>10, <2>11,
      <2>12, <2>13, <2>14, <2>15, <2>16, <2>17, <2>18, <2>19, <2>20, <2>21, <2>22, <2>23,
      <2>24, <2>25, <2>26, <2>27, <2>28, <2>29, <2>30, <2>31, <2>32, <2>33, <2>34, <2>35,
      <2>36, <2>37 DEF Step, GetServer, CheckMapVersions, Scrape
<1>2. CASE Environment BY <1>2 DEF Environment, StopPostgres, StartPostgres, EditFile,
    scrapeVars, gaugeVars, envVars
<1>3. CASE UNCHANGED vars BY <1>3 DEF vars, scrapeVars, gaugeVars, envVars
<1>4. QED BY <1>1, <1>2, <1>3 DEF Next

\* The registry keeps open Servers only, and nobody keeps garbage.
LEMMA RegistryStep ==
  ASSUME IInv, [Next]_vars
  PROVE  RegistrySound'
<1> USE ConstantsAssumption DEF IInv, TypeOK, HandleInv, MutexInv, RegistrySound,
    NoHandlePC, ServerObject
<1>1. ASSUME NEW p \in Scrapers, StartScrape(p) \/ Step(p) PROVE RegistrySound'
  <2>1. CASE StartScrape(p)
    BY <2>1 DEF StartScrape, envVars
  <2>2. CASE ClearUp(p)
    BY <2>2 DEF ClearUp, envVars
  <2>3. CASE LockServers(p)
    BY <2>3 DEF LockServers, gaugeVars, envVars
  <2>4. CASE Lookup(p)
    BY <2>4 DEF Lookup, gaugeVars, envVars
  <2>5. CASE NewServer(p)
    BY <2>5 DEF NewServer, NewObject, gaugeVars, envVars
  <2>6. CASE NewServerFails(p)
    BY <2>6 DEF NewServerFails, gaugeVars, envVars
  <2>7. CASE StartPing(p)
    BY <2>7 DEF StartPing, Connect, CanConnect, gaugeVars, envVars
  <2>8. CASE PingSucceeds(p)
    BY <2>8 DEF PingSucceeds, Disconnect, gaugeVars, envVars
  <2>9. CASE PingFails(p)
    BY <2>9 DEF PingFails, Evict, gaugeVars, envVars
  <2>10. CASE GetServerFailed(p)
    BY <2>10 DEF GetServerFailed, NextDSN, NewObject, envVars
  <2>11. CASE MarkUp(p)
    BY <2>11 DEF MarkUp, envVars
  <2>12. CASE StartVersionQuery(p)
    BY <2>12 DEF StartVersionQuery, Connect, CanConnect, gaugeVars, envVars
  <2>13. CASE VersionQueryRefused(p)
    BY <2>13 DEF VersionQueryRefused, gaugeVars, envVars
  <2>14. CASE ReadVersion(p)
    BY <2>14 DEF ReadVersion, Disconnect, gaugeVars, envVars
  <2>15. CASE VersionFailed(p)
    BY <2>15 DEF VersionFailed, envVars
  <2>16. CASE CheckVersion(p)
    BY <2>16 DEF CheckVersion, gaugeVars, envVars
  <2>17. CASE WLock(p)
    BY <2>17 DEF WLock, gaugeVars, envVars
  <2>18. CASE WAcquire(p)
    BY <2>18 DEF WAcquire, ReadersGone, gaugeVars, envVars
  <2>19. CASE BuildMetricMap(p)
    BY <2>19 DEF BuildMetricMap, gaugeVars, envVars
  <2>20. CASE BuildOverrides(p)
    BY <2>20 DEF BuildOverrides, gaugeVars, envVars
  <2>21. CASE ResetUserQueriesError(p)
    BY <2>21 DEF ResetUserQueriesError, envVars
  <2>22. CASE UserQueriesFail(p)
    BY <2>22 DEF UserQueriesFail, envVars
  <2>23. CASE MergeMetrics(p)
    BY <2>23 DEF MergeMetrics, gaugeVars, envVars
  <2>24. CASE MergeOverrides(p)
    BY <2>24 DEF MergeOverrides, envVars
  <2>25. CASE WUnlock(p)
    BY <2>25 DEF WUnlock, Blocked, gaugeVars, envVars
  <2>26. CASE RLock(p)
    BY <2>26 DEF RLock, WriterGone, gaugeVars, envVars
  <2>27. CASE RBlock(p)
    BY <2>27 DEF RBlock, WriterGone, gaugeVars, envVars
  <2>28. CASE StartSettings(p)
    BY <2>28 DEF StartSettings, Connect, CanConnect, gaugeVars, envVars
  <2>29. CASE SkipSettings(p)
    BY <2>29 DEF SkipSettings, gaugeVars, envVars
  <2>30. CASE EndSettings(p)
    BY <2>30 DEF EndSettings, Disconnect, gaugeVars, envVars
  <2>31. CASE SettingsFailed(p)
    BY <2>31 DEF SettingsFailed, envVars
  <2>32. CASE StartNamespace(p)
    BY <2>32 DEF StartNamespace, Connect, CanConnect, Remaining, gaugeVars, envVars
  <2>33. CASE SkipNamespace(p)
    BY <2>33 DEF SkipNamespace, Remaining, gaugeVars, envVars
  <2>34. CASE EndNamespace(p)
    BY <2>34 DEF EndNamespace, Disconnect, gaugeVars, envVars
  <2>35. CASE EndNamespaces(p)
    BY <2>35 DEF EndNamespaces, Remaining, envVars
  <2>36. CASE RUnlock(p)
    BY <2>36 DEF RUnlock, NextDSN, NewObject, gaugeVars, envVars
  <2>37. CASE Report(p)
    BY <2>37 DEF Report, gaugeVars, envVars
  <2>38. QED BY <1>1, <2>1, <2>2, <2>3, <2>4, <2>5, <2>6, <2>7, <2>8, <2>9, <2>10, <2>11,
      <2>12, <2>13, <2>14, <2>15, <2>16, <2>17, <2>18, <2>19, <2>20, <2>21, <2>22, <2>23,
      <2>24, <2>25, <2>26, <2>27, <2>28, <2>29, <2>30, <2>31, <2>32, <2>33, <2>34, <2>35,
      <2>36, <2>37 DEF Step, GetServer, CheckMapVersions, Scrape
<1>2. CASE Environment BY <1>2 DEF Environment, StopPostgres, StartPostgres, EditFile,
    scrapeVars, gaugeVars, envVars
<1>3. CASE UNCHANGED vars BY <1>3 DEF vars, scrapeVars, gaugeVars, envVars
<1>4. QED BY <1>1, <1>2, <1>3 DEF Next

\* Servers.m is taken and released by GetServer alone.
LEMMA MutexStep ==
  ASSUME IInv, [Next]_vars
  PROVE  MutexInv'
<1> USE ConstantsAssumption DEF IInv, TypeOK, MutexInv, InGetServer
<1>1. ASSUME NEW p \in Scrapers, StartScrape(p) \/ Step(p) PROVE MutexInv'
  <2>1. CASE StartScrape(p)
    BY <2>1 DEF StartScrape, Goto, envVars
  <2>2. CASE ClearUp(p)
    BY <2>2 DEF ClearUp, Goto, envVars
  <2>3. CASE LockServers(p)
    BY <2>3 DEF LockServers, Goto, gaugeVars, envVars
  <2>4. CASE Lookup(p)
    BY <2>4 DEF Lookup, Goto, gaugeVars, envVars
  <2>5. CASE NewServer(p)
    BY <2>5 DEF NewServer, Goto, gaugeVars, envVars, HandleInv, NoHandlePC
  <2>6. CASE NewServerFails(p)
    BY <2>6 DEF NewServerFails, Goto, UnlockServers, gaugeVars, envVars
  <2>7. CASE StartPing(p)
    BY <2>7 DEF StartPing, Goto, gaugeVars, envVars
  <2>8. CASE PingSucceeds(p)
    BY <2>8 DEF PingSucceeds, Goto, UnlockServers, gaugeVars, envVars
  <2>9. CASE PingFails(p)
    BY <2>9 DEF PingFails, Goto, UnlockServers, Evict, gaugeVars, envVars
  <2>10. CASE GetServerFailed(p)
    BY <2>10 DEF GetServerFailed, NextDSN, LastDSN, envVars
  <2>11. CASE MarkUp(p)
    BY <2>11 DEF MarkUp, Goto, envVars
  <2>12. CASE StartVersionQuery(p)
    BY <2>12 DEF StartVersionQuery, Goto, gaugeVars, envVars
  <2>13. CASE VersionQueryRefused(p)
    BY <2>13 DEF VersionQueryRefused, Goto, gaugeVars, envVars
  <2>14. CASE ReadVersion(p)
    BY <2>14 DEF ReadVersion, Goto, gaugeVars, envVars
  <2>15. CASE VersionFailed(p)
    BY <2>15 DEF VersionFailed, Goto, envVars
  <2>16. CASE CheckVersion(p)
    BY <2>16 DEF CheckVersion, Goto, gaugeVars, envVars
  <2>17. CASE WLock(p)
    BY <2>17 DEF WLock, Goto, gaugeVars, envVars
  <2>18. CASE WAcquire(p)
    BY <2>18 DEF WAcquire, Goto, gaugeVars, envVars
  <2>19. CASE BuildMetricMap(p)
    BY <2>19 DEF BuildMetricMap, Goto, gaugeVars, envVars
  <2>20. CASE BuildOverrides(p)
    BY <2>20 DEF BuildOverrides, Goto, gaugeVars, envVars
  <2>21. CASE ResetUserQueriesError(p)
    BY <2>21 DEF ResetUserQueriesError, Goto, envVars
  <2>22. CASE UserQueriesFail(p)
    BY <2>22 DEF UserQueriesFail, Goto, envVars
  <2>23. CASE MergeMetrics(p)
    BY <2>23 DEF MergeMetrics, Goto, gaugeVars, envVars
  <2>24. CASE MergeOverrides(p)
    BY <2>24 DEF MergeOverrides, Goto, envVars
  <2>25. CASE WUnlock(p)
    BY <2>25 DEF WUnlock, Blocked, gaugeVars, envVars
  <2>26. CASE RLock(p)
    BY <2>26 DEF RLock, Goto, gaugeVars, envVars
  <2>27. CASE RBlock(p)
    BY <2>27 DEF RBlock, Goto, gaugeVars, envVars
  <2>28. CASE StartSettings(p)
    BY <2>28 DEF StartSettings, Goto, gaugeVars, envVars
  <2>29. CASE SkipSettings(p)
    BY <2>29 DEF SkipSettings, Goto, gaugeVars, envVars
  <2>30. CASE EndSettings(p)
    BY <2>30 DEF EndSettings, Goto, gaugeVars, envVars
  <2>31. CASE SettingsFailed(p)
    BY <2>31 DEF SettingsFailed, Goto, envVars
  <2>32. CASE StartNamespace(p)
    BY <2>32 DEF StartNamespace, Goto, Remaining, gaugeVars, envVars
  <2>33. CASE SkipNamespace(p)
    BY <2>33 DEF SkipNamespace, Remaining, gaugeVars, envVars
  <2>34. CASE EndNamespace(p)
    BY <2>34 DEF EndNamespace, Goto, gaugeVars, envVars
  <2>35. CASE EndNamespaces(p)
    BY <2>35 DEF EndNamespaces, Goto, Remaining, envVars
  <2>36. CASE RUnlock(p)
    BY <2>36 DEF RUnlock, NextDSN, LastDSN, gaugeVars, envVars
  <2>37. CASE Report(p)
    BY <2>37 DEF Report, Goto, gaugeVars, envVars
  <2>38. QED BY <1>1, <2>1, <2>2, <2>3, <2>4, <2>5, <2>6, <2>7, <2>8, <2>9, <2>10, <2>11,
      <2>12, <2>13, <2>14, <2>15, <2>16, <2>17, <2>18, <2>19, <2>20, <2>21, <2>22, <2>23,
      <2>24, <2>25, <2>26, <2>27, <2>28, <2>29, <2>30, <2>31, <2>32, <2>33, <2>34, <2>35,
      <2>36, <2>37 DEF Step, GetServer, CheckMapVersions, Scrape
<1>2. CASE Environment BY <1>2 DEF Environment, StopPostgres, StartPostgres, EditFile,
    scrapeVars, gaugeVars, envVars
<1>3. CASE UNCHANGED vars BY <1>3 DEF vars, scrapeVars, gaugeVars, envVars
<1>4. QED BY <1>1, <1>2, <1>3 DEF Next

\* mappingMtx is taken and released as sync.RWMutex prescribes.
LEMMA LockStep ==
  ASSUME IInv, [Next]_vars
  PROVE  LockInv'
<1> USE ConstantsAssumption DEF IInv, TypeOK, HandleInv, RegistrySound, LockInv, NoHandlePC,
    WriterPC, Building, Reading, ServerObject
<1>1. ASSUME NEW p \in Scrapers, StartScrape(p) \/ Step(p) PROVE LockInv'
  <2>1. CASE StartScrape(p)
    BY <2>1 DEF StartScrape, Goto, envVars
  <2>2. CASE ClearUp(p)
    BY <2>2 DEF ClearUp, Goto, envVars
  <2>3. CASE LockServers(p)
    BY <2>3 DEF LockServers, Goto, gaugeVars, envVars
  <2>4. CASE Lookup(p)
    BY <2>4 DEF Lookup, Goto, gaugeVars, envVars
  <2>5. CASE NewServer(p)
    BY <2>5 DEF NewServer, Goto, NewObject, gaugeVars, envVars
  <2>6. CASE NewServerFails(p)
    BY <2>6 DEF NewServerFails, Goto, gaugeVars, envVars
  <2>7. CASE StartPing(p)
    BY <2>7 DEF StartPing, Goto, Connect, gaugeVars, envVars
  <2>8. CASE PingSucceeds(p)
    BY <2>8 DEF PingSucceeds, Goto, Disconnect, gaugeVars, envVars
  <2>9. CASE PingFails(p)
    BY <2>9 DEF PingFails, Goto, gaugeVars, envVars
  <2>10. CASE GetServerFailed(p)
    BY <2>10 DEF GetServerFailed, NextDSN, LastDSN, NewObject, envVars
  <2>11. CASE MarkUp(p)
    BY <2>11 DEF MarkUp, Goto, envVars
  <2>12. CASE StartVersionQuery(p)
    BY <2>12 DEF StartVersionQuery, Goto, Connect, gaugeVars, envVars
  <2>13. CASE VersionQueryRefused(p)
    BY <2>13 DEF VersionQueryRefused, Goto, gaugeVars, envVars
  <2>14. CASE ReadVersion(p)
    BY <2>14 DEF ReadVersion, Goto, Disconnect, gaugeVars, envVars
  <2>15. CASE VersionFailed(p)
    BY <2>15 DEF VersionFailed, Goto, envVars
  <2>16. CASE CheckVersion(p)
    BY <2>16 DEF CheckVersion, Goto, gaugeVars, envVars
  <2>17. CASE WLock(p)
    BY <2>17 DEF WLock, Goto, gaugeVars, envVars
  <2>18. CASE WAcquire(p)
    BY <2>18 DEF WAcquire, Goto, ReadersGone, gaugeVars, envVars
  <2>19. CASE BuildMetricMap(p)
    BY <2>19 DEF BuildMetricMap, Goto, gaugeVars, envVars
  <2>20. CASE BuildOverrides(p)
    BY <2>20 DEF BuildOverrides, Goto, gaugeVars, envVars
  <2>21. CASE ResetUserQueriesError(p)
    BY <2>21 DEF ResetUserQueriesError, Goto, envVars
  <2>22. CASE UserQueriesFail(p)
    BY <2>22 DEF UserQueriesFail, Goto, envVars
  <2>23. CASE MergeMetrics(p)
    BY <2>23 DEF MergeMetrics, Goto, gaugeVars, envVars
  <2>24. CASE MergeOverrides(p)
    BY <2>24 DEF MergeOverrides, Goto, envVars
  <2>25. CASE WUnlock(p)
    BY <2>25 DEF WUnlock, Blocked, gaugeVars, envVars
  <2>26. CASE RLock(p)
    BY <2>26 DEF RLock, Goto, WriterGone, gaugeVars, envVars
  <2>27. CASE RBlock(p)
    BY <2>27 DEF RBlock, Goto, WriterGone, gaugeVars, envVars
  <2>28. CASE StartSettings(p)
    BY <2>28 DEF StartSettings, Goto, Connect, gaugeVars, envVars
  <2>29. CASE SkipSettings(p)
    BY <2>29 DEF SkipSettings, Goto, gaugeVars, envVars
  <2>30. CASE EndSettings(p)
    BY <2>30 DEF EndSettings, Goto, Disconnect, gaugeVars, envVars
  <2>31. CASE SettingsFailed(p)
    BY <2>31 DEF SettingsFailed, Goto, envVars
  <2>32. CASE StartNamespace(p)
    BY <2>32 DEF StartNamespace, Goto, Connect, Remaining, gaugeVars, envVars
  <2>33. CASE SkipNamespace(p)
    BY <2>33 DEF SkipNamespace, Remaining, gaugeVars, envVars
  <2>34. CASE EndNamespace(p)
    BY <2>34 DEF EndNamespace, Goto, Disconnect, gaugeVars, envVars
  <2>35. CASE EndNamespaces(p)
    BY <2>35 DEF EndNamespaces, Goto, Remaining, envVars
  <2>36. CASE RUnlock(p)
    BY <2>36 DEF RUnlock, NextDSN, LastDSN, NewObject, gaugeVars, envVars
  <2>37. CASE Report(p)
    BY <2>37 DEF Report, Goto, gaugeVars, envVars
  <2>38. QED BY <1>1, <2>1, <2>2, <2>3, <2>4, <2>5, <2>6, <2>7, <2>8, <2>9, <2>10, <2>11,
      <2>12, <2>13, <2>14, <2>15, <2>16, <2>17, <2>18, <2>19, <2>20, <2>21, <2>22, <2>23,
      <2>24, <2>25, <2>26, <2>27, <2>28, <2>29, <2>30, <2>31, <2>32, <2>33, <2>34, <2>35,
      <2>36, <2>37 DEF Step, GetServer, CheckMapVersions, Scrape
<1>2. CASE Environment BY <1>2 DEF Environment, StopPostgres, StartPostgres, EditFile,
    scrapeVars, gaugeVars, envVars
<1>3. CASE UNCHANGED vars BY <1>3 DEF vars, scrapeVars, gaugeVars, envVars
<1>4. QED BY <1>1, <1>2, <1>3 DEF Next

\* While a scrape rebuilds the maps of its Server, those of the other Servers stand still.
LEMMA OwnRebuild ==
  ASSUME IInv, NEW p \in Scrapers, pc[p] \in Building,
         NEW l \in Building, pc' = [pc EXCEPT ![p] = l],
         hnd' = hnd, ver' = ver,
         \A h \in Handles \ {hnd[p]} : srv'[h] = srv[h],
         srv'[hnd[p]].writer = srv[hnd[p]].writer,
         Progress(p)'
  PROVE  MapsInv'
<1>1. /\ hnd[p] \in Handles
      /\ pc[p] \in WriterPC
      /\ srv[hnd[p]].writer = p
  BY HandleOf DEF IInv, LockInv, WriterPC, Building, NoHandlePC
<1>2. \A q \in Scrapers \ {p} : pc[q] \in Building =>
        hnd[q] # hnd[p] /\ hnd[q] \in Handles
  BY <1>1, OneWriter, HandleOf DEF WriterPC, Building, NoHandlePC
<1>3. pc \in [Scrapers -> PC] BY DEF IInv, TypeOK
<1>4. ASSUME NEW h \in Handles, ~Rebuilding(h)' PROVE Whole(h)'
  <2>1. h # hnd[p] BY <1>1, <1>3, <1>4, ConstantsAssumption DEF Rebuilding
  <2>2. ~Rebuilding(h) BY <1>3, <1>4, <2>1 DEF Rebuilding
  <2>3. Whole(h) BY <2>2 DEF IInv, MapsInv
  <2>4. QED BY <2>1, <2>3 DEF Whole
<1>5. ASSUME NEW q \in Scrapers PROVE Progress(q)'
  <2>1. CASE q = p BY <2>1
  <2>2. CASE q # p
    <3>1. Progress(q) BY DEF IInv, MapsInv
    <3>2. pc'[q] = pc[q] BY <1>3, <2>2
    <3>3. QED BY <1>2, <2>2, <3>1, <3>2 DEF Progress, Whole, Building
  <2>3. QED BY <2>1, <2>2
<1>6. QED BY <1>4, <1>5 DEF MapsInv

\* A step of a scrape that rebuilds nothing leaves each Server's maps as they are, or
\* forgets them with the Server when nobody else refers to it.
LEMMA MapsKept ==
  ASSUME IInv, NEW p \in Scrapers, pc[p] \notin WriterPC,
         NEW l \in PC \ WriterPC, pc' = [pc EXCEPT ![p] = l],
         \A q \in Scrapers \ {p} : hnd'[q] = hnd[q] /\ ver'[q] = ver[q],
         \A h \in Handles :
           \/ /\ srv'[h].writer = srv[h].writer
              /\ srv'[h].metricMap = srv[h].metricMap
              /\ srv'[h].queryOverrides = srv[h].queryOverrides
              /\ srv'[h].lastMapVersion = srv[h].lastMapVersion
           \/ /\ srv'[h] = NewObject("unused")
              /\ \A q \in Scrapers \ {p} : hnd[q] # h
  PROVE  MapsInv'
<1>1. pc \in [Scrapers -> PC] BY DEF IInv, TypeOK
<1>2. ASSUME NEW h \in Handles, ~Rebuilding(h)' PROVE Whole(h)'
  <2>1. CASE srv'[h] = NewObject("unused") BY <2>1 DEF NewObject, Whole
  <2>2. CASE srv'[h] # NewObject("unused")
    <3>1. srv'[h].writer = srv[h].writer BY <2>2
    <3>2. ~Rebuilding(h)
      BY <1>1, <1>2, <3>1 DEF Rebuilding, WriterPC, IInv, TypeOK, ServerObject
    <3>3. Whole(h) BY <3>2 DEF IInv, MapsInv
    <3>4. QED BY <2>2, <3>3 DEF Whole
  <2>3. QED BY <2>1, <2>2
<1>3. ASSUME NEW q \in Scrapers PROVE Progress(q)'
  <2>1. CASE pc'[q] \notin Building
    BY <2>1 DEF Progress, Building
  <2>2. CASE pc'[q] \in Building
    <3>1. q # p /\ pc'[q] = pc[q] BY <1>1, <2>2 DEF WriterPC
    <3>2. hnd[q] \in Handles BY <2>2, <3>1, HandleOf DEF Building, NoHandlePC
    <3>3. Progress(q) BY DEF IInv, MapsInv
    <3>4. QED BY <3>1, <3>2, <3>3 DEF Progress, Whole
  <2>3. QED BY <2>1, <2>2
<1>4. QED BY <1>2, <1>3 DEF MapsInv

\* ... also when a scrape is done with a Server, which goes back unused if no one has it.
LEMMA MapsAfterRUnlock ==
  ASSUME IInv, NEW p \in Scrapers, RUnlock(p)
  PROVE  MapsInv'
<1>1. pc[p] \notin WriterPC /\ {"lock", "report"} \subseteq PC \ WriterPC
  BY DEF RUnlock, WriterPC, Building, PC
<1>2. \A h \in Handles :
        \/ /\ srv'[h].writer = srv[h].writer
           /\ srv'[h].metricMap = srv[h].metricMap
           /\ srv'[h].queryOverrides = srv[h].queryOverrides
           /\ srv'[h].lastMapVersion = srv[h].lastMapVersion
        \/ /\ srv'[h] = NewObject("unused")
           /\ \A q \in Scrapers \ {p} : hnd[q] # h
  <2>1. srv \in [Handles -> ServerObject]
    BY DEF IInv, TypeOK
  <2>2. ASSUME NEW h \in Handles
        PROVE  \/ /\ srv'[h] = NewObject("unused")
                  /\ \A q \in Scrapers \ {p} : hnd[q] # h
               \/ srv'[h] = [srv EXCEPT ![hnd[p]].readers = @ \ {p}][h]
    BY DEF RUnlock, NextDSN
  <2>3. ASSUME NEW h \in Handles, srv'[h] = [srv EXCEPT ![hnd[p]].readers = @ \ {p}][h]
        PROVE  /\ srv'[h].writer = srv[h].writer
               /\ srv'[h].metricMap = srv[h].metricMap
               /\ srv'[h].queryOverrides = srv[h].queryOverrides
               /\ srv'[h].lastMapVersion = srv[h].lastMapVersion
    <3>1. CASE h = hnd[p]
      <4>1. srv'[h] = [srv[h] EXCEPT !.readers = @ \ {p}]
        BY <2>1, <2>3, <3>1
      <4>2. QED BY <2>1, <4>1 DEF ServerObject
    <3>2. CASE h # hnd[p]
      <4>1. srv'[h] = srv[h]
        BY <2>1, <2>3, <3>2
      <4>2. QED BY <4>1
    <3>3. QED BY <3>1, <3>2
  <2>4. QED BY <2>2, <2>3
<1>3. \A q \in Scrapers \ {p} : hnd'[q] = hnd[q] /\ ver'[q] = ver[q]
  BY DEF RUnlock, NextDSN, IInv, TypeOK
<1>4. PICK l \in {"lock", "report"} : pc' = [pc EXCEPT ![p] = l]
  BY DEF RUnlock, NextDSN
<1>5. l \in PC \ WriterPC /\ pc[p] \notin WriterPC
  BY <1>1, <1>4
<1>6. QED BY <1>2, <1>3, <1>4, <1>5, MapsKept

\* A rebuild starts from whole maps, goes through its stages in order and ends in whole maps.
LEMMA MapsStep ==
  ASSUME IInv, [Next]_vars
  PROVE  MapsInv'
<1> USE ConstantsAssumption DEF IInv, TypeOK, HandleInv, MapsInv, Progress, Whole,
    Rebuilding, LockInv, RegistrySound, NoHandlePC, WriterPC, Building, ServerObject
<1>1. ASSUME NEW p \in Scrapers, StartScrape(p) \/ Step(p) PROVE MapsInv'
  <2>1. CASE StartScrape(p)
    BY <2>1 DEF StartScrape, Goto, envVars
  <2>2. CASE ClearUp(p)
    BY <2>2 DEF ClearUp, Goto, envVars
  <2>3. CASE LockServers(p)
    BY <2>3 DEF LockServers, Goto, gaugeVars, envVars
  <2>4. CASE Lookup(p)
    BY <2>4 DEF Lookup, Goto, gaugeVars, envVars
  <2>5. CASE NewServer(p)
    BY <2>5 DEF NewServer, Goto, NewObject, gaugeVars, envVars
  <2>6. CASE NewServerFails(p)
    BY <2>6 DEF NewServerFails, Goto, gaugeVars, envVars
  <2>7. CASE StartPing(p)
    BY <2>7 DEF StartPing, Goto, Connect, gaugeVars, envVars
  <2>8. CASE PingSucceeds(p)
    BY <2>8 DEF PingSucceeds, Goto, Disconnect, gaugeVars, envVars
  <2>9. CASE PingFails(p)
    <3>1. pc[p] \notin WriterPC /\ "geterr" \in PC \ WriterPC
      BY <2>9 DEF PingFails, WriterPC, Building, PC
    <3>2. hnd' = hnd /\ ver' = ver /\ pc' = [pc EXCEPT ![p] = "geterr"]
      BY <2>9 DEF PingFails, Goto
    <3>3. ASSUME NEW h \in Handles
          PROVE  /\ srv'[h].writer = srv[h].writer
                 /\ srv'[h].metricMap = srv[h].metricMap
                 /\ srv'[h].queryOverrides = srv[h].queryOverrides
                 /\ srv'[h].lastMapVersion = srv[h].lastMapVersion
      BY <2>9 DEF PingFails, IInv, TypeOK, ServerObject
    <3>4. \A q \in Scrapers \ {p} : hnd'[q] = hnd[q] /\ ver'[q] = ver[q]
      BY <3>2
    <3>5. "geterr" \in PC \ WriterPC /\ pc' = [pc EXCEPT ![p] = "geterr"]
      BY <3>1, <3>2
    <3>6. QED BY <3>1, <3>3, <3>4, <3>5, MapsKept
  <2>10. CASE GetServerFailed(p)
    <3>1. pc[p] \notin WriterPC /\ {"lock", "report"} \subseteq PC \ WriterPC
      BY <2>10 DEF GetServerFailed, WriterPC, Building, PC
    <3>2. QED BY <2>10, <3>1, MapsKept DEF GetServerFailed, NextDSN, IInv, TypeOK
  <2>11. CASE MarkUp(p)
    BY <2>11 DEF MarkUp, Goto, envVars
  <2>12. CASE StartVersionQuery(p)
    BY <2>12 DEF StartVersionQuery, Goto, Connect, gaugeVars, envVars
  <2>13. CASE VersionQueryRefused(p)
    BY <2>13 DEF VersionQueryRefused, Goto, gaugeVars, envVars
  <2>14. CASE ReadVersion(p)
    BY <2>14 DEF ReadVersion, Goto, Disconnect, gaugeVars, envVars
  <2>15. CASE VersionFailed(p)
    BY <2>15 DEF VersionFailed, Goto, envVars
  <2>16. CASE CheckVersion(p)
    BY <2>16 DEF CheckVersion, Goto, NeedsRebuild, gaugeVars, envVars
  <2>17. CASE WLock(p)
    BY <2>17 DEF WLock, Goto, gaugeVars, envVars
  <2>18. CASE WAcquire(p)
    BY <2>18 DEF WAcquire, Goto, ReadersGone, gaugeVars, envVars
  <2>19. CASE BuildMetricMap(p)
    <3>1. hnd[p] \in Handles BY <2>19, HandleOf DEF BuildMetricMap, NoHandlePC
    <3>2. srv \in [Handles -> ServerObject] /\ pc \in [Scrapers -> PC]
      BY DEF IInv, TypeOK
    <3>3. Progress(p)'
      BY <2>19, <3>1, <3>2 DEF BuildMetricMap, Goto, Progress, ServerObject
    <3>4. /\ pc[p] \in Building
          /\ hnd' = hnd /\ ver' = ver
      BY <2>19 DEF BuildMetricMap, Building
    <3>5. PICK l \in Building : pc' = [pc EXCEPT ![p] = l]
      BY <2>19 DEF BuildMetricMap, Goto, Building
    <3>6. /\ \A h \in Handles \ {hnd[p]} : srv'[h] = srv[h]
          /\ srv'[hnd[p]].writer = srv[hnd[p]].writer
      BY <2>19, <3>1, <3>2 DEF BuildMetricMap, ServerObject
    <3>7. QED BY <3>3, <3>4, <3>5, <3>6, OwnRebuild
  <2>20. CASE BuildOverrides(p)
    <3>1. hnd[p] \in Handles BY <2>20, HandleOf DEF BuildOverrides, NoHandlePC
    <3>2. srv \in [Handles -> ServerObject] /\ pc \in [Scrapers -> PC]
      BY DEF IInv, TypeOK
    <3>3. srv[hnd[p]].metricMap = [ver |-> ver[p], user |-> FALSE]
      <4>1. Progress(p) BY DEF IInv, MapsInv
      <4>2. QED BY <2>20, <4>1 DEF BuildOverrides, Progress
    <3>4. /\ srv'[hnd[p]].metricMap = [ver |-> ver[p], user |-> FALSE]
          /\ srv'[hnd[p]].queryOverrides = [ver |-> ver[p], user |-> FALSE]
          /\ srv'[hnd[p]].lastMapVersion = ver[p]
      BY <2>20, <3>1, <3>2, <3>3 DEF BuildOverrides, ServerObject
    <3>5. Progress(p)'
      BY <2>20, <3>2, <3>4 DEF BuildOverrides, Goto, Progress, Whole
    <3>6. /\ pc[p] \in Building
          /\ hnd' = hnd /\ ver' = ver
      BY <2>20 DEF BuildOverrides, Building
    <3>7. PICK l \in Building : pc' = [pc EXCEPT ![p] = l]
      BY <2>20 DEF BuildOverrides, Goto, Building
    <3>8. /\ \A h \in Handles \ {hnd[p]} : srv'[h] = srv[h]
          /\ srv'[hnd[p]].writer = srv[hnd[p]].writer
      BY <2>20, <3>1, <3>2 DEF BuildOverrides, ServerObject
    <3>9. QED BY <3>5, <3>6, <3>7, <3>8, OwnRebuild
  <2>21. CASE ResetUserQueriesError(p)
    BY <2>21 DEF ResetUserQueriesError, Goto, envVars
  <2>22. CASE UserQueriesFail(p)
    BY <2>22 DEF UserQueriesFail, Goto, envVars
  <2>23. CASE MergeMetrics(p)
    <3>1. hnd[p] \in Handles BY <2>23, HandleOf DEF MergeMetrics, NoHandlePC
    <3>2. srv \in [Handles -> ServerObject] /\ pc \in [Scrapers -> PC]
      BY DEF IInv, TypeOK
    <3>3. /\ srv[hnd[p]].metricMap = [ver |-> ver[p], user |-> FALSE]
          /\ srv[hnd[p]].queryOverrides = [ver |-> ver[p], user |-> FALSE]
          /\ srv[hnd[p]].lastMapVersion = ver[p]
      <4>1. Progress(p) BY DEF IInv, MapsInv
      <4>2. QED BY <2>23, <4>1 DEF MergeMetrics, Progress
    <3>4. WithUserQueries(srv[hnd[p]].metricMap) = [ver |-> ver[p], user |-> TRUE]
      BY <3>3 DEF WithUserQueries
    <3>5. Progress(p)'
      BY <2>23, <3>1, <3>2, <3>3, <3>4 DEF MergeMetrics, Goto, Progress, ServerObject
    <3>6. /\ pc[p] \in Building
          /\ hnd' = hnd /\ ver' = ver
      BY <2>23 DEF MergeMetrics, Building
    <3>7. PICK l \in Building : pc' = [pc EXCEPT ![p] = l]
      BY <2>23 DEF MergeMetrics, Goto, Building
    <3>8. /\ \A h \in Handles \ {hnd[p]} : srv'[h] = srv[h]
          /\ srv'[hnd[p]].writer = srv[hnd[p]].writer
      BY <2>23, <3>1, <3>2 DEF MergeMetrics, ServerObject
    <3>9. QED BY <3>5, <3>6, <3>7, <3>8, OwnRebuild
  <2>24. CASE MergeOverrides(p)
    <3>1. hnd[p] \in Handles BY <2>24, HandleOf DEF MergeOverrides, NoHandlePC
    <3>2. srv \in [Handles -> ServerObject] /\ pc \in [Scrapers -> PC]
      BY DEF IInv, TypeOK
    <3>3. /\ srv[hnd[p]].metricMap = [ver |-> ver[p], user |-> TRUE]
          /\ srv[hnd[p]].queryOverrides = [ver |-> ver[p], user |-> FALSE]
          /\ srv[hnd[p]].lastMapVersion = ver[p]
      <4>1. Progress(p) BY DEF IInv, MapsInv
      <4>2. QED BY <2>24, <4>1 DEF MergeOverrides, Progress
    <3>4. WithUserQueries(srv[hnd[p]].queryOverrides) = [ver |-> ver[p], user |-> TRUE]
      BY <3>3 DEF WithUserQueries
    <3>5. /\ srv'[hnd[p]].metricMap = [ver |-> ver[p], user |-> TRUE]
          /\ srv'[hnd[p]].queryOverrides = [ver |-> ver[p], user |-> TRUE]
          /\ srv'[hnd[p]].lastMapVersion = ver[p]
      BY <2>24, <3>1, <3>2, <3>3, <3>4 DEF MergeOverrides, ServerObject
    <3>6. Progress(p)'
      BY <2>24, <3>2, <3>5 DEF MergeOverrides, Goto, Progress, Whole
    <3>7. /\ pc[p] \in Building
          /\ hnd' = hnd /\ ver' = ver
      BY <2>24 DEF MergeOverrides, Building
    <3>8. PICK l \in Building : pc' = [pc EXCEPT ![p] = l]
      BY <2>24 DEF MergeOverrides, Goto, Building
    <3>9. /\ \A h \in Handles \ {hnd[p]} : srv'[h] = srv[h]
          /\ srv'[hnd[p]].writer = srv[hnd[p]].writer
      BY <2>24, <3>1, <3>2 DEF MergeOverrides, ServerObject
    <3>10. QED BY <3>6, <3>7, <3>8, <3>9, OwnRebuild
  <2>25. CASE WUnlock(p)
    <3>1. hnd[p] \in Handles BY <2>25, HandleOf DEF WUnlock, NoHandlePC
    <3>2. srv \in [Handles -> ServerObject] /\ pc \in [Scrapers -> PC]
      BY DEF IInv, TypeOK
    <3>3. /\ \A h \in Handles \ {hnd[p]} : srv'[h] = srv[h]
          /\ Whole(hnd[p])' = Whole(hnd[p])
          /\ hnd' = hnd /\ ver' = ver
          /\ \A q \in Scrapers : pc'[q] \in Building => q # p /\ pc'[q] = pc[q]
          /\ \A q \in Scrapers \ {p} : pc[q] \in Building => pc'[q] = pc[q]
      BY <2>25, <3>1, <3>2 DEF WUnlock, Blocked, Whole, Building, ServerObject
    <3>4. \A q \in Scrapers \ {p} : pc[q] \in Building =>
            hnd[q] # hnd[p] /\ hnd[q] \in Handles
      <4>1. pc[p] \in WriterPC BY <2>25 DEF WUnlock, WriterPC, Building
      <4>2. ASSUME NEW q \in Scrapers \ {p}, pc[q] \in Building
            PROVE  hnd[q] # hnd[p] /\ hnd[q] \in Handles
        <5>1. pc[q] \in WriterPC BY <4>2 DEF WriterPC
        <5>2. hnd[q] \in Handles BY <4>2, HandleOf DEF Building, NoHandlePC
        <5>3. QED BY <4>1, <4>2, <5>1, <5>2, OneWriter
      <4>3. QED BY <4>2
    <3>5. Whole(hnd[p])
      <4>1. Progress(p) BY DEF IInv, MapsInv
      <4>2. QED BY <2>25, <4>1 DEF WUnlock, Progress
    <3>6. ASSUME NEW h \in Handles, ~Rebuilding(h)' PROVE Whole(h)'
      <4>1. CASE h = hnd[p] BY <3>3, <3>5, <4>1
      <4>2. CASE h # hnd[p]
        <5>1. srv'[h] = srv[h] BY <3>3, <4>2
        <5>2. srv[h].writer # p BY <2>25, <4>2 DEF IInv, LockInv
        <5>3. ~Rebuilding(h)
          BY <3>2, <3>3, <3>6, <5>1, <5>2 DEF Rebuilding, ServerObject
        <5>4. Whole(h) BY <5>3 DEF IInv, MapsInv
        <5>5. QED BY <5>1, <5>4 DEF Whole
      <4>3. QED BY <4>1, <4>2
    <3>7. ASSUME NEW q \in Scrapers PROVE Progress(q)'
      <4>1. CASE pc'[q] \notin Building BY <4>1 DEF Progress, Building
      <4>2. CASE pc'[q] \in Building
        <5>1. Progress(q) BY DEF IInv, MapsInv
        <5>2. QED BY <3>3, <3>4, <4>2, <5>1 DEF Progress, Whole
      <4>3. QED BY <4>1, <4>2
    <3>8. QED BY <3>6, <3>7 DEF MapsInv
  <2>26. CASE RLock(p)
    BY <2>26 DEF RLock, Goto, WriterGone, gaugeVars, envVars
  <2>27. CASE RBlock(p)
    BY <2>27 DEF RBlock, Goto, WriterGone, gaugeVars, envVars
  <2>28. CASE StartSettings(p)
    BY <2>28 DEF StartSettings, Goto, Connect, gaugeVars, envVars
  <2>29. CASE SkipSettings(p)
    BY <2>29 DEF SkipSettings, Goto, gaugeVars, envVars
  <2>30. CASE EndSettings(p)
    BY <2>30 DEF EndSettings, Goto, Disconnect, gaugeVars, envVars
  <2>31. CASE SettingsFailed(p)
    BY <2>31 DEF SettingsFailed, Goto, envVars
  <2>32. CASE StartNamespace(p)
    BY <2>32 DEF StartNamespace, Goto, Connect, Remaining, gaugeVars, envVars
  <2>33. CASE SkipNamespace(p)
    BY <2>33 DEF SkipNamespace, Remaining, gaugeVars, envVars
  <2>34. CASE EndNamespace(p)
    BY <2>34 DEF EndNamespace, Goto, Disconnect, gaugeVars, envVars
  <2>35. CASE EndNamespaces(p)
    BY <2>35 DEF EndNamespaces, Goto, Remaining, envVars
  <2>36. CASE RUnlock(p)
    BY <2>36, MapsAfterRUnlock
  <2>37. CASE Report(p)
    BY <2>37 DEF Report, Goto, gaugeVars, envVars
  <2>38. QED BY <1>1, <2>1, <2>2, <2>3, <2>4, <2>5, <2>6, <2>7, <2>8, <2>9, <2>10, <2>11,
      <2>12, <2>13, <2>14, <2>15, <2>16, <2>17, <2>18, <2>19, <2>20, <2>21, <2>22, <2>23,
      <2>24, <2>25, <2>26, <2>27, <2>28, <2>29, <2>30, <2>31, <2>32, <2>33, <2>34, <2>35,
      <2>36, <2>37 DEF Step, GetServer, CheckMapVersions, Scrape
<1>2. CASE Environment BY <1>2 DEF Environment, StopPostgres, StartPostgres, EditFile,
    scrapeVars, gaugeVars, envVars
<1>3. CASE UNCHANGED vars BY <1>3 DEF vars, scrapeVars, gaugeVars, envVars
<1>4. QED BY <1>1, <1>2, <1>3 DEF Next

-----------------------------------------------------------------------------
\* The invariant is inductive: every step of a scrape or of the outside keeps all its parts.
LEMMA NextInv == IInv /\ [Next]_vars => IInv'
  BY TypeStep, HandleStep, RegistryStep, MutexStep, LockStep, MapsStep DEF IInv

\* The inductive invariant holds in every state of every behaviour, whatever the number of
\* overlapping scrapes, data sources and versions.
THEOREM Invariance == Spec => []IInv
  BY InitInv, NextInv, PTL DEF Spec

\* The variables keep their types: no scrape runs past the last data source, and no Server
\* gets a map that checkMapVersions does not build.
THEOREM TypeCorrect == Spec => []TypeOK
  BY Invariance, PTL DEF IInv

\* GetServer hands out open Servers only, one to each data source, although a scrape whose
\* ping fails closes and evicts a Server that others are using.
THEOREM RegistryIsSound == Spec => []RegistrySound
  BY Invariance, PTL DEF IInv

\* A Server that is read is not being rebuilt, and then its maps are whole.
LEMMA WholeForReaders == IInv => MapsWhole
<1> SUFFICES ASSUME IInv, NEW h \in Handles, srv[h].readers # {}
             PROVE  Whole(h)
  BY DEF MapsWhole, Whole
<1>1. ~Rebuilding(h)
  BY ConstantsAssumption DEF Rebuilding, IInv, TypeOK, LockInv, WriterPC, ServerObject
<1>2. QED BY <1>1 DEF IInv, MapsInv

\* A scrape never sees maps of two versions, nor maps into which the user queries were
\* merged by half (checkMapVersions, Server.Scrape).
THEOREM MapsAreWhole == Spec => []MapsWhole
  BY Invariance, WholeForReaders, PTL

-----------------------------------------------------------------------------
Unchanged(h) ==
  /\ srv'[h].metricMap = srv[h].metricMap
  /\ srv'[h].queryOverrides = srv[h].queryOverrides

\* A Server that has readers before and after a step has the same maps after it: whoever
\* writes them is past its wait, and then there are no readers.
LEMMA FrozenStep ==
  ASSUME IInv, [Next]_vars, NEW h \in Handles, srv[h].readers # {}, srv'[h].readers # {}
  PROVE  Unchanged(h)
<1> USE DEF Unchanged
<1>0. srv \in [Handles -> ServerObject] BY DEF IInv, TypeOK
<1>1. ASSUME NEW p \in Scrapers, StartScrape(p) \/ Step(p) PROVE Unchanged(h)
  <2> USE <1>0, HandleOf DEF ServerObject
  <2>0. ~(hnd[p] = h /\ pc[p] \in Building) BY DEF IInv, LockInv
  <2>1. CASE GetServer(p)
    <3>1. CASE NewServer(p) BY <3>1 DEF NewServer, NewObject
    <3>2. CASE StartPing(p) BY <3>2 DEF StartPing, Connect, NoHandlePC
    <3>3. CASE PingSucceeds(p) BY <3>3 DEF PingSucceeds, Disconnect, NoHandlePC
    <3>4. CASE PingFails(p) BY <3>4 DEF PingFails, NoHandlePC
    <3>5. QED
      BY <2>1, <3>1, <3>2, <3>3, <3>4 DEF GetServer, LockServers, Lookup, NewServerFails
  <2>2. CASE GetServerFailed(p) BY <2>2 DEF GetServerFailed, NextDSN, NewObject
  <2>3. CASE CheckMapVersions(p)
    <3>1. CASE StartVersionQuery(p) BY <3>1 DEF StartVersionQuery, Connect, NoHandlePC
    <3>2. CASE ReadVersion(p) BY <3>2 DEF ReadVersion, Disconnect, NoHandlePC
    <3>3. CASE WLock(p)
      <4>1. hnd[p] \in Handles BY <3>3 DEF WLock, NoHandlePC
      <4>2. QED BY <3>3, <4>1 DEF WLock
    <3>4. CASE BuildMetricMap(p) BY <2>0, <3>4 DEF BuildMetricMap, Building
    <3>5. CASE BuildOverrides(p) BY <2>0, <3>5 DEF BuildOverrides, Building
    <3>6. CASE MergeMetrics(p) BY <2>0, <3>6 DEF MergeMetrics, Building
    <3>7. CASE MergeOverrides(p) BY <2>0, <3>7 DEF MergeOverrides, Building
    <3>8. CASE WUnlock(p) BY <3>8 DEF WUnlock, NoHandlePC
    <3>9. QED
      BY <2>3, <3>1, <3>2, <3>3, <3>4, <3>5, <3>6, <3>7, <3>8
      DEF CheckMapVersions, VersionQueryRefused, VersionFailed, CheckVersion, WAcquire,
        ResetUserQueriesError, UserQueriesFail
  <2>4. CASE Scrape(p)
    <3>1. CASE RLock(p) BY <3>1 DEF RLock, NoHandlePC
    <3>2. CASE StartSettings(p) BY <3>2 DEF StartSettings, Connect, NoHandlePC
    <3>3. CASE EndSettings(p) BY <3>3 DEF EndSettings, Disconnect, NoHandlePC
    <3>4. CASE StartNamespace(p) BY <3>4 DEF StartNamespace, Connect, NoHandlePC
    <3>5. CASE EndNamespace(p) BY <3>5 DEF EndNamespace, Disconnect, NoHandlePC
    <3>6. CASE RUnlock(p) BY <3>6 DEF RUnlock, NextDSN, NewObject, NoHandlePC
    <3>7. QED
      BY <2>4, <3>1, <3>2, <3>3, <3>4, <3>5, <3>6
      DEF Scrape, RBlock, SkipSettings, SettingsFailed, SkipNamespace, EndNamespaces
  <2>5. QED
    BY <1>1, <2>1, <2>2, <2>3, <2>4 DEF Step, StartScrape, ClearUp, MarkUp, Report
<1>2. CASE Environment BY <1>2 DEF Environment, StopPostgres, StartPostgres, EditFile
<1>3. CASE UNCHANGED vars BY <1>3 DEF vars
<1>4. QED BY <1>1, <1>2, <1>3 DEF Next

\* The maps of a Server are never written while a scrape ranges over them, so the runtime
\* never finds a map iterated and written at once (queryNamespaceMappings).
THEOREM MapsAreFrozen == Spec => MapsFrozenForReaders
<1> DEFINE Frozen == \A h \in Handles : srv[h].readers # {} /\ srv'[h].readers # {} =>
                       /\ srv'[h].metricMap = srv[h].metricMap
                       /\ srv'[h].queryOverrides = srv[h].queryOverrides
<1>1. IInv /\ [Next]_vars => [Frozen]_vars BY FrozenStep DEF Unchanged
<1> HIDE DEF Frozen
<1>2. Spec => [][Frozen]_vars BY <1>1, Invariance, PTL DEF Spec
<1>3. QED BY <1>2 DEF Frozen, MapsFrozenForReaders

-----------------------------------------------------------------------------
(***************************************************************************)
(* The connections.                                                        *)
(***************************************************************************)
ConnsOf(h) == {p \in Scrapers : hnd[p] = h /\ pc[p] \in Querying}

ConnsInv ==
  \A h \in Handles :
    /\ srv[h].conns = ConnsOf(h)
    /\ IsFiniteSet(srv[h].conns)
    /\ Cardinality(srv[h].conns) <= MaxOpenConns

\* Who queries queries on; a Server object that is made anew is nobody's.
SameQueries ==
  \A q \in Scrapers :
    /\ pc'[q] \in Querying <=> pc[q] \in Querying
    /\ pc[q] \in Querying => hnd'[q] = hnd[q]

SameConns(h) ==
  \/ srv'[h].conns = srv[h].conns
  \/ srv'[h].conns = {} /\ \A q \in Scrapers : pc'[q] \in Querying => hnd'[q] # h

LEMMA ConnsUntouched ==
  ASSUME ConnsInv, SameQueries, \A h \in Handles : SameConns(h)
  PROVE  ConnsInv'
<1> SUFFICES ASSUME NEW h \in Handles
             PROVE  /\ srv'[h].conns = ConnsOf(h)'
                    /\ IsFiniteSet(srv'[h].conns)
                    /\ Cardinality(srv'[h].conns) <= MaxOpenConns
  BY DEF ConnsInv
<1>1. CASE srv'[h].conns = srv[h].conns
  <2>1. ConnsOf(h)' = ConnsOf(h)
    BY DEF ConnsOf, SameQueries
  <2> QED BY <1>1, <2>1 DEF ConnsInv
<1>2. CASE srv'[h].conns = {} /\ \A q \in Scrapers : pc'[q] \in Querying => hnd'[q] # h
  <2>1. ConnsOf(h)' = {}
    BY <1>2 DEF ConnsOf
  <2> QED BY <1>2, <2>1, FS_EmptySet, ConstantsAssumption
<1> QED BY <1>1, <1>2 DEF SameConns

\* A query takes a connection when there is one.
LEMMA ConnsTaken ==
  ASSUME ConnsInv, srv \in [Handles -> ServerObject], pc \in [Scrapers -> PC],
         NEW p \in Scrapers, hnd[p] \in Handles, pc[p] \notin Querying,
         CanConnect(hnd[p]), Connect(p), UNCHANGED hnd,
         NEW l \in Querying, Goto(p, l)
  PROVE  ConnsInv'
<1> SUFFICES ASSUME NEW h \in Handles
             PROVE  /\ srv'[h].conns = ConnsOf(h)'
                    /\ IsFiniteSet(srv'[h].conns)
                    /\ Cardinality(srv'[h].conns) <= MaxOpenConns
  BY DEF ConnsInv
<1>1. pc' = [pc EXCEPT ![p] = l]
  BY DEF Goto
<1>2. CASE h # hnd[p]
  <2>1. srv'[h].conns = srv[h].conns
    BY <1>2 DEF Connect
  <2>2. ConnsOf(h)' = ConnsOf(h)
    BY <1>1, <1>2 DEF ConnsOf
  <2> QED BY <2>1, <2>2 DEF ConnsInv
<1>3. CASE h = hnd[p]
  <2>1. srv'[h].conns = srv[h].conns \cup {p}
    BY <1>3 DEF Connect, ServerObject
  <2>2. ConnsOf(h)' = ConnsOf(h) \cup {p}
    BY <1>1, <1>3 DEF ConnsOf
  <2>3. p \notin srv[h].conns
    BY DEF ConnsInv, ConnsOf
  <2>4. IsFiniteSet(srv[h].conns) /\ Cardinality(srv[h].conns) < MaxOpenConns
    BY <1>3 DEF ConnsInv, CanConnect
  <2>5. /\ IsFiniteSet(srv[h].conns \cup {p})
        /\ Cardinality(srv[h].conns \cup {p}) = Cardinality(srv[h].conns) + 1
    BY <2>3, <2>4, FS_AddElement
  <2>6. Cardinality(srv[h].conns) + 1 <= MaxOpenConns
    BY <2>4, FS_CardinalityType, ConstantsAssumption
  <2> QED BY <2>1, <2>2, <2>5, <2>6 DEF ConnsInv
<1> QED BY <1>2, <1>3

\* The end of a query gives it back.
LEMMA ConnsReturned ==
  ASSUME ConnsInv, pc \in [Scrapers -> PC],
         NEW p \in Scrapers, hnd[p] \in Handles, UNCHANGED hnd,
         \A h \in Handles :
           srv'[h].conns = IF h = hnd[p] THEN srv[h].conns \ {p} ELSE srv[h].conns,
         NEW l \in PC \ Querying, Goto(p, l)
  PROVE  ConnsInv'
<1> SUFFICES ASSUME NEW h \in Handles
             PROVE  /\ srv'[h].conns = ConnsOf(h)'
                    /\ IsFiniteSet(srv'[h].conns)
                    /\ Cardinality(srv'[h].conns) <= MaxOpenConns
  BY DEF ConnsInv
<1>1. pc' = [pc EXCEPT ![p] = l]
  BY DEF Goto
<1>2. ConnsOf(h)' = ConnsOf(h) \ {p}
  BY <1>1 DEF ConnsOf
<1>3. srv'[h].conns = srv[h].conns \ {p}
  <2>1. h # hnd[p] => p \notin srv[h].conns
    BY DEF ConnsInv, ConnsOf
  <2>2. h # hnd[p] => srv[h].conns = srv[h].conns \ {p}
    BY <2>1
  <2> QED BY <2>2
<1>4. IsFiniteSet(srv[h].conns) /\ Cardinality(srv[h].conns) <= MaxOpenConns
  BY DEF ConnsInv
<1>5. /\ IsFiniteSet(srv[h].conns \ {p})
      /\ Cardinality(srv[h].conns \ {p}) <= MaxOpenConns
  <2>1. /\ IsFiniteSet(srv[h].conns \ {p})
        /\ Cardinality(srv[h].conns \ {p}) <= Cardinality(srv[h].conns)
    BY <1>4, FS_Subset
  <2> QED BY <1>4, <2>1, FS_CardinalityType, ConstantsAssumption
<1> QED BY <1>2, <1>3, <1>5 DEF ConnsInv

\* What a scrape gives back at the end of scrapeDSN are not connections.
LEMMA ConnsOfNext ==
  ASSUME ConnsInv, NEW p \in Scrapers, NEW objects, NextDSN(p, objects),
         pc \in [Scrapers -> PC], hnd \in [Scrapers -> Handles \cup {None}],
         pc[p] \notin Querying, \A h \in Handles : objects[h].conns = srv[h].conns
  PROVE  ConnsInv'
<1>1. /\ \A q \in Scrapers \ {p} : pc'[q] = pc[q] /\ hnd'[q] = hnd[q]
      /\ pc'[p] \in {"report", "lock"} /\ hnd'[p] = None
  BY DEF NextDSN
<1>2. SameQueries
  BY <1>1 DEF SameQueries, Querying
<1>3. ASSUME NEW h \in Handles PROVE SameConns(h)
  <2>1. CASE \A q \in Scrapers \ {p} : hnd[q] # h
    <3>1. srv'[h].conns \in {objects[h].conns, {}}
      BY DEF NextDSN, NewObject
    <3>2. \A q \in Scrapers : hnd'[q] # h
      BY <1>1, <2>1, ConstantsAssumption
    <3> QED BY <3>1, <3>2 DEF SameConns
  <2>2. CASE ~ \A q \in Scrapers \ {p} : hnd[q] # h
    <3>1. srv'[h] = objects[h]
      BY <2>2 DEF NextDSN
    <3> QED BY <3>1 DEF SameConns
  <2> QED BY <2>1, <2>2
<1> QED BY <1>2, <1>3, ConnsUntouched

\* The steps that take connections, and those that give them back.
Takes(p) == StartPing(p) \/ StartVersionQuery(p) \/ StartSettings(p) \/ StartNamespace(p)
Returns(p) ==
  PingSucceeds(p) \/ PingFails(p) \/ ReadVersion(p) \/ EndSettings(p) \/ EndNamespace(p)

LEMMA ConnsStep ==
  ASSUME IInv, ConnsInv, [Next]_vars
  PROVE  ConnsInv'
<1>a. /\ srv \in [Handles -> ServerObject] /\ pc \in [Scrapers -> PC]
      /\ hnd \in [Scrapers -> Handles \cup {None}] /\ servers \in [DSN -> Handles \cup {None}]
      /\ idx \in [Scrapers -> DSN]
  BY DEF IInv, TypeOK
<1>1. ASSUME NEW p \in Scrapers, Takes(p) PROVE ConnsInv'
  <2>1. /\ pc[p] \in {"ping", "version", "settings", "namespace"}
        /\ CanConnect(hnd[p]) /\ Connect(p) /\ UNCHANGED hnd
        /\ \E l \in Querying : Goto(p, l)
    BY <1>1 DEF Takes, StartPing, StartVersionQuery, StartSettings, StartNamespace, Querying
  <2>2. hnd[p] \in Handles /\ pc[p] \notin Querying
    BY <2>1, HandleOf DEF NoHandlePC, Querying
  <2> QED BY <1>a, <2>1, <2>2, ConnsTaken
<1>2. ASSUME NEW p \in Scrapers, Returns(p) PROVE ConnsInv'
  <2>1. pc[p] \in Querying /\ UNCHANGED hnd
    BY <1>2 DEF Returns, PingSucceeds, PingFails, ReadVersion, EndSettings, EndNamespace, Querying
  <2>2. hnd[p] \in Handles
    BY <2>1, HandleOf DEF NoHandlePC, Querying
  <2>3. \E l \in PC \ Querying : Goto(p, l)
    BY <1>2 DEF Returns, PingSucceeds, PingFails, ReadVersion, EndSettings, EndNamespace,
                Querying, PC
  <2>4. ASSUME NEW h \in Handles
        PROVE  srv'[h].conns = IF h = hnd[p] THEN srv[h].conns \ {p} ELSE srv[h].conns
    <3>1. CASE Disconnect(p)
      BY <1>a, <2>2, <3>1 DEF Disconnect, ServerObject
    <3>2. CASE PingFails(p)
      BY <1>a, <2>2, <3>2 DEF PingFails, ServerObject
    <3> QED BY <1>2, <3>1, <3>2 DEF Returns, PingSucceeds, ReadVersion, EndSettings, EndNamespace
  <2> QED BY <1>a, <2>2, <2>1, <2>3, <2>4, ConnsReturned
<1>3. ASSUME NEW p \in Scrapers, GetServerFailed(p) PROVE ConnsInv'
  BY <1>a, <1>3, ConnsOfNext DEF GetServerFailed, Querying
<1>4. ASSUME NEW p \in Scrapers, RUnlock(p) PROVE ConnsInv'
  <2>1. pc[p] \notin Querying /\ NextDSN(p, [srv EXCEPT ![hnd[p]].readers = @ \ {p}])
    BY <1>4 DEF RUnlock, Querying
  <2>2. hnd[p] \in Handles
    BY <1>4, HandleOf DEF RUnlock, NoHandlePC
  <2>3. \A h \in Handles : [srv EXCEPT ![hnd[p]].readers = @ \ {p}][h].conns = srv[h].conns
    BY <1>a, <2>2 DEF ServerObject
  <2> QED BY <1>a, <2>1, <2>3, ConnsOfNext
<1>5. ASSUME NEW p \in Scrapers, NewServer(p) PROVE ConnsInv'
  <2>1. PICK o \in Handles : /\ srv[o].db = "unused"
                             /\ srv' = [srv EXCEPT ![o] = NewObject("open")]
                             /\ hnd' = [hnd EXCEPT ![p] = o]
    BY <1>5 DEF NewServer
  <2>2. pc[p] \notin Querying /\ pc' = [pc EXCEPT ![p] = "ping"] /\ "ping" \notin Querying
    BY <1>5 DEF NewServer, Goto, Querying
  <2>3. SameQueries
    BY <1>a, <2>1, <2>2 DEF SameQueries
  <2>4. ASSUME NEW h \in Handles PROVE SameConns(h)
    <3>1. CASE h = o
      <4>1. srv'[h].conns = {}
        BY <1>a, <2>1, <3>1 DEF NewObject
      <4>2. \A q \in Scrapers : hnd[q] # o
        BY <1>a, <2>1, ConstantsAssumption DEF IInv, RegistrySound
      <4> QED BY <1>a, <2>1, <2>2, <3>1, <4>1, <4>2 DEF SameConns
    <3>2. CASE h # o
      BY <1>a, <2>1, <3>2 DEF SameConns
    <3> QED BY <3>1, <3>2
  <2> QED BY <2>3, <2>4, ConnsUntouched
<1>6. ASSUME NEW p \in Scrapers, WUnlock(p) PROVE ConnsInv'
  <2>1. hnd[p] \in Handles
    BY <1>6, HandleOf DEF WUnlock, NoHandlePC
  <2>2. SameQueries
    BY <1>6 DEF WUnlock, SameQueries, Blocked, Querying
  <2>3. \A h \in Handles : srv'[h].conns = srv[h].conns
    BY <1>a, <1>6, <2>1 DEF WUnlock, ServerObject
  <2> QED BY <2>2, <2>3, ConnsUntouched DEF SameConns
<1>7. ASSUME NEW p \in Scrapers, StartScrape(p) \/ Step(p),
             ~Takes(p), ~Returns(p), ~GetServerFailed(p), ~RUnlock(p), ~NewServer(p), ~WUnlock(p)
      PROVE  ConnsInv'
  <2>1. pc[p] \notin Querying /\ \E l \in PC \ Querying : Goto(p, l) \/ (l = pc[p] /\ UNCHANGED pc)
    BY <1>7 DEF Step, GetServer, CheckMapVersions, Scrape, Takes, Returns, StartScrape, ClearUp,
         LockServers, Lookup, NewServerFails, MarkUp, VersionQueryRefused, VersionFailed,
         CheckVersion, WLock, WAcquire, BuildMetricMap, BuildOverrides, ResetUserQueriesError,
         UserQueriesFail, MergeMetrics, MergeOverrides, RLock, RBlock, SkipSettings,
         SettingsFailed, SkipNamespace, EndNamespaces, Report, Querying, PC
  <2>2. \A q \in Scrapers \ {p} : hnd'[q] = hnd[q]
    BY <1>a, <1>7 DEF Step, GetServer, CheckMapVersions, Scrape, Takes, Returns, StartScrape,
         ClearUp, LockServers, Lookup, NewServerFails, MarkUp, VersionQueryRefused,
         VersionFailed, CheckVersion, WLock, WAcquire, BuildMetricMap, BuildOverrides,
         ResetUserQueriesError, UserQueriesFail, MergeMetrics, MergeOverrides, RLock, RBlock,
         SkipSettings, SettingsFailed, SkipNamespace, EndNamespaces, Report
  <2>3. SameQueries
    BY <1>a, <2>1, <2>2 DEF SameQueries, Goto
  <2>4. UNCHANGED srv \/ hnd[p] \in Handles
    BY <1>7, HandleOf DEF Step, GetServer, CheckMapVersions, Scrape, Takes, Returns, StartScrape,
         ClearUp, LockServers, Lookup, NewServerFails, MarkUp, VersionQueryRefused,
         VersionFailed, CheckVersion, WLock, WAcquire, BuildMetricMap, BuildOverrides,
         ResetUserQueriesError, UserQueriesFail, MergeMetrics, MergeOverrides, RLock, RBlock,
         SkipSettings, SettingsFailed, SkipNamespace, EndNamespaces, Report, NoHandlePC
  <2>5. ASSUME NEW h \in Handles PROVE srv'[h].conns = srv[h].conns
    BY <1>a, <1>7, <2>4 DEF Step, GetServer, CheckMapVersions, Scrape, Takes, Returns,
         StartScrape, ClearUp, LockServers, Lookup, NewServerFails, MarkUp,
         VersionQueryRefused, VersionFailed, CheckVersion, WLock, WAcquire, BuildMetricMap,
         BuildOverrides, ResetUserQueriesError, UserQueriesFail, MergeMetrics, MergeOverrides,
         RLock, RBlock, SkipSettings, SettingsFailed, SkipNamespace, EndNamespaces, Report,
         ServerObject
  <2> QED BY <2>3, <2>5, ConnsUntouched DEF SameConns
<1>8. CASE Environment \/ UNCHANGED vars
  BY <1>8 DEF Environment, StopPostgres, StartPostgres, EditFile, scrapeVars, vars, ConnsInv, ConnsOf
<1> QED BY <1>1, <1>2, <1>3, <1>4, <1>5, <1>6, <1>7, <1>8 DEF Next

LEMMA ConnsInvariance == Spec => []ConnsInv
<1>1. Init => ConnsInv
  <2> SUFFICES ASSUME Init, NEW h \in Handles
               PROVE  /\ srv[h].conns = ConnsOf(h)
                      /\ IsFiniteSet(srv[h].conns)
                      /\ Cardinality(srv[h].conns) <= MaxOpenConns
    BY DEF ConnsInv
  <2>1. srv[h].conns = {}
    BY DEF Init, NewObject
  <2>2. ConnsOf(h) = {}
    BY DEF Init, ConnsOf, Querying
  <2> QED BY <2>1, <2>2, FS_EmptySet, ConstantsAssumption
<1>2. IInv /\ ConnsInv /\ [Next]_vars => ConnsInv'
  BY ConnsStep
<1> QED BY <1>1, <1>2, Invariance, PTL DEF Spec

\* The limit NewServer sets is kept, and every way out of a query gives its connection back:
\* none is leaked by an error, by a Server that is closed under it, or by the next data source.
THEOREM ConnsAreAccounted == Spec => []ConnsAccounted
<1>1. ConnsInv => ConnsAccounted
  BY DEF ConnsInv, ConnsOf, ConnsAccounted
<1> QED BY <1>1, ConnsInvariance, PTL

-----------------------------------------------------------------------------
(***************************************************************************)
(* Who waits for whom.                                                     *)
(***************************************************************************)
\* The order of the waits: the mutex of the registry and the lock over the maps come before the
\* wait of a writer for readers, that before the wait for a connection; who has a connection
\* waits for no other scrape.
Level(p) ==
  IF pc[p] \in {"lock", "wlock", "rblocked"} THEN 3
  ELSE IF pc[p] = "wwait" THEN 2
  ELSE IF pc[p] \in Connecting THEN 1 ELSE 0

LEMMA WaitsGoDown ==
  ASSUME IInv, ConnsInv, NEW p \in Scrapers, NEW q \in WaitsFor(p)
  PROVE  Level(q) < Level(p)
<1> USE DEF Level, Connecting
<1>a. MutexInv /\ LockInv
  BY DEF IInv
<1>1. CASE pc[p] = "lock" /\ q = mutex
  <2>1. pc[q] \in InGetServer
    BY <1>a, <1>1 DEF MutexInv, WaitsFor
  <2> QED BY <1>1, <2>1 DEF InGetServer
<1>2. CASE pc[p] \in Connecting /\ q \in srv[hnd[p]].conns
  <2>1. hnd[p] \in Handles
    BY <1>2, HandleOf DEF NoHandlePC
  <2>2. pc[q] \in Querying
    BY <1>2, <2>1 DEF ConnsInv, ConnsOf
  <2> QED BY <1>2, <2>2 DEF Querying
<1>3. CASE pc[p] \in {"wlock", "rblocked"} /\ q = srv[hnd[p]].writer
  <2>1. hnd[p] \in Handles
    BY <1>3, HandleOf DEF NoHandlePC
  <2>2. pc[q] \in WriterPC
    BY <1>a, <1>3, <2>1 DEF LockInv, WaitsFor
  <2> QED BY <1>3, <2>2 DEF WriterPC, Building
<1>4. CASE pc[p] = "wwait" /\ q \in srv[hnd[p]].readers
  <2>1. hnd[p] \in Handles
    BY <1>4, HandleOf DEF NoHandlePC
  <2>2. pc[q] \in Reading
    BY <1>a, <1>4, <2>1 DEF LockInv, WaitsFor
  <2> QED BY <1>4, <2>2 DEF Reading
<1> QED BY <1>1, <1>2, <1>3, <1>4 DEF WaitsFor

\* However many scrapes there are, and however few connections, they never wait for each other
\* in a circle (GetServer, checkMapVersions, Server.Scrape).
THEOREM WaitsEnd == Spec => []NoCircularWait
<1>1. IInv /\ ConnsInv => NoCircularWait
  <2> SUFFICES ASSUME IInv, ConnsInv, NEW group \in SUBSET Scrapers, group # {}
               PROVE  \E p \in group : WaitsFor(p) \cap group = {}
    BY DEF NoCircularWait
  <2>1. \E p \in group : \A q \in group : Level(p) <= Level(q)
    <3>1. \A q : Level(q) \in 0..3
      BY DEF Level
    <3>2. CASE \E p \in group : Level(p) = 0
      BY <3>1, <3>2
    <3>3. CASE (\A p \in group : Level(p) # 0) /\ \E p \in group : Level(p) = 1
      BY <3>1, <3>3
    <3>4. CASE (\A p \in group : Level(p) \notin 0..1) /\ \E p \in group : Level(p) = 2
      BY <3>1, <3>4
    <3>5. CASE \A p \in group : Level(p) \notin 0..2
      BY <3>1, <3>5
    <3> QED BY <3>2, <3>3, <3>4, <3>5
  <2>2. PICK p \in group : \A q \in group : Level(p) <= Level(q)
    BY <2>1
  <2>3. ASSUME NEW q \in WaitsFor(p) \cap group PROVE FALSE
    <3>1. Level(q) < Level(p) /\ Level(p) <= Level(q)
      BY <2>2, WaitsGoDown
    <3>2. Level(p) \in Int /\ Level(q) \in Int
      BY DEF Level
    <3> QED BY <3>1, <3>2
  <2> QED BY <2>3
<1> QED BY <1>1, ConnsInvariance, Invariance, PTL

-----------------------------------------------------------------------------
(***************************************************************************)
(* What one scrape reports (PgScrapeHistory).                              *)
(***************************************************************************)
\* Where a scrape has no version, has not yet counted its data source, has compared its
\* version to the one of the maps.
NoVersionPC ==
  {"idle", "clear", "lock", "lookup", "ping", "pinging", "geterr", "markup", "version",
   "versionrow", "vererr", "report"}
EarlyPC == {"lock", "lookup", "ping", "pinging", "geterr", "markup"}
CurrentPC == {"unlock", "rlock", "rblocked"} \cup Reading

VersionInv == \A p \in Scrapers : pc[p] \in NoVersionPC => ver[p] = None

\* A data source is counted once, and none before its turn.
ReachedInv ==
  \A p \in Scrapers :
    /\ reached[p] \in Nat
    /\ pc[p] = "idle" => ~failed[p]
    /\ pc[p] \in {"idle", "clear"} => reached[p] = 0
    /\ pc[p] \in EarlyPC => reached[p] < idx[p]
    /\ reached[p] <= idx[p]

\* A scrape on its own has the maps of its version, ...
SoloInv ==
  \A p \in Scrapers : solo[p] =>
    /\ pc[p] # "idle" /\ \A q \in Scrapers \ {p} : pc[q] = "idle"
    /\ pc[p] \in CurrentPC /\ ver[p] # None => srv[hnd[p]].lastMapVersion = ver[p]

\* ... and the gauges to itself.
GaugesInv ==
  \A p \in Scrapers : solo[p] =>
    /\ errorGauge > 0 <=> failed[p]
    /\ pc[p] # "clear" => psqlUp = reached[p]

HInv == IInv /\ VersionInv /\ ReachedInv /\ SoloInv

LEMMA Remembered ==
  ASSUME Remember, NEW p \in Scrapers
  PROVE  /\ reached'[p] = IF Ended(p) THEN 0
                          ELSE IF pc[p] = "markup" /\ pc'[p] # "markup" THEN reached[p] + 1
                          ELSE reached[p]
         /\ failed'[p] <=> ~Ended(p) /\ (failed[p] \/ Fails(p))
         /\ solo'[p] => /\ ~Ended(p)
                        /\ solo[p] \/ Starts(p)
                        /\ Starts(p) => \A q \in Scrapers \ {p} : pc[q] = "idle"
                        /\ \A q \in Scrapers \ {p} : ~Starts(q)
<1>1. reached'[p] = IF Ended(p) THEN 0
                    ELSE IF pc[p] = "markup" /\ pc'[p] # "markup" THEN reached[p] + 1
                    ELSE reached[p]
  BY DEF Remember
<1>2. failed'[p] = (~Ended(p) /\ (failed[p] \/ Fails(p)))
  BY Zenon DEF Remember
<1>3. solo'[p] = (/\ ~Ended(p)
                  /\ solo[p] \/ Starts(p)
                  /\ Starts(p) => \A q \in Scrapers \ {p} : pc[q] = "idle"
                  /\ \A q \in Scrapers \ {p} : ~Starts(q))
  BY Zenon DEF Remember
<1> QED BY <1>1, <1>2, <1>3, Zenon

\* What one scrape does to the pc of another: it lets in a reader that waits.
LEMMA OtherPC ==
  ASSUME IInv, NEW p \in Scrapers, StartScrape(p) \/ Step(p), NEW q \in Scrapers \ {p}
  PROVE  /\ pc'[q] = pc[q] \/ (pc[q] = "rblocked" /\ pc'[q] = "settings")
         /\ idx'[q] = idx[q] /\ ver'[q] = ver[q]
<1>a. /\ pc \in [Scrapers -> PC] /\ idx \in [Scrapers -> DSN]
      /\ ver \in [Scrapers -> Versions \cup {None}]
  BY DEF IInv, TypeOK
<1>1. CASE WUnlock(p)
  BY <1>a, <1>1 DEF WUnlock, Blocked
<1>2. CASE ~WUnlock(p)
  BY <1>a, <1>2
     DEF Step, GetServer, CheckMapVersions, Scrape, StartScrape, ClearUp, LockServers, Lookup,
         NewServer, NewServerFails, StartPing, PingSucceeds, PingFails, GetServerFailed, MarkUp,
         StartVersionQuery, VersionQueryRefused, ReadVersion, VersionFailed, CheckVersion, WLock,
         WAcquire, BuildMetricMap, BuildOverrides, ResetUserQueriesError, UserQueriesFail,
         MergeMetrics, MergeOverrides, RLock, RBlock, StartSettings, SkipSettings, EndSettings,
         SettingsFailed, StartNamespace, SkipNamespace, EndNamespace, EndNamespaces, RUnlock,
         Report, NextDSN, Goto
<1> QED BY <1>1, <1>2

\* Where a scrape goes, and how far it has come with its data sources.
LEMMA OwnPC ==
  ASSUME IInv, NEW p \in Scrapers, Step(p)
  PROVE  /\ pc[p] # "idle"
         /\ \/ pc[p] = "clear" /\ pc'[p] = "lock" /\ UNCHANGED idx
            \/ pc[p] = "markup" /\ pc'[p] = "version" /\ UNCHANGED idx
            \/ pc[p] = "report" /\ pc'[p] = "idle"
            \/ pc[p] \in {"geterr", "runlock"} /\ pc'[p] = "lock" /\ idx'[p] = idx[p] + 1
            \/ pc[p] \in {"geterr", "runlock"} /\ pc'[p] = "report" /\ idx'[p] = idx[p]
            \/ /\ UNCHANGED idx /\ pc[p] \in EarlyPC \ {"markup", "geterr"}
               /\ pc'[p] \in EarlyPC
            \/ /\ UNCHANGED idx /\ pc[p] \notin {"idle", "clear", "report"} \cup EarlyPC
               /\ pc'[p] \notin {"idle", "clear", "report"} \cup EarlyPC
<1>a. /\ pc \in [Scrapers -> PC] /\ idx \in [Scrapers -> DSN]
  BY DEF IInv, TypeOK
<1>1. CASE GetServerFailed(p) \/ RUnlock(p)
  BY <1>a, <1>1 DEF GetServerFailed, RUnlock, NextDSN
<1>2. CASE GetServer(p)
  BY <1>a, <1>2 DEF GetServer, LockServers, Lookup, NewServer, NewServerFails, StartPing,
                    PingSucceeds, PingFails, Goto, EarlyPC
<1>3. CASE WUnlock(p)
  BY <1>a, <1>3 DEF WUnlock, EarlyPC
<1>4. CASE CheckMapVersions(p) /\ ~WUnlock(p)
  BY <1>a, <1>4
     DEF CheckMapVersions, StartVersionQuery, VersionQueryRefused, ReadVersion, VersionFailed,
         CheckVersion, WLock, WAcquire, BuildMetricMap, BuildOverrides, ResetUserQueriesError,
         UserQueriesFail, MergeMetrics, MergeOverrides, Goto, EarlyPC
<1>5. CASE Scrape(p) /\ ~RUnlock(p)
  BY <1>a, <1>5
     DEF Scrape, RLock, RBlock, StartSettings, SkipSettings, EndSettings, SettingsFailed,
         StartNamespace, SkipNamespace, EndNamespace, EndNamespaces, Goto, EarlyPC
<1>6. CASE ClearUp(p) \/ MarkUp(p) \/ Report(p)
  BY <1>a, <1>6 DEF ClearUp, MarkUp, Report, Goto
<1> QED BY <1>1, <1>2, <1>3, <1>4, <1>5, <1>6 DEF Step

LEMMA ReachedStep == IInv /\ ReachedInv /\ [Next]_vars /\ Remember => ReachedInv'
<1> SUFFICES ASSUME IInv, ReachedInv, [Next]_vars, Remember, NEW p \in Scrapers
             PROVE  /\ reached'[p] \in Nat
                    /\ pc'[p] = "idle" => ~failed'[p]
                    /\ pc'[p] \in {"idle", "clear"} => reached'[p] = 0
                    /\ pc'[p] \in EarlyPC => reached'[p] < idx'[p]
                    /\ reached'[p] <= idx'[p]
  BY DEF ReachedInv
<1>a. /\ pc \in [Scrapers -> PC] /\ idx \in [Scrapers -> DSN]
      /\ idx[p] \in Nat /\ idx[p] > 0
  BY ConstantsAssumption DEF IInv, TypeOK, DSN
<1>b. /\ reached[p] \in Nat
      /\ pc[p] \in {"idle", "clear"} => reached[p] = 0
      /\ pc[p] \in EarlyPC => reached[p] < idx[p]
      /\ reached[p] <= idx[p]
  BY DEF ReachedInv
<1>c. pc'[p] = "idle" => ~failed'[p] /\ reached'[p] = 0
  BY Remembered DEF Ended
<1>d. ASSUME pc'[p] # "idle", pc[p] # "markup" PROVE reached'[p] = reached[p]
  BY <1>d, Remembered DEF Ended
<1>1. CASE Step(p)
  <2>1. CASE pc[p] = "clear" /\ pc'[p] = "lock" /\ UNCHANGED idx
    BY <1>a, <1>b, <1>d, <2>1
  <2>2. CASE pc[p] = "markup" /\ pc'[p] = "version" /\ UNCHANGED idx
    <3>1. reached'[p] = reached[p] + 1
      BY <2>2, Remembered DEF Ended
    <3> QED BY <1>a, <1>b, <2>2, <3>1 DEF EarlyPC
  <2>3. CASE pc[p] = "report" /\ pc'[p] = "idle"
    <3>1. idx'[p] \in DSN
      BY TypeStep DEF TypeOK
    <3>2. idx'[p] \in Nat
      BY <3>1, ConstantsAssumption DEF DSN
    <3> QED BY <1>c, <2>3, <3>2 DEF EarlyPC
  <2>4. CASE pc[p] \in {"geterr", "runlock"} /\ pc'[p] = "lock" /\ idx'[p] = idx[p] + 1
    BY <1>a, <1>b, <1>d, <2>4
  <2>5. CASE pc[p] \in {"geterr", "runlock"} /\ pc'[p] = "report" /\ idx'[p] = idx[p]
    BY <1>a, <1>b, <1>d, <2>5 DEF EarlyPC
  <2>6. CASE UNCHANGED idx /\ pc[p] \in EarlyPC \ {"markup", "geterr"} /\ pc'[p] \in EarlyPC
    BY <1>a, <1>b, <1>d, <2>6 DEF EarlyPC
  <2>7. CASE /\ UNCHANGED idx /\ pc[p] \notin {"idle", "clear", "report"} \cup EarlyPC
             /\ pc'[p] \notin {"idle", "clear", "report"} \cup EarlyPC
    BY <1>a, <1>b, <1>d, <2>7 DEF EarlyPC
  <2> QED BY <1>1, <2>1, <2>2, <2>3, <2>4, <2>5, <2>6, <2>7, OwnPC
<1>2. CASE StartScrape(p)
  <2>1. pc[p] = "idle" /\ pc'[p] = "clear" /\ idx'[p] = 1
    BY <1>a, <1>2 DEF StartScrape, Goto
  <2> QED BY <1>b, <1>d, <2>1 DEF EarlyPC
<1>3. CASE /\ pc'[p] = pc[p] \/ (pc[p] = "rblocked" /\ pc'[p] = "settings")
           /\ idx'[p] = idx[p]
  <2>1. reached'[p] = reached[p] \/ (pc'[p] = "idle" /\ reached'[p] = 0)
    BY <1>c, <1>3, Remembered DEF Ended
  <2> QED BY <1>a, <1>b, <1>c, <1>3, <2>1 DEF EarlyPC
<1>4. CASE Environment \/ UNCHANGED vars
  BY <1>3, <1>4 DEF Environment, StopPostgres, StartPostgres, EditFile, scrapeVars, vars
<1>5. ASSUME NEW q \in Scrapers \ {p}, StartScrape(q) \/ Step(q)
      PROVE  /\ pc'[p] = pc[p] \/ (pc[p] = "rblocked" /\ pc'[p] = "settings")
             /\ idx'[p] = idx[p]
  BY <1>5, OtherPC
<1> QED BY <1>1, <1>2, <1>3, <1>4, <1>5 DEF Next

LEMMA VersionStep == IInv /\ VersionInv /\ [Next]_vars => VersionInv'
<1> SUFFICES ASSUME IInv, VersionInv, [Next]_vars, NEW p \in Scrapers, pc'[p] \in NoVersionPC
             PROVE  ver'[p] = None
  BY DEF VersionInv
<1>a. /\ pc \in [Scrapers -> PC] /\ ver \in [Scrapers -> Versions \cup {None}]
      /\ pc[p] \in NoVersionPC => ver[p] = None
  BY DEF IInv, TypeOK, VersionInv
<1>1. CASE Step(p)
  <2>1. CASE GetServerFailed(p) \/ RUnlock(p)
    BY <1>a, <2>1 DEF GetServerFailed, RUnlock, NextDSN
  <2>2. CASE GetServer(p)
    BY <1>a, <2>2 DEF GetServer, LockServers, Lookup, NewServer, NewServerFails, StartPing,
                      PingSucceeds, PingFails, NoVersionPC
  <2>3. CASE ReadVersion(p)
    <3>1. pc'[p] = IF ver'[p] = None THEN "vererr" ELSE "check"
      BY <1>a, <2>3 DEF ReadVersion, Goto
    <3> QED BY <3>1 DEF NoVersionPC
  <2>4. CASE WUnlock(p)
    BY <1>a, <2>4 DEF WUnlock, NoVersionPC
  <2>5. CASE CheckMapVersions(p) /\ ~WUnlock(p) /\ ~ReadVersion(p)
    BY <1>a, <2>5
       DEF CheckMapVersions, StartVersionQuery, VersionQueryRefused, VersionFailed, CheckVersion,
           WLock, WAcquire, BuildMetricMap, BuildOverrides, ResetUserQueriesError,
           UserQueriesFail, MergeMetrics, MergeOverrides, Goto, NoVersionPC
  <2>6. CASE Scrape(p) /\ ~RUnlock(p)
    BY <1>a, <2>6
       DEF Scrape, RLock, RBlock, StartSettings, SkipSettings, EndSettings, SettingsFailed,
           StartNamespace, SkipNamespace, EndNamespace, EndNamespaces, Goto, NoVersionPC
  <2>7. CASE ClearUp(p) \/ MarkUp(p) \/ Report(p)
    BY <1>a, <2>7 DEF ClearUp, MarkUp, Report, Goto, NoVersionPC
  <2> QED BY <1>1, <2>1, <2>2, <2>3, <2>4, <2>5, <2>6, <2>7 DEF Step
<1>2. CASE StartScrape(p)
  BY <1>a, <1>2 DEF StartScrape, NoVersionPC
<1>3. CASE Environment \/ UNCHANGED vars
  BY <1>a, <1>3 DEF Environment, StopPostgres, StartPostgres, EditFile, scrapeVars, vars
<1>4. ASSUME NEW q \in Scrapers \ {p}, StartScrape(q) \/ Step(q)
      PROVE  ver'[p] = None
  <2>1. /\ pc'[p] = pc[p] \/ (pc[p] = "rblocked" /\ pc'[p] = "settings")
        /\ ver'[p] = ver[p]
    BY <1>4, OtherPC
  <2> QED BY <1>a, <2>1 DEF NoVersionPC
<1> QED BY <1>1, <1>2, <1>3, <1>4 DEF Next

\* Whoever has the exporter to himself is the only one to take a step.
LEMMA SoloActor ==
  ASSUME IInv, SoloInv, [Next]_vars, Remember, NEW p \in Scrapers, solo'[p]
  PROVE  /\ \A q \in Scrapers \ {p} : pc[q] = "idle" /\ pc'[q] = "idle"
         /\ \/ StartScrape(p)
            \/ solo[p] /\ Step(p)
            \/ solo[p] /\ UNCHANGED <<scrapeVars, srv, gaugeVars>>
<1>a. /\ pc'[p] # "idle"
      /\ solo[p] \/ Starts(p)
      /\ Starts(p) => \A q \in Scrapers \ {p} : pc[q] = "idle"
      /\ \A q \in Scrapers \ {p} : ~Starts(q)
  BY Remembered DEF Ended
<1>b. \A q \in Scrapers \ {p} : pc[q] = "idle" /\ pc'[q] = "idle"
  BY <1>a DEF SoloInv, Starts
<1>1. ASSUME NEW q \in Scrapers \ {p}, StartScrape(q) \/ Step(q)
      PROVE  FALSE
  <2>1. CASE StartScrape(q)
    BY <1>b, <2>1 DEF StartScrape, Goto, IInv, TypeOK
  <2>2. CASE Step(q)
    BY <1>b, <2>2, OwnPC
  <2> QED BY <1>1, <2>1, <2>2
<1>2. CASE Step(p)
  <2>1. ~Starts(p)
    BY <1>2, OwnPC DEF Starts
  <2> QED BY <1>a, <1>b, <1>2, <2>1
<1>3. CASE Environment \/ UNCHANGED vars
  <2>1. UNCHANGED <<scrapeVars, srv, gaugeVars>>
    BY <1>3 DEF Environment, StopPostgres, StartPostgres, EditFile, vars
  <2>2. ~Starts(p)
    BY <2>1 DEF Starts, scrapeVars
  <2> QED BY <1>a, <1>b, <2>1, <2>2
<1> QED BY <1>b, <1>1, <1>2, <1>3 DEF Next

\* The gauges count the errors of a scrape and the data sources it finds up.
LEMMA GaugesOwn ==
  ASSUME IInv, NEW p \in Scrapers, Step(p)
  PROVE  /\ errorGauge' = IF Fails(p) THEN Inc(errorGauge) ELSE errorGauge
         /\ psqlUp' = IF pc[p] = "clear" THEN 0
                      ELSE IF pc[p] = "markup" THEN Inc(psqlUp) ELSE psqlUp
<1>a. pc \in [Scrapers -> PC] /\ nsErr[p] \in BOOLEAN
  BY DEF IInv, TypeOK
<1>1. CASE ClearUp(p) \/ MarkUp(p) \/ Report(p)
  BY <1>a, <1>1 DEF ClearUp, MarkUp, Report, gaugeVars, Fails
<1>2. CASE GetServerFailed(p)
  BY <1>a, <1>2 DEF GetServerFailed, NextDSN, CountError, Fails
<1>3. CASE GetServer(p)
  BY <1>a, <1>3 DEF GetServer, LockServers, Lookup, NewServer, NewServerFails, StartPing,
                    PingSucceeds, PingFails, gaugeVars, Fails
<1>4. CASE VersionFailed(p) \/ SettingsFailed(p)
  BY <1>a, <1>4 DEF VersionFailed, SettingsFailed, Goto, CountError, Fails
<1>5. CASE EndNamespaces(p)
  BY <1>a, <1>5 DEF EndNamespaces, Goto, CountError, Fails
<1>6. CASE CheckMapVersions(p) /\ ~VersionFailed(p)
  BY <1>a, <1>6
     DEF CheckMapVersions, StartVersionQuery, VersionQueryRefused, ReadVersion, CheckVersion,
         WLock, WAcquire, BuildMetricMap, BuildOverrides, ResetUserQueriesError,
         UserQueriesFail, MergeMetrics, MergeOverrides, WUnlock, gaugeVars, Fails
<1>7. CASE Scrape(p) /\ ~SettingsFailed(p) /\ ~EndNamespaces(p)
  BY <1>a, <1>7
     DEF Scrape, RLock, RBlock, StartSettings, SkipSettings, EndSettings, StartNamespace,
         SkipNamespace, EndNamespace, RUnlock, NextDSN, Goto, gaugeVars, Fails
<1> QED BY <1>1, <1>2, <1>3, <1>4, <1>5, <1>6, <1>7 DEF Step

\* A scrape that no other one disturbs goes on to Server.Scrape with maps that are of its
\* version: it has found them so, or has built them.
LEMMA MapsOwn ==
  ASSUME IInv, VersionInv, NEW p \in Scrapers, Step(p),
         \A q \in Scrapers \ {p} : pc[q] = "idle",
         pc[p] \in CurrentPC /\ ver[p] # None => srv[hnd[p]].lastMapVersion = ver[p],
         pc'[p] \in CurrentPC, ver'[p] # None
  PROVE  srv'[hnd'[p]].lastMapVersion = ver'[p]
<1>a. /\ pc \in [Scrapers -> PC] /\ srv \in [Handles -> ServerObject]
      /\ ver \in [Scrapers -> Versions \cup {None}]
  BY DEF IInv, TypeOK
<1>b. pc'[p] \notin {"lock", "report", "idle"} \cup EarlyPC
  BY DEF CurrentPC, Reading, EarlyPC
<1>1. CASE ClearUp(p) \/ MarkUp(p) \/ Report(p) \/ GetServer(p) \/ GetServerFailed(p) \/ RUnlock(p)
  <2>1. pc'[p] \in EarlyPC \cup {"report", "idle", "version"}
    BY <1>a, <1>1
       DEF ClearUp, MarkUp, Report, GetServer, LockServers, Lookup, NewServer, NewServerFails,
           StartPing, PingSucceeds, PingFails, GetServerFailed, RUnlock, NextDSN, Goto, EarlyPC
  <2> QED BY <2>1 DEF EarlyPC, CurrentPC, Reading
<1>2. CASE CheckVersion(p)
  <2>1. ~Rebuilding(hnd[p])
    <3> SUFFICES ASSUME srv[hnd[p]].writer # None, pc[srv[hnd[p]].writer] \in Building
                 PROVE  FALSE
      BY DEF Rebuilding
    <3>1. pc[p] = "check" /\ hnd[p] \in Handles
      BY <1>2, HandleOf DEF CheckVersion, NoHandlePC
    <3>2. srv[hnd[p]].writer \in Scrapers
      BY <1>a, <3>1 DEF ServerObject
    <3> QED BY <3>1, <3>2 DEF Building
  <2>2. ~NeedsRebuild(p) /\ UNCHANGED <<hnd, ver, srv>>
    BY <1>a, <1>2, <2>1 DEF CheckVersion, Goto, CurrentPC, Reading
  <2> QED BY <2>2 DEF NeedsRebuild
<1>3. CASE VersionFailed(p)
  BY <1>3 DEF VersionFailed, VersionInv, NoVersionPC
<1>4. CASE BuildOverrides(p)
  <2>1. hnd[p] \in Handles
    BY <1>4, HandleOf DEF BuildOverrides, NoHandlePC
  <2> QED BY <1>a, <1>4, <2>1 DEF BuildOverrides, ServerObject
<1>5. CASE UserQueriesFail(p) \/ MergeOverrides(p)
  <2>1. hnd[p] \in Handles
    BY <1>5, HandleOf DEF UserQueriesFail, MergeOverrides, NoHandlePC
  <2>2. srv[hnd[p]].lastMapVersion = ver[p]
    BY <1>5 DEF UserQueriesFail, MergeOverrides, IInv, MapsInv, Progress
  <2> QED BY <1>a, <1>5, <2>1, <2>2 DEF UserQueriesFail, MergeOverrides, ServerObject
<1>6. CASE \/ StartVersionQuery(p) \/ VersionQueryRefused(p) \/ ReadVersion(p) \/ WLock(p)
           \/ WAcquire(p) \/ BuildMetricMap(p) \/ ResetUserQueriesError(p) \/ MergeMetrics(p)
  BY <1>a, <1>6
     DEF StartVersionQuery, VersionQueryRefused, ReadVersion, WLock, WAcquire, BuildMetricMap,
         ResetUserQueriesError, MergeMetrics, Goto, CurrentPC, Reading
<1>7. CASE WUnlock(p) \/ (Scrape(p) /\ ~RUnlock(p))
  <2>1. /\ pc[p] \in CurrentPC /\ pc[p] \notin NoHandlePC \cup {"geterr"}
        /\ hnd'[p] = hnd[p] /\ ver'[p] = ver[p]
    BY <1>a, <1>7
       DEF WUnlock, Scrape, RLock, RBlock, StartSettings, SkipSettings, EndSettings,
           SettingsFailed, StartNamespace, SkipNamespace, EndNamespace, EndNamespaces,
           CurrentPC, Reading, NoHandlePC
  <2>2. hnd[p] \in Handles
    BY <2>1, HandleOf
  <2>3. srv'[hnd[p]].lastMapVersion = srv[hnd[p]].lastMapVersion
    BY <1>a, <1>7, <2>2
       DEF WUnlock, Scrape, RLock, RBlock, StartSettings, SkipSettings, EndSettings,
           SettingsFailed, StartNamespace, SkipNamespace, EndNamespace, EndNamespaces,
           Connect, Disconnect, ServerObject
  <2> QED BY <2>1, <2>3
<1> QED BY <1>1, <1>2, <1>3, <1>4, <1>5, <1>6, <1>7 DEF Step, CheckMapVersions, Scrape

LEMMA SoloStep == IInv /\ VersionInv /\ SoloInv /\ [Next]_vars /\ Remember => SoloInv'
<1> SUFFICES ASSUME IInv, VersionInv, SoloInv, [Next]_vars, Remember,
                    NEW p \in Scrapers, solo'[p]
             PROVE  /\ pc'[p] # "idle" /\ \A q \in Scrapers \ {p} : pc'[q] = "idle"
                    /\ pc'[p] \in CurrentPC /\ ver'[p] # None =>
                         srv'[hnd'[p]].lastMapVersion = ver'[p]
  BY DEF SoloInv
<1>1. pc'[p] # "idle" /\ \A q \in Scrapers \ {p} : pc[q] = "idle" /\ pc'[q] = "idle"
  BY Remembered, SoloActor DEF Ended
<1>2. CASE StartScrape(p)
  <2>1. pc'[p] = "clear"
    BY <1>2 DEF StartScrape, Goto, IInv, TypeOK
  <2> QED BY <1>1, <2>1 DEF CurrentPC, Reading
<1>3. CASE solo[p] /\ Step(p)
  <2>1. pc[p] \in CurrentPC /\ ver[p] # None => srv[hnd[p]].lastMapVersion = ver[p]
    BY <1>3 DEF SoloInv
  <2> QED BY <1>1, <1>3, <2>1, MapsOwn
<1>4. CASE solo[p] /\ UNCHANGED <<scrapeVars, srv, gaugeVars>>
  BY <1>1, <1>4 DEF SoloInv, scrapeVars
<1> QED BY <1>2, <1>3, <1>4, SoloActor

LEMMA GaugesStep ==
  ASSUME NumDSN <= GaugeBound, IInv, ReachedInv, SoloInv, GaugesInv, [Next]_vars, Remember
  PROVE  GaugesInv'
<1> SUFFICES ASSUME NEW p \in Scrapers, solo'[p]
             PROVE  /\ errorGauge' > 0 <=> failed'[p]
                    /\ pc'[p] # "clear" => psqlUp' = reached'[p]
  BY DEF GaugesInv
<1>a. /\ errorGauge \in Nat /\ psqlUp \in Nat /\ GaugeBound \in Nat /\ GaugeBound > 0
      /\ idx[p] \in Nat /\ idx[p] <= GaugeBound /\ reached[p] \in Nat
  BY ConstantsAssumption DEF IInv, TypeOK, ReachedInv, DSN
<1>b. pc'[p] # "idle" /\ (failed'[p] <=> failed[p] \/ Fails(p))
  BY Remembered DEF Ended
<1>1. CASE StartScrape(p)
  <2>1. pc[p] = "idle" /\ pc'[p] = "clear" /\ errorGauge' = 0
    BY <1>1 DEF StartScrape, Goto, ClearError, IInv, TypeOK
  <2>2. ~failed'[p]
    BY <1>b, <2>1 DEF ReachedInv, Fails
  <2> QED BY <2>1, <2>2
<1>2. CASE solo[p] /\ Step(p)
  <2>1. /\ errorGauge > 0 <=> failed[p]
        /\ pc[p] # "clear" => psqlUp = reached[p]
    BY <1>2 DEF GaugesInv
  <2>2. /\ errorGauge' = IF Fails(p) THEN Inc(errorGauge) ELSE errorGauge
        /\ psqlUp' = IF pc[p] = "clear" THEN 0
                     ELSE IF pc[p] = "markup" THEN Inc(psqlUp) ELSE psqlUp
    BY <1>2, GaugesOwn
  <2>3. errorGauge' > 0 <=> failed'[p]
    BY <1>a, <1>b, <2>1, <2>2 DEF Inc
  <2>4. psqlUp' = reached'[p]
    <3>1. CASE pc[p] = "clear"
      <4>1. reached'[p] = reached[p] /\ reached[p] = 0
        BY <1>b, <3>1, Remembered DEF Ended, ReachedInv
      <4> QED BY <2>2, <3>1, <4>1
    <3>2. CASE pc[p] = "markup"
      <4>1. pc'[p] # "markup"
        BY <1>2, <3>2, OwnPC DEF EarlyPC
      <4>2. reached'[p] = reached[p] + 1
        BY <1>b, <3>2, <4>1, Remembered DEF Ended
      <4>3. reached[p] < GaugeBound
        BY <1>a, <3>2 DEF ReachedInv, EarlyPC
      <4> QED BY <2>1, <2>2, <3>2, <4>2, <4>3 DEF Inc
    <3>3. CASE pc[p] \notin {"clear", "markup"}
      BY <1>b, <2>1, <2>2, <3>3, Remembered DEF Ended
    <3> QED BY <3>1, <3>2, <3>3
  <2> QED BY <2>3, <2>4
<1>3. CASE solo[p] /\ UNCHANGED <<scrapeVars, srv, gaugeVars>>
  <2>1. pc'[p] = pc[p] /\ errorGauge' = errorGauge /\ psqlUp' = psqlUp /\ nsErr' = nsErr
    BY <1>3 DEF scrapeVars, gaugeVars
  <2>2. ~Fails(p) /\ reached'[p] = reached[p]
    BY <1>b, <2>1, Remembered DEF Fails, Ended
  <2> QED BY <1>3, <1>b, <2>1, <2>2 DEF GaugesInv
<1> QED BY <1>1, <1>2, <1>3, SoloActor

LEMMA HInitInv == HInit => HInv /\ GaugesInv
<1> SUFFICES ASSUME HInit PROVE HInv /\ GaugesInv
  OBVIOUS
<1>1. IInv BY InitInv DEF HInit
<1>2. VersionInv BY DEF HInit, Init, VersionInv
<1>3. ReachedInv BY ConstantsAssumption DEF HInit, Init, ReachedInv, EarlyPC
<1>4. SoloInv /\ GaugesInv BY DEF HInit, SoloInv, GaugesInv
<1> QED BY <1>1, <1>2, <1>3, <1>4 DEF HInv

LEMMA HStep == HInv /\ [HNext]_hvars => HInv'
<1> SUFFICES ASSUME HInv, [HNext]_hvars PROVE HInv'
  OBVIOUS
<1>1. CASE Next /\ Remember
  BY <1>1, NextInv, VersionStep, ReachedStep, SoloStep DEF HInv
<1>2. CASE UNCHANGED hvars
  <2>1. IInv'
    BY <1>2, NextInv DEF HInv, hvars
  <2> QED BY <1>2, <2>1 DEF hvars, vars, scrapeVars, HInv, VersionInv, ReachedInv, SoloInv
<1> QED BY <1>1, <1>2 DEF HNext

LEMMA HInvariance == HSpec => []HInv
  BY HInitInv, HStep, PTL DEF HSpec

\* A scrape that has the exporter to itself queries with maps of the version it has just
\* read (checkMapVersions), whatever the scrapes before it left behind.
THEOREM SoloMapsAreCurrent == HSpec => []SoloMapsCurrent
<1>1. HInv => SoloMapsCurrent
  BY DEF HInv, SoloInv, SoloMapsCurrent, CurrentPC
<1> QED BY <1>1, HInvariance, PTL

\* What a scrape reports when no other one overlaps it is true: an error if and only if one
\* of its steps failed, and as many data sources as it reached (Collect, scrape).  The
\* assumption is that the gauges of the model do not stop counting.
THEOREM GaugesAreTruthful ==
  ASSUME NumDSN <= GaugeBound
  PROVE  HSpec => []GaugesTruthful
<1>1. HInv /\ GaugesInv /\ [HNext]_hvars => GaugesInv'
  <2> SUFFICES ASSUME HInv, GaugesInv, [HNext]_hvars PROVE GaugesInv'
    OBVIOUS
  <2>1. CASE Next /\ Remember
    BY <2>1, GaugesStep DEF HInv
  <2>2. CASE UNCHANGED hvars
    BY <2>2 DEF hvars, vars, scrapeVars, gaugeVars, GaugesInv
  <2> QED BY <2>1, <2>2 DEF HNext
<1>2. GaugesInv => GaugesTruthful
  BY DEF GaugesInv, GaugesTruthful
<1> QED BY <1>1, <1>2, HInitInv, HInvariance, PTL DEF HSpec
=============================================================================
