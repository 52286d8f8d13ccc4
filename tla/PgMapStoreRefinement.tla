------------------------- MODULE PgMapStoreRefinement -------------------------
(***************************************************************************)
(* PgExporter implements PgMapStore, for every number of scrapes, Servers  *)
(* and versions: each step of a scrape begins or ends a use of the maps of *)
(* its Server, withdraws, publishes or discards them, or changes nothing a *)
(* user of the maps can see.                                               *)
(*                                                                         *)
(* The invariant of PgExporterProofs does not tell that what is published  *)
(* are maps (BuiltInv), nor that a Server object nobody refers to has none *)
(* (GarbageInv), so that it can become another Server unseen.              *)
(*                                                                         *)
(* What PgMapStore promises to the users of maps is proved of its rules,   *)
(* and holds of the exporter as it implements them.                        *)
(***************************************************************************)
EXTENDS PgExporterProofs

Unreferenced(h) ==
  /\ \A d \in DSN : servers[d] # h
  /\ \A q \in Scrapers : hnd[q] # h

GarbageInv == \A h \in Handles : Unreferenced(h) => srv[h].metricMap = None

BuiltInv ==
  \A p \in Scrapers : pc[p] \in Building \ {"build"} => srv[hnd[p]].metricMap # None

RInv == IInv /\ GarbageInv /\ BuiltInv

\* What a user of the maps of a Server can see.
Same(h) ==
  /\ Maps(h)' = Maps(h)
  /\ srv'[h].readers = srv[h].readers

-----------------------------------------------------------------------------
(***************************************************************************)
(* Steps that have nothing to do with the maps.                            *)
(***************************************************************************)
Quiet(p) ==
  /\ pc[p] \notin Building
  /\ \E l \in PC \ Building : pc' = [pc EXCEPT ![p] = l]
  /\ \A h \in Handles :
       /\ srv'[h].metricMap = srv[h].metricMap
       /\ srv'[h].readers = srv[h].readers
       /\ \/ srv'[h].writer = srv[h].writer
          \/ srv[h].writer = None /\ srv'[h].writer = p
       /\ Unreferenced(h)' => Unreferenced(h)
  /\ \A q \in Scrapers \ {p} : hnd'[q] = hnd[q]

QuietAction(p) ==
  \/ StartScrape(p) \/ ClearUp(p) \/ GetServer(p) \/ MarkUp(p) \/ Report(p)
  \/ StartVersionQuery(p) \/ VersionQueryRefused(p) \/ ReadVersion(p) \/ VersionFailed(p)
  \/ CheckVersion(p) \/ WLock(p) \/ RBlock(p)
  \/ StartSettings(p) \/ SkipSettings(p) \/ EndSettings(p) \/ SettingsFailed(p)
  \/ StartNamespace(p) \/ SkipNamespace(p) \/ EndNamespace(p) \/ EndNamespaces(p)

\* Connections, gauges and the registry: none of these steps touches maps or readers, or
\* loses the last reference to a Server.
LEMMA QuietSteps ==
  ASSUME RInv, NEW p \in Scrapers, QuietAction(p)
  PROVE  Quiet(p)
<1> USE DEF Quiet, Building, PC
<1>0. /\ pc \in [Scrapers -> PC] /\ hnd \in [Scrapers -> Handles \cup {None}]
      /\ servers \in [DSN -> Handles \cup {None}] /\ idx \in [Scrapers -> DSN]
      /\ srv \in [Handles -> ServerObject]
  BY DEF RInv, IInv, TypeOK
<1>1. CASE \/ StartScrape(p) \/ ClearUp(p) \/ MarkUp(p) \/ Report(p)
           \/ LockServers(p) \/ NewServerFails(p) \/ VersionQueryRefused(p)
           \/ VersionFailed(p) \/ CheckVersion(p) \/ RBlock(p)
           \/ SkipSettings(p) \/ SettingsFailed(p) \/ EndNamespaces(p)
  BY <1>0, <1>1 DEF StartScrape, ClearUp, MarkUp, Report, LockServers, NewServerFails,
    VersionQueryRefused, VersionFailed, CheckVersion, RBlock, SkipSettings, SettingsFailed,
    EndNamespaces, Goto, Unreferenced
<1>2. CASE SkipNamespace(p)
  <2>1. pc' = [pc EXCEPT ![p] = "namespace"] BY <1>0, <1>2 DEF SkipNamespace
  <2>2. QED BY <1>0, <1>2, <2>1 DEF SkipNamespace, Unreferenced
<1>3. CASE Lookup(p)
  <2>1. hnd[p] = None BY <1>3 DEF Lookup, RInv, IInv, HandleInv, NoHandlePC
  <2>2. QED BY <1>0, <1>3, <2>1, ConstantsAssumption DEF Lookup, Goto, Unreferenced
<1>4. CASE NewServer(p)
  <2>1. hnd[p] = None BY <1>4 DEF NewServer, RInv, IInv, HandleInv, NoHandlePC
  <2>2. PICK h \in Handles : /\ srv[h].db = "unused"
                             /\ srv' = [srv EXCEPT ![h] = NewObject("open")]
                             /\ servers' = [servers EXCEPT ![idx[p]] = h]
                             /\ hnd' = [hnd EXCEPT ![p] = h]
    BY <1>4 DEF NewServer
  <2>3. Unreferenced(h)
    BY <1>0, <2>2, ConstantsAssumption DEF Unreferenced, RInv, IInv, RegistrySound
  <2>4. srv[h].metricMap = None BY <2>3 DEF RInv, GarbageInv
  <2>5. srv[h].readers = {} /\ srv[h].writer = None
    BY <1>0, <2>3 DEF Unreferenced, RInv, IInv, LockInv, ServerObject
  <2>6. \A g \in Handles : Unreferenced(g)' => Unreferenced(g)
    BY <1>0, <1>4, <2>1, <2>2, ConstantsAssumption DEF Unreferenced, NewServer
  <2>7. QED
    BY <1>0, <1>4, <2>2, <2>4, <2>5, <2>6 DEF NewServer, NewObject, Goto
<1>5. CASE StartPing(p) \/ StartVersionQuery(p) \/ StartSettings(p)
  <2>1. /\ pc[p] \notin Building /\ hnd' = hnd /\ servers' = servers
        /\ \E l \in {"pinging", "versionrow", "settingrows"} : pc' = [pc EXCEPT ![p] = l]
    BY <1>5 DEF StartPing, StartVersionQuery, StartSettings, Goto
  <2>2. ASSUME NEW h \in Handles
        PROVE  /\ srv'[h].metricMap = srv[h].metricMap
               /\ srv'[h].readers = srv[h].readers
               /\ srv'[h].writer = srv[h].writer
    BY <1>0, <1>5 DEF StartPing, StartVersionQuery, StartSettings, Connect, ServerObject
  <2>3. QED BY <2>1, <2>2 DEF Unreferenced
<1>6. CASE PingSucceeds(p) \/ EndSettings(p) \/ EndNamespace(p)
  BY <1>0, <1>6 DEF PingSucceeds, EndSettings, EndNamespace, Disconnect, Goto, ServerObject,
    Unreferenced
<1>7. CASE ReadVersion(p)
  <2>1. \E l \in {"vererr", "check"} : pc' = [pc EXCEPT ![p] = l]
    BY <1>7 DEF ReadVersion, Goto
  <2>2. pc[p] \notin Building /\ hnd' = hnd /\ servers' = servers
    BY <1>7 DEF ReadVersion
  <2>3. ASSUME NEW h \in Handles
        PROVE  /\ srv'[h].metricMap = srv[h].metricMap
               /\ srv'[h].readers = srv[h].readers
               /\ srv'[h].writer = srv[h].writer
    BY <1>0, <1>7 DEF ReadVersion, Disconnect, ServerObject
  <2>4. QED BY <2>1, <2>2, <2>3 DEF Unreferenced
<1>8. CASE StartNamespace(p)
  <2>1. /\ pc[p] \notin Building /\ hnd' = hnd /\ servers' = servers
        /\ pc' = [pc EXCEPT ![p] = "namespacerows"]
    BY <1>8 DEF StartNamespace, Goto
  <2>2. ASSUME NEW h \in Handles
        PROVE  /\ srv'[h].metricMap = srv[h].metricMap
               /\ srv'[h].readers = srv[h].readers
               /\ srv'[h].writer = srv[h].writer
    BY <1>0, <1>8 DEF StartNamespace, Connect, ServerObject
  <2>3. QED BY <2>1, <2>2 DEF Unreferenced
<1>9. CASE PingFails(p)
  <2>1. hnd[p] = servers[idx[p]]
    BY <1>9 DEF PingFails, RInv, IInv, MutexInv
  <2>2. \A g \in Handles : Unreferenced(g)' => Unreferenced(g)
    BY <1>0, <1>9, <2>1 DEF PingFails, Evict, Unreferenced
  <2>3. pc[p] \notin Building /\ hnd' = hnd /\ pc' = [pc EXCEPT ![p] = "geterr"]
    BY <1>9 DEF PingFails, Goto
  <2>4. ASSUME NEW h \in Handles
        PROVE  /\ srv'[h].metricMap = srv[h].metricMap
               /\ srv'[h].readers = srv[h].readers
               /\ srv'[h].writer = srv[h].writer
    BY <1>0, <1>9 DEF PingFails, ServerObject
  <2>5. QED BY <2>2, <2>3, <2>4
<1>10. CASE WLock(p)
  <2>1. hnd[p] \in Handles BY <1>10, HandleOf DEF WLock, NoHandlePC, RInv
  <2>2. /\ pc[p] \notin Building /\ hnd' = hnd /\ servers' = servers
        /\ pc' = [pc EXCEPT ![p] = "wwait"]
    BY <1>10 DEF WLock, Goto
  <2>3. ASSUME NEW h \in Handles
        PROVE  /\ srv'[h].metricMap = srv[h].metricMap
               /\ srv'[h].readers = srv[h].readers
               /\ \/ srv'[h].writer = srv[h].writer
                  \/ srv[h].writer = None /\ srv'[h].writer = p
    BY <1>0, <1>10, <2>1 DEF WLock, ServerObject
  <2>4. QED BY <2>2, <2>3 DEF Unreferenced
<1>11. QED
  BY <1>1, <1>2, <1>3, <1>4, <1>5, <1>6, <1>7, <1>8, <1>9, <1>10 DEF QuietAction, GetServer

\* A Server is not being rebuilt by the step that only announces a writer.
LEMMA QuietRebuilding ==
  ASSUME RInv, NEW p \in Scrapers, Quiet(p), NEW h \in Handles
  PROVE  Rebuilding(h)' = Rebuilding(h)
<1>1. /\ pc \in [Scrapers -> PC] /\ srv[h] \in ServerObject
  BY DEF RInv, IInv, TypeOK
<1>2. srv[h].writer \in Scrapers \cup {None} BY <1>1 DEF ServerObject
<1>3. CASE srv'[h].writer = srv[h].writer
  BY <1>1, <1>2, <1>3 DEF Quiet, Rebuilding
<1>4. CASE srv[h].writer = None /\ srv'[h].writer = p
  BY <1>1, <1>2, <1>4 DEF Quiet, Rebuilding
<1>5. QED BY <1>3, <1>4 DEF Quiet

\* A quiet step changes no maps that the store sees.
LEMMA QuietIsSame ==
  ASSUME RInv, NEW p \in Scrapers, Quiet(p), NEW h \in Handles
  PROVE  Same(h)
  BY QuietRebuilding DEF Same, Maps, Quiet

\* Nor what is known of garbage and of rebuilds.
LEMMA QuietInv ==
  ASSUME RInv, NEW p \in Scrapers, Quiet(p)
  PROVE  GarbageInv' /\ BuiltInv'
<1>1. GarbageInv' BY DEF Quiet, GarbageInv, RInv
<1>2. ASSUME NEW q \in Scrapers, pc'[q] \in Building \ {"build"}
      PROVE  srv'[hnd'[q]].metricMap # None
  <2>1. q # p /\ pc'[q] = pc[q] BY <1>2 DEF Quiet, RInv, IInv, TypeOK
  <2>2. hnd[q] \in Handles BY <1>2, <2>1, HandleOf DEF RInv, Building, NoHandlePC
  <2>3. QED BY <1>2, <2>1, <2>2 DEF Quiet, RInv, BuiltInv
<1>3. QED BY <1>1, <1>2 DEF BuiltInv

-----------------------------------------------------------------------------
\* Maps are not nil.
LEMMA MapsAreNotNone ==
  ASSUME NEW m \in MapValue
  PROVE  m # None
<1>1. None \notin MapValue BY ConstantsAssumption DEF MapValue
<1>2. QED BY <1>1

(***************************************************************************)
(* The steps of a rebuild.                                                 *)
(***************************************************************************)
BuildAction(p) ==
  \/ BuildMetricMap(p) \/ BuildOverrides(p)
  \/ ResetUserQueriesError(p) \/ UserQueriesFail(p) \/ MergeMetrics(p) \/ MergeOverrides(p)

Build(p) ==
  /\ pc[p] \in Building
  /\ \E l \in Building \ {"build"} : pc' = [pc EXCEPT ![p] = l]
  /\ hnd' = hnd /\ servers' = servers
  /\ \A h \in Handles \ {hnd[p]} : srv'[h] = srv[h]
  /\ srv'[hnd[p]].writer = srv[hnd[p]].writer
  /\ srv'[hnd[p]].readers = srv[hnd[p]].readers
  /\ srv'[hnd[p]].metricMap # None

\* A rebuild goes on: it writes the maps of its own Server and takes nothing back.
LEMMA BuildSteps ==
  ASSUME RInv, NEW p \in Scrapers, BuildAction(p)
  PROVE  Build(p)
<1> USE DEF Build, Building
<1>1. pc[p] \in Building BY DEF BuildAction, BuildMetricMap, BuildOverrides,
        ResetUserQueriesError, UserQueriesFail, MergeMetrics, MergeOverrides
<1>2. hnd[p] \in Handles BY <1>1, HandleOf DEF RInv, NoHandlePC
<1>3. srv \in [Handles -> ServerObject] BY DEF RInv, IInv, TypeOK
<1>4. ver[p] \in Versions
  BY <1>1 DEF RInv, IInv, TypeOK, HandleInv, WriterPC
<1>5. pc[p] # "build" => srv[hnd[p]].metricMap # None
  BY <1>1 DEF RInv, BuiltInv
<1>6. CASE BuildMetricMap(p)
  <2>1. [ver |-> ver[p], user |-> FALSE] \in MapValue BY <1>4 DEF MapValue
  <2>2. [ver |-> ver[p], user |-> FALSE] # None BY <2>1, MapsAreNotNone
  <2>3. QED BY <1>2, <1>3, <1>6, <2>2 DEF BuildMetricMap, Goto, ServerObject
<1>7. CASE BuildOverrides(p)
  BY <1>2, <1>3, <1>5, <1>7 DEF BuildOverrides, Goto, ServerObject
<1>8. CASE ResetUserQueriesError(p) \/ UserQueriesFail(p)
  BY <1>2, <1>3, <1>5, <1>8 DEF ResetUserQueriesError, UserQueriesFail, Goto
<1>9. CASE MergeMetrics(p)
  <2>1. srv[hnd[p]].metricMap \in MapValue
    BY <1>2, <1>3, <1>5, <1>9 DEF MergeMetrics, ServerObject
  <2>2. WithUserQueries(srv[hnd[p]].metricMap) \in MapValue
    BY <2>1 DEF WithUserQueries, MapValue
  <2>3. WithUserQueries(srv[hnd[p]].metricMap) # None BY <2>2, MapsAreNotNone
  <2>4. QED BY <1>2, <1>3, <1>9, <2>3 DEF MergeMetrics, Goto, ServerObject
<1>10. CASE MergeOverrides(p)
  BY <1>2, <1>3, <1>5, <1>10 DEF MergeOverrides, Goto, ServerObject
<1>11. QED BY <1>6, <1>7, <1>8, <1>9, <1>10 DEF BuildAction

\* To the users of the maps, nothing happens until they are published.
LEMMA BuildIsSame ==
  ASSUME RInv, NEW p \in Scrapers, Build(p), NEW h \in Handles
  PROVE  Same(h)
<1>1. pc \in [Scrapers -> PC] /\ srv[h] \in ServerObject BY DEF RInv, IInv, TypeOK
<1>2. srv[h].writer = p <=> h = hnd[p]
  BY DEF Build, RInv, IInv, LockInv, WriterPC
<1>3. srv'[h].writer = srv[h].writer /\ srv[h].writer \in Scrapers \cup {None}
  BY <1>1 DEF Build, ServerObject
<1>4. pc'[p] \in Building /\ \A q \in Scrapers \ {p} : pc'[q] = pc[q]
  BY <1>1 DEF Build
<1>5. Rebuilding(h)' = Rebuilding(h)
  BY <1>3, <1>4, ConstantsAssumption DEF Build, Rebuilding
<1>6. CASE h = hnd[p]
  <2>1. Rebuilding(h) BY <1>2, <1>6, ConstantsAssumption DEF Build, Rebuilding
  <2>2. QED BY <1>5, <1>6, <2>1 DEF Same, Maps, Build
<1>7. CASE h # hnd[p] BY <1>5, <1>7 DEF Same, Maps, Build
<1>8. QED BY <1>6, <1>7

\* A step of a rebuild keeps what is known of garbage and of rebuilds.
LEMMA BuildInv ==
  ASSUME RInv, NEW p \in Scrapers, Build(p)
  PROVE  GarbageInv' /\ BuiltInv'
<1>1. GarbageInv' BY DEF Build, GarbageInv, RInv, Unreferenced
<1>2. ASSUME NEW q \in Scrapers, pc'[q] \in Building \ {"build"}
      PROVE  srv'[hnd'[q]].metricMap # None
  <2>1. CASE q = p BY <2>1 DEF Build
  <2>2. CASE q # p
    <3>1. pc'[q] = pc[q] BY <2>2 DEF Build, RInv, IInv, TypeOK
    <3>2. hnd[q] \in Handles BY <1>2, <3>1, HandleOf DEF RInv, Building, NoHandlePC
    <3>3. hnd[q] # hnd[p]
      BY <1>2, <2>2, <3>1, OneWriter DEF RInv, Build, WriterPC
    <3>4. QED BY <1>2, <3>1, <3>2, <3>3 DEF Build, RInv, BuiltInv
  <2>3. QED BY <2>1, <2>2
<1>3. QED BY <1>1, <1>2 DEF BuiltInv

-----------------------------------------------------------------------------
(***************************************************************************)
(* What a step of PgExporter is to the store.                              *)
(***************************************************************************)
LEMMA SameIsStutter ==
  ASSUME \A h \in Handles : Same(h)
  PROVE  UNCHANGED Store!vars
  BY DEF Same, Store!vars

\* Maps that are not being rebuilt are maps, or there are none yet.
LEMMA NotWithdrawn ==
  ASSUME RInv, NEW h \in Handles, ~Rebuilding(h)
  PROVE  Maps(h) # WithdrawnMaps
<1>1. srv[h].metricMap \in MapValue \cup {None}
  BY DEF RInv, IInv, TypeOK, ServerObject
<1>2. CASE srv[h].metricMap = None BY <1>2 DEF Maps, NoMaps, WithdrawnMaps
<1>3. CASE srv[h].metricMap # None
  <2>1. srv[h].metricMap.ver # None BY <1>1, <1>3, ConstantsAssumption DEF MapValue
  <2>2. QED BY <1>3, <2>1 DEF Maps, WithdrawnMaps
<1>4. QED BY <1>2, <1>3

\* RLock begins a use.
LEMMA RLockStep ==
  ASSUME RInv, NEW p \in Scrapers, RLock(p)
  PROVE  Store!Next /\ GarbageInv' /\ BuiltInv'
<1>1. hnd[p] \in Handles BY HandleOf DEF RLock, RInv, NoHandlePC
<1>2. pc \in [Scrapers -> PC] /\ srv \in [Handles -> ServerObject]
  BY DEF RInv, IInv, TypeOK
<1>3. /\ \A h \in Handles : /\ srv'[h].metricMap = srv[h].metricMap
                            /\ srv'[h].writer = srv[h].writer
                            /\ srv'[h].readers = IF h = hnd[p] THEN srv[h].readers \cup {p}
                                                 ELSE srv[h].readers
      /\ hnd' = hnd /\ servers' = servers
      /\ pc[p] = "rlock" /\ pc' = [pc EXCEPT ![p] = "settings"]
  BY <1>2 DEF RLock, Goto, ServerObject
<1>4. \A h \in Handles : Rebuilding(h)' = Rebuilding(h)
  <2>1. \A q \in Scrapers : pc'[q] \in Building <=> pc[q] \in Building
    BY <1>2, <1>3 DEF Building
  <2>2. \A h \in Handles : srv[h].writer \in Scrapers \cup {None}
    BY <1>2 DEF ServerObject
  <2>3. QED BY <1>3, <2>1, <2>2 DEF Rebuilding
<1>5. ~Rebuilding(hnd[p]) BY DEF RLock, WriterGone, Rebuilding
<1>6. Store!BeginUse(hnd[p], p)
  <2>1. Maps(hnd[p]) # WithdrawnMaps BY <1>1, <1>5, NotWithdrawn
  <2>2. \A h \in Handles : Maps(h)' = Maps(h) BY <1>3, <1>4 DEF Maps
  <2>3. QED BY <1>1, <1>3, <2>1, <2>2 DEF Store!BeginUse
<1>7. GarbageInv' /\ BuiltInv'
  <2>1. GarbageInv' BY <1>3 DEF GarbageInv, RInv, Unreferenced
  <2>2. ASSUME NEW q \in Scrapers, pc'[q] \in Building \ {"build"}
        PROVE  srv'[hnd'[q]].metricMap # None
    <3>1. pc[q] \in Building \ {"build"} BY <1>2, <1>3, <2>2 DEF Building
    <3>2. hnd[q] \in Handles BY <3>1, HandleOf DEF RInv, Building, NoHandlePC
    <3>3. QED BY <1>3, <3>1, <3>2 DEF RInv, BuiltInv
  <2>3. QED BY <2>1, <2>2 DEF BuiltInv
<1>8. QED BY <1>1, <1>6, <1>7 DEF Store!Next

\* A writer that has waited for the readers withdraws the maps.
LEMMA WAcquireStep ==
  ASSUME RInv, NEW p \in Scrapers, WAcquire(p)
  PROVE  Store!Next /\ GarbageInv' /\ BuiltInv'
<1>1. hnd[p] \in Handles BY HandleOf DEF WAcquire, RInv, NoHandlePC
<1>2. pc \in [Scrapers -> PC] /\ srv \in [Handles -> ServerObject]
  BY DEF RInv, IInv, TypeOK
<1>3. /\ srv' = srv /\ hnd' = hnd /\ servers' = servers
      /\ pc[p] = "wwait" /\ pc' = [pc EXCEPT ![p] = "build"]
      /\ srv[hnd[p]].readers = {}
  BY DEF WAcquire, Goto, ReadersGone
<1>4. \A h \in Handles : srv[h].writer = p <=> h = hnd[p]
  BY <1>3 DEF RInv, IInv, LockInv, WriterPC
<1>5. Maps(hnd[p])' = WithdrawnMaps
  <2>1. Rebuilding(hnd[p])'
    BY <1>1, <1>2, <1>3, <1>4, ConstantsAssumption DEF Rebuilding, Building
  <2>2. QED BY <2>1 DEF Maps
<1>6. ASSUME NEW h \in Handles \ {hnd[p]} PROVE Maps(h)' = Maps(h)
  <2>1. srv[h].writer \in (Scrapers \ {p}) \cup {None} BY <1>2, <1>4 DEF ServerObject
  <2>2. Rebuilding(h)' = Rebuilding(h) BY <1>2, <1>3, <2>1 DEF Rebuilding
  <2>3. QED BY <1>3, <2>2 DEF Maps
<1>7. Store!Withdraw(hnd[p])
  BY <1>1, <1>3, <1>5, <1>6 DEF Store!Withdraw
<1>8. GarbageInv' /\ BuiltInv'
  BY <1>2, <1>3 DEF GarbageInv, RInv, Unreferenced, BuiltInv
<1>9. QED BY <1>1, <1>7, <1>8 DEF Store!Next

\* The unlock publishes what was built, and lets those in that have waited.
LEMMA WUnlockStep ==
  ASSUME RInv, NEW p \in Scrapers, WUnlock(p)
  PROVE  Store!Next /\ GarbageInv' /\ BuiltInv'
<1>0. hnd[p] \in Handles BY HandleOf DEF WUnlock, RInv, NoHandlePC
<1>1. PICK o \in Handles : o = hnd[p] BY <1>0
<1>2. pc \in [Scrapers -> PC] /\ srv \in [Handles -> ServerObject]
  BY DEF RInv, IInv, TypeOK
<1>3. /\ \A h \in Handles \ {o} : srv'[h] = srv[h]
      /\ srv'[o].metricMap = srv[o].metricMap
      /\ srv'[o].writer = None
      /\ srv'[o].readers = srv[o].readers \cup Blocked(o)
      /\ hnd' = hnd /\ servers' = servers
      /\ pc[p] = "unlock" /\ pc'[p] = "rlock"
  <2>1. /\ hnd' = hnd /\ servers' = servers
        /\ pc[p] = "unlock" /\ pc'[p] = "rlock"
    BY DEF WUnlock, Blocked
  <2>2. srv' = [srv EXCEPT ![o].writer = None, ![o].readers = @ \cup Blocked(o)]
    BY <1>1 DEF WUnlock
  <2>3. QED BY <1>1, <1>2, <2>1, <2>2 DEF ServerObject
<1>4. \A q \in Scrapers \ {p} : pc'[q] \in Building <=> pc[q] \in Building
  BY <1>2 DEF WUnlock, Blocked, Building
<1>5. \A h \in Handles : srv[h].writer = p <=> h = o
  BY <1>1, <1>3 DEF RInv, IInv, LockInv, WriterPC, Building
<1>6. Maps(o) = WithdrawnMaps
  <2>1. Rebuilding(o)
    BY <1>1, <1>3, <1>5, ConstantsAssumption DEF Rebuilding, Building
  <2>2. QED BY <2>1 DEF Maps
<1>7. Maps(o)' \in MapValue
  <2>1. srv[o].metricMap # None BY <1>1, <1>3 DEF RInv, BuiltInv, Building
  <2>2. srv[o].metricMap \in MapValue BY <1>1, <1>2, <2>1 DEF ServerObject
  <2>3. ~Rebuilding(o)' BY <1>3 DEF Rebuilding
  <2>4. QED BY <1>3, <2>1, <2>2, <2>3 DEF Maps
<1>8. ASSUME NEW h \in Handles \ {o} PROVE Maps(h)' = Maps(h)
  <2>1. srv[h].writer \in (Scrapers \ {p}) \cup {None} BY <1>2, <1>5 DEF ServerObject
  <2>2. Rebuilding(h)' = Rebuilding(h) BY <1>3, <1>4, <2>1 DEF Rebuilding
  <2>3. QED BY <1>3, <2>2 DEF Maps
<1>9. Store!Publish(o)
  <2>1. Blocked(o) \in SUBSET Scrapers BY DEF Blocked
  <2>2. [h \in Handles |-> Maps(h)]' =
          [[h \in Handles |-> Maps(h)] EXCEPT ![o] = Maps(o)']
    BY <1>1, <1>8
  <2>3. [h \in Handles |-> srv[h].readers]' =
          [[h \in Handles |-> srv[h].readers] EXCEPT ![o] = @ \cup Blocked(o)]
    BY <1>1, <1>3
  <2>4. QED BY <1>1, <1>6, <1>7, <2>1, <2>2, <2>3 DEF Store!Publish
<1>10. GarbageInv' /\ BuiltInv'
  <2>1. GarbageInv' BY <1>3 DEF GarbageInv, RInv, Unreferenced
  <2>2. ASSUME NEW q \in Scrapers, pc'[q] \in Building \ {"build"}
        PROVE  srv'[hnd'[q]].metricMap # None
    <3>1. q # p /\ pc[q] \in Building \ {"build"}
      BY <1>2, <1>3, <2>2 DEF WUnlock, Building, Blocked
    <3>2. hnd[q] \in Handles BY <3>1, HandleOf DEF RInv, Building, NoHandlePC
    <3>3. QED BY <1>3, <3>1, <3>2 DEF RInv, BuiltInv
  <2>3. QED BY <2>1, <2>2 DEF BuiltInv
<1>11. QED BY <1>1, <1>9, <1>10 DEF Store!Next

(***************************************************************************)
(* A scrape is done with its Server, which may be garbage then.            *)
(***************************************************************************)
\* Nobody but p can keep h from becoming garbage.
Forgotten(p, h) ==
  /\ \A d \in DSN : servers[d] # h
  /\ \A q \in Scrapers \ {p} : hnd[q] # h

Leave(p) == GetServerFailed(p) \/ RUnlock(p)

\* What a scrape that lets a Server go does to it: it may become garbage.
LEMMA LeaveFacts ==
  ASSUME RInv, NEW p \in Scrapers, Leave(p)
  PROVE  /\ pc[p] \notin WriterPC
         /\ pc' = [pc EXCEPT ![p] = pc'[p]] /\ pc'[p] \notin Building
         /\ hnd' = [hnd EXCEPT ![p] = None] /\ servers' = servers
         /\ \A h \in Handles : Forgotten(p, h) => srv'[h] = NewObject("unused")
         /\ \A h \in Handles : ~Forgotten(p, h) =>
              /\ srv'[h].metricMap = srv[h].metricMap
              /\ srv'[h].writer = srv[h].writer
              /\ srv'[h].readers = srv[h].readers \ {p}
<1>0. /\ pc \in [Scrapers -> PC] /\ srv \in [Handles -> ServerObject]
      /\ hnd \in [Scrapers -> Handles \cup {None}]
  BY DEF RInv, IInv, TypeOK
<1>1. CASE GetServerFailed(p)
  <2>1. \A h \in Handles : p \notin srv[h].readers
    BY <1>1 DEF GetServerFailed, RInv, IInv, LockInv, Reading
  <2>2. QED
    BY <1>0, <1>1, <2>1 DEF GetServerFailed, NextDSN, Forgotten, WriterPC, Building
<1>2. CASE RUnlock(p)
  <2>1. \A h \in Handles : p \in srv[h].readers => h = hnd[p]
    BY DEF RInv, IInv, LockInv
  <2>2. hnd[p] \in Handles BY <1>2, HandleOf DEF RUnlock, RInv, NoHandlePC
  <2>3. \A h \in Handles :
          LET o == [srv EXCEPT ![hnd[p]].readers = @ \ {p}] IN
          /\ o[h].metricMap = srv[h].metricMap
          /\ o[h].writer = srv[h].writer
          /\ o[h].readers = srv[h].readers \ {p}
    BY <1>0, <2>1, <2>2 DEF ServerObject
  <2>4. QED
    BY <1>0, <1>2, <2>3 DEF RUnlock, NextDSN, Forgotten, WriterPC, Building
<1>3. QED BY <1>1, <1>2 DEF Leave

\* A Server that stays keeps its maps; one that is forgotten has neither maps nor readers.
LEMMA LeaveMaps ==
  ASSUME RInv, NEW p \in Scrapers, Leave(p), NEW h \in Handles
  PROVE  /\ Forgotten(p, h) => Maps(h)' = NoMaps /\ srv'[h].readers = {}
                               /\ srv[h].readers \subseteq {p}
         /\ ~Forgotten(p, h) => Maps(h)' = Maps(h) /\ srv'[h].readers = srv[h].readers \ {p}
         /\ h # hnd[p] => Same(h)
         /\ p \in srv[h].readers => h = hnd[p]
<1>0. /\ pc \in [Scrapers -> PC] /\ srv[h] \in ServerObject
  BY DEF RInv, IInv, TypeOK
<1>1. \A q \in Scrapers : q \in srv[h].readers => hnd[q] = h
  BY DEF RInv, IInv, LockInv
<1>2. srv[h].writer # p BY LeaveFacts DEF RInv, IInv, LockInv
<1>3. srv[h].writer \in (Scrapers \ {p}) \cup {None} BY <1>0, <1>2 DEF ServerObject
<1>4. ASSUME Forgotten(p, h)
      PROVE  Maps(h)' = NoMaps /\ srv'[h].readers = {} /\ srv[h].readers \subseteq {p}
  <2>1. srv'[h] = NewObject("unused") BY <1>4, LeaveFacts
  <2>2. srv'[h].writer = None /\ srv'[h].metricMap = None /\ srv'[h].readers = {}
    BY <2>1 DEF NewObject
  <2>3. Maps(h)' = NoMaps BY <2>2 DEF Maps, Rebuilding
  <2>4. QED BY <1>0, <1>1, <1>4, <2>2, <2>3 DEF Forgotten, ServerObject
<1>5. ASSUME ~Forgotten(p, h)
      PROVE  Maps(h)' = Maps(h) /\ srv'[h].readers = srv[h].readers \ {p}
  <2>1. /\ srv'[h].metricMap = srv[h].metricMap
        /\ srv'[h].writer = srv[h].writer
        /\ srv'[h].readers = srv[h].readers \ {p}
    BY <1>5, LeaveFacts
  <2>2. \A q \in Scrapers \ {p} : pc'[q] = pc[q] BY <1>0, LeaveFacts
  <2>3. Rebuilding(h)' = Rebuilding(h) BY <1>3, <2>1, <2>2 DEF Rebuilding
  <2>4. QED BY <2>1, <2>3 DEF Maps
<1>6. ASSUME h # hnd[p] PROVE Same(h)
  <2>1. p \notin srv[h].readers BY <1>1, <1>6
  <2>2. CASE Forgotten(p, h)
    <3>1. Unreferenced(h) BY <1>6, <2>2 DEF Unreferenced, Forgotten
    <3>2. srv[h].metricMap = None BY <3>1 DEF RInv, GarbageInv
    <3>3. srv[h].writer = None
      BY <1>3, <3>1 DEF Unreferenced, RInv, IInv, LockInv
    <3>4. Maps(h) = NoMaps BY <3>2, <3>3 DEF Maps, Rebuilding
    <3>5. srv[h].readers = {} BY <1>4, <2>1, <2>2
    <3>6. QED BY <1>4, <2>2, <3>4, <3>5 DEF Same
  <2>3. CASE ~Forgotten(p, h) BY <1>5, <2>1, <2>3, <1>0 DEF Same, ServerObject
  <2>4. QED BY <2>2, <2>3
<1>7. QED BY <1>1, <1>4, <1>5, <1>6

\* The end of a use, a Server that is discarded, or nothing.
LEMMA LeaveStep ==
  ASSUME RInv, NEW p \in Scrapers, Leave(p)
  PROVE  [Store!Next]_(Store!vars) /\ GarbageInv' /\ BuiltInv'
<1>0. /\ pc \in [Scrapers -> PC] /\ srv \in [Handles -> ServerObject]
      /\ hnd \in [Scrapers -> Handles \cup {None}]
  BY DEF RInv, IInv, TypeOK
<1>1. [Store!Next]_(Store!vars)
  <2>1. CASE hnd[p] = None
    <3>1. \A h \in Handles : Same(h) BY <2>1, ConstantsAssumption, LeaveMaps
    <3>2. QED BY <3>1, SameIsStutter
  <2>2. CASE hnd[p] # None
    <3>1. PICK o \in Handles : o = hnd[p] BY <1>0, <2>2
    <3>2. \A h \in Handles \ {o} : Maps(h)' = Maps(h) /\ srv'[h].readers = srv[h].readers
      BY <3>1, LeaveMaps DEF Same
    <3>3. CASE Forgotten(p, o) /\ p \in srv[o].readers
      <4>1. Maps(o)' = NoMaps /\ srv'[o].readers = srv[o].readers \ {p} /\ srv'[o].readers = {}
        BY <3>1, <3>3, LeaveMaps
      <4>2. Store!EndUse(o, p) BY <3>1, <3>2, <3>3, <4>1 DEF Store!EndUse
      <4>3. QED BY <3>1, <4>2 DEF Store!Next
    <3>4. CASE Forgotten(p, o) /\ p \notin srv[o].readers
      <4>1. Maps(o)' = NoMaps /\ srv'[o].readers = {} /\ srv[o].readers = {}
        BY <3>1, <3>4, LeaveMaps
      <4>2. Store!Discard(o) BY <3>1, <3>2, <4>1 DEF Store!Discard
      <4>3. QED BY <3>1, <4>2 DEF Store!Next
    <3>5. CASE ~Forgotten(p, o)
      <4>1. Maps(o)' = Maps(o) /\ srv'[o].readers = srv[o].readers \ {p}
        BY <3>1, <3>5, LeaveMaps
      <4>2. CASE p \in srv[o].readers
        <5>1. Store!EndUse(o, p) BY <3>1, <3>2, <4>1, <4>2 DEF Store!EndUse
        <5>2. QED BY <3>1, <5>1 DEF Store!Next
      <4>3. CASE p \notin srv[o].readers
        <5>1. srv'[o].readers = srv[o].readers BY <4>1, <4>3, <3>1, <1>0 DEF ServerObject
        <5>2. \A h \in Handles : Same(h) BY <3>2, <4>1, <5>1 DEF Same
        <5>3. QED BY <5>2, SameIsStutter
      <4>4. QED BY <4>2, <4>3
    <3>6. QED BY <3>3, <3>4, <3>5
  <2>3. QED BY <2>1, <2>2
<1>2. ASSUME NEW h \in Handles, Unreferenced(h)' PROVE srv'[h].metricMap = None
  <2>1. Forgotten(p, h)
    BY <1>0, <1>2, LeaveFacts DEF Unreferenced, Forgotten
  <2>2. srv'[h] = NewObject("unused") BY <2>1, LeaveFacts
  <2>3. QED BY <2>2 DEF NewObject
<1>3. ASSUME NEW q \in Scrapers, pc'[q] \in Building \ {"build"}
      PROVE  srv'[hnd'[q]].metricMap # None
  <2>1. q # p /\ pc'[q] = pc[q] /\ hnd'[q] = hnd[q] BY <1>0, <1>3, LeaveFacts
  <2>2. hnd[q] \in Handles BY <1>3, <2>1, HandleOf DEF RInv, Building, NoHandlePC
  <2>3. ~Forgotten(p, hnd[q]) BY <2>1 DEF Forgotten
  <2>4. srv'[hnd[q]].metricMap = srv[hnd[q]].metricMap BY <2>2, <2>3, LeaveFacts
  <2>5. QED BY <1>3, <2>1, <2>4 DEF RInv, BuiltInv
<1>4. QED BY <1>1, <1>2, <1>3 DEF GarbageInv, BuiltInv

-----------------------------------------------------------------------------
\* A step of PgExporter is one of the store or none, and keeps the invariant.
LEMMA StoreStep ==
  ASSUME RInv, [Next]_vars
  PROVE  [Store!Next]_(Store!vars) /\ RInv'
<1>0. IInv' BY NextInv DEF RInv
<1>1. ASSUME NEW p \in Scrapers, StartScrape(p) \/ Step(p)
      PROVE  [Store!Next]_(Store!vars) /\ GarbageInv' /\ BuiltInv'
  <2>1. CASE QuietAction(p)
    <3>1. Quiet(p) BY <2>1, QuietSteps
    <3>2. \A h \in Handles : Same(h) BY <3>1, QuietIsSame
    <3>3. QED BY <3>1, <3>2, SameIsStutter, QuietInv
  <2>2. CASE BuildAction(p)
    <3>1. Build(p) BY <2>2, BuildSteps
    <3>2. \A h \in Handles : Same(h) BY <3>1, BuildIsSame
    <3>3. QED BY <3>1, <3>2, SameIsStutter, BuildInv
  <2>3. CASE RLock(p) BY <2>3, RLockStep
  <2>4. CASE WAcquire(p) BY <2>4, WAcquireStep
  <2>5. CASE WUnlock(p) BY <2>5, WUnlockStep
  <2>6. CASE Leave(p) BY <2>6, LeaveStep
  <2>7. QED
    BY <1>1, <2>1, <2>2, <2>3, <2>4, <2>5, <2>6
    DEF Step, CheckMapVersions, Scrape, QuietAction, BuildAction, Leave
<1>2. CASE UNCHANGED <<pc, hnd, servers, srv>>
  <2>1. \A h \in Handles : Same(h) BY <1>2 DEF Same, Maps, Rebuilding
  <2>2. GarbageInv' /\ BuiltInv'
    BY <1>2 DEF RInv, GarbageInv, Unreferenced, BuiltInv
  <2>3. QED BY <1>0, <2>1, <2>2, SameIsStutter DEF RInv
<1>3. CASE Environment
  <2>1. UNCHANGED <<pc, hnd, servers, srv>>
    BY <1>3 DEF Environment, StopPostgres, StartPostgres, EditFile, scrapeVars
  <2>2. QED BY <1>2, <2>1
<1>4. CASE UNCHANGED vars BY <1>2, <1>4 DEF vars, scrapeVars
<1>5. QED BY <1>0, <1>1, <1>3, <1>4 DEF Next, RInv

\* Initial states of the exporter are initial states of the store.
LEMMA StoreInit == Init => Store!Init /\ RInv
<1> SUFFICES ASSUME Init PROVE Store!Init /\ RInv
  OBVIOUS
<1>1. \A h \in Handles : Maps(h) = NoMaps /\ srv[h].readers = {}
  BY DEF Init, NewObject, Maps, Rebuilding
<1>2. GarbageInv /\ BuiltInv
  BY DEF Init, NewObject, GarbageInv, BuiltInv, Building
<1>3. QED BY <1>1, <1>2, InitInv DEF RInv, Store!Init

\* The query maps, as checkMapVersions and Server.Scrape treat them, are a store of whole
\* maps: withdrawn while nobody uses them, published when they are finished.
THEOREM StoreIsImplemented == Spec => ImplementsStore
<1>1. RInv /\ [Next]_vars => [Store!Next]_(Store!vars) /\ RInv'
  BY StoreStep
<1>2. QED BY <1>1, StoreInit, PTL DEF Spec, ImplementsStore, Store!Spec

-----------------------------------------------------------------------------
(***************************************************************************)
(* What the store promises follows from its rules alone, and from maps     *)
(* under construction being no maps; so the exporter promises it too.      *)
(***************************************************************************)
StoreInv == Store!TypeOK /\ Store!NoUseOfWithdrawn

\* Whoever comes in finds maps, and they are withdrawn when there is nobody.
LEMMA StoreInvStep == StoreInv /\ [Store!Next]_(Store!vars) => StoreInv'
<1> SUFFICES ASSUME StoreInv, [Store!Next]_(Store!vars) PROVE StoreInv'
  OBVIOUS
<1> DEFINE store == [h \in Handles |-> Maps(h)]
           using == [h \in Handles |-> srv[h].readers]
           Kept(st, us) == /\ st \in [Handles -> MapValue \cup {NoMaps, WithdrawnMaps}]
                           /\ us \in [Handles -> SUBSET Scrapers]
                           /\ \A o \in Handles : us[o] # {} => st[o] # WithdrawnMaps
<1>0. WithdrawnMaps \notin MapValue \cup {NoMaps}
  BY ConstantsAssumption DEF WithdrawnMaps, NoMaps, MapValue
<1>1. Kept(store, using)
  BY DEF StoreInv, Store!TypeOK, Store!NoUseOfWithdrawn
<1>2. SUFFICES Kept(store', using')
  BY DEF StoreInv, Store!TypeOK, Store!NoUseOfWithdrawn
<1>3. CASE \E o \in Handles, u \in Scrapers : Store!BeginUse(o, u)
  <2>1. PICK o \in Handles, u \in Scrapers :
          /\ store[o] # WithdrawnMaps
          /\ using' = [using EXCEPT ![o] = @ \cup {u}]
          /\ store' = store
    BY <1>3 DEF Store!BeginUse
  <2> HIDE DEF store, using
  <2> QED BY <1>1, <2>1
<1>4. CASE \E o \in Handles, u \in Scrapers : Store!EndUse(o, u)
  <2>1. PICK o \in Handles, u \in Scrapers :
          /\ using' = [using EXCEPT ![o] = @ \ {u}]
          /\ \/ store' = store
             \/ using'[o] = {} /\ store' = [store EXCEPT ![o] = NoMaps]
    BY <1>4 DEF Store!EndUse
  <2> HIDE DEF store, using
  <2> QED BY <1>1, <2>1
<1>5. CASE \E o \in Handles : Store!Withdraw(o)
  <2>1. PICK o \in Handles : /\ using[o] = {} /\ using' = using
                             /\ store' = [store EXCEPT ![o] = WithdrawnMaps]
    BY <1>5 DEF Store!Withdraw
  <2> HIDE DEF store, using
  <2> QED BY <1>1, <2>1
<1>6. CASE \E o \in Handles : Store!Publish(o)
  <2>1. PICK o \in Handles : Store!Publish(o)
    BY <1>6
  <2>2. PICK v \in MapValue : store' = [store EXCEPT ![o] = v]
    BY <2>1 DEF Store!Publish
  <2>3. PICK waiting \in SUBSET Scrapers : using' = [using EXCEPT ![o] = @ \cup waiting]
    BY <2>1 DEF Store!Publish
  <2> HIDE DEF store, using
  <2> QED BY <1>0, <1>1, <2>2, <2>3
<1>7. CASE \E o \in Handles : Store!Discard(o)
  <2>1. PICK o \in Handles : /\ using[o] = {} /\ using' = using
                             /\ store' = [store EXCEPT ![o] = NoMaps]
    BY <1>7 DEF Store!Discard
  <2> HIDE DEF store, using
  <2> QED BY <1>0, <1>1, <2>1
<1>8. CASE UNCHANGED Store!vars
  BY <1>1, <1>8 DEF Store!vars
<1> QED BY <1>3, <1>4, <1>5, <1>6, <1>7, <1>8 DEF Store!Next

LEMMA StoreInvInit == Store!Init => StoreInv
BY ConstantsAssumption DEF Store!Init, StoreInv, Store!TypeOK, Store!NoUseOfWithdrawn,
   WithdrawnMaps, NoMaps

\* Nobody uses maps while they are being rebuilt (mappingMtx in checkMapVersions).
THEOREM WithdrawnIsUnused == Spec => []Store!NoUseOfWithdrawn
<1>1. Store!Spec => []StoreInv
  BY StoreInvInit, StoreInvStep, PTL DEF Store!Spec
<1>2. StoreInv => Store!NoUseOfWithdrawn
  BY DEF StoreInv
<1> QED BY <1>1, <1>2, StoreIsImplemented, PTL DEF ImplementsStore

\* As long as some scrape uses the maps of a Server they are the same (Server.Scrape).
THEOREM UsedIsStable == Spec => Store!StableWhileUsed
<1> DEFINE store == [h \in Handles |-> Maps(h)]
           using == [h \in Handles |-> srv[h].readers]
           Stable == \A o \in Handles :
             using[o] # {} /\ using'[o] # {} => store'[o] = store[o]
<1>1. StoreInv /\ [Store!Next]_(Store!vars) => [Stable]_(Store!vars)
  <2> SUFFICES ASSUME StoreInv, Store!Next, NEW h \in Handles, using[h] # {}, using'[h] # {}
               PROVE  store'[h] = store[h]
    OBVIOUS
  <2>0. store[h] # WithdrawnMaps /\ DOMAIN store = Handles /\ DOMAIN using = Handles
    BY DEF StoreInv, Store!NoUseOfWithdrawn
  <2>1. CASE \E o \in Handles, u \in Scrapers : Store!BeginUse(o, u)
    BY <2>1 DEF Store!BeginUse
  <2>2. CASE \E o \in Handles, u \in Scrapers : Store!EndUse(o, u)
    <3>1. PICK o \in Handles, u \in Scrapers :
            \/ store' = store
            \/ using'[o] = {} /\ store' = [store EXCEPT ![o] = NoMaps]
      BY <2>2 DEF Store!EndUse
    <3> HIDE DEF store, using
    <3> QED BY <2>0, <3>1
  <2>3. CASE \E o \in Handles : Store!Withdraw(o) \/ Store!Discard(o)
    <3>1. PICK o \in Handles, m \in {NoMaps, WithdrawnMaps} :
            using[o] = {} /\ store' = [store EXCEPT ![o] = m]
      BY <2>3 DEF Store!Withdraw, Store!Discard
    <3> HIDE DEF store, using
    <3> QED BY <2>0, <3>1
  <2>4. CASE \E o \in Handles : Store!Publish(o)
    <3>1. PICK o \in Handles, v \in MapValue :
            store[o] = WithdrawnMaps /\ store' = [store EXCEPT ![o] = v]
      BY <2>4 DEF Store!Publish
    <3> HIDE DEF store, using
    <3> QED BY <2>0, <3>1
  <2> QED BY <2>1, <2>2, <2>3, <2>4 DEF Store!Next
<1> HIDE DEF Stable
<1>2. Store!Spec => [][Stable]_(Store!vars)
  BY <1>1, StoreInvInit, StoreInvStep, PTL DEF Store!Spec
<1>3. Spec => [][Stable]_(Store!vars)
  BY <1>2, StoreIsImplemented DEF ImplementsStore
<1> QED BY <1>3 DEF Stable, Store!StableWhileUsed
=============================================================================
