-------------------------- MODULE MongoServerStatus --------------------------
(***************************************************************************)
(* What the MongoDB exporter makes of the reply to serverStatus            *)
(* (server_status.go and one file per section of the reply).  Export goes  *)
(* through the sections the reply has; of each it sets the metrics and     *)
(* then sends them.                                                        *)
(*                                                                         *)
(* The metrics are variables of the package, which the Collects share and  *)
(* nothing ever resets.  A section made of parts, of which a server leaves *)
(* out what it does not have, sets the metrics of the parts in the reply   *)
(* and sends those of all of them.                                         *)
(*                                                                         *)
(* A reply is the set of its sub-documents.  A number is modelled by whose *)
(* reply it is from: that of a Collect in progress, an Old one, or none.   *)
(* Setting a section is one step and sending it another: Collects may come *)
(* between them, and what they mix inside a section is left out.  Left out *)
(* as well: two summaries of "dur", to which each export adds an           *)
(* observation, and the counters of the inserts into the oplog, which      *)
(* "metrics" sends and nothing sets.                                       *)
(***************************************************************************)
EXTENDS Naturals, Sequences, FiniteSets

CONSTANTS
  Collects,      \* the Collects in progress
  Replies,       \* the replies the server may give
  Old,           \* the reply of a Collect that is over
  None

\* In the order of Export; the first is what stands at the top of the reply itself.
Sections ==
  <<"server", "asserts", "dur", "backgroundFlushing", "connections", "extra_info",
    "globalLock", "indexCounters", "network", "opcounters", "opcountersRepl", "tcmalloc",
    "mem", "locks", "metrics", "cursors", "wiredTiger">>

\* The parts a section is made of; of "locks" one stands for that of a database.
LocksParts == {"locks.database"}

MetricsParts ==
  {"metrics.document", "metrics.getLastError", "metrics.operation",
   "metrics.queryExecutor", "metrics.record", "metrics.repl",
   "metrics.storage", "metrics.ttl", "metrics.cursor"}

WiredTigerParts ==
  {"wiredTiger.block-manager", "wiredTiger.cache", "wiredTiger.transaction",
   "wiredTiger.log", "wiredTiger.session", "wiredTiger.concurrentTransactions"}

Parts ==
  [locks |-> LocksParts, metrics |-> MetricsParts, wiredTiger |-> WiredTigerParts]

PartsOf(section) == IF section \in DOMAIN Parts THEN Parts[section] ELSE {section}

\* Metrics are told apart by the document they are set from.
Group == UNION {PartsOf(Sections[i]) : i \in 1..Len(Sections)}

\* Those of them with a plain gauge, which is sent as 0 while it has not been set; a vector
\* that has not been set sends nothing.
MetricsPlain ==
  {"metrics.cursor", "metrics.getLastError", "metrics.record", "metrics.repl",
   "metrics.ttl"}

WiredTigerPlain ==
  {"wiredTiger.cache", "wiredTiger.log", "wiredTiger.session", "wiredTiger.transaction"}

Plain == MetricsPlain \cup WiredTigerPlain

\* What is read of a document, in a section, without a look at whether the reply has it.
GlobalLockNeeds ==
  {<<"globalLock", "globalLock", "globalLock.currentQueue">>,
   <<"globalLock", "globalLock", "globalLock.activeClients">>}

MetricsNeeds ==
  {<<"metrics", "metrics.getLastError", "metrics.getLastError.wtime">>,
   <<"metrics", "metrics.repl", "metrics.repl.apply">>,
   <<"metrics", "metrics.repl", "metrics.repl.apply.batches">>,
   <<"metrics", "metrics.repl", "metrics.repl.buffer">>,
   <<"metrics", "metrics.repl", "metrics.repl.network">>,
   <<"metrics", "metrics.repl", "metrics.repl.network.getmores">>,
   <<"metrics", "metrics.repl", "metrics.repl.preload">>,
   <<"metrics", "metrics.repl", "metrics.repl.preload.docs">>,
   <<"metrics", "metrics.repl", "metrics.repl.preload.indexes">>,
   <<"metrics", "metrics.cursor", "metrics.cursor.open">>}

WiredTigerNeeds ==
  {<<"wiredTiger", "wiredTiger.concurrentTransactions",
     "wiredTiger.concurrentTransactions.read">>,
   <<"wiredTiger", "wiredTiger.concurrentTransactions",
     "wiredTiger.concurrentTransactions.write">>}

Dereferenced == GlobalLockNeeds \cup MetricsNeeds \cup WiredTigerNeeds

Document ==
  Group \cup DOMAIN Parts \cup {d[3] : d \in Dereferenced}

Engine == {"mmapv1", "wiredTiger"}

\* A reply has a part only with its section, and no engine if the server does not tell it.
ServerStatusAssumption ==
  /\ Replies \subseteq [documents : SUBSET Document, engine : Engine \cup {None}]
  /\ \A reply \in Replies :
       /\ "server" \in reply.documents
       /\ \A s \in DOMAIN Parts :
            Parts[s] \cap reply.documents # {} => s \in reply.documents
       /\ \A d \in Dereferenced :
            d[3] \in reply.documents => d[2] \in reply.documents
  /\ None \notin Engine /\ None \notin Collects /\ None \notin Replies
  /\ Old \notin Collects \cup {None}

VARIABLES
  at,            \* the section a Collect is in; 0 before it asks
  filled,        \* it has set its metrics
  reply,         \* what the server told it
  gauge,         \* of each group of metrics: whose reply it was set from
  engines,       \* the labels of storage_engine
  told,          \* the groups a Collect has sent, and whether from its own reply
  toldEngines,   \* and the labels of storage_engine
  solo           \* no other Collect has exported since this one began

statusVars == <<at, filled, reply, gauge, engines, told, toldEngines, solo>>

Last == Len(Sections) + 1     \* storageEngine
Over == Last + 1

TypeOK ==
  /\ at \in [Collects -> 0..Over]
  /\ filled \in [Collects -> BOOLEAN]
  /\ reply \in [Collects -> Replies \cup {None}]
  /\ gauge \in [Group -> Collects \cup {Old, None}]
  /\ engines \subseteq Engine
  /\ told \in [Collects -> SUBSET (Group \X BOOLEAN)]
  /\ toldEngines \in [Collects -> SUBSET Engine]
  /\ solo \in [Collects -> BOOLEAN]

Init ==
  /\ at = [c \in Collects |-> 0]
  /\ filled = [c \in Collects |-> FALSE]
  /\ reply = [c \in Collects |-> None]
  /\ gauge = [g \in Group |-> None]
  /\ engines = {}
  /\ told = [c \in Collects |-> {}]
  /\ toldEngines = [c \in Collects |-> {}]
  /\ solo = [c \in Collects |-> TRUE]

-----------------------------------------------------------------------------
\* Mutant: the section is exported whether the reply has it or not.
AnySection(r, section) == TRUE

Present(r, section) == section \in r.documents

\* Mutant: Export does not get beyond the section it is in.
StaysAt(r, i, j) ==
  /\ i <= j
  /\ j # Last => Present(r, Sections[j])
  /\ \A k \in i..(j - 1) : ~Present(r, Sections[k])

\* j is the next section of the reply after i, or storageEngine.
Follows(r, i, j) ==
  /\ i < j
  /\ j # Last => Present(r, Sections[j])
  /\ \A k \in (i + 1)..(j - 1) : ~Present(r, Sections[k])

\* Mutant: a part that is not there is dereferenced as well.
BreaksWithoutPart(r, section) ==
  \/ \E d \in Dereferenced : d[1] = section /\ d[3] \notin r.documents
  \/ \E part \in PartsOf(section) : part \notin r.documents

\* A nil pointer is dereferenced.
Breaks(r, section) ==
  \E d \in Dereferenced :
    d[1] = section /\ d[2] \in r.documents /\ d[3] \notin r.documents

\* Mutant: one part is forgotten.
SetsButTtl(r, section) == (PartsOf(section) \cap r.documents) \ {"metrics.ttl"}

\* The groups a section sets.
Sets(r, section) == PartsOf(section) \cap r.documents

InSection(c) == at[c] \in 1..Len(Sections)

OverlapsOthers(c) ==
  solo' = [d \in Collects |->
             /\ solo[d]
             /\ d # c => at[d] \in {0, Over}
             /\ d = c => \A other \in Collects \ {c} : at[other] \in {0, Over}]

\* GetServerStatus: the reply, or an error and nothing to export.
Ask(c) ==
  /\ at[c] = 0
  /\ \/ \E r \in Replies :
          /\ reply' = [reply EXCEPT ![c] = r]
          /\ at' = [at EXCEPT ![c] = 1]
          /\ OverlapsOthers(c)
     \/ at' = [at EXCEPT ![c] = Over] /\ UNCHANGED <<reply, solo>>
  /\ UNCHANGED <<filled, gauge, engines, told, toldEngines>>

\* The Set calls of Export.
Fill(c) ==
  /\ InSection(c) /\ ~filled[c]
  /\ ~Breaks(reply[c], Sections[at[c]])
  /\ LET set == Sets(reply[c], Sections[at[c]])
     IN gauge' = [g \in Group |-> IF g \in set THEN c ELSE gauge[g]]
  /\ filled' = [filled EXCEPT ![c] = TRUE]
  /\ UNCHANGED <<at, reply, engines, told, toldEngines, solo>>

\* Its Collect calls, of every part.
Send(c) ==
  /\ InSection(c) /\ filled[c]
  /\ LET section == Sections[at[c]]
         sent == {g \in PartsOf(section) : gauge[g] # None \/ g \in Plain}
     IN told' = [told EXCEPT ![c] = @ \cup {<<g, gauge[g] = c>> : g \in sent}]
  /\ \E j \in 1..Last : Follows(reply[c], at[c], j) /\ at' = [at EXCEPT ![c] = j]
  /\ filled' = [filled EXCEPT ![c] = FALSE]
  /\ UNCHANGED <<reply, gauge, engines, toldEngines, solo>>

\* A server that does not tell its engine but flushes in the background has the old one.
EngineOf(r) ==
  IF r.engine = None /\ "backgroundFlushing" \in r.documents THEN "mmapv1" ELSE r.engine

\* The label of an earlier engine stays.
SendEngine(c) ==
  /\ at[c] = Last
  /\ LET engine == EngineOf(reply[c])
     IN IF engine = None THEN UNCHANGED <<engines, toldEngines>>
        ELSE /\ engines' = engines \cup {engine}
             /\ toldEngines' = [toldEngines EXCEPT ![c] = engines']
  /\ at' = [at EXCEPT ![c] = Over]
  /\ UNCHANGED <<filled, reply, gauge, told, solo>>

\* The next Collect begins; what this one has set is Old.
Forget(c) ==
  /\ at' = [at EXCEPT ![c] = 0]
  /\ filled' = [filled EXCEPT ![c] = FALSE]
  /\ reply' = [reply EXCEPT ![c] = None]
  /\ gauge' = [g \in Group |-> IF gauge[g] = c THEN Old ELSE gauge[g]]
  /\ told' = [told EXCEPT ![c] = {}]
  /\ toldEngines' = [toldEngines EXCEPT ![c] = {}]
  /\ solo' = [solo EXCEPT ![c] = TRUE]
  /\ UNCHANGED engines

Panics(c) == InSection(c) /\ ~filled[c] /\ Breaks(reply[c], Sections[at[c]])

Export(c) == Ask(c) \/ Fill(c) \/ Send(c) \/ SendEngine(c)

Next == \E c \in Collects : Export(c) \/ Forget(c)

Spec == Init /\ [][Next]_statusVars

-----------------------------------------------------------------------------
Exported(c) == at[c] = Over /\ reply[c] # None

\* A Collect that is alone sends every number of its reply, and the engine of the server it
\* has asked, although the metrics are those of the process (ServerStatus.Export).
SoloFresh ==
  \A c \in Collects :
    Exported(c) /\ solo[c] =>
      /\ \A g \in Group \cap reply[c].documents : <<g, TRUE>> \in told[c]
      /\ reply[c].engine # None => reply[c].engine \in toldEngines[c]

\* What else it sends, of an earlier reply or zeros that nobody has measured, is of a part
\* the reply lacks in a section it has: a section the server does not have is not sent
\* (the nil checks of ServerStatus.Export; MetricsStats.Export and WiredTigerStats.Export
\* collect every part).
StaleStaysInSection ==
  \A c \in Collects :
    solo[c] =>
      \A g \in Group :
        <<g, FALSE>> \in told[c] =>
          /\ g \notin reply[c].documents
          /\ \E s \in DOMAIN Parts : g \in Parts[s] /\ s \in reply[c].documents
=============================================================================
