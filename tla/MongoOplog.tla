----------------------------- MODULE MongoOplog -----------------------------
(***************************************************************************)
(* The oplog of MongoDB as its exporter sees it: the parts "oplog" and     *)
(* "tail" of a Collect (MongoCollector) with their values, and the         *)
(* goroutine that tails the oplog for the life of the process.             *)
(*                                                                         *)
(* The oplog is a capped collection.  An entry is known by its place in    *)
(* the order of writing; its timestamp has a second and a counter in the   *)
(* second, and the gauges show the second only.                            *)
(*                                                                         *)
(* oplogStatus: the gauges are package variables, so overlapping Collects  *)
(* write and send the same ones, and each Set and each reading of a gauge  *)
(* that was sent is a step of its own.                                     *)
(*                                                                         *)
(* oplogTail: gtm.Start(session, nil) uses the DefaultOptions as they are, *)
(* without SetDefaults: the order is that of the oplog, but there are ten  *)
(* workers, not one.  TailOps gives each entry to every worker, and since  *)
(* no filter tells them apart each one sends it to the counter.            *)
(*                                                                         *)
(* Left out: count and size of the oplog, which are set and sent the same  *)
(* way, and the labels ns and op of the counter.                           *)
(***************************************************************************)
EXTENDS Naturals, Sequences, FiniteSets

CONSTANTS
  Collects,      \* the requests in flight
  Workers,       \* the workers of a tailer (ten)
  MaxOp,         \* no more entries are written: a bound of the model
  OplogSize,     \* how many entries the oplog holds
  PerSecond,     \* entries that share a second
  Included,      \* those ParseLogEntry includes: inserts, updates, deletes and drops
  MaxErrors,     \* the tailers lose their cursors no more often: a bound of the model
  OptionSets     \* the values the options of the collector may have

Entry == 1..MaxOp

ASSUME OplogAssumption ==
  /\ MaxOp \in Nat
  /\ OplogSize \in Nat \ {0}
  /\ PerSecond \in Nat \ {0}
  /\ Included \subseteq Entry
  /\ MaxErrors \in Nat
  /\ OptionSets \subseteq SUBSET {"oplog", "tail"}

VARIABLES
  \* MongoDB.
  oldest, newest,         \* the oplog: the entries oldest..newest
  \* The Collects.
  opts,                   \* CollectOplog and TailOplog, for the life of the process
  pc,
  head, tail,             \* what GetOplogTimestamp returned; 0 after an error
  headSent, tailSent,     \* the values of the gauges as they were sent
  \* The package.
  headGauge, tailGauge,
  tailing,                \* tailer # nil
  entryCount,             \* oplogEntryCount, by the entries it has counted
  tailErrors,             \* oplogTailError
  \* The tailers, by the Collect that started it.
  stage,
  position,               \* currTimestamp
  passed,                 \* the entries TailOps has given to the workers
  counted,                \* how many of them each worker has sent to the counter
  \* What the promises are about and the program does not remember.
  from,                   \* the position a tailer began at
  solo,                   \* no other Collect has run since this one began
  began                   \* the oplog when it began

mongoVars == <<oldest, newest, opts>>
statusVars == <<head, tail, headSent, tailSent, headGauge, tailGauge>>
tailerVars == <<entryCount, tailErrors, stage, position, passed, counted, from>>
memory == <<solo, began>>
vars == <<mongoVars, pc, statusVars, tailing, tailerVars, memory>>

\* Mutant: the timestamp is not shifted.
Unshifted(e) == e

\* BsonMongoTimestampToUnix: the second of an entry.
Second(e) == (e + PerSecond - 1) \div PerSecond

\* What the gauges show; 0 is before the first entry.
Seconds == 0..(MaxOp \div PerSecond + 1)

PC == {"idle", "stats", "head", "tail", "sethead", "settail", "sendhead", "sendtail",
       "tailcheck", "tailstart", "end"}

TypeOK ==
  /\ oldest \in 1..(MaxOp + 1)
  /\ newest \in 0..MaxOp
  /\ oldest <= newest + 1
  /\ opts \in OptionSets
  /\ pc \in [Collects -> PC]
  /\ head \in [Collects -> Seconds]
  /\ tail \in [Collects -> Seconds]
  /\ headSent \in [Collects -> Seconds]
  /\ tailSent \in [Collects -> Seconds]
  /\ headGauge \in Seconds
  /\ tailGauge \in Seconds
  /\ tailing \in BOOLEAN
  /\ entryCount \in [Entry -> Nat]
  /\ tailErrors \in 0..MaxErrors
  /\ stage \in [Collects -> {"off", "position", "tail", "broken"}]
  /\ position \in [Collects -> 0..MaxOp]
  /\ passed \in [Collects -> Seq(Entry)]
  /\ counted \in [Collects -> [Workers -> Nat]]
  /\ \A t \in Collects, w \in Workers : counted[t][w] <= Len(passed[t])
  /\ from \in [Collects -> 0..MaxOp]
  /\ solo \in [Collects -> BOOLEAN]
  /\ began \in [Collects -> [oldest : 1..(MaxOp + 1), newest : 0..MaxOp]]

Init ==
  /\ oldest = 1 /\ newest = 0
  /\ opts \in OptionSets
  /\ pc = [c \in Collects |-> "idle"]
  /\ head = [c \in Collects |-> 0]
  /\ tail = [c \in Collects |-> 0]
  /\ headSent = [c \in Collects |-> 0]
  /\ tailSent = [c \in Collects |-> 0]
  /\ headGauge = 0 /\ tailGauge = 0
  /\ tailing = FALSE
  /\ entryCount = [e \in Entry |-> 0]
  /\ tailErrors = 0
  /\ stage = [c \in Collects |-> "off"]
  /\ position = [c \in Collects |-> 0]
  /\ passed = [c \in Collects |-> <<>>]
  /\ counted = [c \in Collects |-> [w \in Workers |-> 0]]
  /\ from = [c \in Collects |-> 0]
  /\ solo = [c \in Collects |-> FALSE]
  /\ began = [c \in Collects |-> [oldest |-> 1, newest |-> 0]]

-----------------------------------------------------------------------------
\* A write to MongoDB; the oldest entry makes room for it.
Write ==
  /\ newest < MaxOp
  /\ newest' = newest + 1
  /\ oldest' = IF newest + 1 - oldest = OplogSize THEN oldest + 1 ELSE oldest
  /\ UNCHANGED <<opts, pc, statusVars, tailing, tailerVars, memory>>

(***************************************************************************)
(* GetOplogStatus and OplogStatus.Export.                                  *)
(***************************************************************************)
Goto(c, label) == pc' = [pc EXCEPT ![c] = label]

\* The memory of a Collect's step: who is alone, and since when.
Remember ==
  /\ solo' = [c \in Collects |->
                /\ pc'[c] # "idle"
                /\ solo[c] \/ pc[c] = "idle"
                /\ \A d \in Collects \ {c} : pc'[d] = "idle"]
  /\ began' = [c \in Collects |->
                 IF pc[c] = "idle" /\ pc'[c] # "idle"
                 THEN [oldest |-> oldest, newest |-> newest]
                 ELSE IF solo'[c] THEN began[c] ELSE [oldest |-> 1, newest |-> 0]]

Start(c) ==
  /\ pc[c] = "idle"
  /\ Goto(c, IF "oplog" \in opts THEN "stats" ELSE "tailcheck")
  /\ UNCHANGED <<statusVars, tailing, tailerVars>>

\* collStats; an error ends the part.
CollectionStats(c) ==
  /\ pc[c] = "stats"
  /\ \E ok \in BOOLEAN : Goto(c, IF ok THEN "head" ELSE "tailcheck")
  /\ UNCHANGED <<statusVars, tailing, tailerVars>>

\* Mutant: the order the help texts suggest.
SwappedTimestamp(returnTail) == IF returnTail THEN Second(oldest) ELSE Second(newest)

\* Find(nil).Sort(sortBy).Limit(1): by "$natural" the oldest entry, by "-$natural" the newest.
OplogTimestamp(returnTail) == IF returnTail THEN Second(newest) ELSE Second(oldest)

\* What GetOplogTimestamp may return: its second try can fail like the first.
Read(returnTail) ==
  {0} \cup (IF oldest <= newest THEN {OplogTimestamp(returnTail)} ELSE {})

\* The error of the head is overwritten by that of the tail.
ReadHead(c) ==
  /\ pc[c] = "head"
  /\ \E ts \in Read(FALSE) : head' = [head EXCEPT ![c] = ts]
  /\ Goto(c, "tail")
  /\ UNCHANGED <<tail, headSent, tailSent, headGauge, tailGauge, tailing, tailerVars>>

BothRead(c) == head[c] # 0 /\ tail[c] # 0

ReadTail(c) ==
  /\ pc[c] = "tail"
  /\ \E ts \in Read(TRUE) :
       /\ tail' = [tail EXCEPT ![c] = ts]
       /\ Goto(c, IF ts = 0 THEN "tailcheck"
                  ELSE IF head[c] = 0 THEN "sendhead" ELSE "sethead")
  /\ UNCHANGED <<head, headSent, tailSent, headGauge, tailGauge, tailing, tailerVars>>

SetHead(c) ==
  /\ pc[c] = "sethead"
  /\ headGauge' = head[c]
  /\ Goto(c, "settail")
  /\ UNCHANGED <<head, tail, headSent, tailSent, tailGauge, tailing, tailerVars>>

SetTail(c) ==
  /\ pc[c] = "settail"
  /\ tailGauge' = tail[c]
  /\ Goto(c, "sendhead")
  /\ UNCHANGED <<head, tail, headSent, tailSent, headGauge, tailing, tailerVars>>

\* The gauge itself is sent, and read by the registry later.
SendHead(c) ==
  /\ pc[c] = "sendhead"
  /\ headSent' = [headSent EXCEPT ![c] = headGauge]
  /\ Goto(c, "sendtail")
  /\ UNCHANGED <<head, tail, tailSent, headGauge, tailGauge, tailing, tailerVars>>

SendTail(c) ==
  /\ pc[c] = "sendtail"
  /\ tailSent' = [tailSent EXCEPT ![c] = tailGauge]
  /\ Goto(c, "tailcheck")
  /\ UNCHANGED <<head, tail, headSent, headGauge, tailGauge, tailing, tailerVars>>

(***************************************************************************)
(* GetOplogTailStats: tailer is compared and set without a lock.  The      *)
(* values of the part before it are gone.                                  *)
(***************************************************************************)
CheckTailer(c) ==
  /\ pc[c] = "tailcheck"
  /\ Goto(c, IF "tail" \in opts /\ ~tailing THEN "tailstart" ELSE "end")
  /\ head' = [head EXCEPT ![c] = 0]
  /\ tail' = [tail EXCEPT ![c] = 0]
  /\ headSent' = [headSent EXCEPT ![c] = 0]
  /\ tailSent' = [tailSent EXCEPT ![c] = 0]
  /\ UNCHANGED <<headGauge, tailGauge, tailing, tailerVars>>

StartTailer(c) ==
  /\ pc[c] = "tailstart"
  /\ tailing' = TRUE
  /\ stage' = [stage EXCEPT ![c] = "position"]
  /\ Goto(c, "end")
  /\ UNCHANGED <<statusVars, entryCount, tailErrors, position, passed, counted, from>>

Return(c) ==
  /\ pc[c] = "end"
  /\ Goto(c, "idle")
  /\ UNCHANGED <<statusVars, tailing, tailerVars>>

(***************************************************************************)
(* Start of a tailer, and TailOps.                                         *)
(***************************************************************************)
\* LastOpTimestamp does not ask for the error of its query: 0 is before every entry.
Position(t) ==
  /\ stage[t] = "position"
  /\ \E e \in {0, newest} :
       /\ position' = [position EXCEPT ![t] = e]
       /\ from' = [from EXCEPT ![t] = e]
  /\ stage' = [stage EXCEPT ![t] = "tail"]
  /\ UNCHANGED <<mongoVars, pc, statusVars, tailing, entryCount, tailErrors, passed,
                 counted, memory>>

\* Mutant: the query includes the entry it begins after.
SincePosition(t) == {e \in oldest..newest : e >= position[t]}

\* GetOpLogQuery: what the cursor has still to deliver.
OpLogQuery(t) == {e \in oldest..newest : e > position[t]}

Broadcast(t, e) == IF e \in Included THEN Append(passed[t], e) ELSE passed[t]

TailOps(t) ==
  /\ stage[t] = "tail"
  /\ \E e \in OpLogQuery(t) :
       /\ \A f \in OpLogQuery(t) : e <= f
       /\ passed' = [passed EXCEPT ![t] = Broadcast(t, e)]
       /\ position' = [position EXCEPT ![t] = e]
  /\ UNCHANGED <<mongoVars, pc, statusVars, tailing, entryCount, tailErrors, stage,
                 counted, from, memory>>

\* The cursor dies with an error, which is counted.
Break(t) ==
  /\ stage[t] = "tail"
  /\ tailErrors < MaxErrors
  /\ tailErrors' = tailErrors + 1
  /\ stage' = [stage EXCEPT ![t] = "broken"]
  /\ UNCHANGED <<mongoVars, pc, statusVars, tailing, entryCount, position, passed,
                 counted, from, memory>>

\* Mutant: a new cursor begins at the end.
RepairedAtEnd(t) == newest
RepairedAt(t) == position[t]

\* waitForConnection and repairSession; the query is made anew from the same position.
Repair(t) ==
  /\ stage[t] = "broken"
  /\ stage' = [stage EXCEPT ![t] = "tail"]
  /\ position' = [position EXCEPT ![t] = RepairedAt(t)]
  /\ UNCHANGED <<mongoVars, pc, statusVars, tailing, entryCount, tailErrors, passed,
                 counted, from, memory>>

\* FetchDocuments, OpBuf.Flush and the loop of Start.
Count(t, w) ==
  /\ counted[t][w] < Len(passed[t])
  /\ LET e == passed[t][counted[t][w] + 1] IN
       entryCount' = [entryCount EXCEPT ![e] = @ + 1]
  /\ counted' = [counted EXCEPT ![t][w] = @ + 1]
  /\ UNCHANGED <<mongoVars, pc, statusVars, tailing, tailErrors, stage, position, passed,
                 from, memory>>

-----------------------------------------------------------------------------
CollectStep(c) ==
  /\ \/ Start(c) \/ CollectionStats(c) \/ ReadHead(c) \/ ReadTail(c)
     \/ SetHead(c) \/ SetTail(c) \/ SendHead(c) \/ SendTail(c)
     \/ CheckTailer(c) \/ StartTailer(c) \/ Return(c)
  /\ Remember
  /\ UNCHANGED mongoVars

TailerStep(t) ==
  \/ Position(t) \/ TailOps(t) \/ Break(t) \/ Repair(t)
  \/ \E w \in Workers : Count(t, w)

Next ==
  \/ Write
  \/ \E c \in Collects : CollectStep(c) \/ TailerStep(c)

Spec == Init /\ [][Next]_vars

\* The goroutines of a tailer run on, and MongoDB answers a ping at last.
Fairness ==
  \A t \in Collects :
    /\ WF_vars(Position(t)) /\ WF_vars(TailOps(t)) /\ WF_vars(Repair(t))
    /\ \A w \in Workers : WF_vars(Count(t, w))

FairSpec == Spec /\ Fairness

-----------------------------------------------------------------------------
\* A Collect that ran alone and could read both ends sends them as they were while it ran,
\* the oldest entry as the head and the newest as the tail, and the head never after the
\* tail however far the oplog has moved between the readings (GetOplogStatus, Export).
SoloWindow ==
  \A c \in Collects : pc[c] = "tailcheck" /\ solo[c] /\ BothRead(c) =>
    /\ Second(began[c].oldest) <= headSent[c] /\ headSent[c] <= Second(oldest)
    /\ Second(began[c].newest) <= tailSent[c] /\ tailSent[c] <= Second(newest)
    /\ headSent[c] <= tailSent[c]

PassedBy(t) == {passed[t][i] : i \in 1..Len(passed[t])}

\* A tailer skips nothing: behind its position the oplog holds only entries it has given to
\* its workers, also after it had to begin again (TailOps).
NothingSkipped ==
  \A t \in Collects :
    {e \in Included : oldest <= e /\ from[t] < e /\ e <= position[t]} \subseteq PassedBy(t)

\* A worker counts an entry once, so each tailer counts it ten times at most, and never an
\* entry that no tailer has come to (FetchDocuments, Start).
OncePerWorker ==
  \A e \in Entry :
    entryCount[e] <= Cardinality({t \in Collects : e \in PassedBy(t)} \X Workers)

\* An entry written after a tailer began is counted by all its workers, unless it rolls off
\* the oplog first (TailOps, FetchDocuments, Start).
TailedOrLost ==
  \A t \in Collects : \A e \in Included :
    (stage[t] = "tail" /\ from[t] < e /\ e = newest)
      ~> (oldest > e \/ \A w \in Workers : e \in {passed[t][i] : i \in 1..counted[t][w]})

(***************************************************************************)
(* What the documentation says, and the code refutes.                      *)
(***************************************************************************)
\* "The total number of entries observed in the oplog by ns/op": an entry counts for one
\* (oplogEntryCount).
EntriesCountOnce == \A e \in Entry : entryCount[e] <= 1
=============================================================================
