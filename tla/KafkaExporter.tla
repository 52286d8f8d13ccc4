---------------------------- MODULE KafkaExporter ----------------------------
(***************************************************************************)
(* The Kafka exporter (collector/kafka/collector.go).  Collect refreshes   *)
(* the metadata of its sarama client when the interval is over, reads the  *)
(* newest offset of every partition in one goroutine per topic, waits for  *)
(* them, and then asks every broker, in one goroutine per broker, for the  *)
(* consumer groups it coordinates and the offsets they have committed.     *)
(*                                                                         *)
(* Requests overlap, and the Collects share the sarama client: its cached  *)
(* brokers and the one connection it keeps to each of them, which a        *)
(* Collect opens, uses and closes while another one is using it.           *)
(*                                                                         *)
(* What is abstracted: one Kafka request is one step (Broker.Close waits   *)
(* for the responses that are due, so it cannot cut a request), as is a    *)
(* metadata refresh with the lookup that asked for it; the leader of a     *)
(* partition is fixed; Topics are the ones topicFilter accepts, Groups the *)
(* ones groupFilter accepts.  The metrics nothing is computed from         *)
(* (replicas, oldest offsets) and the ZooKeeper lag are left out.          *)
(***************************************************************************)
EXTENDS Integers, FiniteSets

CONSTANTS
  Collects,          \* the requests in flight
  Brokers,
  Topics,
  NumPartitions,     \* of each topic
  Groups,            \* the consumer groups
  MaxOffset,         \* a partition holds no more messages: a bound of the model
  None               \* no entry in the offset map

Partition == 1..NumPartitions
TP == Topics \X Partition

CONSTANT LeaderOf    \* the broker that leads each partition

ASSUME KafkaAssumption ==
  /\ NumPartitions \in Nat \ {0}
  /\ MaxOffset \in Nat
  /\ LeaderOf \in [TP -> Brokers]
  /\ None \notin Int

NoOffset == -1       \* what Kafka answers for a partition without a committed offset
Offset == 0..MaxOffset

VARIABLES
  \* The Collects.
  pc,           \* the goroutine of Collect itself
  topic,        \* getTopicMetrics: where the goroutine of each topic is
  part,         \* its partition
  try,          \* the attempt of Client.GetOffset: the first or the second
  offset,       \* the map of newest offsets, of one Collect
  group,        \* getConsumerGroupMetrics: where the goroutine of each broker is
  groupIds,     \* the groups it has still to report
  \* The Exporter and its client.
  due,          \* now.After(nextMetadataRefresh)
  known,        \* Client.Brokers()
  conn,         \* the connection of each Broker
  \* Kafka.
  up,           \* the brokers that run
  newest,       \* the next offset of each partition
  committed,    \* of each group and partition
  coordinator   \* of each group

collectVars == <<pc, topic, part, try, offset, group, groupIds>>
clientVars == <<due, known, conn>>
kafkaVars == <<up, newest, committed, coordinator>>
vars == <<collectVars, clientVars, kafkaVars>>

TopicPC == {"off", "leader", "newestLeader", "newest", "oldestLeader", "oldest", "done"}
GroupPC == {"off", "open", "list", "describe", "fetch", "close", "done"}

TypeOK ==
  /\ pc \in [Collects -> {"idle", "check", "refresh", "topics", "topicwait", "groupwait"}]
  /\ topic \in [Collects -> [Topics -> TopicPC]]
  /\ part \in [Collects -> [Topics -> Partition]]
  /\ try \in [Collects -> [Topics -> {1, 2}]]
  /\ offset \in [Collects -> [TP -> Offset \cup {None}]]
  /\ group \in [Collects -> [Brokers -> GroupPC]]
  /\ groupIds \in [Collects -> [Brokers -> SUBSET Groups]]
  /\ due \in BOOLEAN
  /\ known \in SUBSET Brokers
  /\ conn \in [Brokers -> {"closed", "open", "broken"}]
  /\ up \in SUBSET Brokers
  /\ newest \in [TP -> Offset]
  /\ committed \in [Groups -> [TP -> Offset \cup {NoOffset}]]
  /\ coordinator \in [Groups -> Brokers]

NoOffsets == [tp \in TP |-> None]

\* NewExporter has fetched the metadata of all brokers.
Init ==
  /\ pc = [c \in Collects |-> "idle"]
  /\ topic = [c \in Collects |-> [t \in Topics |-> "off"]]
  /\ part = [c \in Collects |-> [t \in Topics |-> 1]]
  /\ try = [c \in Collects |-> [t \in Topics |-> 1]]
  /\ offset = [c \in Collects |-> NoOffsets]
  /\ group = [c \in Collects |-> [b \in Brokers |-> "off"]]
  /\ groupIds = [c \in Collects |-> [b \in Brokers |-> {}]]
  /\ due = TRUE
  /\ known = Brokers
  /\ conn = [b \in Brokers |-> "closed"]
  /\ up = Brokers
  /\ newest = [tp \in TP |-> 0]
  /\ committed = [g \in Groups |-> [tp \in TP |-> NoOffset]]
  /\ coordinator \in [Groups -> Brokers]

-----------------------------------------------------------------------------
(***************************************************************************)
(* The sarama client.                                                      *)
(***************************************************************************)
\* Broker.Open dials unless the broker is connected, or believes it is.
OpenResult(b) == IF conn[b] = "closed" THEN "nil" ELSE "ErrAlreadyConnected"

Opened(b, connections) ==
  IF connections[b] = "closed" /\ b \in up
  THEN [connections EXCEPT ![b] = "open"] ELSE connections

Closed(b, connections) == [connections EXCEPT ![b] = "closed"]

\* A request is answered on a connection that is open; one whose peer has gone stays
\* unusable until it is closed.
Answers(b) == conn[b] = "open"

\* RefreshMetadata learns the brokers that run from one of them; when none answers it
\* closes and forgets all of them.
Refreshed == IF up = {} THEN {} ELSE known \cup up

AfterRefresh(connections) ==
  IF up = {} THEN [b \in Brokers |-> "closed"] ELSE connections

\* Client.Leader opens the connection to the leader, after a refresh if it is not known.
LeaderFound(b) == b \in known \/ b \in Refreshed

AskLeader(b) ==
  IF b \in known THEN /\ conn' = Opened(b, conn)
                      /\ UNCHANGED known
  ELSE /\ known' = Refreshed
       /\ conn' = IF b \in Refreshed THEN Opened(b, AfterRefresh(conn))
                  ELSE AfterRefresh(conn)

-----------------------------------------------------------------------------
(***************************************************************************)
(* Collect up to the topics.  The time is compared and set without a lock. *)
(***************************************************************************)
Goto(c, label) == pc' = [pc EXCEPT ![c] = label]

Start(c) ==
  /\ pc[c] = "idle"
  /\ Goto(c, "check")
  /\ UNCHANGED <<topic, part, try, offset, group, groupIds, clientVars, kafkaVars>>

CheckRefresh(c) ==
  /\ pc[c] = "check"
  /\ Goto(c, IF due THEN "refresh" ELSE "topics")
  /\ UNCHANGED <<topic, part, try, offset, group, groupIds, clientVars, kafkaVars>>

\* An error is logged, and the next refresh is an interval away all the same.
RefreshMetadata(c) ==
  /\ pc[c] = "refresh"
  /\ known' = Refreshed
  /\ conn' = AfterRefresh(conn)
  /\ due' = FALSE
  /\ Goto(c, "topics")
  /\ UNCHANGED <<topic, part, try, offset, group, groupIds, kafkaVars>>

StartTopics(c) ==
  /\ pc[c] = "topics"
  /\ topic' = [topic EXCEPT ![c] = [t \in Topics |-> "leader"]]
  /\ Goto(c, "topicwait")
  /\ UNCHANGED <<part, try, offset, group, groupIds, clientVars, kafkaVars>>

(***************************************************************************)
(* getTopicMetrics, for one partition after the other: the leader, the     *)
(* newest and the oldest offset.  Client.GetOffset closes a connection     *)
(* that fails it, refreshes the metadata and tries once more.              *)
(***************************************************************************)
LeaderHere(c, t) == LeaderOf[<<t, part[c][t]>>]

TopicGoto(c, t, label) == topic' = [topic EXCEPT ![c][t] = label]

FindLeader(c, t) ==
  /\ topic[c][t] = "leader"
  /\ AskLeader(LeaderHere(c, t))
  /\ TopicGoto(c, t, "newestLeader")
  /\ UNCHANGED <<pc, part, try, offset, group, groupIds, due, kafkaVars>>

\* Mutant: one partition too many.
MorePartitionsOffByOne(c, t) == part[c][t] <= NumPartitions
MorePartitions(c, t) == part[c][t] < NumPartitions

\* What follows a query of offsets, whether it succeeded or not.
After(c, t) ==
  IF topic[c][t] \in {"newestLeader", "newest"} THEN "oldestLeader"
  ELSE IF MorePartitions(c, t) THEN "leader" ELSE "done"

Finish(c, t) ==
  /\ TopicGoto(c, t, After(c, t))
  /\ part' = [part EXCEPT ![c][t] = IF After(c, t) = "leader" THEN @ + 1 ELSE @]
  /\ try' = [try EXCEPT ![c][t] = 1]

OffsetLeader(c, t) ==
  /\ topic[c][t] \in {"newestLeader", "oldestLeader"}
  /\ LeaderFound(LeaderHere(c, t))
  /\ AskLeader(LeaderHere(c, t))
  /\ TopicGoto(c, t, IF topic[c][t] = "newestLeader" THEN "newest" ELSE "oldest")
  /\ UNCHANGED <<pc, part, try, offset, group, groupIds, due, kafkaVars>>

\* Mutant: the offset after the newest one.
RecordedPastEnd(tp) == IF newest[tp] < MaxOffset THEN newest[tp] + 1 ELSE newest[tp]
Recorded(tp) == newest[tp]

GetOffset(c, t) ==
  /\ topic[c][t] \in {"newest", "oldest"}
  /\ Answers(LeaderHere(c, t))
  /\ LET tp == <<t, part[c][t]>> IN
       offset' = [offset EXCEPT ![c][tp] =
                    IF topic[c][t] = "newest" THEN Recorded(tp) ELSE @]
  /\ Finish(c, t)
  /\ UNCHANGED <<pc, group, groupIds, clientVars, kafkaVars>>

\* Mutant: the connection that failed stays.
KeepFailed(c, t) == conn
CloseFailed(c, t) == Closed(LeaderHere(c, t), conn)

Retry(c, t) ==
  /\ try[c][t] = 1
  /\ up # {}
  /\ try' = [try EXCEPT ![c][t] = 2]
  /\ TopicGoto(c, t, IF topic[c][t] \in {"newestLeader", "newest"}
                     THEN "newestLeader" ELSE "oldestLeader")
  /\ UNCHANGED part

GiveUp(c, t) ==
  /\ try[c][t] = 2 \/ up = {}
  /\ Finish(c, t)

GetOffsetFails(c, t) ==
  /\ \/ /\ topic[c][t] \in {"newestLeader", "oldestLeader"}
        /\ ~LeaderFound(LeaderHere(c, t))
        /\ known' = Refreshed
        /\ conn' = AfterRefresh(conn)
     \/ /\ topic[c][t] \in {"newest", "oldest"}
        /\ ~Answers(LeaderHere(c, t))
        /\ known' = IF try[c][t] = 1 THEN Refreshed ELSE known
        /\ conn' = IF try[c][t] = 1 THEN AfterRefresh(CloseFailed(c, t))
                   ELSE CloseFailed(c, t)
  /\ Retry(c, t) \/ GiveUp(c, t)
  /\ UNCHANGED <<pc, offset, group, groupIds, due, kafkaVars>>

(***************************************************************************)
(* wg.Wait, then getConsumerGroupMetrics for the brokers of that moment.   *)
(***************************************************************************)
\* Mutant: do not wait.
TopicsStarted(c) == TRUE
TopicsDone(c) == \A t \in Topics : topic[c][t] = "done"

StartGroups(c) ==
  /\ pc[c] = "topicwait"
  /\ TopicsDone(c)
  /\ known # {}
  /\ group' = [group EXCEPT ![c] = [b \in Brokers |-> IF b \in known THEN "open" ELSE "done"]]
  /\ Goto(c, "groupwait")
  /\ UNCHANGED <<topic, part, try, offset, groupIds, clientVars, kafkaVars>>

GroupGoto(c, b, label) == group' = [group EXCEPT ![c][b] = label]

\* Mutant: a broker that is connected already is an error.
OnlyFresh == {"nil"}
Tolerated == {"nil", "ErrAlreadyConnected"}

OpenBroker(c, b) ==
  /\ group[c][b] = "open"
  /\ conn' = Opened(b, conn)
  /\ GroupGoto(c, b, IF OpenResult(b) \in Tolerated THEN "list" ELSE "done")
  /\ UNCHANGED <<pc, topic, part, try, offset, groupIds, due, known, kafkaVars>>

ListGroups(c, b) ==
  /\ group[c][b] = "list"
  /\ IF Answers(b)
     THEN /\ groupIds' = [groupIds EXCEPT ![c][b] = {g \in Groups : coordinator[g] = b}]
          /\ GroupGoto(c, b, "describe")
     ELSE /\ GroupGoto(c, b, "close")
          /\ UNCHANGED groupIds
  /\ UNCHANGED <<pc, topic, part, try, offset, clientVars, kafkaVars>>

DescribeGroups(c, b) ==
  /\ group[c][b] = "describe"
  /\ GroupGoto(c, b, IF Answers(b) THEN "fetch" ELSE "close")
  /\ UNCHANGED <<pc, topic, part, try, offset, groupIds, clientVars, kafkaVars>>

\* A described group is reported, with its members and with its lags if FetchOffset
\* succeeds; a broker that is no longer its coordinator answers with errors only.
FetchOffset(c, b, g) ==
  /\ group[c][b] = "fetch"
  /\ g \in groupIds[c][b]
  /\ groupIds' = [groupIds EXCEPT ![c][b] = @ \ {g}]
  /\ UNCHANGED <<pc, topic, part, try, offset, group, clientVars, kafkaVars>>

\* Mutant: only the normal return closes the connection.
CloseAfterFetch(c, b) == IF group[c][b] = "fetch" THEN Closed(b, conn) ELSE conn
CloseDeferred(c, b) == Closed(b, conn)

CloseBroker(c, b) ==
  /\ group[c][b] = "close" \/ (group[c][b] = "fetch" /\ groupIds[c][b] = {})
  /\ conn' = CloseDeferred(c, b)
  /\ groupIds' = [groupIds EXCEPT ![c][b] = {}]
  /\ GroupGoto(c, b, "done")
  /\ UNCHANGED <<pc, topic, part, try, offset, due, known, kafkaVars>>

\* wg.Wait again; or there was no broker to ask.  The next Collect makes a map of its own.
End(c) ==
  /\ \/ /\ pc[c] = "groupwait"
        /\ \A b \in Brokers : group[c][b] = "done"
     \/ /\ pc[c] = "topicwait"
        /\ TopicsDone(c)
        /\ known = {}
  /\ Goto(c, "idle")
  /\ topic' = [topic EXCEPT ![c] = [t \in Topics |-> "off"]]
  /\ group' = [group EXCEPT ![c] = [b \in Brokers |-> "off"]]
  /\ offset' = [offset EXCEPT ![c] = NoOffsets]
  /\ part' = [part EXCEPT ![c] = [t \in Topics |-> 1]]
  /\ UNCHANGED <<try, groupIds, clientVars, kafkaVars>>

-----------------------------------------------------------------------------
(***************************************************************************)
(* Time and Kafka.                                                         *)
(***************************************************************************)
IntervalEnds ==
  /\ ~due
  /\ due' = TRUE
  /\ UNCHANGED <<collectVars, known, conn, kafkaVars>>

Produce(tp) ==
  /\ newest[tp] < MaxOffset
  /\ newest' = [newest EXCEPT ![tp] = @ + 1]
  /\ UNCHANGED <<collectVars, clientVars, up, committed, coordinator>>

Commit(g, tp) ==
  /\ \E o \in Offset :
       /\ committed[g][tp] < o
       /\ o <= newest[tp]
       /\ committed' = [committed EXCEPT ![g][tp] = o]
  /\ UNCHANGED <<collectVars, clientVars, up, newest, coordinator>>

StopBroker(b) ==
  /\ b \in up
  /\ up' = up \ {b}
  /\ conn' = [conn EXCEPT ![b] = IF @ = "open" THEN "broken" ELSE @]
  /\ UNCHANGED <<collectVars, due, known, newest, committed, coordinator>>

StartBroker(b) ==
  /\ b \notin up
  /\ up' = up \cup {b}
  /\ UNCHANGED <<collectVars, clientVars, newest, committed, coordinator>>

MoveGroup(g, b) ==
  /\ coordinator[g] # b
  /\ b \in up
  /\ coordinator' = [coordinator EXCEPT ![g] = b]
  /\ UNCHANGED <<collectVars, clientVars, up, newest, committed>>

-----------------------------------------------------------------------------
TopicStep(c, t) ==
  FindLeader(c, t) \/ OffsetLeader(c, t) \/ GetOffset(c, t) \/ GetOffsetFails(c, t)

GroupStep(c, b) ==
  \/ OpenBroker(c, b) \/ ListGroups(c, b) \/ DescribeGroups(c, b) \/ CloseBroker(c, b)
  \/ \E g \in Groups : FetchOffset(c, b, g)

CollectStep(c) ==
  \/ Start(c) \/ CheckRefresh(c) \/ RefreshMetadata(c) \/ StartTopics(c)
  \/ \E t \in Topics : TopicStep(c, t)
  \/ StartGroups(c)
  \/ \E b \in Brokers : GroupStep(c, b)
  \/ End(c)

Environment ==
  \/ IntervalEnds
  \/ \E tp \in TP : Produce(tp) \/ \E g \in Groups : Commit(g, tp)
  \/ \E b \in Brokers : StopBroker(b) \/ StartBroker(b) \/ \E g \in Groups : MoveGroup(g, b)

Next == Environment \/ \E c \in Collects : CollectStep(c)

Spec == Init /\ [][Next]_vars

-----------------------------------------------------------------------------
Grouping(c) == \E b \in Brokers : group[c][b] # "off"

\* The goroutines of the brokers range over the offset map without a lock; none is written
\* any more by then, which the Go runtime would abort (Collect, wg.Wait).
OffsetsFrozen == [][\A c \in Collects : Grouping(c) /\ Grouping(c)' => offset'[c] = offset[c]]_vars

\* When the exporter is idle it holds no connection that a topic goroutine or a failed
\* request has left behind (broker.Close, Client.GetOffset).
NothingLeftOpen ==
  (\A c \in Collects : pc[c] = "idle") => \A b \in Brokers : conn[b] = "closed"
=============================================================================
