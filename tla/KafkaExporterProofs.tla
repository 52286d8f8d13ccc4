-------------------------- MODULE KafkaExporterProofs --------------------------
(***************************************************************************)
(* Proofs about KafkaExporter and what KafkaCollectHistory remembers of    *)
(* it, for every number of Collects, brokers, topics, partitions and       *)
(* groups.                                                                 *)
(*                                                                         *)
(* PhaseInv ties the goroutines of a Collect to where it is itself.  With  *)
(* it, a connection is open only while some Collect is bound to close it   *)
(* (OpenInv), the offsets of a Collect lie between the ends of the         *)
(* partitions at its start and now (FreshInv), and a Collect that nothing  *)
(* disturbs has done all it has gone past (QuietInv).                      *)
(***************************************************************************)
EXTENDS KafkaCollectHistory, TLAPS

\* The goroutines of the topics and of the brokers run while Collect waits for them.
PhaseOf(c) ==
  /\ pc[c] \notin {"topicwait", "groupwait"} =>
       /\ \A t \in Topics : topic[c][t] = "off" /\ part[c][t] = 1
       /\ offset[c] = NoOffsets
  /\ pc[c] = "topicwait" => \A t \in Topics : topic[c][t] # "off"
  /\ pc[c] = "groupwait" => TopicsDone(c) /\ \A b \in Brokers : group[c][b] # "off"
  /\ pc[c] # "groupwait" => \A b \in Brokers : group[c][b] = "off"
  /\ \A b \in Brokers :
       group[c][b] \notin {"describe", "fetch", "close"} => groupIds[c][b] = {}

PhaseInv == \A c \in Collects : PhaseOf(c)

\* A goroutine that is going to close the connection to b, or to open it and then close it.
Closes(c, b) == group[c][b] \in {"open", "list", "describe", "fetch", "close"}

\* Somebody will close a connection that is not: a goroutine of its broker that runs, or the
\* one a Collect will start, as the client knows the broker.
OpenInv ==
  \A b \in Brokers : conn[b] # "closed" =>
    \/ \E c \in Collects : Closes(c, b)
    \/ b \in known /\ \E c \in Collects : pc[c] = "topicwait"

IInv == TypeOK /\ PhaseInv /\ OpenInv

\* The ends of the partitions only move up.
FreshInv ==
  \A c \in Collects, tp \in TP :
    /\ before[c][tp] \in Nat
    /\ before[c][tp] <= newest[tp]
    /\ offset[c][tp] # None => before[c][tp] <= offset[c][tp] /\ offset[c][tp] <= newest[tp]

\* The groups a broker coordinates.
Coordinated(b) == {g \in Groups : coordinator[g] = b}

\* The partition of a topic up to which the newest offset has been read.
Behind(c, t, p) ==
  p < part[c][t] \/ (p = part[c][t] /\ topic[c][t] \in {"oldestLeader", "oldest", "done"})

\* What a Collect that nothing has disturbed can rely on, and has done.
Undisturbed(c) ==
  /\ pc[c] # "idle"
  /\ \A d \in Collects \ {c} : pc[d] = "idle"
  /\ up = Brokers /\ known = Brokers
  /\ \A b \in Brokers : conn[b] # "broken"

TopicsRead(c) ==
  \A t \in Topics :
    /\ topic[c][t] \in {"newest", "oldest"} => conn[LeaderHere(c, t)] = "open"
    /\ topic[c][t] = "done" => part[c][t] = NumPartitions
    /\ \A p \in Partition : Behind(c, t, p) => offset[c][<<t, p>>] # None

\* The groups of b that have been reported, when its goroutine is where it is.
Told(c, b) ==
  IF group[c][b] \in {"off", "open", "list", "describe"} THEN {}
  ELSE Coordinated(b) \ groupIds[c][b]

GroupsTold(c) ==
  \A b \in Brokers :
    /\ group[c][b] # "close"
    /\ group[c][b] \in {"list", "describe", "fetch"} => conn[b] = "open"
    /\ group[c][b] = "describe" => groupIds[c][b] = Coordinated(b)
    /\ group[c][b] = "fetch" => groupIds[c][b] \subseteq Coordinated(b)
    /\ \A g \in Groups : <<g, b>> \in members[c] <=> g \in Told(c, b)
    /\ \A g \in Coordinated(b) : g \in lags[c] <=> g \in Told(c, b)

ReportsInv ==
  \A c \in Collects :
    /\ members[c] \subseteq Groups \X Brokers /\ lags[c] \subseteq Groups
    /\ pc[c] = "idle" => members[c] = {} /\ lags[c] = {}

QuietInv ==
  \A c \in Collects : quiet[c] => Undisturbed(c) /\ TopicsRead(c) /\ GroupsTold(c)

HInv == IInv /\ FreshInv /\ ReportsInv /\ QuietInv

-----------------------------------------------------------------------------
(***************************************************************************)
(* Types.                                                                  *)
(***************************************************************************)
LEMMA LeaderType ==
  ASSUME TypeOK, NEW c \in Collects, NEW t \in Topics
  PROVE  /\ LeaderHere(c, t) \in Brokers
         /\ <<t, part[c][t]>> \in TP
BY KafkaAssumption DEF TypeOK, LeaderHere, TP

\* The steps of the client keep to the types of its brokers and of their connections.
LEMMA ClientType ==
  ASSUME TypeOK
  PROVE  /\ Refreshed \in SUBSET Brokers
         /\ AfterRefresh(conn) \in [Brokers -> {"closed", "open", "broken"}]
         /\ \A b \in Brokers :
              /\ Opened(b, conn) \in [Brokers -> {"closed", "open", "broken"}]
              /\ Opened(b, AfterRefresh(conn)) \in [Brokers -> {"closed", "open", "broken"}]
              /\ Closed(b, conn) \in [Brokers -> {"closed", "open", "broken"}]
              /\ AfterRefresh(Closed(b, conn)) \in [Brokers -> {"closed", "open", "broken"}]
              /\ AskLeader(b) => /\ known' \in SUBSET Brokers
                                 /\ conn' \in [Brokers -> {"closed", "open", "broken"}]
<1>1. Refreshed \in SUBSET Brokers
  BY DEF TypeOK, Refreshed
<1>2. AfterRefresh(conn) \in [Brokers -> {"closed", "open", "broken"}]
  BY DEF TypeOK, AfterRefresh
<1>3. ASSUME NEW b \in Brokers, NEW f \in [Brokers -> {"closed", "open", "broken"}]
      PROVE  /\ Opened(b, f) \in [Brokers -> {"closed", "open", "broken"}]
             /\ Closed(b, f) \in [Brokers -> {"closed", "open", "broken"}]
             /\ AfterRefresh(f) \in [Brokers -> {"closed", "open", "broken"}]
  BY <1>3 DEF Opened, Closed, AfterRefresh
<1>4. conn \in [Brokers -> {"closed", "open", "broken"}] /\ known \in SUBSET Brokers
  BY DEF TypeOK
<1> QED BY <1>1, <1>2, <1>3, <1>4 DEF AskLeader

\* After a query of offsets comes the other one, the next partition or the end.
LEMMA FinishType ==
  ASSUME TypeOK, NEW c \in Collects, NEW t \in Topics, Finish(c, t)
  PROVE  /\ topic' \in [Collects -> [Topics -> TopicPC]]
         /\ part' \in [Collects -> [Topics -> Partition]]
         /\ try' \in [Collects -> [Topics -> {1, 2}]]
<1>1. After(c, t) \in TopicPC
  BY DEF After, TopicPC
<1>2. After(c, t) = "leader" => part[c][t] + 1 \in Partition
  BY KafkaAssumption DEF After, MorePartitions, TypeOK, Partition
<1>3. topic' \in [Collects -> [Topics -> TopicPC]]
  BY <1>1 DEF Finish, TopicGoto, TypeOK
<1>4. part' \in [Collects -> [Topics -> Partition]]
  BY <1>2 DEF Finish, TypeOK
<1>5. try' \in [Collects -> [Topics -> {1, 2}]]
  BY DEF Finish, TypeOK
<1> QED BY <1>3, <1>4, <1>5

LEMMA TopicType ==
  ASSUME TypeOK, NEW c \in Collects, NEW t \in Topics, TopicStep(c, t)
  PROVE  TypeOK'
<1> USE DEF TypeOK
<1>a. LeaderHere(c, t) \in Brokers /\ <<t, part[c][t]>> \in TP
  BY LeaderType
<1>b. \A l \in TopicPC : TopicGoto(c, t, l) => topic' \in [Collects -> [Topics -> TopicPC]]
  BY DEF TopicGoto
<1>1. CASE FindLeader(c, t)
  <2>1. topic' \in [Collects -> [Topics -> TopicPC]]
    BY <1>1, <1>b DEF FindLeader, TopicPC
  <2> QED BY <1>1, <1>a, <2>1, ClientType DEF FindLeader, kafkaVars
<1>2. CASE OffsetLeader(c, t)
  <2>1. topic' \in [Collects -> [Topics -> TopicPC]]
    BY <1>2, <1>b DEF OffsetLeader, TopicPC
  <2> QED BY <1>2, <1>a, <2>1, ClientType DEF OffsetLeader, kafkaVars
<1>3. CASE GetOffset(c, t)
  <2>1. offset' \in [Collects -> [TP -> Offset \cup {None}]]
    BY <1>3, <1>a DEF GetOffset, Recorded
  <2> QED BY <1>3, <2>1, FinishType DEF GetOffset, clientVars, kafkaVars
<1>4. CASE GetOffsetFails(c, t)
  <2>1. /\ known' \in SUBSET Brokers
        /\ conn' \in [Brokers -> {"closed", "open", "broken"}]
    <3>1. CASE known' = Refreshed /\ conn' = AfterRefresh(conn)
      BY <3>1, ClientType
    <3>2. CASE /\ known' \in {Refreshed, known}
               /\ conn' \in {AfterRefresh(CloseFailed(c, t)), CloseFailed(c, t)}
      BY <1>a, <3>2, ClientType DEF CloseFailed
    <3> QED BY <1>4, <3>1, <3>2 DEF GetOffsetFails
  <2>2. /\ topic' \in [Collects -> [Topics -> TopicPC]]
        /\ part' \in [Collects -> [Topics -> Partition]]
        /\ try' \in [Collects -> [Topics -> {1, 2}]]
    <3>1. CASE Retry(c, t)
      BY <3>1, <1>b DEF Retry, TopicPC
    <3>2. CASE GiveUp(c, t)
      BY <3>2, FinishType DEF GiveUp
    <3> QED BY <1>4, <3>1, <3>2 DEF GetOffsetFails
  <2> QED BY <1>4, <2>1, <2>2 DEF GetOffsetFails, kafkaVars
<1> QED BY <1>1, <1>2, <1>3, <1>4 DEF TopicStep

LEMMA GroupType ==
  ASSUME TypeOK, NEW c \in Collects, NEW b \in Brokers, GroupStep(c, b)
  PROVE  TypeOK'
<1> USE DEF TypeOK
<1>a. \A l \in GroupPC : GroupGoto(c, b, l) => group' \in [Collects -> [Brokers -> GroupPC]]
  BY DEF GroupGoto
<1>1. CASE OpenBroker(c, b)
  <2>1. group' \in [Collects -> [Brokers -> GroupPC]]
    BY <1>1, <1>a DEF OpenBroker, GroupPC
  <2> QED BY <1>1, <2>1, ClientType DEF OpenBroker, kafkaVars
<1>2. CASE ListGroups(c, b)
  <2>1. group' \in [Collects -> [Brokers -> GroupPC]]
    BY <1>2, <1>a DEF ListGroups, GroupPC
  <2>2. groupIds' \in [Collects -> [Brokers -> SUBSET Groups]]
    <3>1. CASE Answers(b)
      <4>1. {g \in Groups : coordinator[g] = b} \in SUBSET Groups
        OBVIOUS
      <4> HIDE DEF TypeOK
      <4>2. groupIds' = [groupIds EXCEPT ![c][b] = {g \in Groups : coordinator[g] = b}]
        BY <1>2, <3>1 DEF ListGroups
      <4>3. groupIds \in [Collects -> [Brokers -> SUBSET Groups]]
        BY DEF TypeOK
      <4> QED BY <4>1, <4>2, <4>3
    <3>2. CASE ~Answers(b)
      BY <1>2, <3>2 DEF ListGroups
    <3> QED BY <3>1, <3>2
  <2> QED BY <1>2, <2>1, <2>2 DEF ListGroups, clientVars, kafkaVars
<1>3. CASE DescribeGroups(c, b)
  <2>1. group' \in [Collects -> [Brokers -> GroupPC]]
    BY <1>3, <1>a DEF DescribeGroups, GroupPC
  <2> QED BY <1>3, <2>1 DEF DescribeGroups, clientVars, kafkaVars
<1>4. CASE CloseBroker(c, b)
  <2>1. group' \in [Collects -> [Brokers -> GroupPC]]
    BY <1>4, <1>a DEF CloseBroker, GroupPC
  <2>2. groupIds' \in [Collects -> [Brokers -> SUBSET Groups]]
    BY <1>4 DEF CloseBroker
  <2> QED BY <1>4, <2>1, <2>2, ClientType DEF CloseBroker, CloseDeferred, kafkaVars
<1>5. ASSUME NEW g \in Groups, FetchOffset(c, b, g) PROVE TypeOK'
  <2>1. groupIds' \in [Collects -> [Brokers -> SUBSET Groups]]
    BY <1>5 DEF FetchOffset
  <2> QED BY <1>5, <2>1 DEF FetchOffset, clientVars, kafkaVars
<1> QED BY <1>1, <1>2, <1>3, <1>4, <1>5 DEF GroupStep

LEMMA EnvironmentType ==
  ASSUME TypeOK, Environment
  PROVE  TypeOK'
<1> USE DEF TypeOK
<1>1. CASE IntervalEnds
  BY <1>1 DEF IntervalEnds, collectVars, kafkaVars
<1>2. ASSUME NEW tp \in TP, Produce(tp) PROVE TypeOK'
  <2>1. newest' \in [TP -> Offset]
    BY <1>2, KafkaAssumption DEF Produce, Offset
  <2> QED BY <1>2, <2>1 DEF Produce, collectVars, clientVars
<1>3. ASSUME NEW tp \in TP, NEW g \in Groups, Commit(g, tp) PROVE TypeOK'
  <2>1. committed' \in [Groups -> [TP -> Offset \cup {NoOffset}]]
    BY <1>3 DEF Commit
  <2> QED BY <1>3, <2>1 DEF Commit, collectVars, clientVars
<1>4. ASSUME NEW b \in Brokers, StopBroker(b) PROVE TypeOK'
  <2>1. conn' \in [Brokers -> {"closed", "open", "broken"}]
    BY <1>4 DEF StopBroker
  <2> QED BY <1>4, <2>1 DEF StopBroker, collectVars
<1>5. ASSUME NEW b \in Brokers, StartBroker(b) PROVE TypeOK'
  BY <1>5 DEF StartBroker, collectVars, clientVars
<1>6. ASSUME NEW b \in Brokers, NEW g \in Groups, MoveGroup(g, b) PROVE TypeOK'
  BY <1>6 DEF MoveGroup, collectVars, clientVars
<1> QED BY <1>1, <1>2, <1>3, <1>4, <1>5, <1>6 DEF Environment

\* The steps of Collect itself.
CollectOwn(c) ==
  \/ Start(c) \/ CheckRefresh(c) \/ RefreshMetadata(c)
  \/ StartTopics(c) \/ StartGroups(c) \/ End(c)

LEMMA CollectType ==
  ASSUME TypeOK, NEW c \in Collects, CollectOwn(c)
  PROVE  TypeOK'
<1> USE DEF TypeOK, Goto
<1>1. CASE Start(c)
  BY <1>1 DEF Start, clientVars, kafkaVars
<1>2. CASE CheckRefresh(c)
  BY <1>2 DEF CheckRefresh, clientVars, kafkaVars
<1>3. CASE RefreshMetadata(c)
  BY <1>3, ClientType DEF RefreshMetadata, kafkaVars
<1>4. CASE StartTopics(c)
  <2>1. topic' \in [Collects -> [Topics -> TopicPC]]
    BY <1>4 DEF StartTopics, TopicPC
  <2> QED BY <1>4, <2>1 DEF StartTopics, clientVars, kafkaVars
<1>5. CASE StartGroups(c)
  <2>1. group' \in [Collects -> [Brokers -> GroupPC]]
    BY <1>5 DEF StartGroups, GroupPC
  <2> QED BY <1>5, <2>1 DEF StartGroups, clientVars, kafkaVars
<1>6. CASE End(c)
  <2>1. topic' \in [Collects -> [Topics -> TopicPC]]
    BY <1>6 DEF End, TopicPC
  <2>2. group' \in [Collects -> [Brokers -> GroupPC]]
    BY <1>6 DEF End, GroupPC
  <2>3. part' \in [Collects -> [Topics -> Partition]]
    BY <1>6, KafkaAssumption DEF End, Partition
  <2>4. offset' \in [Collects -> [TP -> Offset \cup {None}]]
    BY <1>6 DEF End, NoOffsets
  <2> QED BY <1>6, <2>1, <2>2, <2>3, <2>4 DEF End, clientVars, kafkaVars
<1> QED BY <1>1, <1>2, <1>3, <1>4, <1>5, <1>6 DEF CollectOwn

LEMMA TypeStep == TypeOK /\ [Next]_vars => TypeOK'
<1> SUFFICES ASSUME TypeOK, [Next]_vars PROVE TypeOK'
  OBVIOUS
<1>1. CASE UNCHANGED vars
  BY <1>1 DEF TypeOK, vars, collectVars, clientVars, kafkaVars
<1> QED BY <1>1, TopicType, GroupType, EnvironmentType, CollectType
        DEF Next, CollectStep, CollectOwn

LEMMA TypeInit == Init => TypeOK
<1> SUFFICES ASSUME Init PROVE TypeOK
  OBVIOUS
<1>1. 1 \in Partition /\ 0 \in Offset
  BY KafkaAssumption DEF Partition, Offset
<1> QED BY <1>1 DEF Init, TypeOK, TopicPC, GroupPC, NoOffsets

\* The state of the exporter, of its client and of Kafka keeps to its types.
THEOREM TypeCorrect == Spec => []TypeOK
BY TypeInit, TypeStep, PTL DEF Spec

-----------------------------------------------------------------------------
(***************************************************************************)
(* The phases of a Collect.                                                *)
(***************************************************************************)
\* A step of a Collect leaves the others where they are.
LEMMA OthersStay ==
  ASSUME TypeOK, NEW c \in Collects, CollectStep(c), NEW d \in Collects \ {c}
  PROVE  /\ pc'[d] = pc[d] /\ topic'[d] = topic[d] /\ part'[d] = part[d]
         /\ offset'[d] = offset[d] /\ group'[d] = group[d] /\ groupIds'[d] = groupIds[d]
<1> USE DEF TypeOK, Goto
<1>1. ASSUME NEW t \in Topics, TopicStep(c, t)
      PROVE  /\ UNCHANGED <<pc, group, groupIds>>
             /\ topic'[d] = topic[d] /\ part'[d] = part[d] /\ offset'[d] = offset[d]
  BY <1>1 DEF TopicStep, FindLeader, OffsetLeader, GetOffset, GetOffsetFails, Retry, GiveUp,
              Finish, TopicGoto
<1>2. ASSUME NEW b \in Brokers, GroupStep(c, b)
      PROVE  /\ UNCHANGED <<pc, topic, part, offset>>
             /\ group'[d] = group[d] /\ groupIds'[d] = groupIds[d]
  BY <1>2 DEF GroupStep, OpenBroker, ListGroups, DescribeGroups, FetchOffset, CloseBroker,
              GroupGoto
<1>3. CASE CollectOwn(c)
  BY <1>3 DEF CollectOwn, Start, CheckRefresh, RefreshMetadata, StartTopics, StartGroups, End
<1> QED BY <1>1, <1>2, <1>3 DEF CollectStep, CollectOwn

\* A goroutine of a topic runs while Collect waits for the topics.
LEMMA TopicPhase ==
  ASSUME TypeOK, PhaseInv, NEW c \in Collects, NEW t \in Topics, TopicStep(c, t)
  PROVE  /\ pc[c] = "topicwait"
         /\ UNCHANGED <<pc, group, groupIds, kafkaVars>>
         /\ topic'[c][t] # "off"
         /\ \A s \in Topics \ {t} : topic'[c][s] = topic[c][s] /\ part'[c][s] = part[c][s]
<1> USE DEF TypeOK
<1>1. topic[c][t] \notin {"off", "done"}
  BY DEF TopicStep, FindLeader, OffsetLeader, GetOffset, GetOffsetFails
<1>2. pc[c] = "topicwait"
  BY <1>1 DEF PhaseInv, PhaseOf, TopicsDone
<1>3. UNCHANGED <<pc, group, groupIds, kafkaVars>>
  BY DEF TopicStep, FindLeader, OffsetLeader, GetOffset, GetOffsetFails
<1>4. After(c, t) # "off"
  BY DEF After
<1>5. topic'[c][t] # "off"
  BY <1>4 DEF TopicStep, FindLeader, OffsetLeader, GetOffset, GetOffsetFails, Retry, GiveUp,
              Finish, TopicGoto
<1>6. \A s \in Topics \ {t} : topic'[c][s] = topic[c][s] /\ part'[c][s] = part[c][s]
  BY DEF TopicStep, FindLeader, OffsetLeader, GetOffset, GetOffsetFails, Retry, GiveUp,
         Finish, TopicGoto
<1> QED BY <1>2, <1>3, <1>5, <1>6

\* A goroutine of a broker runs while Collect waits for the groups.
LEMMA GroupPhase ==
  ASSUME TypeOK, PhaseInv, NEW c \in Collects, NEW b \in Brokers, GroupStep(c, b)
  PROVE  /\ pc[c] = "groupwait"
         /\ UNCHANGED <<pc, topic, part, offset, known, kafkaVars>>
         /\ Closes(c, b)
         /\ group'[c][b] # "off"
         /\ \A a \in Brokers \ {b} : group'[c][a] = group[c][a] /\ groupIds'[c][a] = groupIds[c][a]
<1> USE DEF TypeOK
<1>1. Closes(c, b)
  BY DEF GroupStep, OpenBroker, ListGroups, DescribeGroups, FetchOffset, CloseBroker, Closes
<1>2. pc[c] = "groupwait"
  BY <1>1 DEF PhaseInv, PhaseOf, Closes
<1>3. UNCHANGED <<pc, topic, part, offset, known, kafkaVars>>
  BY DEF GroupStep, OpenBroker, ListGroups, DescribeGroups, FetchOffset, CloseBroker, clientVars
<1>4. group'[c][b] # "off"
  BY <1>1 DEF GroupStep, OpenBroker, ListGroups, DescribeGroups, FetchOffset, CloseBroker,
              GroupGoto, Closes
<1>5. \A a \in Brokers \ {b} : group'[c][a] = group[c][a] /\ groupIds'[c][a] = groupIds[c][a]
  BY DEF GroupStep, OpenBroker, ListGroups, DescribeGroups, FetchOffset, CloseBroker, GroupGoto
<1> QED BY <1>1, <1>2, <1>3, <1>4, <1>5

LEMMA PhaseStep == TypeOK /\ PhaseInv /\ [Next]_vars => PhaseInv'
<1> SUFFICES ASSUME TypeOK, PhaseInv, [Next]_vars PROVE PhaseInv'
  OBVIOUS
<1>1. CASE Environment \/ UNCHANGED vars
  <2>1. UNCHANGED collectVars
    BY <1>1 DEF Environment, IntervalEnds, Produce, Commit, StopBroker, StartBroker, MoveGroup,
                vars
  <2> QED BY <2>1 DEF PhaseInv, PhaseOf, TopicsDone, collectVars
<1>2. ASSUME NEW c \in Collects, CollectStep(c) PROVE PhaseInv'
  <2>1. ASSUME NEW d \in Collects \ {c} PROVE PhaseOf(d)'
    BY <1>2, <2>1, OthersStay DEF PhaseInv, PhaseOf, TopicsDone
  <2>2. PhaseOf(c)'
    <3>a. PhaseOf(c)
      BY DEF PhaseInv
    <3>1. ASSUME NEW t \in Topics, TopicStep(c, t) PROVE PhaseOf(c)'
      <4>1. \A s \in Topics : topic'[c][s] # "off"
        BY <3>a, <3>1, TopicPhase DEF PhaseOf
      <4> QED BY <3>a, <3>1, <4>1, TopicPhase DEF PhaseOf
    <3>2. ASSUME NEW b \in Brokers, GroupStep(c, b) PROVE PhaseOf(c)'
      <4>1. \A a \in Brokers : group'[c][a] # "off"
        BY <3>a, <3>2, GroupPhase DEF PhaseOf
      <4>2. group'[c][b] \notin {"describe", "fetch", "close"} => groupIds'[c][b] = {}
        BY <3>a, <3>2 DEF GroupStep, OpenBroker, ListGroups, DescribeGroups, FetchOffset,
                          CloseBroker, GroupGoto, PhaseOf, TypeOK
      <4> QED BY <3>a, <3>2, <4>1, <4>2, GroupPhase DEF PhaseOf, TopicsDone
    <3>3. CASE Start(c) \/ CheckRefresh(c) \/ RefreshMetadata(c) \/ StartTopics(c)
      BY <3>a, <3>3 DEF Start, CheckRefresh, RefreshMetadata, StartTopics, Goto, PhaseOf, TypeOK
    <3>4. CASE StartGroups(c)
      BY <3>a, <3>4 DEF StartGroups, Goto, PhaseOf, TopicsDone, TypeOK
    <3>5. CASE End(c)
      <4>1. /\ pc'[c] = "idle" /\ offset'[c] = NoOffsets /\ UNCHANGED groupIds
            /\ \A t \in Topics : topic'[c][t] = "off" /\ part'[c][t] = 1
            /\ \A b \in Brokers : group'[c][b] = "off"
        BY <3>5 DEF End, Goto, TypeOK
      <4>2. \A b \in Brokers : groupIds[c][b] = {}
        BY <3>a, <3>5 DEF End, PhaseOf
      <4> QED BY <4>1, <4>2 DEF PhaseOf
    <3> QED BY <1>2, <3>1, <3>2, <3>3, <3>4, <3>5 DEF CollectStep
  <2> QED BY <2>1, <2>2 DEF PhaseInv
<1> QED BY <1>1, <1>2 DEF Next

-----------------------------------------------------------------------------
(***************************************************************************)
(* The connections of the client.                                          *)
(***************************************************************************)
\* Whoever opens a connection knows the broker; who forgets a broker closes its connection.
ClientMoves ==
  \A b \in Brokers : conn'[b] # "closed" =>
    /\ conn[b] # "closed" \/ b \in known'
    /\ b \in known => b \in known'

LEMMA RefreshMoves ==
  ASSUME TypeOK, known' = Refreshed, NEW f \in [Brokers -> {"closed", "open", "broken"}],
         conn' = AfterRefresh(f),
         \A b \in Brokers : f[b] # "closed" => conn[b] # "closed"
  PROVE  ClientMoves
BY DEF ClientMoves, TypeOK, Refreshed, AfterRefresh

LEMMA AskMoves ==
  ASSUME TypeOK, NEW b \in Brokers, AskLeader(b)
  PROVE  ClientMoves
<1> USE DEF TypeOK, ClientMoves
<1>1. CASE b \in known
  BY <1>1 DEF AskLeader, Opened
<1>2. CASE b \notin known /\ up = {}
  BY <1>2 DEF AskLeader, Refreshed, AfterRefresh
<1>3. CASE b \notin known /\ up # {}
  <2>1. known' = known \cup up
    BY <1>3 DEF AskLeader, Refreshed
  <2>2. conn' = (IF b \in known \cup up THEN Opened(b, conn) ELSE conn)
    BY <1>3 DEF AskLeader, AfterRefresh, Refreshed
  <2> QED BY <2>1, <2>2 DEF Opened
<1> QED BY <1>1, <1>2, <1>3

LEMMA TopicMoves ==
  ASSUME TypeOK, NEW c \in Collects, NEW t \in Topics, TopicStep(c, t)
  PROVE  ClientMoves
<1>a. LeaderHere(c, t) \in Brokers
  BY LeaderType
<1>b. conn \in [Brokers -> {"closed", "open", "broken"}]
  BY DEF TypeOK
<1>c. /\ CloseFailed(c, t) \in [Brokers -> {"closed", "open", "broken"}]
      /\ \A b \in Brokers : CloseFailed(c, t)[b] # "closed" => conn[b] # "closed"
  BY <1>a, <1>b DEF CloseFailed, Closed
<1>1. CASE FindLeader(c, t) \/ OffsetLeader(c, t)
  BY <1>a, <1>1, AskMoves DEF FindLeader, OffsetLeader
<1>2. CASE GetOffset(c, t)
  BY <1>2 DEF GetOffset, clientVars, ClientMoves
<1>3. CASE GetOffsetFails(c, t)
  <2>1. CASE known' = Refreshed /\ conn' = AfterRefresh(conn)
    BY <1>b, <2>1, RefreshMoves
  <2>2. CASE known' = Refreshed /\ conn' = AfterRefresh(CloseFailed(c, t))
    BY <1>c, <2>2, RefreshMoves
  <2>3. CASE known' = known /\ conn' = CloseFailed(c, t)
    BY <1>c, <2>3 DEF ClientMoves
  <2> QED BY <1>3, <2>1, <2>2, <2>3 DEF GetOffsetFails
<1> QED BY <1>1, <1>2, <1>3 DEF TopicStep

\* As long as who would close the connections still will, they are accounted for.
LEMMA MovesKeepOpenInv ==
  ASSUME OpenInv, ClientMoves,
         \A c \in Collects : pc[c] = "topicwait" => pc'[c] = "topicwait",
         \A b \in Brokers, c \in Collects : Closes(c, b) => Closes(c, b)' \/ conn'[b] = "closed",
         \A b \in Brokers : conn[b] = "closed" /\ conn'[b] # "closed" =>
           \E c \in Collects : pc[c] = "topicwait" \/ Closes(c, b)'
  PROVE  OpenInv'
<1> SUFFICES ASSUME NEW b \in Brokers, conn'[b] # "closed"
             PROVE  \/ \E c \in Collects : Closes(c, b)'
                    \/ b \in known' /\ \E c \in Collects : pc'[c] = "topicwait"
  BY DEF OpenInv
<1>1. CASE conn[b] = "closed"
  BY <1>1 DEF ClientMoves
<1>2. CASE conn[b] # "closed"
  BY <1>2 DEF ClientMoves, OpenInv
<1> QED BY <1>1, <1>2

LEMMA OpenStep == TypeOK /\ PhaseInv /\ OpenInv /\ [Next]_vars => OpenInv'
<1> SUFFICES ASSUME TypeOK, PhaseInv, OpenInv, [Next]_vars PROVE OpenInv'
  OBVIOUS
<1>1. CASE Environment \/ UNCHANGED vars
  <2>1. /\ UNCHANGED <<pc, group, known>>
        /\ \A b \in Brokers : conn'[b] # "closed" => conn[b] # "closed"
    BY <1>1 DEF Environment, IntervalEnds, Produce, Commit, StopBroker, StartBroker, MoveGroup,
                collectVars, clientVars, vars, TypeOK
  <2> QED BY <2>1 DEF OpenInv, Closes
<1>2. ASSUME NEW c \in Collects, NEW t \in Topics, TopicStep(c, t) PROVE OpenInv'
  <2>1. pc[c] = "topicwait" /\ UNCHANGED <<pc, group>>
    BY <1>2, TopicPhase
  <2>2. ClientMoves
    BY <1>2, TopicMoves
  <2> QED BY <2>1, <2>2, MovesKeepOpenInv DEF Closes
<1>3. ASSUME NEW c \in Collects, NEW b \in Brokers, GroupStep(c, b) PROVE OpenInv'
  <2>1. CollectStep(c)
    BY <1>3 DEF CollectStep
  <2>2. UNCHANGED <<pc, known>>
    BY <1>3, GroupPhase
  <2>3. \A d \in Collects, a \in Brokers : <<d, a>> # <<c, b>> => group'[d][a] = group[d][a]
    BY <1>3, <2>1, OthersStay, GroupPhase
  <2>4. \A a \in Brokers \ {b} : conn'[a] = conn[a]
    BY <1>3 DEF GroupStep, OpenBroker, ListGroups, DescribeGroups, FetchOffset, CloseBroker,
                CloseDeferred, Closed, Opened, clientVars, TypeOK
  <2>5. Closes(c, b)' \/ conn'[b] = "closed"
    <3>1. CASE CloseBroker(c, b)
      BY <3>1 DEF CloseBroker, CloseDeferred, Closed, TypeOK
    <3>2. CASE OpenBroker(c, b)
      BY <3>2 DEF OpenBroker, OpenResult, Tolerated, GroupGoto, Closes, TypeOK
    <3>3. CASE ListGroups(c, b) \/ DescribeGroups(c, b) \/ \E g \in Groups : FetchOffset(c, b, g)
      BY <3>3 DEF ListGroups, DescribeGroups, FetchOffset, GroupGoto, Closes, TypeOK
    <3> QED BY <1>3, <3>1, <3>2, <3>3 DEF GroupStep
  <2> QED BY <2>2, <2>3, <2>4, <2>5 DEF OpenInv, Closes
<1>4. ASSUME NEW c \in Collects, CollectOwn(c) PROVE OpenInv'
  <2>1. \A d \in Collects \ {c} : pc'[d] = pc[d] /\ group'[d] = group[d]
    BY <1>4, OthersStay DEF CollectStep, CollectOwn
  <2>2. CASE Start(c) \/ CheckRefresh(c) \/ StartTopics(c)
    BY <2>1, <2>2 DEF Start, CheckRefresh, StartTopics, Goto, clientVars, OpenInv, Closes, TypeOK
  <2>3. CASE RefreshMetadata(c)
    <3>1. ClientMoves
      <4>1. conn \in [Brokers -> {"closed", "open", "broken"}]
        BY DEF TypeOK
      <4> QED BY <2>3, <4>1, RefreshMoves DEF RefreshMetadata
    <3>2. /\ pc[c] # "topicwait" /\ UNCHANGED group
          /\ \A b \in Brokers : conn[b] = "closed" => conn'[b] = "closed"
      BY <2>3 DEF RefreshMetadata, AfterRefresh, TypeOK
    <3> QED BY <2>1, <3>1, <3>2, MovesKeepOpenInv DEF Closes
  <2>4. CASE StartGroups(c)
    <3>1. UNCHANGED <<known, conn>> /\ \A b \in known : Closes(c, b)'
      BY <2>4 DEF StartGroups, clientVars, Closes, TypeOK
    <3>2. \A b \in Brokers : ~Closes(c, b)
      BY <2>4 DEF StartGroups, PhaseInv, PhaseOf, Closes
    <3> QED BY <2>1, <3>1, <3>2 DEF OpenInv, Closes
  <2>5. CASE End(c)
    <3>1. UNCHANGED <<known, conn>> /\ \A b \in Brokers : ~Closes(c, b)
      BY <2>5 DEF End, clientVars, PhaseInv, PhaseOf, Closes
    <3>2. pc[c] = "topicwait" => known = {}
      BY <2>5 DEF End
    <3> QED BY <2>1, <3>1, <3>2 DEF OpenInv, Closes
  <2> QED BY <1>4, <2>2, <2>3, <2>4, <2>5 DEF CollectOwn
<1> QED BY <1>1, <1>2, <1>3, <1>4 DEF Next, CollectStep, CollectOwn

THEOREM Invariance == Spec => []IInv
<1>1. Init => IInv
  <2>1. Init => PhaseInv
    BY DEF Init, PhaseInv, PhaseOf, NoOffsets
  <2>2. Init => OpenInv
    BY DEF Init, OpenInv
  <2> QED BY <2>1, <2>2, TypeInit DEF IInv
<1>2. IInv /\ [Next]_vars => IInv'
  BY TypeStep, PhaseStep, OpenStep DEF IInv
<1> QED BY <1>1, <1>2, PTL DEF Spec

\* Whatever was in progress, and whatever the brokers did, an exporter with no request in
\* progress has closed every connection (broker.Close, Client.GetOffset).
THEOREM ClosesAll == Spec => []NothingLeftOpen
<1>1. IInv => NothingLeftOpen
  BY DEF IInv, PhaseInv, PhaseOf, OpenInv, Closes, NothingLeftOpen
<1> QED BY <1>1, Invariance, PTL

\* From the first goroutine of a broker to the last, no other writes the offset map the
\* goroutines range over (Collect, wg.Wait).
THEOREM Frozen == Spec => OffsetsFrozen
<1> DEFINE Keeps == \A c \in Collects : Grouping(c) /\ Grouping(c)' => offset'[c] = offset[c]
<1>1. IInv /\ [Next]_vars => [Keeps]_vars
  <2> SUFFICES ASSUME TypeOK, PhaseInv, Next, NEW c \in Collects, Grouping(c), Grouping(c)'
               PROVE  offset'[c] = offset[c]
    BY DEF IInv
  <2>1. pc[c] = "groupwait"
    BY DEF Grouping, PhaseInv, PhaseOf
  <2>2. CASE Environment
    BY <2>2 DEF Environment, IntervalEnds, Produce, Commit, StopBroker, StartBroker, MoveGroup,
                collectVars
  <2>3. ASSUME NEW d \in Collects \ {c}, CollectStep(d) PROVE offset'[c] = offset[c]
    BY <2>3, OthersStay
  <2>4. ASSUME NEW t \in Topics, TopicStep(c, t) PROVE offset'[c] = offset[c]
    BY <2>1, <2>4, TopicPhase
  <2>5. ASSUME NEW b \in Brokers, GroupStep(c, b) PROVE offset'[c] = offset[c]
    BY <2>5, GroupPhase
  <2>6. CASE End(c)
    BY <2>6 DEF End, Grouping, TypeOK
  <2>7. CASE CollectOwn(c) /\ ~End(c)
    BY <2>7 DEF CollectOwn, Start, CheckRefresh, RefreshMetadata, StartTopics, StartGroups
  <2> QED BY <2>2, <2>3, <2>4, <2>5, <2>6, <2>7 DEF Next, CollectStep, CollectOwn
<1> HIDE DEF Keeps
<1>2. Spec => [][Keeps]_vars
  BY <1>1, Invariance, PTL DEF Spec
<1> QED BY <1>2 DEF Keeps, OffsetsFrozen

-----------------------------------------------------------------------------
(***************************************************************************)
(* What is remembered.                                                     *)
(***************************************************************************)
\* What a step adds to the reports of a Collect.
NewMembers(c) == {gb \in Groups \X Brokers : gb[1] \in Reports(c, gb[2])}
NewLags(c) == {g \in Groups : \E b \in Brokers : g \in Reports(c, b) /\ Fetched(b, g)}

LEMMA Remembered ==
  ASSUME Remember, NEW c \in Collects
  PROVE  /\ members'[c] = IF Ended(c) THEN {} ELSE members[c] \cup NewMembers(c)
         /\ lags'[c] = IF Ended(c) THEN {} ELSE lags[c] \cup NewLags(c)
         /\ Starts(c) => before'[c] = newest
         /\ Ended(c) => before'[c] = [tp \in TP |-> 0]
         /\ ~Starts(c) /\ ~Ended(c) => before'[c] = before[c]
         /\ quiet'[c] =>
              /\ pc'[c] # "idle"
              /\ quiet[c] \/ (Starts(c) /\ known = Brokers /\ up = Brokers)
              /\ \A d \in Collects \ {c} : pc'[d] = "idle"
              /\ UNCHANGED <<up, coordinator>>
<1>1. members'[c] = IF Ended(c) THEN {} ELSE members[c] \cup NewMembers(c)
  BY DEF Remember, NewMembers
<1>2. lags'[c] = IF Ended(c) THEN {} ELSE lags[c] \cup NewLags(c)
  BY DEF Remember, NewLags
<1>3. Starts(c) => ~Ended(c)
  BY DEF Starts, Ended
<1>4. before'[c] = CASE Starts(c) -> newest
                     [] Ended(c) -> [tp \in TP |-> 0]
                     [] OTHER -> before[c]
  BY DEF Remember
<1>5. /\ Starts(c) => before'[c] = newest
      /\ Ended(c) => before'[c] = [tp \in TP |-> 0]
      /\ ~Starts(c) /\ ~Ended(c) => before'[c] = before[c]
  BY <1>3, <1>4, Zenon
<1>6. quiet'[c] = /\ pc'[c] # "idle"
                  /\ quiet[c] \/ (Starts(c) /\ known = Brokers /\ up = Brokers)
                  /\ \A d \in Collects \ {c} : pc'[d] = "idle"
                  /\ UNCHANGED <<up, coordinator>>
  BY Zenon DEF Remember
<1> QED BY <1>1, <1>2, <1>5, <1>6

\* A Collect that a step starts checks the time next; one that a step ends was at its end.
LEMMA StartsOrEnds ==
  ASSUME TypeOK, PhaseInv, [Next]_vars, NEW c \in Collects
  PROVE  /\ Starts(c) => Start(c)
         /\ Ended(c) => End(c)
<1>1. CASE Environment \/ UNCHANGED vars
  <2>1. UNCHANGED pc
    BY <1>1 DEF Environment, IntervalEnds, Produce, Commit, StopBroker, StartBroker, MoveGroup,
                collectVars, vars
  <2> QED BY <2>1 DEF Starts, Ended
<1>2. ASSUME NEW d \in Collects \ {c}, CollectStep(d) PROVE ~Starts(c) /\ ~Ended(c)
  BY <1>2, OthersStay DEF Starts, Ended
<1>3. ASSUME NEW t \in Topics, TopicStep(c, t) PROVE ~Starts(c) /\ ~Ended(c)
  BY <1>3, TopicPhase DEF Starts, Ended
<1>4. ASSUME NEW b \in Brokers, GroupStep(c, b) PROVE ~Starts(c) /\ ~Ended(c)
  BY <1>4, GroupPhase DEF Starts, Ended
<1>5. CASE CheckRefresh(c) \/ RefreshMetadata(c) \/ StartTopics(c) \/ StartGroups(c)
  BY <1>5 DEF CheckRefresh, RefreshMetadata, StartTopics, StartGroups, Goto, Starts, Ended, TypeOK
<1>6. CASE Start(c)
  BY <1>6 DEF Start, Ended
<1>7. CASE End(c)
  BY <1>7 DEF End, Starts
<1> QED BY <1>1, <1>2, <1>3, <1>4, <1>5, <1>6, <1>7 DEF Next, CollectStep

\* The end of a partition moves up only, and an offset that is read is that end.
LEMMA OffsetMoves ==
  ASSUME TypeOK, [Next]_vars, NEW c \in Collects, NEW tp \in TP
  PROVE  /\ newest[tp] <= newest'[tp]
         /\ offset'[c][tp] \in {offset[c][tp], newest[tp], None}
<1>a. newest[tp] \in Nat
  BY DEF TypeOK, Offset
<1>1. CASE Environment \/ UNCHANGED vars
  <2>1. UNCHANGED offset
    BY <1>1 DEF Environment, IntervalEnds, Produce, Commit, StopBroker, StartBroker, MoveGroup,
                collectVars, vars
  <2>2. newest[tp] <= newest'[tp]
    <3>1. ASSUME NEW x \in TP, Produce(x) PROVE newest[tp] <= newest'[tp]
      BY <1>a, <3>1 DEF Produce, TypeOK
    <3>2. CASE UNCHANGED newest
      BY <1>a, <3>2
    <3> QED BY <1>1, <3>1, <3>2
            DEF Environment, IntervalEnds, Commit, StopBroker, StartBroker, MoveGroup,
                kafkaVars, vars
  <2> QED BY <2>1, <2>2
<1>2. ASSUME NEW d \in Collects, CollectStep(d)
      PROVE  UNCHANGED newest /\ offset'[c][tp] \in {offset[c][tp], newest[tp], None}
  <2>1. CASE d # c
    <3>1. offset'[c] = offset[c]
      BY <1>2, <2>1, OthersStay
    <3>2. UNCHANGED newest
      BY <1>2 DEF CollectStep, Start, CheckRefresh, RefreshMetadata, StartTopics, StartGroups,
                  End, TopicStep, FindLeader, OffsetLeader, GetOffset, GetOffsetFails, GroupStep,
                  OpenBroker, ListGroups, DescribeGroups, FetchOffset, CloseBroker, kafkaVars
    <3> QED BY <3>1, <3>2
  <2>2. ASSUME NEW t \in Topics, GetOffset(c, t)
        PROVE  UNCHANGED newest /\ offset'[c][tp] \in {offset[c][tp], newest[tp], None}
    BY <2>2, LeaderType DEF GetOffset, Recorded, kafkaVars, TypeOK
  <2>3. CASE End(c)
    BY <2>3 DEF End, NoOffsets, kafkaVars, TypeOK
  <2>4. CASE UNCHANGED <<newest, offset>>
    BY <2>4
  <2>5. d = c => UNCHANGED <<newest, offset>> \/ End(c) \/ \E t \in Topics : GetOffset(c, t)
    BY <1>2 DEF CollectStep, Start, CheckRefresh, RefreshMetadata, StartTopics, StartGroups,
                TopicStep, FindLeader, OffsetLeader, GetOffsetFails, GroupStep,
                OpenBroker, ListGroups, DescribeGroups, FetchOffset, CloseBroker, kafkaVars
  <2> QED BY <2>1, <2>2, <2>3, <2>4, <2>5
<1> QED BY <1>a, <1>1, <1>2 DEF Next

LEMMA FreshStep == IInv /\ IInv' /\ FreshInv /\ [Next]_vars /\ Remember => FreshInv'
<1> SUFFICES ASSUME TypeOK, PhaseInv, TypeOK', PhaseInv', FreshInv, [Next]_vars, Remember,
                    NEW c \in Collects, NEW tp \in TP
             PROVE  /\ before'[c][tp] \in Nat
                    /\ before'[c][tp] <= newest'[tp]
                    /\ offset'[c][tp] # None =>
                         before'[c][tp] <= offset'[c][tp] /\ offset'[c][tp] <= newest'[tp]
  BY DEF IInv, FreshInv
<1>1. newest[tp] \in Nat /\ newest'[tp] \in Nat /\ newest[tp] <= newest'[tp]
  BY OffsetMoves DEF TypeOK, Offset
<1>2. CASE Starts(c) \/ Ended(c)
  <2>1. pc'[c] \in {"check", "idle"}
    BY <1>2, StartsOrEnds DEF Start, Goto, Ended, TypeOK
  <2>2. offset'[c][tp] = None
    BY <2>1 DEF PhaseInv, PhaseOf, NoOffsets
  <2>3. before'[c] = newest \/ before'[c] = [x \in TP |-> 0]
    BY <1>2, Remembered
  <2>4. before'[c][tp] \in {newest[tp], 0}
    BY <2>3
  <2> QED BY <1>1, <2>2, <2>4
<1>3. CASE ~Starts(c) /\ ~Ended(c)
  <2>1. before'[c] = before[c]
    BY <1>3, Remembered
  <2>2. /\ before[c][tp] \in Nat /\ before[c][tp] <= newest[tp]
        /\ offset[c][tp] # None => before[c][tp] <= offset[c][tp] /\ offset[c][tp] <= newest[tp]
        /\ offset[c][tp] # None => offset[c][tp] \in Nat
    BY DEF FreshInv, TypeOK, Offset
  <2>3. offset'[c][tp] \in {offset[c][tp], newest[tp], None}
    BY OffsetMoves
  <2> QED BY <1>1, <2>1, <2>2, <2>3
<1> QED BY <1>2, <1>3

LEMMA ReportsStep == IInv /\ ReportsInv /\ [Next]_vars /\ Remember => ReportsInv'
<1> SUFFICES ASSUME TypeOK, PhaseInv, ReportsInv, [Next]_vars, Remember, NEW c \in Collects
             PROVE  /\ members'[c] \subseteq Groups \X Brokers /\ lags'[c] \subseteq Groups
                    /\ pc'[c] = "idle" => members'[c] = {} /\ lags'[c] = {}
  BY DEF IInv, ReportsInv
<1>1. members'[c] \subseteq Groups \X Brokers /\ lags'[c] \subseteq Groups
  BY Remembered DEF ReportsInv, NewMembers, NewLags
<1>2. ASSUME pc'[c] = "idle", ~Ended(c) PROVE members'[c] = {} /\ lags'[c] = {}
  <2>1. pc[c] = "idle"
    BY <1>2 DEF Ended
  <2>2. NewMembers(c) = {} /\ NewLags(c) = {}
    BY <2>1 DEF NewMembers, NewLags, Reports, PhaseInv, PhaseOf
  <2> QED BY <1>2, <2>1, <2>2, Remembered DEF ReportsInv
<1> QED BY <1>1, <1>2, Remembered

-----------------------------------------------------------------------------
(***************************************************************************)
(* A Collect that nothing disturbs.                                        *)
(***************************************************************************)
\* It reports nothing but the groups of which it has just fetched the offsets.
LEMMA NothingReported ==
  ASSUME NEW c \in Collects,
         \A b \in Brokers : group[c][b] = "fetch" => groupIds'[c][b] = groupIds[c][b]
  PROVE  NewMembers(c) = {} /\ NewLags(c) = {}
<1>1. \A b \in Brokers : Reports(c, b) = {}
  BY DEF Reports
<1> QED BY <1>1 DEF NewMembers, NewLags

\* When it begins, no connection is left from before.
LEMMA QuietStart ==
  ASSUME IInv, ReportsInv, Remember, NEW c \in Collects, Start(c), quiet'[c], ~quiet[c]
  PROVE  (Undisturbed(c) /\ TopicsRead(c) /\ GroupsTold(c))'
<1>a. TypeOK /\ PhaseInv /\ OpenInv
  BY DEF IInv
<1>1. /\ pc[c] = "idle" /\ pc'[c] = "check" /\ UNCHANGED <<clientVars, kafkaVars>>
      /\ UNCHANGED <<topic, part, group, groupIds, offset>>
      /\ \A d \in Collects \ {c} : pc'[d] = pc[d]
  BY <1>a DEF Start, Goto, TypeOK
<1>2. known = Brokers /\ up = Brokers /\ \A d \in Collects \ {c} : pc'[d] = "idle"
  BY Remembered
<1>3. \A b \in Brokers : conn[b] = "closed"
  <2>1. \A d \in Collects : pc[d] = "idle"
    BY <1>1, <1>2
  <2> QED BY <1>a, <2>1 DEF PhaseInv, PhaseOf, OpenInv, Closes
<1>4. Undisturbed(c)'
  BY <1>1, <1>2, <1>3 DEF Undisturbed, clientVars, kafkaVars
<1>5. TopicsRead(c)'
  <2>1. \A t \in Topics : topic'[c][t] = "off" /\ part'[c][t] = 1
    BY <1>a, <1>1 DEF PhaseInv, PhaseOf
  <2>2. \A t \in Topics, p \in Partition : ~Behind(c, t, p)'
    BY <2>1, KafkaAssumption DEF Behind, Partition
  <2> QED BY <2>1, <2>2 DEF TopicsRead
<1>6. GroupsTold(c)'
  <2>1. \A b \in Brokers : group'[c][b] = "off"
    BY <1>a, <1>1 DEF PhaseInv, PhaseOf
  <2>2. members'[c] = {} /\ lags'[c] = {}
    <3>1. NewMembers(c) = {} /\ NewLags(c) = {}
      BY <1>1, NothingReported
    <3>2. ~Ended(c) /\ members[c] = {} /\ lags[c] = {}
      BY <1>1 DEF Ended, ReportsInv
    <3> QED BY <3>1, <3>2, Remembered
  <2> QED BY <2>1, <2>2 DEF GroupsTold, Told
<1> QED BY <1>4, <1>5, <1>6

\* While it goes on nobody else takes a step but those who produce, who commit and the time.
LEMMA QuietActor ==
  ASSUME TypeOK, PhaseInv, [Next]_vars, Remember, NEW c \in Collects, quiet'[c], Undisturbed(c)
  PROVE  CollectStep(c) \/ UNCHANGED <<pc, topic, part, offset, group, groupIds, known, conn>>
<1>a. /\ \A d \in Collects \ {c} : pc[d] = "idle" /\ pc'[d] = "idle"
      /\ UNCHANGED <<up, coordinator>>
  BY Remembered DEF Undisturbed
<1>1. ASSUME NEW d \in Collects \ {c}, CollectStep(d) PROVE FALSE
  <2>1. ~CollectOwn(d)
    BY <1>a DEF CollectOwn, Start, CheckRefresh, RefreshMetadata, StartTopics, StartGroups, End,
                Goto, TypeOK
  <2>2. \A t \in Topics : ~TopicStep(d, t)
    BY <1>a, TopicPhase
  <2>3. \A b \in Brokers : ~GroupStep(d, b)
    BY <1>a, GroupPhase
  <2> QED BY <1>1, <2>1, <2>2, <2>3 DEF CollectStep, CollectOwn
<1>2. CASE Environment
  <2>1. \A b \in Brokers : ~StopBroker(b) /\ ~StartBroker(b)
    BY <1>a DEF StopBroker, StartBroker
  <2>2. \A b \in Brokers, g \in Groups : ~MoveGroup(g, b)
    BY <1>a DEF MoveGroup, TypeOK
  <2> QED BY <1>2, <2>1, <2>2
          DEF Environment, IntervalEnds, Produce, Commit, collectVars, clientVars
<1>3. CASE UNCHANGED vars
  BY <1>3 DEF vars, collectVars, clientVars
<1> QED BY <1>1, <1>2, <1>3 DEF Next

\* It loses no broker and no connection breaks.
LEMMA QuietClient ==
  ASSUME TypeOK, PhaseInv, [Next]_vars, Remember, NEW c \in Collects, quiet'[c], Undisturbed(c)
  PROVE  Undisturbed(c)'
<1>a. /\ pc'[c] # "idle" /\ \A d \in Collects \ {c} : pc'[d] = "idle"
      /\ up = Brokers /\ known = Brokers /\ up' = Brokers /\ UNCHANGED coordinator
      /\ \A b \in Brokers : conn[b] # "broken"
  BY Remembered DEF Undisturbed
<1>1. known' = Brokers /\ \A b \in Brokers : conn'[b] # "broken"
  <2>1. CASE UNCHANGED <<known, conn>>
    BY <1>a, <2>1
  <2>2. CASE known' = Refreshed /\ conn' = AfterRefresh(conn)
    BY <1>a, <2>2 DEF Refreshed, AfterRefresh
  <2>3. ASSUME NEW b \in Brokers, UNCHANGED known, conn' = Opened(b, conn) \/ conn' = Closed(b, conn)
        PROVE  known' = Brokers /\ \A x \in Brokers : conn'[x] # "broken"
    BY <1>a, <2>3 DEF Opened, Closed, TypeOK
  <2>4. ASSUME NEW t \in Topics, TopicStep(c, t)
        PROVE  known' = Brokers /\ \A x \in Brokers : conn'[x] # "broken"
    <3>1. LeaderHere(c, t) \in Brokers
      BY LeaderType
    <3>2. CASE FindLeader(c, t) \/ OffsetLeader(c, t)
      BY <1>a, <2>3, <3>1, <3>2 DEF FindLeader, OffsetLeader, AskLeader
    <3>3. CASE GetOffset(c, t)
      BY <2>1, <3>3 DEF GetOffset, clientVars
    <3>4. CASE GetOffsetFails(c, t)
      <4>1. Refreshed = Brokers /\ AfterRefresh(CloseFailed(c, t)) = CloseFailed(c, t)
        BY <1>a, <3>1 DEF Refreshed, AfterRefresh
      <4> QED BY <1>a, <2>2, <2>3, <3>1, <3>4, <4>1 DEF GetOffsetFails, CloseFailed
    <3> QED BY <2>4, <3>2, <3>3, <3>4 DEF TopicStep
  <2>5. ASSUME NEW b \in Brokers, GroupStep(c, b)
        PROVE  known' = Brokers /\ \A x \in Brokers : conn'[x] # "broken"
    BY <2>1, <2>3, <2>5 DEF GroupStep, OpenBroker, ListGroups, DescribeGroups, FetchOffset,
                            CloseBroker, CloseDeferred, clientVars
  <2>6. CASE CollectOwn(c)
    BY <2>1, <2>2, <2>6 DEF CollectOwn, Start, CheckRefresh, RefreshMetadata, StartTopics,
                            StartGroups, End, clientVars
  <2> QED BY <2>1, <2>4, <2>5, <2>6, QuietActor DEF CollectStep, CollectOwn
<1> QED BY <1>a, <1>1 DEF Undisturbed

\* What the topics have read stays read, and they go on with an open connection.
LEMMA QuietTopics ==
  ASSUME TypeOK, PhaseInv, [Next]_vars, Remember, NEW c \in Collects, quiet'[c],
         Undisturbed(c), TopicsRead(c), GroupsTold(c), pc'[c] # "idle"
  PROVE  TopicsRead(c)'
<1>a. /\ up = Brokers /\ known = Brokers /\ \A b \in Brokers : conn[b] # "broken"
  BY DEF Undisturbed
<1>1. CASE UNCHANGED <<pc, topic, part, offset, group, groupIds, known, conn>>
  BY <1>1 DEF TopicsRead, Behind, LeaderHere
<1>2. ASSUME NEW t \in Topics, TopicStep(c, t) PROVE TopicsRead(c)'
  <2> DEFINE l == LeaderHere(c, t)
  <2>a. /\ l \in Brokers /\ <<t, part[c][t]>> \in TP
        /\ part[c][t] \in Partition /\ part[c][t] \in Nat /\ part[c][t] <= NumPartitions
    BY LeaderType, KafkaAssumption DEF TypeOK, Partition
  <2>b. \A s \in Topics \ {t} : topic'[c][s] = topic[c][s] /\ part'[c][s] = part[c][s]
    BY <1>2, TopicPhase
  <2> DEFINE Read(s) ==
        /\ topic'[c][s] \in {"newest", "oldest"} => conn'[LeaderHere(c, s)'] = "open"
        /\ topic'[c][s] = "done" => part'[c][s] = NumPartitions
        /\ \A p \in Partition : Behind(c, s, p)' => offset'[c][<<s, p>>] # None
  <2>c. ASSUME \A b \in Brokers : conn[b] = "open" => conn'[b] = "open",
               \A p \in TP : offset[c][p] # None => offset'[c][p] # None,
               NEW s \in Topics \ {t}
        PROVE  Read(s)
    <3>1. LeaderHere(c, s)' = LeaderHere(c, s) /\ LeaderHere(c, s) \in Brokers
      BY <2>b, LeaderType DEF LeaderHere
    <3>2. \A p \in Partition : Behind(c, s, p)' = Behind(c, s, p) /\ <<s, p>> \in TP
      BY <2>b DEF Behind, TP
    <3> QED BY <2>b, <2>c, <3>1, <3>2 DEF TopicsRead
  <2>1. CASE FindLeader(c, t) \/ OffsetLeader(c, t)
    <3>1. conn' = Opened(l, conn) /\ UNCHANGED <<offset, part>>
      BY <1>a, <2>a, <2>1 DEF FindLeader, OffsetLeader, AskLeader
    <3>2. conn'[l] = "open" /\ \A b \in Brokers : conn[b] = "open" => conn'[b] = "open"
      BY <1>a, <2>a, <3>1 DEF Opened, TypeOK
    <3>3. LeaderHere(c, t)' = l
      BY <3>1 DEF LeaderHere
    <3>4. /\ topic'[c][t] # "done"
          /\ topic'[c][t] \in {"oldestLeader", "oldest", "done"} => topic[c][t] = "oldestLeader"
      BY <2>1 DEF FindLeader, OffsetLeader, TopicGoto, TypeOK
    <3>5. Read(t)
      BY <3>1, <3>2, <3>3, <3>4 DEF TopicsRead, Behind
    <3>6. \A s \in Topics \ {t} : Read(s)
      BY <2>c, <3>1, <3>2
    <3> QED BY <3>5, <3>6 DEF TopicsRead
  <2>2. CASE GetOffset(c, t)
    <3>1. UNCHANGED conn /\ Finish(c, t)
      BY <2>2 DEF GetOffset, clientVars
    <3>2. \A p \in TP : offset[c][p] # None => offset'[c][p] # None
      <4>1. newest[<<t, part[c][t]>>] # None
        BY <2>a, KafkaAssumption DEF TypeOK, Offset
      <4>2. offset \in [Collects -> [TP -> Offset \cup {None}]]
        BY DEF TypeOK
      <4>3. offset' = [offset EXCEPT ![c][<<t, part[c][t]>>] =
                         IF topic[c][t] = "newest" THEN newest[<<t, part[c][t]>>] ELSE @]
        BY <2>2 DEF GetOffset, Recorded
      <4> QED BY <2>a, <4>1, <4>2, <4>3
    <3>3. \A s \in Topics \ {t} : Read(s)
      BY <2>c, <3>1, <3>2
    <3>4. CASE topic[c][t] = "newest"
      <4>1. offset'[c][<<t, part[c][t]>>] # None
        BY <2>2, <2>a, <3>4, KafkaAssumption DEF GetOffset, Recorded, TypeOK, Offset
      <4>2. After(c, t) = "oldestLeader"
        <5>1. topic[c][t] \in {"newestLeader", "newest"}
          BY <3>4
        <5> QED BY <5>1 DEF After
      <4>3. topic'[c][t] = "oldestLeader" /\ part'[c][t] = part[c][t]
        BY <3>1, <4>2 DEF Finish, TopicGoto, TypeOK
      <4>4. Read(t)
        <5>1. ASSUME NEW p \in Partition, Behind(c, t, p)' PROVE offset'[c][<<t, p>>] # None
          <6>1. <<t, p>> \in TP
            BY DEF TP
          <6>2. p < part[c][t] \/ p = part[c][t]
            BY <4>3, <5>1 DEF Behind
          <6>3. CASE p < part[c][t]
            BY <3>2, <6>1, <6>3 DEF TopicsRead, Behind
          <6> QED BY <4>1, <6>2, <6>3
        <5> QED BY <4>3, <5>1
      <4> QED BY <3>3, <4>4 DEF TopicsRead
    <3>5. CASE topic[c][t] = "oldest"
      <4>1. \A p \in Partition : p <= part[c][t] => offset'[c][<<t, p>>] # None
        <5>1. ASSUME NEW p \in Partition, p <= part[c][t] PROVE offset'[c][<<t, p>>] # None
          <6>1. <<t, p>> \in TP
            BY DEF TP
          <6>2. Behind(c, t, p)
            BY <2>a, <3>5, <5>1 DEF Behind, Partition
          <6> QED BY <3>2, <6>1, <6>2 DEF TopicsRead
        <5> QED BY <5>1
      <4>2. CASE part[c][t] < NumPartitions
        <5>1. After(c, t) = "leader"
          BY <3>5, <4>2 DEF After, MorePartitions
        <5>2. topic'[c][t] = "leader" /\ part'[c][t] = part[c][t] + 1
          BY <3>1, <5>1 DEF Finish, TopicGoto, TypeOK
        <5>3. \A p \in Partition : Behind(c, t, p)' => p <= part[c][t]
          BY <2>a, <5>2 DEF Behind, Partition
        <5>4. Read(t)
          BY <4>1, <5>2, <5>3
        <5> QED BY <3>3, <5>4 DEF TopicsRead
      <4>3. CASE ~(part[c][t] < NumPartitions)
        <5>1. After(c, t) = "done"
          BY <3>5, <4>3 DEF After, MorePartitions
        <5>2. topic'[c][t] = "done" /\ part'[c][t] = part[c][t] /\ part[c][t] = NumPartitions
          <6>1. part[c][t] = NumPartitions
            BY <2>a, <4>3, KafkaAssumption
          <6> QED BY <3>1, <5>1, <6>1 DEF Finish, TopicGoto, TypeOK
        <5>3. \A p \in Partition : Behind(c, t, p)' => p <= part[c][t]
          BY <2>a, <5>2 DEF Behind, Partition
        <5>4. Read(t)
          BY <4>1, <5>2, <5>3
        <5> QED BY <3>3, <5>4 DEF TopicsRead
      <4> QED BY <4>2, <4>3
    <3> QED BY <2>2, <3>4, <3>5 DEF GetOffset
  <2>3. CASE GetOffsetFails(c, t)
    <3>1. LeaderFound(l)
      BY <1>a, <2>a DEF LeaderFound
    <3>2. topic[c][t] \in {"newest", "oldest"} => Answers(l)
      BY DEF TopicsRead, Answers
    <3> QED BY <2>3, <3>1, <3>2 DEF GetOffsetFails
  <2> QED BY <1>2, <2>1, <2>2, <2>3 DEF TopicStep
<1>3. ASSUME NEW b \in Brokers, GroupStep(c, b) PROVE TopicsRead(c)'
  <2>1. UNCHANGED <<topic, part, offset>> /\ \A t \in Topics : topic[c][t] = "done"
    BY <1>3, GroupPhase DEF PhaseInv, PhaseOf, TopicsDone
  <2> QED BY <2>1 DEF TopicsRead, Behind
<1>4. CASE Start(c) \/ CheckRefresh(c) \/ RefreshMetadata(c)
  <2>1. UNCHANGED <<topic, part, offset>> /\ \A t \in Topics : topic[c][t] = "off"
    BY <1>4 DEF Start, CheckRefresh, RefreshMetadata, PhaseInv, PhaseOf
  <2> QED BY <2>1 DEF TopicsRead, Behind
<1>5. CASE StartTopics(c)
  <2>1. /\ UNCHANGED <<part, offset>>
        /\ \A t \in Topics : topic'[c][t] = "leader" /\ topic[c][t] = "off"
    <3>1. topic' = [topic EXCEPT ![c] = [t \in Topics |-> "leader"]]
      BY <1>5 DEF StartTopics
    <3>2. topic'[c] = [t \in Topics |-> "leader"]
      BY <3>1 DEF TypeOK
    <3>3. UNCHANGED <<part, offset>> /\ \A t \in Topics : topic[c][t] = "off"
      BY <1>5 DEF StartTopics, PhaseInv, PhaseOf
    <3> QED BY <3>2, <3>3
  <2> QED BY <2>1 DEF TopicsRead, Behind
<1>6. CASE StartGroups(c)
  <2>1. UNCHANGED <<topic, part, offset, conn>>
    BY <1>6 DEF StartGroups, clientVars
  <2> QED BY <2>1 DEF TopicsRead, Behind, LeaderHere
<1>7. ~End(c)
  BY DEF End, Goto, TypeOK
<1> QED BY <1>1, <1>2, <1>3, <1>4, <1>5, <1>6, <1>7, QuietActor DEF CollectStep

\* Each of its brokers reports the groups it coordinates, one after the other.
LEMMA QuietGroups ==
  ASSUME TypeOK, PhaseInv, [Next]_vars, Remember, NEW c \in Collects, quiet'[c],
         Undisturbed(c), GroupsTold(c), pc'[c] # "idle", pc[c] # "idle"
  PROVE  GroupsTold(c)'
<1>a. /\ up = Brokers /\ \A b \in Brokers : conn[b] # "broken"
      /\ UNCHANGED coordinator
  BY Remembered DEF Undisturbed
<1>b. /\ members'[c] = members[c] \cup NewMembers(c)
      /\ lags'[c] = lags[c] \cup NewLags(c)
  BY Remembered DEF Ended
<1>c. \A b \in Brokers : Coordinated(b)' = Coordinated(b)
  BY <1>a DEF Coordinated
<1>1. ASSUME UNCHANGED groupIds,
             \A b \in Brokers : Closes(c, b) => conn'[b] = conn[b],
             \A b \in Brokers :
               group'[c][b] = group[c][b] \/ (group[c][b] = "off" /\ group'[c][b] = "open")
      PROVE  GroupsTold(c)'
  <2>1. members'[c] = members[c] /\ lags'[c] = lags[c]
    BY <1>b, <1>1, NothingReported
  <2>2. \A b \in Brokers : Told(c, b)' = Told(c, b)
    BY <1>c, <1>1 DEF Told
  <2> QED BY <1>c, <1>1, <2>1, <2>2 DEF GroupsTold, Closes
<1>2. CASE UNCHANGED <<pc, topic, part, offset, group, groupIds, known, conn>>
  <2>1. /\ groupIds' = groupIds
        /\ \A b \in Brokers : group'[c][b] = group[c][b] /\ conn'[b] = conn[b]
    BY <1>2
  <2> QED BY <1>1, <2>1
<1>3. ASSUME NEW t \in Topics, TopicStep(c, t) PROVE GroupsTold(c)'
  <2>1. /\ groupIds' = groupIds
        /\ \A b \in Brokers : group'[c][b] = group[c][b] /\ ~Closes(c, b)
    BY <1>3, TopicPhase DEF PhaseInv, PhaseOf, Closes
  <2> QED BY <1>1, <2>1
<1>4. CASE Start(c) \/ CheckRefresh(c) \/ RefreshMetadata(c) \/ StartTopics(c)
  <2>1. /\ groupIds' = groupIds
        /\ \A b \in Brokers : group'[c][b] = group[c][b] /\ ~Closes(c, b)
    BY <1>4 DEF Start, CheckRefresh, RefreshMetadata, StartTopics, PhaseInv, PhaseOf, Closes
  <2> QED BY <1>1, <2>1
<1>5. CASE StartGroups(c)
  <2>1. /\ UNCHANGED <<groupIds, conn>>
        /\ \A b \in Brokers : group[c][b] = "off"
        /\ group' = [group EXCEPT ![c] = [b \in Brokers |-> IF b \in known THEN "open" ELSE "done"]]
    BY <1>5 DEF StartGroups, clientVars, PhaseInv, PhaseOf
  <2>2. \A b \in Brokers : group'[c][b] = "open"
    BY <2>1 DEF Undisturbed, TypeOK
  <2> QED BY <1>1, <2>1, <2>2
<1>6. ASSUME NEW b \in Brokers, GroupStep(c, b) PROVE GroupsTold(c)'
  <2> DEFINE Settled(a) ==
        /\ group'[c][a] # "close"
        /\ group'[c][a] \in {"list", "describe", "fetch"} => conn'[a] = "open"
        /\ group'[c][a] = "describe" => groupIds'[c][a] = Coordinated(a)
        /\ group'[c][a] = "fetch" => groupIds'[c][a] \subseteq Coordinated(a)
        /\ \A g \in Groups : <<g, a>> \in members'[c] <=> g \in Told(c, a)'
        /\ \A g \in Coordinated(a) : g \in lags'[c] <=> g \in Told(c, a)'
  <2>a. /\ group \in [Collects -> [Brokers -> GroupPC]] /\ conn \in [Brokers -> {"closed", "open", "broken"}]
        /\ groupIds \in [Collects -> [Brokers -> SUBSET Groups]]
    BY DEF TypeOK
  <2>b. \A a \in Brokers \ {b} : /\ group'[c][a] = group[c][a] /\ groupIds'[c][a] = groupIds[c][a]
                                 /\ conn'[a] = conn[a]
    BY <1>6, <2>a, GroupPhase
       DEF GroupStep, OpenBroker, ListGroups, DescribeGroups, FetchOffset, CloseBroker,
           CloseDeferred, Closed, Opened, clientVars
  <2>c. \A a \in Brokers \ {b} : Reports(c, a) = {}
    BY <2>b DEF Reports
  <2>d. /\ NewMembers(c) = {gb \in Groups \X {b} : gb[1] \in Reports(c, b)}
        /\ NewLags(c) = {g \in Groups : g \in Reports(c, b) /\ Fetched(b, g)}
    BY <2>c DEF NewMembers, NewLags
  <2>e. NewLags(c) \subseteq Coordinated(b)
    BY <2>d DEF Fetched, Coordinated
  <2>f. \A a \in Brokers \ {b} : Coordinated(a) \cap Coordinated(b) = {}
    BY DEF Coordinated
  <2>1. ASSUME NEW a \in Brokers \ {b} PROVE Settled(a)
    <3>1. Told(c, a)' = Told(c, a)
      BY <1>c, <2>b DEF Told
    <3>2. \A g \in Groups : <<g, a>> \in members'[c] <=> <<g, a>> \in members[c]
      BY <1>b, <2>d
    <3>3. \A g \in Coordinated(a) : g \in lags'[c] <=> g \in lags[c]
      BY <1>b, <2>e, <2>f
    <3> QED BY <2>b, <3>1, <3>2, <3>3 DEF GroupsTold
  <2>2. ASSUME Reports(c, b) = {}, Told(c, b)' = Told(c, b)
        PROVE  /\ \A g \in Groups : <<g, b>> \in members'[c] <=> g \in Told(c, b)'
               /\ \A g \in Coordinated(b) : g \in lags'[c] <=> g \in Told(c, b)'
    BY <1>b, <2>2, <2>d DEF GroupsTold
  <2>3. CASE OpenBroker(c, b)
    <3>1. /\ group[c][b] = "open" /\ group'[c][b] = "list" /\ conn'[b] = "open"
      BY <1>a, <2>3, <2>a DEF OpenBroker, OpenResult, Tolerated, GroupGoto, Opened
    <3>2. Told(c, b)' = Told(c, b) /\ Reports(c, b) = {}
      BY <3>1 DEF Told, Reports
    <3>3. Settled(b)
      BY <2>2, <3>1, <3>2
    <3> QED BY <1>c, <2>1, <3>3 DEF GroupsTold
  <2>4. CASE ListGroups(c, b)
    <3>1. conn[b] = "open" /\ group[c][b] = "list"
      BY <2>4 DEF ListGroups, GroupsTold
    <3>2. /\ groupIds' = [groupIds EXCEPT ![c][b] = Coordinated(b)]
          /\ group' = [group EXCEPT ![c][b] = "describe"] /\ UNCHANGED conn
      BY <2>4, <3>1 DEF ListGroups, Answers, Coordinated, GroupGoto, clientVars
    <3>3. group'[c][b] = "describe" /\ groupIds'[c][b] = Coordinated(b) /\ conn'[b] = "open"
      BY <2>a, <3>1, <3>2
    <3>4. Told(c, b)' = Told(c, b) /\ Reports(c, b) = {}
      BY <3>1, <3>3 DEF Told, Reports
    <3> QED BY <2>1, <2>2, <3>3, <3>4, <1>c DEF GroupsTold
  <2>5. CASE DescribeGroups(c, b)
    <3>1. /\ conn[b] = "open" /\ group[c][b] = "describe" /\ UNCHANGED <<conn, groupIds>>
          /\ groupIds[c][b] = Coordinated(b)
      BY <2>5 DEF DescribeGroups, GroupsTold, clientVars
    <3>2. group'[c][b] = "fetch"
      BY <2>a, <2>5, <3>1 DEF DescribeGroups, Answers, GroupGoto
    <3>3. Told(c, b)' = Told(c, b) /\ Reports(c, b) = {}
      BY <1>c, <3>1, <3>2 DEF Told, Reports
    <3> QED BY <2>1, <2>2, <3>1, <3>2, <3>3, <1>c DEF GroupsTold
  <2>6. ASSUME NEW g \in Groups, FetchOffset(c, b, g) PROVE GroupsTold(c)'
    <3>1. /\ conn[b] = "open" /\ group[c][b] = "fetch" /\ g \in groupIds[c][b]
          /\ UNCHANGED <<conn, group>> /\ groupIds[c][b] \subseteq Coordinated(b)
      BY <2>6 DEF FetchOffset, GroupsTold, clientVars
    <3>2. groupIds'[c][b] = groupIds[c][b] \ {g}
      BY <2>a, <2>6 DEF FetchOffset
    <3>3. Reports(c, b) = {g} /\ g \in Coordinated(b) /\ Fetched(b, g)
      BY <3>1, <3>2 DEF Reports, Coordinated, Fetched, Answers
    <3>4. Told(c, b)' = Told(c, b) \cup {g}
      BY <1>c, <3>1, <3>2, <3>3 DEF Told
    <3>5. NewMembers(c) = {<<g, b>>} /\ NewLags(c) = {g}
      BY <2>d, <3>3
    <3>6. \A x \in Groups : <<x, b>> \in members'[c] <=> x \in Told(c, b)'
      BY <1>b, <3>4, <3>5 DEF GroupsTold
    <3>7. \A x \in Coordinated(b) : x \in lags'[c] <=> x \in Told(c, b)'
      BY <1>b, <3>4, <3>5 DEF GroupsTold
    <3>8. Settled(b)
      BY <3>1, <3>2, <3>6, <3>7
    <3> QED BY <1>c, <2>1, <3>8 DEF GroupsTold
  <2>7. CASE CloseBroker(c, b)
    <3>1. group[c][b] = "fetch" /\ groupIds[c][b] = {}
      BY <2>7 DEF CloseBroker, GroupsTold
    <3>2. group'[c][b] = "done" /\ groupIds'[c][b] = {}
      BY <2>a, <2>7 DEF CloseBroker, GroupGoto
    <3>3. Told(c, b)' = Told(c, b) /\ Reports(c, b) = {}
      BY <1>c, <3>1, <3>2 DEF Told, Reports
    <3>4. Settled(b)
      BY <2>2, <3>2, <3>3
    <3> QED BY <1>c, <2>1, <3>4 DEF GroupsTold
  <2> QED BY <1>6, <2>3, <2>4, <2>5, <2>6, <2>7 DEF GroupStep
<1>7. ~End(c)
  BY DEF End, Goto, TypeOK
<1> QED BY <1>2, <1>3, <1>4, <1>5, <1>6, <1>7, QuietActor DEF CollectStep

LEMMA QuietStep ==
  IInv /\ ReportsInv /\ QuietInv /\ [Next]_vars /\ Remember => QuietInv'
<1> SUFFICES ASSUME IInv, ReportsInv, QuietInv, [Next]_vars, Remember,
                    NEW c \in Collects, quiet'[c]
             PROVE  (Undisturbed(c) /\ TopicsRead(c) /\ GroupsTold(c))'
  BY DEF QuietInv
<1>1. CASE quiet[c]
  <2>1. Undisturbed(c) /\ TopicsRead(c) /\ GroupsTold(c)
    BY <1>1 DEF QuietInv
  <2>2. pc[c] # "idle" /\ pc'[c] # "idle"
    BY <2>1, Remembered DEF Undisturbed
  <2> QED BY <2>1, <2>2, QuietClient, QuietTopics, QuietGroups DEF IInv
<1>2. CASE ~quiet[c]
  <2>1. Start(c)
    BY <1>2, Remembered, StartsOrEnds DEF IInv
  <2> QED BY <1>2, <2>1, QuietStart
<1> QED BY <1>1, <1>2

LEMMA HistoryInvariance == HSpec => []HInv
<1>1. HInit => HInv
  <2>1. Init => IInv
    BY TypeInit DEF IInv, Init, PhaseInv, PhaseOf, NoOffsets, OpenInv
  <2>2. HInit => FreshInv /\ ReportsInv /\ QuietInv
    BY DEF HInit, Init, NoOffsets, FreshInv, ReportsInv, QuietInv
  <2> QED BY <2>1, <2>2 DEF HInit, HInv
<1>2. HInv /\ [HNext]_hvars => HInv'
  <2> SUFFICES ASSUME HInv, [HNext]_hvars PROVE HInv'
    OBVIOUS
  <2>1. IInv'
    BY TypeStep, PhaseStep, OpenStep DEF HInv, IInv, HNext, hvars
  <2>2. CASE HNext
    BY <2>1, <2>2, FreshStep, ReportsStep, QuietStep DEF HInv, HNext
  <2>3. CASE UNCHANGED hvars
    BY <2>1, <2>3 DEF HInv, FreshInv, ReportsInv, QuietInv, Undisturbed, TopicsRead, Behind,
                      LeaderHere, GroupsTold, Told, Coordinated, hvars, vars, collectVars,
                      clientVars, kafkaVars
  <2> QED BY <2>2, <2>3
<1> QED BY <1>1, <1>2, PTL DEF HSpec

\* A lag is never computed from an end of the partition that lies before the start of the
\* Collect, nor from one that is not yet (Collect, offset).
THEOREM Fresh == HSpec => []LagFresh
<1>1. HInv => LagFresh
  <2> SUFFICES ASSUME TypeOK, FreshInv, NEW c \in Collects, NEW g \in Groups, NEW tp \in TP,
                      offset[c][tp] # None, committed[g][tp] # NoOffset
               PROVE  /\ before[c][tp] - committed[g][tp] <= Lag(c, g, tp)
                      /\ Lag(c, g, tp) <= newest[tp] - committed[g][tp]
    BY DEF HInv, IInv, LagFresh
  <2>1. /\ committed[g][tp] \in Int /\ offset[c][tp] \in Int /\ newest[tp] \in Int
        /\ before[c][tp] \in Int
        /\ before[c][tp] <= offset[c][tp] /\ offset[c][tp] <= newest[tp]
    BY DEF TypeOK, FreshInv, Offset
  <2> QED BY <2>1 DEF Lag
<1> QED BY <1>1, HistoryInvariance, PTL

\* A Collect that no other one, no fault and no new coordinator disturbs sends all there is:
\* of each group its members, once, and its lags, from the offsets of every partition.
THEOREM Complete == HSpec => QuietComplete
<1> DEFINE Sends == \A c \in Collects : quiet[c] /\ Ended(c) =>
             /\ \A tp \in TP : offset[c][tp] # None
             /\ lags[c] = Groups
             /\ \A g \in Groups : \E b \in Brokers : members[c] \cap ({g} \X Brokers) = {<<g, b>>}
<1>1. HInv /\ [HNext]_hvars => [Sends]_hvars
  <2> SUFFICES ASSUME HInv, HNext, NEW c \in Collects, quiet[c], Ended(c)
               PROVE  /\ \A tp \in TP : offset[c][tp] # None
                      /\ lags[c] = Groups
                      /\ \A g \in Groups : \E b \in Brokers :
                           members[c] \cap ({g} \X Brokers) = {<<g, b>>}
    OBVIOUS
  <2>1. /\ TypeOK /\ PhaseInv /\ Undisturbed(c) /\ TopicsRead(c) /\ GroupsTold(c)
        /\ members[c] \subseteq Groups \X Brokers /\ lags[c] \subseteq Groups
    BY DEF HInv, IInv, QuietInv, ReportsInv
  <2>2. End(c)
    BY <2>1, StartsOrEnds DEF HNext
  <2>3. ASSUME NEW t \in Topics, NEW p \in Partition PROVE offset[c][<<t, p>>] # None
    <3>1. topic[c][t] = "done"
      BY <2>1, <2>2 DEF End, PhaseInv, PhaseOf, TopicsDone
    <3>2. Behind(c, t, p)
      BY <2>1, <3>1, KafkaAssumption DEF TopicsRead, Behind, Partition
    <3> QED BY <2>1, <3>2 DEF TopicsRead
  <2>4. ASSUME NEW b \in Brokers PROVE Told(c, b) = Coordinated(b)
    <3>1. group[c][b] = "done"
      BY <2>1, <2>2 DEF End, Undisturbed
    <3>2. groupIds[c][b] = {}
      BY <2>1, <3>1 DEF PhaseInv, PhaseOf
    <3> QED BY <3>1, <3>2 DEF Told
  <2>5. ASSUME NEW g \in Groups
        PROVE  /\ g \in lags[c]
               /\ \E b \in Brokers : members[c] \cap ({g} \X Brokers) = {<<g, b>>}
    <3>1. coordinator[g] \in Brokers /\ g \in Coordinated(coordinator[g])
      BY <2>1 DEF TypeOK, Coordinated
    <3>2. g \in lags[c]
      BY <2>1, <2>4, <3>1 DEF GroupsTold
    <3>3. \A b \in Brokers : <<g, b>> \in members[c] <=> b = coordinator[g]
      BY <2>1, <2>4 DEF GroupsTold, Coordinated
    <3> QED BY <3>1, <3>2, <3>3
  <2>6. \A tp \in TP : offset[c][tp] # None
    BY <2>3 DEF TP
  <2> QED BY <2>1, <2>5, <2>6
<1> HIDE DEF Sends
<1>2. HSpec => [][Sends]_hvars
  BY <1>1, HistoryInvariance, PTL DEF HSpec
<1> QED BY <1>2 DEF Sends, QuietComplete
=============================================================================
