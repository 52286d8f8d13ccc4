------------------------- MODULE KafkaCollectHistory -------------------------
(***************************************************************************)
(* KafkaExporter with what its promises are about and the program does not *)
(* remember: what a Collect has sent, what the offsets were when it began, *)
(* and whether anything disturbed it.                                      *)
(***************************************************************************)
EXTENDS KafkaExporter

VARIABLES
  members,     \* the <<group, broker>> pairs a Collect has sent the members of
  lags,        \* the groups it has sent the lags of
  before,      \* newest, when it began; 0 when none is running
  quiet        \* no other Collect, no fault and no new coordinator since, all brokers known

hvars == <<vars, members, lags, before, quiet>>

HInit ==
  /\ Init
  /\ members = [c \in Collects |-> {}]
  /\ lags = [c \in Collects |-> {}]
  /\ before = [c \in Collects |-> [tp \in TP |-> 0]]
  /\ quiet = [c \in Collects |-> FALSE]

Starts(c) == pc[c] = "idle" /\ pc'[c] # "idle"
Ended(c) == pc[c] # "idle" /\ pc'[c] = "idle"

\* The group whose offsets the broker's goroutine has just fetched, if it has.
Reports(c, b) == IF group[c][b] = "fetch" THEN groupIds[c][b] \ groupIds'[c][b] ELSE {}

\* FetchOffset was answered by the coordinator.
Fetched(b, g) == Answers(b) /\ coordinator[g] = b

Remember ==
  /\ members' = [c \in Collects |->
       IF Ended(c) THEN {}
       ELSE members[c] \cup {gb \in Groups \X Brokers : gb[1] \in Reports(c, gb[2])}]
  /\ lags' = [c \in Collects |->
       IF Ended(c) THEN {}
       ELSE lags[c] \cup {g \in Groups : \E b \in Brokers : g \in Reports(c, b) /\ Fetched(b, g)}]
  /\ before' = [c \in Collects |-> CASE Starts(c) -> newest
                                     [] Ended(c) -> [tp \in TP |-> 0]
                                     [] OTHER -> before[c]]
  /\ quiet' = [c \in Collects |->
       /\ pc'[c] # "idle"
       /\ quiet[c] \/ (Starts(c) /\ known = Brokers /\ up = Brokers)
       /\ \A d \in Collects \ {c} : pc'[d] = "idle"
       /\ UNCHANGED <<up, coordinator>>]

HNext == Next /\ Remember

HSpec == HInit /\ [][HNext]_hvars

-----------------------------------------------------------------------------
\* The lag a Collect sends for a group and a partition in this state.
Reporting(c, g) ==
  \E b \in Brokers : group[c][b] = "fetch" /\ g \in groupIds[c][b] /\ Fetched(b, g)

Lag(c, g, tp) ==
  IF committed[g][tp] = NoOffset THEN -1 ELSE offset[c][tp] - committed[g][tp]

\* A lag is computed from an end of the partition that lies between the one at the start of
\* the Collect and the one now: it is never stale and never ahead (Collect, offset).
LagFresh ==
  \A c \in Collects, g \in Groups, tp \in TP :
    Reporting(c, g) /\ offset[c][tp] # None /\ committed[g][tp] # NoOffset =>
      /\ before[c][tp] - committed[g][tp] <= Lag(c, g, tp)
      /\ Lag(c, g, tp) <= newest[tp] - committed[g][tp]

\* A Collect nothing has disturbed ends with the members and the lags of every group, each
\* sent once, from the offsets of every partition (Collect, both phases).
QuietComplete ==
  [][\A c \in Collects : quiet[c] /\ Ended(c) =>
       /\ \A tp \in TP : offset[c][tp] # None
       /\ lags[c] = Groups
       /\ \A g \in Groups : \E b \in Brokers : members[c] \cap ({g} \X Brokers) = {<<g, b>>}]_hvars
=============================================================================
