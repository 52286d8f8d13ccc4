--------------------------- MODULE MCKafkaExporter ---------------------------
(***************************************************************************)
(* Instances of KafkaExporter for TLC.  The first broker leads every       *)
(* partition, so the other one is opened by the group phase alone.         *)
(***************************************************************************)
EXTENDS KafkaExporter, TLC

CONSTANTS c1, c2, b1, b2, g1, t1

MCLeaderOf == [tp \in TP |-> b1]
MCSymmetry == Permutations({c1, c2})

\* Sound for what KafkaExporter states: no action reads committed but Commit, which writes
\* it, and none reads an offset but GetOffset, which writes it, at most once a Collect.
MCView ==
  <<pc, topic, part, try, [c \in Collects |-> {tp \in TP : offset[c][tp] # None}],
    group, groupIds, clientVars, up, newest, coordinator>>
=============================================================================
