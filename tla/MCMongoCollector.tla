-------------------------- MODULE MCMongoCollector --------------------------
(***************************************************************************)
(* Two overlapping Collects with one part of each kind: one vector that is *)
(* reset before (replica set status), one after (databases), one never     *)
(* (server status, where the storage engine is a label).  Two members and  *)
(* two databases, so that a Collect meets its own series and another's.    *)
(***************************************************************************)
EXTENDS MongoCollectHistory, TLC

CONSTANTS c1, c2, d1, d2, m1, m2, e1

MCCollects == {c1, c2}
MCItems ==
  [part \in PartName |->
     CASE part = "replset" -> {m1, m2}
       [] part = "database" -> {d1, d2}
       [] part = "server" -> {e1}
       [] OTHER -> {}]
\* Sound for safety: nothing tells one Collect, database or member from another.
MCSymmetry == Permutations(MCCollects) \cup Permutations({d1, d2}) \cup Permutations({m1, m2})
=============================================================================
