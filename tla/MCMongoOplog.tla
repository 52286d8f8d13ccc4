---------------------------- MODULE MCMongoOplog ----------------------------
(***************************************************************************)
(* An oplog of two entries to which three are written, so that one rolls   *)
(* off; the first and the second fall into one second, and the second one  *)
(* is not counted (a command).  Two workers stand for the ten.  The two    *)
(* parts share nothing but the Collect, so they are switched on in turn.   *)
(***************************************************************************)
EXTENDS MongoOplog

CONSTANTS c1, c2, w1, w2

MCIncluded == {1, 3}
MCOptionSets == {{"oplog"}, {"tail"}}
=============================================================================
