------------------------ MODULE MCKafkaCollectHistory ------------------------
(***************************************************************************)
(* The instances of MCKafkaExporter, with the history of                   *)
(* KafkaCollectHistory.                                                    *)
(***************************************************************************)
EXTENDS KafkaCollectHistory, MCKafkaExporter
=============================================================================
