---------------------------- MODULE MCMongoService ----------------------------
(* Every kind of fault of the configuration, one at a time; a MongoDB that is complete,   *)
(* one without the documents newer servers have dropped, an old and a standalone one.     *)
EXTENDS MongoService

CONSTANTS R1, R2

MCRequests == {R1, R2}
MCAsked == {"/mongodb", "/elastic", "/node"}

All ==
  [enabled |-> Service \ {"node"},
   node |-> "usable",
   mysql |-> [dsn |-> "usable"],
   redis |-> [addr |-> "usable", file |-> "absent", password |-> "absent",
              passwordFile |-> "absent", args |-> "usable", script |-> "absent"],
   elastic |-> [uri |-> "usable", ca |-> "absent", keyPair |-> "absent"],
   kafka |-> [version |-> "usable", tls |-> "absent", interval |-> "usable",
              filters |-> "usable", labels |-> "usable", zookeeper |-> "absent"],
   postgres |-> [sourceFile |-> "absent", labels |-> "usable"],
   address |-> "usable"]

MCConfigs ==
  {[All EXCEPT !.elastic.uri = "unusable", !.kafka.zookeeper = "unusable"],
   [All EXCEPT !.enabled = {"elastic", "mysql"}, !.kafka.version = "unusable"],
   [All EXCEPT !.node = "unusable"],
   [All EXCEPT !.mysql.dsn = "absent"],
   [All EXCEPT !.redis.file = "usable"],
   [All EXCEPT !.redis.addr = "absent", !.redis.file = "unusable"],
   [All EXCEPT !.redis.password = "usable", !.redis.passwordFile = "usable"],
   [All EXCEPT !.redis.script = "unusable"],
   [All EXCEPT !.elastic.keyPair = "unusable"],
   [All EXCEPT !.elastic.ca = "usable", !.elastic.keyPair = "unusable"],
   [All EXCEPT !.kafka.tls = "unusable"],
   [All EXCEPT !.postgres.sourceFile = "unusable"],
   [All EXCEPT !.postgres.labels = "unusable"],
   [All EXCEPT !.address = "unusable"]}

Standalone == {"server", "metrics", "metrics.ttl"}

Repl ==
  {"metrics.repl", "metrics.repl.apply", "metrics.repl.apply.batches",
   "metrics.repl.buffer", "metrics.repl.network", "metrics.repl.network.getmores"}

Preload ==
  {"metrics.repl.preload", "metrics.repl.preload.docs", "metrics.repl.preload.indexes"}

MCReplies ==
  {[documents |-> Standalone \cup {"backgroundFlushing"}, engine |-> None],
   [documents |-> Standalone \cup Repl \cup Preload \cup {"wiredTiger", "wiredTiger.log"},
    engine |-> "wiredTiger"],
   [documents |-> Standalone \cup Repl, engine |-> "wiredTiger"]}
===============================================================================
