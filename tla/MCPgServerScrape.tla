------------------------- MODULE MCPgServerScrape -------------------------
(***************************************************************************)
(* An instance of PgServerScrape for TLC: a version of each range of the   *)
(* builtin tables, the ways a user queries file can be right or wrong, and *)
(* results that lack a column, have one too many, or arrive in another     *)
(* order.                                                                  *)
(***************************************************************************)
EXTENDS PgServerScrape

MCVersions == {91, 92, 100}

File(state, specs) == [state |-> state, specs |-> specs]
Specs(query, metrics) == [query |-> query, metrics |-> metrics]

MCUserFiles ==
  {File("missing", <<>>),
   File("malformed", <<>>),
   File("misshapen", <<>>),
   \* A namespace of the user's own, and a query alone for a builtin one.
   File("read", [user |-> Specs("user_query", [name |-> "LABEL", time |-> "DURATION",
                                               level |-> "MAPPEDMETRIC", note |-> None]),
                 pg_stat_activity |-> Specs("activity_old", <<>>)]),
   \* A builtin namespace taken over without a query, another one disabled.
   File("read", [pg_stat_activity |-> Specs(None, [datname |-> "LABEL", count |-> "COUNTER"]),
                 pg_stat_replication |-> Specs("", <<>>)]),
   \* A usage that does not exist, in the second namespace.
   File("read", [pg_stat_bgwriter |-> Specs("user_query", [name |-> "LABEL"]),
                 user |-> Specs("user_query", [time |-> "TIMER"])])}

MCResults ==
  [pg_stat_bgwriter |-> {<<"buffers_alloc", "stats_new">>},
   replication_wal |-> {<<"pid", "client_addr", "pg_wal_lsn_diff">>},
   replication_xlog |-> {<<"pid", "client_addr", "pg_xlog_location_diff">>},
   replication_old |-> {<<"procpid", "client_addr">>},
   activity |-> {<<"datname", "state", "count">>},
   activity_old |-> {<<"count", "datname", "state">>},
   user_query |-> {<<"name", "time">>, <<"level", "name", "note">>}]

Value(type, text) == [type |-> type, text |-> text]

\* Names arrive as bytes, numbers as int64, float64 or bytes; any column may be NULL.
MCData ==
  LET name == {Value("bytes", "a"), Value("string", "b"), Value("nil", "")}
      number == {Value("int64", "1"), Value("bytes", "2"), Value("nil", "")}
  IN  [client_addr |-> name, datname |-> name, state |-> name, name |-> name,
       pid |-> {Value("int64", "7"), Value("int64", "8")},
       procpid |-> {Value("int64", "7")},
       pg_wal_lsn_diff |-> number, pg_xlog_location_diff |-> {Value("float64", "1")},
       count |-> {Value("int64", "1"), Value("bytes", "2")},
       buffers_alloc |-> number, stats_new |-> {Value("time", "3"), Value("bool", "t")},
       time |-> {Value("bytes", "10s"), Value("string", "1")},
       level |-> {Value("string", "high"), Value("int64", "1")},
       note |-> {Value("bytes", "a")}]

MCNumerals == {"1", "2"}

Setting(name, setting, unit, vartype) ==
  [name |-> name, setting |-> setting, unit |-> unit, vartype |-> vartype]

\* 4kB is the unit of a server that was built with that block size.
MCSettings ==
  {Setting("fsync", 1, "", "bool"),
   Setting("max_connections", 2, "", "integer"),
   Setting("log_rotation_age", 2, "min", "integer"),
   Setting("statement_timeout", -1, "ms", "integer"),
   Setting("autovacuum_work_mem", -1, "kB", "integer"),
   Setting("shared_buffers", 2, "8kB", "integer"),
   Setting("wal_segment_size", 1, "16MB", "integer"),
   Setting("min_wal_size", 3, "32MB", "integer"),
   Setting("max_wal_size", 3, "64MB", "integer"),
   Setting("effective_cache_size", 1, "4kB", "integer")}
=============================================================================
