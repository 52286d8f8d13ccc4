--------------------------- MODULE PgServerScrape ---------------------------
(***************************************************************************)
(* What one scrape of one PostgreSQL server computes: the query maps that  *)
(* checkMapVersions builds for a version and extends with the user queries *)
(* file, the settings, and the metrics each row of a namespace becomes     *)
(* (collector/postgres/collector.go and pg_setting.go).                    *)
(*                                                                         *)
(* PgExporter models how overlapping scrapes share the maps and proves     *)
(* that nobody sees them half built; here they are data, built in one      *)
(* step, and scrapes follow one another.                                   *)
(*                                                                         *)
(* A version is a number, 92 for 9.2.0.  The builtin tables are an excerpt *)
(* with a column of each kind; the ranges are those of the code.  A query  *)
(* is a name, that of the namespace for SELECT * FROM namespace.  A value  *)
(* of a column is its Go type and its text; a name of a metric is the      *)
(* tuple of the parts that are joined by "_".                              *)
(***************************************************************************)
EXTENDS Integers, Sequences, FiniteSets

CONSTANTS
  Versions,                \* the versions PostgreSQL may report
  UserFiles,               \* what the user queries file may hold
  Results,                 \* query -> the column lists its result may have; others fail
  Data,                    \* column -> the values it may have
  Numerals,                \* the texts strconv.ParseFloat accepts
  Settings,                \* the rows of pg_settings
  MaxRows,                 \* a query returns no more rows: a bound of the model
  DisableDefaultMetrics,
  DisableSettingsMetrics,
  UserQueries,             \* userQueriesPath # ""
  None                     \* nil

ColumnUsage == {"DISCARD", "LABEL", "COUNTER", "GAUGE", "MAPPEDMETRIC", "DURATION"}

ASSUME ConstantsAssumption ==
  /\ Versions \subseteq Nat
  /\ None \notin ColumnUsage
  /\ MaxRows \in Nat
  /\ {DisableDefaultMetrics, DisableSettingsMetrics, UserQueries} \subseteq BOOLEAN
  /\ \A f \in UserFiles : f.state \in {"missing", "malformed", "misshapen", "read"}
  /\ \A q \in DOMAIN Results : Results[q] \subseteq Seq(DOMAIN Data) \ {<<>>}

VARIABLES
  pc,                \* "idle", "settings", "next", "rows" or "panicked"
  lastMapVersion,
  metricMap,
  queryOverrides,
  userQueries,       \* history: the file as it was when the maps were built
  todo,              \* the namespaces the range over metricMap has still to visit
  ns,                \* the namespace that is queried
  columns,           \* columnNames of its result
  rows,              \* the rows read so far
  sent,              \* the metrics sent for them, each with where it comes from
  errors             \* nonfatalErrors: the <<row, column>> they are about

mapVars == <<lastMapVersion, metricMap, queryOverrides, userQueries>>
rowVars == <<ns, columns, rows, sent, errors>>
vars == <<pc, mapVars, todo, rowVars>>

-----------------------------------------------------------------------------
(***************************************************************************)
(* The builtin tables.                                                     *)
(***************************************************************************)
From(v) == {w \in Versions : w >= v}
Before(v) == {w \in Versions : w < v}

Column(usage, supported) == [usage |-> usage, supported |-> supported]

BuiltinMetricMaps ==
  [pg_stat_bgwriter |->
     [buffers_alloc |-> Column("COUNTER", Versions)],
   pg_stat_replication |->
     [procpid |-> Column("DISCARD", Before(92)),
      pid |-> Column("DISCARD", From(92)),
      client_addr |-> Column("LABEL", Versions),
      slot_name |-> Column("LABEL", From(92)),
      pg_xlog_location_diff |-> Column("GAUGE", From(92) \cap Before(100)),
      pg_wal_lsn_diff |-> Column("GAUGE", From(100))],
   pg_stat_activity |->
     [datname |-> Column("LABEL", Versions),
      state |-> Column("LABEL", From(92)),
      count |-> Column("GAUGE", Versions)]]

Override(range, query) == [range |-> range, query |-> query]

BuiltinOverrides ==
  [pg_stat_replication |-> <<Override(From(100), "replication_wal"),
                             Override(From(92) \cap Before(100), "replication_xlog"),
                             Override(Before(92), "replication_old")>>,
   pg_stat_activity |-> <<Override(From(92), "activity"),
                          Override(Before(92), "activity_old")>>]

(***************************************************************************)
(* makeDescMap and makeQueryOverrideMap.                                   *)
(***************************************************************************)
\* Mutant: the usage is not turned into a type of Prometheus.
UsageAsType(usage) == usage
ValueType(usage) == IF usage = "COUNTER" THEN "counter" ELSE "gauge"

Discarded == [discard |-> TRUE, vtype |-> None, unit |-> ""]

MetricMap(version, column) ==
  IF version \notin column.supported \/ column.usage \in {"DISCARD", "LABEL"}
  THEN Discarded
  ELSE [discard |-> FALSE,
        vtype |-> ValueType(column.usage),
        unit |-> IF column.usage = "DURATION" THEN "milliseconds" ELSE ""]

\* A column that the version does not support is discarded, but stays a label.
MakeDescMap(version, maps) ==
  [n \in DOMAIN maps |->
     [labels |-> {c \in DOMAIN maps[n] : maps[n][c].usage = "LABEL"},
      columnMappings |-> [c \in DOMAIN maps[n] |-> MetricMap(version, maps[n][c])]]]

\* The first override whose range has the version; none disables the namespace.
MakeQueryOverrideMap(version) ==
  [n \in DOMAIN BuiltinOverrides |->
     LET overrides == BuiltinOverrides[n]
         matched == {i \in DOMAIN overrides : version \in overrides[i].range}
     IN  IF matched = {} THEN ""
         ELSE overrides[CHOOSE i \in matched : \A j \in matched : i <= j].query]

(***************************************************************************)
(* addQueries.  A file is parsed as a whole before anything is merged.  A  *)
(* namespace without metrics adds no map, one without a query no override; *)
(* a column without a usage has the zero value of ColumnUsage.  YAML of    *)
(* another shape fails a type assertion, which panics.                     *)
(***************************************************************************)
StringToColumnUsage(usage) == IF usage = None THEN "DISCARD" ELSE usage

WithMetrics(specs) == {n \in DOMAIN specs : DOMAIN specs[n].metrics # {}}
WithQuery(specs) == {n \in DOMAIN specs : specs[n].query # None}

Loadable(file) ==
  /\ file.state = "read"
  /\ \A n \in DOMAIN file.specs : \A c \in DOMAIN file.specs[n].metrics :
       StringToColumnUsage(file.specs[n].metrics[c]) \in ColumnUsage

UserMetricMaps(specs) ==
  [n \in WithMetrics(specs) |->
     [c \in DOMAIN specs[n].metrics |->
        Column(StringToColumnUsage(specs[n].metrics[c]), Versions)]]

\* The entries of the other map are added, and replace those there are.
Merged(map, partial) ==
  [n \in DOMAIN map \cup DOMAIN partial |->
     IF n \in DOMAIN partial THEN partial[n] ELSE map[n]]

AddMetrics(version, map, file) ==
  IF Loadable(file) THEN Merged(map, MakeDescMap(version, UserMetricMaps(file.specs)))
  ELSE map

AddOverrides(overrides, file) ==
  IF Loadable(file)
  THEN Merged(overrides, [n \in WithQuery(file.specs) |-> file.specs[n].query])
  ELSE overrides

-----------------------------------------------------------------------------
Init ==
  /\ pc = "idle"
  /\ lastMapVersion = None
  /\ metricMap = None
  /\ queryOverrides = None
  /\ userQueries = None
  /\ todo = {}
  /\ ns = None
  /\ columns = <<>>
  /\ rows = <<>>
  /\ sent = {}
  /\ errors = {}

(***************************************************************************)
(* checkMapVersions, then the start of Server.Scrape.                      *)
(***************************************************************************)
\* Mutant: new entries are added to the maps there are.
ExtendedMap(version) ==
  Merged(IF metricMap = None THEN <<>> ELSE metricMap,
         MakeDescMap(version, BuiltinMetricMaps))
FreshMap(version) ==
  IF DisableDefaultMetrics THEN <<>> ELSE MakeDescMap(version, BuiltinMetricMaps)

FreshOverrides(version) ==
  IF DisableDefaultMetrics THEN <<>> ELSE MakeQueryOverrideMap(version)

NeedsRebuild(version) == version # lastMapVersion \/ metricMap = None

Scrape ==
  /\ pc' = IF DisableSettingsMetrics THEN "next" ELSE "settings"
  /\ todo' = IF metricMap' = None THEN {} ELSE DOMAIN metricMap'
  /\ UNCHANGED rowVars

RebuildMaps(version, file) ==
  /\ pc = "idle"
  /\ NeedsRebuild(version)
  /\ ~(UserQueries /\ file.state = "misshapen")
  /\ lastMapVersion' = version
  /\ IF UserQueries
     THEN /\ metricMap' = AddMetrics(version, FreshMap(version), file)
          /\ queryOverrides' = AddOverrides(FreshOverrides(version), file)
          /\ userQueries' = file
     ELSE /\ metricMap' = FreshMap(version)
          /\ queryOverrides' = FreshOverrides(version)
          /\ UNCHANGED userQueries
  /\ Scrape

RebuildPanics(version, file) ==
  /\ pc = "idle"
  /\ NeedsRebuild(version)
  /\ UserQueries /\ file.state = "misshapen"
  /\ pc' = "panicked"
  /\ UNCHANGED <<mapVars, todo, rowVars>>

\* The version is that of the maps, or could not be determined: the scrape proceeds with
\* the maps there are.
KeepMaps ==
  /\ pc = "idle"
  /\ UNCHANGED mapVars
  /\ Scrape

(***************************************************************************)
(* querySettings.  A value is a number and what it was multiplied by:      *)
(* thousandths for seconds, a power of two for bytes.                      *)
(***************************************************************************)
Thousandths ==
  [ms |-> 1, s |-> 1000, min |-> 60 * 1000, h |-> 60 * 60 * 1000, d |-> 24 * 60 * 60 * 1000]

PowerOfTwo ==
  [B |-> 0, kB |-> 10, MB |-> 20, GB |-> 30, TB |-> 40, 8kB |-> 13, 16kB |-> 14, 32kB |-> 15,
   16MB |-> 24, 32MB |-> 25, 64MB |-> 26]

KnownUnits == {""} \cup DOMAIN Thousandths \cup DOMAIN PowerOfTwo

Unscaled(number) == [number |-> number, scale |-> None]

\* Mutant: -1 is converted as any other number.
NothingSpecial(number) == FALSE
Special(number) == number = -1

NormaliseUnit(s) ==
  IF s.unit = "" THEN [unit |-> "", val |-> Unscaled(s.setting)]
  ELSE LET Scaled(scale) == IF Special(s.setting) THEN Unscaled(s.setting)
                            ELSE [number |-> s.setting, scale |-> scale]
       IN  IF s.unit \in DOMAIN Thousandths
           THEN [unit |-> "seconds", val |-> Scaled(Thousandths[s.unit])]
           ELSE [unit |-> "bytes", val |-> Scaled(PowerOfTwo[s.unit])]

SettingMetric(s) ==
  IF s.vartype = "bool"
  THEN [name |-> <<"settings", s.name, "">>, type |-> "gauge", labels |-> <<>>,
        value |-> Unscaled(IF s.setting = 1 THEN 1 ELSE 0)]
  ELSE [name |-> <<"settings", s.name, NormaliseUnit(s).unit>>, type |-> "gauge",
        labels |-> <<>>, value |-> NormaliseUnit(s).val]

SettingRow(s) ==
  /\ pc = "settings"
  /\ Cardinality(sent) < MaxRows
  /\ s \notin {m.from : m \in sent}
  /\ s.vartype = "bool" \/ s.unit \in KnownUnits
  /\ sent' = sent \cup {[from |-> s, metric |-> SettingMetric(s)]}
  /\ UNCHANGED <<pc, mapVars, todo, ns, columns, rows, errors>>

\* pgSetting.metric panics, in a goroutine of the registry: the process ends.
UnknownUnit(s) ==
  /\ pc = "settings"
  /\ s.vartype # "bool" /\ s.unit \notin KnownUnits
  /\ pc' = "panicked"
  /\ UNCHANGED <<mapVars, todo, rowVars>>

Terminated ==
  /\ pc = "panicked"
  /\ UNCHANGED vars

\* The rows are at an end, or the query has failed.
EndSettings ==
  /\ pc = "settings"
  /\ pc' = "next"
  /\ sent' = {}
  /\ UNCHANGED <<mapVars, todo, ns, columns, rows, errors>>

(***************************************************************************)
(* queryNamespaceMappings: the namespaces in any order.                    *)
(***************************************************************************)
QueryOf(n) == IF n \in DOMAIN queryOverrides THEN queryOverrides[n] ELSE n

\* The override is the empty query, or the query fails: on to the next namespace.
SkipNamespace(n) ==
  /\ pc = "next"
  /\ todo' = todo \ {n}
  /\ UNCHANGED <<pc, mapVars, rowVars>>

QueryNamespace(n) ==
  /\ pc = "next"
  /\ QueryOf(n) # "" /\ QueryOf(n) \in DOMAIN Results
  /\ pc' = "rows"
  /\ todo' = todo \ {n}
  /\ ns' = n
  /\ columns' \in Results[QueryOf(n)]
  /\ UNCHANGED <<mapVars, rows, sent, errors>>

EndScrape ==
  /\ pc = "next"
  /\ todo = {}
  /\ pc' = "idle"
  /\ UNCHANGED <<mapVars, todo, rowVars>>

(***************************************************************************)
(* The conversions of a value that database/sql has scanned.               *)
(***************************************************************************)
Converted(val) == [val |-> val, ok |-> TRUE]
NotConverted == [val |-> "NaN", ok |-> FALSE]

DbToFloat64(v) ==
  IF v.type = "nil" THEN Converted("NaN")
  ELSE IF \/ v.type \in {"int64", "float64", "time"}
          \/ v.type \in {"bytes", "string"} /\ v.text \in Numerals
       THEN Converted(v.text)
  ELSE NotConverted

\* Mutant: text arrives as bytes, a case that is forgotten.
DbToStringNoBytes(v) ==
  IF v.type \in {"int64", "float64", "time", "string"} THEN v.text ELSE ""
DbToString(v) ==
  IF v.type \in {"int64", "float64", "time", "bytes", "string"} THEN v.text ELSE ""

(***************************************************************************)
(* queryNamespaceMapping: what a row becomes.                              *)
(***************************************************************************)
Indices == DOMAIN columns

\* Mutant: counted from zero, used from one.
ColumnIdxOffByOne(column) ==
  LET at == {i \in Indices : columns[i] = column}
      last == CHOOSE i \in at : \A j \in at : j <= i
  IN  IF at = {} \/ last = 1 THEN 1 ELSE last - 1
\* The last column of the name.  One that is not there has the zero value of the lookup,
\* which is the index of the first column.
ColumnIdx(column) ==
  LET at == {i \in Indices : columns[i] = column}
  IN  IF at = {} THEN 1 ELSE CHOOSE i \in at : \A j \in at : j <= i

Labels(row) ==
  [label \in metricMap[ns].labels |-> DbToString(row[ColumnIdx(label)])]

Known(i) == columns[i] \in DOMAIN metricMap[ns].columnMappings

\* Mutant: the row is left at the first column that cannot be converted.
MetricColumnsUpToError(row) ==
  {i \in Indices :
     /\ ~(Known(i) /\ metricMap[ns].columnMappings[columns[i]].discard)
     /\ \A j \in 1..(i - 1) : DbToFloat64(row[j]).ok}
MetricColumns(row) ==
  {i \in Indices : ~(Known(i) /\ metricMap[ns].columnMappings[columns[i]].discard)}

\* The conversion of the column mapping is never used, dbToFloat64 always.
ColumnMetric(row, i) ==
  LET mapping == metricMap[ns].columnMappings[columns[i]]
  IN  [name |-> <<ns, columns[i], IF Known(i) THEN mapping.unit ELSE "">>,
       type |-> IF Known(i) THEN mapping.vtype ELSE "untyped",
       labels |-> Labels(row),
       value |-> DbToFloat64(row[i]).val]

ReadRow ==
  /\ pc = "rows"
  /\ Len(rows) < MaxRows
  /\ \E row \in [Indices -> UNION {Data[columns[i]] : i \in Indices}] :
       LET r == Len(rows) + 1
           Ok(i) == DbToFloat64(row[i]).ok
       IN  /\ \A i \in Indices : row[i] \in Data[columns[i]]
           /\ rows' = Append(rows, row)
           /\ sent' = sent \cup {[from |-> <<r, i>>, metric |-> ColumnMetric(row, i)] :
                                   i \in {j \in MetricColumns(row) : Ok(j)}}
           /\ errors' = errors \cup {<<r, i>> : i \in {j \in MetricColumns(row) : ~Ok(j)}}
  /\ UNCHANGED <<pc, mapVars, todo, ns, columns>>

EndRows ==
  /\ pc = "rows"
  /\ pc' = "next"
  /\ ns' = None
  /\ columns' = <<>>
  /\ rows' = <<>>
  /\ sent' = {}
  /\ errors' = {}
  /\ UNCHANGED <<mapVars, todo>>

-----------------------------------------------------------------------------
Next ==
  \/ \E version \in Versions, file \in UserFiles :
       RebuildMaps(version, file) \/ RebuildPanics(version, file)
  \/ KeepMaps
  \/ \E s \in Settings : SettingRow(s) \/ UnknownUnit(s)
  \/ Terminated
  \/ EndSettings
  \/ \E n \in todo : SkipNamespace(n) \/ QueryNamespace(n)
  \/ EndScrape
  \/ ReadRow
  \/ EndRows

Spec == Init /\ [][Next]_vars

-----------------------------------------------------------------------------
(***************************************************************************)
(* Properties.                                                             *)
(***************************************************************************)
\* The type invariant: what the maps and the metrics of the scrape look like.
TypeOK ==
  /\ pc \in {"idle", "settings", "next", "rows", "panicked"}
  /\ lastMapVersion \in Versions \cup {None}
  /\ metricMap # None =>
       \A n \in DOMAIN metricMap :
         /\ metricMap[n].labels \subseteq DOMAIN metricMap[n].columnMappings
         /\ \A c \in DOMAIN metricMap[n].columnMappings :
              metricMap[n].columnMappings[c]
                \in {Discarded} \cup [discard : {FALSE}, vtype : {"counter", "gauge"},
                                      unit : {"", "milliseconds"}]
  /\ todo \subseteq (IF metricMap = None THEN {} ELSE DOMAIN metricMap)
  /\ Len(rows) <= MaxRows
  /\ pc = "rows" => errors \subseteq (DOMAIN rows) \X Indices
  /\ pc # "rows" => ns = None /\ rows = <<>> /\ errors = {}

\* The maps of a Server are those the version and the user queries file call for and hold
\* nothing of an earlier version or file: a namespace is the user's as a whole when the file
\* could be loaded and has metrics for it, or else the builtin one; a column counts if the
\* version supports it; and the query is the user's or the one override whose range has the
\* version.  A file that cannot be loaded adds nothing, not even the part before the error.
MapsAsConfigured ==
  metricMap # None =>
    LET builtin == IF DisableDefaultMetrics THEN {} ELSE DOMAIN BuiltinMetricMaps
        loaded == UserQueries /\ userQueries.state = "read"
                  /\ \A n \in DOMAIN userQueries.specs :
                       \A c \in DOMAIN userQueries.specs[n].metrics :
                         userQueries.specs[n].metrics[c] \in ColumnUsage \cup {None}
        FromUser(n) == loaded /\ n \in WithMetrics(userQueries.specs)
        UserQuery(n) == loaded /\ n \in WithQuery(userQueries.specs)
        user == IF loaded THEN DOMAIN userQueries.specs ELSE {}
    IN /\ DOMAIN metricMap = builtin \cup {n \in user : FromUser(n)}
       /\ \A n \in DOMAIN metricMap :
            LET usage == IF FromUser(n) THEN userQueries.specs[n].metrics
                         ELSE [c \in DOMAIN BuiltinMetricMaps[n] |-> BuiltinMetricMaps[n][c].usage]
                Metric(c) == /\ usage[c] \notin {None, "DISCARD", "LABEL"}
                             /\ FromUser(n) \/ lastMapVersion \in BuiltinMetricMaps[n][c].supported
            IN /\ DOMAIN metricMap[n].columnMappings = DOMAIN usage
               /\ metricMap[n].labels = {c \in DOMAIN usage : usage[c] = "LABEL"}
               /\ \A c \in DOMAIN usage : metricMap[n].columnMappings[c].discard <=> ~Metric(c)
       /\ \A n \in DOMAIN queryOverrides :
            IF UserQuery(n) THEN queryOverrides[n] = userQueries.specs[n].query
            ELSE \E i \in DOMAIN BuiltinOverrides[n] :
                   /\ BuiltinOverrides[n][i].query = queryOverrides[n]
                   /\ \A j \in DOMAIN BuiltinOverrides[n] :
                        lastMapVersion \in BuiltinOverrides[n][j].range <=> j = i

\* Every value of a result is accounted for: one of a discarded column is dropped, any
\* other is sent as one metric, or noted as an error when it is no number.  A bad value
\* costs its own metric only, not those of the same row or of later ones.
ValuesAccounted ==
  pc = "rows" =>
    \A r \in DOMAIN rows : \A i \in Indices :
      LET metrics == {m \in sent : m.from = <<r, i>>}
          dropped == Known(i) /\ metricMap[ns].columnMappings[columns[i]].discard
          number == \/ rows[r][i].type \in {"int64", "float64", "time", "nil"}
                    \/ rows[r][i].type \in {"bytes", "string"} /\ rows[r][i].text \in Numerals
      IN /\ Cardinality(metrics) = IF number /\ ~dropped THEN 1 ELSE 0
         /\ <<r, i>> \in errors <=> ~number /\ ~dropped

\* What PostgreSQL has answered, as text: NULL is the empty one.  Of a type that cannot be
\* converted, such as bool, there is no text.
HasText(v) == v.type \in {"int64", "float64", "time", "bytes", "string", "nil"}
TextOf(v) == IF v.type = "nil" THEN "" ELSE v.text

\* The labels of a metric are those of its own row, column by column, as far as the result
\* has the columns: a value is never reported for another database, client or state.  Of
\* the columns of one name the last is meant.
LabelsOfOwnRow ==
  pc = "rows" =>
    \A m \in sent : \A i \in Indices :
      /\ columns[i] \in DOMAIN m.metric.labels
      /\ \A j \in Indices : columns[j] = columns[i] => j <= i
      /\ HasText(rows[m.from[1]][i])
      => m.metric.labels[columns[i]] = TextOf(rows[m.from[1]][i])

\* A duplicated metric fails the whole scrape.  A result whose columns have different names
\* and whose rows differ in the label columns gives none.
NoDuplicates ==
  LET labelColumns == {i \in Indices : columns[i] \in metricMap[ns].labels}
      Differ(r, q) == \E i \in labelColumns :
                        /\ HasText(rows[r][i]) /\ HasText(rows[q][i])
                        /\ TextOf(rows[r][i]) # TextOf(rows[q][i])
  IN  /\ pc = "rows"
      /\ \A i, j \in Indices : columns[i] = columns[j] => i = j
      /\ \A r, q \in DOMAIN rows : r # q => Differ(r, q)
      => \A m1, m2 \in sent :
           m1.metric.name = m2.metric.name /\ m1.metric.labels = m2.metric.labels => m1 = m2

\* A unit of pg_settings is a count of a base unit.
CountOf == [8kB |-> 8, 16kB |-> 16, 32kB |-> 32, 16MB |-> 16, 32MB |-> 32, 64MB |-> 64]
BaseOf ==
  [8kB |-> "kB", 16kB |-> "kB", 32kB |-> "kB", 16MB |-> "MB", 32MB |-> "MB", 64MB |-> "MB"]

\* A setting is reported in seconds, in bytes or, without a unit, as it is, and converted by
\* the size of its unit; -1, which stands for no limit, stays -1 whatever its unit.
SettingsNormalised ==
  pc = "settings" =>
    \A m \in sent :
      LET s == m.from
          v == m.metric.value
      IN s.vartype # "bool" =>
           /\ v.number = s.setting
           /\ s.setting = -1 \/ s.unit = "" => v.scale = None
           /\ s.setting # -1 =>
                /\ m.metric.name[3] = "seconds" => v.scale = Thousandths[s.unit]
                /\ s.unit \in DOMAIN CountOf =>
                     2 ^ (v.scale - PowerOfTwo[BaseOf[s.unit]]) = CountOf[s.unit]
           /\ m.metric.name[3] = "" <=> s.unit = ""
=============================================================================
