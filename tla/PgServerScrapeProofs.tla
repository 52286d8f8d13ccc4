------------------------ MODULE PgServerScrapeProofs ------------------------
(***************************************************************************)
(* Proofs about PgServerScrape, for every version, every user queries      *)
(* file, every result and every row of it.  The maps of a Server are at    *)
(* any time those of one version and one reading of the file; and what has *)
(* been sent and noted is, row by row and column by column, what the rows  *)
(* read so far call for.                                                   *)
(***************************************************************************)
EXTENDS PgServerScrape, SequenceTheorems, FiniteSetTheorems, TLAPS

\* The maps for a version and what the user queries file held.
MapFor(version, file) ==
  IF UserQueries THEN AddMetrics(version, FreshMap(version), file) ELSE FreshMap(version)

OverridesFor(version, file) ==
  IF UserQueries THEN AddOverrides(FreshOverrides(version), file)
  ELSE FreshOverrides(version)

MapInv ==
  /\ lastMapVersion \in Versions \cup {None}
  /\ metricMap # None =>
       /\ lastMapVersion \in Versions
       /\ metricMap = MapFor(lastMapVersion, userQueries)
       /\ queryOverrides = OverridesFor(lastMapVersion, userQueries)

\* Where a scrape is.
PlaceInv ==
  /\ pc \in {"idle", "settings", "next", "rows", "panicked"}
  /\ todo \subseteq (IF metricMap = None THEN {} ELSE DOMAIN metricMap)
  /\ pc \in {"idle", "next"} => sent = {}
  /\ pc # "rows" => ns = None /\ rows = <<>> /\ errors = {}
  /\ pc = "rows" => /\ metricMap # None /\ ns \in DOMAIN metricMap
                    /\ columns \in Seq(DOMAIN Data) \ {<<>>}

\* What was read, sent and noted of a result.
RowValues == [Indices -> UNION {Data[columns[i]] : i \in Indices}]

Sample(r, i) == [from |-> <<r, i>>, metric |-> ColumnMetric(rows[r], i)]

RowsInv ==
  pc = "rows" =>
    /\ rows \in Seq(RowValues) /\ Len(rows) <= MaxRows
    /\ \A m \in sent :
         \E r \in DOMAIN rows : \E i \in MetricColumns(rows[r]) :
           DbToFloat64(rows[r][i]).ok /\ m = Sample(r, i)
    /\ \A r \in DOMAIN rows : \A i \in MetricColumns(rows[r]) :
         DbToFloat64(rows[r][i]).ok => Sample(r, i) \in sent
    /\ \A e \in errors : e \in (DOMAIN rows) \X Indices
    /\ \A r \in DOMAIN rows : \A i \in Indices :
         <<r, i>> \in errors <=> i \in MetricColumns(rows[r]) /\ ~DbToFloat64(rows[r][i]).ok

\* What was sent of the settings.
SettingsInv ==
  pc = "settings" =>
    \A m \in sent :
      /\ m.from.vartype = "bool" \/ m.from.unit \in KnownUnits
      /\ m.metric = SettingMetric(m.from)

IInv == MapInv /\ PlaceInv /\ RowsInv /\ SettingsInv

-----------------------------------------------------------------------------
(***************************************************************************)
(* The conversions.                                                        *)
(***************************************************************************)
LEMMA Number ==
  ASSUME NEW v
  PROVE  DbToFloat64(v).ok <=>
           \/ v.type \in {"int64", "float64", "time", "nil"}
           \/ v.type \in {"bytes", "string"} /\ v.text \in Numerals
BY DEF DbToFloat64, Converted, NotConverted

LEMMA Text ==
  ASSUME NEW v, HasText(v)
  PROVE  DbToString(v) = TextOf(v)
BY DEF HasText, DbToString, TextOf

LEMMA LastColumn ==
  ASSUME NEW i \in Indices, \A j \in Indices : columns[j] = columns[i] => j <= i,
         Indices \subseteq Nat
  PROVE  ColumnIdx(columns[i]) = i
<1> DEFINE at == {j \in Indices : columns[j] = columns[i]}
<1>1. i \in at /\ \A j \in at : j <= i
  OBVIOUS
<1>2. \A k \in at : (\A j \in at : j <= k) => k = i
  <2> SUFFICES ASSUME NEW k \in at, \A j \in at : j <= k PROVE k = i
    OBVIOUS
  <2>1. i <= k /\ k <= i /\ k \in Nat /\ i \in Nat
    BY <1>1
  <2> QED BY <2>1
<1>3. (CHOOSE k \in at : \A j \in at : j <= k) = i
  BY <1>1, <1>2
<1> QED BY <1>1, <1>3 DEF ColumnIdx

-----------------------------------------------------------------------------
(***************************************************************************)
(* The invariant.                                                          *)
(***************************************************************************)
LEMMA InitInv == Init => IInv
BY DEF Init, IInv, MapInv, PlaceInv, RowsInv, SettingsInv

LEMMA ScrapeStep ==
  ASSUME IInv, pc = "idle", Scrape
  PROVE  PlaceInv' /\ RowsInv' /\ SettingsInv'
<1>1. sent' = {} /\ pc' \in {"next", "settings"}
      /\ ns' = None /\ rows' = <<>> /\ errors' = {}
      /\ todo' = (IF metricMap' = None THEN {} ELSE DOMAIN metricMap')
  BY DEF IInv, PlaceInv, Scrape, rowVars
<1> QED BY <1>1 DEF PlaceInv, RowsInv, SettingsInv

\* Reading a row: the next one, none of the others changes.
LEMMA ReadRowStep ==
  ASSUME IInv, ReadRow
  PROVE  RowsInv'
<1>1. /\ pc = "rows" /\ Len(rows) < MaxRows /\ metricMap' = metricMap /\ ns' = ns
      /\ columns' = columns
  BY DEF ReadRow, mapVars
<1>0. PICK r : r = Len(rows) + 1
  OBVIOUS
<1> DEFINE Ok(row, i) == DbToFloat64(row[i]).ok
<1>2. PICK row \in RowValues :
        /\ rows' = Append(rows, row)
        /\ sent' = sent \cup {[from |-> <<r, i>>, metric |-> ColumnMetric(row, i)] :
                                i \in {j \in MetricColumns(row) : Ok(row, j)}}
        /\ errors' = errors \cup {<<r, i>> : i \in {j \in MetricColumns(row) : ~Ok(row, j)}}
  BY <1>0 DEF ReadRow, RowValues
<1>3. /\ rows \in Seq(RowValues) /\ Len(rows) \in Nat /\ MaxRows \in Nat
      /\ DOMAIN rows = 1..Len(rows)
  BY <1>1, ConstantsAssumption DEF IInv, RowsInv
<1>4. /\ rows' \in Seq(RowValues) /\ Len(rows') = r /\ rows'[r] = row
      /\ DOMAIN rows' = (DOMAIN rows) \cup {r} /\ r \notin DOMAIN rows
      /\ \A q \in DOMAIN rows : rows'[q] = rows[q]
  <2>1. /\ rows' \in Seq(RowValues) /\ Len(rows') = r /\ rows'[r] = row
        /\ \A q \in 1..Len(rows) : rows'[q] = rows[q]
    BY <1>0, <1>2, <1>3, AppendProperties
  <2>2. DOMAIN rows' = 1..r /\ 1..r = (1..Len(rows)) \cup {r} /\ r \notin 1..Len(rows)
    BY <1>0, <1>3, <2>1
  <2> QED BY <1>3, <2>1, <2>2
<1>5. RowValues' = RowValues /\ Indices' = Indices
  BY <1>1 DEF RowValues, Indices
<1>6. ASSUME NEW x PROVE MetricColumns(x)' = MetricColumns(x)
  BY <1>1 DEF MetricColumns, Known, Indices
<1>7. ASSUME NEW q \in DOMAIN rows
      PROVE  /\ MetricColumns(rows[q])' = MetricColumns(rows[q])
             /\ \A i : Sample(q, i)' = Sample(q, i)
  <2>1. rows'[q] = rows[q]
    BY <1>4
  <2> QED BY <1>1, <2>1 DEF Sample, ColumnMetric, Labels, ColumnIdx, MetricColumns, Known,
                            Indices
<1>8. /\ MetricColumns(rows[r])' = MetricColumns(row)
      /\ \A i : Sample(r, i)' = [from |-> <<r, i>>, metric |-> ColumnMetric(row, i)]
  BY <1>1, <1>4 DEF Sample, ColumnMetric, Labels, ColumnIdx, MetricColumns, Known, Indices
<1>9. \A m \in sent' :
        \E q \in DOMAIN rows' : \E i \in MetricColumns(rows[q])' :
          DbToFloat64(rows'[q][i]).ok /\ m = Sample(q, i)'
  <2> SUFFICES ASSUME NEW m \in sent'
               PROVE  \E q \in DOMAIN rows' : \E i \in MetricColumns(rows[q])' :
                        DbToFloat64(rows'[q][i]).ok /\ m = Sample(q, i)'
    OBVIOUS
  <2>1. CASE m \in sent
    <3>1. PICK q \in DOMAIN rows : \E i \in MetricColumns(rows[q]) :
            DbToFloat64(rows[q][i]).ok /\ m = Sample(q, i)
      BY <1>1, <2>1 DEF IInv, RowsInv
    <3>2. PICK i \in MetricColumns(rows[q]) : DbToFloat64(rows[q][i]).ok /\ m = Sample(q, i)
      BY <3>1
    <3>3. q \in DOMAIN rows' /\ i \in MetricColumns(rows[q])' /\ m = Sample(q, i)'
          /\ rows'[q] = rows[q]
      BY <1>4, <1>7, <3>2
    <3> QED BY <3>2, <3>3
  <2>2. CASE m \notin sent
    <3>1. PICK i \in MetricColumns(row) :
            Ok(row, i) /\ m = [from |-> <<r, i>>, metric |-> ColumnMetric(row, i)]
      BY <1>2, <2>2
    <3>2. r \in DOMAIN rows' /\ i \in MetricColumns(rows[r])' /\ m = Sample(r, i)'
          /\ rows'[r] = row
      BY <1>4, <1>8, <3>1
    <3> QED BY <3>1, <3>2
  <2> QED BY <2>1, <2>2
<1>10. ASSUME NEW q \in DOMAIN rows', NEW i \in MetricColumns(rows[q])',
              DbToFloat64(rows'[q][i]).ok
       PROVE  Sample(q, i)' \in sent'
  <2>1. CASE q \in DOMAIN rows
    <3>1. /\ i \in MetricColumns(rows[q]) /\ DbToFloat64(rows[q][i]).ok
          /\ Sample(q, i)' = Sample(q, i)
      BY <1>4, <1>7, <1>10, <2>1
    <3>2. Sample(q, i) \in sent
      BY <1>1, <2>1, <3>1 DEF IInv, RowsInv
    <3> QED BY <1>2, <3>1, <3>2
  <2>2. CASE q = r
    <3>1. /\ i \in MetricColumns(row) /\ Ok(row, i)
          /\ Sample(q, i)' = [from |-> <<r, i>>, metric |-> ColumnMetric(row, i)]
      BY <1>4, <1>8, <1>10, <2>2
    <3> QED BY <1>2, <3>1
  <2> QED BY <1>4, <2>1, <2>2
<1>11. \A e \in errors' : e \in (DOMAIN rows') \X Indices'
  <2> SUFFICES ASSUME NEW e \in errors' PROVE e \in (DOMAIN rows') \X Indices
    BY <1>5
  <2>1. CASE e \in errors
    <3>1. e \in (DOMAIN rows) \X Indices
      BY <1>1, <2>1 DEF IInv, RowsInv
    <3> QED BY <1>4, <3>1
  <2>2. CASE e \notin errors
    <3>1. PICK i \in MetricColumns(row) : e = <<r, i>>
      BY <1>2, <2>2
    <3>2. i \in Indices
      BY DEF MetricColumns
    <3> QED BY <1>4, <3>1, <3>2
  <2> QED BY <2>1, <2>2
<1>12. ASSUME NEW q \in DOMAIN rows', NEW i \in Indices
       PROVE  <<q, i>> \in errors' <=>
                i \in MetricColumns(rows[q])' /\ ~DbToFloat64(rows'[q][i]).ok
  <2>1. CASE q \in DOMAIN rows
    <3>1. <<q, i>> \in errors <=> i \in MetricColumns(rows[q]) /\ ~DbToFloat64(rows[q][i]).ok
      BY <1>1, <2>1 DEF IInv, RowsInv
    <3>2. <<q, i>> \in errors' <=> <<q, i>> \in errors
      <4>1. q # r
        BY <1>4, <2>1
      <4> QED BY <1>2, <4>1
    <3> QED BY <1>4, <1>7, <2>1, <3>1, <3>2
  <2>2. CASE q = r
    <3>1. <<q, i>> \notin errors
      BY <1>1, <1>4, <2>2 DEF IInv, RowsInv
    <3>2. <<q, i>> \in errors' <=> i \in MetricColumns(row) /\ ~Ok(row, i)
      BY <1>2, <2>2, <3>1
    <3> QED BY <1>4, <1>8, <2>2, <3>2
  <2> QED BY <1>4, <2>1, <2>2
<1>13. Len(rows') <= MaxRows
  BY <1>0, <1>1, <1>3, <1>4
<1> QED BY <1>4, <1>5, <1>9, <1>10, <1>11, <1>12, <1>13 DEF RowsInv

\* Every step keeps the invariant (checkMapVersions, Server.Scrape and what it calls).
LEMMA NextStep ==
  ASSUME IInv, [Next]_vars
  PROVE  IInv'
<1>a. MapInv /\ PlaceInv /\ RowsInv /\ SettingsInv
  BY DEF IInv
<1>b. ASSUME UNCHANGED mapVars PROVE MapInv'
  BY <1>a, <1>b DEF mapVars, MapInv
<1>c. ASSUME pc # "rows", pc' # "rows", UNCHANGED <<ns, rows, errors>>,
             todo' \subseteq todo, UNCHANGED metricMap, pc' \in {"settings", "panicked"}
      PROVE  PlaceInv' /\ RowsInv'
  BY <1>a, <1>c DEF PlaceInv, RowsInv
<1>1. ASSUME NEW version \in Versions, NEW file \in UserFiles, RebuildMaps(version, file)
      PROVE  IInv'
  <2>1. MapInv'
    <3>1. /\ lastMapVersion' = version
          /\ metricMap' = MapFor(version, userQueries')
          /\ queryOverrides' = OverridesFor(version, userQueries')
      BY <1>1 DEF RebuildMaps, MapFor, OverridesFor
    <3> QED BY <3>1 DEF MapInv
  <2>2. pc = "idle" /\ Scrape
    BY <1>1 DEF RebuildMaps
  <2> QED BY <2>1, <2>2, ScrapeStep DEF IInv
<1>2. ASSUME NEW version \in Versions, NEW file \in UserFiles, RebuildPanics(version, file)
      PROVE  IInv'
  <2>1. /\ pc = "idle" /\ pc' = "panicked" /\ UNCHANGED <<mapVars, ns, rows, errors, todo>>
    BY <1>2 DEF RebuildPanics, rowVars
  <2>2. MapInv' /\ PlaceInv' /\ RowsInv'
    BY <1>b, <1>c, <2>1 DEF mapVars
  <2> QED BY <2>1, <2>2 DEF IInv, SettingsInv
<1>3. CASE KeepMaps
  BY <1>b, <1>3, ScrapeStep DEF KeepMaps, IInv
<1>4. ASSUME NEW s \in Settings, SettingRow(s)
      PROVE  IInv'
  <2>1. /\ pc = "settings" /\ pc' = "settings" /\ UNCHANGED <<mapVars, ns, rows, errors, todo>>
        /\ sent' = sent \cup {[from |-> s, metric |-> SettingMetric(s)]}
        /\ s.vartype = "bool" \/ s.unit \in KnownUnits
    BY <1>4 DEF SettingRow
  <2>2. MapInv' /\ PlaceInv' /\ RowsInv'
    BY <1>b, <1>c, <2>1 DEF mapVars
  <2>3. SettingsInv'
    <3>1. ASSUME NEW m \in sent' PROVE /\ m.from.vartype = "bool" \/ m.from.unit \in KnownUnits
                                       /\ m.metric = SettingMetric(m.from)
      <4>1. CASE m \in sent
        BY <1>a, <2>1, <4>1 DEF SettingsInv
      <4>2. CASE m = [from |-> s, metric |-> SettingMetric(s)]
        BY <2>1, <4>2
      <4> QED BY <2>1, <4>1, <4>2
    <3> QED BY <3>1 DEF SettingsInv
  <2> QED BY <2>2, <2>3 DEF IInv
<1>5. ASSUME NEW s \in Settings, UnknownUnit(s)
      PROVE  IInv'
  <2>1. pc = "settings" /\ pc' = "panicked" /\ UNCHANGED <<mapVars, ns, rows, errors, todo>>
    BY <1>5 DEF UnknownUnit, rowVars
  <2>2. MapInv' /\ PlaceInv' /\ RowsInv'
    BY <1>b, <1>c, <2>1 DEF mapVars
  <2> QED BY <2>1, <2>2 DEF IInv, SettingsInv
<1>6. CASE EndSettings
  <2>1. /\ pc = "settings" /\ pc' = "next" /\ UNCHANGED <<mapVars, ns, rows, errors, todo>>
        /\ sent' = {}
    BY <1>6 DEF EndSettings
  <2>2. PlaceInv' /\ RowsInv' /\ SettingsInv'
    BY <1>a, <2>1 DEF PlaceInv, RowsInv, SettingsInv, mapVars
  <2> QED BY <1>b, <2>1, <2>2 DEF IInv
<1>7. ASSUME NEW n \in todo, SkipNamespace(n)
      PROVE  IInv'
  <2>1. /\ pc = "next" /\ pc' = "next" /\ UNCHANGED <<mapVars, ns, rows, errors, sent>>
        /\ todo' = todo \ {n}
    BY <1>7 DEF SkipNamespace, rowVars
  <2>2. PlaceInv' /\ RowsInv' /\ SettingsInv'
    BY <1>a, <2>1 DEF PlaceInv, RowsInv, SettingsInv, mapVars
  <2> QED BY <1>b, <2>1, <2>2 DEF IInv
<1>8. ASSUME NEW n \in todo, QueryNamespace(n)
      PROVE  IInv'
  <2>1. /\ pc = "next" /\ pc' = "rows" /\ UNCHANGED <<mapVars, rows, errors, sent>>
        /\ todo' = todo \ {n} /\ ns' = n
    BY <1>8 DEF QueryNamespace
  <2>2. columns' \in Seq(DOMAIN Data) \ {<<>>}
    BY <1>8, ConstantsAssumption DEF QueryNamespace
  <2>3. metricMap # None /\ n \in DOMAIN metricMap /\ metricMap' = metricMap
    BY <1>a, <2>1 DEF PlaceInv, mapVars
  <2>4. PlaceInv'
    BY <1>a, <2>1, <2>2, <2>3 DEF PlaceInv
  <2>5. rows' = <<>> /\ errors' = {} /\ sent' = {}
    BY <1>a, <2>1 DEF PlaceInv
  <2>6. rows' \in Seq(RowValues') /\ Len(rows') = 0 /\ DOMAIN rows' = {} /\ MaxRows \in Nat
    BY <2>5, ConstantsAssumption
  <2>7. RowsInv' /\ SettingsInv'
    BY <2>1, <2>5, <2>6 DEF RowsInv, SettingsInv
  <2> QED BY <1>b, <2>1, <2>4, <2>7 DEF IInv
<1>9. CASE EndScrape
  <2>1. pc = "next" /\ pc' = "idle" /\ UNCHANGED <<mapVars, ns, rows, errors, sent, todo>>
    BY <1>9 DEF EndScrape, rowVars
  <2>2. PlaceInv' /\ RowsInv' /\ SettingsInv'
    BY <1>a, <2>1 DEF PlaceInv, RowsInv, SettingsInv, mapVars
  <2> QED BY <1>b, <2>1, <2>2 DEF IInv
<1>10. CASE ReadRow
  <2>1. /\ pc = "rows" /\ pc' = "rows" /\ UNCHANGED <<mapVars, ns, columns, todo>>
    BY <1>10 DEF ReadRow
  <2>2. PlaceInv' /\ SettingsInv'
    BY <1>a, <2>1 DEF PlaceInv, SettingsInv, mapVars
  <2> QED BY <1>b, <1>10, <2>1, <2>2, ReadRowStep DEF IInv
<1>11. CASE EndRows
  <2>1. /\ pc = "rows" /\ pc' = "next" /\ UNCHANGED <<mapVars, todo>>
        /\ ns' = None /\ rows' = <<>> /\ errors' = {} /\ sent' = {}
    BY <1>11 DEF EndRows
  <2>2. PlaceInv' /\ RowsInv' /\ SettingsInv'
    BY <1>a, <2>1 DEF PlaceInv, RowsInv, SettingsInv, mapVars
  <2> QED BY <1>b, <2>1, <2>2 DEF IInv
<1>12. CASE UNCHANGED vars
  <2>1. MapInv' /\ PlaceInv' /\ SettingsInv'
    BY <1>a, <1>12 DEF vars, mapVars, rowVars, MapInv, PlaceInv, SettingsInv
  <2>2. RowsInv'
    <3>1. pc' = pc /\ metricMap' = metricMap /\ UNCHANGED <<ns, columns, rows, sent, errors>>
      BY <1>12 DEF vars, mapVars, rowVars
    <3>2. RowValues' = RowValues /\ Indices' = Indices
      BY <3>1 DEF RowValues, Indices
    <3>3. ASSUME NEW r
          PROVE  /\ MetricColumns(rows[r])' = MetricColumns(rows[r])
                 /\ \A i : Sample(r, i)' = Sample(r, i)
      BY <3>1 DEF Sample, ColumnMetric, Labels, ColumnIdx, MetricColumns, Known, Indices
    <3> QED BY <1>a, <3>1, <3>2, <3>3 DEF RowsInv
  <2> QED BY <2>1, <2>2 DEF IInv
<1> QED BY <1>1, <1>2, <1>3, <1>4, <1>5, <1>6, <1>7, <1>8, <1>9, <1>10, <1>11, <1>12
        DEF Next, Terminated

\* The inductive invariant of the scrapes of a server.
THEOREM Invariance == Spec => []IInv
BY InitInv, NextStep, PTL DEF Spec

-----------------------------------------------------------------------------
(***************************************************************************)
(* The maps.                                                               *)
(***************************************************************************)
\* What makeDescMap makes of a table, column by column.
LEMMA DescMapFacts ==
  ASSUME NEW version, NEW maps, NEW n \in DOMAIN maps
  PROVE  LET made == MakeDescMap(version, maps)[n] IN
         /\ DOMAIN made.columnMappings = DOMAIN maps[n]
         /\ made.labels = {c \in DOMAIN maps[n] : maps[n][c].usage = "LABEL"}
         /\ \A c \in DOMAIN maps[n] :
              /\ made.columnMappings[c] = MetricMap(version, maps[n][c])
              /\ made.columnMappings[c].discard <=>
                   \/ version \notin maps[n][c].supported
                   \/ maps[n][c].usage \in {"DISCARD", "LABEL"}
BY DEF MakeDescMap, MetricMap, Discarded

LEMMA DescMapDomain ==
  ASSUME NEW version, NEW maps
  PROVE  DOMAIN MakeDescMap(version, maps) = DOMAIN maps
BY DEF MakeDescMap

\* Every entry of a map is one makeDescMap has made.
LEMMA Made ==
  ASSUME NEW version, NEW file, NEW n \in DOMAIN MapFor(version, file)
  PROVE  \E maps : n \in DOMAIN maps /\ MapFor(version, file)[n] = MakeDescMap(version, maps)[n]
<1>1. ASSUME n \in DOMAIN FreshMap(version)
      PROVE  /\ n \in DOMAIN BuiltinMetricMaps
             /\ FreshMap(version)[n] = MakeDescMap(version, BuiltinMetricMaps)[n]
  <2>1. ~DisableDefaultMetrics
    BY <1>1 DEF FreshMap
  <2> QED BY <1>1, <2>1, DescMapDomain DEF FreshMap
<1>2. CASE UserQueries /\ Loadable(file)
  <2> DEFINE partial == MakeDescMap(version, UserMetricMaps(file.specs))
  <2>1. MapFor(version, file) = Merged(FreshMap(version), partial)
    BY <1>2 DEF MapFor, AddMetrics
  <2>2. DOMAIN partial = DOMAIN UserMetricMaps(file.specs)
    BY DescMapDomain
  <2>3. CASE n \in DOMAIN partial
    BY <2>1, <2>2, <2>3 DEF Merged
  <2>4. CASE n \notin DOMAIN partial
    <3>1. n \in DOMAIN FreshMap(version) /\ MapFor(version, file)[n] = FreshMap(version)[n]
      BY <2>1, <2>4 DEF Merged
    <3> QED BY <1>1, <3>1
  <2> QED BY <2>3, <2>4
<1>3. CASE ~(UserQueries /\ Loadable(file))
  <2>1. MapFor(version, file) = FreshMap(version)
    BY <1>3 DEF MapFor, AddMetrics
  <2> QED BY <1>1, <2>1
<1> QED BY <1>2, <1>3

\* The maps, the rows and the errors look as they should.
THEOREM TypeCorrect == Spec => []TypeOK
<1> SUFFICES IInv => TypeOK
  BY Invariance, PTL
<1> SUFFICES ASSUME IInv PROVE TypeOK
  OBVIOUS
<1>1. ASSUME metricMap # None, NEW n \in DOMAIN metricMap
      PROVE  /\ metricMap[n].labels \subseteq DOMAIN metricMap[n].columnMappings
             /\ \A c \in DOMAIN metricMap[n].columnMappings :
                  metricMap[n].columnMappings[c]
                    \in {Discarded} \cup [discard : {FALSE}, vtype : {"counter", "gauge"},
                                          unit : {"", "milliseconds"}]
  <2>1. metricMap = MapFor(lastMapVersion, userQueries)
    BY <1>1 DEF IInv, MapInv
  <2>2. PICK maps : /\ n \in DOMAIN maps
                    /\ metricMap[n] = MakeDescMap(lastMapVersion, maps)[n]
    BY <1>1, <2>1, Made
  <2>3. /\ DOMAIN metricMap[n].columnMappings = DOMAIN maps[n]
        /\ metricMap[n].labels = {c \in DOMAIN maps[n] : maps[n][c].usage = "LABEL"}
        /\ \A c \in DOMAIN maps[n] :
             metricMap[n].columnMappings[c] = MetricMap(lastMapVersion, maps[n][c])
    BY <2>2, DescMapFacts
  <2> DEFINE Type == {Discarded} \cup [discard : {FALSE}, vtype : {"counter", "gauge"},
                                       unit : {"", "milliseconds"}]
  <2>4. \A c : MetricMap(lastMapVersion, maps[n][c]) \in Type
    BY DEF MetricMap, ValueType
  <2> HIDE DEF Type
  <2>5. \A c \in DOMAIN maps[n] : metricMap[n].columnMappings[c] \in Type
    BY <2>3, <2>4
  <2>6. \A c \in DOMAIN metricMap[n].columnMappings : metricMap[n].columnMappings[c] \in Type
    BY <2>3, <2>5
  <2>7. metricMap[n].labels \subseteq DOMAIN metricMap[n].columnMappings
    BY <2>3
  <2> QED BY <2>6, <2>7 DEF Type
<1>2. Len(rows) <= MaxRows
  BY ConstantsAssumption DEF IInv, PlaceInv, RowsInv
<1>3. pc = "rows" => errors \subseteq (DOMAIN rows) \X Indices
  BY DEF IInv, RowsInv
<1> QED BY <1>1, <1>2, <1>3 DEF IInv, MapInv, PlaceInv, TypeOK

\* The user queries are taken or left as a whole.
LEMMA LoadableFacts ==
  ASSUME NEW file
  PROVE  Loadable(file) <=>
           /\ file.state = "read"
           /\ \A n \in DOMAIN file.specs : \A c \in DOMAIN file.specs[n].metrics :
                file.specs[n].metrics[c] \in ColumnUsage \cup {None}
<1>1. \A usage : StringToColumnUsage(usage) \in ColumnUsage <=> usage \in ColumnUsage \cup {None}
  BY DEF StringToColumnUsage, ColumnUsage
<1> QED BY <1>1 DEF Loadable

\* The builtin tables: each column has a usage, and of the overrides of a namespace one is
\* for the version.
LEMMA BuiltinUsage ==
  \A n \in DOMAIN BuiltinMetricMaps : \A c \in DOMAIN BuiltinMetricMaps[n] :
    BuiltinMetricMaps[n][c].usage \in ColumnUsage
BY DEF BuiltinMetricMaps, Column, ColumnUsage

LEMMA OneOverride ==
  ASSUME NEW version \in Versions, NEW n \in DOMAIN BuiltinOverrides
  PROVE  \E i \in DOMAIN BuiltinOverrides[n] :
           /\ BuiltinOverrides[n][i].query = MakeQueryOverrideMap(version)[n]
           /\ \A j \in DOMAIN BuiltinOverrides[n] :
                version \in BuiltinOverrides[n][j].range <=> j = i
<1> DEFINE overrides == BuiltinOverrides[n]
           matched == {i \in DOMAIN overrides : version \in overrides[i].range}
<1>1. MakeQueryOverrideMap(version)[n] =
        IF matched = {} THEN ""
        ELSE overrides[CHOOSE i \in matched : \A j \in matched : i <= j].query
  BY DEF MakeQueryOverrideMap
<1>2. \E i \in DOMAIN overrides : matched = {i} /\ i \in Nat
  <2>1. version \in Nat
    BY ConstantsAssumption
  <2>2. /\ version \in From(100) <=> version >= 100
        /\ version \in From(92) \cap Before(100) <=> version >= 92 /\ version < 100
        /\ version \in From(92) <=> version >= 92
        /\ version \in Before(92) <=> version < 92
    BY <2>1 DEF From, Before
  <2>3. CASE n = "pg_stat_replication"
    <3>1. /\ DOMAIN overrides = 1..3
          /\ overrides[1].range = From(100)
          /\ overrides[2].range = From(92) \cap Before(100)
          /\ overrides[3].range = Before(92)
      BY <2>3 DEF BuiltinOverrides, Override
    <3>2. matched = IF version >= 100 THEN {1} ELSE IF version >= 92 THEN {2} ELSE {3}
      BY <2>1, <2>2, <3>1
    <3> QED BY <3>1, <3>2
  <2>4. CASE n = "pg_stat_activity"
    <3>1. /\ DOMAIN overrides = 1..2
          /\ overrides[1].range = From(92)
          /\ overrides[2].range = Before(92)
      BY <2>4 DEF BuiltinOverrides, Override
    <3>2. matched = IF version >= 92 THEN {1} ELSE {2}
      BY <2>1, <2>2, <3>1
    <3> QED BY <3>1, <3>2
  <2> QED BY <2>3, <2>4 DEF BuiltinOverrides
<1>3. PICK i \in DOMAIN overrides : matched = {i} /\ i \in Nat
  BY <1>2
<1>4. (CHOOSE k \in matched : \A j \in matched : k <= j) = i
  BY <1>3
<1>5. MakeQueryOverrideMap(version)[n] = overrides[i].query
  BY <1>1, <1>3, <1>4
<1> QED BY <1>3, <1>5

\* The maps of a Server are those its version and the user queries file call for.
THEOREM Configured == Spec => []MapsAsConfigured
<1> SUFFICES IInv => MapsAsConfigured
  BY Invariance, PTL
<1> SUFFICES ASSUME IInv, metricMap # None PROVE MapsAsConfigured
  BY DEF MapsAsConfigured
<1> DEFINE specs == userQueries.specs
           builtin == IF DisableDefaultMetrics THEN {} ELSE DOMAIN BuiltinMetricMaps
           loaded == UserQueries /\ userQueries.state = "read"
                     /\ \A n \in DOMAIN userQueries.specs :
                          \A c \in DOMAIN userQueries.specs[n].metrics :
                            userQueries.specs[n].metrics[c] \in ColumnUsage \cup {None}
           FromUser(n) == loaded /\ n \in WithMetrics(userQueries.specs)
           UserQuery(n) == loaded /\ n \in WithQuery(userQueries.specs)
           user == IF loaded THEN DOMAIN userQueries.specs ELSE {}
           usage(n) == IF FromUser(n) THEN userQueries.specs[n].metrics
                       ELSE [c \in DOMAIN BuiltinMetricMaps[n] |-> BuiltinMetricMaps[n][c].usage]
           Metric(n, c) == /\ usage(n)[c] \notin {None, "DISCARD", "LABEL"}
                           /\ \/ FromUser(n)
                              \/ lastMapVersion \in BuiltinMetricMaps[n][c].supported
           partial == MakeDescMap(lastMapVersion, UserMetricMaps(specs))
           fresh == FreshMap(lastMapVersion)
<1>1. /\ lastMapVersion \in Versions
      /\ metricMap = MapFor(lastMapVersion, userQueries)
      /\ queryOverrides = OverridesFor(lastMapVersion, userQueries)
  BY DEF IInv, MapInv
<1>2. loaded <=> UserQueries /\ Loadable(userQueries)
  BY LoadableFacts
<1>3. DOMAIN fresh = builtin /\ (~DisableDefaultMetrics =>
                                 fresh = MakeDescMap(lastMapVersion, BuiltinMetricMaps))
  BY DescMapDomain DEF FreshMap
<1>4. DOMAIN partial = WithMetrics(specs) /\ DOMAIN UserMetricMaps(specs) = WithMetrics(specs)
  BY DescMapDomain DEF UserMetricMaps
<1>5. /\ loaded => metricMap = Merged(fresh, partial)
      /\ ~loaded => metricMap = fresh
  BY <1>1, <1>2 DEF MapFor, AddMetrics
<1> HIDE DEF loaded, partial, fresh
<1>6. DOMAIN metricMap = builtin \cup {n \in user : FromUser(n)}
  <2>1. WithMetrics(specs) \subseteq DOMAIN specs
    BY DEF WithMetrics
  <2>2. CASE loaded
    <3>1. DOMAIN metricMap = DOMAIN fresh \cup DOMAIN partial
      BY <1>5, <2>2 DEF Merged
    <3> QED BY <1>3, <1>4, <2>1, <2>2, <3>1
  <2>3. CASE ~loaded
    BY <1>3, <1>5, <2>3
  <2> QED BY <2>2, <2>3
<1>7. ASSUME NEW n \in DOMAIN metricMap
      PROVE  /\ DOMAIN metricMap[n].columnMappings = DOMAIN usage(n)
             /\ metricMap[n].labels = {c \in DOMAIN usage(n) : usage(n)[c] = "LABEL"}
             /\ \A c \in DOMAIN usage(n) :
                  metricMap[n].columnMappings[c].discard <=> ~Metric(n, c)
  <2>1. CASE FromUser(n)
    <3> DEFINE metrics == specs[n].metrics
               maps == UserMetricMaps(specs)
    <3>1. n \in DOMAIN maps /\ metricMap[n] = MakeDescMap(lastMapVersion, maps)[n]
      BY <1>4, <1>5, <2>1 DEF Merged, partial
    <3>2. maps[n] = [c \in DOMAIN metrics |-> Column(StringToColumnUsage(metrics[c]), Versions)]
      BY <1>4, <2>1 DEF UserMetricMaps
    <3>3. /\ DOMAIN maps[n] = DOMAIN metrics
          /\ \A c \in DOMAIN metrics :
               /\ maps[n][c].usage = StringToColumnUsage(metrics[c])
               /\ maps[n][c].supported = Versions
      BY <3>2 DEF Column
    <3>4. \A c \in DOMAIN metrics :
            /\ StringToColumnUsage(metrics[c]) = "LABEL" <=> metrics[c] = "LABEL"
            /\ StringToColumnUsage(metrics[c]) \in {"DISCARD", "LABEL"}
                 <=> metrics[c] \in {None, "DISCARD", "LABEL"}
      BY ConstantsAssumption DEF StringToColumnUsage, ColumnUsage
    <3> HIDE DEF maps
    <3>5. /\ DOMAIN metricMap[n].columnMappings = DOMAIN maps[n]
          /\ metricMap[n].labels = {c \in DOMAIN maps[n] : maps[n][c].usage = "LABEL"}
          /\ \A c \in DOMAIN maps[n] :
               metricMap[n].columnMappings[c].discard <=>
                 \/ lastMapVersion \notin maps[n][c].supported
                 \/ maps[n][c].usage \in {"DISCARD", "LABEL"}
      BY <3>1, DescMapFacts
    <3>6. usage(n) = metrics
      BY <2>1
    <3>7. \A c \in DOMAIN metrics : Metric(n, c) <=> metrics[c] \notin {None, "DISCARD", "LABEL"}
      BY <2>1
    <3> HIDE DEF metrics, usage, Metric
    <3>8. {c \in DOMAIN maps[n] : maps[n][c].usage = "LABEL"}
            = {c \in DOMAIN metrics : metrics[c] = "LABEL"}
      BY <3>3, <3>4
    <3>9. \A c \in DOMAIN metrics : metricMap[n].columnMappings[c].discard <=> ~Metric(n, c)
      BY <1>1, <3>3, <3>4, <3>5, <3>7
    <3> QED BY <3>3, <3>5, <3>6, <3>8, <3>9
  <2>2. CASE ~FromUser(n)
    <3>1. n \in DOMAIN fresh /\ metricMap[n] = fresh[n]
      BY <1>4, <1>5, <2>2 DEF Merged
    <3>2. /\ n \in DOMAIN BuiltinMetricMaps
          /\ metricMap[n] = MakeDescMap(lastMapVersion, BuiltinMetricMaps)[n]
      BY <1>3, <3>1
    <3> DEFINE table == BuiltinMetricMaps[n]
    <3>3. \A c \in DOMAIN table : table[c].usage \in ColumnUsage /\ table[c].usage # None
      BY <3>2, BuiltinUsage, ConstantsAssumption
    <3>4. /\ DOMAIN metricMap[n].columnMappings = DOMAIN table
          /\ metricMap[n].labels = {c \in DOMAIN table : table[c].usage = "LABEL"}
          /\ \A c \in DOMAIN table :
               metricMap[n].columnMappings[c].discard <=>
                 \/ lastMapVersion \notin table[c].supported
                 \/ table[c].usage \in {"DISCARD", "LABEL"}
      BY <3>2, DescMapFacts
    <3>5. usage(n) = [c \in DOMAIN table |-> table[c].usage]
      BY <2>2
    <3>6. DOMAIN usage(n) = DOMAIN table /\ \A c \in DOMAIN table : usage(n)[c] = table[c].usage
      BY <3>5
    <3>7. \A c : Metric(n, c) <=> /\ usage(n)[c] \notin {None, "DISCARD", "LABEL"}
                                 /\ lastMapVersion \in table[c].supported
      BY <2>2
    <3> HIDE DEF usage, Metric, table
    <3>8. {c \in DOMAIN usage(n) : usage(n)[c] = "LABEL"}
            = {c \in DOMAIN table : table[c].usage = "LABEL"}
      BY <3>6
    <3>9. \A c \in DOMAIN table : metricMap[n].columnMappings[c].discard <=> ~Metric(n, c)
      BY <3>3, <3>4, <3>6, <3>7
    <3> QED BY <3>4, <3>6, <3>8, <3>9
  <2> QED BY <2>1, <2>2
<1>8. ASSUME NEW n \in DOMAIN queryOverrides
      PROVE  IF UserQuery(n) THEN queryOverrides[n] = userQueries.specs[n].query
             ELSE \E i \in DOMAIN BuiltinOverrides[n] :
                    /\ BuiltinOverrides[n][i].query = queryOverrides[n]
                    /\ \A j \in DOMAIN BuiltinOverrides[n] :
                         lastMapVersion \in BuiltinOverrides[n][j].range <=> j = i
  <2> DEFINE freshOver == FreshOverrides(lastMapVersion)
             own == [m \in WithQuery(specs) |-> specs[m].query]
  <2>1. /\ loaded => queryOverrides = Merged(freshOver, own)
        /\ ~loaded => queryOverrides = freshOver
    BY <1>1, <1>2 DEF OverridesFor, AddOverrides
  <2>2. CASE UserQuery(n)
    BY <2>1, <2>2 DEF Merged
  <2>3. CASE ~UserQuery(n)
    <3>1. n \in DOMAIN freshOver /\ queryOverrides[n] = freshOver[n]
      BY <2>1, <2>3 DEF Merged
    <3>2. ~DisableDefaultMetrics
      BY <3>1 DEF FreshOverrides
    <3>3. freshOver = MakeQueryOverrideMap(lastMapVersion)
      BY <3>2 DEF FreshOverrides
    <3>4. n \in DOMAIN BuiltinOverrides
      BY <3>1, <3>3 DEF MakeQueryOverrideMap
    <3> QED BY <1>1, <2>3, <3>1, <3>3, <3>4, OneOverride
  <2> QED BY <2>2, <2>3
<1> QED BY <1>6, <1>7, <1>8 DEF MapsAsConfigured, loaded

-----------------------------------------------------------------------------
(***************************************************************************)
(* The rows.                                                               *)
(***************************************************************************)
LEMMA IndicesAreNumbers == IInv /\ pc = "rows" => Indices \subseteq Nat \ {0}
BY DEF IInv, PlaceInv, Indices

\* One value, and what was made of it.
LEMMA OneValue ==
  ASSUME IInv, pc = "rows", NEW r \in DOMAIN rows, NEW i \in Indices
  PROVE  LET metrics == {m \in sent : m.from = <<r, i>>}
             dropped == Known(i) /\ metricMap[ns].columnMappings[columns[i]].discard
             number == \/ rows[r][i].type \in {"int64", "float64", "time", "nil"}
                       \/ /\ rows[r][i].type \in {"bytes", "string"}
                          /\ rows[r][i].text \in Numerals
         IN /\ Cardinality(metrics) = IF number /\ ~dropped THEN 1 ELSE 0
            /\ <<r, i>> \in errors <=> ~number /\ ~dropped
<1> DEFINE metrics == {m \in sent : m.from = <<r, i>>}
           counts == i \in MetricColumns(rows[r])
           number == DbToFloat64(rows[r][i]).ok
<1>1. counts <=> ~(Known(i) /\ metricMap[ns].columnMappings[columns[i]].discard)
  BY DEF MetricColumns
<1>2. number <=> \/ rows[r][i].type \in {"int64", "float64", "time", "nil"}
                 \/ rows[r][i].type \in {"bytes", "string"} /\ rows[r][i].text \in Numerals
  BY Number
<1>3. <<r, i>> \in errors <=> counts /\ ~number
  BY DEF IInv, RowsInv
<1>4. \A m \in metrics : counts /\ number /\ m = Sample(r, i)
  <2> SUFFICES ASSUME NEW m \in metrics PROVE counts /\ number /\ m = Sample(r, i)
    OBVIOUS
  <2>1. PICK q \in DOMAIN rows : \E j \in MetricColumns(rows[q]) :
          DbToFloat64(rows[q][j]).ok /\ m = Sample(q, j)
    BY DEF IInv, RowsInv
  <2>2. PICK j \in MetricColumns(rows[q]) : DbToFloat64(rows[q][j]).ok /\ m = Sample(q, j)
    BY <2>1
  <2>3. q = r /\ j = i
    BY <2>2 DEF Sample
  <2> QED BY <2>2, <2>3
<1>5. CASE counts /\ number
  <2>1. Sample(r, i) \in sent /\ Sample(r, i).from = <<r, i>>
    BY <1>5 DEF IInv, RowsInv, Sample
  <2>2. metrics = {Sample(r, i)}
    BY <1>4, <2>1
  <2>3. Cardinality(metrics) = 1
    BY <2>2, FS_Singleton
  <2> HIDE DEF metrics, counts, number
  <2> QED BY <1>1, <1>2, <1>3, <1>5, <2>3 DEF metrics
<1>6. CASE ~(counts /\ number)
  <2>1. metrics = {}
    BY <1>4, <1>6
  <2>2. Cardinality(metrics) = 0
    BY <2>1, FS_EmptySet
  <2> HIDE DEF metrics, counts, number
  <2> QED BY <1>1, <1>2, <1>3, <1>6, <2>2 DEF metrics
<1> QED BY <1>5, <1>6

\* Every value is sent as one metric, noted as an error, or dropped with its column.
THEOREM Accounted == Spec => []ValuesAccounted
<1>1. IInv => ValuesAccounted
  BY OneValue DEF ValuesAccounted
<1> QED BY <1>1, Invariance, PTL

\* The label a metric has for a column is the text its own row has there.
LEMMA LabelFromRow ==
  ASSUME IInv, pc = "rows", NEW r \in DOMAIN rows, NEW k \in Indices, NEW i \in Indices,
         columns[i] \in DOMAIN Sample(r, k).metric.labels,
         \A j \in Indices : columns[j] = columns[i] => j <= i,
         HasText(rows[r][i])
  PROVE  Sample(r, k).metric.labels[columns[i]] = TextOf(rows[r][i])
<1>1. ColumnIdx(columns[i]) = i
  BY IndicesAreNumbers, LastColumn
<1>2. Sample(r, k).metric.labels = Labels(rows[r])
  BY DEF Sample, ColumnMetric
<1>3. Sample(r, k).metric.labels[columns[i]] = DbToString(rows[r][i])
  BY <1>1, <1>2 DEF Labels
<1> QED BY <1>3, Text

\* The labels of a metric are those of its own row.
THEOREM OwnLabels == Spec => []LabelsOfOwnRow
<1> SUFFICES IInv => LabelsOfOwnRow
  BY Invariance, PTL
<1> SUFFICES ASSUME IInv, pc = "rows", NEW m \in sent, NEW i \in Indices,
                    columns[i] \in DOMAIN m.metric.labels,
                    \A j \in Indices : columns[j] = columns[i] => j <= i,
                    HasText(rows[m.from[1]][i])
             PROVE  m.metric.labels[columns[i]] = TextOf(rows[m.from[1]][i])
  BY DEF LabelsOfOwnRow
<1>1. PICK r \in DOMAIN rows : \E k \in MetricColumns(rows[r]) : m = Sample(r, k)
  BY DEF IInv, RowsInv
<1>2. PICK k \in MetricColumns(rows[r]) : m = Sample(r, k)
  BY <1>1
<1>3. k \in Indices /\ m.from[1] = r
  BY <1>2 DEF MetricColumns, Sample
<1> QED BY <1>2, <1>3, LabelFromRow

\* Rows that differ in a label column give metrics that differ.
THEOREM AllDistinct == Spec => []NoDuplicates
<1> SUFFICES IInv => NoDuplicates
  BY Invariance, PTL
<1> DEFINE labelColumns == {i \in Indices : columns[i] \in metricMap[ns].labels}
           Differ(r, q) == \E i \in labelColumns :
                             /\ HasText(rows[r][i]) /\ HasText(rows[q][i])
                             /\ TextOf(rows[r][i]) # TextOf(rows[q][i])
<1> SUFFICES ASSUME IInv, pc = "rows",
                    \A i, j \in Indices : columns[i] = columns[j] => i = j,
                    \A r, q \in DOMAIN rows : r # q => Differ(r, q),
                    NEW m1 \in sent, NEW m2 \in sent,
                    m1.metric.name = m2.metric.name, m1.metric.labels = m2.metric.labels
             PROVE  m1 = m2
  BY DEF NoDuplicates
<1>1. ASSUME NEW m \in sent
      PROVE  \E r \in DOMAIN rows : \E k \in Indices : m = Sample(r, k)
  BY DEF IInv, RowsInv, MetricColumns
<1>2. PICK r1 \in DOMAIN rows : \E k \in Indices : m1 = Sample(r1, k)
  BY <1>1
<1>3. PICK k1 \in Indices : m1 = Sample(r1, k1)
  BY <1>2
<1>4. PICK r2 \in DOMAIN rows : \E k \in Indices : m2 = Sample(r2, k)
  BY <1>1
<1>5. PICK k2 \in Indices : m2 = Sample(r2, k2)
  BY <1>4
<1>6. k1 = k2
  <2>1. m1.metric.name[2] = columns[k1] /\ m2.metric.name[2] = columns[k2]
    BY <1>3, <1>5 DEF Sample, ColumnMetric
  <2> QED BY <2>1
<1>7. r1 = r2
  <2> SUFFICES ASSUME r1 # r2 PROVE FALSE
    OBVIOUS
  <2>1. PICK i \in labelColumns : /\ HasText(rows[r1][i]) /\ HasText(rows[r2][i])
                                  /\ TextOf(rows[r1][i]) # TextOf(rows[r2][i])
    OBVIOUS
  <2>2. \A j \in Indices : columns[j] = columns[i] => j <= i
    BY <2>1, IndicesAreNumbers
  <2>3. /\ columns[i] \in DOMAIN Sample(r1, k1).metric.labels
        /\ columns[i] \in DOMAIN Sample(r2, k2).metric.labels
    BY <2>1 DEF Sample, ColumnMetric, Labels
  <2>4. Sample(r1, k1).metric.labels[columns[i]] = TextOf(rows[r1][i])
    BY <2>1, <2>2, <2>3, LabelFromRow
  <2>5. Sample(r2, k2).metric.labels[columns[i]] = TextOf(rows[r2][i])
    BY <2>1, <2>2, <2>3, LabelFromRow
  <2> QED BY <1>3, <1>5, <2>1, <2>4, <2>5
<1> QED BY <1>3, <1>5, <1>6, <1>7

-----------------------------------------------------------------------------
(***************************************************************************)
(* The settings.                                                           *)
(***************************************************************************)
\* What a unit stands for: a kind of quantity, and a power of two that is its count of the
\* base unit.
LEMMA UnitTables ==
  /\ "" \notin DOMAIN Thousandths /\ "" \notin DOMAIN PowerOfTwo
  /\ DOMAIN CountOf \subseteq DOMAIN PowerOfTwo
  /\ DOMAIN CountOf \cap DOMAIN Thousandths = {}
BY DEF Thousandths, PowerOfTwo, CountOf

LEMMA Powers ==
  ASSUME NEW unit \in DOMAIN CountOf
  PROVE  2 ^ (PowerOfTwo[unit] - PowerOfTwo[BaseOf[unit]]) = CountOf[unit]
<1>1. 2 ^ 3 = 8 /\ 2 ^ 4 = 16 /\ 2 ^ 5 = 32 /\ 2 ^ 6 = 64
  OBVIOUS
<1>2. CASE unit = "8kB"
  <2>1. PowerOfTwo[unit] - PowerOfTwo[BaseOf[unit]] = 3 /\ CountOf[unit] = 8
    BY <1>2 DEF CountOf, BaseOf, PowerOfTwo
  <2> QED BY <1>1, <2>1
<1>3. CASE unit = "16kB"
  <2>1. PowerOfTwo[unit] - PowerOfTwo[BaseOf[unit]] = 4 /\ CountOf[unit] = 16
    BY <1>3 DEF CountOf, BaseOf, PowerOfTwo
  <2> QED BY <1>1, <2>1
<1>4. CASE unit = "32kB"
  <2>1. PowerOfTwo[unit] - PowerOfTwo[BaseOf[unit]] = 5 /\ CountOf[unit] = 32
    BY <1>4 DEF CountOf, BaseOf, PowerOfTwo
  <2> QED BY <1>1, <2>1
<1>5. CASE unit = "16MB"
  <2>1. PowerOfTwo[unit] - PowerOfTwo[BaseOf[unit]] = 4 /\ CountOf[unit] = 16
    BY <1>5 DEF CountOf, BaseOf, PowerOfTwo
  <2> QED BY <1>1, <2>1
<1>6. CASE unit = "32MB"
  <2>1. PowerOfTwo[unit] - PowerOfTwo[BaseOf[unit]] = 5 /\ CountOf[unit] = 32
    BY <1>6 DEF CountOf, BaseOf, PowerOfTwo
  <2> QED BY <1>1, <2>1
<1>7. CASE unit = "64MB"
  <2>1. PowerOfTwo[unit] - PowerOfTwo[BaseOf[unit]] = 6 /\ CountOf[unit] = 64
    BY <1>7 DEF CountOf, BaseOf, PowerOfTwo
  <2> QED BY <1>1, <2>1
<1> QED BY <1>2, <1>3, <1>4, <1>5, <1>6, <1>7 DEF CountOf

\* A setting is reported by the size of its unit, and -1 as it is.
THEOREM Normalised == Spec => []SettingsNormalised
<1> SUFFICES IInv => SettingsNormalised
  BY Invariance, PTL
<1> SUFFICES ASSUME IInv, pc = "settings", NEW m \in sent, m.from.vartype # "bool"
             PROVE  LET s == m.from
                        v == m.metric.value
                    IN /\ v.number = s.setting
                       /\ s.setting = -1 \/ s.unit = "" => v.scale = None
                       /\ s.setting # -1 =>
                            /\ m.metric.name[3] = "seconds" => v.scale = Thousandths[s.unit]
                            /\ s.unit \in DOMAIN CountOf =>
                                 2 ^ (v.scale - PowerOfTwo[BaseOf[s.unit]]) = CountOf[s.unit]
                       /\ m.metric.name[3] = "" <=> s.unit = ""
  BY DEF SettingsNormalised
<1> DEFINE s == m.from
           v == m.metric.value
<1>1. s.unit \in KnownUnits /\ m.metric = SettingMetric(s)
  BY DEF IInv, SettingsInv
<1>2. v = NormaliseUnit(s).val /\ m.metric.name[3] = NormaliseUnit(s).unit
  BY <1>1 DEF SettingMetric
<1>3. CASE s.unit = ""
  <2>1. v = [number |-> s.setting, scale |-> None]
    BY <1>2, <1>3 DEF NormaliseUnit, Unscaled
  <2>2. v.number = s.setting /\ v.scale = None
    BY <2>1
  <2>3. m.metric.name[3] = ""
    BY <1>2, <1>3 DEF NormaliseUnit
  <2>4. s.unit \notin DOMAIN CountOf
    BY <1>3, UnitTables
  <2> QED BY <1>3, <2>2, <2>3, <2>4
<1>4. CASE s.unit \in DOMAIN Thousandths
  <2>1. s.unit # "" /\ s.unit \notin DOMAIN CountOf
    BY <1>4, UnitTables
  <2>2. /\ m.metric.name[3] = "seconds"
        /\ v = IF s.setting = -1 THEN Unscaled(s.setting)
               ELSE [number |-> s.setting, scale |-> Thousandths[s.unit]]
    BY <1>2, <1>4, <2>1 DEF NormaliseUnit, Special
  <2>3. /\ v.number = s.setting
        /\ s.setting = -1 => v.scale = None
        /\ s.setting # -1 => v.scale = Thousandths[s.unit]
    BY <2>2 DEF Unscaled
  <2> QED BY <2>1, <2>2, <2>3
<1>5. CASE s.unit \in DOMAIN PowerOfTwo /\ s.unit \notin DOMAIN Thousandths
  <2>1. s.unit # ""
    BY <1>5, UnitTables
  <2>2. /\ m.metric.name[3] = "bytes"
        /\ v = IF s.setting = -1 THEN Unscaled(s.setting)
               ELSE [number |-> s.setting, scale |-> PowerOfTwo[s.unit]]
    BY <1>2, <1>5, <2>1 DEF NormaliseUnit, Special
  <2>3. /\ v.number = s.setting
        /\ s.setting = -1 => v.scale = None
        /\ s.setting # -1 => v.scale = PowerOfTwo[s.unit]
    BY <2>2 DEF Unscaled
  <2>4. s.unit \in DOMAIN CountOf =>
          2 ^ (PowerOfTwo[s.unit] - PowerOfTwo[BaseOf[s.unit]]) = CountOf[s.unit]
    BY Powers
  <2> QED BY <2>1, <2>2, <2>3, <2>4
<1> QED BY <1>1, <1>3, <1>4, <1>5 DEF KnownUnits
=============================================================================
