--------------------------- MODULE PgScrapeHistory ---------------------------
(***************************************************************************)
(* PgExporter with what its promises to the reader of one scrape are about *)
(* and the program does not remember: whether a scrape overlapped another  *)
(* one, what went wrong in it, how many data sources it reached.           *)
(***************************************************************************)
EXTENDS PgExporter

VARIABLES
  solo,        \* no other scrape has run since this one began
  failed,      \* one of its steps returned an error
  cut,         \* one of its results ended before the last row
  reached      \* how many data sources it found up

hvars == <<vars, solo, failed, cut, reached>>

HInit ==
  /\ Init
  /\ solo = [p \in Scrapers |-> FALSE]
  /\ failed = [p \in Scrapers |-> FALSE]
  /\ cut = [p \in Scrapers |-> FALSE]
  /\ reached = [p \in Scrapers |-> 0]

Starts(q) == pc[q] = "idle" /\ pc'[q] # "idle"
Ended(p) == pc'[p] = "idle"

Fails(p) ==
  \/ pc[p] \in {"geterr", "vererr", "seterr"} /\ pc'[p] # pc[p]
  \/ pc[p] = "namespace" /\ pc'[p] = "runlock" /\ nsErr[p]

\* A result that is cut looks like one that is complete: either may have happened.
LooksComplete(p) ==
  \/ pc[p] = "settingrows" /\ pc'[p] = "namespace"
  \/ pc[p] = "namespacerows" /\ pc'[p] = "namespace" /\ nsErr'[p] = nsErr[p]

Remember ==
  /\ solo' = [p \in Scrapers |->
                /\ ~Ended(p)
                /\ solo[p] \/ Starts(p)
                /\ Starts(p) => \A q \in Scrapers \ {p} : pc[q] = "idle"
                /\ \A q \in Scrapers \ {p} : ~Starts(q)]
  /\ failed' = [p \in Scrapers |-> ~Ended(p) /\ (failed[p] \/ Fails(p))]
  /\ \E lost \in BOOLEAN :
       cut' = [p \in Scrapers |-> ~Ended(p) /\ (cut[p] \/ (LooksComplete(p) /\ lost))]
  /\ reached' = [p \in Scrapers |->
                   IF Ended(p) THEN 0
                   ELSE IF pc[p] = "markup" /\ pc'[p] # "markup" THEN reached[p] + 1
                   ELSE reached[p]]

HNext == Next /\ Remember

HSpec == HInit /\ [][HNext]_hvars

-----------------------------------------------------------------------------
\* A scrape that had the exporter to itself reports an error if, and only if, one of its
\* steps failed, and the number of data sources it reached (Collect, scrape).
GaugesTruthful ==
  \A p \in Scrapers : solo[p] /\ pc[p] = "report" =>
    /\ errorGauge > 0 <=> failed[p]
    /\ psqlUp = reached[p]

\* A scrape that had the exporter to itself queries with the maps of the version it has
\* just read (the promise of lastMapVersion: "If mismatch on scrape, then maps are
\* recalculated").
SoloMapsCurrent ==
  \A p \in Scrapers : solo[p] /\ pc[p] \in Reading /\ ver[p] # None =>
    srv[hnd[p]].lastMapVersion = ver[p]

(***************************************************************************)
(* What the documentation says, and a broken scrape refutes.               *)
(***************************************************************************)
\* "Whether the last scrape of metrics from PostgreSQL resulted in an error (1 for error, 0
\* for success)" (setupInternalMetrics, help of last_scrape_error): so does a scrape whose
\* result was cut short by a lost connection.
CutScrapeReportsError ==
  \A p \in Scrapers : solo[p] /\ pc[p] = "report" /\ cut[p] => errorGauge > 0
=============================================================================
