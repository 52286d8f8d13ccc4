-------------------------- MODULE MCPgScrapeHistory --------------------------
(***************************************************************************)
(* The instances of MCPgExporter, with the history of PgScrapeHistory.     *)
(***************************************************************************)
EXTENDS PgScrapeHistory, MCPgExporter
=============================================================================
