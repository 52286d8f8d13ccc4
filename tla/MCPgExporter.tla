---------------------------- MODULE MCPgExporter ----------------------------
(***************************************************************************)
(* Instances of PgExporter for TLC: two overlapping scrapes.  For one data *)
(* source two Server objects are enough: when a scrape makes a new one the *)
(* registry is empty, and only the other scrape may still use an old one.  *)
(***************************************************************************)
EXTENDS PgExporter, TLC

CONSTANTS s1, s2, h1, h2, v1, v2, odd

MCScrapers == {s1, s2}
MCHandles == {h1, h2}

\* Sound for safety: no definition tells one object, or one scrape, from another.
MCSymmetry == Permutations(MCHandles) \cup Permutations(MCScrapers)

\* The older version has no query for the builtin namespace.
MCUnsupported == {<<v1, "stat">>}
=============================================================================
