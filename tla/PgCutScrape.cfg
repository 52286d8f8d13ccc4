SPECIFICATION HSpec
CONSTANTS
  s1 = s1
  s2 = s2
  h1 = h1
  h2 = h2
  v1 = v1
  v2 = v2
  None = None
  Scrapers <- MCScrapers
  NumDSN = 1
  BadDSN = {}
  Handles <- MCHandles
  odd = odd
  OddVersions = {odd}
  Versions = {v1, v2}
  Builtin = {"stat"}
  UserNs = {"user"}
  Unsupported <- MCUnsupported
  MaxOpenConns = 2
  DisableDefaultMetrics = FALSE
  DisableSettingsMetrics = TRUE
  GaugeBound = 8
  UserQueries = FALSE
SYMMETRY MCSymmetry
INVARIANTS
  CutScrapeReportsError
