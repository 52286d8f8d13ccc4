SPECIFICATION FairSpec
CONSTANTS
  s1 = s1
  s2 = s2
  h1 = h1
  h2 = h2
  v1 = v1
  v2 = v2
  None = None
  Scrapers <- MCScrapers
  NumDSN = 1
  BadDSN = {}
  Handles <- MCHandles
  odd = odd
  OddVersions = {}
  Versions = {v1, v2}
  Builtin = {"stat"}
  UserNs = {"user"}
  Unsupported <- MCUnsupported
  MaxOpenConns = 1
  DisableDefaultMetrics = TRUE
  DisableSettingsMetrics = FALSE
  GaugeBound = 0
  UserQueries = FALSE
PROPERTIES
  EveryScrapeEnds
  MapsFollowServer
