SPECIFICATION Spec
CONSTANTS
  None = None
  Versions <- MCVersions
  UserFiles <- MCUserFiles
  Results <- MCResults
  Data <- MCData
  Numerals <- MCNumerals
  Settings <- MCSettings
  MaxRows = 3
  DisableDefaultMetrics = FALSE
  DisableSettingsMetrics = FALSE
  UserQueries = TRUE
INVARIANTS
  TypeOK
  MapsAsConfigured
  ValuesAccounted
  LabelsOfOwnRow
  
  SettingsNormalised
