SPECIFICATION FairServiceSpec
CONSTANTS
  R1 = r1
  R2 = r2
  None = none
  Old = old
  Requests <- MCRequests
  Asked <- MCAsked
  Configs <- MCConfigs
  Replies <- MCReplies
INVARIANTS
  ServiceTypeOK
  
  
  SoloFresh
  
  OnlyBrokenRepliesEnd
PROPERTIES
  StartsOrEnds
  Answered
CHECK_DEADLOCK FALSE
