SPECIFICATION FairSpec
CONSTANTS
  None = None
  Failed = Failed
CHECK_DEADLOCK FALSE
PROPERTIES RunsEnd 
