SPECIFICATION FairSpec
CONSTANTS
  Last = 2
  MaxAttempts = 2
  MaxDisturbances = 2
PROPERTIES
  UploadsAreFinalized
CHECK_DEADLOCK FALSE
