SPECIFICATION FairSpec
CONSTANTS
  Last = 1
  MaxAttempts = 2
  MaxDisturbances = 1
PROPERTY UncertainUploadIsFinalized
CHECK_DEADLOCK FALSE
