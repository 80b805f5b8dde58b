SPECIFICATION Spec
CONSTANTS
  Last = 2
  MaxAttempts = 2
  MaxDisturbances = 0
INVARIANT RerunUploadsWhenEnabled
CHECK_DEADLOCK FALSE
