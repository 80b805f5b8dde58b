SPECIFICATION FollowedSpec
CONSTANTS
  Writers = {w1, w2}
  Captures <- MCCaptures
  Contents = {"page"}
  Names = {"name1", "name2"}
  Bytes <- MCBytes
  Name <- MCName
  Nothing = Nothing
  Chunks = 2
  MaxFailures = 2
  Last = 3
  MaxAttempts = 2
  MaxDisturbances = 2
SYMMETRY MCSymmetry
INVARIANTS
  StoredIsWhole
  OnlyRealConflicts
  DeployedOnceOnEvidence
  OlderDeploymentsVerified
  ProductionIsCanonical
  SuccessIsVerified
PROPERTIES
  InstalledNeverChanges
  NothingRegresses
  ImplementsContract
CHECK_DEADLOCK FALSE
