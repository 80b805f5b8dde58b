SPECIFICATION StoreSpec
CONSTANTS
  Writers = {w1, w2}
  Captures <- MCCaptures
  Contents = {"page"}
  Names = {"name1", "name2"}
  Bytes <- MCBytes
  Name <- MCName
  Nothing = Nothing
  Chunks = 2
  MaxFailures = 1
INVARIANT EveryReturnedVerifies
