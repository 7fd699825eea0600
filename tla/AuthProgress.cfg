SPECIFICATION LiveSpec
CONSTANTS
  Receipts = {r1, r2}
  Batches = {b1, b2}
  NoBatch = NoBatch
  NoOne = NoOne
  SourceCap = 1
  CompletionCap = 1
  MaxRetries = 0
  Cancels = FALSE
  MaxFaults = 1
  FaultKinds = {"crash", "removed"}
INVARIANTS
  NothingLost
  BatchAgrees
  PendingOwned
  NoSecondImport
PROPERTIES
  ImplementsHandout
  AdmittedEnds
  ShutdownCompletes
  ClaimsComplete
