SPECIFICATION Spec
CONSTANTS
  Receipts = {r1, r2}
  Batches = {b1}
  NoBatch = NoBatch
  NoOne = NoOne
  SourceCap = 1
  CompletionCap = 1
  MaxRetries = 1
  Cancels = TRUE
  MaxFaults = 2
  FaultKinds = {"foreign"}
SYMMETRY Symmetry
INVARIANTS
  OneHolder
  ProbeCarried
PROPERTY StartsJustified
