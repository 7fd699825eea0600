SPECIFICATION Spec
CONSTANTS
  S = {s1}
  P = {p1, p2}
  C = {c1}
  Req = {r1, r2, r3}
  TEnv = {t1}
  QEnv = {q1}
  TSlotCap = 1
  QSlotCap = 1
  TLow = 0
  THigh = 1
  QLow = 1
  QHigh = 3
  MaxBatch = 2
  PhysicalCap = 2
  PSendCap = 1
  QPendingCap = 3
  ApiSolver = FALSE
  Target = 1
SYMMETRY Symmetry
CHECK_DEADLOCK FALSE
INVARIANTS
  PermitsConserved
  PendingConservation
  PermitForReservation
  BatchInStep
  WithinWatermarks
