SPECIFICATION AnyTimeSpec
CONSTANTS
  S = {s1, s2}
  P = {p1, p2}
  C = {c1, c2}
  Req = {r1, r2}
  TEnv = {t1, t2}
  QEnv = {q1, q2}
  TSlotCap = 2
  QSlotCap = 2
  TLow = 1
  THigh = 2
  QLow = 1
  QHigh = 2
  MaxBatch = 1
  PhysicalCap = 1
  PSendCap = 1
  QPendingCap = 2
  ApiSolver = TRUE
  Target = 0
SYMMETRY Symmetry
CHECK_DEADLOCK FALSE
INVARIANTS
  SlotConservation
  TLeaseConservation
  PairOwnership
  NoPairMissed
  TimelessAdmissions
PROPERTIES
  ImplementsExchange
