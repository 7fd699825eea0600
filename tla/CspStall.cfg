SPECIFICATION Spec
CONSTANTS
  S = {s1}
  P = {p1}
  C = {c1}
  Req = {r1}
  TEnv = {t1}
  QEnv = {q1, q2}
  TSlotCap = 2
  QSlotCap = 2
  TLow = 0
  THigh = 1
  QLow = 0
  QHigh = 1
  MaxBatch = 1
  PhysicalCap = 1
  PSendCap = 1
  QPendingCap = 1
  ApiSolver = FALSE
  Target = 0
CHECK_DEADLOCK FALSE
INVARIANT NoSilentStall
