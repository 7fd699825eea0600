SPECIFICATION FairSpec
CONSTANTS
  C = {c1, c2, c3}
  Exit = {x1, x2}
  Direct = Direct
  Scopes = {"global", "proxy"}
  Cooldown = 2
  Recovery = 2
  Interval = 1
  NoToken = NoToken
INVARIANTS
  ProbeCarried
  OneRecoverySubmission
PROPERTIES
  CooldownKept
  LimitedExitRests
  GateReopens
