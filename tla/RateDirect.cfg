SPECIFICATION Spec
CONSTANTS
  C = {c1, c2}
  Exit = {}
  Direct = Direct
  Scopes = {"proxy"}
  Cooldown = 2
  Recovery = 2
  Interval = 1
  NoToken = NoToken
PROPERTY LimitedExitRests
