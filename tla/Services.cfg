SPECIFICATION ServicesSpec
CONSTANTS
  Pid = {1, 2, 3}
  NoPid = NoPid
  Engines = {"protocol", "python", "go"}
  Supervised = TRUE
  Links = {l1, l2}
  MaxNodes = 2
  MaxActive = 0
  MaxRefreshes = 3
  Accounts = {1, 2, 3}
  NoAccount = NoAccount
  Workers = {w1, w2}
  Target = 1
  ReadsFail = FALSE
  Emails = {e1, e2}
  Local = TRUE
  MaxSyncs = 2
  MaxStarts = 2
  Jobs = {j1, j2, j3}
  NoJob = NoJob
  Loops = {g1, g2}
  QueueCap = 1
  Consumers = {c1, c2}
  Pages = {p1, p2, p3}
  NoPage = NoPage
  PoolSize = 1
  Procs = {r1, r2}
  Async = {r1}
  Threads = {1, 2}
  Inflight = 1
  Gateways = {1, 2}
  NoGateway = NoGateway
  Users = {u1, u2}
  Enrollers = 1
  Retry = 1
  Auths = {x1}
  NoAuth = NoAuth
  MaxRotations = 2
INVARIANTS
  OneOnRecord
  LinksServed
  KeysAgree
  SourceFaithful
  JobsAccounted
  PoolClean
  SolversSwept
  WatchSees
  PoolAccounted
  TokenKept
PROPERTY ReadyStays
CHECK_DEADLOCK FALSE
