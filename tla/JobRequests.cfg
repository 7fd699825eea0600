SPECIFICATION JobRunnerSpec
CONSTANTS
  Handlers = {h1, h2}
  Threads = {t1, t2, t3}
  Free = Free
PROPERTY RequestsAnswered
CHECK_DEADLOCK FALSE
