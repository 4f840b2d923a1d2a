\* Calls to the disk and the database fail, the server restarts, handlers linger.
SPECIFICATION ClientSpec
CONSTANTS
  Session = s1
  Sessions = {s1}
  Chunks = {0, 1}
  None = None
  Requests = {r1, r2}
  Faults = TRUE
  Restarts = TRUE
  Pieces = 1
  Nonces = {n1, n2}
  Workers = {w1, w2}
  MaxRetries = 1
  MaxDrops = 1
  Straggling = TRUE
  Slow = TRUE
INVARIANT SucceededIsListed
PROPERTIES Finishes
CHECK_DEADLOCK FALSE
