\* Two chunks, two workers, one retry each; two connections drop.
SPECIFICATION ClientSpec
CONSTANTS
  Session = s1
  Sessions = {s1}
  Chunks = {0, 1}
  None = None
  Requests = {r1, r2, r3}
  Faults = FALSE
  Restarts = FALSE
  Pieces = 2
  Nonces = {n1, n2, n3}
  Workers = {w1, w2}
  MaxRetries = 1
  MaxDrops = 2
  Straggling = FALSE
  Slow = FALSE
INVARIANTS ClientTypeOK CompleteFindsAll CleanOutcome FailsOnlyByDrops PublishedFileOpens
PROPERTIES Finishes
CHECK_DEADLOCK FALSE
