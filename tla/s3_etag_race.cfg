\* Two requests that send the same part, the second replacing the first.
SPECIFICATION Spec
CONSTANTS
  Sessions = {s1}
  Chunks = {c1}
  None = None
  Requests = {r1, r2}
  Faults = FALSE
  Restarts = FALSE
  Seals = {e1, e2, e3}
INVARIANT RecordedPartIsHeld
CHECK_DEADLOCK FALSE
