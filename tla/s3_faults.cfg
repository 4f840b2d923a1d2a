\* Failing calls, lost answers and restarts.
SPECIFICATION Spec
CONSTANTS
  Sessions = {s1}
  Chunks = {c1, c2}
  None = None
  Requests = {r1, r2, r3}
  Faults = TRUE
  Restarts = TRUE
  Seals = {e1, e2, e3}
SYMMETRY Symmetry
INVARIANTS IInv OneRowPerSession RowHasObject CompletedIsStored
PROPERTY KeepsPromise
CHECK_DEADLOCK FALSE
