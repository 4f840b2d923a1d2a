\* Every interleaving of three requests on one session of two chunks, with failing
\* calls and restarts and, in the calm behaviours, without any.
SPECIFICATION MCSpec
CONSTANTS
  Sessions = {s1}
  Chunks = {c1, c2}
  None = None
  Requests = {r1, r2, r3}
  Faults = TRUE
  Restarts = TRUE
  Pieces = 1
  Nonces = {n1, n2, n3, n4}
SYMMETRY Symmetry
INVARIANTS TypeOK PublishedIsComplete IInv OneRowPerSession RowHasObject CompletedIsStored
  CalmStaysUsable CalmLeavesNothing
PROPERTY KeepsPromise
CHECK_DEADLOCK FALSE
