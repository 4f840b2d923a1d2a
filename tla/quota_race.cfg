\* One client opens two uploads at once.
SPECIFICATION Spec
CONSTANTS
  Accounts = {a1}
  Addresses = {i1}
  Uploads = {u1, u2}
  Sizes = {2}
  Limit = 3
  Secrets = {s1}
  None = None
  Requests = {r1, r2}
  Uses = {{"InitChunkedUpload", "overlaps"}}
INVARIANTS InitsKeepQuota
CHECK_DEADLOCK FALSE
