\* Two accounts, two addresses, two requests at once; two uploads fill the quota.
SPECIFICATION Spec
CONSTANTS
  Accounts = {a1, a2}
  Addresses = {i1, i2}
  Uploads = {u1, u2}
  Sizes = {1, 2}
  Limit = 3
  Secrets = {s1}
  None = None
  Requests = {r1, r2}
  Uses = {
    {"InitChunkedUpload", "CompleteChunkedUpload", "AbortChunkedUpload"},
    {"InitChunkedUpload", "CompleteChunkedUpload", "DeleteFile"},
    {"InitChunkedUpload", "UploadFile", "clock"},
    {"InitChunkedUpload", "UploadChunk", "clock"},
    {"UploadFile", "UnlockLimits", "restarts"},
    {"UnlockLimits", "LockLimits", "restarts"},
    {"UnlockLimits", "clock"},
    {"UploadFile", "DeleteAccount"},
    {"InitChunkedUpload", "CompleteChunkedUpload", "failures"},
    {"InitChunkedUpload", "overlaps", "roaming"}}
SYMMETRY Symmetry
INVARIANTS TypeOK QuotaKept WalkFindsPool ChargedOnce
CHECK_DEADLOCK FALSE
