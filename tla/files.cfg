\* Two rows that may share an object, three requests at once.
SPECIFICATION Spec
CONSTANTS
  Files = {f1, f2}
  Owners = {o1}
  Contents = {c1}
  Objects = {b1}
  None = None
  Requests = {r1, r2, r3}
  Uses = {
    {"CompleteChunkedUpload", "DeleteFile", "DeleteAccount", "AdminDeleteFile",
     "DeleteAllFiles", "failures", "restarts"},
    {"UploadFile", "CompleteChunkedUpload", "DeleteFile", "DeleteUserFiles"},
    {"CompleteChunkedUpload", "UpdateFile", "AdminDeleteFile", "DeleteUserFiles"}}
SYMMETRY Symmetry
INVARIANTS TypeOK RowHasObject NoOrphans
CHECK_DEADLOCK FALSE
