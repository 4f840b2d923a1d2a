\* Single uploads alone.
SPECIFICATION Spec
CONSTANTS
  Files = {f1}
  Owners = {o1}
  Contents = {c1}
  Objects = {b1}
  None = None
  Requests = {r1}
  Uses = {{"UploadFile"}}
INVARIANT RowsReadable
CHECK_DEADLOCK FALSE
