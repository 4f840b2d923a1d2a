----------------------------- MODULE FileStore -----------------------------
(***************************************************************************)
(* The uploaded_files table and the objects its rows point to.             *)
(*                                                                         *)
(* Rows of single uploads (handlers/files.go) are deduplicated: their path *)
(* is a hash of the content, so several rows may share one object.  Rows   *)
(* of chunked uploads have an object of their own.  No transaction spans a *)
(* handler: it deletes or looks up rows, decides from what it saw, and     *)
(* only then touches the object, while other handlers do the same.         *)
(*                                                                         *)
(* A step is one database statement or one storage call.  A row that was   *)
(* deleted stays in the table with deleted_at set, and queries skip it.    *)
(***************************************************************************)
EXTENDS Integers

CONSTANTS Files,     \* file ids, that is, rows of uploaded_files
          Owners,    \* accounts
          Contents,  \* object paths of single uploads, by content
          Objects,   \* object paths of chunked uploads, by session
          None,      \* no path, no owner, no file
          Requests,  \* slots for requests in flight at once
          Uses       \* what may be going on: sets of Kinds, one per behaviour

Paths == Contents \union Objects

(* The requests, and what may go wrong: lookups that fail, other calls that *)
(* fail, restarts of the server.                                           *)
Kinds == {"UploadFile", "CompleteChunkedUpload", "UpdateFile", "DeleteFile",
          "DeleteAccount", "AdminDeleteFile", "DeleteUserFiles",
          "DeleteAllFiles", "lookup failures", "failures", "restarts"}

ASSUME FilesAssumption ==
  /\ None \notin Files \union Owners \union Paths \union Kinds
  /\ Contents \intersect Objects = {}
  /\ Uses \subseteq SUBSET Kinds

VARIABLES use,      \* the kinds of requests and faults that occur
          live,     \* live[f]: is there a row f that is not deleted?
          path,     \* path[f]: its file_path, None before it is created
          owner,    \* owner[f]: its owner_id
          reader,   \* reader[f]: the format its version selects
          blob,     \* blob[p]: what lies at path p
          account,  \* account[o]: is the users row of o still there?
          pc,       \* pc[r]: where the request in slot r is
          job,      \* job[r]: which request it is
          user,     \* user[r]: the account it acts for
          file,     \* file[r]: the row it has in hand
          target,   \* target[r]: the path it has in hand
          todo,     \* todo[r]: the rows it still has to delete
          sweep     \* sweep[r]: the objects it still has to delete

tableVars == <<live, path, owner, reader, account>>

workVars == <<file, target, todo, sweep>>

reqVars == <<pc, job, user, workVars>>

vars == <<use, tableVars, blob, reqVars>>

(* "part": being written, "mixed": by two requests at once, "whole": sealed *)
(* in one piece as files were before frames.                               *)
Formats == {"none", "part", "mixed", "framed", "whole"}

Places == {"idle", "saving", "writing", "creating", "renaming", "next",
           "deleting", "checking", "removing", "leaving", "purging", "sweeping"}

TypeOK ==
  /\ use \in Uses
  /\ live \in [Files -> BOOLEAN]
  /\ path \in [Files -> Paths \union {None}]
  /\ owner \in [Files -> Owners \union {None}]
  /\ reader \in [Files -> {"whole", "framed"}]
  /\ blob \in [Paths -> Formats]
  /\ account \in [Owners -> BOOLEAN]
  /\ pc \in [Requests -> Places]
  /\ job \in [Requests -> Kinds \union {None}]
  /\ user \in [Requests -> Owners \union {None}]
  /\ file \in [Requests -> Files \union {None}]
  /\ target \in [Requests -> Paths \union {None}]
  /\ todo \in [Requests -> SUBSET Files]
  /\ sweep \in [Requests -> SUBSET Paths]
  /\ \A f \in Files : live[f] => path[f] # None
  /\ \A f \in Files : path[f] = None <=> owner[f] = None
  /\ \A r \in Requests : pc[r] = "idle" <=> job[r] = None

(* Some single uploads were stored before the framed format came. *)
Init ==
  /\ use \in Uses
  /\ path \in [Files -> Contents \union {None}]
  /\ live = [f \in Files |-> path[f] # None]
  /\ owner \in [Files -> Owners \union {None}]
  /\ \A f \in Files : owner[f] = None <=> path[f] = None
  /\ reader = [f \in Files |-> "whole"]
  /\ blob = [p \in Paths |-> IF \E f \in Files : path[f] = p THEN "whole" ELSE "none"]
  /\ account = [o \in Owners |-> TRUE]
  /\ pc = [r \in Requests |-> "idle"]
  /\ job = [r \in Requests |-> None]
  /\ user = [r \in Requests |-> None]
  /\ file = [r \in Requests |-> None]
  /\ target = [r \in Requests |-> None]
  /\ todo = [r \in Requests |-> {}]
  /\ sweep = [r \in Requests |-> {}]

Failures == "failures" \in use

LookupFailures == "lookup failures" \in use

(* A live row that points to p. *)
Refers(f, p) == live[f] /\ path[f] = p

Referenced(p) == \E f \in Files : Refers(f, p)

(* AuthMiddleware: the account of a request exists. *)
Arrives(r, kind, o, place) ==
  /\ kind \in use
  /\ pc[r] = "idle"
  /\ o # None => account[o]
  /\ pc' = [pc EXCEPT ![r] = place]
  /\ job' = [job EXCEPT ![r] = kind]
  /\ user' = [user EXCEPT ![r] = o]

Goes(r, place) ==
  /\ pc' = [pc EXCEPT ![r] = place]
  /\ UNCHANGED <<job, user>>

Ends(r) ==
  /\ pc' = [pc EXCEPT ![r] = "idle"]
  /\ job' = [job EXCEPT ![r] = None]
  /\ user' = [user EXCEPT ![r] = None]
  /\ file' = [file EXCEPT ![r] = None]
  /\ target' = [target EXCEPT ![r] = None]
  /\ todo' = [todo EXCEPT ![r] = {}]
  /\ sweep' = [sweep EXCEPT ![r] = {}]

Loops == {"DeleteAccount", "DeleteUserFiles"}

(* Done with one file: the others follow, or the request is answered. *)
Done(r) ==
  IF job[r] \in Loops THEN Goes(r, "next") /\ UNCHANGED workVars ELSE Ends(r)

(***************************************************************************)
(* POST /api/file: a row with the same content saves writing the object.   *)
(***************************************************************************)
LookUpContent(r, o, p) ==
  \E place \in {"creating", "saving"} :
    /\ place = "creating" => Referenced(p)
    /\ place = "saving" => ~Referenced(p) \/ LookupFailures
    /\ Arrives(r, "UploadFile", o, place)
    /\ target' = [target EXCEPT ![r] = p]
    /\ UNCHANGED <<use, tableVars, blob, file, todo, sweep>>

OthersWrite(r) ==
  \E q \in Requests : q # r /\ pc[q] = "writing" /\ target[q] = target[r]

(* SaveFile: os.Create cuts what was there, then io.Copy fills it. *)
CreateObject(r) ==
  /\ pc[r] = "saving"
  /\ blob' = [blob EXCEPT ![target[r]] = IF OthersWrite(r) THEN "mixed" ELSE "part"]
  /\ Goes(r, "writing")
  /\ UNCHANGED <<use, tableVars, workVars>>

(* What can lie at the path then: nothing if it was unlinked meanwhile, and *)
(* two writers at once may leave a mix of two sealings.                    *)
AfterFill(r) ==
  IF blob[target[r]] = "none" THEN {"none"}
  ELSE IF OthersWrite(r) THEN {"mixed"}
  ELSE IF blob[target[r]] = "mixed" THEN {"mixed", "framed"}
  ELSE {"framed"}

FillObject(r) ==
  /\ pc[r] = "writing"
  /\ \E format \in AfterFill(r) : blob' = [blob EXCEPT ![target[r]] = format]
  /\ Goes(r, "creating")
  /\ UNCHANGED <<use, tableVars, workVars>>

(***************************************************************************)
(* POST /api/file/chunk/:sessionId/complete, as seen from here: the object *)
(* is published at a path of its own, then a row is created for it.        *)
(***************************************************************************)
PublishObject(r, o, p) ==
  /\ blob[p] = "none"
  /\ \A f \in Files : path[f] # p
  /\ \A q \in Requests : target[q] # p
  /\ Arrives(r, "CompleteChunkedUpload", o, "creating")
  /\ target' = [target EXCEPT ![r] = p]
  /\ blob' = [blob EXCEPT ![p] = "framed"]
  /\ UNCHANGED <<use, tableVars, file, todo, sweep>>

(* Only a chunked upload sets EncryptionVersion and ChunkCount. *)
ReaderOf(kind) == IF kind = "CompleteChunkedUpload" THEN "framed" ELSE "whole"

CreateRow(r) ==
  /\ pc[r] = "creating"
  /\ \E f \in Files :
       /\ path[f] = None
       /\ path' = [path EXCEPT ![f] = target[r]]
       /\ owner' = [owner EXCEPT ![f] = user[r]]
       /\ reader' = [reader EXCEPT ![f] = ReaderOf(job[r])]
       /\ live' = [live EXCEPT ![f] = TRUE]
  /\ Ends(r)
  /\ UNCHANGED <<use, account, blob>>

(***************************************************************************)
(* PUT /api/file: db.Save writes the row that was loaded.  If no row was   *)
(* updated, because it has been deleted since, gorm inserts it again.      *)
(***************************************************************************)

(* Mutant: a row that is not found is saved all the same. *)
LoadOrMakeForUpdate(r, o, f) ==
  /\ Arrives(r, "UpdateFile", o, "renaming")
  /\ file' = [file EXCEPT ![r] = f]
  /\ UNCHANGED <<use, tableVars, blob, target, todo, sweep>>

LoadForUpdate(r, o, f) ==
  /\ live[f]
  /\ owner[f] = o
  /\ Arrives(r, "UpdateFile", o, "renaming")
  /\ file' = [file EXCEPT ![r] = f]
  /\ UNCHANGED <<use, tableVars, blob, target, todo, sweep>>

SaveName(r) ==
  /\ pc[r] = "renaming"
  /\ live' = [live EXCEPT ![file[r]] = TRUE]
  /\ Ends(r)
  /\ UNCHANGED <<use, path, owner, reader, account, blob>>

(***************************************************************************)
(* Requests that delete.  DeleteFile looks the path of its row up, also    *)
(* for DeleteAccount, and goes on without one if there is no such row; the *)
(* admin's handlers have the row in hand.  Each deletes the row, asks      *)
(* whether another row has the path, and if not deletes the object.        *)
(***************************************************************************)
PathsSeen(f, o) ==
  (IF live[f] /\ owner[f] = o THEN {path[f]} ELSE {None})
    \union (IF LookupFailures THEN {None} ELSE {})

DeleteFile(r, o, f) ==
  /\ path[f] # None
  /\ Arrives(r, "DeleteFile", o, "deleting")
  /\ file' = [file EXCEPT ![r] = f]
  /\ \E p \in PathsSeen(f, o) : target' = [target EXCEPT ![r] = p]
  /\ UNCHANGED <<use, tableVars, blob, todo, sweep>>

AdminDeleteFile(r, f) ==
  /\ live[f]
  /\ Arrives(r, "AdminDeleteFile", None, "deleting")
  /\ file' = [file EXCEPT ![r] = f]
  /\ target' = [target EXCEPT ![r] = path[f]]
  /\ UNCHANGED <<use, tableVars, blob, todo, sweep>>

FilesOf(o) == {f \in Files : live[f] /\ owner[f] = o}

DeleteUserFiles(r, o) ==
  /\ Arrives(r, "DeleteUserFiles", o, "next")
  /\ todo' = [todo EXCEPT ![r] = FilesOf(o)]
  /\ UNCHANGED <<use, tableVars, blob, file, target, sweep>>

DeleteAccount(r, o) ==
  /\ Arrives(r, "DeleteAccount", o, "next")
  /\ todo' = [todo EXCEPT ![r] = FilesOf(o)]
  /\ UNCHANGED <<use, tableVars, blob, file, target, sweep>>

NextFile(r) ==
  /\ pc[r] = "next"
  /\ \E f \in todo[r] :
       /\ todo' = [todo EXCEPT ![r] = @ \ {f}]
       /\ file' = [file EXCEPT ![r] = f]
       /\ \E p \in IF job[r] = "DeleteAccount" THEN PathsSeen(f, user[r]) ELSE {path[f]} :
            target' = [target EXCEPT ![r] = p]
  /\ Goes(r, "deleting")
  /\ UNCHANGED <<use, tableVars, blob, sweep>>

LoopEnds(r) ==
  /\ pc[r] = "next"
  /\ todo[r] = {}
  /\ IF job[r] = "DeleteAccount"
     THEN Goes(r, "leaving") /\ UNCHANGED workVars
     ELSE Ends(r)
  /\ UNCHANGED <<use, tableVars, blob>>

(* An owner's delete names the owner, an admin's does not. *)
DeleteRow(r) ==
  /\ pc[r] = "deleting"
  /\ live' = [live EXCEPT ![file[r]] =
                @ /\ job[r] \in {"DeleteFile", "DeleteAccount"} /\ owner[file[r]] # user[r]]
  /\ Goes(r, "checking")
  /\ UNCHANGED <<use, path, owner, reader, account, blob, workVars>>

(* DeleteFile does not look at the error, the admin's handlers do. *)
DeleteRowFails(r) ==
  /\ Failures
  /\ pc[r] = "deleting"
  /\ IF job[r] \in {"DeleteFile", "DeleteAccount"}
     THEN Goes(r, "checking") /\ UNCHANGED workVars
     ELSE Done(r)
  /\ UNCHANGED <<use, tableVars, blob>>

(* Mutant: the count takes in the rows that have been deleted. *)
FindOthersEver(r) ==
  /\ pc[r] = "checking"
  /\ \E f \in Files : f # file[r] /\ path[f] = target[r]
  /\ Done(r)
  /\ UNCHANGED <<use, tableVars, blob>>

FindOthers(r) ==
  /\ pc[r] = "checking"
  /\ Referenced(target[r])
  /\ Done(r)
  /\ UNCHANGED <<use, tableVars, blob>>

(* Mutant: every row is taken for the last of its object. *)
AssumeNoOthers(r) ==
  /\ pc[r] = "checking"
  /\ Goes(r, "removing")
  /\ UNCHANGED <<use, tableVars, blob, workVars>>

(* A query that fails counts as one that found no other row. *)
FindNoOthers(r) ==
  /\ pc[r] = "checking"
  /\ ~Referenced(target[r]) \/ LookupFailures
  /\ Goes(r, "removing")
  /\ UNCHANGED <<use, tableVars, blob, workVars>>

(* Deleting at the empty path, for want of a row, hits no object. *)
RemoveObject(r) ==
  /\ pc[r] = "removing"
  /\ blob' = [p \in Paths |-> IF p = target[r] THEN "none" ELSE blob[p]]
  /\ Done(r)
  /\ UNCHANGED <<use, tableVars>>

RemoveObjectFails(r) ==
  /\ Failures
  /\ pc[r] = "removing"
  /\ Done(r)
  /\ UNCHANGED <<use, tableVars, blob>>

(* What is left of DeleteAccount: IP connections and the users row. *)
DeleteUser(r) ==
  /\ pc[r] = "leaving"
  /\ account' = [account EXCEPT ![user[r]] = FALSE]
  /\ Ends(r)
  /\ UNCHANGED <<use, live, path, owner, reader, blob>>

(* A request that had found the account before it was deleted writes the   *)
(* row back with its LastLogin, which inserts it again.                    *)
SaveUser(o) ==
  /\ ~account[o]
  /\ account' = [account EXCEPT ![o] = TRUE]
  /\ UNCHANGED <<use, live, path, owner, reader, blob, reqVars>>

(***************************************************************************)
(* DELETE /api/admin/files: list, delete every row, delete what was listed.*)
(***************************************************************************)
DeleteAllFiles(r) ==
  /\ Arrives(r, "DeleteAllFiles", None, "purging")
  /\ sweep' = [sweep EXCEPT ![r] = {p \in Paths : Referenced(p)}]
  /\ UNCHANGED <<use, tableVars, blob, file, target, todo>>

DeleteAllRows(r) ==
  /\ pc[r] = "purging"
  /\ live' = [f \in Files |-> FALSE]
  /\ Goes(r, "sweeping")
  /\ UNCHANGED <<use, path, owner, reader, account, blob, workVars>>

SweepObject(r) ==
  /\ pc[r] = "sweeping"
  /\ \E p \in sweep[r] :
       /\ sweep' = [sweep EXCEPT ![r] = @ \ {p}]
       /\ \/ blob' = [blob EXCEPT ![p] = "none"]
          \/ Failures /\ UNCHANGED blob
  /\ UNCHANGED <<use, tableVars, pc, job, user, file, target, todo>>

SweepEnds(r) ==
  /\ pc[r] = "sweeping"
  /\ sweep[r] = {}
  /\ Ends(r)
  /\ UNCHANGED <<use, tableVars, blob>>

(* The other calls that fail end their request where it stands. *)
RequestFails(r) ==
  /\ Failures
  /\ pc[r] \in {"saving", "writing", "creating", "renaming", "leaving", "purging"}
  /\ Ends(r)
  /\ UNCHANGED <<use, tableVars, blob>>

(* The process dies, and its requests with it. *)
Restart ==
  /\ "restarts" \in use
  /\ pc' = [r \in Requests |-> "idle"]
  /\ job' = [r \in Requests |-> None]
  /\ user' = [r \in Requests |-> None]
  /\ file' = [r \in Requests |-> None]
  /\ target' = [r \in Requests |-> None]
  /\ todo' = [r \in Requests |-> {}]
  /\ sweep' = [r \in Requests |-> {}]
  /\ UNCHANGED <<use, tableVars, blob>>

UserRequest(r, o) ==
  \/ \E p \in Contents : LookUpContent(r, o, p)
  \/ \E p \in Objects : PublishObject(r, o, p)
  \/ \E f \in Files : LoadForUpdate(r, o, f) \/ DeleteFile(r, o, f)
  \/ DeleteAccount(r, o)

AdminRequest(r) ==
  \/ \E f \in Files : AdminDeleteFile(r, f)
  \/ \E o \in Owners : DeleteUserFiles(r, o)
  \/ DeleteAllFiles(r)

RequestStep(r) ==
  \/ CreateObject(r) \/ FillObject(r) \/ CreateRow(r) \/ SaveName(r)
  \/ NextFile(r) \/ LoopEnds(r)
  \/ DeleteRow(r) \/ DeleteRowFails(r) \/ FindOthers(r) \/ FindNoOthers(r)
  \/ RemoveObject(r) \/ RemoveObjectFails(r) \/ DeleteUser(r)
  \/ DeleteAllRows(r) \/ SweepObject(r) \/ SweepEnds(r)
  \/ RequestFails(r)

Next ==
  \/ \E r \in Requests :
       \/ \E o \in Owners : UserRequest(r, o)
       \/ AdminRequest(r)
       \/ RequestStep(r)
  \/ \E o \in Owners : SaveUser(o)
  \/ Restart

Spec == Init /\ [][Next]_vars

(***************************************************************************)
(* Properties.                                                             *)
(***************************************************************************)

Whole(p) == blob[p] \in {"framed", "whole"}

(* A listed file has its object, however deletes of rows that share it,    *)
(* completes, failing calls and restarts interleave.  A row loses its      *)
(* object only to a lookup that fails, to a rename that brings a deleted   *)
(* row back, or to a single upload of the content that is being deleted.   *)
RowHasObject ==
  use \intersect {"lookup failures", "UpdateFile"} = {} =>
    \A f \in Files :
      live[f] /\ (path[f] \in Objects \/ "UploadFile" \notin use) => Whole(path[f])

Idle == \A r \in Requests : pc[r] = "idle"

(* No object outlives its last row: of several requests that delete rows   *)
(* of one object the last to ask finds none left, also while single        *)
(* uploads list the same content and renames bring rows back.  With        *)
(* renames this holds of the admin's deletes, which have the path in hand; *)
(* an owner's delete of a row that is brought back under it has none.      *)
NoOrphans ==
  /\ use \intersect {"lookup failures", "failures", "restarts", "DeleteAllFiles"} = {}
  /\ "UpdateFile" \in use => use \intersect {"DeleteFile", "DeleteAccount"} = {}
  => \A p \in Paths : Idle /\ blob[p] # "none" => Referenced(p)

(* GetFile picks the reader by the first row of the path, and decryptStream *)
(* by what that row says.  The object is in the format the row says.       *)
Readable(f) == blob[path[f]] \in {"framed", "whole"} => blob[path[f]] = reader[f]

(* What models.go says of EncryptionVersion: it "selects the reader used   *)
(* to decrypt this file. 0 is everything stored before the framed          *)
(* streaming format".                                                      *)
RowsReadable == \A f \in Files : live[f] => Readable(f)
=============================================================================
