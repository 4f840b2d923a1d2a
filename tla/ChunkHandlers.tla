--------------------------- MODULE ChunkHandlers ---------------------------
(***************************************************************************)
(* The HTTP handlers of a chunked upload (internal/handlers/chunks.go) and *)
(* the two database tables they write: upload_sessions and uploaded_files. *)
(*                                                                         *)
(* A request runs in a goroutine of its own, so every database statement   *)
(* is a step and the steps of concurrent requests interleave.  A handler   *)
(* keeps the session row it loaded in memory and db.Save writes that copy  *)
(* back whole, so the last writer of a row wins.  The steps inside the     *)
(* storage backend, between the handler's call and its return, are in the  *)
(* module that EXTENDS this one.                                           *)
(*                                                                         *)
(* A request that is refused without changing anything (400, 404, 413,     *)
(* 429) is no step.  The session id is a UUID and the path a hash of it,   *)
(* so sessions share nothing but the code.                                 *)
(***************************************************************************)
EXTENDS Integers, FiniteSets

CONSTANTS Sessions,   \* the upload sessions that may be opened
          Chunks,     \* chunk numbers of every session
          None,       \* no session, no chunk, nothing written
          Requests,   \* slots for requests in flight at once
          Faults,     \* may a database or storage call fail?
          Restarts    \* may the server be restarted?

ASSUME HandlersAssumption ==
  /\ None \notin Sessions \union Chunks
  /\ IsFiniteSet(Chunks)
  /\ Chunks # {}
  /\ Faults \in BOOLEAN
  /\ Restarts \in BOOLEAN

VARIABLES row,       \* row[s]: status column of the upload_sessions row of s
          overdue,   \* overdue[s]: is the clock past ExpiresAt?
          files,     \* files[s]: uploaded_files rows that name the object of s
          answered,  \* answered[s]: the answers the handlers gave about s
          pc,        \* pc[r]: where the request in slot r is
          sess,      \* sess[r]: the session it names
          chunk      \* chunk[r]: the chunk number it carries, if any

tableVars == <<row, overdue, files, answered>>

reqVars == <<pc, sess, chunk>>

handlerVars == <<tableVars, reqVars>>

Statuses == {"none", "active", "completed", "cancelled", "expired"}

Answers == {"created", "completed", "cancelled"}

(* Where a handler can be between two of its own steps.  The "call" places *)
(* are those where it has called the storage backend.                      *)
HandlerPlaces ==
  {"idle", "init_call", "expiring", "chunk_call", "finalize_call",
   "recording", "settling", "abort_call", "cancelling"}

(* The steps a request takes: in, to its next place, and out. *)
Starts(r, place, s, i) ==
  /\ pc[r] = "idle"
  /\ pc' = [pc EXCEPT ![r] = place]
  /\ sess' = [sess EXCEPT ![r] = s]
  /\ chunk' = [chunk EXCEPT ![r] = i]

GoesTo(r, place) ==
  /\ pc' = [pc EXCEPT ![r] = place]
  /\ UNCHANGED <<sess, chunk>>

Ends(r) ==
  /\ pc' = [pc EXCEPT ![r] = "idle"]
  /\ sess' = [sess EXCEPT ![r] = None]
  /\ chunk' = [chunk EXCEPT ![r] = None]

HandlersInit ==
  /\ row = [s \in Sessions |-> "none"]
  /\ overdue = [s \in Sessions |-> FALSE]
  /\ files = [s \in Sessions |-> 0]
  /\ answered = [s \in Sessions |-> {}]
  /\ pc = [r \in Requests |-> "idle"]
  /\ sess = [r \in Requests |-> None]
  /\ chunk = [r \in Requests |-> None]

(***************************************************************************)
(* loadActiveSession: the client must have been told of the session, and   *)
(* its row must say "active".                                              *)
(***************************************************************************)
LoadActiveSession(s) ==
  /\ "created" \in answered[s]
  /\ row[s] = "active"

(***************************************************************************)
(* POST /api/file/chunk/init: the row is created before the storage is     *)
(* asked for anything, and stays if the storage refuses.                   *)
(***************************************************************************)
CreateSession(r, s) ==
  /\ row[s] = "none"
  /\ Starts(r, "init_call", s, None)
  /\ row' = [row EXCEPT ![s] = "active"]
  /\ UNCHANGED <<overdue, files, answered>>

(* Returning 200 from init: the client learns the session id. *)
AnswerCreated(r) ==
  /\ answered' = [answered EXCEPT ![sess[r]] = @ \union {"created"}]
  /\ Ends(r)
  /\ UNCHANGED <<row, overdue, files>>

(***************************************************************************)
(* POST /api/file/chunk/:sessionId/:chunkNumber                            *)
(***************************************************************************)
UploadChunk(r, s, i) ==
  /\ LoadActiveSession(s)
  /\ Starts(r, IF overdue[s] THEN "expiring" ELSE "chunk_call", s,
               IF overdue[s] THEN None ELSE i)
  /\ UNCHANGED tableVars

(* db.Save; its error is not looked at. *)
SaveStatus(s, status) ==
  \/ row' = [row EXCEPT ![s] = status]
  \/ Faults /\ UNCHANGED row

(* 410: only the row is touched, the storage is not told. *)
ExpireSession(r) ==
  /\ pc[r] = "expiring"
  /\ SaveStatus(sess[r], "expired")
  /\ Ends(r)
  /\ UNCHANGED <<overdue, files, answered>>

(***************************************************************************)
(* POST /api/file/chunk/:sessionId/complete                                *)
(***************************************************************************)
CompleteChunkedUpload(r, s) ==
  /\ LoadActiveSession(s)
  /\ Starts(r, "finalize_call", s, None)
  /\ UNCHANGED tableVars

(* Once the object is published: db.Create(fileToCreate), which may fail. *)
CreateFileRecord(r) ==
  /\ pc[r] = "recording"
  /\ files' = [files EXCEPT ![sess[r]] = @ + 1]
  /\ GoesTo(r, "settling")
  /\ UNCHANGED <<row, overdue, answered>>

(* Mutant: the error of db.Create is not looked at. *)
FileRecordFailsUnnoticed(r) ==
  /\ Faults
  /\ pc[r] = "recording"
  /\ GoesTo(r, "settling")
  /\ UNCHANGED tableVars

FileRecordFails(r) ==
  /\ Faults
  /\ pc[r] = "recording"
  /\ Ends(r)
  /\ UNCHANGED tableVars

MarkCompleted(r) ==
  /\ pc[r] = "settling"
  /\ SaveStatus(sess[r], "completed")
  /\ answered' = [answered EXCEPT ![sess[r]] = @ \union {"completed"}]
  /\ Ends(r)
  /\ UNCHANGED <<overdue, files>>

(***************************************************************************)
(* DELETE /api/file/chunk/:sessionId                                       *)
(***************************************************************************)
AbortChunkedUpload(r, s) ==
  /\ LoadActiveSession(s)
  /\ Starts(r, "abort_call", s, None)
  /\ UNCHANGED tableVars

(* Whatever the storage said. *)
MarkCancelled(r) ==
  /\ pc[r] = "cancelling"
  /\ SaveStatus(sess[r], "cancelled")
  /\ answered' = [answered EXCEPT ![sess[r]] = @ \union {"cancelled"}]
  /\ Ends(r)
  /\ UNCHANGED <<overdue, files>>

(***************************************************************************)
(* The clock passes ExpiresAt.                                             *)
(***************************************************************************)
Expire(s) ==
  /\ row[s] = "active"
  /\ ~overdue[s]
  /\ overdue' = [overdue EXCEPT ![s] = TRUE]
  /\ UNCHANGED <<row, files, answered, reqVars>>

(* The process dies: the requests with it, not the database. *)
HandlersDie ==
  /\ Restarts
  /\ pc' = [r \in Requests |-> "idle"]
  /\ sess' = [r \in Requests |-> None]
  /\ chunk' = [r \in Requests |-> None]
  /\ UNCHANGED tableVars

(* The steps a handler takes on its own account. *)
HandlerStep(r) ==
  \/ ExpireSession(r)
  \/ CreateFileRecord(r)
  \/ FileRecordFails(r)
  \/ MarkCompleted(r)
  \/ MarkCancelled(r)
=============================================================================
