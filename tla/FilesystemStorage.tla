------------------------- MODULE FilesystemStorage -------------------------
(***************************************************************************)
(* The filesystem backend of a chunked upload                              *)
(* (internal/storage/storage_filesystem.go) under the handlers of          *)
(* ChunkHandlers.  It keeps one fsUpload per session in a map guarded by   *)
(* uploadsMutex; the map lives in memory, the .part file and the published *)
(* file on disk, so a restart loses the first and keeps the other two.     *)
(*                                                                         *)
(* A lookup under the read lock hands out a pointer: a request that has it *)
(* goes on with the session's file and received set after the session has  *)
(* left the map.  The only thing that then stops it is that the file has   *)
(* been closed: a write that starts after Close fails, one already in the  *)
(* kernel does not, and may land after the rename.                         *)
(*                                                                         *)
(* A chunk is a single sealed frame here.  io.Copy hands it to pwrite(2)   *)
(* in 32 KiB pieces, and the frame opens again only if all its pieces come *)
(* from one sealing, that is, carry the same nonce.                        *)
(***************************************************************************)
EXTENDS ChunkHandlers

CONSTANTS Pieces,  \* pwrite calls it takes to store one frame
          Nonces   \* the nonces a chunk may be sealed under

ASSUME FilesystemAssumption ==
  /\ Pieces \in Nat \ {0}
  /\ None \notin Nonces

VARIABLES registered,  \* registered[s]: does the uploads map hold s?
          open,        \* open[s]: is the fsUpload's file open?
          received,    \* received[s]: the fsUpload's received set
          disk,        \* disk[s]: where the object of s is
          data,        \* data[s][i]: the pieces of chunk i in that object
          nonce,       \* nonce[r]: what request r sealed its chunk under
          done         \* done[r]: the pieces of it request r has written

copyVars == <<nonce, done>>

storageVars == <<registered, open, received, disk, data, copyVars>>

vars == <<handlerVars, storageVars>>

(* "part": under its .part name, "final": at the path of the file record,  *)
(* "removed": unlinked.                                                    *)
DiskStates == {"none", "part", "final", "removed"}

StoragePlaces ==
  {"registering", "copying", "writing", "landing",
   "counting", "closing", "renaming", "dropping",
   "closing_part", "removing"}

PieceNumbers == 1..Pieces

Blank == [i \in Chunks |-> [p \in PieceNumbers |-> None]]

(* Every piece of the chunk has been written, by whichever requests. *)
Written(s, i) == \A p \in PieceNumbers : data[s][i][p] # None

(* The pieces all come from one sealing, so the frame can be opened. *)
Opens(s, i) == \E n \in Nonces : \A p \in PieceNumbers : data[s][i][p] = n

Places == HandlerPlaces \union StoragePlaces

TypeOK ==
  /\ row \in [Sessions -> Statuses]
  /\ overdue \in [Sessions -> BOOLEAN]
  /\ files \in [Sessions -> Nat]
  /\ answered \in [Sessions -> SUBSET Answers]
  /\ pc \in [Requests -> Places]
  /\ sess \in [Requests -> Sessions \union {None}]
  /\ chunk \in [Requests -> Chunks \union {None}]
  /\ registered \in [Sessions -> BOOLEAN]
  /\ open \in [Sessions -> BOOLEAN]
  /\ received \in [Sessions -> SUBSET Chunks]
  /\ disk \in [Sessions -> DiskStates]
  /\ data \in [Sessions -> [Chunks -> [PieceNumbers -> Nonces \union {None}]]]
  /\ nonce \in [Requests -> Nonces \union {None}]
  /\ done \in [Requests -> 0..Pieces]

Init ==
  /\ HandlersInit
  /\ registered = [s \in Sessions |-> FALSE]
  /\ open = [s \in Sessions |-> FALSE]
  /\ received = [s \in Sessions |-> {}]
  /\ disk = [s \in Sessions |-> "none"]
  /\ data = [s \in Sessions |-> Blank]
  /\ nonce = [r \in Requests |-> None]
  /\ done = [r \in Requests |-> 0]

(* The storage call returns and the handler answers, with nothing to write. *)
Replies(r) ==
  /\ Ends(r)
  /\ UNCHANGED tableVars

(* The request moves on inside the storage, or back to its handler. *)
Proceeds(r, place) ==
  /\ GoesTo(r, place)
  /\ UNCHANGED tableVars

(***************************************************************************)
(* InitChunkedUpload                                                       *)
(***************************************************************************)
CreatePartFile(r) ==
  /\ pc[r] = "init_call"
  /\ disk' = [disk EXCEPT ![sess[r]] = "part"]
  /\ data' = [data EXCEPT ![sess[r]] = Blank]
  /\ open' = [open EXCEPT ![sess[r]] = TRUE]
  /\ Proceeds(r, "registering")
  /\ UNCHANGED <<registered, received, copyVars>>

RegisterUpload(r) ==
  /\ pc[r] = "registering"
  /\ registered' = [registered EXCEPT ![sess[r]] = TRUE]
  /\ received' = [received EXCEPT ![sess[r]] = {}]
  /\ AnswerCreated(r)
  /\ UNCHANGED <<open, disk, data, copyVars>>

(***************************************************************************)
(* SaveChunk                                                               *)
(***************************************************************************)

(* A nonce nobody has used for the chunk: they are 96 random bits. *)
FreshNonce(s, i, n) ==
  /\ \A p \in PieceNumbers : data[s][i][p] # n
  /\ \A r \in Requests : sess[r] = s /\ chunk[r] = i => nonce[r] # n

(* Mutant: the chunk counts as received before it is written. *)
BeginCopyReceived(r) ==
  /\ pc[r] = "chunk_call"
  /\ registered[sess[r]]
  /\ \E n \in Nonces : FreshNonce(sess[r], chunk[r], n) /\ nonce' = [nonce EXCEPT ![r] = n]
  /\ received' = [received EXCEPT ![sess[r]] = @ \union {chunk[r]}]
  /\ Proceeds(r, "copying")
  /\ UNCHANGED <<registered, open, disk, data, done>>

BeginCopy(r) ==
  /\ pc[r] = "chunk_call"
  /\ registered[sess[r]]
  /\ \E n \in Nonces :
       /\ FreshNonce(sess[r], chunk[r], n)
       /\ nonce' = [nonce EXCEPT ![r] = n]
  /\ Proceeds(r, "copying")
  /\ UNCHANGED <<registered, open, received, disk, data, done>>

(* Mutant: the offset of the last copy is not reset. *)
EndsCopyMidway(r) == nonce' = [nonce EXCEPT ![r] = None] /\ UNCHANGED done

EndsCopy(r) ==
  /\ nonce' = [nonce EXCEPT ![r] = None]
  /\ done' = [done EXCEPT ![r] = 0]

(* The body ends early: sealNextFrame gives up before it emits anything. *)
ShortSource(r) ==
  /\ pc[r] = "copying"
  /\ done[r] = 0
  /\ EndsCopy(r)
  /\ Replies(r)
  /\ UNCHANGED <<registered, open, received, disk, data>>

(* WriteAt takes a reference to the open file, or finds it closed. *)
StartWrite(r) ==
  /\ pc[r] = "copying"
  /\ open[sess[r]]
  /\ Proceeds(r, "writing")
  /\ UNCHANGED storageVars

WriteFails(r) ==
  /\ pc[r] = "copying"
  /\ ~open[sess[r]] \/ Faults
  /\ EndsCopy(r)
  /\ Replies(r)
  /\ UNCHANGED <<registered, open, received, disk, data>>

(* Mutant: the first write of a chunk is taken for the whole of it. *)
WriteOnePiece(r) ==
  /\ pc[r] = "writing"
  /\ data' = [data EXCEPT ![sess[r]][chunk[r]][1] = nonce[r]]
  /\ Proceeds(r, "landing")
  /\ UNCHANGED <<registered, open, received, disk, nonce, done>>

WritePiece(r) ==
  /\ pc[r] = "writing"
  /\ LET piece == done[r] + 1 IN
     /\ data' = [data EXCEPT ![sess[r]][chunk[r]][piece] = nonce[r]]
     /\ done' = [done EXCEPT ![r] = piece]
     /\ Proceeds(r, IF piece = Pieces THEN "landing" ELSE "copying")
  /\ UNCHANGED <<registered, open, received, disk, nonce>>

RecordReceived(r) ==
  /\ pc[r] = "landing"
  /\ received' = [received EXCEPT ![sess[r]] = @ \union {chunk[r]}]
  /\ EndsCopy(r)
  /\ Replies(r)
  /\ UNCHANGED <<registered, open, disk, data>>

(***************************************************************************)
(* FinalizeChunkedUpload                                                   *)
(***************************************************************************)
(* Mutant: the file is closed before the chunks are counted. *)
LookUpAndClose(r) ==
  /\ pc[r] = "finalize_call"
  /\ registered[sess[r]]
  /\ open' = [open EXCEPT ![sess[r]] = FALSE]
  /\ Proceeds(r, "counting")
  /\ UNCHANGED <<registered, received, disk, data, copyVars>>

(* Mutant: a session that has left the map is taken for a finished one. *)
LookUpOrFinished(r) ==
  /\ pc[r] = "finalize_call"
  /\ Proceeds(r, IF registered[sess[r]] THEN "counting" ELSE "recording")
  /\ UNCHANGED storageVars

LookUpForFinalize(r) ==
  /\ pc[r] = "finalize_call"
  /\ registered[sess[r]]
  /\ Proceeds(r, "counting")
  /\ UNCHANGED storageVars

(* Mutant: one chunk may be missing. *)
AllButOneReceived(s) == Cardinality(received[s]) >= Cardinality(Chunks) - 1

AllReceived(s) == Cardinality(received[s]) = Cardinality(Chunks)

CountReceived(r) ==
  /\ pc[r] = "counting"
  /\ AllReceived(sess[r])
  /\ Proceeds(r, "closing")
  /\ UNCHANGED storageVars

CloseFile(r) ==
  /\ pc[r] = "closing"
  /\ open[sess[r]]
  /\ open' = [open EXCEPT ![sess[r]] = FALSE]
  /\ Proceeds(r, "renaming")
  /\ UNCHANGED <<registered, received, disk, data, copyVars>>

(* A second Close fails, and so can the first: the handle is gone either way. *)
CloseFails(r) ==
  /\ pc[r] = "closing"
  /\ ~open[sess[r]] \/ Faults
  /\ open' = [open EXCEPT ![sess[r]] = FALSE]
  /\ Replies(r)
  /\ UNCHANGED <<registered, received, disk, data, copyVars>>

RenamePart(r) ==
  /\ pc[r] = "renaming"
  /\ disk[sess[r]] = "part"
  /\ disk' = [disk EXCEPT ![sess[r]] = "final"]
  /\ Proceeds(r, "dropping")
  /\ UNCHANGED <<registered, open, received, data, copyVars>>

DropUpload(r) ==
  /\ pc[r] = "dropping"
  /\ registered' = [registered EXCEPT ![sess[r]] = FALSE]
  /\ Proceeds(r, "recording")
  /\ UNCHANGED <<open, received, disk, data, copyVars>>

(***************************************************************************)
(* AbortChunkedUpload                                                      *)
(***************************************************************************)
Deregister(r) ==
  /\ pc[r] = "abort_call"
  /\ registered' = [registered EXCEPT ![sess[r]] = FALSE]
  /\ Proceeds(r, IF registered[sess[r]] THEN "closing_part" ELSE "cancelling")
  /\ UNCHANGED <<open, received, disk, data, copyVars>>

(* Mutant: an aborted upload keeps its file open. *)
LeavePartOpen(r) ==
  /\ pc[r] = "closing_part"
  /\ Proceeds(r, "removing")
  /\ UNCHANGED storageVars

ClosePart(r) ==
  /\ pc[r] = "closing_part"
  /\ open' = [open EXCEPT ![sess[r]] = FALSE]
  /\ Proceeds(r, "removing")
  /\ UNCHANGED <<registered, received, disk, data, copyVars>>

(* Mutant: an abort removes the published file too. *)
RemoveBoth(r) ==
  /\ pc[r] = "removing"
  /\ disk' = [disk EXCEPT ![sess[r]] = "removed"]
  /\ Proceeds(r, "cancelling")
  /\ UNCHANGED <<registered, open, received, data, copyVars>>

(* A missing .part is no error; any other one is logged by the handler. *)
RemovePart(r) ==
  /\ pc[r] = "removing"
  /\ \/ disk' = [disk EXCEPT ![sess[r]] = IF @ = "part" THEN "removed" ELSE @]
     \/ Faults /\ UNCHANGED disk
  /\ Proceeds(r, "cancelling")
  /\ UNCHANGED <<registered, open, received, data, copyVars>>

(***************************************************************************)
(* The returns that find something wrong and change nothing: the file      *)
(* cannot be created, the session is not in the map, chunks are missing,   *)
(* the .part file is gone or will not be renamed.                          *)
(***************************************************************************)
StorageRefuses(r) ==
  /\ \/ pc[r] = "init_call" /\ Faults
     \/ pc[r] \in {"chunk_call", "finalize_call"} /\ ~registered[sess[r]]
     \/ pc[r] = "counting" /\ ~AllReceived(sess[r])
     \/ pc[r] = "renaming" /\ (disk[sess[r]] # "part" \/ Faults)
  /\ Replies(r)
  /\ UNCHANGED storageVars

(***************************************************************************)
(* A restart: the map, the open files and the requests are gone.           *)
(***************************************************************************)
Restart ==
  /\ HandlersDie
  /\ registered' = [s \in Sessions |-> FALSE]
  /\ open' = [s \in Sessions |-> FALSE]
  /\ received' = [s \in Sessions |-> {}]
  /\ nonce' = [r \in Requests |-> None]
  /\ done' = [r \in Requests |-> 0]
  /\ UNCHANGED <<disk, data>>

(***************************************************************************)
(* The whole.  A client may send any request about a session it knows, at  *)
(* any time and as often as it likes, and hang up in the middle of one.    *)
(***************************************************************************)
Arrives(r) ==
  /\ \E s \in Sessions :
       \/ CreateSession(r, s)
       \/ \E i \in Chunks : UploadChunk(r, s, i)
       \/ CompleteChunkedUpload(r, s)
       \/ AbortChunkedUpload(r, s)
  /\ UNCHANGED storageVars

InHandler(r) == HandlerStep(r) /\ UNCHANGED storageVars

InStorage(r) ==
  \/ CreatePartFile(r) \/ RegisterUpload(r)
  \/ BeginCopy(r) \/ StartWrite(r) \/ WriteFails(r)
  \/ WritePiece(r) \/ RecordReceived(r)
  \/ LookUpForFinalize(r) \/ CountReceived(r) \/ CloseFile(r)
  \/ CloseFails(r) \/ RenamePart(r) \/ DropUpload(r)
  \/ Deregister(r) \/ ClosePart(r) \/ RemovePart(r)
  \/ StorageRefuses(r)

TimePasses == \E s \in Sessions : Expire(s) /\ UNCHANGED storageVars

Next ==
  \/ \E r \in Requests : Arrives(r) \/ ShortSource(r) \/ InHandler(r) \/ InStorage(r)
  \/ TimePasses
  \/ Restart

Spec == Init /\ [][Next]_vars

(***************************************************************************)
(* Properties.                                                             *)
(***************************************************************************)

(* A file at its published path holds every piece of every chunk, however  *)
(* chunks, retries, completes, aborts and restarts interleaved: counting   *)
(* the chunks, closing the file and renaming it are three separate steps.  *)
PublishedIsComplete ==
  \A s \in Sessions : disk[s] = "final" => \A i \in Chunks : Written(s, i)

(* However many requests complete a session at once, one file is listed:   *)
(* only one of them gets past Close.                                       *)
OneRowPerSession == \A s \in Sessions : files[s] <= 1

(* A listed file can be downloaded: its object is published before the row *)
(* is created, and no abort takes it away.                                 *)
RowHasObject == \A s \in Sessions : files[s] > 0 => disk[s] = "final"

(* A client that was told its upload is complete, and a session marked so, *)
(* has a listed file, though crashes and failing calls can stop a complete *)
(* between publishing, recording and marking.                              *)
CompletedIsStored ==
  \A s \in Sessions :
    "completed" \in answered[s] \/ row[s] = "completed" => files[s] > 0

Untouched(s) == \A r \in Requests : sess[r] # s

(* Without faults and restarts, a session that says active can be used:    *)
(* no mix of racing requests leaves it active with its file closed, its    *)
(* .part gone or its entry dropped from the map.                           *)
ActiveIsUsable ==
  ~Faults /\ ~Restarts =>
    \A s \in Sessions :
      row[s] = "active" /\ Untouched(s) =>
        registered[s] /\ open[s] /\ disk[s] = "part"

(* Without faults and restarts, a session that has left the map leaves     *)
(* neither an open file nor a .part behind.                                *)
NoLeftovers ==
  ~Faults /\ ~Restarts =>
    \A s \in Sessions :
      ~registered[s] /\ Untouched(s) => ~open[s] /\ disk[s] # "part"

(* What storage_filesystem.go says of SaveChunk: "concurrent chunks land   *)
(* at disjoint offsets, which WriteAt handles directly", so that every     *)
(* frame of a published file opens.  It does as long as no two requests    *)
(* write one chunk at once and no write over a received one fails.         *)
PublishedFileOpens ==
  \A s \in Sessions : disk[s] = "final" => \A i \in Chunks : Opens(s, i)

(***************************************************************************)
(* The inductive invariant behind the properties above.                    *)
(***************************************************************************)
On(r, s, places) == sess[r] = s /\ pc[r] \in places

Creating == {"init_call", "registering"}

Copying == {"copying", "writing", "landing"}

Publishing == {"renaming", "dropping", "recording"}

(* A busy slot serves a session, and a chunk where the place calls for one. *)
SlotsAgree ==
  \A r \in Requests :
    /\ pc[r] = "idle" <=> sess[r] = None
    /\ pc[r] \in Copying \union {"chunk_call"} => chunk[r] \in Chunks
    /\ pc[r] \in Copying => nonce[r] \in Nonces
    /\ pc[r] \notin Copying => done[r] = 0
    /\ pc[r] \in {"copying", "writing"} => done[r] < Pieces
    /\ pc[r] = "landing" => done[r] = Pieces

(* Before its id is answered, a session is its init request's alone. *)
CreatedAlone ==
  \A s \in Sessions :
    /\ row[s] = "none" => disk[s] = "none" /\ answered[s] = {} /\ Untouched(s)
    /\ "created" \in answered[s] =>
         disk[s] # "none" /\ \A r \in Requests : ~On(r, s, Creating)
    /\ "created" \notin answered[s] =>
         /\ answered[s] = {}
         /\ ~registered[s] /\ received[s] = {} /\ files[s] = 0
         /\ disk[s] \in {"none", "part"}
         /\ row[s] \in {"none", "active"}
         /\ \A r \in Requests : sess[r] = s => pc[r] \in Creating
         /\ \A r, q \in Requests : sess[r] = s /\ sess[q] = s => r = q
    /\ \A r \in Requests :
         /\ On(r, s, {"init_call"}) => disk[s] = "none"
         /\ On(r, s, {"registering"}) => disk[s] = "part"

(* The handle is closed before the .part file goes anywhere. *)
HandleOnPart ==
  \A s \in Sessions :
    /\ open[s] => disk[s] = "part"
    /\ \A r \in Requests : On(r, s, {"removing"}) => ~open[s]

(* A chunk counts as received once all its pieces are written. *)
ReceivedIsWritten ==
  \A s \in Sessions :
    /\ \A i \in received[s] : Written(s, i)
    /\ \A r \in Requests :
         /\ On(r, s, Copying) =>
              \A p \in 1..done[r] : data[s][chunk[r]][p] # None
         /\ On(r, s, {"closing", "renaming"}) => received[s] = Chunks

(* Close admits one request per session to publishing and recording. *)
OnePublisher ==
  \A s \in Sessions :
    /\ \A r \in Requests :
         /\ On(r, s, Publishing) =>
              /\ ~open[s]
              /\ files[s] = 0
              /\ \A q \in Requests : On(q, s, Publishing) => q = r
         /\ On(r, s, {"dropping", "recording"}) => disk[s] = "final"
         /\ On(r, s, {"settling"}) => files[s] > 0

IInv ==
  /\ TypeOK
  /\ SlotsAgree
  /\ CreatedAlone
  /\ HandleOnPart
  /\ ReceivedIsWritten
  /\ OnePublisher
  /\ PublishedIsComplete
  /\ OneRowPerSession
  /\ RowHasObject
  /\ CompletedIsStored

(***************************************************************************)
(* The backend keeps the promise of UploadStore.                           *)
(***************************************************************************)
StageOf(s) ==
  CASE disk[s] = "none"    -> "unopened"
    [] disk[s] = "part"    -> "open"
    [] disk[s] = "removed" -> "discarded"
    [] disk[s] = "final"   -> IF files[s] = 0 THEN "published" ELSE "recorded"

Stage == [s \in Sessions |-> StageOf(s)]

(* What has been written to an object is of use while the object exists. *)
Landed ==
  [s \in Sessions |->
     {i \in Chunks : disk[s] \in {"part", "final"} /\ Written(s, i)}]

Promise == INSTANCE UploadStore WITH stage <- Stage, landed <- Landed

KeepsPromise == Promise!Spec
=============================================================================
