----------------------------- MODULE S3Storage -----------------------------
(***************************************************************************)
(* The S3 backend of a chunked upload (internal/storage/storage_s3.go)     *)
(* under the handlers of ChunkHandlers.  A session is a multipart upload   *)
(* against the final key and a chunk is a part of it; what the server has  *)
(* to keep is the upload id and the ETag of every part, and it keeps them  *)
(* in memory only.                                                         *)
(*                                                                         *)
(* The store is a party of its own.  It takes a part whole or not at all,  *)
(* the last upload of a part number wins, and it completes an upload only  *)
(* against the ETags of the parts it holds.  With Faults its answer to a   *)
(* call it carried out may be lost, and the call then counts as failed.    *)
(* A chunk is sealed anew for every request, so its ETag is too.           *)
(***************************************************************************)
EXTENDS ChunkHandlers

CONSTANT Seals  \* the sealings of a chunk, and the ETags of its parts

ASSUME S3Assumption == None \notin Seals

VARIABLES registered,  \* registered[s]: does the uploads map hold s?
          parts,       \* parts[s][i]: the ETag recorded for chunk i
          multipart,   \* multipart[s]: the state of the upload in the store
          bucket,      \* bucket[s][i]: the part of chunk i in the store
          seal,        \* seal[r]: what request r sealed its chunk under
          listed       \* listed[r]: the ETags a finalize goes on with

storeVars == <<multipart, bucket>>

storageVars == <<registered, parts, storeVars, seal, listed>>

vars == <<handlerVars, storageVars>>

UploadStates == {"none", "open", "completed", "aborted"}

StoragePlaces ==
  {"registering", "streaming", "replaying", "stored",
   "completing", "dropping", "aborting"}

Places == HandlerPlaces \union StoragePlaces

PartLists == [Chunks -> Seals \union {None}]

NoParts == [i \in Chunks |-> None]

TypeOK ==
  /\ row \in [Sessions -> Statuses]
  /\ overdue \in [Sessions -> BOOLEAN]
  /\ files \in [Sessions -> Nat]
  /\ answered \in [Sessions -> SUBSET Answers]
  /\ pc \in [Requests -> Places]
  /\ sess \in [Requests -> Sessions \union {None}]
  /\ chunk \in [Requests -> Chunks \union {None}]
  /\ registered \in [Sessions -> BOOLEAN]
  /\ parts \in [Sessions -> PartLists]
  /\ multipart \in [Sessions -> UploadStates]
  /\ bucket \in [Sessions -> PartLists]
  /\ seal \in [Requests -> Seals \union {None}]
  /\ listed \in [Requests -> PartLists]

Init ==
  /\ HandlersInit
  /\ registered = [s \in Sessions |-> FALSE]
  /\ parts = [s \in Sessions |-> NoParts]
  /\ multipart = [s \in Sessions |-> "none"]
  /\ bucket = [s \in Sessions |-> NoParts]
  /\ seal = [r \in Requests |-> None]
  /\ listed = [r \in Requests |-> NoParts]

(* The storage call returns and the handler answers, with nothing to write. *)
Replies(r) ==
  /\ Ends(r)
  /\ UNCHANGED tableVars

(* The request moves on inside the storage, or back to its handler. *)
Proceeds(r, place) ==
  /\ GoesTo(r, place)
  /\ UNCHANGED tableVars

(* The store answers, or its answer is lost and the call has failed. *)
Answered(r, place) ==
  \/ Proceeds(r, place)
  \/ Faults /\ Replies(r)

(***************************************************************************)
(* InitChunkedUpload                                                       *)
(***************************************************************************)
CreateMultipartUpload(r) ==
  /\ pc[r] = "init_call"
  /\ multipart' = [multipart EXCEPT ![sess[r]] = "open"]
  /\ Answered(r, "registering")
  /\ UNCHANGED <<registered, parts, bucket, seal, listed>>

RegisterUpload(r) ==
  /\ pc[r] = "registering"
  /\ registered' = [registered EXCEPT ![sess[r]] = TRUE]
  /\ parts' = [parts EXCEPT ![sess[r]] = NoParts]
  /\ AnswerCreated(r)
  /\ UNCHANGED <<storeVars, seal, listed>>

(***************************************************************************)
(* SaveChunk.  The part streams to the store and into a spool file on the  *)
(* way past.  The stream can be sent only once; if it fails after the      *)
(* spool has the whole part, the part is sent again from there, sealed as  *)
(* it was.                                                                 *)
(***************************************************************************)
FreshSeal(s, i, n) ==
  /\ parts[s][i] # n
  /\ bucket[s][i] # n
  /\ \A r \in Requests : listed[r][i] # n
  /\ \A r \in Requests : sess[r] = s /\ chunk[r] = i => seal[r] # n

BeginPart(r) ==
  /\ pc[r] = "chunk_call"
  /\ registered[sess[r]]
  /\ \E n \in Seals :
       /\ FreshSeal(sess[r], chunk[r], n)
       /\ seal' = [seal EXCEPT ![r] = n]
  /\ Proceeds(r, "streaming")
  /\ UNCHANGED <<registered, parts, storeVars, listed>>

(* The store takes the part, from the stream or from the spool. *)
Stores(r) ==
  /\ multipart[sess[r]] = "open"
  /\ bucket' = [bucket EXCEPT ![sess[r]][chunk[r]] = seal[r]]
  /\ UNCHANGED <<registered, parts, multipart, listed>>

UploadPart(r) ==
  /\ pc[r] \in {"streaming", "replaying"}
  /\ Stores(r)
  /\ Proceeds(r, "stored")
  /\ UNCHANGED seal

(* The answer is lost; only the stream's failure is followed by a replay. *)
UploadPartUnanswered(r) ==
  /\ Faults
  /\ pc[r] \in {"streaming", "replaying"}
  /\ Stores(r)
  /\ IF pc[r] = "streaming"
     THEN Proceeds(r, "replaying") /\ UNCHANGED seal
     ELSE Replies(r) /\ seal' = [seal EXCEPT ![r] = None]

Refusing(s) == multipart[s] # "open" \/ Faults

(* The store refuses the stream after it was spooled whole. *)
StreamFails(r) ==
  /\ pc[r] = "streaming"
  /\ Refusing(sess[r])
  /\ Proceeds(r, "replaying")
  /\ UNCHANGED storageVars

(* The body ends early, or the store refuses before the spool has the part. *)
NothingToReplay(r) ==
  /\ pc[r] = "streaming"
  /\ Replies(r)
  /\ seal' = [seal EXCEPT ![r] = None]
  /\ UNCHANGED <<registered, parts, storeVars, listed>>

ReplayFails(r) ==
  /\ pc[r] = "replaying"
  /\ Refusing(sess[r])
  /\ Replies(r)
  /\ seal' = [seal EXCEPT ![r] = None]
  /\ UNCHANGED <<registered, parts, storeVars, listed>>

RecordPart(r) ==
  /\ pc[r] = "stored"
  /\ parts' = [parts EXCEPT ![sess[r]][chunk[r]] = seal[r]]
  /\ seal' = [seal EXCEPT ![r] = None]
  /\ Replies(r)
  /\ UNCHANGED <<registered, storeVars, listed>>

(***************************************************************************)
(* FinalizeChunkedUpload: the parts are copied and counted under the lock, *)
(* and the store is asked after it has been released.                      *)
(***************************************************************************)
(* Mutant: one chunk may be missing. *)
AllButOneRecorded(s) == Cardinality({i \in Chunks : parts[s][i] = None}) <= 1

AllRecorded(s) == \A i \in Chunks : parts[s][i] # None

(* Mutant: the parts are taken without being counted. *)
TakeSomeParts(r) ==
  /\ pc[r] = "finalize_call"
  /\ registered[sess[r]]
  /\ listed' = [listed EXCEPT ![r] = parts[sess[r]]]
  /\ Proceeds(r, "completing")
  /\ UNCHANGED <<registered, parts, storeVars, seal>>

TakeParts(r) ==
  /\ pc[r] = "finalize_call"
  /\ registered[sess[r]]
  /\ AllRecorded(sess[r])
  /\ listed' = [listed EXCEPT ![r] = parts[sess[r]]]
  /\ Proceeds(r, "completing")
  /\ UNCHANGED <<registered, parts, storeVars, seal>>

(* The store completes an upload against the parts it holds. *)
Completes(s, list) == multipart[s] = "open" /\ bucket[s] = list

CompleteMultipartUpload(r) ==
  /\ pc[r] = "completing"
  /\ Completes(sess[r], listed[r])
  /\ multipart' = [multipart EXCEPT ![sess[r]] = "completed"]
  /\ Answered(r, "dropping")
  /\ listed' = [listed EXCEPT ![r] = NoParts]
  /\ UNCHANGED <<registered, parts, bucket, seal>>

(* Mutant: an upload the store has completed before counts as a success. *)
CompleteFailsOnce(r) ==
  /\ pc[r] = "completing"
  /\ ~Completes(sess[r], listed[r])
  /\ IF multipart[sess[r]] = "completed" THEN Proceeds(r, "dropping") ELSE Replies(r)
  /\ listed' = [listed EXCEPT ![r] = NoParts]
  /\ UNCHANGED <<registered, parts, storeVars, seal>>

(* Mutant: the error of the store is not looked at. *)
CompleteFailsUnnoticed(r) ==
  /\ pc[r] = "completing"
  /\ ~Completes(sess[r], listed[r]) \/ Faults
  /\ Proceeds(r, "dropping")
  /\ listed' = [listed EXCEPT ![r] = NoParts]
  /\ UNCHANGED <<registered, parts, storeVars, seal>>

CompleteFails(r) ==
  /\ pc[r] = "completing"
  /\ ~Completes(sess[r], listed[r]) \/ Faults
  /\ Replies(r)
  /\ listed' = [listed EXCEPT ![r] = NoParts]
  /\ UNCHANGED <<registered, parts, storeVars, seal>>

DropUpload(r) ==
  /\ pc[r] = "dropping"
  /\ registered' = [registered EXCEPT ![sess[r]] = FALSE]
  /\ Proceeds(r, "recording")
  /\ UNCHANGED <<parts, storeVars, seal, listed>>

(***************************************************************************)
(* AbortChunkedUpload                                                      *)
(***************************************************************************)
Deregister(r) ==
  /\ pc[r] = "abort_call"
  /\ registered' = [registered EXCEPT ![sess[r]] = FALSE]
  /\ Proceeds(r, IF registered[sess[r]] THEN "aborting" ELSE "cancelling")
  /\ UNCHANGED <<parts, storeVars, seal, listed>>

AbortMultipartUpload(r) ==
  /\ pc[r] = "aborting"
  /\ multipart[sess[r]] = "open"
  /\ multipart' = [multipart EXCEPT ![sess[r]] = "aborted"]
  /\ bucket' = [bucket EXCEPT ![sess[r]] = NoParts]
  /\ Proceeds(r, "cancelling")
  /\ UNCHANGED <<registered, parts, seal, listed>>

(* The handler logs the failure and goes on. *)
AbortFails(r) ==
  /\ pc[r] = "aborting"
  /\ Refusing(sess[r])
  /\ Proceeds(r, "cancelling")
  /\ UNCHANGED storageVars

(***************************************************************************)
(* The returns that find something wrong and change nothing.               *)
(***************************************************************************)
StorageRefuses(r) ==
  /\ \/ pc[r] = "init_call" /\ Faults
     \/ pc[r] \in {"chunk_call", "finalize_call"} /\ ~registered[sess[r]]
     \/ pc[r] = "finalize_call" /\ ~AllRecorded(sess[r])
  /\ Replies(r)
  /\ UNCHANGED storageVars

(* A restart loses the map and the spool files, not what the store holds. *)
Restart ==
  /\ HandlersDie
  /\ registered' = [s \in Sessions |-> FALSE]
  /\ parts' = [s \in Sessions |-> NoParts]
  /\ seal' = [r \in Requests |-> None]
  /\ listed' = [r \in Requests |-> NoParts]
  /\ UNCHANGED storeVars

(***************************************************************************)
(* The whole.  Clients are as free as in FilesystemStorage.                *)
(***************************************************************************)
Arrives(r) ==
  /\ \E s \in Sessions :
       \/ CreateSession(r, s)
       \/ \E i \in Chunks : UploadChunk(r, s, i)
       \/ CompleteChunkedUpload(r, s)
       \/ AbortChunkedUpload(r, s)
  /\ UNCHANGED storageVars

InHandler(r) == HandlerStep(r) /\ UNCHANGED storageVars

InStorage(r) ==
  \/ CreateMultipartUpload(r) \/ RegisterUpload(r)
  \/ BeginPart(r) \/ UploadPart(r) \/ UploadPartUnanswered(r)
  \/ StreamFails(r) \/ NothingToReplay(r) \/ ReplayFails(r) \/ RecordPart(r)
  \/ TakeParts(r) \/ CompleteMultipartUpload(r) \/ CompleteFails(r)
  \/ DropUpload(r)
  \/ Deregister(r) \/ AbortMultipartUpload(r) \/ AbortFails(r)
  \/ StorageRefuses(r)

TimePasses == \E s \in Sessions : Expire(s) /\ UNCHANGED storageVars

Next ==
  \/ \E r \in Requests : Arrives(r) \/ InHandler(r) \/ InStorage(r)
  \/ TimePasses
  \/ Restart

Spec == Init /\ [][Next]_vars

(***************************************************************************)
(* Properties: what FilesystemStorage promises too, resting here on the    *)
(* store, which completes an upload once.                                  *)
(***************************************************************************)
Untouched(s) == \A r \in Requests : sess[r] # s

(* A completed object has a part for every chunk, however parts, retries,  *)
(* replays, completes, aborts and restarts interleaved.                    *)
ObjectIsComplete ==
  \A s \in Sessions :
    multipart[s] = "completed" => \A i \in Chunks : bucket[s][i] # None

(* However many requests complete a session at once, one file is listed.   *)
OneRowPerSession == \A s \in Sessions : files[s] <= 1

(* A listed file has its object: the row comes after the store's answer,   *)
(* and no abort takes a completed object away.                             *)
RowHasObject == \A s \in Sessions : files[s] > 0 => multipart[s] = "completed"

(* A client that was told its upload is complete, and a session marked so, *)
(* has a listed file, though answers are lost between the store and the    *)
(* server and the server may stop between completing and recording.        *)
CompletedIsStored ==
  \A s \in Sessions :
    "completed" \in answered[s] \/ row[s] = "completed" => files[s] > 0

(* What storage_s3.go says of sending a part again: "Re-uploading a part   *)
(* replaces it rather than adding a duplicate, so this is safe to do at    *)
(* any point".  So once the requests are over the server knows the ETag    *)
(* of the part the store holds, and the session can be completed.          *)
RecordedPartIsHeld ==
  \A s \in Sessions : registered[s] /\ Untouched(s) =>
    \A i \in Chunks : parts[s][i] # None => parts[s][i] = bucket[s][i]

(***************************************************************************)
(* The inductive invariant behind the properties above.                    *)
(***************************************************************************)
On(r, s, places) == sess[r] = s /\ pc[r] \in places

Creating == {"init_call", "registering"}

Sending == {"streaming", "replaying", "stored"}

Recording == {"dropping", "recording"}

(* A busy slot serves a session, and a chunk where the place calls for one. *)
SlotsAgree ==
  \A r \in Requests :
    /\ pc[r] = "idle" <=> sess[r] = None
    /\ pc[r] \in Sending \union {"chunk_call"} => chunk[r] \in Chunks
    /\ pc[r] \in Sending => seal[r] # None
    /\ pc[r] = "completing" => \A i \in Chunks : listed[r][i] # None

(* Before its id is answered, a session is its init request's alone. *)
CreatedAlone ==
  \A s \in Sessions :
    /\ row[s] = "none" => multipart[s] = "none" /\ answered[s] = {} /\ Untouched(s)
    /\ "created" \in answered[s] =>
         multipart[s] # "none" /\ \A r \in Requests : ~On(r, s, Creating)
    /\ "created" \notin answered[s] =>
         /\ answered[s] = {}
         /\ ~registered[s] /\ files[s] = 0
         /\ multipart[s] \in {"none", "open"}
         /\ row[s] \in {"none", "active"}
         /\ \A r \in Requests : sess[r] = s => pc[r] \in Creating
         /\ \A r, q \in Requests : sess[r] = s /\ sess[q] = s => r = q
    /\ \A r \in Requests :
         /\ On(r, s, {"init_call"}) => multipart[s] = "none"
         /\ On(r, s, {"registering"}) => multipart[s] = "open"

(* The store completes an upload for one request, which records it. *)
OneRecorder ==
  \A s \in Sessions : \A r \in Requests :
    /\ On(r, s, Recording) =>
         /\ multipart[s] = "completed"
         /\ files[s] = 0
         /\ \A q \in Requests : On(q, s, Recording) => q = r
    /\ On(r, s, {"settling"}) => files[s] > 0

IInv ==
  /\ TypeOK
  /\ SlotsAgree
  /\ CreatedAlone
  /\ OneRecorder
  /\ ObjectIsComplete
  /\ OneRowPerSession
  /\ RowHasObject
  /\ CompletedIsStored

(***************************************************************************)
(* The backend keeps the promise of UploadStore.                           *)
(***************************************************************************)
StageOf(s) ==
  CASE multipart[s] = "none"      -> "unopened"
    [] multipart[s] = "open"      -> "open"
    [] multipart[s] = "aborted"   -> "discarded"
    [] multipart[s] = "completed" -> IF files[s] = 0 THEN "published" ELSE "recorded"

Stage == [s \in Sessions |-> StageOf(s)]

(* An aborted upload holds no parts. *)
Landed == [s \in Sessions |-> {i \in Chunks : bucket[s][i] # None}]

Promise == INSTANCE UploadStore WITH stage <- Stage, landed <- Landed

KeepsPromise == Promise!Spec
=============================================================================
