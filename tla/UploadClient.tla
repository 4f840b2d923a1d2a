---------------------------- MODULE UploadClient ----------------------------
(***************************************************************************)
(* One file uploaded by the browser (chunkUploadService.ts) to the         *)
(* filesystem backend: a main line that opens the session, waits for the   *)
(* workers and completes or aborts it, and CONCURRENT_CHUNKS workers that  *)
(* take chunk numbers from a shared counter and retry each chunk.          *)
(*                                                                         *)
(* The client runs on one thread: a step goes from one await to the next.  *)
(* Every fetch may lose its connection, on the way to the server or on the *)
(* way back: an error to the client, while a handler that has the request  *)
(* goes on.  Only chunks are retried.  If Straggling is FALSE the backoff  *)
(* before a retry outlasts the handler of the last attempt.                *)
(***************************************************************************)
EXTENDS FilesystemStorage

CONSTANTS Session,     \* the session of the upload
          Workers,     \* the workers of uploadAllChunks
          MaxRetries,  \* MAX_RETRIES
          MaxDrops,    \* bound: connections that drop
          Straggling,  \* may a handler outlive the retry of its request?
          Slow         \* may the upload outlast the 24 hours of its session?

ASSUME ClientAssumption ==
  /\ Sessions = {Session}
  /\ None \notin Requests
  /\ Chunks = 0..(Cardinality(Chunks) - 1)
  /\ Workers # {}
  /\ MaxRetries \in Nat
  /\ MaxDrops \in Nat
  /\ Straggling \in BOOLEAN
  /\ Slow \in BOOLEAN

VARIABLES phase,      \* where uploadFileChunked is
          main,       \* the request slot its own fetch is in, or was when lost
          lost,       \* which of its own fetches lost its connection
          nextChunk,  \* the counter the workers share
          cancelled,  \* controller.signal.aborted
          place,      \* place[w]: where worker w is
          number,     \* number[w]: the chunk number it took
          left,       \* left[w]: the retries it has left for it
          slot,       \* slot[w]: the request slot its fetch is in
          fetch,      \* fetch[r]: what the fetch in slot r has come to
          drops       \* connections dropped so far

mainVars == <<phase, main, lost>>

workerVars == <<nextChunk, cancelled, place, number, left, slot>>

clientVars == <<mainVars, workerVars, fetch, drops>>

allVars == <<vars, clientVars>>

Phases == {"start", "opening", "uploading", "completing", "aborting",
           "succeeded", "failed"}

WorkerPlaces == {"ready", "sending", "waiting", "exited"}

Fetches == {"none", "waiting", "ok", "error"}

Losses == {"none", "opening", "completing", "aborting"}

ClientTypeOK ==
  /\ phase \in Phases
  /\ main \in Requests \union {None}
  /\ lost \in Losses
  /\ nextChunk \in Nat
  /\ cancelled \in BOOLEAN
  /\ place \in [Workers -> WorkerPlaces]
  /\ number \in [Workers -> Chunks \union {None}]
  /\ left \in [Workers -> 0..MaxRetries]
  /\ slot \in [Workers -> Requests \union {None}]
  /\ fetch \in [Requests -> Fetches]
  /\ drops \in 0..MaxDrops

ClientInit ==
  /\ Init
  /\ phase = "start"
  /\ main = None
  /\ lost = "none"
  /\ nextChunk = 0
  /\ cancelled = FALSE
  /\ place = [w \in Workers |-> "ready"]
  /\ number = [w \in Workers |-> None]
  /\ left = [w \in Workers |-> 0]
  /\ slot = [w \in Workers |-> None]
  /\ fetch = [r \in Requests |-> "none"]
  /\ drops = 0

(***************************************************************************)
(* uploadFileChunked                                                       *)
(***************************************************************************)
Unused(r) == fetch[r] = "none"

(* A request the server answers 404: the session is not active for it. *)
NotFound == ~LoadActiveSession(Session)

MainSends(r, to) ==
  /\ Unused(r)
  /\ fetch' = [fetch EXCEPT ![r] = "waiting"]
  /\ main' = r
  /\ phase' = to
  /\ UNCHANGED <<storageVars, lost, workerVars, drops>>

OpenSession(r) ==
  /\ phase = "start"
  /\ CreateSession(r, Session)
  /\ MainSends(r, "opening")

(* Mutant: the first worker to exit ends the wait. *)
OneExited == \E w \in Workers : place[w] = "exited"

AllExited == \A w \in Workers : place[w] = "exited"

Complete(r) ==
  /\ phase = "uploading"
  /\ AllExited
  /\ ~cancelled
  /\ CompleteChunkedUpload(r, Session)
  /\ MainSends(r, "completing")

(* Mutant: a failed upload is left to expire. *)
GiveUp(r) ==
  /\ phase = "uploading"
  /\ AllExited
  /\ cancelled
  /\ phase' = "failed"
  /\ UNCHANGED <<vars, main, lost, workerVars, fetch, drops>>

Abort(r) ==
  /\ phase = "uploading"
  /\ AllExited
  /\ cancelled
  /\ AbortChunkedUpload(r, Session)
  /\ MainSends(r, "aborting")

(* A 4xx that changes nothing: an init over the quota or the rate, a        *)
(* complete or an abort of a session that is not active.                   *)
MainRefused ==
  /\ \/ phase = "start"
     \/ phase = "uploading" /\ AllExited /\ NotFound
  /\ phase' = "failed"
  /\ UNCHANGED <<vars, main, lost, workerVars, fetch, drops>>

(* Mutant: the answer to a complete is not looked at. *)
PhaseAfterAny(answer) ==
  CASE phase = "opening" /\ answer = "ok" -> "uploading"
    [] phase = "completing"               -> "succeeded"
    [] OTHER                              -> "failed"

(* What the answer to its own fetch makes of the upload.  A failed complete *)
(* is not followed by an abort.                                            *)
PhaseAfter(answer) ==
  CASE phase = "opening" /\ answer = "ok"    -> "uploading"
    [] phase = "completing" /\ answer = "ok" -> "succeeded"
    [] OTHER                                 -> "failed"

MainAnswered ==
  /\ main # None
  /\ fetch[main] \in {"ok", "error"}
  /\ phase' = PhaseAfter(fetch[main])
  /\ fetch' = [fetch EXCEPT ![main] = "none"]
  /\ main' = None
  /\ UNCHANGED <<vars, lost, workerVars, drops>>

(* The request the main line is at, or about to make.                      *)
Current ==
  CASE phase = "start"     -> "opening"
    [] phase = "uploading" -> IF cancelled THEN "aborting" ELSE "completing"
    [] OTHER               -> phase

(* One of its own requests loses its connection before it reaches the      *)
(* server, or the answer with the handler under way or through: the catch  *)
(* gives up, and there is no retry.                                        *)
RequestLost ==
  /\ phase = "start" \/ (phase = "uploading" /\ AllExited)
  /\ UNCHANGED fetch

AnswerLost ==
  /\ main # None
  /\ fetch[main] # "none"
  /\ fetch' = [fetch EXCEPT ![main] = "none"]

MainLost ==
  /\ drops < MaxDrops
  /\ RequestLost \/ AnswerLost
  /\ lost' = Current
  /\ phase' = "failed"
  /\ drops' = drops + 1
  /\ UNCHANGED <<vars, main, workerVars>>

(***************************************************************************)
(* The workers of uploadAllChunks                                          *)
(***************************************************************************)

(* Mutant: the retries of a chunk are those the last one left. *)
TakeChunkTired(w) ==
  /\ phase = "uploading"
  /\ place[w] = "ready"
  /\ IF cancelled \/ nextChunk \notin Chunks
     THEN place' = [place EXCEPT ![w] = "exited"] /\ UNCHANGED number
     ELSE /\ place' = [place EXCEPT ![w] = "sending"]
          /\ number' = [number EXCEPT ![w] = nextChunk]
  /\ nextChunk' = IF cancelled THEN nextChunk ELSE nextChunk + 1
  /\ UNCHANGED <<vars, mainVars, cancelled, left, slot, fetch, drops>>

(* Mutant: the shared counter is read but not advanced. *)
TakeChunkAgain(w) ==
  /\ phase = "uploading"
  /\ place[w] = "ready"
  /\ place' = [place EXCEPT ![w] = IF cancelled THEN "exited" ELSE "sending"]
  /\ number' = [number EXCEPT ![w] = nextChunk]
  /\ left' = [left EXCEPT ![w] = MaxRetries]
  /\ UNCHANGED <<vars, mainVars, nextChunk, cancelled, slot, fetch, drops>>

TakeChunk(w) ==
  /\ phase = "uploading"
  /\ place[w] = "ready"
  /\ IF cancelled \/ nextChunk \notin Chunks
     THEN /\ place' = [place EXCEPT ![w] = "exited"]
          /\ UNCHANGED <<number, left>>
     ELSE /\ place' = [place EXCEPT ![w] = "sending"]
          /\ number' = [number EXCEPT ![w] = nextChunk]
          /\ left' = [left EXCEPT ![w] = MaxRetries]
  /\ nextChunk' = IF cancelled THEN nextChunk ELSE nextChunk + 1
  /\ UNCHANGED <<vars, mainVars, cancelled, slot, fetch, drops>>

(* The seconds before a retry outlast what is left of the last attempt. *)
BackedOff(w) == ~Straggling => \A r \in Requests : chunk[r] # number[w]

SendChunk(w, r) ==
  /\ place[w] = "sending"
  /\ ~cancelled
  /\ BackedOff(w)
  /\ Unused(r)
  /\ UploadChunk(r, Session, number[w])
  /\ fetch' = [fetch EXCEPT ![r] = "waiting"]
  /\ slot' = [slot EXCEPT ![w] = r]
  /\ place' = [place EXCEPT ![w] = "waiting"]
  /\ UNCHANGED <<storageVars, mainVars, nextChunk, cancelled, number, left, drops>>

ChunkStored(w) ==
  /\ place[w] = "waiting"
  /\ fetch[slot[w]] = "ok"
  /\ place' = [place EXCEPT ![w] = "ready"]
  /\ fetch' = [fetch EXCEPT ![slot[w]] = "none"]
  /\ slot' = [slot EXCEPT ![w] = None]
  /\ UNCHANGED <<vars, mainVars, nextChunk, cancelled, number, left, drops>>

(* Mutant: the retries are not counted against the limit. *)
ChunkFailedAgain(w) ==
  /\ slot' = [slot EXCEPT ![w] = None]
  /\ left' = [left EXCEPT ![w] = @ - 1]
  /\ place' = [place EXCEPT ![w] = "sending"]
  /\ UNCHANGED <<vars, mainVars, cancelled, nextChunk, number>>

(* The catch of uploadChunkWithRetry: give up, try again, or be the first  *)
(* to fail and cancel the others.                                          *)
ChunkFailed(w) ==
  /\ slot' = [slot EXCEPT ![w] = None]
  /\ IF left[w] > 0 /\ ~cancelled
     THEN /\ left' = [left EXCEPT ![w] = @ - 1]
          /\ place' = [place EXCEPT ![w] = "sending"]
          /\ UNCHANGED cancelled
     ELSE /\ cancelled' = TRUE
          /\ place' = [place EXCEPT ![w] = "exited"]
          /\ UNCHANGED left
  /\ UNCHANGED <<vars, mainVars, nextChunk, number>>

ChunkRefused(w) ==
  /\ place[w] = "waiting"
  /\ fetch[slot[w]] = "error"
  /\ fetch' = [fetch EXCEPT ![slot[w]] = "none"]
  /\ ChunkFailed(w)
  /\ UNCHANGED drops

ChunkNotFound(w) ==
  /\ place[w] = "sending"
  /\ NotFound
  /\ ChunkFailed(w)
  /\ UNCHANGED <<fetch, drops>>

(* A chunk's connection is lost, before the request reaches the server or  *)
(* the answer with it while the handler goes on.                           *)
ConnectionDrops(w) ==
  /\ drops < MaxDrops
  /\ \/ place[w] = "sending" /\ ~cancelled /\ BackedOff(w)
     \/ place[w] = "waiting"
  /\ drops' = drops + 1
  /\ fetch' = [r \in Requests |-> IF r = slot[w] THEN "none" ELSE fetch[r]]
  /\ ChunkFailed(w)

(* The signal rejects a fetch in flight, and one sent after a backoff. *)
SignalAborts(w) ==
  /\ cancelled
  /\ place[w] \in {"sending", "waiting"}
  /\ fetch' = [r \in Requests |-> IF r = slot[w] THEN "none" ELSE fetch[r]]
  /\ ChunkFailed(w)
  /\ UNCHANGED drops

(***************************************************************************)
(* The server, and what its steps tell the fetch that waits for them.      *)
(***************************************************************************)
Answering == {"registering", "landing", "settling", "cancelling"}

Answers200(r) ==
  fetch' = [fetch EXCEPT ![r] =
              IF @ = "waiting" /\ pc'[r] = "idle"
              THEN IF pc[r] \in Answering THEN "ok" ELSE "error"
              ELSE @]

ServerStep(r) ==
  /\ InHandler(r) \/ InStorage(r)
  /\ Answers200(r)
  /\ UNCHANGED <<mainVars, workerVars, drops>>

(* A body ends early only after the client has gone. *)
BodyEnds(r) ==
  /\ fetch[r] # "waiting"
  /\ ShortSource(r)
  /\ UNCHANGED clientVars

(* Mutant: a fetch that was waiting goes on waiting. *)
ServerRestartsUnnoticed == Restart /\ UNCHANGED clientVars

ServerRestarts ==
  /\ Restart
  /\ fetch' = [r \in Requests |-> IF fetch[r] = "waiting" THEN "error" ELSE fetch[r]]
  /\ UNCHANGED <<mainVars, workerVars, drops>>

SessionRunsOut ==
  /\ Slow
  /\ TimePasses
  /\ UNCHANGED clientVars

MainStep ==
  \/ \E r \in Requests : OpenSession(r) \/ Complete(r) \/ Abort(r)
  \/ MainRefused
  \/ MainAnswered

WorkerStep(w) ==
  \/ TakeChunk(w)
  \/ \E r \in Requests : SendChunk(w, r)
  \/ ChunkStored(w)
  \/ ChunkRefused(w)
  \/ ChunkNotFound(w)
  \/ SignalAborts(w)

ClientNext ==
  \/ MainStep
  \/ MainLost
  \/ \E w \in Workers : WorkerStep(w) \/ ConnectionDrops(w)
  \/ \E r \in Requests : ServerStep(r) \/ BodyEnds(r)
  \/ ServerRestarts
  \/ SessionRunsOut

(* Goroutines are scheduled, and the event loop gets to every callback.    *)
ClientFairness ==
  /\ WF_allVars(MainStep)
  /\ \A w \in Workers : WF_allVars(WorkerStep(w))
  /\ \A r \in Requests : WF_allVars(ServerStep(r))

ClientSpec == ClientInit /\ [][ClientNext]_allVars /\ ClientFairness

(***************************************************************************)
(* Properties.                                                             *)
(***************************************************************************)

(* An upload reported as successful is listed and its object is complete.  *)
SucceededIsListed ==
  phase = "succeeded" =>
    /\ files[Session] = 1
    /\ disk[Session] = "final"
    /\ \A i \in Chunks : Written(Session, i)

(* The workers' shared counter gives out every chunk and the client waits  *)
(* for every answer, so a complete never finds a chunk missing, however    *)
(* chunks were dropped and retried.                                        *)
CompleteFindsAll ==
  \A r \in Requests : pc[r] = "counting" => AllReceived(Session)

(* What client and server leave of an upload when they are through: a      *)
(* success is listed; a failure with no request of the main line lost is   *)
(* gone without a trace; one whose init was lost leaves no row, or a       *)
(* session nobody knows; one whose complete was lost is listed behind the  *)
(* client's back, or is a whole upload nobody completes; and one whose     *)
(* abort was lost is gone, or stays with its part file until it expires.   *)
Quiet == \A r \in Requests : pc[r] = "idle"

Gone == ~open[Session] /\ ~registered[Session]

Stored == Gone /\ row[Session] = "completed" /\ files[Session] = 1

Discarded ==
  /\ Gone
  /\ row[Session] = "cancelled"
  /\ files[Session] = 0
  /\ disk[Session] = "removed"

LeftOpen ==
  /\ open[Session] /\ registered[Session]
  /\ row[Session] = "active"
  /\ files[Session] = 0
  /\ disk[Session] = "part"

NeverOpened == Gone /\ row[Session] = "none" /\ files[Session] = 0

Left ==
  CASE phase = "succeeded"  -> Stored
    [] lost = "opening"     -> NeverOpened \/ (LeftOpen /\ received[Session] = {})
    [] lost = "completing"  -> Stored \/ (LeftOpen /\ AllReceived(Session))
    [] lost = "aborting"    -> Discarded \/ LeftOpen
    [] OTHER                -> NeverOpened \/ Discarded

CleanOutcome == phase \in {"succeeded", "failed"} /\ Quiet => Left

(* With bounded retries an upload comes to an end. *)
Finishes == <>[](phase \in {"succeeded", "failed"} /\ Quiet)

(* An upload that was opened and lost neither its init nor its complete    *)
(* fails only if connections dropped more often than one chunk may be      *)
(* retried: no refusal by the server is of the client's own making.        *)
FailsOnlyByDrops ==
  /\ phase \in {"aborting", "failed"}
  /\ row[Session] # "none"
  /\ lost \notin {"opening", "completing"}
  => drops > MaxRetries
=============================================================================
