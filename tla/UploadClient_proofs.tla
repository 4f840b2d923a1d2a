------------------------ MODULE UploadClient_proofs ------------------------
(***************************************************************************)
(* Theorems of UploadClient, for every value of its constants.             *)
(***************************************************************************)
EXTENDS UploadClient, FilesystemStorage_proofs

(* What is assumed of the constants, chunk numbers apart. *)
LEMMA Constants ==
  /\ Sessions = {Session}
  /\ None \notin Requests
  /\ Chunks \subseteq Nat
  /\ Workers # {}
  /\ MaxRetries \in Nat
  /\ MaxDrops \in Nat
<1>1. Cardinality(Chunks) \in Nat
  BY ClientAssumption, HandlersAssumption, FS_CardinalityType
<1>2. 0..(Cardinality(Chunks) - 1) \subseteq Nat
  BY <1>1
<1> QED
  BY <1>2, ClientAssumption

USE Constants

(***************************************************************************)
(* The inductive invariant of the client, whatever fails.                  *)
(***************************************************************************)

(* A fetch is the main line's or one worker's, who waits for it. *)
MainWaits ==
  /\ phase \in {"opening", "completing", "aborting"} => main # None /\ fetch[main] # "none"
  /\ main # None =>
       /\ \/ phase \in {"opening", "completing", "aborting"}
          \/ phase = "failed" /\ lost # "none" /\ fetch[main] = "none"
       /\ \A w \in Workers : slot[w] # main

WorkersWait ==
  \A w \in Workers :
    /\ place[w] = "waiting" <=> slot[w] # None
    /\ place[w] = "waiting" => fetch[slot[w]] # "none"
    /\ \A v \in Workers : slot[v] = slot[w] /\ slot[w] # None => v = w

FetchesOwned ==
  \A r \in Requests : fetch[r] # "none" => main = r \/ \E w \in Workers : slot[w] = r

(* It waits while its handler runs. *)
FetchesServed ==
  \A r \in Requests :
    /\ fetch[r] = "waiting" => pc[r] # "idle"
    /\ fetch[r] \in {"ok", "error"} => pc[r] = "idle"

(* Workers have chunks while the main line waits for them to exit. *)
PhasesAgree ==
  /\ phase \in {"start", "opening"} => \A w \in Workers : place[w] = "ready"
  /\ phase \in {"completing", "aborting", "succeeded"} =>
       \A w \in Workers : place[w] = "exited"
  /\ phase \in {"completing", "succeeded"} \/ lost = "completing" => ~cancelled
  /\ lost # "none" => phase = "failed"
  /\ \A w \in Workers : place[w] \in {"sending", "waiting"} => phase = "uploading"

Holds(w) == place[w] \in {"sending", "waiting"}

(* Each has a chunk of its own, from those the counter has given out. *)
OwnChunks ==
  \A w \in Workers :
    Holds(w) =>
      /\ number[w] \in Chunks
      /\ number[w] < nextChunk
      /\ \A v \in Workers : Holds(v) /\ number[v] = number[w] => v = w

Completing ==
  {"finalize_call", "counting", "closing", "renaming", "dropping", "recording", "settling"}

(* A complete is answered 200 once the file is listed. *)
CompletesHonestly ==
  /\ phase = "completing" /\ fetch[main] = "waiting" => On(main, Session, Completing)
  /\ phase = "completing" /\ fetch[main] = "ok" => files[Session] > 0
  /\ phase = "succeeded" => files[Session] > 0

ClientIInv ==
  /\ ClientTypeOK
  /\ MainWaits
  /\ WorkersWait
  /\ FetchesOwned
  /\ FetchesServed
  /\ PhasesAgree
  /\ OwnChunks
  /\ CompletesHonestly

(***************************************************************************)
(* The inductive invariant of an upload that only lost requests and answers *)
(* trouble.                                                                *)
(***************************************************************************)
Smooth == ~Faults /\ ~Restarts /\ ~Straggling /\ ~Slow

Uploading == {"chunk_call", "copying", "writing", "landing"}

Aborting == {"abort_call", "closing_part", "removing", "cancelling"}

(* One request at a time carries a chunk: its worker waits for it, or backs *)
(* off until it is through.                                                 *)
CarriersUpload == \A r \in Requests : chunk[r] # None => pc[r] \in Uploading

CarriersDiffer ==
  \A r, q \in Requests : chunk[r] # None /\ chunk[q] = chunk[r] => q = r

CarriersHeld ==
  ~cancelled =>
    \A r \in Requests :
      chunk[r] # None => \E w \in Workers : Holds(w) /\ number[w] = chunk[r]

CarriersWaited ==
  \A w \in Workers :
    /\ place[w] = "waiting" /\ fetch[slot[w]] = "waiting" => chunk[slot[w]] = number[w]
    /\ place[w] = "waiting" /\ fetch[slot[w]] = "ok" =>
         \A r \in Requests : chunk[r] # number[w]

OneCarrier == CarriersUpload /\ CarriersDiffer /\ CarriersHeld /\ CarriersWaited

OnlyChunks == \A r \in Requests : pc[r] \in Uploading \union {"idle"}

(* The session takes chunks. *)
Ready ==
  /\ "created" \in answered[Session]
  /\ row[Session] = "active"
  /\ Usable(Session)
  /\ files[Session] = 0
  /\ OnlyChunks

(* Nothing runs. *)
AllIdle == \A r \in Requests : pc[r] = "idle"

(* It has been opened, and no chunk sent. *)
Fresh == Ready /\ AllIdle /\ received[Session] = {}

(* The main line's request is served step by step, beside chunks that are   *)
(* under way if it is an abort, and all by itself if it is a complete.      *)
Opening == On(main, Session, Creating)

FinalPlaces ==
  /\ pc[main] \in {"finalize_call", "counting", "closing"} => Usable(Session)
  /\ pc[main] = "renaming" => disk[Session] = "part"
  /\ pc[main] \in {"recording", "settling"} => ~registered[Session]
  /\ pc[main] = "settling" => ~open[Session]

Finalizing ==
  /\ row[Session] = "active"
  /\ On(main, Session, Completing)
  /\ \A r \in Requests : r # main => pc[r] = "idle"
  /\ FinalPlaces

DiscardPlaces ==
  /\ pc[main] = "abort_call" => Usable(Session)
  /\ pc[main] # "abort_call" => ~registered[Session]
  /\ pc[main] \in {"closing_part", "removing"} => disk[Session] = "part"
  /\ pc[main] = "cancelling" => disk[Session] = "removed"

Discarding ==
  /\ row[Session] = "active"
  /\ files[Session] = 0
  /\ On(main, Session, Aborting)
  /\ \A r \in Requests : r # main => pc[r] \in Uploading \union {"idle"}
  /\ DiscardPlaces

StoredAlone ==
  /\ row[Session] = "completed"
  /\ ~registered[Session] /\ ~open[Session]
  /\ \A r \in Requests : pc[r] = "idle"

DiscardedFor ==
  /\ row[Session] = "cancelled"
  /\ files[Session] = 0
  /\ ~registered[Session] /\ ~open[Session]
  /\ disk[Session] = "removed"
  /\ OnlyChunks

(* Where a failed upload has left the session: its request was refused, or *)
(* lost before the handler, and if it was the answer that was lost, the    *)
(* handler goes on.                                                        *)
FailedWhere ==
  CASE lost = "none"       -> DiscardedFor \/ row[Session] = "none"
    [] lost = "opening"    -> row[Session] = "none" \/ Fresh \/ (main # None /\ Opening)
    [] lost = "completing" ->
         (Ready /\ AllIdle) \/ StoredAlone \/ (main # None /\ Finalizing)
    [] lost = "aborting"   -> Ready \/ DiscardedFor \/ (main # None /\ Discarding)

(* What the main line knows of the session by where it is. *)
InStep ==
  /\ ~overdue[Session]
  /\ \A r \in Requests : fetch[r] # "error"
  /\ phase = "start" => row[Session] = "none"
  /\ phase = "opening" /\ fetch[main] = "waiting" => Opening
  /\ phase = "opening" /\ fetch[main] = "ok" => Fresh
  /\ phase = "uploading" => Ready
  /\ phase = "completing" /\ fetch[main] = "waiting" => Finalizing
  /\ phase = "completing" /\ fetch[main] = "ok" => StoredAlone
  /\ phase = "succeeded" => StoredAlone
  /\ phase = "aborting" /\ fetch[main] = "waiting" => Discarding
  /\ phase = "aborting" /\ fetch[main] = "ok" => DiscardedFor
  /\ phase = "failed" => FailedWhere

(* Every chunk given out has been received or is in a worker's hands, and  *)
(* no worker exits before all are given out.                               *)
GivenOut ==
  ~cancelled =>
    \A i \in Chunks :
      i < nextChunk =>
        \/ i \in received[Session]
        \/ \E w \in Workers : Holds(w) /\ number[w] = i

ExitsLast ==
  ~cancelled => \A w \in Workers : place[w] = "exited" => nextChunk \notin Chunks

OkIsReceived ==
  \A w \in Workers :
    place[w] = "waiting" /\ fetch[slot[w]] = "ok" => number[w] \in received[Session]

AllAtComplete ==
  phase \in {"completing", "succeeded"} \/ lost = "completing" => received[Session] = Chunks

NoneLost == GivenOut /\ ExitsLast /\ OkIsReceived /\ AllAtComplete

(* Each retry used up, and the cancelling, took a connection that dropped. *)
DropsCounted ==
  /\ cancelled => drops > MaxRetries
  /\ ~cancelled =>
       \A w \in Workers :
         Holds(w) => MaxRetries - left[w] <= drops
  /\ phase = "aborting" \/ lost = "aborting" => cancelled
  /\ phase = "failed" /\ lost = "none" => cancelled \/ row[Session] = "none"

(* A received chunk can be opened, unless a retry is in the midst of it.   *)
PiecesOfOne ==
  \A r \in Requests :
    chunk[r] # None => \A p \in 1..done[r] : data[Session][chunk[r]][p] = nonce[r]

ReceivedOpens ==
  ~cancelled =>
    \A i \in received[Session] :
      (\A r \in Requests : chunk[r] = i => done[r] = 0) => Opens(Session, i)

FramesWhole == PiecesOfOne /\ ReceivedOpens

SmoothIInv ==
  Smooth =>
    /\ OneCarrier
    /\ InStep
    /\ NoneLost
    /\ DropsCounted
    /\ FramesWhole

(***************************************************************************)
(* What a step of the server is to the client.                             *)
(***************************************************************************)
Moves(r) ==
  /\ pc[r] # "idle"
  /\ \A q \in Requests \ {r} :
       pc'[q] = pc[q] /\ sess'[q] = sess[q] /\ chunk'[q] = chunk[q]
  /\ \/ pc'[r] # "idle" /\ sess'[r] = sess[r] /\ chunk'[r] = chunk[r]
     \/ pc'[r] = "idle" /\ sess'[r] = None /\ chunk'[r] = None

ServesClient(r) ==
  /\ Moves(r)
  /\ UNCHANGED <<mainVars, workerVars, drops>>
  /\ fetch' \in [Requests -> Fetches]
  /\ \A q \in Requests \ {r} : fetch'[q] = fetch[q]
  /\ pc'[r] # "idle" \/ fetch[r] # "waiting" => fetch'[r] = fetch[r]
  /\ pc'[r] = "idle" /\ fetch[r] = "waiting" =>
       fetch'[r] = IF pc[r] \in Answering THEN "ok" ELSE "error"

(* What is lost of the main line's request, and from where.                *)
LEMMA LosesOne ==
  ASSUME ClientTypeOK, MainWaits, PhasesAgree, MainLost
  PROVE  /\ phase' = "failed" /\ lost = "none"
         /\ phase \notin {"succeeded", "failed"}
         /\ phase = "uploading" => AllExited
         /\ lost' = "opening" <=> phase \in {"start", "opening"}
         /\ lost' = "completing" <=> phase = "completing" \/ (phase = "uploading" /\ ~cancelled)
         /\ lost' = "aborting" <=> phase = "aborting" \/ (phase = "uploading" /\ cancelled)
         /\ lost' \in Losses
         /\ \/ /\ phase \in {"start", "uploading"}
               /\ main = None /\ fetch' = fetch
            \/ /\ phase \in {"opening", "completing", "aborting"}
               /\ main \in Requests /\ fetch' = [fetch EXCEPT ![main] = "none"]
         /\ drops' = drops + 1 /\ drops' \in 0..MaxDrops
         /\ UNCHANGED <<vars, main, workerVars>>
<1>1. /\ phase' = "failed" /\ lost' = Current /\ drops' = drops + 1
      /\ UNCHANGED <<vars, main, workerVars>>
  BY DEF MainLost
<1>2. drops' \in 0..MaxDrops
  BY Constants DEF MainLost, ClientTypeOK
<1>3. CASE RequestLost
  <2>1. phase \in {"start", "uploading"} /\ (phase = "uploading" => AllExited) /\ fetch' = fetch
    BY <1>3 DEF RequestLost
  <2>2. main = None /\ lost = "none"
    BY <2>1 DEF MainWaits, PhasesAgree, ClientTypeOK, Losses
  <2> QED
    BY <1>1, <1>2, <2>1, <2>2 DEF Current, Losses
<1>4. CASE AnswerLost
  <2>1. main # None /\ fetch[main] # "none" /\ fetch' = [fetch EXCEPT ![main] = "none"]
    BY <1>4 DEF AnswerLost
  <2>2. phase \in {"opening", "completing", "aborting"} /\ main \in Requests
    BY <2>1 DEF MainWaits, ClientTypeOK
  <2>3. lost = "none"
    BY <2>2 DEF PhasesAgree
  <2> QED
    BY <1>1, <1>2, <2>1, <2>2, <2>3 DEF Current, Losses
<1> QED
  BY <1>3, <1>4 DEF MainLost

(* A handler goes on with its request, or ends it.                         *)
LEMMA HandlerMoves ==
  ASSUME TypeOK,
         NEW r \in Requests,
         InHandler(r) \/ InStorage(r)
  PROVE  Moves(r)
<1> USE DEF TypeOK, GoesTo, Ends, Proceeds, Replies, AnswerCreated, Moves,
           reqVars
<1>1. ASSUME ExpireSession(r), UNCHANGED storageVars
      PROVE  Moves(r)
  BY <1>1 DEF ExpireSession
<1>2. ASSUME CreateFileRecord(r), UNCHANGED storageVars
      PROVE  Moves(r)
  BY <1>2 DEF CreateFileRecord
<1>3. ASSUME FileRecordFails(r), UNCHANGED storageVars
      PROVE  Moves(r)
  BY <1>3 DEF FileRecordFails
<1>4. ASSUME MarkCompleted(r), UNCHANGED storageVars
      PROVE  Moves(r)
  BY <1>4 DEF MarkCompleted
<1>5. ASSUME MarkCancelled(r), UNCHANGED storageVars
      PROVE  Moves(r)
  BY <1>5 DEF MarkCancelled
<1>6. ASSUME CreatePartFile(r)
      PROVE  Moves(r)
  BY <1>6 DEF CreatePartFile
<1>7. ASSUME RegisterUpload(r)
      PROVE  Moves(r)
  BY <1>7 DEF RegisterUpload
<1>8. ASSUME BeginCopy(r)
      PROVE  Moves(r)
  BY <1>8 DEF BeginCopy
<1>9. ASSUME StartWrite(r)
      PROVE  Moves(r)
  BY <1>9 DEF StartWrite
<1>10. ASSUME WriteFails(r)
      PROVE  Moves(r)
  BY <1>10 DEF WriteFails
<1>11. ASSUME WritePiece(r)
      PROVE  Moves(r)
  BY <1>11 DEF WritePiece
<1>12. ASSUME RecordReceived(r)
      PROVE  Moves(r)
  BY <1>12 DEF RecordReceived
<1>13. ASSUME LookUpForFinalize(r)
      PROVE  Moves(r)
  BY <1>13 DEF LookUpForFinalize
<1>14. ASSUME CountReceived(r)
      PROVE  Moves(r)
  BY <1>14 DEF CountReceived
<1>15. ASSUME CloseFile(r)
      PROVE  Moves(r)
  BY <1>15 DEF CloseFile
<1>16. ASSUME CloseFails(r)
      PROVE  Moves(r)
  BY <1>16 DEF CloseFails
<1>17. ASSUME RenamePart(r)
      PROVE  Moves(r)
  BY <1>17 DEF RenamePart
<1>18. ASSUME DropUpload(r)
      PROVE  Moves(r)
  BY <1>18 DEF DropUpload
<1>19. ASSUME Deregister(r)
      PROVE  Moves(r)
  BY <1>19 DEF Deregister
<1>20. ASSUME ClosePart(r)
      PROVE  Moves(r)
  BY <1>20 DEF ClosePart
<1>21. ASSUME RemovePart(r)
      PROVE  Moves(r)
  BY <1>21 DEF RemovePart
<1>22. ASSUME StorageRefuses(r)
      PROVE  Moves(r)
  BY <1>22 DEF StorageRefuses
<1> HIDE DEF TypeOK, GoesTo, Ends, Proceeds, Replies, AnswerCreated, Moves,
           reqVars
<1> QED BY <1>1, <1>2, <1>3, <1>4, <1>5, <1>6, <1>7, <1>8, <1>9, <1>10, <1>11,
     <1>12, <1>13, <1>14, <1>15, <1>16, <1>17, <1>18, <1>19, <1>20, <1>21,
     <1>22
     DEF InHandler, HandlerStep, InStorage

(* A step of the server, seen by the client.                               *)
LEMMA ServerServes ==
  ASSUME TypeOK, ClientTypeOK, NEW r \in Requests, ServerStep(r)
  PROVE  ServesClient(r)
<1>1. Moves(r)
  BY HandlerMoves DEF ServerStep
<1> QED
  BY <1>1 DEF ServerStep, ServesClient, Answers200, ClientTypeOK, Fetches

(***************************************************************************)
(* The first invariant holds at the start and every step keeps it.         *)
(***************************************************************************)
LEMMA InitClient == ClientInit => ClientIInv
<1> SUFFICES ASSUME ClientInit PROVE ClientIInv
  OBVIOUS
<1> USE DEF ClientInit
<1>1. ClientTypeOK
  <2>1. /\ phase \in Phases /\ place \in [Workers -> WorkerPlaces]
        /\ fetch \in [Requests -> Fetches] /\ lost \in Losses
    BY DEF Phases, WorkerPlaces, Fetches, Losses
  <2>2. nextChunk \in Nat /\ left \in [Workers -> 0..MaxRetries] /\ drops \in 0..MaxDrops
    OBVIOUS
  <2> QED
    BY <2>1, <2>2 DEF ClientTypeOK
<1>2. MainWaits /\ WorkersWait /\ FetchesOwned
  BY DEF MainWaits, WorkersWait, FetchesOwned
<1>3. FetchesServed
  BY DEF FetchesServed
<1>4. PhasesAgree /\ OwnChunks
  BY DEF PhasesAgree, OwnChunks, Holds
<1>5. CompletesHonestly
  BY DEF CompletesHonestly
<1> QED
  BY <1>1, <1>2, <1>3, <1>4, <1>5 DEF ClientIInv

(* Types.                                                                  *)
LEMMA ClientTypeStep ==
  ASSUME TypeOK,
         ClientTypeOK,
         MainWaits,
         PhasesAgree,
         WorkersWait,
         [ClientNext]_allVars
  PROVE  ClientTypeOK'
<1> USE DEF ClientTypeOK, mainVars, workerVars
<1> USE DEF Phases, WorkerPlaces, Fetches
<1>1. ASSUME NEW r \in Requests, OpenSession(r)
      PROVE  ClientTypeOK'
  <2>1. /\ phase = "start" /\ phase' = "opening"
        /\ fetch[r] = "none" /\ fetch' = [fetch EXCEPT ![r] = "waiting"]
        /\ main' = r /\ pc[r] = "idle" /\ pc \in [Requests -> Places]
        /\ pc' = [pc EXCEPT ![r] = "init_call"]
        /\ UNCHANGED <<lost, workerVars, drops>>
    BY <1>1 DEF OpenSession, CreateSession, TypeOK, MainSends, Unused, Starts
  <2> QED
    BY <2>1 DEF workerVars
<1>2. ASSUME NEW r \in Requests, Complete(r)
      PROVE  ClientTypeOK'
  <2>1. /\ phase = "uploading" /\ phase' = "completing"
        /\ fetch[r] = "none" /\ fetch' = [fetch EXCEPT ![r] = "waiting"]
        /\ main' = r /\ pc[r] = "idle" /\ pc \in [Requests -> Places]
        /\ pc' = [pc EXCEPT ![r] = "finalize_call"]
        /\ UNCHANGED <<lost, workerVars, drops>>
        /\ AllExited /\ ~cancelled
    BY <1>2 DEF Complete, CompleteChunkedUpload, TypeOK, MainSends, Unused, Starts
  <2> QED
    BY <2>1 DEF workerVars, AllExited
<1>3. ASSUME NEW r \in Requests, Abort(r)
      PROVE  ClientTypeOK'
  <2>1. /\ phase = "uploading" /\ phase' = "aborting"
        /\ fetch[r] = "none" /\ fetch' = [fetch EXCEPT ![r] = "waiting"]
        /\ main' = r /\ pc[r] = "idle" /\ pc \in [Requests -> Places]
        /\ pc' = [pc EXCEPT ![r] = "abort_call"]
        /\ UNCHANGED <<lost, workerVars, drops>>
        /\ AllExited
    BY <1>3 DEF Abort, AbortChunkedUpload, TypeOK, MainSends, Unused, Starts
  <2> QED
    BY <2>1 DEF workerVars, AllExited
<1>4. CASE MainRefused
  BY <1>4 DEF MainRefused, vars, handlerVars, reqVars
<1>5. CASE MainAnswered
  BY <1>5 DEF MainAnswered, vars, handlerVars, reqVars, PhaseAfter
<1>6. ASSUME NEW w \in Workers, TakeChunk(w)
      PROVE  ClientTypeOK'
  <2>1. /\ place[w] = "ready" /\ phase = "uploading"
        /\ nextChunk' = IF cancelled THEN nextChunk ELSE nextChunk + 1
        /\ UNCHANGED <<vars, mainVars, cancelled, slot, fetch, drops>>
    BY <1>6 DEF TakeChunk
  <2>2. CASE cancelled \/ nextChunk \notin Chunks
    <3>1. place' = [place EXCEPT ![w] = "exited"] /\ UNCHANGED <<number, left>>
      BY <1>6, <2>2 DEF TakeChunk
    <3> QED
      BY <2>1, <2>2, <3>1 DEF mainVars, vars, handlerVars, reqVars, WorkersWait
  <2>3. CASE ~cancelled /\ nextChunk \in Chunks
    <3>1. /\ place' = [place EXCEPT ![w] = "sending"]
          /\ number' = [number EXCEPT ![w] = nextChunk]
          /\ left' = [left EXCEPT ![w] = MaxRetries]
      BY <1>6, <2>3 DEF TakeChunk
    <3> QED
      BY <2>1, <2>3, <3>1 DEF mainVars, vars, handlerVars, reqVars, WorkersWait
  <2> QED
    BY <2>2, <2>3
<1>7. ASSUME NEW w \in Workers, NEW r \in Requests, SendChunk(w, r)
      PROVE  ClientTypeOK'
  <2>1. /\ place[w] = "sending" /\ place' = [place EXCEPT ![w] = "waiting"]
        /\ slot' = [slot EXCEPT ![w] = r]
        /\ fetch[r] = "none" /\ fetch' = [fetch EXCEPT ![r] = "waiting"]
        /\ pc \in [Requests -> Places]
        /\ \E there \in {"expiring", "chunk_call"} : pc' = [pc EXCEPT ![r] = there]
        /\ UNCHANGED <<mainVars, nextChunk, cancelled, number, left, drops>>
    BY <1>7 DEF SendChunk, TypeOK, UploadChunk, Unused, Starts
  <2> QED
    BY <2>1 DEF mainVars
<1>8. ASSUME NEW w \in Workers, ChunkStored(w)
      PROVE  ClientTypeOK'
  BY <1>8 DEF ChunkStored, vars, handlerVars, reqVars
<1>9. ASSUME NEW w \in Workers, ChunkRefused(w)
      PROVE  ClientTypeOK'
  <2>1. /\ place[w] = "waiting" /\ fetch[slot[w]] = "error"
        /\ fetch' = [fetch EXCEPT ![slot[w]] = "none"] /\ UNCHANGED drops
        /\ slot' = [slot EXCEPT ![w] = None]
        /\ UNCHANGED <<vars, mainVars, nextChunk, number>>
    BY <1>9 DEF ChunkRefused, ChunkFailed
  <2>2. CASE left[w] > 0 /\ ~cancelled
    <3>1. /\ left' = [left EXCEPT ![w] = @ - 1]
          /\ place' = [place EXCEPT ![w] = "sending"]
          /\ UNCHANGED cancelled
      BY <1>9, <2>2 DEF ChunkRefused, ChunkFailed
    <3> QED
      BY <2>1, <2>2, <3>1 DEF mainVars, vars, handlerVars, reqVars, WorkersWait
  <2>3. CASE ~(left[w] > 0 /\ ~cancelled)
    <3>1. /\ cancelled' = TRUE
          /\ place' = [place EXCEPT ![w] = "exited"]
          /\ UNCHANGED left
      BY <1>9, <2>3 DEF ChunkRefused, ChunkFailed
    <3> QED
      BY <2>1, <2>3, <3>1 DEF mainVars, vars, handlerVars, reqVars, WorkersWait
  <2> QED
    BY <2>2, <2>3
<1>10. ASSUME NEW w \in Workers, ChunkNotFound(w)
      PROVE  ClientTypeOK'
  <2>1. /\ place[w] = "sending" /\ UNCHANGED <<fetch, drops>>
        /\ slot' = [slot EXCEPT ![w] = None]
        /\ UNCHANGED <<vars, mainVars, nextChunk, number>>
    BY <1>10 DEF ChunkNotFound, ChunkFailed
  <2>2. CASE left[w] > 0 /\ ~cancelled
    <3>1. /\ left' = [left EXCEPT ![w] = @ - 1]
          /\ place' = [place EXCEPT ![w] = "sending"]
          /\ UNCHANGED cancelled
      BY <1>10, <2>2 DEF ChunkNotFound, ChunkFailed
    <3> QED
      BY <2>1, <2>2, <3>1 DEF mainVars, vars, handlerVars, reqVars, WorkersWait
  <2>3. CASE ~(left[w] > 0 /\ ~cancelled)
    <3>1. /\ cancelled' = TRUE
          /\ place' = [place EXCEPT ![w] = "exited"]
          /\ UNCHANGED left
      BY <1>10, <2>3 DEF ChunkNotFound, ChunkFailed
    <3> QED
      BY <2>1, <2>3, <3>1 DEF mainVars, vars, handlerVars, reqVars, WorkersWait
  <2> QED
    BY <2>2, <2>3
<1>11. ASSUME NEW w \in Workers, ConnectionDrops(w)
      PROVE  ClientTypeOK'
  <2>1. /\ place[w] \in {"sending", "waiting"} /\ drops < MaxDrops /\ drops' = drops + 1
        /\ fetch' = [r \in Requests |-> IF r = slot[w] THEN "none" ELSE fetch[r]]
        /\ slot' = [slot EXCEPT ![w] = None]
        /\ UNCHANGED <<vars, mainVars, nextChunk, number>>
    BY <1>11 DEF ConnectionDrops, ChunkFailed
  <2>2. CASE left[w] > 0 /\ ~cancelled
    <3>1. /\ left' = [left EXCEPT ![w] = @ - 1]
          /\ place' = [place EXCEPT ![w] = "sending"]
          /\ UNCHANGED cancelled
      BY <1>11, <2>2 DEF ConnectionDrops, ChunkFailed
    <3> QED
      BY <2>1, <2>2, <3>1 DEF mainVars, vars, handlerVars, reqVars, WorkersWait
  <2>3. CASE ~(left[w] > 0 /\ ~cancelled)
    <3>1. /\ cancelled' = TRUE
          /\ place' = [place EXCEPT ![w] = "exited"]
          /\ UNCHANGED left
      BY <1>11, <2>3 DEF ConnectionDrops, ChunkFailed
    <3> QED
      BY <2>1, <2>3, <3>1 DEF mainVars, vars, handlerVars, reqVars, WorkersWait
  <2> QED
    BY <2>2, <2>3
<1>12. ASSUME NEW w \in Workers, SignalAborts(w)
      PROVE  ClientTypeOK'
  <2>1. /\ cancelled /\ place[w] \in {"sending", "waiting"} /\ UNCHANGED drops
        /\ fetch' = [r \in Requests |-> IF r = slot[w] THEN "none" ELSE fetch[r]]
        /\ slot' = [slot EXCEPT ![w] = None]
        /\ UNCHANGED <<vars, mainVars, nextChunk, number>>
    BY <1>12 DEF SignalAborts, ChunkFailed
  <2>2. CASE left[w] > 0 /\ ~cancelled
    <3>1. /\ left' = [left EXCEPT ![w] = @ - 1]
          /\ place' = [place EXCEPT ![w] = "sending"]
          /\ UNCHANGED cancelled
      BY <1>12, <2>2 DEF SignalAborts, ChunkFailed
    <3> QED
      BY <2>1, <2>2, <3>1 DEF mainVars, vars, handlerVars, reqVars, WorkersWait
  <2>3. CASE ~(left[w] > 0 /\ ~cancelled)
    <3>1. /\ cancelled' = TRUE
          /\ place' = [place EXCEPT ![w] = "exited"]
          /\ UNCHANGED left
      BY <1>12, <2>3 DEF SignalAborts, ChunkFailed
    <3> QED
      BY <2>1, <2>3, <3>1 DEF mainVars, vars, handlerVars, reqVars, WorkersWait
  <2> QED
    BY <2>2, <2>3
<1>13. ASSUME NEW r \in Requests, ServerStep(r)
      PROVE  ClientTypeOK'
  <2>1. ServesClient(r)
    BY <1>13, ServerServes
  <2> QED
    BY <2>1 DEF ServesClient, Moves, mainVars, workerVars, WorkersWait
<1>14. ASSUME NEW r \in Requests, BodyEnds(r)
      PROVE  ClientTypeOK'
  <2>1. /\ UNCHANGED clientVars /\ fetch[r] # "waiting"
        /\ pc' = [pc EXCEPT ![r] = "idle"]
    BY <1>14 DEF BodyEnds, ShortSource, Replies, Ends
  <2> QED
    BY <2>1 DEF clientVars, mainVars, workerVars
<1>15. CASE ServerRestarts
  <2>1. /\ fetch' = [r \in Requests |-> IF fetch[r] = "waiting" THEN "error" ELSE fetch[r]]
        /\ pc' = [r \in Requests |-> "idle"]
        /\ UNCHANGED <<mainVars, workerVars, drops>>
    BY <1>15 DEF ServerRestarts, Restart, HandlersDie
  <2> QED
    BY <2>1 DEF mainVars, workerVars
<1>16. CASE SessionRunsOut
  <2>1. UNCHANGED <<clientVars, pc>>
    BY <1>16 DEF SessionRunsOut, TimePasses, Expire, reqVars
  <2> QED
    BY <2>1 DEF clientVars, mainVars, workerVars
<1>17. CASE UNCHANGED allVars
  <2>1. UNCHANGED <<clientVars, pc>>
    BY <1>17 DEF allVars, vars, handlerVars, reqVars
  <2> QED
    BY <2>1 DEF clientVars, mainVars, workerVars
<1>18. CASE MainLost
  BY <1>18, LosesOne
<1> HIDE DEF ClientTypeOK, mainVars, workerVars, Phases, WorkerPlaces, Fetches
<1> QED BY <1>1, <1>2, <1>3, <1>4, <1>5, <1>6, <1>7, <1>8, <1>9, <1>10, <1>11,
     <1>12, <1>13, <1>14, <1>15, <1>16, <1>17, <1>18
     DEF ClientNext, MainStep, WorkerStep

(* The main line waits for one fetch at a time.                            *)
LEMMA MainWaitsStep ==
  ASSUME TypeOK,
         ClientTypeOK,
         MainWaits,
         WorkersWait,
         PhasesAgree,
         [ClientNext]_allVars
  PROVE  MainWaits'
<1> USE DEF ClientTypeOK, mainVars, workerVars
<1> USE DEF MainWaits, WorkersWait
<1>1. ASSUME NEW r \in Requests, OpenSession(r)
      PROVE  MainWaits'
  <2>1. /\ phase = "start" /\ phase' = "opening"
        /\ fetch[r] = "none" /\ fetch' = [fetch EXCEPT ![r] = "waiting"]
        /\ main' = r /\ pc[r] = "idle" /\ pc \in [Requests -> Places]
        /\ pc' = [pc EXCEPT ![r] = "init_call"]
        /\ UNCHANGED <<lost, workerVars, drops>>
    BY <1>1 DEF OpenSession, CreateSession, TypeOK, MainSends, Unused, Starts
  <2> QED
    BY <2>1 DEF workerVars
<1>2. ASSUME NEW r \in Requests, Complete(r)
      PROVE  MainWaits'
  <2>1. /\ phase = "uploading" /\ phase' = "completing"
        /\ fetch[r] = "none" /\ fetch' = [fetch EXCEPT ![r] = "waiting"]
        /\ main' = r /\ pc[r] = "idle" /\ pc \in [Requests -> Places]
        /\ pc' = [pc EXCEPT ![r] = "finalize_call"]
        /\ UNCHANGED <<lost, workerVars, drops>>
        /\ AllExited /\ ~cancelled
    BY <1>2 DEF Complete, CompleteChunkedUpload, TypeOK, MainSends, Unused, Starts
  <2> QED
    BY <2>1 DEF workerVars, AllExited
<1>3. ASSUME NEW r \in Requests, Abort(r)
      PROVE  MainWaits'
  <2>1. /\ phase = "uploading" /\ phase' = "aborting"
        /\ fetch[r] = "none" /\ fetch' = [fetch EXCEPT ![r] = "waiting"]
        /\ main' = r /\ pc[r] = "idle" /\ pc \in [Requests -> Places]
        /\ pc' = [pc EXCEPT ![r] = "abort_call"]
        /\ UNCHANGED <<lost, workerVars, drops>>
        /\ AllExited
    BY <1>3 DEF Abort, AbortChunkedUpload, TypeOK, MainSends, Unused, Starts
  <2> QED
    BY <2>1 DEF workerVars, AllExited
<1>4. CASE MainRefused
  BY <1>4 DEF MainRefused, vars, handlerVars, reqVars
<1>5. CASE MainAnswered
  BY <1>5 DEF MainAnswered, vars, handlerVars, reqVars, PhaseAfter
<1>6. ASSUME NEW w \in Workers, TakeChunk(w)
      PROVE  MainWaits'
  <2>1. /\ place[w] = "ready" /\ phase = "uploading"
        /\ nextChunk' = IF cancelled THEN nextChunk ELSE nextChunk + 1
        /\ UNCHANGED <<vars, mainVars, cancelled, slot, fetch, drops>>
    BY <1>6 DEF TakeChunk
  <2>2. CASE cancelled \/ nextChunk \notin Chunks
    <3>1. place' = [place EXCEPT ![w] = "exited"] /\ UNCHANGED <<number, left>>
      BY <1>6, <2>2 DEF TakeChunk
    <3> QED
      BY <2>1, <2>2, <3>1 DEF mainVars, vars, handlerVars, reqVars
  <2>3. CASE ~cancelled /\ nextChunk \in Chunks
    <3>1. /\ place' = [place EXCEPT ![w] = "sending"]
          /\ number' = [number EXCEPT ![w] = nextChunk]
          /\ left' = [left EXCEPT ![w] = MaxRetries]
      BY <1>6, <2>3 DEF TakeChunk
    <3> QED
      BY <2>1, <2>3, <3>1 DEF mainVars, vars, handlerVars, reqVars
  <2> QED
    BY <2>2, <2>3
<1>7. ASSUME NEW w \in Workers, NEW r \in Requests, SendChunk(w, r)
      PROVE  MainWaits'
  <2>1. /\ place[w] = "sending" /\ place' = [place EXCEPT ![w] = "waiting"]
        /\ slot' = [slot EXCEPT ![w] = r]
        /\ fetch[r] = "none" /\ fetch' = [fetch EXCEPT ![r] = "waiting"]
        /\ pc \in [Requests -> Places]
        /\ \E there \in {"expiring", "chunk_call"} : pc' = [pc EXCEPT ![r] = there]
        /\ UNCHANGED <<mainVars, nextChunk, cancelled, number, left, drops>>
    BY <1>7 DEF SendChunk, TypeOK, UploadChunk, Unused, Starts
  <2>2. main = None
    BY <2>1 DEF PhasesAgree
  <2> QED
    BY <2>1, <2>2 DEF mainVars
<1>8. ASSUME NEW w \in Workers, ChunkStored(w)
      PROVE  MainWaits'
  BY <1>8 DEF ChunkStored, vars, handlerVars, reqVars
<1>9. ASSUME NEW w \in Workers, ChunkRefused(w)
      PROVE  MainWaits'
  <2>1. /\ place[w] = "waiting" /\ fetch[slot[w]] = "error"
        /\ fetch' = [fetch EXCEPT ![slot[w]] = "none"] /\ UNCHANGED drops
        /\ slot' = [slot EXCEPT ![w] = None]
        /\ UNCHANGED <<vars, mainVars, nextChunk, number>>
    BY <1>9 DEF ChunkRefused, ChunkFailed
  <2>2. CASE left[w] > 0 /\ ~cancelled
    <3>1. /\ left' = [left EXCEPT ![w] = @ - 1]
          /\ place' = [place EXCEPT ![w] = "sending"]
          /\ UNCHANGED cancelled
      BY <1>9, <2>2 DEF ChunkRefused, ChunkFailed
    <3> QED
      BY <2>1, <2>2, <3>1 DEF mainVars, vars, handlerVars, reqVars
  <2>3. CASE ~(left[w] > 0 /\ ~cancelled)
    <3>1. /\ cancelled' = TRUE
          /\ place' = [place EXCEPT ![w] = "exited"]
          /\ UNCHANGED left
      BY <1>9, <2>3 DEF ChunkRefused, ChunkFailed
    <3> QED
      BY <2>1, <2>3, <3>1 DEF mainVars, vars, handlerVars, reqVars
  <2> QED
    BY <2>2, <2>3
<1>10. ASSUME NEW w \in Workers, ChunkNotFound(w)
      PROVE  MainWaits'
  <2>1. /\ place[w] = "sending" /\ UNCHANGED <<fetch, drops>>
        /\ slot' = [slot EXCEPT ![w] = None]
        /\ UNCHANGED <<vars, mainVars, nextChunk, number>>
    BY <1>10 DEF ChunkNotFound, ChunkFailed
  <2>2. CASE left[w] > 0 /\ ~cancelled
    <3>1. /\ left' = [left EXCEPT ![w] = @ - 1]
          /\ place' = [place EXCEPT ![w] = "sending"]
          /\ UNCHANGED cancelled
      BY <1>10, <2>2 DEF ChunkNotFound, ChunkFailed
    <3> QED
      BY <2>1, <2>2, <3>1 DEF mainVars, vars, handlerVars, reqVars
  <2>3. CASE ~(left[w] > 0 /\ ~cancelled)
    <3>1. /\ cancelled' = TRUE
          /\ place' = [place EXCEPT ![w] = "exited"]
          /\ UNCHANGED left
      BY <1>10, <2>3 DEF ChunkNotFound, ChunkFailed
    <3> QED
      BY <2>1, <2>3, <3>1 DEF mainVars, vars, handlerVars, reqVars
  <2> QED
    BY <2>2, <2>3
<1>11. ASSUME NEW w \in Workers, ConnectionDrops(w)
      PROVE  MainWaits'
  <2>1. /\ place[w] \in {"sending", "waiting"} /\ drops < MaxDrops /\ drops' = drops + 1
        /\ fetch' = [r \in Requests |-> IF r = slot[w] THEN "none" ELSE fetch[r]]
        /\ slot' = [slot EXCEPT ![w] = None]
        /\ UNCHANGED <<vars, mainVars, nextChunk, number>>
    BY <1>11 DEF ConnectionDrops, ChunkFailed
  <2>2. CASE left[w] > 0 /\ ~cancelled
    <3>1. /\ left' = [left EXCEPT ![w] = @ - 1]
          /\ place' = [place EXCEPT ![w] = "sending"]
          /\ UNCHANGED cancelled
      BY <1>11, <2>2 DEF ConnectionDrops, ChunkFailed
    <3> QED
      BY <2>1, <2>2, <3>1 DEF mainVars, vars, handlerVars, reqVars
  <2>3. CASE ~(left[w] > 0 /\ ~cancelled)
    <3>1. /\ cancelled' = TRUE
          /\ place' = [place EXCEPT ![w] = "exited"]
          /\ UNCHANGED left
      BY <1>11, <2>3 DEF ConnectionDrops, ChunkFailed
    <3> QED
      BY <2>1, <2>3, <3>1 DEF mainVars, vars, handlerVars, reqVars
  <2> QED
    BY <2>2, <2>3
<1>12. ASSUME NEW w \in Workers, SignalAborts(w)
      PROVE  MainWaits'
  <2>1. /\ cancelled /\ place[w] \in {"sending", "waiting"} /\ UNCHANGED drops
        /\ fetch' = [r \in Requests |-> IF r = slot[w] THEN "none" ELSE fetch[r]]
        /\ slot' = [slot EXCEPT ![w] = None]
        /\ UNCHANGED <<vars, mainVars, nextChunk, number>>
    BY <1>12 DEF SignalAborts, ChunkFailed
  <2>2. CASE left[w] > 0 /\ ~cancelled
    <3>1. /\ left' = [left EXCEPT ![w] = @ - 1]
          /\ place' = [place EXCEPT ![w] = "sending"]
          /\ UNCHANGED cancelled
      BY <1>12, <2>2 DEF SignalAborts, ChunkFailed
    <3> QED
      BY <2>1, <2>2, <3>1 DEF mainVars, vars, handlerVars, reqVars
  <2>3. CASE ~(left[w] > 0 /\ ~cancelled)
    <3>1. /\ cancelled' = TRUE
          /\ place' = [place EXCEPT ![w] = "exited"]
          /\ UNCHANGED left
      BY <1>12, <2>3 DEF SignalAborts, ChunkFailed
    <3> QED
      BY <2>1, <2>3, <3>1 DEF mainVars, vars, handlerVars, reqVars
  <2> QED
    BY <2>2, <2>3
<1>13. ASSUME NEW r \in Requests, ServerStep(r)
      PROVE  MainWaits'
  <2>1. ServesClient(r)
    BY <1>13, ServerServes
  <2> QED
    BY <2>1 DEF ServesClient, Moves, mainVars, workerVars
<1>14. ASSUME NEW r \in Requests, BodyEnds(r)
      PROVE  MainWaits'
  <2>1. /\ UNCHANGED clientVars /\ fetch[r] # "waiting"
        /\ pc' = [pc EXCEPT ![r] = "idle"]
    BY <1>14 DEF BodyEnds, ShortSource, Replies, Ends
  <2> QED
    BY <2>1 DEF clientVars, mainVars, workerVars
<1>15. CASE ServerRestarts
  <2>1. /\ fetch' = [r \in Requests |-> IF fetch[r] = "waiting" THEN "error" ELSE fetch[r]]
        /\ pc' = [r \in Requests |-> "idle"]
        /\ UNCHANGED <<mainVars, workerVars, drops>>
    BY <1>15 DEF ServerRestarts, Restart, HandlersDie
  <2> QED
    BY <2>1 DEF mainVars, workerVars
<1>16. CASE SessionRunsOut
  <2>1. UNCHANGED <<clientVars, pc>>
    BY <1>16 DEF SessionRunsOut, TimePasses, Expire, reqVars
  <2> QED
    BY <2>1 DEF clientVars, mainVars, workerVars
<1>17. CASE UNCHANGED allVars
  <2>1. UNCHANGED <<clientVars, pc>>
    BY <1>17 DEF allVars, vars, handlerVars, reqVars
  <2> QED
    BY <2>1 DEF clientVars, mainVars, workerVars
<1>18. CASE MainLost
  BY <1>18, LosesOne DEF vars, handlerVars, reqVars
<1> HIDE DEF ClientTypeOK, mainVars, workerVars, MainWaits, WorkersWait
<1> QED BY <1>1, <1>2, <1>3, <1>4, <1>5, <1>6, <1>7, <1>8, <1>9, <1>10, <1>11,
     <1>12, <1>13, <1>14, <1>15, <1>16, <1>17, <1>18
     DEF ClientNext, MainStep, WorkerStep

(* A slot in use is not taken for another fetch.                           *)
LEMMA WorkersWaitStep ==
  ASSUME TypeOK,
         ClientTypeOK,
         WorkersWait,
         MainWaits,
         PhasesAgree,
         [ClientNext]_allVars
  PROVE  WorkersWait'
<1> USE DEF ClientTypeOK, mainVars, workerVars
<1> USE DEF WorkersWait, MainWaits
<1>1. ASSUME NEW r \in Requests, OpenSession(r)
      PROVE  WorkersWait'
  <2>1. /\ phase = "start" /\ phase' = "opening"
        /\ fetch[r] = "none" /\ fetch' = [fetch EXCEPT ![r] = "waiting"]
        /\ main' = r /\ pc[r] = "idle" /\ pc \in [Requests -> Places]
        /\ pc' = [pc EXCEPT ![r] = "init_call"]
        /\ UNCHANGED <<lost, workerVars, drops>>
    BY <1>1 DEF OpenSession, CreateSession, TypeOK, MainSends, Unused, Starts
  <2> QED
    BY <2>1 DEF workerVars
<1>2. ASSUME NEW r \in Requests, Complete(r)
      PROVE  WorkersWait'
  <2>1. /\ phase = "uploading" /\ phase' = "completing"
        /\ fetch[r] = "none" /\ fetch' = [fetch EXCEPT ![r] = "waiting"]
        /\ main' = r /\ pc[r] = "idle" /\ pc \in [Requests -> Places]
        /\ pc' = [pc EXCEPT ![r] = "finalize_call"]
        /\ UNCHANGED <<lost, workerVars, drops>>
        /\ AllExited /\ ~cancelled
    BY <1>2 DEF Complete, CompleteChunkedUpload, TypeOK, MainSends, Unused, Starts
  <2> QED
    BY <2>1 DEF workerVars, AllExited
<1>3. ASSUME NEW r \in Requests, Abort(r)
      PROVE  WorkersWait'
  <2>1. /\ phase = "uploading" /\ phase' = "aborting"
        /\ fetch[r] = "none" /\ fetch' = [fetch EXCEPT ![r] = "waiting"]
        /\ main' = r /\ pc[r] = "idle" /\ pc \in [Requests -> Places]
        /\ pc' = [pc EXCEPT ![r] = "abort_call"]
        /\ UNCHANGED <<lost, workerVars, drops>>
        /\ AllExited
    BY <1>3 DEF Abort, AbortChunkedUpload, TypeOK, MainSends, Unused, Starts
  <2> QED
    BY <2>1 DEF workerVars, AllExited
<1>4. CASE MainRefused
  BY <1>4 DEF MainRefused, vars, handlerVars, reqVars
<1>5. CASE MainAnswered
  BY <1>5 DEF MainAnswered, vars, handlerVars, reqVars, PhaseAfter
<1>6. ASSUME NEW w \in Workers, TakeChunk(w)
      PROVE  WorkersWait'
  <2>1. /\ place[w] = "ready" /\ phase = "uploading"
        /\ nextChunk' = IF cancelled THEN nextChunk ELSE nextChunk + 1
        /\ UNCHANGED <<vars, mainVars, cancelled, slot, fetch, drops>>
    BY <1>6 DEF TakeChunk
  <2>2. CASE cancelled \/ nextChunk \notin Chunks
    <3>1. place' = [place EXCEPT ![w] = "exited"] /\ UNCHANGED <<number, left>>
      BY <1>6, <2>2 DEF TakeChunk
    <3> QED
      BY <2>1, <2>2, <3>1 DEF mainVars, vars, handlerVars, reqVars
  <2>3. CASE ~cancelled /\ nextChunk \in Chunks
    <3>1. /\ place' = [place EXCEPT ![w] = "sending"]
          /\ number' = [number EXCEPT ![w] = nextChunk]
          /\ left' = [left EXCEPT ![w] = MaxRetries]
      BY <1>6, <2>3 DEF TakeChunk
    <3> QED
      BY <2>1, <2>3, <3>1 DEF mainVars, vars, handlerVars, reqVars
  <2> QED
    BY <2>2, <2>3
<1>7. ASSUME NEW w \in Workers, NEW r \in Requests, SendChunk(w, r)
      PROVE  WorkersWait'
  <2>1. /\ place[w] = "sending" /\ place' = [place EXCEPT ![w] = "waiting"]
        /\ slot' = [slot EXCEPT ![w] = r]
        /\ fetch[r] = "none" /\ fetch' = [fetch EXCEPT ![r] = "waiting"]
        /\ pc \in [Requests -> Places]
        /\ \E there \in {"expiring", "chunk_call"} : pc' = [pc EXCEPT ![r] = there]
        /\ UNCHANGED <<mainVars, nextChunk, cancelled, number, left, drops>>
    BY <1>7 DEF SendChunk, TypeOK, UploadChunk, Unused, Starts
  <2> QED
    BY <2>1 DEF mainVars
<1>8. ASSUME NEW w \in Workers, ChunkStored(w)
      PROVE  WorkersWait'
  BY <1>8 DEF ChunkStored, vars, handlerVars, reqVars
<1>9. ASSUME NEW w \in Workers, ChunkRefused(w)
      PROVE  WorkersWait'
  <2>1. /\ place[w] = "waiting" /\ fetch[slot[w]] = "error"
        /\ fetch' = [fetch EXCEPT ![slot[w]] = "none"] /\ UNCHANGED drops
        /\ slot' = [slot EXCEPT ![w] = None]
        /\ UNCHANGED <<vars, mainVars, nextChunk, number>>
    BY <1>9 DEF ChunkRefused, ChunkFailed
  <2>2. CASE left[w] > 0 /\ ~cancelled
    <3>1. /\ left' = [left EXCEPT ![w] = @ - 1]
          /\ place' = [place EXCEPT ![w] = "sending"]
          /\ UNCHANGED cancelled
      BY <1>9, <2>2 DEF ChunkRefused, ChunkFailed
    <3> QED
      BY <2>1, <2>2, <3>1 DEF mainVars, vars, handlerVars, reqVars
  <2>3. CASE ~(left[w] > 0 /\ ~cancelled)
    <3>1. /\ cancelled' = TRUE
          /\ place' = [place EXCEPT ![w] = "exited"]
          /\ UNCHANGED left
      BY <1>9, <2>3 DEF ChunkRefused, ChunkFailed
    <3> QED
      BY <2>1, <2>3, <3>1 DEF mainVars, vars, handlerVars, reqVars
  <2> QED
    BY <2>2, <2>3
<1>10. ASSUME NEW w \in Workers, ChunkNotFound(w)
      PROVE  WorkersWait'
  <2>1. /\ place[w] = "sending" /\ UNCHANGED <<fetch, drops>>
        /\ slot' = [slot EXCEPT ![w] = None]
        /\ UNCHANGED <<vars, mainVars, nextChunk, number>>
    BY <1>10 DEF ChunkNotFound, ChunkFailed
  <2>2. CASE left[w] > 0 /\ ~cancelled
    <3>1. /\ left' = [left EXCEPT ![w] = @ - 1]
          /\ place' = [place EXCEPT ![w] = "sending"]
          /\ UNCHANGED cancelled
      BY <1>10, <2>2 DEF ChunkNotFound, ChunkFailed
    <3> QED
      BY <2>1, <2>2, <3>1 DEF mainVars, vars, handlerVars, reqVars
  <2>3. CASE ~(left[w] > 0 /\ ~cancelled)
    <3>1. /\ cancelled' = TRUE
          /\ place' = [place EXCEPT ![w] = "exited"]
          /\ UNCHANGED left
      BY <1>10, <2>3 DEF ChunkNotFound, ChunkFailed
    <3> QED
      BY <2>1, <2>3, <3>1 DEF mainVars, vars, handlerVars, reqVars
  <2> QED
    BY <2>2, <2>3
<1>11. ASSUME NEW w \in Workers, ConnectionDrops(w)
      PROVE  WorkersWait'
  <2>1. /\ place[w] \in {"sending", "waiting"} /\ drops < MaxDrops /\ drops' = drops + 1
        /\ fetch' = [r \in Requests |-> IF r = slot[w] THEN "none" ELSE fetch[r]]
        /\ slot' = [slot EXCEPT ![w] = None]
        /\ UNCHANGED <<vars, mainVars, nextChunk, number>>
    BY <1>11 DEF ConnectionDrops, ChunkFailed
  <2>2. CASE left[w] > 0 /\ ~cancelled
    <3>1. /\ left' = [left EXCEPT ![w] = @ - 1]
          /\ place' = [place EXCEPT ![w] = "sending"]
          /\ UNCHANGED cancelled
      BY <1>11, <2>2 DEF ConnectionDrops, ChunkFailed
    <3> QED
      BY <2>1, <2>2, <3>1 DEF mainVars, vars, handlerVars, reqVars
  <2>3. CASE ~(left[w] > 0 /\ ~cancelled)
    <3>1. /\ cancelled' = TRUE
          /\ place' = [place EXCEPT ![w] = "exited"]
          /\ UNCHANGED left
      BY <1>11, <2>3 DEF ConnectionDrops, ChunkFailed
    <3> QED
      BY <2>1, <2>3, <3>1 DEF mainVars, vars, handlerVars, reqVars
  <2> QED
    BY <2>2, <2>3
<1>12. ASSUME NEW w \in Workers, SignalAborts(w)
      PROVE  WorkersWait'
  <2>1. /\ cancelled /\ place[w] \in {"sending", "waiting"} /\ UNCHANGED drops
        /\ fetch' = [r \in Requests |-> IF r = slot[w] THEN "none" ELSE fetch[r]]
        /\ slot' = [slot EXCEPT ![w] = None]
        /\ UNCHANGED <<vars, mainVars, nextChunk, number>>
    BY <1>12 DEF SignalAborts, ChunkFailed
  <2>2. CASE left[w] > 0 /\ ~cancelled
    <3>1. /\ left' = [left EXCEPT ![w] = @ - 1]
          /\ place' = [place EXCEPT ![w] = "sending"]
          /\ UNCHANGED cancelled
      BY <1>12, <2>2 DEF SignalAborts, ChunkFailed
    <3> QED
      BY <2>1, <2>2, <3>1 DEF mainVars, vars, handlerVars, reqVars
  <2>3. CASE ~(left[w] > 0 /\ ~cancelled)
    <3>1. /\ cancelled' = TRUE
          /\ place' = [place EXCEPT ![w] = "exited"]
          /\ UNCHANGED left
      BY <1>12, <2>3 DEF SignalAborts, ChunkFailed
    <3> QED
      BY <2>1, <2>3, <3>1 DEF mainVars, vars, handlerVars, reqVars
  <2> QED
    BY <2>2, <2>3
<1>13. ASSUME NEW r \in Requests, ServerStep(r)
      PROVE  WorkersWait'
  <2>1. ServesClient(r)
    BY <1>13, ServerServes
  <2> QED
    BY <2>1 DEF ServesClient, Moves, mainVars, workerVars
<1>14. ASSUME NEW r \in Requests, BodyEnds(r)
      PROVE  WorkersWait'
  <2>1. /\ UNCHANGED clientVars /\ fetch[r] # "waiting"
        /\ pc' = [pc EXCEPT ![r] = "idle"]
    BY <1>14 DEF BodyEnds, ShortSource, Replies, Ends
  <2> QED
    BY <2>1 DEF clientVars, mainVars, workerVars
<1>15. CASE ServerRestarts
  <2>1. /\ fetch' = [r \in Requests |-> IF fetch[r] = "waiting" THEN "error" ELSE fetch[r]]
        /\ pc' = [r \in Requests |-> "idle"]
        /\ UNCHANGED <<mainVars, workerVars, drops>>
    BY <1>15 DEF ServerRestarts, Restart, HandlersDie
  <2> QED
    BY <2>1 DEF mainVars, workerVars
<1>16. CASE SessionRunsOut
  <2>1. UNCHANGED <<clientVars, pc>>
    BY <1>16 DEF SessionRunsOut, TimePasses, Expire, reqVars
  <2> QED
    BY <2>1 DEF clientVars, mainVars, workerVars
<1>17. CASE UNCHANGED allVars
  <2>1. UNCHANGED <<clientVars, pc>>
    BY <1>17 DEF allVars, vars, handlerVars, reqVars
  <2> QED
    BY <2>1 DEF clientVars, mainVars, workerVars
<1>18. CASE MainLost
  BY <1>18, LosesOne DEF vars, handlerVars, reqVars
<1> HIDE DEF ClientTypeOK, mainVars, workerVars, WorkersWait, MainWaits
<1> QED BY <1>1, <1>2, <1>3, <1>4, <1>5, <1>6, <1>7, <1>8, <1>9, <1>10, <1>11,
     <1>12, <1>13, <1>14, <1>15, <1>16, <1>17, <1>18
     DEF ClientNext, MainStep, WorkerStep

(* A fetch has someone who waits for it.                                   *)
LEMMA FetchesOwnedStep ==
  ASSUME TypeOK,
         ClientTypeOK,
         FetchesOwned,
         MainWaits,
         WorkersWait,
         PhasesAgree,
         [ClientNext]_allVars
  PROVE  FetchesOwned'
<1> USE DEF ClientTypeOK, mainVars, workerVars
<1> USE DEF FetchesOwned, MainWaits, WorkersWait
<1>1. ASSUME NEW r \in Requests, OpenSession(r)
      PROVE  FetchesOwned'
  <2>1. /\ phase = "start" /\ phase' = "opening"
        /\ fetch[r] = "none" /\ fetch' = [fetch EXCEPT ![r] = "waiting"]
        /\ main' = r /\ pc[r] = "idle" /\ pc \in [Requests -> Places]
        /\ pc' = [pc EXCEPT ![r] = "init_call"]
        /\ UNCHANGED <<lost, workerVars, drops>>
    BY <1>1 DEF OpenSession, CreateSession, TypeOK, MainSends, Unused, Starts
  <2> QED
    BY <2>1 DEF workerVars
<1>2. ASSUME NEW r \in Requests, Complete(r)
      PROVE  FetchesOwned'
  <2>1. /\ phase = "uploading" /\ phase' = "completing"
        /\ fetch[r] = "none" /\ fetch' = [fetch EXCEPT ![r] = "waiting"]
        /\ main' = r /\ pc[r] = "idle" /\ pc \in [Requests -> Places]
        /\ pc' = [pc EXCEPT ![r] = "finalize_call"]
        /\ UNCHANGED <<lost, workerVars, drops>>
        /\ AllExited /\ ~cancelled
    BY <1>2 DEF Complete, CompleteChunkedUpload, TypeOK, MainSends, Unused, Starts
  <2> QED
    BY <2>1 DEF workerVars, AllExited
<1>3. ASSUME NEW r \in Requests, Abort(r)
      PROVE  FetchesOwned'
  <2>1. /\ phase = "uploading" /\ phase' = "aborting"
        /\ fetch[r] = "none" /\ fetch' = [fetch EXCEPT ![r] = "waiting"]
        /\ main' = r /\ pc[r] = "idle" /\ pc \in [Requests -> Places]
        /\ pc' = [pc EXCEPT ![r] = "abort_call"]
        /\ UNCHANGED <<lost, workerVars, drops>>
        /\ AllExited
    BY <1>3 DEF Abort, AbortChunkedUpload, TypeOK, MainSends, Unused, Starts
  <2> QED
    BY <2>1 DEF workerVars, AllExited
<1>4. CASE MainRefused
  BY <1>4 DEF MainRefused, vars, handlerVars, reqVars
<1>5. CASE MainAnswered
  BY <1>5 DEF MainAnswered, vars, handlerVars, reqVars, PhaseAfter
<1>6. ASSUME NEW w \in Workers, TakeChunk(w)
      PROVE  FetchesOwned'
  <2>1. /\ place[w] = "ready" /\ phase = "uploading"
        /\ nextChunk' = IF cancelled THEN nextChunk ELSE nextChunk + 1
        /\ UNCHANGED <<vars, mainVars, cancelled, slot, fetch, drops>>
    BY <1>6 DEF TakeChunk
  <2>2. CASE cancelled \/ nextChunk \notin Chunks
    <3>1. place' = [place EXCEPT ![w] = "exited"] /\ UNCHANGED <<number, left>>
      BY <1>6, <2>2 DEF TakeChunk
    <3> QED
      BY <2>1, <2>2, <3>1 DEF mainVars, vars, handlerVars, reqVars
  <2>3. CASE ~cancelled /\ nextChunk \in Chunks
    <3>1. /\ place' = [place EXCEPT ![w] = "sending"]
          /\ number' = [number EXCEPT ![w] = nextChunk]
          /\ left' = [left EXCEPT ![w] = MaxRetries]
      BY <1>6, <2>3 DEF TakeChunk
    <3> QED
      BY <2>1, <2>3, <3>1 DEF mainVars, vars, handlerVars, reqVars
  <2> QED
    BY <2>2, <2>3
<1>7. ASSUME NEW w \in Workers, NEW r \in Requests, SendChunk(w, r)
      PROVE  FetchesOwned'
  <2>1. /\ place[w] = "sending" /\ place' = [place EXCEPT ![w] = "waiting"]
        /\ slot' = [slot EXCEPT ![w] = r]
        /\ fetch[r] = "none" /\ fetch' = [fetch EXCEPT ![r] = "waiting"]
        /\ pc \in [Requests -> Places]
        /\ \E there \in {"expiring", "chunk_call"} : pc' = [pc EXCEPT ![r] = there]
        /\ UNCHANGED <<mainVars, nextChunk, cancelled, number, left, drops>>
    BY <1>7 DEF SendChunk, TypeOK, UploadChunk, Unused, Starts
  <2> QED
    BY <2>1 DEF mainVars
<1>8. ASSUME NEW w \in Workers, ChunkStored(w)
      PROVE  FetchesOwned'
  BY <1>8 DEF ChunkStored, vars, handlerVars, reqVars
<1>9. ASSUME NEW w \in Workers, ChunkRefused(w)
      PROVE  FetchesOwned'
  <2>1. /\ place[w] = "waiting" /\ fetch[slot[w]] = "error"
        /\ fetch' = [fetch EXCEPT ![slot[w]] = "none"] /\ UNCHANGED drops
        /\ slot' = [slot EXCEPT ![w] = None]
        /\ UNCHANGED <<vars, mainVars, nextChunk, number>>
    BY <1>9 DEF ChunkRefused, ChunkFailed
  <2>2. CASE left[w] > 0 /\ ~cancelled
    <3>1. /\ left' = [left EXCEPT ![w] = @ - 1]
          /\ place' = [place EXCEPT ![w] = "sending"]
          /\ UNCHANGED cancelled
      BY <1>9, <2>2 DEF ChunkRefused, ChunkFailed
    <3> QED
      BY <2>1, <2>2, <3>1 DEF mainVars, vars, handlerVars, reqVars
  <2>3. CASE ~(left[w] > 0 /\ ~cancelled)
    <3>1. /\ cancelled' = TRUE
          /\ place' = [place EXCEPT ![w] = "exited"]
          /\ UNCHANGED left
      BY <1>9, <2>3 DEF ChunkRefused, ChunkFailed
    <3> QED
      BY <2>1, <2>3, <3>1 DEF mainVars, vars, handlerVars, reqVars
  <2> QED
    BY <2>2, <2>3
<1>10. ASSUME NEW w \in Workers, ChunkNotFound(w)
      PROVE  FetchesOwned'
  <2>1. /\ place[w] = "sending" /\ UNCHANGED <<fetch, drops>>
        /\ slot' = [slot EXCEPT ![w] = None]
        /\ UNCHANGED <<vars, mainVars, nextChunk, number>>
    BY <1>10 DEF ChunkNotFound, ChunkFailed
  <2>2. CASE left[w] > 0 /\ ~cancelled
    <3>1. /\ left' = [left EXCEPT ![w] = @ - 1]
          /\ place' = [place EXCEPT ![w] = "sending"]
          /\ UNCHANGED cancelled
      BY <1>10, <2>2 DEF ChunkNotFound, ChunkFailed
    <3> QED
      BY <2>1, <2>2, <3>1 DEF mainVars, vars, handlerVars, reqVars
  <2>3. CASE ~(left[w] > 0 /\ ~cancelled)
    <3>1. /\ cancelled' = TRUE
          /\ place' = [place EXCEPT ![w] = "exited"]
          /\ UNCHANGED left
      BY <1>10, <2>3 DEF ChunkNotFound, ChunkFailed
    <3> QED
      BY <2>1, <2>3, <3>1 DEF mainVars, vars, handlerVars, reqVars
  <2> QED
    BY <2>2, <2>3
<1>11. ASSUME NEW w \in Workers, ConnectionDrops(w)
      PROVE  FetchesOwned'
  <2>1. /\ place[w] \in {"sending", "waiting"} /\ drops < MaxDrops /\ drops' = drops + 1
        /\ fetch' = [r \in Requests |-> IF r = slot[w] THEN "none" ELSE fetch[r]]
        /\ slot' = [slot EXCEPT ![w] = None]
        /\ UNCHANGED <<vars, mainVars, nextChunk, number>>
    BY <1>11 DEF ConnectionDrops, ChunkFailed
  <2>2. CASE left[w] > 0 /\ ~cancelled
    <3>1. /\ left' = [left EXCEPT ![w] = @ - 1]
          /\ place' = [place EXCEPT ![w] = "sending"]
          /\ UNCHANGED cancelled
      BY <1>11, <2>2 DEF ConnectionDrops, ChunkFailed
    <3> QED
      BY <2>1, <2>2, <3>1 DEF mainVars, vars, handlerVars, reqVars
  <2>3. CASE ~(left[w] > 0 /\ ~cancelled)
    <3>1. /\ cancelled' = TRUE
          /\ place' = [place EXCEPT ![w] = "exited"]
          /\ UNCHANGED left
      BY <1>11, <2>3 DEF ConnectionDrops, ChunkFailed
    <3> QED
      BY <2>1, <2>3, <3>1 DEF mainVars, vars, handlerVars, reqVars
  <2> QED
    BY <2>2, <2>3
<1>12. ASSUME NEW w \in Workers, SignalAborts(w)
      PROVE  FetchesOwned'
  <2>1. /\ cancelled /\ place[w] \in {"sending", "waiting"} /\ UNCHANGED drops
        /\ fetch' = [r \in Requests |-> IF r = slot[w] THEN "none" ELSE fetch[r]]
        /\ slot' = [slot EXCEPT ![w] = None]
        /\ UNCHANGED <<vars, mainVars, nextChunk, number>>
    BY <1>12 DEF SignalAborts, ChunkFailed
  <2>2. CASE left[w] > 0 /\ ~cancelled
    <3>1. /\ left' = [left EXCEPT ![w] = @ - 1]
          /\ place' = [place EXCEPT ![w] = "sending"]
          /\ UNCHANGED cancelled
      BY <1>12, <2>2 DEF SignalAborts, ChunkFailed
    <3> QED
      BY <2>1, <2>2, <3>1 DEF mainVars, vars, handlerVars, reqVars
  <2>3. CASE ~(left[w] > 0 /\ ~cancelled)
    <3>1. /\ cancelled' = TRUE
          /\ place' = [place EXCEPT ![w] = "exited"]
          /\ UNCHANGED left
      BY <1>12, <2>3 DEF SignalAborts, ChunkFailed
    <3> QED
      BY <2>1, <2>3, <3>1 DEF mainVars, vars, handlerVars, reqVars
  <2> QED
    BY <2>2, <2>3
<1>13. ASSUME NEW r \in Requests, ServerStep(r)
      PROVE  FetchesOwned'
  <2>1. ServesClient(r)
    BY <1>13, ServerServes
  <2> QED
    BY <2>1 DEF ServesClient, Moves, mainVars, workerVars
<1>14. ASSUME NEW r \in Requests, BodyEnds(r)
      PROVE  FetchesOwned'
  <2>1. /\ UNCHANGED clientVars /\ fetch[r] # "waiting"
        /\ pc' = [pc EXCEPT ![r] = "idle"]
    BY <1>14 DEF BodyEnds, ShortSource, Replies, Ends
  <2> QED
    BY <2>1 DEF clientVars, mainVars, workerVars
<1>15. CASE ServerRestarts
  <2>1. /\ fetch' = [r \in Requests |-> IF fetch[r] = "waiting" THEN "error" ELSE fetch[r]]
        /\ pc' = [r \in Requests |-> "idle"]
        /\ UNCHANGED <<mainVars, workerVars, drops>>
    BY <1>15 DEF ServerRestarts, Restart, HandlersDie
  <2> QED
    BY <2>1 DEF mainVars, workerVars
<1>16. CASE SessionRunsOut
  <2>1. UNCHANGED <<clientVars, pc>>
    BY <1>16 DEF SessionRunsOut, TimePasses, Expire, reqVars
  <2> QED
    BY <2>1 DEF clientVars, mainVars, workerVars
<1>17. CASE UNCHANGED allVars
  <2>1. UNCHANGED <<clientVars, pc>>
    BY <1>17 DEF allVars, vars, handlerVars, reqVars
  <2> QED
    BY <2>1 DEF clientVars, mainVars, workerVars
<1>18. CASE MainLost
  BY <1>18, LosesOne DEF vars, handlerVars, reqVars
<1> HIDE DEF ClientTypeOK, mainVars, workerVars, FetchesOwned, MainWaits,
           WorkersWait
<1> QED BY <1>1, <1>2, <1>3, <1>4, <1>5, <1>6, <1>7, <1>8, <1>9, <1>10, <1>11,
     <1>12, <1>13, <1>14, <1>15, <1>16, <1>17, <1>18
     DEF ClientNext, MainStep, WorkerStep

(* A fetch waits as long as its handler runs.                              *)
LEMMA FetchesServedStep ==
  ASSUME TypeOK,
         ClientTypeOK,
         FetchesServed,
         MainWaits,
         WorkersWait,
         PhasesAgree,
         [ClientNext]_allVars
  PROVE  FetchesServed'
<1> USE DEF ClientTypeOK, mainVars, workerVars
<1> USE DEF FetchesServed, MainWaits, WorkersWait
<1>1. ASSUME NEW r \in Requests, OpenSession(r)
      PROVE  FetchesServed'
  <2>1. /\ phase = "start" /\ phase' = "opening"
        /\ fetch[r] = "none" /\ fetch' = [fetch EXCEPT ![r] = "waiting"]
        /\ main' = r /\ pc[r] = "idle" /\ pc \in [Requests -> Places]
        /\ pc' = [pc EXCEPT ![r] = "init_call"]
        /\ UNCHANGED <<lost, workerVars, drops>>
    BY <1>1 DEF OpenSession, CreateSession, TypeOK, MainSends, Unused, Starts
  <2> QED
    BY <2>1 DEF workerVars
<1>2. ASSUME NEW r \in Requests, Complete(r)
      PROVE  FetchesServed'
  <2>1. /\ phase = "uploading" /\ phase' = "completing"
        /\ fetch[r] = "none" /\ fetch' = [fetch EXCEPT ![r] = "waiting"]
        /\ main' = r /\ pc[r] = "idle" /\ pc \in [Requests -> Places]
        /\ pc' = [pc EXCEPT ![r] = "finalize_call"]
        /\ UNCHANGED <<lost, workerVars, drops>>
        /\ AllExited /\ ~cancelled
    BY <1>2 DEF Complete, CompleteChunkedUpload, TypeOK, MainSends, Unused, Starts
  <2> QED
    BY <2>1 DEF workerVars, AllExited
<1>3. ASSUME NEW r \in Requests, Abort(r)
      PROVE  FetchesServed'
  <2>1. /\ phase = "uploading" /\ phase' = "aborting"
        /\ fetch[r] = "none" /\ fetch' = [fetch EXCEPT ![r] = "waiting"]
        /\ main' = r /\ pc[r] = "idle" /\ pc \in [Requests -> Places]
        /\ pc' = [pc EXCEPT ![r] = "abort_call"]
        /\ UNCHANGED <<lost, workerVars, drops>>
        /\ AllExited
    BY <1>3 DEF Abort, AbortChunkedUpload, TypeOK, MainSends, Unused, Starts
  <2> QED
    BY <2>1 DEF workerVars, AllExited
<1>4. CASE MainRefused
  BY <1>4 DEF MainRefused, vars, handlerVars, reqVars
<1>5. CASE MainAnswered
  BY <1>5 DEF MainAnswered, vars, handlerVars, reqVars, PhaseAfter
<1>6. ASSUME NEW w \in Workers, TakeChunk(w)
      PROVE  FetchesServed'
  <2>1. /\ place[w] = "ready" /\ phase = "uploading"
        /\ nextChunk' = IF cancelled THEN nextChunk ELSE nextChunk + 1
        /\ UNCHANGED <<vars, mainVars, cancelled, slot, fetch, drops>>
    BY <1>6 DEF TakeChunk
  <2>2. CASE cancelled \/ nextChunk \notin Chunks
    <3>1. place' = [place EXCEPT ![w] = "exited"] /\ UNCHANGED <<number, left>>
      BY <1>6, <2>2 DEF TakeChunk
    <3> QED
      BY <2>1, <2>2, <3>1 DEF mainVars, vars, handlerVars, reqVars
  <2>3. CASE ~cancelled /\ nextChunk \in Chunks
    <3>1. /\ place' = [place EXCEPT ![w] = "sending"]
          /\ number' = [number EXCEPT ![w] = nextChunk]
          /\ left' = [left EXCEPT ![w] = MaxRetries]
      BY <1>6, <2>3 DEF TakeChunk
    <3> QED
      BY <2>1, <2>3, <3>1 DEF mainVars, vars, handlerVars, reqVars
  <2> QED
    BY <2>2, <2>3
<1>7. ASSUME NEW w \in Workers, NEW r \in Requests, SendChunk(w, r)
      PROVE  FetchesServed'
  <2>1. /\ place[w] = "sending" /\ place' = [place EXCEPT ![w] = "waiting"]
        /\ slot' = [slot EXCEPT ![w] = r]
        /\ fetch[r] = "none" /\ fetch' = [fetch EXCEPT ![r] = "waiting"]
        /\ pc \in [Requests -> Places]
        /\ \E there \in {"expiring", "chunk_call"} : pc' = [pc EXCEPT ![r] = there]
        /\ UNCHANGED <<mainVars, nextChunk, cancelled, number, left, drops>>
    BY <1>7 DEF SendChunk, TypeOK, UploadChunk, Unused, Starts
  <2> QED
    BY <2>1 DEF mainVars
<1>8. ASSUME NEW w \in Workers, ChunkStored(w)
      PROVE  FetchesServed'
  BY <1>8 DEF ChunkStored, vars, handlerVars, reqVars
<1>9. ASSUME NEW w \in Workers, ChunkRefused(w)
      PROVE  FetchesServed'
  <2>1. /\ place[w] = "waiting" /\ fetch[slot[w]] = "error"
        /\ fetch' = [fetch EXCEPT ![slot[w]] = "none"] /\ UNCHANGED drops
        /\ slot' = [slot EXCEPT ![w] = None]
        /\ UNCHANGED <<vars, mainVars, nextChunk, number>>
    BY <1>9 DEF ChunkRefused, ChunkFailed
  <2>2. CASE left[w] > 0 /\ ~cancelled
    <3>1. /\ left' = [left EXCEPT ![w] = @ - 1]
          /\ place' = [place EXCEPT ![w] = "sending"]
          /\ UNCHANGED cancelled
      BY <1>9, <2>2 DEF ChunkRefused, ChunkFailed
    <3> QED
      BY <2>1, <2>2, <3>1 DEF mainVars, vars, handlerVars, reqVars
  <2>3. CASE ~(left[w] > 0 /\ ~cancelled)
    <3>1. /\ cancelled' = TRUE
          /\ place' = [place EXCEPT ![w] = "exited"]
          /\ UNCHANGED left
      BY <1>9, <2>3 DEF ChunkRefused, ChunkFailed
    <3> QED
      BY <2>1, <2>3, <3>1 DEF mainVars, vars, handlerVars, reqVars
  <2> QED
    BY <2>2, <2>3
<1>10. ASSUME NEW w \in Workers, ChunkNotFound(w)
      PROVE  FetchesServed'
  <2>1. /\ place[w] = "sending" /\ UNCHANGED <<fetch, drops>>
        /\ slot' = [slot EXCEPT ![w] = None]
        /\ UNCHANGED <<vars, mainVars, nextChunk, number>>
    BY <1>10 DEF ChunkNotFound, ChunkFailed
  <2>2. CASE left[w] > 0 /\ ~cancelled
    <3>1. /\ left' = [left EXCEPT ![w] = @ - 1]
          /\ place' = [place EXCEPT ![w] = "sending"]
          /\ UNCHANGED cancelled
      BY <1>10, <2>2 DEF ChunkNotFound, ChunkFailed
    <3> QED
      BY <2>1, <2>2, <3>1 DEF mainVars, vars, handlerVars, reqVars
  <2>3. CASE ~(left[w] > 0 /\ ~cancelled)
    <3>1. /\ cancelled' = TRUE
          /\ place' = [place EXCEPT ![w] = "exited"]
          /\ UNCHANGED left
      BY <1>10, <2>3 DEF ChunkNotFound, ChunkFailed
    <3> QED
      BY <2>1, <2>3, <3>1 DEF mainVars, vars, handlerVars, reqVars
  <2> QED
    BY <2>2, <2>3
<1>11. ASSUME NEW w \in Workers, ConnectionDrops(w)
      PROVE  FetchesServed'
  <2>1. /\ place[w] \in {"sending", "waiting"} /\ drops < MaxDrops /\ drops' = drops + 1
        /\ fetch' = [r \in Requests |-> IF r = slot[w] THEN "none" ELSE fetch[r]]
        /\ slot' = [slot EXCEPT ![w] = None]
        /\ UNCHANGED <<vars, mainVars, nextChunk, number>>
    BY <1>11 DEF ConnectionDrops, ChunkFailed
  <2>2. CASE left[w] > 0 /\ ~cancelled
    <3>1. /\ left' = [left EXCEPT ![w] = @ - 1]
          /\ place' = [place EXCEPT ![w] = "sending"]
          /\ UNCHANGED cancelled
      BY <1>11, <2>2 DEF ConnectionDrops, ChunkFailed
    <3> QED
      BY <2>1, <2>2, <3>1 DEF mainVars, vars, handlerVars, reqVars
  <2>3. CASE ~(left[w] > 0 /\ ~cancelled)
    <3>1. /\ cancelled' = TRUE
          /\ place' = [place EXCEPT ![w] = "exited"]
          /\ UNCHANGED left
      BY <1>11, <2>3 DEF ConnectionDrops, ChunkFailed
    <3> QED
      BY <2>1, <2>3, <3>1 DEF mainVars, vars, handlerVars, reqVars
  <2> QED
    BY <2>2, <2>3
<1>12. ASSUME NEW w \in Workers, SignalAborts(w)
      PROVE  FetchesServed'
  <2>1. /\ cancelled /\ place[w] \in {"sending", "waiting"} /\ UNCHANGED drops
        /\ fetch' = [r \in Requests |-> IF r = slot[w] THEN "none" ELSE fetch[r]]
        /\ slot' = [slot EXCEPT ![w] = None]
        /\ UNCHANGED <<vars, mainVars, nextChunk, number>>
    BY <1>12 DEF SignalAborts, ChunkFailed
  <2>2. CASE left[w] > 0 /\ ~cancelled
    <3>1. /\ left' = [left EXCEPT ![w] = @ - 1]
          /\ place' = [place EXCEPT ![w] = "sending"]
          /\ UNCHANGED cancelled
      BY <1>12, <2>2 DEF SignalAborts, ChunkFailed
    <3> QED
      BY <2>1, <2>2, <3>1 DEF mainVars, vars, handlerVars, reqVars
  <2>3. CASE ~(left[w] > 0 /\ ~cancelled)
    <3>1. /\ cancelled' = TRUE
          /\ place' = [place EXCEPT ![w] = "exited"]
          /\ UNCHANGED left
      BY <1>12, <2>3 DEF SignalAborts, ChunkFailed
    <3> QED
      BY <2>1, <2>3, <3>1 DEF mainVars, vars, handlerVars, reqVars
  <2> QED
    BY <2>2, <2>3
<1>13. ASSUME NEW r \in Requests, ServerStep(r)
      PROVE  FetchesServed'
  <2>1. ServesClient(r)
    BY <1>13, ServerServes
  <2> QED
    BY <2>1 DEF ServesClient, Moves, mainVars, workerVars
<1>14. ASSUME NEW r \in Requests, BodyEnds(r)
      PROVE  FetchesServed'
  <2>1. /\ UNCHANGED clientVars /\ fetch[r] # "waiting"
        /\ pc' = [pc EXCEPT ![r] = "idle"]
    BY <1>14 DEF BodyEnds, ShortSource, Replies, Ends
  <2> QED
    BY <2>1 DEF clientVars, mainVars, workerVars
<1>15. CASE ServerRestarts
  <2>1. /\ fetch' = [r \in Requests |-> IF fetch[r] = "waiting" THEN "error" ELSE fetch[r]]
        /\ pc' = [r \in Requests |-> "idle"]
        /\ UNCHANGED <<mainVars, workerVars, drops>>
    BY <1>15 DEF ServerRestarts, Restart, HandlersDie
  <2> QED
    BY <2>1 DEF mainVars, workerVars
<1>16. CASE SessionRunsOut
  <2>1. UNCHANGED <<clientVars, pc>>
    BY <1>16 DEF SessionRunsOut, TimePasses, Expire, reqVars
  <2> QED
    BY <2>1 DEF clientVars, mainVars, workerVars
<1>17. CASE UNCHANGED allVars
  <2>1. UNCHANGED <<clientVars, pc>>
    BY <1>17 DEF allVars, vars, handlerVars, reqVars
  <2> QED
    BY <2>1 DEF clientVars, mainVars, workerVars
<1>18. CASE MainLost
  BY <1>18, LosesOne DEF vars, handlerVars, reqVars
<1> HIDE DEF ClientTypeOK, mainVars, workerVars, FetchesServed, MainWaits,
           WorkersWait
<1> QED BY <1>1, <1>2, <1>3, <1>4, <1>5, <1>6, <1>7, <1>8, <1>9, <1>10, <1>11,
     <1>12, <1>13, <1>14, <1>15, <1>16, <1>17, <1>18
     DEF ClientNext, MainStep, WorkerStep

(* The main line goes on when all workers have exited.                     *)
LEMMA PhasesAgreeStep ==
  ASSUME TypeOK,
         ClientTypeOK,
         PhasesAgree,
         WorkersWait,
         MainWaits,
         [ClientNext]_allVars
  PROVE  PhasesAgree'
<1> USE DEF ClientTypeOK, mainVars, workerVars
<1> USE DEF PhasesAgree, WorkersWait
<1>1. ASSUME NEW r \in Requests, OpenSession(r)
      PROVE  PhasesAgree'
  <2>1. /\ phase = "start" /\ phase' = "opening"
        /\ fetch[r] = "none" /\ fetch' = [fetch EXCEPT ![r] = "waiting"]
        /\ main' = r /\ pc[r] = "idle" /\ pc \in [Requests -> Places]
        /\ pc' = [pc EXCEPT ![r] = "init_call"]
        /\ UNCHANGED <<lost, workerVars, drops>>
    BY <1>1 DEF OpenSession, CreateSession, TypeOK, MainSends, Unused, Starts
  <2> QED
    BY <2>1 DEF workerVars
<1>2. ASSUME NEW r \in Requests, Complete(r)
      PROVE  PhasesAgree'
  <2>1. /\ phase = "uploading" /\ phase' = "completing"
        /\ fetch[r] = "none" /\ fetch' = [fetch EXCEPT ![r] = "waiting"]
        /\ main' = r /\ pc[r] = "idle" /\ pc \in [Requests -> Places]
        /\ pc' = [pc EXCEPT ![r] = "finalize_call"]
        /\ UNCHANGED <<lost, workerVars, drops>>
        /\ AllExited /\ ~cancelled
    BY <1>2 DEF Complete, CompleteChunkedUpload, TypeOK, MainSends, Unused, Starts
  <2> QED
    BY <2>1 DEF workerVars, AllExited
<1>3. ASSUME NEW r \in Requests, Abort(r)
      PROVE  PhasesAgree'
  <2>1. /\ phase = "uploading" /\ phase' = "aborting"
        /\ fetch[r] = "none" /\ fetch' = [fetch EXCEPT ![r] = "waiting"]
        /\ main' = r /\ pc[r] = "idle" /\ pc \in [Requests -> Places]
        /\ pc' = [pc EXCEPT ![r] = "abort_call"]
        /\ UNCHANGED <<lost, workerVars, drops>>
        /\ AllExited
    BY <1>3 DEF Abort, AbortChunkedUpload, TypeOK, MainSends, Unused, Starts
  <2> QED
    BY <2>1 DEF workerVars, AllExited
<1>4. CASE MainRefused
  BY <1>4 DEF MainRefused, vars, handlerVars, reqVars, AllExited
<1>5. CASE MainAnswered
  BY <1>5 DEF MainAnswered, vars, handlerVars, reqVars, PhaseAfter,
     MainWaits
<1>6. ASSUME NEW w \in Workers, TakeChunk(w)
      PROVE  PhasesAgree'
  <2>1. /\ place[w] = "ready" /\ phase = "uploading"
        /\ nextChunk' = IF cancelled THEN nextChunk ELSE nextChunk + 1
        /\ UNCHANGED <<vars, mainVars, cancelled, slot, fetch, drops>>
    BY <1>6 DEF TakeChunk
  <2>2. CASE cancelled \/ nextChunk \notin Chunks
    <3>1. place' = [place EXCEPT ![w] = "exited"] /\ UNCHANGED <<number, left>>
      BY <1>6, <2>2 DEF TakeChunk
    <3> QED
      BY <2>1, <2>2, <3>1 DEF mainVars, vars, handlerVars, reqVars, AllExited
  <2>3. CASE ~cancelled /\ nextChunk \in Chunks
    <3>1. /\ place' = [place EXCEPT ![w] = "sending"]
          /\ number' = [number EXCEPT ![w] = nextChunk]
          /\ left' = [left EXCEPT ![w] = MaxRetries]
      BY <1>6, <2>3 DEF TakeChunk
    <3> QED
      BY <2>1, <2>3, <3>1 DEF mainVars, vars, handlerVars, reqVars, AllExited
  <2> QED
    BY <2>2, <2>3
<1>7. ASSUME NEW w \in Workers, NEW r \in Requests, SendChunk(w, r)
      PROVE  PhasesAgree'
  <2>1. /\ place[w] = "sending" /\ place' = [place EXCEPT ![w] = "waiting"]
        /\ slot' = [slot EXCEPT ![w] = r]
        /\ fetch[r] = "none" /\ fetch' = [fetch EXCEPT ![r] = "waiting"]
        /\ pc \in [Requests -> Places]
        /\ \E there \in {"expiring", "chunk_call"} : pc' = [pc EXCEPT ![r] = there]
        /\ UNCHANGED <<mainVars, nextChunk, cancelled, number, left, drops>>
    BY <1>7 DEF SendChunk, TypeOK, UploadChunk, Unused, Starts
  <2> QED
    BY <2>1 DEF mainVars
<1>8. ASSUME NEW w \in Workers, ChunkStored(w)
      PROVE  PhasesAgree'
  BY <1>8 DEF ChunkStored, vars, handlerVars, reqVars
<1>9. ASSUME NEW w \in Workers, ChunkRefused(w)
      PROVE  PhasesAgree'
  <2>1. /\ place[w] = "waiting" /\ fetch[slot[w]] = "error"
        /\ fetch' = [fetch EXCEPT ![slot[w]] = "none"] /\ UNCHANGED drops
        /\ slot' = [slot EXCEPT ![w] = None]
        /\ UNCHANGED <<vars, mainVars, nextChunk, number>>
    BY <1>9 DEF ChunkRefused, ChunkFailed
  <2>2. CASE left[w] > 0 /\ ~cancelled
    <3>1. /\ left' = [left EXCEPT ![w] = @ - 1]
          /\ place' = [place EXCEPT ![w] = "sending"]
          /\ UNCHANGED cancelled
      BY <1>9, <2>2 DEF ChunkRefused, ChunkFailed
    <3> QED
      BY <2>1, <2>2, <3>1 DEF mainVars, vars, handlerVars, reqVars, AllExited
  <2>3. CASE ~(left[w] > 0 /\ ~cancelled)
    <3>1. /\ cancelled' = TRUE
          /\ place' = [place EXCEPT ![w] = "exited"]
          /\ UNCHANGED left
      BY <1>9, <2>3 DEF ChunkRefused, ChunkFailed
    <3> QED
      BY <2>1, <2>3, <3>1 DEF mainVars, vars, handlerVars, reqVars, AllExited
  <2> QED
    BY <2>2, <2>3
<1>10. ASSUME NEW w \in Workers, ChunkNotFound(w)
      PROVE  PhasesAgree'
  <2>1. /\ place[w] = "sending" /\ UNCHANGED <<fetch, drops>>
        /\ slot' = [slot EXCEPT ![w] = None]
        /\ UNCHANGED <<vars, mainVars, nextChunk, number>>
    BY <1>10 DEF ChunkNotFound, ChunkFailed
  <2>2. CASE left[w] > 0 /\ ~cancelled
    <3>1. /\ left' = [left EXCEPT ![w] = @ - 1]
          /\ place' = [place EXCEPT ![w] = "sending"]
          /\ UNCHANGED cancelled
      BY <1>10, <2>2 DEF ChunkNotFound, ChunkFailed
    <3> QED
      BY <2>1, <2>2, <3>1 DEF mainVars, vars, handlerVars, reqVars, AllExited
  <2>3. CASE ~(left[w] > 0 /\ ~cancelled)
    <3>1. /\ cancelled' = TRUE
          /\ place' = [place EXCEPT ![w] = "exited"]
          /\ UNCHANGED left
      BY <1>10, <2>3 DEF ChunkNotFound, ChunkFailed
    <3> QED
      BY <2>1, <2>3, <3>1 DEF mainVars, vars, handlerVars, reqVars, AllExited
  <2> QED
    BY <2>2, <2>3
<1>11. ASSUME NEW w \in Workers, ConnectionDrops(w)
      PROVE  PhasesAgree'
  <2>1. /\ place[w] \in {"sending", "waiting"} /\ drops < MaxDrops /\ drops' = drops + 1
        /\ fetch' = [r \in Requests |-> IF r = slot[w] THEN "none" ELSE fetch[r]]
        /\ slot' = [slot EXCEPT ![w] = None]
        /\ UNCHANGED <<vars, mainVars, nextChunk, number>>
    BY <1>11 DEF ConnectionDrops, ChunkFailed
  <2>2. CASE left[w] > 0 /\ ~cancelled
    <3>1. /\ left' = [left EXCEPT ![w] = @ - 1]
          /\ place' = [place EXCEPT ![w] = "sending"]
          /\ UNCHANGED cancelled
      BY <1>11, <2>2 DEF ConnectionDrops, ChunkFailed
    <3> QED
      BY <2>1, <2>2, <3>1 DEF mainVars, vars, handlerVars, reqVars, AllExited
  <2>3. CASE ~(left[w] > 0 /\ ~cancelled)
    <3>1. /\ cancelled' = TRUE
          /\ place' = [place EXCEPT ![w] = "exited"]
          /\ UNCHANGED left
      BY <1>11, <2>3 DEF ConnectionDrops, ChunkFailed
    <3> QED
      BY <2>1, <2>3, <3>1 DEF mainVars, vars, handlerVars, reqVars, AllExited
  <2> QED
    BY <2>2, <2>3
<1>12. ASSUME NEW w \in Workers, SignalAborts(w)
      PROVE  PhasesAgree'
  <2>1. /\ cancelled /\ place[w] \in {"sending", "waiting"} /\ UNCHANGED drops
        /\ fetch' = [r \in Requests |-> IF r = slot[w] THEN "none" ELSE fetch[r]]
        /\ slot' = [slot EXCEPT ![w] = None]
        /\ UNCHANGED <<vars, mainVars, nextChunk, number>>
    BY <1>12 DEF SignalAborts, ChunkFailed
  <2>2. CASE left[w] > 0 /\ ~cancelled
    <3>1. /\ left' = [left EXCEPT ![w] = @ - 1]
          /\ place' = [place EXCEPT ![w] = "sending"]
          /\ UNCHANGED cancelled
      BY <1>12, <2>2 DEF SignalAborts, ChunkFailed
    <3> QED
      BY <2>1, <2>2, <3>1 DEF mainVars, vars, handlerVars, reqVars, AllExited
  <2>3. CASE ~(left[w] > 0 /\ ~cancelled)
    <3>1. /\ cancelled' = TRUE
          /\ place' = [place EXCEPT ![w] = "exited"]
          /\ UNCHANGED left
      BY <1>12, <2>3 DEF SignalAborts, ChunkFailed
    <3> QED
      BY <2>1, <2>3, <3>1 DEF mainVars, vars, handlerVars, reqVars, AllExited
  <2> QED
    BY <2>2, <2>3
<1>13. ASSUME NEW r \in Requests, ServerStep(r)
      PROVE  PhasesAgree'
  <2>1. ServesClient(r)
    BY <1>13, ServerServes
  <2> QED
    BY <2>1 DEF ServesClient, Moves, mainVars, workerVars, AllExited
<1>14. ASSUME NEW r \in Requests, BodyEnds(r)
      PROVE  PhasesAgree'
  <2>1. /\ UNCHANGED clientVars /\ fetch[r] # "waiting"
        /\ pc' = [pc EXCEPT ![r] = "idle"]
    BY <1>14 DEF BodyEnds, ShortSource, Replies, Ends
  <2> QED
    BY <2>1 DEF clientVars, mainVars, workerVars
<1>15. CASE ServerRestarts
  <2>1. /\ fetch' = [r \in Requests |-> IF fetch[r] = "waiting" THEN "error" ELSE fetch[r]]
        /\ pc' = [r \in Requests |-> "idle"]
        /\ UNCHANGED <<mainVars, workerVars, drops>>
    BY <1>15 DEF ServerRestarts, Restart, HandlersDie
  <2> QED
    BY <2>1 DEF mainVars, workerVars
<1>16. CASE SessionRunsOut
  <2>1. UNCHANGED <<clientVars, pc>>
    BY <1>16 DEF SessionRunsOut, TimePasses, Expire, reqVars
  <2> QED
    BY <2>1 DEF clientVars, mainVars, workerVars
<1>17. CASE UNCHANGED allVars
  <2>1. UNCHANGED <<clientVars, pc>>
    BY <1>17 DEF allVars, vars, handlerVars, reqVars
  <2> QED
    BY <2>1 DEF clientVars, mainVars, workerVars
<1>18. CASE MainLost
  BY <1>18, LosesOne DEF AllExited
<1> HIDE DEF ClientTypeOK, mainVars, workerVars, PhasesAgree, WorkersWait
<1> QED BY <1>1, <1>2, <1>3, <1>4, <1>5, <1>6, <1>7, <1>8, <1>9, <1>10, <1>11,
     <1>12, <1>13, <1>14, <1>15, <1>16, <1>17, <1>18
     DEF ClientNext, MainStep, WorkerStep

(* The shared counter gives each chunk to one worker.                      *)
LEMMA OwnChunksStep ==
  ASSUME TypeOK,
         ClientTypeOK,
         OwnChunks,
         WorkersWait,
         [ClientNext]_allVars
  PROVE  OwnChunks'
<1> USE DEF ClientTypeOK, mainVars, workerVars
<1> USE DEF OwnChunks, Holds, WorkersWait
<1>1. ASSUME NEW r \in Requests, OpenSession(r)
      PROVE  OwnChunks'
  <2>1. /\ phase = "start" /\ phase' = "opening"
        /\ fetch[r] = "none" /\ fetch' = [fetch EXCEPT ![r] = "waiting"]
        /\ main' = r /\ pc[r] = "idle" /\ pc \in [Requests -> Places]
        /\ pc' = [pc EXCEPT ![r] = "init_call"]
        /\ UNCHANGED <<lost, workerVars, drops>>
    BY <1>1 DEF OpenSession, CreateSession, TypeOK, MainSends, Unused, Starts
  <2> QED
    BY <2>1 DEF workerVars
<1>2. ASSUME NEW r \in Requests, Complete(r)
      PROVE  OwnChunks'
  <2>1. /\ phase = "uploading" /\ phase' = "completing"
        /\ fetch[r] = "none" /\ fetch' = [fetch EXCEPT ![r] = "waiting"]
        /\ main' = r /\ pc[r] = "idle" /\ pc \in [Requests -> Places]
        /\ pc' = [pc EXCEPT ![r] = "finalize_call"]
        /\ UNCHANGED <<lost, workerVars, drops>>
        /\ AllExited /\ ~cancelled
    BY <1>2 DEF Complete, CompleteChunkedUpload, TypeOK, MainSends, Unused, Starts
  <2> QED
    BY <2>1 DEF workerVars, AllExited
<1>3. ASSUME NEW r \in Requests, Abort(r)
      PROVE  OwnChunks'
  <2>1. /\ phase = "uploading" /\ phase' = "aborting"
        /\ fetch[r] = "none" /\ fetch' = [fetch EXCEPT ![r] = "waiting"]
        /\ main' = r /\ pc[r] = "idle" /\ pc \in [Requests -> Places]
        /\ pc' = [pc EXCEPT ![r] = "abort_call"]
        /\ UNCHANGED <<lost, workerVars, drops>>
        /\ AllExited
    BY <1>3 DEF Abort, AbortChunkedUpload, TypeOK, MainSends, Unused, Starts
  <2> QED
    BY <2>1 DEF workerVars, AllExited
<1>4. CASE MainRefused
  BY <1>4 DEF MainRefused, vars, handlerVars, reqVars
<1>5. CASE MainAnswered
  BY <1>5 DEF MainAnswered, vars, handlerVars, reqVars, PhaseAfter
<1>6. ASSUME NEW w \in Workers, TakeChunk(w)
      PROVE  OwnChunks'
  <2>1. nextChunk \in Nat /\ nextChunk' \in Nat /\ nextChunk <= nextChunk'
    BY <1>6 DEF TakeChunk
  <2>2. \A v \in Workers \ {w} : place'[v] = place[v] /\ number'[v] = number[v]
    BY <1>6 DEF TakeChunk
  <2>3. place'[w] \in {"sending", "waiting"} =>
          /\ nextChunk \in Chunks /\ number'[w] = nextChunk
          /\ nextChunk' = nextChunk + 1
    BY <1>6 DEF TakeChunk
  <2>4. \A v \in Workers \ {w} :
          place'[v] \in {"sending", "waiting"} =>
            number'[v] \in Chunks /\ number'[v] < nextChunk
    BY <2>2
  <2> HIDE DEF ClientTypeOK, WorkersWait
  <2>5. ASSUME NEW v \in Workers \ {w}, place'[v] \in {"sending", "waiting"}
        PROVE  number'[v] < nextChunk'
    <3>1. number'[v] \in Nat /\ number'[v] < nextChunk
      BY <2>4, <2>5
    <3> QED
      BY <2>1, <3>1
  <2>6. \A u, v \in Workers \ {w} :
          /\ place'[v] \in {"sending", "waiting"}
          /\ place'[u] \in {"sending", "waiting"}
          /\ number'[v] = number'[u]
          => v = u
    BY <2>2
  <2>7. \A v \in Workers \ {w} :
          place'[v] \in {"sending", "waiting"} /\ place'[w] \in {"sending", "waiting"}
            => number'[v] # number'[w]
    <3> SUFFICES ASSUME NEW v \in Workers \ {w}, place'[v] \in {"sending", "waiting"},
                        place'[w] \in {"sending", "waiting"}
                 PROVE  number'[v] # number'[w]
      OBVIOUS
    <3>1. number'[v] \in Nat /\ number'[v] < nextChunk
      BY <2>4
    <3> QED
      BY <2>1, <2>3, <3>1
  <2>8. place'[w] \in {"sending", "waiting"} => number'[w] \in Chunks /\ number'[w] < nextChunk'
    BY <2>1, <2>3
  <2> QED
    BY <2>7, <2>8, <2>4, <2>5, <2>6
<1>7. ASSUME NEW w \in Workers, NEW r \in Requests, SendChunk(w, r)
      PROVE  OwnChunks'
  <2>1. /\ place[w] = "sending" /\ place' = [place EXCEPT ![w] = "waiting"]
        /\ slot' = [slot EXCEPT ![w] = r]
        /\ fetch[r] = "none" /\ fetch' = [fetch EXCEPT ![r] = "waiting"]
        /\ pc \in [Requests -> Places]
        /\ \E there \in {"expiring", "chunk_call"} : pc' = [pc EXCEPT ![r] = there]
        /\ UNCHANGED <<mainVars, nextChunk, cancelled, number, left, drops>>
    BY <1>7 DEF SendChunk, TypeOK, UploadChunk, Unused, Starts
  <2> QED
    BY <2>1 DEF mainVars
<1>8. ASSUME NEW w \in Workers, ChunkStored(w)
      PROVE  OwnChunks'
  BY <1>8 DEF ChunkStored, vars, handlerVars, reqVars
<1>9. ASSUME NEW w \in Workers, ChunkRefused(w)
      PROVE  OwnChunks'
  <2>1. /\ place[w] = "waiting" /\ fetch[slot[w]] = "error"
        /\ fetch' = [fetch EXCEPT ![slot[w]] = "none"] /\ UNCHANGED drops
        /\ slot' = [slot EXCEPT ![w] = None]
        /\ UNCHANGED <<vars, mainVars, nextChunk, number>>
    BY <1>9 DEF ChunkRefused, ChunkFailed
  <2>2. CASE left[w] > 0 /\ ~cancelled
    <3>1. /\ left' = [left EXCEPT ![w] = @ - 1]
          /\ place' = [place EXCEPT ![w] = "sending"]
          /\ UNCHANGED cancelled
      BY <1>9, <2>2 DEF ChunkRefused, ChunkFailed
    <3> QED
      BY <2>1, <2>2, <3>1 DEF mainVars, vars, handlerVars, reqVars
  <2>3. CASE ~(left[w] > 0 /\ ~cancelled)
    <3>1. /\ cancelled' = TRUE
          /\ place' = [place EXCEPT ![w] = "exited"]
          /\ UNCHANGED left
      BY <1>9, <2>3 DEF ChunkRefused, ChunkFailed
    <3> QED
      BY <2>1, <2>3, <3>1 DEF mainVars, vars, handlerVars, reqVars
  <2> QED
    BY <2>2, <2>3
<1>10. ASSUME NEW w \in Workers, ChunkNotFound(w)
      PROVE  OwnChunks'
  <2>1. /\ place[w] = "sending" /\ UNCHANGED <<fetch, drops>>
        /\ slot' = [slot EXCEPT ![w] = None]
        /\ UNCHANGED <<vars, mainVars, nextChunk, number>>
    BY <1>10 DEF ChunkNotFound, ChunkFailed
  <2>2. CASE left[w] > 0 /\ ~cancelled
    <3>1. /\ left' = [left EXCEPT ![w] = @ - 1]
          /\ place' = [place EXCEPT ![w] = "sending"]
          /\ UNCHANGED cancelled
      BY <1>10, <2>2 DEF ChunkNotFound, ChunkFailed
    <3> QED
      BY <2>1, <2>2, <3>1 DEF mainVars, vars, handlerVars, reqVars
  <2>3. CASE ~(left[w] > 0 /\ ~cancelled)
    <3>1. /\ cancelled' = TRUE
          /\ place' = [place EXCEPT ![w] = "exited"]
          /\ UNCHANGED left
      BY <1>10, <2>3 DEF ChunkNotFound, ChunkFailed
    <3> QED
      BY <2>1, <2>3, <3>1 DEF mainVars, vars, handlerVars, reqVars
  <2> QED
    BY <2>2, <2>3
<1>11. ASSUME NEW w \in Workers, ConnectionDrops(w)
      PROVE  OwnChunks'
  <2>1. /\ place[w] \in {"sending", "waiting"} /\ drops < MaxDrops /\ drops' = drops + 1
        /\ fetch' = [r \in Requests |-> IF r = slot[w] THEN "none" ELSE fetch[r]]
        /\ slot' = [slot EXCEPT ![w] = None]
        /\ UNCHANGED <<vars, mainVars, nextChunk, number>>
    BY <1>11 DEF ConnectionDrops, ChunkFailed
  <2>2. CASE left[w] > 0 /\ ~cancelled
    <3>1. /\ left' = [left EXCEPT ![w] = @ - 1]
          /\ place' = [place EXCEPT ![w] = "sending"]
          /\ UNCHANGED cancelled
      BY <1>11, <2>2 DEF ConnectionDrops, ChunkFailed
    <3> QED
      BY <2>1, <2>2, <3>1 DEF mainVars, vars, handlerVars, reqVars
  <2>3. CASE ~(left[w] > 0 /\ ~cancelled)
    <3>1. /\ cancelled' = TRUE
          /\ place' = [place EXCEPT ![w] = "exited"]
          /\ UNCHANGED left
      BY <1>11, <2>3 DEF ConnectionDrops, ChunkFailed
    <3> QED
      BY <2>1, <2>3, <3>1 DEF mainVars, vars, handlerVars, reqVars
  <2> QED
    BY <2>2, <2>3
<1>12. ASSUME NEW w \in Workers, SignalAborts(w)
      PROVE  OwnChunks'
  <2>1. /\ cancelled /\ place[w] \in {"sending", "waiting"} /\ UNCHANGED drops
        /\ fetch' = [r \in Requests |-> IF r = slot[w] THEN "none" ELSE fetch[r]]
        /\ slot' = [slot EXCEPT ![w] = None]
        /\ UNCHANGED <<vars, mainVars, nextChunk, number>>
    BY <1>12 DEF SignalAborts, ChunkFailed
  <2>2. CASE left[w] > 0 /\ ~cancelled
    <3>1. /\ left' = [left EXCEPT ![w] = @ - 1]
          /\ place' = [place EXCEPT ![w] = "sending"]
          /\ UNCHANGED cancelled
      BY <1>12, <2>2 DEF SignalAborts, ChunkFailed
    <3> QED
      BY <2>1, <2>2, <3>1 DEF mainVars, vars, handlerVars, reqVars
  <2>3. CASE ~(left[w] > 0 /\ ~cancelled)
    <3>1. /\ cancelled' = TRUE
          /\ place' = [place EXCEPT ![w] = "exited"]
          /\ UNCHANGED left
      BY <1>12, <2>3 DEF SignalAborts, ChunkFailed
    <3> QED
      BY <2>1, <2>3, <3>1 DEF mainVars, vars, handlerVars, reqVars
  <2> QED
    BY <2>2, <2>3
<1>13. ASSUME NEW r \in Requests, ServerStep(r)
      PROVE  OwnChunks'
  <2>1. ServesClient(r)
    BY <1>13, ServerServes
  <2> QED
    BY <2>1 DEF ServesClient, Moves, mainVars, workerVars
<1>14. ASSUME NEW r \in Requests, BodyEnds(r)
      PROVE  OwnChunks'
  <2>1. /\ UNCHANGED clientVars /\ fetch[r] # "waiting"
        /\ pc' = [pc EXCEPT ![r] = "idle"]
    BY <1>14 DEF BodyEnds, ShortSource, Replies, Ends
  <2> QED
    BY <2>1 DEF clientVars, mainVars, workerVars
<1>15. CASE ServerRestarts
  <2>1. /\ fetch' = [r \in Requests |-> IF fetch[r] = "waiting" THEN "error" ELSE fetch[r]]
        /\ pc' = [r \in Requests |-> "idle"]
        /\ UNCHANGED <<mainVars, workerVars, drops>>
    BY <1>15 DEF ServerRestarts, Restart, HandlersDie
  <2> QED
    BY <2>1 DEF mainVars, workerVars
<1>16. CASE SessionRunsOut
  <2>1. UNCHANGED <<clientVars, pc>>
    BY <1>16 DEF SessionRunsOut, TimePasses, Expire, reqVars
  <2> QED
    BY <2>1 DEF clientVars, mainVars, workerVars
<1>17. CASE UNCHANGED allVars
  <2>1. UNCHANGED <<clientVars, pc>>
    BY <1>17 DEF allVars, vars, handlerVars, reqVars
  <2> QED
    BY <2>1 DEF clientVars, mainVars, workerVars
<1>18. CASE MainLost
  BY <1>18 DEF MainLost, vars, handlerVars, reqVars
<1> HIDE DEF ClientTypeOK, mainVars, workerVars, OwnChunks, Holds, WorkersWait
<1> QED BY <1>1, <1>2, <1>3, <1>4, <1>5, <1>6, <1>7, <1>8, <1>9, <1>10, <1>11,
     <1>12, <1>13, <1>14, <1>15, <1>16, <1>17, <1>18
     DEF ClientNext, MainStep, WorkerStep

(***************************************************************************)
(* A complete is answered 200 from the place where the file is recorded.   *)
(***************************************************************************)
(* No handler takes a file off the list.                                   *)
LEMMA FilesStay ==
  ASSUME TypeOK,
         NEW r \in Requests,
         NEW s \in Sessions,
         InHandler(r) \/ InStorage(r),
         files[s] > 0
  PROVE  files'[s] > 0
<1> USE DEF TypeOK, GoesTo, Ends, Proceeds, Replies, AnswerCreated, tableVars,
           reqVars, storageVars
<1>1. ASSUME ExpireSession(r), UNCHANGED storageVars
      PROVE  files'[s] > 0
  BY <1>1 DEF ExpireSession
<1>2. ASSUME CreateFileRecord(r), UNCHANGED storageVars
      PROVE  files'[s] > 0
  BY <1>2 DEF CreateFileRecord
<1>3. ASSUME FileRecordFails(r), UNCHANGED storageVars
      PROVE  files'[s] > 0
  BY <1>3 DEF FileRecordFails
<1>4. ASSUME MarkCompleted(r), UNCHANGED storageVars
      PROVE  files'[s] > 0
  BY <1>4 DEF MarkCompleted
<1>5. ASSUME MarkCancelled(r), UNCHANGED storageVars
      PROVE  files'[s] > 0
  BY <1>5 DEF MarkCancelled
<1>6. ASSUME CreatePartFile(r)
      PROVE  files'[s] > 0
  BY <1>6 DEF CreatePartFile
<1>7. ASSUME RegisterUpload(r)
      PROVE  files'[s] > 0
  BY <1>7 DEF RegisterUpload
<1>8. ASSUME BeginCopy(r)
      PROVE  files'[s] > 0
  BY <1>8 DEF BeginCopy
<1>9. ASSUME StartWrite(r)
      PROVE  files'[s] > 0
  BY <1>9 DEF StartWrite
<1>10. ASSUME WriteFails(r)
      PROVE  files'[s] > 0
  BY <1>10 DEF WriteFails
<1>11. ASSUME WritePiece(r)
      PROVE  files'[s] > 0
  BY <1>11 DEF WritePiece
<1>12. ASSUME RecordReceived(r)
      PROVE  files'[s] > 0
  BY <1>12 DEF RecordReceived
<1>13. ASSUME LookUpForFinalize(r)
      PROVE  files'[s] > 0
  BY <1>13 DEF LookUpForFinalize
<1>14. ASSUME CountReceived(r)
      PROVE  files'[s] > 0
  BY <1>14 DEF CountReceived
<1>15. ASSUME CloseFile(r)
      PROVE  files'[s] > 0
  BY <1>15 DEF CloseFile
<1>16. ASSUME CloseFails(r)
      PROVE  files'[s] > 0
  BY <1>16 DEF CloseFails
<1>17. ASSUME RenamePart(r)
      PROVE  files'[s] > 0
  BY <1>17 DEF RenamePart
<1>18. ASSUME DropUpload(r)
      PROVE  files'[s] > 0
  BY <1>18 DEF DropUpload
<1>19. ASSUME Deregister(r)
      PROVE  files'[s] > 0
  BY <1>19 DEF Deregister
<1>20. ASSUME ClosePart(r)
      PROVE  files'[s] > 0
  BY <1>20 DEF ClosePart
<1>21. ASSUME RemovePart(r)
      PROVE  files'[s] > 0
  BY <1>21 DEF RemovePart
<1>22. ASSUME StorageRefuses(r)
      PROVE  files'[s] > 0
  BY <1>22 DEF StorageRefuses
<1> HIDE DEF TypeOK, GoesTo, Ends, Proceeds, Replies, AnswerCreated,
           tableVars, reqVars, storageVars
<1> QED BY <1>1, <1>2, <1>3, <1>4, <1>5, <1>6, <1>7, <1>8, <1>9, <1>10, <1>11,
     <1>12, <1>13, <1>14, <1>15, <1>16, <1>17, <1>18, <1>19, <1>20, <1>21,
     <1>22
     DEF InHandler, HandlerStep, InStorage

CompletesOn(r, s) ==
  \/ On(r, s, Completing)'
  \/ pc'[r] = "idle" /\ (pc[r] \in Answering => files'[s] > 0)

(* A complete that is answered 200 has listed the file.                    *)
LEMMA CompleteServed ==
  ASSUME TypeOK,
         OnePublisher,
         NEW r \in Requests,
         NEW s \in Sessions,
         On(r, s, Completing),
         InHandler(r) \/ InStorage(r)
  PROVE  CompletesOn(r, s)
<1> USE DEF TypeOK, GoesTo, Ends, Proceeds, Replies, AnswerCreated, tableVars,
           reqVars, storageVars
<1> USE DEF On, Completing, Answering, OnePublisher, CompletesOn
<1>1. ASSUME ExpireSession(r), UNCHANGED storageVars
      PROVE  CompletesOn(r, s)
  BY <1>1 DEF ExpireSession
<1>2. ASSUME CreateFileRecord(r), UNCHANGED storageVars
      PROVE  CompletesOn(r, s)
  BY <1>2 DEF CreateFileRecord
<1>3. ASSUME FileRecordFails(r), UNCHANGED storageVars
      PROVE  CompletesOn(r, s)
  BY <1>3 DEF FileRecordFails
<1>4. ASSUME MarkCompleted(r), UNCHANGED storageVars
      PROVE  CompletesOn(r, s)
  BY <1>4 DEF MarkCompleted
<1>5. ASSUME MarkCancelled(r), UNCHANGED storageVars
      PROVE  CompletesOn(r, s)
  BY <1>5 DEF MarkCancelled
<1>6. ASSUME CreatePartFile(r)
      PROVE  CompletesOn(r, s)
  BY <1>6 DEF CreatePartFile
<1>7. ASSUME RegisterUpload(r)
      PROVE  CompletesOn(r, s)
  BY <1>7 DEF RegisterUpload
<1>8. ASSUME BeginCopy(r)
      PROVE  CompletesOn(r, s)
  BY <1>8 DEF BeginCopy
<1>9. ASSUME StartWrite(r)
      PROVE  CompletesOn(r, s)
  BY <1>9 DEF StartWrite
<1>10. ASSUME WriteFails(r)
      PROVE  CompletesOn(r, s)
  BY <1>10 DEF WriteFails
<1>11. ASSUME WritePiece(r)
      PROVE  CompletesOn(r, s)
  BY <1>11 DEF WritePiece
<1>12. ASSUME RecordReceived(r)
      PROVE  CompletesOn(r, s)
  BY <1>12 DEF RecordReceived
<1>13. ASSUME LookUpForFinalize(r)
      PROVE  CompletesOn(r, s)
  BY <1>13 DEF LookUpForFinalize
<1>14. ASSUME CountReceived(r)
      PROVE  CompletesOn(r, s)
  BY <1>14 DEF CountReceived
<1>15. ASSUME CloseFile(r)
      PROVE  CompletesOn(r, s)
  BY <1>15 DEF CloseFile
<1>16. ASSUME CloseFails(r)
      PROVE  CompletesOn(r, s)
  BY <1>16 DEF CloseFails
<1>17. ASSUME RenamePart(r)
      PROVE  CompletesOn(r, s)
  BY <1>17 DEF RenamePart
<1>18. ASSUME DropUpload(r)
      PROVE  CompletesOn(r, s)
  BY <1>18 DEF DropUpload
<1>19. ASSUME Deregister(r)
      PROVE  CompletesOn(r, s)
  BY <1>19 DEF Deregister
<1>20. ASSUME ClosePart(r)
      PROVE  CompletesOn(r, s)
  BY <1>20 DEF ClosePart
<1>21. ASSUME RemovePart(r)
      PROVE  CompletesOn(r, s)
  BY <1>21 DEF RemovePart
<1>22. ASSUME StorageRefuses(r)
      PROVE  CompletesOn(r, s)
  BY <1>22 DEF StorageRefuses
<1> HIDE DEF TypeOK, GoesTo, Ends, Proceeds, Replies, AnswerCreated,
           tableVars, reqVars, storageVars, On, Completing, Answering,
           OnePublisher, CompletesOn
<1> QED BY <1>1, <1>2, <1>3, <1>4, <1>5, <1>6, <1>7, <1>8, <1>9, <1>10, <1>11,
     <1>12, <1>13, <1>14, <1>15, <1>16, <1>17, <1>18, <1>19, <1>20, <1>21,
     <1>22
     DEF InHandler, HandlerStep, InStorage

(* A complete that succeeded has listed the file.                          *)
LEMMA CompletesStep ==
  ASSUME IInv,
         ClientTypeOK,
         MainWaits,
         WorkersWait,
         PhasesAgree,
         CompletesHonestly,
         [ClientNext]_allVars
  PROVE  CompletesHonestly'
<1> USE DEF ClientTypeOK, mainVars, workerVars, clientVars
<1> USE DEF CompletesHonestly, MainWaits, WorkersWait, IInv, On, Completing
<1>1. ASSUME NEW r \in Requests, OpenSession(r)
      PROVE  CompletesHonestly'
  <2>1. phase' = "opening" /\ phase = "start"
    BY <1>1 DEF OpenSession, MainSends
  <2> QED
    BY <2>1
<1>2. ASSUME NEW r \in Requests, Complete(r)
      PROVE  CompletesHonestly'
  <2>1. /\ phase = "uploading" /\ phase' = "completing"
        /\ main' = r /\ r \in Requests
        /\ pc' = [pc EXCEPT ![r] = "finalize_call"]
        /\ sess' = [sess EXCEPT ![r] = Session]
        /\ fetch' = [fetch EXCEPT ![r] = "waiting"]
    BY <1>2 DEF Complete, CompleteChunkedUpload, Starts, MainSends
  <2>2. pc'[r] = "finalize_call" /\ sess'[r] = Session /\ fetch'[r] = "waiting"
    BY <2>1 DEF TypeOK
  <2> QED
    BY <2>1, <2>2
<1>3. ASSUME NEW r \in Requests, Abort(r)
      PROVE  CompletesHonestly'
  <2>1. phase' = "aborting" /\ phase = "uploading"
    BY <1>3 DEF Abort, MainSends
  <2> QED
    BY <2>1
<1>4. CASE MainRefused
  <2>1. phase' = "failed"
    BY <1>4 DEF MainRefused
  <2> QED
    BY <2>1
<1>5. CASE MainAnswered
  <2>1. /\ main # None /\ fetch[main] \in {"ok", "error"}
        /\ phase' = PhaseAfter(fetch[main])
        /\ main' = None /\ UNCHANGED <<vars, workerVars, drops>>
    BY <1>5 DEF MainAnswered
  <2>2. phase \in {"opening", "completing", "aborting"}
    BY <2>1 DEF MainWaits
  <2>3. UNCHANGED <<files, pc, sess>>
    BY <2>1 DEF vars, handlerVars, tableVars, reqVars
  <2>4. phase' = "succeeded" => phase = "completing" /\ fetch[main] = "ok"
    BY <2>1, <2>2 DEF PhaseAfter
  <2>5. phase' # "completing"
    BY <2>1, <2>2 DEF PhaseAfter
  <2> QED
    BY <2>3, <2>4, <2>5
<1>6. ASSUME NEW w \in Workers, TakeChunk(w)
      PROVE  CompletesHonestly'
  <2>1. UNCHANGED <<phase, main, files>>
    BY <1>6 DEF TakeChunk, ChunkFailed, vars, handlerVars, tableVars, mainVars
  <2>2. phase = "completing" =>
          main \in Requests /\ fetch'[main] = fetch[main]
            /\ pc'[main] = pc[main] /\ sess'[main] = sess[main]
    BY <1>6 DEF TakeChunk, ChunkFailed, vars, handlerVars, reqVars, mainVars
  <2> QED
    BY <2>1, <2>2
<1>7. ASSUME NEW w \in Workers, NEW r \in Requests, SendChunk(w, r)
      PROVE  CompletesHonestly'
  <2>1. UNCHANGED <<phase, main, files>> /\ fetch[r] = "none"
    BY <1>7 DEF SendChunk, UploadChunk, tableVars, Unused
  <2>2. phase = "completing" => main \in Requests /\ main # r
    BY <2>1
  <2>3. \A q \in Requests \ {r} :
          fetch'[q] = fetch[q] /\ pc'[q] = pc[q] /\ sess'[q] = sess[q]
    BY <1>7 DEF SendChunk, UploadChunk, Starts, TypeOK
  <2> QED
    BY <2>1, <2>2, <2>3
<1>8. ASSUME NEW w \in Workers, ChunkStored(w)
      PROVE  CompletesHonestly'
  <2>1. UNCHANGED <<phase, main, files>>
    BY <1>8 DEF ChunkStored, ChunkFailed, vars, handlerVars, tableVars, mainVars
  <2>2. phase = "completing" =>
          main \in Requests /\ fetch'[main] = fetch[main]
            /\ pc'[main] = pc[main] /\ sess'[main] = sess[main]
    BY <1>8 DEF ChunkStored, ChunkFailed, vars, handlerVars, reqVars, mainVars
  <2> QED
    BY <2>1, <2>2
<1>9. ASSUME NEW w \in Workers, ChunkRefused(w)
      PROVE  CompletesHonestly'
  <2>1. UNCHANGED <<phase, main, files>>
    BY <1>9 DEF ChunkRefused, ChunkFailed, vars, handlerVars, tableVars, mainVars
  <2>2. phase = "completing" =>
          main \in Requests /\ fetch'[main] = fetch[main]
            /\ pc'[main] = pc[main] /\ sess'[main] = sess[main]
    BY <1>9 DEF ChunkRefused, ChunkFailed, vars, handlerVars, reqVars, mainVars
  <2> QED
    BY <2>1, <2>2
<1>10. ASSUME NEW w \in Workers, ChunkNotFound(w)
      PROVE  CompletesHonestly'
  <2>1. UNCHANGED <<phase, main, files>>
    BY <1>10 DEF ChunkNotFound, ChunkFailed, vars, handlerVars, tableVars, mainVars
  <2>2. phase = "completing" =>
          main \in Requests /\ fetch'[main] = fetch[main]
            /\ pc'[main] = pc[main] /\ sess'[main] = sess[main]
    BY <1>10 DEF ChunkNotFound, ChunkFailed, vars, handlerVars, reqVars, mainVars
  <2> QED
    BY <2>1, <2>2
<1>11. ASSUME NEW w \in Workers, ConnectionDrops(w)
      PROVE  CompletesHonestly'
  <2>1. UNCHANGED <<phase, main, files>>
    BY <1>11 DEF ConnectionDrops, ChunkFailed, vars, handlerVars, tableVars, mainVars
  <2>2. phase = "completing" =>
          main \in Requests /\ fetch'[main] = fetch[main]
            /\ pc'[main] = pc[main] /\ sess'[main] = sess[main]
    BY <1>11 DEF ConnectionDrops, ChunkFailed, vars, handlerVars, reqVars, mainVars
  <2> QED
    BY <2>1, <2>2
<1>12. ASSUME NEW w \in Workers, SignalAborts(w)
      PROVE  CompletesHonestly'
  <2>1. UNCHANGED <<phase, main, files>>
    BY <1>12 DEF SignalAborts, ChunkFailed, vars, handlerVars, tableVars, mainVars
  <2>2. phase = "completing" =>
          main \in Requests /\ fetch'[main] = fetch[main]
            /\ pc'[main] = pc[main] /\ sess'[main] = sess[main]
    BY <1>12 DEF SignalAborts, ChunkFailed, vars, handlerVars, reqVars, mainVars
  <2> QED
    BY <2>1, <2>2
<1>13. ASSUME NEW r \in Requests, ServerStep(r)
      PROVE  CompletesHonestly'
  <2>1. ServesClient(r) /\ (InHandler(r) \/ InStorage(r))
    BY <1>13, ServerServes DEF ServerStep
  <2>2. UNCHANGED <<phase, main>>
    BY <2>1 DEF ServesClient
  <2>3. files[Session] > 0 => files'[Session] > 0
    BY <2>1, FilesStay
  <2>4. CASE main # r \/ phase # "completing"
    <3>1. phase = "completing" => main \in Requests \ {r}
      BY <2>4 DEF MainWaits
    <3>2. phase = "completing" => /\ fetch'[main] = fetch[main]
                                 /\ pc'[main] = pc[main] /\ sess'[main] = sess[main]
      BY <2>1, <3>1 DEF ServesClient, Moves
    <3> QED
      BY <2>2, <2>3, <3>2
  <2>5. CASE main = r /\ phase = "completing"
    <3>1. CASE fetch[r] = "waiting"
      <4>1. On(r, Session, Completing)
        BY <2>5, <3>1
      <4>2. CompletesOn(r, Session)
        BY <2>1, <4>1, CompleteServed
      <4>3. /\ pc'[r] # "idle" => fetch'[r] = "waiting"
            /\ pc'[r] = "idle" => fetch'[r] = IF pc[r] \in Answering THEN "ok" ELSE "error"
        BY <2>1, <3>1 DEF ServesClient
      <4>4. On(r, Session, Completing)' => pc'[r] # "idle"
        BY DEF On, Completing
      <4> QED
        BY <2>2, <2>5, <4>2, <4>3, <4>4 DEF On, CompletesOn
    <3>2. CASE fetch[r] # "waiting"
      <4>1. fetch'[r] = fetch[r]
        BY <2>1, <3>2 DEF ServesClient
      <4> QED
        BY <2>2, <2>3, <2>5, <3>2, <4>1
    <3> QED
      BY <3>1, <3>2
  <2> QED
    BY <2>4, <2>5
<1>14. ASSUME NEW r \in Requests, BodyEnds(r)
      PROVE  CompletesHonestly'
  <2>1. /\ fetch[r] # "waiting"
        /\ UNCHANGED <<phase, main, files, fetch>>
        /\ pc' = [pc EXCEPT ![r] = "idle"] /\ sess' = [sess EXCEPT ![r] = None]
    BY <1>14 DEF BodyEnds, ShortSource, Replies, Ends, tableVars
  <2>2. phase = "completing" => main \in Requests
    BY DEF MainWaits
  <2> QED
    BY <2>1, <2>2
<1>15. CASE ServerRestarts
  <2>1. /\ UNCHANGED <<phase, main, files>>
        /\ fetch' = [r \in Requests |-> IF fetch[r] = "waiting" THEN "error" ELSE fetch[r]]
    BY <1>15 DEF ServerRestarts, Restart, HandlersDie, tableVars
  <2>2. phase = "completing" => main \in Requests
    BY DEF MainWaits
  <2> QED
    BY <2>1, <2>2
<1>16. CASE SessionRunsOut
  <2>1. UNCHANGED <<clientVars, files, pc, sess>>
    BY <1>16 DEF SessionRunsOut, TimePasses, Expire, reqVars
  <2> QED
    BY <2>1
<1>17. CASE UNCHANGED allVars
  <2>1. UNCHANGED <<clientVars, files, pc, sess>>
    BY <1>17 DEF allVars, vars, handlerVars, tableVars, reqVars
  <2> QED
    BY <2>1
<1>18. CASE MainLost
  <2>1. phase' = "failed"
    BY <1>18 DEF MainLost
  <2> QED
    BY <2>1
<1> HIDE DEF ClientTypeOK, mainVars, workerVars, clientVars,
           CompletesHonestly, MainWaits, WorkersWait, IInv, On, Completing
<1> QED BY <1>1, <1>2, <1>3, <1>4, <1>5, <1>6, <1>7, <1>8, <1>9, <1>10, <1>11,
     <1>12, <1>13, <1>14, <1>15, <1>16, <1>17, <1>18
     DEF ClientNext, MainStep, WorkerStep

(***************************************************************************)
(* The client sends what clients may send: it is one of those Next allows. *)
(***************************************************************************)
LEMMA ClientStepIsStep ==
  ASSUME TypeOK, ClientTypeOK, OwnChunks, [ClientNext]_allVars
  PROVE  [Next]_vars
<1> USE Constants DEF Next, Arrives
<1>1. Session \in Sessions
  OBVIOUS
<1>2. ASSUME NEW r \in Requests, OpenSession(r)
      PROVE  [Next]_vars
  BY <1>1, <1>2 DEF OpenSession, MainSends
<1>3. ASSUME NEW r \in Requests, Complete(r)
      PROVE  [Next]_vars
  BY <1>1, <1>3 DEF Complete, MainSends
<1>4. ASSUME NEW r \in Requests, Abort(r)
      PROVE  [Next]_vars
  BY <1>1, <1>4 DEF Abort, MainSends
<1>5. ASSUME NEW w \in Workers, NEW r \in Requests, SendChunk(w, r)
      PROVE  [Next]_vars
  <2>1. number[w] \in Chunks
    BY <1>5 DEF SendChunk, OwnChunks, Holds
  <2>2. UploadChunk(r, Session, number[w]) /\ UNCHANGED storageVars
    BY <1>5 DEF SendChunk
  <2> QED
    BY <1>1, <2>1, <2>2
<1>6. ASSUME NEW r \in Requests, ServerStep(r)
      PROVE  [Next]_vars
  BY <1>6 DEF ServerStep
<1>7. ASSUME NEW r \in Requests, BodyEnds(r)
      PROVE  [Next]_vars
  BY <1>7 DEF BodyEnds
<1>8. CASE ServerRestarts
  BY <1>8 DEF ServerRestarts
<1>9. CASE SessionRunsOut
  BY <1>9 DEF SessionRunsOut
<1>10. CASE MainRefused \/ MainAnswered \/ MainLost
  BY <1>10 DEF MainRefused, MainAnswered, MainLost
<1>11. ASSUME NEW w \in Workers,
              \/ TakeChunk(w) \/ ChunkStored(w) \/ ChunkRefused(w) \/ ChunkNotFound(w)
              \/ ConnectionDrops(w) \/ SignalAborts(w)
       PROVE  UNCHANGED vars
  BY <1>11 DEF TakeChunk, ChunkStored, ChunkRefused, ChunkNotFound, ConnectionDrops,
               SignalAborts, ChunkFailed
<1>12. CASE UNCHANGED allVars
  BY <1>12 DEF allVars
<1> QED
  BY <1>2, <1>3, <1>4, <1>5, <1>6, <1>7, <1>8, <1>9, <1>10, <1>11, <1>12
  DEF ClientNext, MainStep, WorkerStep

(* Every step of the client or its backend keeps the first invariant.      *)
LEMMA ClientStep == IInv /\ ClientIInv /\ [ClientNext]_allVars => IInv' /\ ClientIInv'
<1> SUFFICES ASSUME IInv, ClientIInv, [ClientNext]_allVars PROVE IInv' /\ ClientIInv'
  OBVIOUS
<1> USE DEF ClientIInv
<1>1. TypeOK
  BY DEF IInv
<1>2. IInv'
  BY <1>1, ClientStepIsStep, TypeStep, CreatedAloneStep, HandleStep, ReceivedStep,
     PublisherStep, PropertiesStep DEF IInv
<1>3. ClientTypeOK' /\ MainWaits' /\ WorkersWait' /\ FetchesOwned'
  BY <1>1, ClientTypeStep, MainWaitsStep, WorkersWaitStep, FetchesOwnedStep
<1>4. FetchesServed' /\ PhasesAgree' /\ OwnChunks'
  BY <1>1, FetchesServedStep, PhasesAgreeStep, OwnChunksStep
<1>5. CompletesHonestly'
  BY CompletesStep
<1> QED
  BY <1>2, <1>3, <1>4, <1>5

(* Whatever fails, is lost or comes late, client and backend stay in the   *)
(* states their two invariants allow.                                      *)
THEOREM ClientInvariance == ClientSpec => [](IInv /\ ClientIInv)
<1>1. ClientInit => IInv /\ ClientIInv
  BY InitIInv, InitClient DEF ClientInit
<1> QED
  BY <1>1, ClientStep, PTL DEF ClientSpec

(* The variables keep their types: the counter stays a number, the retries *)
(* left never go below zero.                                               *)
THEOREM ClientTypeCorrect == ClientSpec => []ClientTypeOK
<1>1. ClientIInv => ClientTypeOK
  BY DEF ClientIInv
<1> QED
  BY <1>1, ClientInvariance, PTL

(* The upload client implements the specification of the backend with its  *)
(* arbitrary clients: what is proved of any client holds for this one.     *)
THEOREM ClientImplements == ClientSpec => Spec
<1>1. ClientInit => Init
  BY DEF ClientInit
<1>2. IInv /\ ClientIInv /\ [ClientNext]_allVars => [Next]_vars
  BY ClientStepIsStep DEF IInv, ClientIInv
<1> QED
  BY <1>1, <1>2, ClientInvariance, PTL DEF ClientSpec, Spec

(* An upload reported as successful is listed once, and its object is      *)
(* published with every piece of every chunk, though calls fail, answers   *)
(* are lost, handlers linger and the server restarts.                      *)
THEOREM SucceededListed == ClientSpec => []SucceededIsListed
<1>1. IInv /\ ClientIInv => SucceededIsListed
  <2> SUFFICES ASSUME IInv, ClientIInv, phase = "succeeded"
               PROVE  /\ files[Session] = 1
                      /\ disk[Session] = "final"
                      /\ \A i \in Chunks : Written(Session, i)
    BY DEF SucceededIsListed
  <2>1. files[Session] > 0
    BY DEF ClientIInv, CompletesHonestly
  <2>2. files[Session] \in Nat /\ files[Session] <= 1
    BY DEF IInv, TypeOK, OneRowPerSession
  <2>3. disk[Session] = "final"
    BY <2>1 DEF IInv, RowHasObject
  <2>4. \A i \in Chunks : Written(Session, i)
    BY <2>3 DEF IInv, PublishedIsComplete
  <2> QED
    BY <2>1, <2>2, <2>3, <2>4
<1> QED
  BY <1>1, ClientInvariance, PTL

(***************************************************************************)
(* An upload that only connections trouble: what the server's steps do.    *)
(***************************************************************************)
UploadsOn(r) ==
  /\ pc'[r] \in Uploading \union {"idle"}
  /\ pc'[r] = "idle" /\ pc[r] # "landing" => ~Usable(Session)
  /\ pc[r] = "landing" => chunk[r] \in received'[Session]
  /\ UNCHANGED <<row, files, answered, registered, open, disk>>

OpensOn(r) ==
  \/ /\ On(r, Session, Creating)'
     /\ UNCHANGED <<row, files>>
  \/ /\ pc[r] = "registering" /\ pc'[r] = "idle"
     /\ "created" \in answered'[Session]
     /\ Usable(Session)'
     /\ received'[Session] = {}
     /\ UNCHANGED <<row, files>>

FinalizesOn ==
  \/ /\ On(main, Session, Completing)'
     /\ FinalPlaces'
     /\ row' = row
  \/ /\ pc[main] = "settling" /\ pc'[main] = "idle"
     /\ row'[Session] = "completed"
     /\ ~registered'[Session] /\ ~open'[Session]

DiscardsOn ==
  \/ /\ On(main, Session, Aborting)'
     /\ DiscardPlaces'
     /\ UNCHANGED <<row, files>>
  \/ /\ pc[main] = "cancelling" /\ pc'[main] = "idle"
     /\ row'[Session] = "cancelled" /\ disk'[Session] = "removed"
     /\ UNCHANGED <<files, registered, open>>

(* A request does not move the clock.                                      *)
LEMMA OverdueStays ==
  ASSUME TypeOK,
         NEW r \in Requests,
         InHandler(r) \/ InStorage(r)
  PROVE  UNCHANGED overdue
<1> USE DEF TypeOK, GoesTo, Ends, Proceeds, Replies, AnswerCreated,
           SaveStatus, tableVars, reqVars, storageVars, EndsCopy, copyVars
<1>1. ASSUME ExpireSession(r), UNCHANGED storageVars
      PROVE  UNCHANGED overdue
  BY <1>1 DEF ExpireSession
<1>2. ASSUME CreateFileRecord(r), UNCHANGED storageVars
      PROVE  UNCHANGED overdue
  BY <1>2 DEF CreateFileRecord
<1>3. ASSUME FileRecordFails(r), UNCHANGED storageVars
      PROVE  UNCHANGED overdue
  BY <1>3 DEF FileRecordFails
<1>4. ASSUME MarkCompleted(r), UNCHANGED storageVars
      PROVE  UNCHANGED overdue
  BY <1>4 DEF MarkCompleted
<1>5. ASSUME MarkCancelled(r), UNCHANGED storageVars
      PROVE  UNCHANGED overdue
  BY <1>5 DEF MarkCancelled
<1>6. ASSUME CreatePartFile(r)
      PROVE  UNCHANGED overdue
  BY <1>6 DEF CreatePartFile
<1>7. ASSUME RegisterUpload(r)
      PROVE  UNCHANGED overdue
  BY <1>7 DEF RegisterUpload
<1>8. ASSUME BeginCopy(r)
      PROVE  UNCHANGED overdue
  BY <1>8 DEF BeginCopy
<1>9. ASSUME StartWrite(r)
      PROVE  UNCHANGED overdue
  BY <1>9 DEF StartWrite
<1>10. ASSUME WriteFails(r)
      PROVE  UNCHANGED overdue
  BY <1>10 DEF WriteFails
<1>11. ASSUME WritePiece(r)
      PROVE  UNCHANGED overdue
  BY <1>11 DEF WritePiece
<1>12. ASSUME RecordReceived(r)
      PROVE  UNCHANGED overdue
  BY <1>12 DEF RecordReceived
<1>13. ASSUME LookUpForFinalize(r)
      PROVE  UNCHANGED overdue
  BY <1>13 DEF LookUpForFinalize
<1>14. ASSUME CountReceived(r)
      PROVE  UNCHANGED overdue
  BY <1>14 DEF CountReceived
<1>15. ASSUME CloseFile(r)
      PROVE  UNCHANGED overdue
  BY <1>15 DEF CloseFile
<1>16. ASSUME CloseFails(r)
      PROVE  UNCHANGED overdue
  BY <1>16 DEF CloseFails
<1>17. ASSUME RenamePart(r)
      PROVE  UNCHANGED overdue
  BY <1>17 DEF RenamePart
<1>18. ASSUME DropUpload(r)
      PROVE  UNCHANGED overdue
  BY <1>18 DEF DropUpload
<1>19. ASSUME Deregister(r)
      PROVE  UNCHANGED overdue
  BY <1>19 DEF Deregister
<1>20. ASSUME ClosePart(r)
      PROVE  UNCHANGED overdue
  BY <1>20 DEF ClosePart
<1>21. ASSUME RemovePart(r)
      PROVE  UNCHANGED overdue
  BY <1>21 DEF RemovePart
<1>22. ASSUME StorageRefuses(r)
      PROVE  UNCHANGED overdue
  BY <1>22 DEF StorageRefuses
<1> HIDE DEF TypeOK, GoesTo, Ends, Proceeds, Replies, AnswerCreated,
           SaveStatus, tableVars, reqVars, storageVars, EndsCopy, copyVars
<1> QED BY <1>1, <1>2, <1>3, <1>4, <1>5, <1>6, <1>7, <1>8, <1>9, <1>10, <1>11,
     <1>12, <1>13, <1>14, <1>15, <1>16, <1>17, <1>18, <1>19, <1>20, <1>21,
     <1>22
     DEF InHandler, HandlerStep, InStorage

(* A chunk's request goes on to its end, and gets there while the session  *)
(* takes chunks.                                                           *)
LEMMA UploadServed ==
  ASSUME Smooth,
         TypeOK,
         SlotsAgree,
         NEW r \in Requests,
         sess[r] = Session,
         pc[r] \in Uploading,
         InHandler(r) \/ InStorage(r)
  PROVE  UploadsOn(r)
<1> USE DEF TypeOK, GoesTo, Ends, Proceeds, Replies, AnswerCreated,
           SaveStatus, tableVars, reqVars, storageVars, EndsCopy, copyVars
<1> USE DEF Smooth, SlotsAgree, Copying, Uploading, UploadsOn, Usable
<1>1. ASSUME ExpireSession(r), UNCHANGED storageVars
      PROVE  UploadsOn(r)
  BY <1>1 DEF ExpireSession
<1>2. ASSUME CreateFileRecord(r), UNCHANGED storageVars
      PROVE  UploadsOn(r)
  BY <1>2 DEF CreateFileRecord
<1>3. ASSUME FileRecordFails(r), UNCHANGED storageVars
      PROVE  UploadsOn(r)
  BY <1>3 DEF FileRecordFails
<1>4. ASSUME MarkCompleted(r), UNCHANGED storageVars
      PROVE  UploadsOn(r)
  BY <1>4 DEF MarkCompleted
<1>5. ASSUME MarkCancelled(r), UNCHANGED storageVars
      PROVE  UploadsOn(r)
  BY <1>5 DEF MarkCancelled
<1>6. ASSUME CreatePartFile(r)
      PROVE  UploadsOn(r)
  BY <1>6 DEF CreatePartFile
<1>7. ASSUME RegisterUpload(r)
      PROVE  UploadsOn(r)
  BY <1>7 DEF RegisterUpload
<1>8. ASSUME BeginCopy(r)
      PROVE  UploadsOn(r)
  BY <1>8 DEF BeginCopy
<1>9. ASSUME StartWrite(r)
      PROVE  UploadsOn(r)
  BY <1>9 DEF StartWrite
<1>10. ASSUME WriteFails(r)
      PROVE  UploadsOn(r)
  BY <1>10 DEF WriteFails
<1>11. ASSUME WritePiece(r)
      PROVE  UploadsOn(r)
  BY <1>11 DEF WritePiece
<1>12. ASSUME RecordReceived(r)
      PROVE  UploadsOn(r)
  BY <1>12 DEF RecordReceived
<1>13. ASSUME LookUpForFinalize(r)
      PROVE  UploadsOn(r)
  BY <1>13 DEF LookUpForFinalize
<1>14. ASSUME CountReceived(r)
      PROVE  UploadsOn(r)
  BY <1>14 DEF CountReceived
<1>15. ASSUME CloseFile(r)
      PROVE  UploadsOn(r)
  BY <1>15 DEF CloseFile
<1>16. ASSUME CloseFails(r)
      PROVE  UploadsOn(r)
  BY <1>16 DEF CloseFails
<1>17. ASSUME RenamePart(r)
      PROVE  UploadsOn(r)
  BY <1>17 DEF RenamePart
<1>18. ASSUME DropUpload(r)
      PROVE  UploadsOn(r)
  BY <1>18 DEF DropUpload
<1>19. ASSUME Deregister(r)
      PROVE  UploadsOn(r)
  BY <1>19 DEF Deregister
<1>20. ASSUME ClosePart(r)
      PROVE  UploadsOn(r)
  BY <1>20 DEF ClosePart
<1>21. ASSUME RemovePart(r)
      PROVE  UploadsOn(r)
  BY <1>21 DEF RemovePart
<1>22. ASSUME StorageRefuses(r)
      PROVE  UploadsOn(r)
  BY <1>22 DEF StorageRefuses
<1> HIDE DEF TypeOK, GoesTo, Ends, Proceeds, Replies, AnswerCreated,
           SaveStatus, tableVars, reqVars, storageVars, EndsCopy, copyVars,
           Smooth, SlotsAgree, Copying, Uploading, UploadsOn, Usable
<1> QED BY <1>1, <1>2, <1>3, <1>4, <1>5, <1>6, <1>7, <1>8, <1>9, <1>10, <1>11,
     <1>12, <1>13, <1>14, <1>15, <1>16, <1>17, <1>18, <1>19, <1>20, <1>21,
     <1>22
     DEF InHandler, HandlerStep, InStorage

(* The init request opens the session.                                     *)
LEMMA InitServed ==
  ASSUME Smooth,
         TypeOK,
         CreatedAlone,
         RegistersOpen(Session),
         NEW r \in Requests,
         On(r, Session, Creating),
         InHandler(r) \/ InStorage(r)
  PROVE  OpensOn(r)
<1> USE DEF TypeOK, GoesTo, Ends, Proceeds, Replies, AnswerCreated,
           SaveStatus, tableVars, reqVars, storageVars, EndsCopy, copyVars
<1> USE DEF Smooth, CreatedAlone, RegistersOpen, On, Creating, OpensOn, Usable
<1>1. ASSUME ExpireSession(r), UNCHANGED storageVars
      PROVE  OpensOn(r)
  BY <1>1 DEF ExpireSession
<1>2. ASSUME CreateFileRecord(r), UNCHANGED storageVars
      PROVE  OpensOn(r)
  BY <1>2 DEF CreateFileRecord
<1>3. ASSUME FileRecordFails(r), UNCHANGED storageVars
      PROVE  OpensOn(r)
  BY <1>3 DEF FileRecordFails
<1>4. ASSUME MarkCompleted(r), UNCHANGED storageVars
      PROVE  OpensOn(r)
  BY <1>4 DEF MarkCompleted
<1>5. ASSUME MarkCancelled(r), UNCHANGED storageVars
      PROVE  OpensOn(r)
  BY <1>5 DEF MarkCancelled
<1>6. ASSUME CreatePartFile(r)
      PROVE  OpensOn(r)
  BY <1>6 DEF CreatePartFile
<1>7. ASSUME RegisterUpload(r)
      PROVE  OpensOn(r)
  BY <1>7 DEF RegisterUpload
<1>8. ASSUME BeginCopy(r)
      PROVE  OpensOn(r)
  BY <1>8 DEF BeginCopy
<1>9. ASSUME StartWrite(r)
      PROVE  OpensOn(r)
  BY <1>9 DEF StartWrite
<1>10. ASSUME WriteFails(r)
      PROVE  OpensOn(r)
  BY <1>10 DEF WriteFails
<1>11. ASSUME WritePiece(r)
      PROVE  OpensOn(r)
  BY <1>11 DEF WritePiece
<1>12. ASSUME RecordReceived(r)
      PROVE  OpensOn(r)
  BY <1>12 DEF RecordReceived
<1>13. ASSUME LookUpForFinalize(r)
      PROVE  OpensOn(r)
  BY <1>13 DEF LookUpForFinalize
<1>14. ASSUME CountReceived(r)
      PROVE  OpensOn(r)
  BY <1>14 DEF CountReceived
<1>15. ASSUME CloseFile(r)
      PROVE  OpensOn(r)
  BY <1>15 DEF CloseFile
<1>16. ASSUME CloseFails(r)
      PROVE  OpensOn(r)
  BY <1>16 DEF CloseFails
<1>17. ASSUME RenamePart(r)
      PROVE  OpensOn(r)
  BY <1>17 DEF RenamePart
<1>18. ASSUME DropUpload(r)
      PROVE  OpensOn(r)
  BY <1>18 DEF DropUpload
<1>19. ASSUME Deregister(r)
      PROVE  OpensOn(r)
  BY <1>19 DEF Deregister
<1>20. ASSUME ClosePart(r)
      PROVE  OpensOn(r)
  BY <1>20 DEF ClosePart
<1>21. ASSUME RemovePart(r)
      PROVE  OpensOn(r)
  BY <1>21 DEF RemovePart
<1>22. ASSUME StorageRefuses(r)
      PROVE  OpensOn(r)
  BY <1>22 DEF StorageRefuses
<1> HIDE DEF TypeOK, GoesTo, Ends, Proceeds, Replies, AnswerCreated,
           SaveStatus, tableVars, reqVars, storageVars, EndsCopy, copyVars,
           Smooth, CreatedAlone, RegistersOpen, On, Creating, OpensOn, Usable
<1> QED BY <1>1, <1>2, <1>3, <1>4, <1>5, <1>6, <1>7, <1>8, <1>9, <1>10, <1>11,
     <1>12, <1>13, <1>14, <1>15, <1>16, <1>17, <1>18, <1>19, <1>20, <1>21,
     <1>22
     DEF InHandler, HandlerStep, InStorage

(* A complete that has the session to itself goes through.                 *)
LEMMA FinalizeServed ==
  ASSUME Smooth,
         TypeOK,
         OnePublisher,
         NEW r \in Requests,
         main = r,
         UNCHANGED main,
         On(main, Session, Completing),
         FinalPlaces,
         AllReceived(Session),
         InHandler(r) \/ InStorage(r)
  PROVE  FinalizesOn
<1> USE DEF TypeOK, GoesTo, Ends, Proceeds, Replies, AnswerCreated,
           SaveStatus, tableVars, reqVars, storageVars, EndsCopy, copyVars
<1> USE DEF Smooth, OnePublisher, Publishing, On, Completing, FinalizesOn,
           FinalPlaces, Usable
<1>1. ASSUME ExpireSession(r), UNCHANGED storageVars
      PROVE  FinalizesOn
  BY <1>1 DEF ExpireSession
<1>2. ASSUME CreateFileRecord(r), UNCHANGED storageVars
      PROVE  FinalizesOn
  BY <1>2 DEF CreateFileRecord
<1>3. ASSUME FileRecordFails(r), UNCHANGED storageVars
      PROVE  FinalizesOn
  BY <1>3 DEF FileRecordFails
<1>4. ASSUME MarkCompleted(r), UNCHANGED storageVars
      PROVE  FinalizesOn
  BY <1>4 DEF MarkCompleted
<1>5. ASSUME MarkCancelled(r), UNCHANGED storageVars
      PROVE  FinalizesOn
  BY <1>5 DEF MarkCancelled
<1>6. ASSUME CreatePartFile(r)
      PROVE  FinalizesOn
  BY <1>6 DEF CreatePartFile
<1>7. ASSUME RegisterUpload(r)
      PROVE  FinalizesOn
  BY <1>7 DEF RegisterUpload
<1>8. ASSUME BeginCopy(r)
      PROVE  FinalizesOn
  BY <1>8 DEF BeginCopy
<1>9. ASSUME StartWrite(r)
      PROVE  FinalizesOn
  BY <1>9 DEF StartWrite
<1>10. ASSUME WriteFails(r)
      PROVE  FinalizesOn
  BY <1>10 DEF WriteFails
<1>11. ASSUME WritePiece(r)
      PROVE  FinalizesOn
  BY <1>11 DEF WritePiece
<1>12. ASSUME RecordReceived(r)
      PROVE  FinalizesOn
  BY <1>12 DEF RecordReceived
<1>13. ASSUME LookUpForFinalize(r)
      PROVE  FinalizesOn
  BY <1>13 DEF LookUpForFinalize
<1>14. ASSUME CountReceived(r)
      PROVE  FinalizesOn
  BY <1>14 DEF CountReceived
<1>15. ASSUME CloseFile(r)
      PROVE  FinalizesOn
  BY <1>15 DEF CloseFile
<1>16. ASSUME CloseFails(r)
      PROVE  FinalizesOn
  BY <1>16 DEF CloseFails
<1>17. ASSUME RenamePart(r)
      PROVE  FinalizesOn
  BY <1>17 DEF RenamePart
<1>18. ASSUME DropUpload(r)
      PROVE  FinalizesOn
  BY <1>18 DEF DropUpload
<1>19. ASSUME Deregister(r)
      PROVE  FinalizesOn
  BY <1>19 DEF Deregister
<1>20. ASSUME ClosePart(r)
      PROVE  FinalizesOn
  BY <1>20 DEF ClosePart
<1>21. ASSUME RemovePart(r)
      PROVE  FinalizesOn
  BY <1>21 DEF RemovePart
<1>22. ASSUME StorageRefuses(r)
      PROVE  FinalizesOn
  BY <1>22 DEF StorageRefuses
<1> HIDE DEF TypeOK, GoesTo, Ends, Proceeds, Replies, AnswerCreated,
           SaveStatus, tableVars, reqVars, storageVars, EndsCopy, copyVars,
           Smooth, OnePublisher, Publishing, On, Completing, FinalizesOn,
           FinalPlaces, Usable
<1> QED BY <1>1, <1>2, <1>3, <1>4, <1>5, <1>6, <1>7, <1>8, <1>9, <1>10, <1>11,
     <1>12, <1>13, <1>14, <1>15, <1>16, <1>17, <1>18, <1>19, <1>20, <1>21,
     <1>22
     DEF InHandler, HandlerStep, InStorage

(* An abort goes through.                                                  *)
LEMMA AbortServed ==
  ASSUME Smooth,
         TypeOK,
         NEW r \in Requests,
         main = r,
         UNCHANGED main,
         On(main, Session, Aborting),
         DiscardPlaces,
         InHandler(r) \/ InStorage(r)
  PROVE  DiscardsOn
<1> USE DEF TypeOK, GoesTo, Ends, Proceeds, Replies, AnswerCreated,
           SaveStatus, tableVars, reqVars, storageVars, EndsCopy, copyVars
<1> USE DEF Smooth, On, Aborting, DiscardsOn, DiscardPlaces, Usable
<1>1. ASSUME ExpireSession(r), UNCHANGED storageVars
      PROVE  DiscardsOn
  BY <1>1 DEF ExpireSession
<1>2. ASSUME CreateFileRecord(r), UNCHANGED storageVars
      PROVE  DiscardsOn
  BY <1>2 DEF CreateFileRecord
<1>3. ASSUME FileRecordFails(r), UNCHANGED storageVars
      PROVE  DiscardsOn
  BY <1>3 DEF FileRecordFails
<1>4. ASSUME MarkCompleted(r), UNCHANGED storageVars
      PROVE  DiscardsOn
  BY <1>4 DEF MarkCompleted
<1>5. ASSUME MarkCancelled(r), UNCHANGED storageVars
      PROVE  DiscardsOn
  BY <1>5 DEF MarkCancelled
<1>6. ASSUME CreatePartFile(r)
      PROVE  DiscardsOn
  BY <1>6 DEF CreatePartFile
<1>7. ASSUME RegisterUpload(r)
      PROVE  DiscardsOn
  BY <1>7 DEF RegisterUpload
<1>8. ASSUME BeginCopy(r)
      PROVE  DiscardsOn
  BY <1>8 DEF BeginCopy
<1>9. ASSUME StartWrite(r)
      PROVE  DiscardsOn
  BY <1>9 DEF StartWrite
<1>10. ASSUME WriteFails(r)
      PROVE  DiscardsOn
  BY <1>10 DEF WriteFails
<1>11. ASSUME WritePiece(r)
      PROVE  DiscardsOn
  BY <1>11 DEF WritePiece
<1>12. ASSUME RecordReceived(r)
      PROVE  DiscardsOn
  BY <1>12 DEF RecordReceived
<1>13. ASSUME LookUpForFinalize(r)
      PROVE  DiscardsOn
  BY <1>13 DEF LookUpForFinalize
<1>14. ASSUME CountReceived(r)
      PROVE  DiscardsOn
  BY <1>14 DEF CountReceived
<1>15. ASSUME CloseFile(r)
      PROVE  DiscardsOn
  BY <1>15 DEF CloseFile
<1>16. ASSUME CloseFails(r)
      PROVE  DiscardsOn
  BY <1>16 DEF CloseFails
<1>17. ASSUME RenamePart(r)
      PROVE  DiscardsOn
  BY <1>17 DEF RenamePart
<1>18. ASSUME DropUpload(r)
      PROVE  DiscardsOn
  BY <1>18 DEF DropUpload
<1>19. ASSUME Deregister(r)
      PROVE  DiscardsOn
  BY <1>19 DEF Deregister
<1>20. ASSUME ClosePart(r)
      PROVE  DiscardsOn
  BY <1>20 DEF ClosePart
<1>21. ASSUME RemovePart(r)
      PROVE  DiscardsOn
  BY <1>21 DEF RemovePart
<1>22. ASSUME StorageRefuses(r)
      PROVE  DiscardsOn
  BY <1>22 DEF StorageRefuses
<1> HIDE DEF TypeOK, GoesTo, Ends, Proceeds, Replies, AnswerCreated,
           SaveStatus, tableVars, reqVars, storageVars, EndsCopy, copyVars,
           Smooth, On, Aborting, DiscardsOn, DiscardPlaces, Usable
<1> QED BY <1>1, <1>2, <1>3, <1>4, <1>5, <1>6, <1>7, <1>8, <1>9, <1>10, <1>11,
     <1>12, <1>13, <1>14, <1>15, <1>16, <1>17, <1>18, <1>19, <1>20, <1>21,
     <1>22
     DEF InHandler, HandlerStep, InStorage

(* No request takes a chunk out of the received set.                       *)
LEMMA ReceivedGrows ==
  ASSUME TypeOK,
         CreatedAlone,
         NEW r \in Requests,
         NEW s \in Sessions,
         InHandler(r) \/ InStorage(r)
  PROVE  received[s] \subseteq received'[s]
<1> USE DEF TypeOK, GoesTo, Ends, Proceeds, Replies, AnswerCreated,
           SaveStatus, tableVars, reqVars, storageVars, EndsCopy, copyVars
<1> USE DEF CreatedAlone, On, Creating
<1>1. ASSUME ExpireSession(r), UNCHANGED storageVars
      PROVE  received[s] \subseteq received'[s]
  BY <1>1 DEF ExpireSession
<1>2. ASSUME CreateFileRecord(r), UNCHANGED storageVars
      PROVE  received[s] \subseteq received'[s]
  BY <1>2 DEF CreateFileRecord
<1>3. ASSUME FileRecordFails(r), UNCHANGED storageVars
      PROVE  received[s] \subseteq received'[s]
  BY <1>3 DEF FileRecordFails
<1>4. ASSUME MarkCompleted(r), UNCHANGED storageVars
      PROVE  received[s] \subseteq received'[s]
  BY <1>4 DEF MarkCompleted
<1>5. ASSUME MarkCancelled(r), UNCHANGED storageVars
      PROVE  received[s] \subseteq received'[s]
  BY <1>5 DEF MarkCancelled
<1>6. ASSUME CreatePartFile(r)
      PROVE  received[s] \subseteq received'[s]
  BY <1>6 DEF CreatePartFile
<1>7. ASSUME RegisterUpload(r)
      PROVE  received[s] \subseteq received'[s]
  BY <1>7 DEF RegisterUpload
<1>8. ASSUME BeginCopy(r)
      PROVE  received[s] \subseteq received'[s]
  BY <1>8 DEF BeginCopy
<1>9. ASSUME StartWrite(r)
      PROVE  received[s] \subseteq received'[s]
  BY <1>9 DEF StartWrite
<1>10. ASSUME WriteFails(r)
      PROVE  received[s] \subseteq received'[s]
  BY <1>10 DEF WriteFails
<1>11. ASSUME WritePiece(r)
      PROVE  received[s] \subseteq received'[s]
  BY <1>11 DEF WritePiece
<1>12. ASSUME RecordReceived(r)
      PROVE  received[s] \subseteq received'[s]
  BY <1>12 DEF RecordReceived
<1>13. ASSUME LookUpForFinalize(r)
      PROVE  received[s] \subseteq received'[s]
  BY <1>13 DEF LookUpForFinalize
<1>14. ASSUME CountReceived(r)
      PROVE  received[s] \subseteq received'[s]
  BY <1>14 DEF CountReceived
<1>15. ASSUME CloseFile(r)
      PROVE  received[s] \subseteq received'[s]
  BY <1>15 DEF CloseFile
<1>16. ASSUME CloseFails(r)
      PROVE  received[s] \subseteq received'[s]
  BY <1>16 DEF CloseFails
<1>17. ASSUME RenamePart(r)
      PROVE  received[s] \subseteq received'[s]
  BY <1>17 DEF RenamePart
<1>18. ASSUME DropUpload(r)
      PROVE  received[s] \subseteq received'[s]
  BY <1>18 DEF DropUpload
<1>19. ASSUME Deregister(r)
      PROVE  received[s] \subseteq received'[s]
  BY <1>19 DEF Deregister
<1>20. ASSUME ClosePart(r)
      PROVE  received[s] \subseteq received'[s]
  BY <1>20 DEF ClosePart
<1>21. ASSUME RemovePart(r)
      PROVE  received[s] \subseteq received'[s]
  BY <1>21 DEF RemovePart
<1>22. ASSUME StorageRefuses(r)
      PROVE  received[s] \subseteq received'[s]
  BY <1>22 DEF StorageRefuses
<1> HIDE DEF TypeOK, GoesTo, Ends, Proceeds, Replies, AnswerCreated,
           SaveStatus, tableVars, reqVars, storageVars, EndsCopy, copyVars,
           CreatedAlone, On, Creating
<1> QED BY <1>1, <1>2, <1>3, <1>4, <1>5, <1>6, <1>7, <1>8, <1>9, <1>10, <1>11,
     <1>12, <1>13, <1>14, <1>15, <1>16, <1>17, <1>18, <1>19, <1>20, <1>21,
     <1>22
     DEF InHandler, HandlerStep, InStorage

(***************************************************************************)
(* What the client's own steps do to the requests.                         *)
(***************************************************************************)
(* A chunk's request stays one until it ends.                              *)
LEMMA UploadPlaces ==
  ASSUME TypeOK,
         SlotsAgree,
         NEW r \in Requests,
         pc[r] \in Uploading,
         InHandler(r) \/ InStorage(r)
  PROVE  pc'[r] \in Uploading \union {"idle"}
<1> USE DEF TypeOK, GoesTo, Ends, Proceeds, Replies, AnswerCreated,
           SaveStatus, tableVars, reqVars, storageVars, EndsCopy, copyVars
<1> USE DEF Uploading, SlotsAgree, Copying
<1>1. ASSUME ExpireSession(r), UNCHANGED storageVars
      PROVE  pc'[r] \in Uploading \union {"idle"}
  BY <1>1 DEF ExpireSession
<1>2. ASSUME CreateFileRecord(r), UNCHANGED storageVars
      PROVE  pc'[r] \in Uploading \union {"idle"}
  BY <1>2 DEF CreateFileRecord
<1>3. ASSUME FileRecordFails(r), UNCHANGED storageVars
      PROVE  pc'[r] \in Uploading \union {"idle"}
  BY <1>3 DEF FileRecordFails
<1>4. ASSUME MarkCompleted(r), UNCHANGED storageVars
      PROVE  pc'[r] \in Uploading \union {"idle"}
  BY <1>4 DEF MarkCompleted
<1>5. ASSUME MarkCancelled(r), UNCHANGED storageVars
      PROVE  pc'[r] \in Uploading \union {"idle"}
  BY <1>5 DEF MarkCancelled
<1>6. ASSUME CreatePartFile(r)
      PROVE  pc'[r] \in Uploading \union {"idle"}
  BY <1>6 DEF CreatePartFile
<1>7. ASSUME RegisterUpload(r)
      PROVE  pc'[r] \in Uploading \union {"idle"}
  BY <1>7 DEF RegisterUpload
<1>8. ASSUME BeginCopy(r)
      PROVE  pc'[r] \in Uploading \union {"idle"}
  BY <1>8 DEF BeginCopy
<1>9. ASSUME StartWrite(r)
      PROVE  pc'[r] \in Uploading \union {"idle"}
  BY <1>9 DEF StartWrite
<1>10. ASSUME WriteFails(r)
      PROVE  pc'[r] \in Uploading \union {"idle"}
  BY <1>10 DEF WriteFails
<1>11. ASSUME WritePiece(r)
      PROVE  pc'[r] \in Uploading \union {"idle"}
  BY <1>11 DEF WritePiece
<1>12. ASSUME RecordReceived(r)
      PROVE  pc'[r] \in Uploading \union {"idle"}
  BY <1>12 DEF RecordReceived
<1>13. ASSUME LookUpForFinalize(r)
      PROVE  pc'[r] \in Uploading \union {"idle"}
  BY <1>13 DEF LookUpForFinalize
<1>14. ASSUME CountReceived(r)
      PROVE  pc'[r] \in Uploading \union {"idle"}
  BY <1>14 DEF CountReceived
<1>15. ASSUME CloseFile(r)
      PROVE  pc'[r] \in Uploading \union {"idle"}
  BY <1>15 DEF CloseFile
<1>16. ASSUME CloseFails(r)
      PROVE  pc'[r] \in Uploading \union {"idle"}
  BY <1>16 DEF CloseFails
<1>17. ASSUME RenamePart(r)
      PROVE  pc'[r] \in Uploading \union {"idle"}
  BY <1>17 DEF RenamePart
<1>18. ASSUME DropUpload(r)
      PROVE  pc'[r] \in Uploading \union {"idle"}
  BY <1>18 DEF DropUpload
<1>19. ASSUME Deregister(r)
      PROVE  pc'[r] \in Uploading \union {"idle"}
  BY <1>19 DEF Deregister
<1>20. ASSUME ClosePart(r)
      PROVE  pc'[r] \in Uploading \union {"idle"}
  BY <1>20 DEF ClosePart
<1>21. ASSUME RemovePart(r)
      PROVE  pc'[r] \in Uploading \union {"idle"}
  BY <1>21 DEF RemovePart
<1>22. ASSUME StorageRefuses(r)
      PROVE  pc'[r] \in Uploading \union {"idle"}
  BY <1>22 DEF StorageRefuses
<1> HIDE DEF TypeOK, GoesTo, Ends, Proceeds, Replies, AnswerCreated,
           SaveStatus, tableVars, reqVars, storageVars, EndsCopy, copyVars,
           Uploading, SlotsAgree, Copying
<1> QED BY <1>1, <1>2, <1>3, <1>4, <1>5, <1>6, <1>7, <1>8, <1>9, <1>10, <1>11,
     <1>12, <1>13, <1>14, <1>15, <1>16, <1>17, <1>18, <1>19, <1>20, <1>21,
     <1>22
     DEF InHandler, HandlerStep, InStorage

(* Only the request of a chunk carries one.                                *)
LEMMA CarriersUploadStep ==
  ASSUME Smooth,
         TypeOK,
         ClientTypeOK,
         ~overdue[Session],
         SlotsAgree,
         CarriersUpload,
         [ClientNext]_allVars
  PROVE  CarriersUpload'
<1> USE DEF mainVars, workerVars, clientVars
<1> USE DEF CarriersUpload, TypeOK, Uploading
<1>1. ASSUME NEW r \in Requests, OpenSession(r)
      PROVE  CarriersUpload'
  <2>1. /\ pc[r] = "idle" /\ pc' = [pc EXCEPT ![r] = "init_call"]
        /\ sess' = [sess EXCEPT ![r] = Session]
        /\ chunk' = [chunk EXCEPT ![r] = None]
    BY <1>1 DEF OpenSession, CreateSession, Starts
  <2> QED
    BY <2>1
<1>2. ASSUME NEW r \in Requests, Complete(r)
      PROVE  CarriersUpload'
  <2>1. /\ pc[r] = "idle" /\ pc' = [pc EXCEPT ![r] = "finalize_call"]
        /\ sess' = [sess EXCEPT ![r] = Session]
        /\ chunk' = [chunk EXCEPT ![r] = None]
    BY <1>2 DEF Complete, CompleteChunkedUpload, Starts
  <2> QED
    BY <2>1
<1>3. ASSUME NEW r \in Requests, Abort(r)
      PROVE  CarriersUpload'
  <2>1. /\ pc[r] = "idle" /\ pc' = [pc EXCEPT ![r] = "abort_call"]
        /\ sess' = [sess EXCEPT ![r] = Session]
        /\ chunk' = [chunk EXCEPT ![r] = None]
    BY <1>3 DEF Abort, AbortChunkedUpload, Starts
  <2> QED
    BY <2>1
<1>4. CASE MainRefused
  <2>1. UNCHANGED <<pc, sess, chunk>>
    BY <1>4 DEF MainRefused, ChunkFailed, vars, handlerVars, reqVars
  <2> QED
    BY <2>1
<1>5. CASE MainAnswered
  <2>1. UNCHANGED <<pc, sess, chunk>>
    BY <1>5 DEF MainAnswered, ChunkFailed, vars, handlerVars, reqVars
  <2> QED
    BY <2>1
<1>6. ASSUME NEW w \in Workers, TakeChunk(w)
      PROVE  CarriersUpload'
  <2>1. UNCHANGED <<pc, sess, chunk>>
    BY <1>6 DEF TakeChunk, ChunkFailed, vars, handlerVars, reqVars
  <2> QED
    BY <2>1
<1>7. ASSUME NEW w \in Workers, NEW r \in Requests, SendChunk(w, r)
      PROVE  CarriersUpload'
  <2>1. /\ pc[r] = "idle" /\ pc' = [pc EXCEPT ![r] = "chunk_call"]
        /\ sess' = [sess EXCEPT ![r] = Session]
        /\ chunk' = [chunk EXCEPT ![r] = number[w]]
        /\ \A q \in Requests : chunk[q] # number[w]
    BY <1>7 DEF SendChunk, UploadChunk, Starts, Smooth, BackedOff
  <2> QED
    BY <2>1
<1>8. ASSUME NEW w \in Workers, ChunkStored(w)
      PROVE  CarriersUpload'
  <2>1. UNCHANGED <<pc, sess, chunk>>
    BY <1>8 DEF ChunkStored, ChunkFailed, vars, handlerVars, reqVars
  <2> QED
    BY <2>1
<1>9. ASSUME NEW w \in Workers, ChunkRefused(w)
      PROVE  CarriersUpload'
  <2>1. UNCHANGED <<pc, sess, chunk>>
    BY <1>9 DEF ChunkRefused, ChunkFailed, vars, handlerVars, reqVars
  <2> QED
    BY <2>1
<1>10. ASSUME NEW w \in Workers, ChunkNotFound(w)
      PROVE  CarriersUpload'
  <2>1. UNCHANGED <<pc, sess, chunk>>
    BY <1>10 DEF ChunkNotFound, ChunkFailed, vars, handlerVars, reqVars
  <2> QED
    BY <2>1
<1>11. ASSUME NEW w \in Workers, ConnectionDrops(w)
      PROVE  CarriersUpload'
  <2>1. UNCHANGED <<pc, sess, chunk>>
    BY <1>11 DEF ConnectionDrops, ChunkFailed, vars, handlerVars, reqVars
  <2> QED
    BY <2>1
<1>12. ASSUME NEW w \in Workers, SignalAborts(w)
      PROVE  CarriersUpload'
  <2>1. UNCHANGED <<pc, sess, chunk>>
    BY <1>12 DEF SignalAborts, ChunkFailed, vars, handlerVars, reqVars
  <2> QED
    BY <2>1
<1>13. ASSUME NEW r \in Requests, ServerStep(r)
      PROVE  CarriersUpload'
  <2>1. ServesClient(r) /\ (InHandler(r) \/ InStorage(r))
    BY <1>13, ServerServes DEF ServerStep
  <2>2. pc[r] \in Uploading => pc'[r] \in Uploading \union {"idle"}
    BY <2>1, UploadPlaces
  <2> QED
    BY <2>1, <2>2 DEF ServesClient, Moves
<1>14. ASSUME NEW r \in Requests, BodyEnds(r)
      PROVE  CarriersUpload'
  <2>1. /\ pc' = [pc EXCEPT ![r] = "idle"]
        /\ sess' = [sess EXCEPT ![r] = None]
        /\ chunk' = [chunk EXCEPT ![r] = None]
    BY <1>14 DEF BodyEnds, ShortSource, Replies, Ends
  <2> QED
    BY <2>1
<1>15. CASE ServerRestarts
  BY <1>15 DEF ServerRestarts, Restart, HandlersDie, Smooth
<1>16. CASE SessionRunsOut
  BY <1>16 DEF SessionRunsOut, Smooth
<1>17. CASE UNCHANGED allVars
  <2>1. UNCHANGED <<pc, sess, chunk>>
    BY <1>17 DEF allVars, ChunkFailed, vars, handlerVars, reqVars
  <2> QED
    BY <2>1
<1>18. CASE MainLost
  <2>1. UNCHANGED <<pc, sess, chunk>>
    BY <1>18 DEF MainLost, ChunkFailed, vars, handlerVars, reqVars
  <2> QED
    BY <2>1
<1> HIDE DEF mainVars, workerVars, clientVars, CarriersUpload, TypeOK,
           Uploading
<1> QED BY <1>1, <1>2, <1>3, <1>4, <1>5, <1>6, <1>7, <1>8, <1>9, <1>10, <1>11,
     <1>12, <1>13, <1>14, <1>15, <1>16, <1>17, <1>18
     DEF ClientNext, MainStep, WorkerStep

(* The backoff outlasts the request that is retried.                       *)
LEMMA CarriersDifferStep ==
  ASSUME Smooth,
         TypeOK,
         ClientTypeOK,
         ~overdue[Session],
         CarriersDiffer,
         [ClientNext]_allVars
  PROVE  CarriersDiffer'
<1> USE DEF mainVars, workerVars, clientVars
<1> USE DEF CarriersDiffer, TypeOK
<1>1. ASSUME NEW r \in Requests, OpenSession(r)
      PROVE  CarriersDiffer'
  <2>1. /\ pc[r] = "idle" /\ pc' = [pc EXCEPT ![r] = "init_call"]
        /\ sess' = [sess EXCEPT ![r] = Session]
        /\ chunk' = [chunk EXCEPT ![r] = None]
    BY <1>1 DEF OpenSession, CreateSession, Starts
  <2> QED
    BY <2>1
<1>2. ASSUME NEW r \in Requests, Complete(r)
      PROVE  CarriersDiffer'
  <2>1. /\ pc[r] = "idle" /\ pc' = [pc EXCEPT ![r] = "finalize_call"]
        /\ sess' = [sess EXCEPT ![r] = Session]
        /\ chunk' = [chunk EXCEPT ![r] = None]
    BY <1>2 DEF Complete, CompleteChunkedUpload, Starts
  <2> QED
    BY <2>1
<1>3. ASSUME NEW r \in Requests, Abort(r)
      PROVE  CarriersDiffer'
  <2>1. /\ pc[r] = "idle" /\ pc' = [pc EXCEPT ![r] = "abort_call"]
        /\ sess' = [sess EXCEPT ![r] = Session]
        /\ chunk' = [chunk EXCEPT ![r] = None]
    BY <1>3 DEF Abort, AbortChunkedUpload, Starts
  <2> QED
    BY <2>1
<1>4. CASE MainRefused
  <2>1. UNCHANGED <<pc, sess, chunk>>
    BY <1>4 DEF MainRefused, ChunkFailed, vars, handlerVars, reqVars
  <2> QED
    BY <2>1
<1>5. CASE MainAnswered
  <2>1. UNCHANGED <<pc, sess, chunk>>
    BY <1>5 DEF MainAnswered, ChunkFailed, vars, handlerVars, reqVars
  <2> QED
    BY <2>1
<1>6. ASSUME NEW w \in Workers, TakeChunk(w)
      PROVE  CarriersDiffer'
  <2>1. UNCHANGED <<pc, sess, chunk>>
    BY <1>6 DEF TakeChunk, ChunkFailed, vars, handlerVars, reqVars
  <2> QED
    BY <2>1
<1>7. ASSUME NEW w \in Workers, NEW r \in Requests, SendChunk(w, r)
      PROVE  CarriersDiffer'
  <2>1. /\ pc[r] = "idle" /\ pc' = [pc EXCEPT ![r] = "chunk_call"]
        /\ sess' = [sess EXCEPT ![r] = Session]
        /\ chunk' = [chunk EXCEPT ![r] = number[w]]
        /\ \A q \in Requests : chunk[q] # number[w]
    BY <1>7 DEF SendChunk, UploadChunk, Starts, Smooth, BackedOff
  <2> QED
    BY <2>1
<1>8. ASSUME NEW w \in Workers, ChunkStored(w)
      PROVE  CarriersDiffer'
  <2>1. UNCHANGED <<pc, sess, chunk>>
    BY <1>8 DEF ChunkStored, ChunkFailed, vars, handlerVars, reqVars
  <2> QED
    BY <2>1
<1>9. ASSUME NEW w \in Workers, ChunkRefused(w)
      PROVE  CarriersDiffer'
  <2>1. UNCHANGED <<pc, sess, chunk>>
    BY <1>9 DEF ChunkRefused, ChunkFailed, vars, handlerVars, reqVars
  <2> QED
    BY <2>1
<1>10. ASSUME NEW w \in Workers, ChunkNotFound(w)
      PROVE  CarriersDiffer'
  <2>1. UNCHANGED <<pc, sess, chunk>>
    BY <1>10 DEF ChunkNotFound, ChunkFailed, vars, handlerVars, reqVars
  <2> QED
    BY <2>1
<1>11. ASSUME NEW w \in Workers, ConnectionDrops(w)
      PROVE  CarriersDiffer'
  <2>1. UNCHANGED <<pc, sess, chunk>>
    BY <1>11 DEF ConnectionDrops, ChunkFailed, vars, handlerVars, reqVars
  <2> QED
    BY <2>1
<1>12. ASSUME NEW w \in Workers, SignalAborts(w)
      PROVE  CarriersDiffer'
  <2>1. UNCHANGED <<pc, sess, chunk>>
    BY <1>12 DEF SignalAborts, ChunkFailed, vars, handlerVars, reqVars
  <2> QED
    BY <2>1
<1>13. ASSUME NEW r \in Requests, ServerStep(r)
      PROVE  CarriersDiffer'
  <2>1. ServesClient(r) /\ (InHandler(r) \/ InStorage(r))
    BY <1>13, ServerServes DEF ServerStep
  <2> QED
    BY <2>1 DEF ServesClient, Moves
<1>14. ASSUME NEW r \in Requests, BodyEnds(r)
      PROVE  CarriersDiffer'
  <2>1. /\ pc' = [pc EXCEPT ![r] = "idle"]
        /\ sess' = [sess EXCEPT ![r] = None]
        /\ chunk' = [chunk EXCEPT ![r] = None]
    BY <1>14 DEF BodyEnds, ShortSource, Replies, Ends
  <2> QED
    BY <2>1
<1>15. CASE ServerRestarts
  BY <1>15 DEF ServerRestarts, Restart, HandlersDie, Smooth
<1>16. CASE SessionRunsOut
  BY <1>16 DEF SessionRunsOut, Smooth
<1>17. CASE UNCHANGED allVars
  <2>1. UNCHANGED <<pc, sess, chunk>>
    BY <1>17 DEF allVars, ChunkFailed, vars, handlerVars, reqVars
  <2> QED
    BY <2>1
<1>18. CASE MainLost
  <2>1. UNCHANGED <<pc, sess, chunk>>
    BY <1>18 DEF MainLost, ChunkFailed, vars, handlerVars, reqVars
  <2> QED
    BY <2>1
<1> HIDE DEF mainVars, workerVars, clientVars, CarriersDiffer, TypeOK
<1> QED BY <1>1, <1>2, <1>3, <1>4, <1>5, <1>6, <1>7, <1>8, <1>9, <1>10, <1>11,
     <1>12, <1>13, <1>14, <1>15, <1>16, <1>17, <1>18
     DEF ClientNext, MainStep, WorkerStep

KeepsHold(v) ==
  \/ Holds(v)' /\ number'[v] = number[v]
  \/ place[v] = "waiting" /\ fetch[slot[v]] = "ok" /\ UNCHANGED vars

(* A worker keeps its chunk until it is stored or all is cancelled.        *)
LEMMA HoldsKept ==
  ASSUME ClientTypeOK,
         NEW v \in Workers,
         Holds(v),
         ~cancelled',
         [ClientNext]_allVars
  PROVE  KeepsHold(v)
<1> USE DEF mainVars, workerVars, clientVars
<1> USE DEF ClientTypeOK, KeepsHold, Holds
<1>1. ASSUME NEW r \in Requests, OpenSession(r)
      PROVE  KeepsHold(v)
  <2>1. UNCHANGED <<place, number, cancelled>>
    BY <1>1 DEF OpenSession, vars, handlerVars, reqVars, mainVars, workerVars, clientVars, MainSends
  <2> QED
    BY <2>1
<1>2. ASSUME NEW r \in Requests, Complete(r)
      PROVE  KeepsHold(v)
  <2>1. UNCHANGED <<place, number, cancelled>>
    BY <1>2 DEF Complete, vars, handlerVars, reqVars, mainVars, workerVars, clientVars, MainSends
  <2> QED
    BY <2>1
<1>3. ASSUME NEW r \in Requests, Abort(r)
      PROVE  KeepsHold(v)
  <2>1. UNCHANGED <<place, number, cancelled>>
    BY <1>3 DEF Abort, vars, handlerVars, reqVars, mainVars, workerVars, clientVars, MainSends
  <2> QED
    BY <2>1
<1>4. CASE MainRefused
  <2>1. UNCHANGED <<place, number, cancelled>>
    BY <1>4 DEF MainRefused, vars, handlerVars, reqVars, mainVars, workerVars, clientVars
  <2> QED
    BY <2>1
<1>5. CASE MainAnswered
  <2>1. UNCHANGED <<place, number, cancelled>>
    BY <1>5 DEF MainAnswered, vars, handlerVars, reqVars, mainVars, workerVars, clientVars
  <2> QED
    BY <2>1
<1>6. ASSUME NEW w \in Workers, TakeChunk(w)
      PROVE  KeepsHold(v)
  <2>1. /\ place[w] = "ready" /\ phase = "uploading"
        /\ nextChunk' = IF cancelled THEN nextChunk ELSE nextChunk + 1
        /\ UNCHANGED <<vars, mainVars, cancelled, slot, fetch, drops>>
    BY <1>6 DEF TakeChunk
  <2>2. CASE cancelled \/ nextChunk \notin Chunks
    <3>1. place' = [place EXCEPT ![w] = "exited"] /\ UNCHANGED <<number, left>>
      BY <1>6, <2>2 DEF TakeChunk
    <3> QED
      BY <2>1, <2>2, <3>1 DEF mainVars, vars, handlerVars, reqVars
  <2>3. CASE ~cancelled /\ nextChunk \in Chunks
    <3>1. /\ place' = [place EXCEPT ![w] = "sending"]
          /\ number' = [number EXCEPT ![w] = nextChunk]
          /\ left' = [left EXCEPT ![w] = MaxRetries]
      BY <1>6, <2>3 DEF TakeChunk
    <3> QED
      BY <2>1, <2>3, <3>1 DEF mainVars, vars, handlerVars, reqVars
  <2> QED
    BY <2>2, <2>3
<1>7. ASSUME NEW w \in Workers, NEW r \in Requests, SendChunk(w, r)
      PROVE  KeepsHold(v)
  <2>1. place' = [place EXCEPT ![w] = "waiting"] /\ number' = number
    BY <1>7 DEF SendChunk
  <2> QED
    BY <2>1
<1>8. ASSUME NEW w \in Workers, ChunkStored(w)
      PROVE  KeepsHold(v)
  <2>1. /\ place[w] = "waiting" /\ fetch[slot[w]] = "ok" /\ UNCHANGED vars
        /\ place' = [place EXCEPT ![w] = "ready"] /\ number' = number
    BY <1>8 DEF ChunkStored
  <2> QED
    BY <2>1
<1>9. ASSUME NEW w \in Workers, ChunkRefused(w)
      PROVE  KeepsHold(v)
  <2>1. /\ place[w] = "waiting" /\ fetch[slot[w]] = "error"
        /\ fetch' = [fetch EXCEPT ![slot[w]] = "none"] /\ UNCHANGED drops
        /\ slot' = [slot EXCEPT ![w] = None]
        /\ UNCHANGED <<vars, mainVars, nextChunk, number>>
    BY <1>9 DEF ChunkRefused, ChunkFailed
  <2>2. CASE left[w] > 0 /\ ~cancelled
    <3>1. /\ left' = [left EXCEPT ![w] = @ - 1]
          /\ place' = [place EXCEPT ![w] = "sending"]
          /\ UNCHANGED cancelled
      BY <1>9, <2>2 DEF ChunkRefused, ChunkFailed
    <3> QED
      BY <2>1, <2>2, <3>1 DEF mainVars, vars, handlerVars, reqVars
  <2>3. CASE ~(left[w] > 0 /\ ~cancelled)
    <3>1. /\ cancelled' = TRUE
          /\ place' = [place EXCEPT ![w] = "exited"]
          /\ UNCHANGED left
      BY <1>9, <2>3 DEF ChunkRefused, ChunkFailed
    <3> QED
      BY <2>1, <2>3, <3>1 DEF mainVars, vars, handlerVars, reqVars
  <2> QED
    BY <2>2, <2>3
<1>10. ASSUME NEW w \in Workers, ChunkNotFound(w)
      PROVE  KeepsHold(v)
  <2>1. /\ place[w] = "sending" /\ UNCHANGED <<fetch, drops>>
        /\ slot' = [slot EXCEPT ![w] = None]
        /\ UNCHANGED <<vars, mainVars, nextChunk, number>>
    BY <1>10 DEF ChunkNotFound, ChunkFailed
  <2>2. CASE left[w] > 0 /\ ~cancelled
    <3>1. /\ left' = [left EXCEPT ![w] = @ - 1]
          /\ place' = [place EXCEPT ![w] = "sending"]
          /\ UNCHANGED cancelled
      BY <1>10, <2>2 DEF ChunkNotFound, ChunkFailed
    <3> QED
      BY <2>1, <2>2, <3>1 DEF mainVars, vars, handlerVars, reqVars
  <2>3. CASE ~(left[w] > 0 /\ ~cancelled)
    <3>1. /\ cancelled' = TRUE
          /\ place' = [place EXCEPT ![w] = "exited"]
          /\ UNCHANGED left
      BY <1>10, <2>3 DEF ChunkNotFound, ChunkFailed
    <3> QED
      BY <2>1, <2>3, <3>1 DEF mainVars, vars, handlerVars, reqVars
  <2> QED
    BY <2>2, <2>3
<1>11. ASSUME NEW w \in Workers, ConnectionDrops(w)
      PROVE  KeepsHold(v)
  <2>1. /\ place[w] \in {"sending", "waiting"} /\ drops < MaxDrops /\ drops' = drops + 1
        /\ fetch' = [r \in Requests |-> IF r = slot[w] THEN "none" ELSE fetch[r]]
        /\ slot' = [slot EXCEPT ![w] = None]
        /\ UNCHANGED <<vars, mainVars, nextChunk, number>>
    BY <1>11 DEF ConnectionDrops, ChunkFailed
  <2>2. CASE left[w] > 0 /\ ~cancelled
    <3>1. /\ left' = [left EXCEPT ![w] = @ - 1]
          /\ place' = [place EXCEPT ![w] = "sending"]
          /\ UNCHANGED cancelled
      BY <1>11, <2>2 DEF ConnectionDrops, ChunkFailed
    <3> QED
      BY <2>1, <2>2, <3>1 DEF mainVars, vars, handlerVars, reqVars
  <2>3. CASE ~(left[w] > 0 /\ ~cancelled)
    <3>1. /\ cancelled' = TRUE
          /\ place' = [place EXCEPT ![w] = "exited"]
          /\ UNCHANGED left
      BY <1>11, <2>3 DEF ConnectionDrops, ChunkFailed
    <3> QED
      BY <2>1, <2>3, <3>1 DEF mainVars, vars, handlerVars, reqVars
  <2> QED
    BY <2>2, <2>3
<1>12. ASSUME NEW w \in Workers, SignalAborts(w)
      PROVE  KeepsHold(v)
  <2>1. /\ cancelled /\ place[w] \in {"sending", "waiting"} /\ UNCHANGED drops
        /\ fetch' = [r \in Requests |-> IF r = slot[w] THEN "none" ELSE fetch[r]]
        /\ slot' = [slot EXCEPT ![w] = None]
        /\ UNCHANGED <<vars, mainVars, nextChunk, number>>
    BY <1>12 DEF SignalAborts, ChunkFailed
  <2>2. CASE left[w] > 0 /\ ~cancelled
    <3>1. /\ left' = [left EXCEPT ![w] = @ - 1]
          /\ place' = [place EXCEPT ![w] = "sending"]
          /\ UNCHANGED cancelled
      BY <1>12, <2>2 DEF SignalAborts, ChunkFailed
    <3> QED
      BY <2>1, <2>2, <3>1 DEF mainVars, vars, handlerVars, reqVars
  <2>3. CASE ~(left[w] > 0 /\ ~cancelled)
    <3>1. /\ cancelled' = TRUE
          /\ place' = [place EXCEPT ![w] = "exited"]
          /\ UNCHANGED left
      BY <1>12, <2>3 DEF SignalAborts, ChunkFailed
    <3> QED
      BY <2>1, <2>3, <3>1 DEF mainVars, vars, handlerVars, reqVars
  <2> QED
    BY <2>2, <2>3
<1>13. ASSUME NEW r \in Requests, ServerStep(r)
      PROVE  KeepsHold(v)
  <2>1. UNCHANGED <<place, number, cancelled>>
    BY <1>13 DEF ServerStep, vars, handlerVars, reqVars, mainVars, workerVars, clientVars
  <2> QED
    BY <2>1
<1>14. ASSUME NEW r \in Requests, BodyEnds(r)
      PROVE  KeepsHold(v)
  <2>1. UNCHANGED <<place, number, cancelled>>
    BY <1>14 DEF BodyEnds, vars, handlerVars, reqVars, mainVars, workerVars, clientVars
  <2> QED
    BY <2>1
<1>15. CASE ServerRestarts
  <2>1. UNCHANGED <<place, number, cancelled>>
    BY <1>15 DEF ServerRestarts, vars, handlerVars, reqVars, mainVars, workerVars, clientVars
  <2> QED
    BY <2>1
<1>16. CASE SessionRunsOut
  <2>1. UNCHANGED <<place, number, cancelled>>
    BY <1>16 DEF SessionRunsOut, vars, handlerVars, reqVars, mainVars, workerVars, clientVars
  <2> QED
    BY <2>1
<1>17. CASE UNCHANGED allVars
  <2>1. UNCHANGED <<place, number, cancelled>>
    BY <1>17 DEF allVars, vars, handlerVars, reqVars, mainVars, workerVars, clientVars
  <2> QED
    BY <2>1
<1>18. CASE MainLost
  <2>1. UNCHANGED <<place, number, cancelled>>
    BY <1>18 DEF MainLost, vars, handlerVars, reqVars, mainVars, workerVars, clientVars
  <2> QED
    BY <2>1
<1> HIDE DEF mainVars, workerVars, clientVars, ClientTypeOK, KeepsHold, Holds
<1> QED BY <1>1, <1>2, <1>3, <1>4, <1>5, <1>6, <1>7, <1>8, <1>9, <1>10, <1>11,
     <1>12, <1>13, <1>14, <1>15, <1>16, <1>17, <1>18
     DEF ClientNext, MainStep, WorkerStep

(* What is cancelled stays so.                                             *)
LEMMA StaysCancelled ==
  ASSUME [ClientNext]_allVars
  PROVE  cancelled => cancelled'
<1> USE DEF mainVars, workerVars, clientVars
<1>1. ASSUME NEW r \in Requests, OpenSession(r)
      PROVE  cancelled => cancelled'
  <2>1. UNCHANGED <<place, number, cancelled>>
    BY <1>1 DEF OpenSession, vars, handlerVars, reqVars, mainVars, workerVars, clientVars, MainSends
  <2> QED
    BY <2>1
<1>2. ASSUME NEW r \in Requests, Complete(r)
      PROVE  cancelled => cancelled'
  <2>1. UNCHANGED <<place, number, cancelled>>
    BY <1>2 DEF Complete, vars, handlerVars, reqVars, mainVars, workerVars, clientVars, MainSends
  <2> QED
    BY <2>1
<1>3. ASSUME NEW r \in Requests, Abort(r)
      PROVE  cancelled => cancelled'
  <2>1. UNCHANGED <<place, number, cancelled>>
    BY <1>3 DEF Abort, vars, handlerVars, reqVars, mainVars, workerVars, clientVars, MainSends
  <2> QED
    BY <2>1
<1>4. CASE MainRefused
  <2>1. UNCHANGED <<place, number, cancelled>>
    BY <1>4 DEF MainRefused, vars, handlerVars, reqVars, mainVars, workerVars, clientVars
  <2> QED
    BY <2>1
<1>5. CASE MainAnswered
  <2>1. UNCHANGED <<place, number, cancelled>>
    BY <1>5 DEF MainAnswered, vars, handlerVars, reqVars, mainVars, workerVars, clientVars
  <2> QED
    BY <2>1
<1>6. ASSUME NEW w \in Workers, TakeChunk(w)
      PROVE  cancelled => cancelled'
  <2>1. UNCHANGED cancelled
    BY <1>6 DEF TakeChunk
  <2> QED
    BY <2>1
<1>7. ASSUME NEW w \in Workers, NEW r \in Requests, SendChunk(w, r)
      PROVE  cancelled => cancelled'
  <2>1. UNCHANGED cancelled
    BY <1>7 DEF SendChunk
  <2> QED
    BY <2>1
<1>8. ASSUME NEW w \in Workers, ChunkStored(w)
      PROVE  cancelled => cancelled'
  <2>1. UNCHANGED cancelled
    BY <1>8 DEF ChunkStored
  <2> QED
    BY <2>1
<1>9. ASSUME NEW w \in Workers, ChunkRefused(w)
      PROVE  cancelled => cancelled'
  BY <1>9 DEF ChunkRefused, ChunkFailed
<1>10. ASSUME NEW w \in Workers, ChunkNotFound(w)
      PROVE  cancelled => cancelled'
  BY <1>10 DEF ChunkNotFound, ChunkFailed
<1>11. ASSUME NEW w \in Workers, ConnectionDrops(w)
      PROVE  cancelled => cancelled'
  BY <1>11 DEF ConnectionDrops, ChunkFailed
<1>12. ASSUME NEW w \in Workers, SignalAborts(w)
      PROVE  cancelled => cancelled'
  BY <1>12 DEF SignalAborts, ChunkFailed
<1>13. ASSUME NEW r \in Requests, ServerStep(r)
      PROVE  cancelled => cancelled'
  <2>1. UNCHANGED <<place, number, cancelled>>
    BY <1>13 DEF ServerStep, vars, handlerVars, reqVars, mainVars, workerVars, clientVars
  <2> QED
    BY <2>1
<1>14. ASSUME NEW r \in Requests, BodyEnds(r)
      PROVE  cancelled => cancelled'
  <2>1. UNCHANGED <<place, number, cancelled>>
    BY <1>14 DEF BodyEnds, vars, handlerVars, reqVars, mainVars, workerVars, clientVars
  <2> QED
    BY <2>1
<1>15. CASE ServerRestarts
  <2>1. UNCHANGED <<place, number, cancelled>>
    BY <1>15 DEF ServerRestarts, vars, handlerVars, reqVars, mainVars, workerVars, clientVars
  <2> QED
    BY <2>1
<1>16. CASE SessionRunsOut
  <2>1. UNCHANGED <<place, number, cancelled>>
    BY <1>16 DEF SessionRunsOut, vars, handlerVars, reqVars, mainVars, workerVars, clientVars
  <2> QED
    BY <2>1
<1>17. CASE UNCHANGED allVars
  <2>1. UNCHANGED <<place, number, cancelled>>
    BY <1>17 DEF allVars, vars, handlerVars, reqVars, mainVars, workerVars, clientVars
  <2> QED
    BY <2>1
<1>18. CASE MainLost
  <2>1. UNCHANGED <<place, number, cancelled>>
    BY <1>18 DEF MainLost, vars, handlerVars, reqVars, mainVars, workerVars, clientVars
  <2> QED
    BY <2>1
<1> HIDE DEF mainVars, workerVars, clientVars
<1> QED BY <1>1, <1>2, <1>3, <1>4, <1>5, <1>6, <1>7, <1>8, <1>9, <1>10, <1>11,
     <1>12, <1>13, <1>14, <1>15, <1>16, <1>17, <1>18
     DEF ClientNext, MainStep, WorkerStep

CarriedOn(r) ==
  \/ chunk'[r] \in {chunk[r], None}
  \/ \E w \in Workers : Holds(w)' /\ number'[w] = chunk'[r]

(* A request carries the chunk its worker has sent it with.                *)
LEMMA CarrierOrigin ==
  ASSUME Smooth,
         TypeOK,
         ClientTypeOK,
         ~overdue[Session],
         NEW q \in Requests,
         [ClientNext]_allVars
  PROVE  CarriedOn(q)
<1> USE DEF mainVars, workerVars, clientVars
<1> USE DEF CarriedOn, TypeOK, Holds
<1>1. ASSUME NEW r \in Requests, OpenSession(r)
      PROVE  CarriedOn(q)
  <2>1. /\ pc[r] = "idle" /\ pc' = [pc EXCEPT ![r] = "init_call"]
        /\ sess' = [sess EXCEPT ![r] = Session]
        /\ chunk' = [chunk EXCEPT ![r] = None]
    BY <1>1 DEF OpenSession, CreateSession, Starts
  <2> QED
    BY <2>1
<1>2. ASSUME NEW r \in Requests, Complete(r)
      PROVE  CarriedOn(q)
  <2>1. /\ pc[r] = "idle" /\ pc' = [pc EXCEPT ![r] = "finalize_call"]
        /\ sess' = [sess EXCEPT ![r] = Session]
        /\ chunk' = [chunk EXCEPT ![r] = None]
    BY <1>2 DEF Complete, CompleteChunkedUpload, Starts
  <2> QED
    BY <2>1
<1>3. ASSUME NEW r \in Requests, Abort(r)
      PROVE  CarriedOn(q)
  <2>1. /\ pc[r] = "idle" /\ pc' = [pc EXCEPT ![r] = "abort_call"]
        /\ sess' = [sess EXCEPT ![r] = Session]
        /\ chunk' = [chunk EXCEPT ![r] = None]
    BY <1>3 DEF Abort, AbortChunkedUpload, Starts
  <2> QED
    BY <2>1
<1>4. CASE MainRefused
  <2>1. UNCHANGED <<pc, sess, chunk>>
    BY <1>4 DEF MainRefused, ChunkFailed, vars, handlerVars, reqVars
  <2> QED
    BY <2>1
<1>5. CASE MainAnswered
  <2>1. UNCHANGED <<pc, sess, chunk>>
    BY <1>5 DEF MainAnswered, ChunkFailed, vars, handlerVars, reqVars
  <2> QED
    BY <2>1
<1>6. ASSUME NEW w \in Workers, TakeChunk(w)
      PROVE  CarriedOn(q)
  <2>1. UNCHANGED <<pc, sess, chunk>>
    BY <1>6 DEF TakeChunk, ChunkFailed, vars, handlerVars, reqVars
  <2> QED
    BY <2>1
<1>7. ASSUME NEW w \in Workers, NEW r \in Requests, SendChunk(w, r)
      PROVE  CarriedOn(q)
  <2>1. chunk' = [chunk EXCEPT ![r] = number[w]]
    BY <1>7 DEF SendChunk, UploadChunk, Starts, Smooth
  <2>2. place' = [place EXCEPT ![w] = "waiting"] /\ number' = number
    BY <1>7 DEF SendChunk
  <2>3. place'[w] = "waiting" /\ number'[w] = number[w]
    BY <2>2 DEF ClientTypeOK
  <2>4. chunk'[q] \in {chunk[q], number[w]}
    BY <2>1
  <2> QED
    BY <2>3, <2>4
<1>8. ASSUME NEW w \in Workers, ChunkStored(w)
      PROVE  CarriedOn(q)
  <2>1. UNCHANGED <<pc, sess, chunk>>
    BY <1>8 DEF ChunkStored, ChunkFailed, vars, handlerVars, reqVars
  <2> QED
    BY <2>1
<1>9. ASSUME NEW w \in Workers, ChunkRefused(w)
      PROVE  CarriedOn(q)
  <2>1. UNCHANGED <<pc, sess, chunk>>
    BY <1>9 DEF ChunkRefused, ChunkFailed, vars, handlerVars, reqVars
  <2> QED
    BY <2>1
<1>10. ASSUME NEW w \in Workers, ChunkNotFound(w)
      PROVE  CarriedOn(q)
  <2>1. UNCHANGED <<pc, sess, chunk>>
    BY <1>10 DEF ChunkNotFound, ChunkFailed, vars, handlerVars, reqVars
  <2> QED
    BY <2>1
<1>11. ASSUME NEW w \in Workers, ConnectionDrops(w)
      PROVE  CarriedOn(q)
  <2>1. UNCHANGED <<pc, sess, chunk>>
    BY <1>11 DEF ConnectionDrops, ChunkFailed, vars, handlerVars, reqVars
  <2> QED
    BY <2>1
<1>12. ASSUME NEW w \in Workers, SignalAborts(w)
      PROVE  CarriedOn(q)
  <2>1. UNCHANGED <<pc, sess, chunk>>
    BY <1>12 DEF SignalAborts, ChunkFailed, vars, handlerVars, reqVars
  <2> QED
    BY <2>1
<1>13. ASSUME NEW r \in Requests, ServerStep(r)
      PROVE  CarriedOn(q)
  <2>1. ServesClient(r) /\ (InHandler(r) \/ InStorage(r))
    BY <1>13, ServerServes DEF ServerStep
  <2> QED
    BY <2>1 DEF ServesClient, Moves
<1>14. ASSUME NEW r \in Requests, BodyEnds(r)
      PROVE  CarriedOn(q)
  <2>1. /\ pc' = [pc EXCEPT ![r] = "idle"]
        /\ sess' = [sess EXCEPT ![r] = None]
        /\ chunk' = [chunk EXCEPT ![r] = None]
    BY <1>14 DEF BodyEnds, ShortSource, Replies, Ends
  <2> QED
    BY <2>1
<1>15. CASE ServerRestarts
  BY <1>15 DEF ServerRestarts, Restart, HandlersDie, Smooth
<1>16. CASE SessionRunsOut
  BY <1>16 DEF SessionRunsOut, Smooth
<1>17. CASE UNCHANGED allVars
  <2>1. UNCHANGED <<pc, sess, chunk>>
    BY <1>17 DEF allVars, ChunkFailed, vars, handlerVars, reqVars
  <2> QED
    BY <2>1
<1>18. CASE MainLost
  <2>1. UNCHANGED <<pc, sess, chunk>>
    BY <1>18 DEF MainLost, ChunkFailed, vars, handlerVars, reqVars
  <2> QED
    BY <2>1
<1> HIDE DEF mainVars, workerVars, clientVars, CarriedOn, TypeOK, Holds
<1> QED BY <1>1, <1>2, <1>3, <1>4, <1>5, <1>6, <1>7, <1>8, <1>9, <1>10, <1>11,
     <1>12, <1>13, <1>14, <1>15, <1>16, <1>17, <1>18
     DEF ClientNext, MainStep, WorkerStep

(* The chunk of an upload on its way stays in the hand of its worker.      *)
LEMMA CarriersHeldStep ==
  ASSUME Smooth, TypeOK, ClientTypeOK, ~overdue[Session], CarriersHeld, CarriersWaited,
         [ClientNext]_allVars
  PROVE  CarriersHeld'
<1> SUFFICES ASSUME ~cancelled', NEW r \in Requests, chunk'[r] # None
             PROVE  \E w \in Workers : Holds(w)' /\ number'[w] = chunk'[r]
  BY DEF CarriersHeld
<1>1. CASE chunk'[r] = chunk[r]
  <2>1. PICK w \in Workers : Holds(w) /\ number[w] = chunk[r]
    BY <1>1, StaysCancelled DEF CarriersHeld
  <2>2. KeepsHold(w)
    BY <2>1, HoldsKept
  <2> QED
    BY <1>1, <2>1, <2>2 DEF KeepsHold, CarriersWaited
<1>2. CASE chunk'[r] # chunk[r]
  BY <1>2, CarrierOrigin DEF CarriedOn
<1> QED
  BY <1>1, <1>2

(* A worker that waits has its chunk in the request it waits for, and one  *)
(* that has its answer in none.                                            *)
LEMMA CarriersWaitedStep ==
  ASSUME Smooth,
         TypeOK,
         ClientTypeOK,
         ~overdue[Session],
         WorkersWait,
         MainWaits,
         PhasesAgree,
         OwnChunks,
         CarriersDiffer,
         CarriersWaited,
         [ClientNext]_allVars
  PROVE  CarriersWaited'
<1> USE DEF mainVars, workerVars, clientVars
<1> USE DEF CarriersWaited, TypeOK, ClientTypeOK, WorkersWait, MainWaits
<1>1. ASSUME NEW r \in Requests, OpenSession(r)
      PROVE  CarriersWaited'
  <2>1. /\ UNCHANGED <<place, number, slot>>
        /\ fetch[r] = "none" /\ fetch' = [fetch EXCEPT ![r] = "waiting"]
        /\ chunk' = [chunk EXCEPT ![r] = None]
    BY <1>1 DEF OpenSession, CreateSession, MainSends, Unused, Starts, workerVars
  <2>2. \A v \in Workers : place[v] = "waiting" => number[v] # None
    BY HandlersAssumption DEF OwnChunks, Holds
  <2> QED
    BY <2>1, <2>2
<1>2. ASSUME NEW r \in Requests, Complete(r)
      PROVE  CarriersWaited'
  <2>1. /\ UNCHANGED <<place, number, slot>>
        /\ fetch[r] = "none" /\ fetch' = [fetch EXCEPT ![r] = "waiting"]
        /\ chunk' = [chunk EXCEPT ![r] = None]
    BY <1>2 DEF Complete, CompleteChunkedUpload, MainSends, Unused, Starts, workerVars
  <2>2. \A v \in Workers : place[v] = "waiting" => number[v] # None
    BY HandlersAssumption DEF OwnChunks, Holds
  <2> QED
    BY <2>1, <2>2
<1>3. ASSUME NEW r \in Requests, Abort(r)
      PROVE  CarriersWaited'
  <2>1. /\ UNCHANGED <<place, number, slot>>
        /\ fetch[r] = "none" /\ fetch' = [fetch EXCEPT ![r] = "waiting"]
        /\ chunk' = [chunk EXCEPT ![r] = None]
    BY <1>3 DEF Abort, AbortChunkedUpload, MainSends, Unused, Starts, workerVars
  <2>2. \A v \in Workers : place[v] = "waiting" => number[v] # None
    BY HandlersAssumption DEF OwnChunks, Holds
  <2> QED
    BY <2>1, <2>2
<1>4. CASE MainRefused
  <2>1. UNCHANGED <<place, number, slot, chunk>>
    BY <1>4 DEF MainRefused, vars, handlerVars, reqVars, mainVars, workerVars
  <2>2. \A v \in Workers : place[v] = "waiting" => fetch'[slot[v]] \in {fetch[slot[v]], "none"}
    BY <1>4 DEF MainRefused
  <2> QED
    BY <2>1, <2>2
<1>5. CASE MainAnswered
  <2>1. UNCHANGED <<place, number, slot, chunk>>
    BY <1>5 DEF MainAnswered, vars, handlerVars, reqVars, mainVars, workerVars
  <2>2. \A v \in Workers : place[v] = "waiting" => fetch'[slot[v]] \in {fetch[slot[v]], "none"}
    BY <1>5 DEF MainAnswered
  <2> QED
    BY <2>1, <2>2
<1>6. ASSUME NEW w \in Workers, TakeChunk(w)
      PROVE  CarriersWaited'
  <2>1. /\ UNCHANGED <<slot, chunk, fetch>>
        /\ place'[w] # "waiting"
        /\ \A v \in Workers \ {w} : place'[v] = place[v] /\ number'[v] = number[v]
    BY <1>6 DEF TakeChunk, vars, handlerVars, reqVars
  <2> QED
    BY <2>1
<1>7. ASSUME NEW w \in Workers, NEW r \in Requests, SendChunk(w, r)
      PROVE  CarriersWaited'
  <2>1. /\ fetch[r] = "none" /\ fetch' = [fetch EXCEPT ![r] = "waiting"]
        /\ slot' = [slot EXCEPT ![w] = r]
        /\ place[w] = "sending" /\ place' = [place EXCEPT ![w] = "waiting"] /\ number' = number
    BY <1>7 DEF SendChunk, Unused
  <2>2. chunk' = [chunk EXCEPT ![r] = number[w]]
    BY <1>7 DEF SendChunk, UploadChunk, Starts, Smooth
  <2>3. \A v \in Workers \ {w} : place[v] = "waiting" => number[v] # number[w]
    BY <2>1 DEF OwnChunks, Holds
  <2> QED
    BY <2>1, <2>2, <2>3
<1>8. ASSUME NEW w \in Workers, ChunkStored(w)
      PROVE  CarriersWaited'
  <2>1. /\ place' = [place EXCEPT ![w] = "ready"]
        /\ fetch' = [fetch EXCEPT ![slot[w]] = "none"]
        /\ slot' = [slot EXCEPT ![w] = None]
        /\ UNCHANGED <<chunk, number>>
    BY <1>8 DEF ChunkStored, vars, handlerVars, reqVars
  <2> QED
    BY <2>1
<1>9. ASSUME NEW w \in Workers, ChunkRefused(w)
      PROVE  CarriersWaited'
  <2>1. /\ place'[w] # "waiting"
        /\ \A v \in Workers \ {w} : place'[v] = place[v] /\ slot'[v] = slot[v]
        /\ UNCHANGED <<chunk, number>>
    BY <1>9 DEF ChunkRefused, ChunkFailed, vars, handlerVars, reqVars
  <2>2. \A q \in Requests : fetch'[q] \in {fetch[q], "none"}
    BY <1>9 DEF ChunkRefused
  <2> QED
    BY <2>1, <2>2
<1>10. ASSUME NEW w \in Workers, ChunkNotFound(w)
      PROVE  CarriersWaited'
  <2>1. /\ place'[w] # "waiting"
        /\ \A v \in Workers \ {w} : place'[v] = place[v] /\ slot'[v] = slot[v]
        /\ UNCHANGED <<chunk, number>>
    BY <1>10 DEF ChunkNotFound, ChunkFailed, vars, handlerVars, reqVars
  <2>2. \A q \in Requests : fetch'[q] \in {fetch[q], "none"}
    BY <1>10 DEF ChunkNotFound
  <2> QED
    BY <2>1, <2>2
<1>11. ASSUME NEW w \in Workers, ConnectionDrops(w)
      PROVE  CarriersWaited'
  <2>1. /\ place'[w] # "waiting"
        /\ \A v \in Workers \ {w} : place'[v] = place[v] /\ slot'[v] = slot[v]
        /\ UNCHANGED <<chunk, number>>
    BY <1>11 DEF ConnectionDrops, ChunkFailed, vars, handlerVars, reqVars
  <2>2. \A q \in Requests : fetch'[q] \in {fetch[q], "none"}
    BY <1>11 DEF ConnectionDrops
  <2> QED
    BY <2>1, <2>2
<1>12. ASSUME NEW w \in Workers, SignalAborts(w)
      PROVE  CarriersWaited'
  <2>1. /\ place'[w] # "waiting"
        /\ \A v \in Workers \ {w} : place'[v] = place[v] /\ slot'[v] = slot[v]
        /\ UNCHANGED <<chunk, number>>
    BY <1>12 DEF SignalAborts, ChunkFailed, vars, handlerVars, reqVars
  <2>2. \A q \in Requests : fetch'[q] \in {fetch[q], "none"}
    BY <1>12 DEF SignalAborts
  <2> QED
    BY <2>1, <2>2
<1>13. ASSUME NEW r \in Requests, ServerStep(r)
      PROVE  CarriersWaited'
  <2>1. ServesClient(r) /\ (InHandler(r) \/ InStorage(r))
    BY <1>13, ServerServes DEF ServerStep
  <2>2. UNCHANGED <<place, number, slot>>
    BY <2>1 DEF ServesClient, workerVars
  <2>3. ASSUME NEW w \in Workers, place[w] = "waiting", fetch'[slot[w]] = "waiting"
        PROVE  chunk'[slot[w]] = number[w]
    <3>1. fetch[slot[w]] = "waiting" /\ (slot[w] = r => pc'[r] # "idle")
      BY <2>1, <2>3 DEF ServesClient, Answering
    <3> QED
      BY <2>1, <2>3, <3>1 DEF ServesClient, Moves
  <2>4. ASSUME NEW w \in Workers, place[w] = "waiting", fetch'[slot[w]] = "ok"
        PROVE  \A q \in Requests : chunk'[q] # number[w]
    <3>1. number[w] # None
      BY <2>4, HandlersAssumption DEF OwnChunks, Holds
    <3>2. \A q \in Requests : chunk'[q] \in {chunk[q], None}
      BY <2>1 DEF ServesClient, Moves
    <3>3. CASE fetch[slot[w]] = "ok"
      BY <2>4, <3>1, <3>2, <3>3
    <3>4. CASE fetch[slot[w]] # "ok"
      <4>1. slot[w] = r /\ pc'[r] = "idle" /\ fetch[r] = "waiting"
        BY <2>1, <2>4, <3>4 DEF ServesClient
      <4>2. chunk[r] = number[w]
        BY <2>4, <4>1
      <4>3. \A q \in Requests : chunk[q] = number[w] => q = r
        BY <3>1, <4>2 DEF CarriersDiffer
      <4>4. chunk'[r] = None
        BY <2>1, <4>1 DEF ServesClient, Moves
      <4> QED
        BY <3>1, <3>2, <4>3, <4>4
    <3> QED
      BY <3>3, <3>4
  <2> QED
    BY <2>2, <2>3, <2>4
<1>14. ASSUME NEW r \in Requests, BodyEnds(r)
      PROVE  CarriersWaited'
  <2>1. /\ UNCHANGED <<place, number, slot, fetch>> /\ fetch[r] # "waiting"
        /\ chunk' = [chunk EXCEPT ![r] = None]
    BY <1>14 DEF BodyEnds, ShortSource, Replies, Ends, clientVars, workerVars
  <2>2. \A v \in Workers : place[v] = "waiting" => number[v] # None
    BY HandlersAssumption DEF OwnChunks, Holds
  <2> QED
    BY <2>1, <2>2
<1>15. CASE ServerRestarts
  BY <1>15 DEF ServerRestarts, Restart, HandlersDie, Smooth
<1>16. CASE SessionRunsOut
  BY <1>16 DEF SessionRunsOut, Smooth
<1>17. CASE UNCHANGED allVars
  <2>1. UNCHANGED <<place, number, slot, chunk, fetch>>
    BY <1>17 DEF allVars, vars, handlerVars, reqVars, workerVars, clientVars
  <2> QED
    BY <2>1
<1>18. CASE MainLost
  <2>1. UNCHANGED <<place, number, slot, chunk>>
    BY <1>18 DEF MainLost, vars, handlerVars, reqVars, mainVars, workerVars
  <2>2. \A v \in Workers : place[v] = "waiting" => fetch'[slot[v]] \in {fetch[slot[v]], "none"}
    BY <1>18, LosesOne
  <2> QED
    BY <2>1, <2>2
<1> HIDE DEF mainVars, workerVars, clientVars, CarriersWaited, TypeOK,
           ClientTypeOK, WorkersWait, MainWaits
<1> QED BY <1>1, <1>2, <1>3, <1>4, <1>5, <1>6, <1>7, <1>8, <1>9, <1>10, <1>11,
     <1>12, <1>13, <1>14, <1>15, <1>16, <1>17, <1>18
     DEF ClientNext, MainStep, WorkerStep

(***************************************************************************)
(* The main line in step with the session.                                 *)
(***************************************************************************)
LEMMA BusyOnSession ==
  ASSUME TypeOK, SlotsAgree, NEW r \in Requests, pc[r] # "idle"
  PROVE  sess[r] = Session
BY DEF TypeOK, SlotsAgree

(* While the session is opened no other request runs.                      *)
LEMMA AloneWhileOpening ==
  ASSUME TypeOK, SlotsAgree, CreatedAlone, main \in Requests, Opening
  PROVE  /\ \A r \in Requests : r # main => pc[r] = "idle"
         /\ row[Session] = "active" /\ files[Session] = 0
<1>1. "created" \notin answered[Session]
  BY DEF Opening, CreatedAlone
<1>2. sess[main] = Session
  BY DEF Opening, On
<1>3. row[Session] # "none"
  BY <1>2 DEF CreatedAlone, Untouched
<1> QED
  BY <1>1, <1>2, <1>3, BusyOnSession DEF CreatedAlone

(* Unless workers are at work, nobody waits for a chunk's request. *)
LEMMA NobodyWaits ==
  ASSUME WorkersWait, FetchesOwned, PhasesAgree,
         phase # "uploading" \/ AllExited
  PROVE  \A r \in Requests : r # main => fetch[r] = "none"
<1>1. \A w \in Workers : place[w] # "waiting"
  BY DEF PhasesAgree, AllExited
<1>2. \A w \in Workers : slot[w] = None
  BY <1>1 DEF WorkersWait
<1> QED
  BY <1>2 DEF FetchesOwned

(* One chunk's request goes on beside whatever the main line does. *)
LEMMA ReadyKept ==
  ASSUME Smooth, TypeOK, SlotsAgree, Ready, NEW r \in Requests, Moves(r),
         InHandler(r) \/ InStorage(r)
  PROVE  Ready' /\ (pc'[r] = "idle" => pc[r] \in Answering)
<1>1. pc[r] \in Uploading /\ sess[r] = Session
  BY BusyOnSession DEF Moves, Ready, OnlyChunks
<1>2. UploadsOn(r)
  BY <1>1, UploadServed
<1>3. OnlyChunks'
  BY <1>2 DEF Moves, UploadsOn, Ready, OnlyChunks
<1> QED
  BY <1>2, <1>3 DEF UploadsOn, Ready, Usable, Answering

(* A discarded session stays discarded, whatever uploads still run.        *)
LEMMA DiscardedKept ==
  ASSUME Smooth, TypeOK, SlotsAgree, DiscardedFor, NEW r \in Requests, Moves(r),
         InHandler(r) \/ InStorage(r)
  PROVE  DiscardedFor'
<1>1. pc[r] \in Uploading /\ sess[r] = Session
  BY BusyOnSession DEF Moves, DiscardedFor, OnlyChunks
<1>2. UploadsOn(r)
  BY <1>1, UploadServed
<1>3. OnlyChunks'
  BY <1>2 DEF Moves, UploadsOn, DiscardedFor, OnlyChunks
<1> QED
  BY <1>2, <1>3 DEF UploadsOn, DiscardedFor

(* Uploads still running beside the abort leave its session to it.         *)
LEMMA DiscardingBeside ==
  ASSUME Smooth, TypeOK, SlotsAgree, Discarding, UNCHANGED main, main \in Requests,
         NEW r \in Requests, r # main, Moves(r), InHandler(r) \/ InStorage(r)
  PROVE  Discarding'
<1>1. pc[r] \in Uploading /\ sess[r] = Session
  BY BusyOnSession DEF Moves, Discarding
<1>2. UploadsOn(r)
  BY <1>1, UploadServed
<1>3. pc'[main] = pc[main] /\ sess'[main] = sess[main]
  BY DEF Moves
<1>4. \A q \in Requests : q # main => pc'[q] \in Uploading \union {"idle"}
  BY <1>2 DEF Moves, UploadsOn, Discarding
<1>5. DiscardPlaces'
  BY <1>2, <1>3 DEF UploadsOn, Discarding, DiscardPlaces, Usable
<1> QED
  BY <1>2, <1>3, <1>4, <1>5 DEF UploadsOn, Discarding, On

(* The init request, alone with its session, goes on to open it.           *)
LEMMA OpeningServed ==
  ASSUME Smooth, TypeOK, SlotsAgree, CreatedAlone, SettledInv, main \in Requests, Opening,
         UNCHANGED main, NEW r \in Requests, Moves(r), InHandler(r) \/ InStorage(r)
  PROVE  /\ r = main
         /\ pc'[r] # "idle" => Opening'
         /\ pc'[r] = "idle" => Fresh' /\ pc[r] \in Answering
<1>1. r = main /\ \A q \in Requests : q # main => pc[q] = "idle"
  BY AloneWhileOpening DEF Moves
<1>2. RegistersOpen(Session)
  BY DEF SettledInv, Untroubled, Smooth
<1>3. OpensOn(r)
  BY <1>1, <1>2, InitServed DEF Opening
<1>4. pc'[r] # "idle" => Opening'
  BY <1>1, <1>3 DEF OpensOn, Opening
<1>5. ASSUME pc'[r] = "idle" PROVE Fresh' /\ pc[r] \in Answering
  <2>1. /\ pc[r] = "registering"
        /\ "created" \in answered'[Session]
        /\ Usable(Session)' /\ received'[Session] = {}
        /\ UNCHANGED <<row, files>>
    BY <1>3, <1>5 DEF OpensOn, On, Creating
  <2>2. AllIdle' /\ OnlyChunks'
    BY <1>1, <1>5 DEF AllIdle, OnlyChunks, Moves
  <2>3. row[Session] = "active" /\ files[Session] = 0
    BY AloneWhileOpening
  <2> QED
    BY <2>1, <2>2, <2>3 DEF Fresh, Ready, Answering
<1> QED
  BY <1>1, <1>4, <1>5

(* A complete that finds every chunk goes through.                         *)
LEMMA FinalizingServed ==
  ASSUME Smooth, TypeOK, OnePublisher, main \in Requests, Finalizing, AllReceived(Session),
         UNCHANGED main, NEW r \in Requests, Moves(r), InHandler(r) \/ InStorage(r)
  PROVE  /\ r = main
         /\ pc'[r] # "idle" => Finalizing'
         /\ pc'[r] = "idle" => StoredAlone' /\ pc[r] \in Answering
<1>1. r = main
  BY DEF Finalizing, Moves
<1>2. FinalizesOn
  BY <1>1, FinalizeServed DEF Finalizing
<1>3. \A q \in Requests : q # main => pc'[q] = "idle"
  BY <1>1 DEF Moves, Finalizing
<1>4. pc'[r] # "idle" => Finalizing'
  BY <1>1, <1>2, <1>3 DEF FinalizesOn, Finalizing
<1>5. ASSUME pc'[r] = "idle" PROVE StoredAlone' /\ pc[r] \in Answering
  <2>1. /\ pc[r] = "settling" /\ row'[Session] = "completed"
        /\ ~registered'[Session] /\ ~open'[Session]
    BY <1>1, <1>2, <1>5 DEF FinalizesOn, On, Completing
  <2>2. \A q \in Requests : pc'[q] = "idle"
    BY <1>1, <1>3, <1>5
  <2> QED
    BY <2>1, <2>2 DEF StoredAlone, Answering
<1> QED
  BY <1>1, <1>4, <1>5

(* An abort goes through, and the uploads beside it to their ends.         *)
LEMMA DiscardingServed ==
  ASSUME Smooth, TypeOK, SlotsAgree, HandleOnPart, main \in Requests, Discarding,
         UNCHANGED main, NEW r \in Requests, Moves(r), InHandler(r) \/ InStorage(r)
  PROVE  /\ r # main \/ pc'[r] # "idle" => Discarding'
         /\ r = main /\ pc'[r] = "idle" => DiscardedFor' /\ pc[r] \in Answering
<1>1. CASE r # main
  BY <1>1, DiscardingBeside
<1>2. CASE r = main
  <2>1. DiscardsOn
    BY <1>2, AbortServed DEF Discarding
  <2>2. \A q \in Requests : q # main => pc'[q] \in Uploading \union {"idle"}
    BY <1>2 DEF Moves, Discarding
  <2>3. pc'[r] # "idle" => Discarding'
    BY <1>2, <2>1, <2>2 DEF DiscardsOn, Discarding
  <2>4. ASSUME pc'[r] = "idle" PROVE DiscardedFor' /\ pc[r] \in Answering
    <3>1. /\ pc[r] = "cancelling"
          /\ row'[Session] = "cancelled" /\ disk'[Session] = "removed"
          /\ UNCHANGED <<files, registered, open>>
      BY <1>2, <2>1, <2>4 DEF DiscardsOn, On, Aborting
    <3>2. ~open'[Session]
      BY <1>2, <3>1 DEF HandleOnPart, Discarding, DiscardPlaces
    <3>3. OnlyChunks'
      BY <1>2, <2>2, <2>4 DEF OnlyChunks
    <3> QED
      BY <1>2, <3>1, <3>2, <3>3 DEF DiscardedFor, Discarding, DiscardPlaces, Answering
  <2> QED
    BY <1>2, <2>3, <2>4
<1> QED
  BY <1>1, <1>2

(* A handler goes on though nobody waits for its answer any more.          *)
LEMMA FailedServed ==
  ASSUME Smooth, IInv, SettledInv, ClientIInv, FailedWhere, AllAtComplete,
         NEW r \in Requests, Moves(r), InHandler(r) \/ InStorage(r), UNCHANGED <<main, lost>>
  PROVE  FailedWhere'
<1>1. /\ TypeOK /\ SlotsAgree /\ CreatedAlone /\ OnePublisher /\ HandleOnPart
      /\ main # None => main \in Requests
      /\ lost \in Losses
  BY DEF IInv, ClientIInv, ClientTypeOK
<1>2. row[Session] # "none" /\ ~AllIdle /\ ~StoredAlone
  BY <1>1, BusyOnSession DEF Moves, CreatedAlone, Untouched, AllIdle, StoredAlone
<1>3. CASE lost = "none"
  BY <1>1, <1>2, <1>3, DiscardedKept DEF FailedWhere
<1>4. CASE lost = "opening"
  <2>1. main \in Requests /\ Opening
    BY <1>1, <1>2, <1>4 DEF FailedWhere, Fresh
  <2> QED
    BY <1>1, <1>4, <2>1, OpeningServed DEF FailedWhere
<1>5. CASE lost = "completing"
  <2>1. main \in Requests /\ Finalizing
    BY <1>1, <1>2, <1>5 DEF FailedWhere
  <2>2. AllReceived(Session)
    BY <1>5 DEF AllAtComplete, AllReceived
  <2> QED
    BY <1>1, <1>5, <2>1, <2>2, FinalizingServed DEF FailedWhere
<1>6. CASE lost = "aborting"
  <2>1. CASE Ready
    BY <1>1, <1>6, <2>1, ReadyKept DEF FailedWhere
  <2>2. CASE DiscardedFor
    BY <1>1, <1>6, <2>2, DiscardedKept DEF FailedWhere
  <2>3. CASE main # None /\ Discarding
    BY <1>1, <1>6, <2>3, DiscardingServed DEF FailedWhere
  <2> QED
    BY <1>6, <2>1, <2>2, <2>3 DEF FailedWhere
<1> QED
  BY <1>1, <1>3, <1>4, <1>5, <1>6 DEF Losses

(* A step of the server leaves it where the client's phase says.           *)
LEMMA ServerInStep ==
  ASSUME Smooth, IInv, SettledInv, ClientIInv, InStep, AllAtComplete,
         NEW r \in Requests, ServerStep(r)
  PROVE  InStep'
<1>1. /\ ServesClient(r) /\ Moves(r)
      /\ InHandler(r) \/ InStorage(r)
      /\ UNCHANGED <<phase, main, lost>>
  BY ServerServes DEF ServerStep, IInv, ClientIInv, ServesClient, mainVars
<1>2. /\ TypeOK /\ SlotsAgree /\ CreatedAlone /\ OnePublisher /\ HandleOnPart
  BY DEF IInv
<1>3. /\ MainWaits /\ WorkersWait /\ FetchesOwned /\ FetchesServed /\ PhasesAgree
      /\ main # None => main \in Requests
  BY DEF ClientIInv, ClientTypeOK
<1>4. sess[r] = Session /\ pc[r] # "idle"
  BY <1>1, <1>2, BusyOnSession DEF Moves
<1>5. ~overdue'[Session]
  BY <1>1, <1>2, OverdueStays DEF InStep
<1>6. /\ \A q \in Requests : q # r => fetch'[q] = fetch[q] /\ fetch'[q] # "error"
      /\ fetch'[r] = "error" => pc'[r] = "idle" /\ fetch[r] = "waiting" /\ pc[r] \notin Answering
      /\ fetch'[r] \in {fetch[r], "ok", "error"}
      /\ pc'[r] # "idle" \/ fetch[r] # "waiting" => fetch'[r] = fetch[r]
      /\ pc'[r] = "idle" /\ fetch[r] = "waiting" /\ pc[r] \in Answering => fetch'[r] = "ok"
  BY <1>1 DEF ServesClient, InStep
<1>7. phase # "start" /\ phase # "succeeded"
  <2>1. ~Untouched(Session)
    BY <1>4 DEF Untouched
  <2> QED
    BY <1>2, <1>4, <2>1 DEF InStep, CreatedAlone, StoredAlone
<1>8. CASE phase = "opening" /\ fetch[main] = "waiting"
  <2>1. main \in Requests /\ Opening
    BY <1>3, <1>8 DEF MainWaits, InStep
  <2>2. /\ r = main
        /\ pc'[r] # "idle" => Opening'
        /\ pc'[r] = "idle" => Fresh' /\ pc[r] \in Answering
    BY <1>1, <1>2, <2>1, OpeningServed
  <2> QED
    BY <1>1, <1>5, <1>6, <1>8, <2>2 DEF InStep
<1>9. ~(phase = "opening" /\ fetch[main] = "ok")
  BY <1>4 DEF InStep, Fresh, AllIdle
<1>10. CASE phase = "uploading"
  <2>1. Ready' /\ (pc'[r] = "idle" => pc[r] \in Answering)
    BY <1>1, <1>2, <1>10, ReadyKept DEF InStep
  <2> QED
    BY <1>1, <1>5, <1>6, <1>10, <2>1 DEF InStep
<1>11. CASE phase = "completing" /\ fetch[main] = "waiting"
  <2>1. Finalizing /\ main \in Requests
    BY <1>3, <1>11 DEF InStep, MainWaits
  <2>2. AllReceived(Session)
    BY <1>11 DEF AllAtComplete, AllReceived
  <2>3. /\ r = main
        /\ pc'[r] # "idle" => Finalizing'
        /\ pc'[r] = "idle" => StoredAlone' /\ pc[r] \in Answering
    BY <1>1, <1>2, <2>1, <2>2, FinalizingServed
  <2> QED
    BY <1>1, <1>5, <1>6, <1>11, <2>3 DEF InStep
<1>12. ~(phase = "completing" /\ fetch[main] = "ok")
  BY <1>4 DEF InStep, StoredAlone
<1>13. CASE phase = "aborting" /\ fetch[main] = "waiting"
  <2>1. Discarding /\ main \in Requests
    BY <1>3, <1>13 DEF InStep, MainWaits
  <2>2. /\ r # main \/ pc'[r] # "idle" => Discarding'
        /\ r = main /\ pc'[r] = "idle" => DiscardedFor' /\ pc[r] \in Answering
    BY <1>1, <1>2, <2>1, DiscardingServed
  <2>3. r # main => fetch[r] = "none"
    BY <1>3, <1>13, NobodyWaits
  <2>4. \A q \in Requests : fetch'[q] # "error"
    BY <1>6, <2>2, <2>3
  <2>5. r # main \/ pc'[r] # "idle" => fetch'[main] = "waiting"
    BY <1>6, <1>13, <2>1
  <2>6. r = main /\ pc'[r] = "idle" => fetch'[main] = "ok"
    BY <1>6, <1>13, <2>2
  <2> QED
    BY <1>1, <1>5, <1>13, <2>2, <2>4, <2>5, <2>6 DEF InStep
<1>14. CASE phase = "aborting" /\ fetch[main] = "ok"
  <2>1. DiscardedFor' /\ main \in Requests
    BY <1>1, <1>2, <1>3, <1>14, DiscardedKept DEF InStep, MainWaits
  <2>2. fetch[r] # "waiting"
    BY <1>3, <1>14, NobodyWaits
  <2> QED
    BY <1>1, <1>5, <1>6, <1>14, <2>1, <2>2 DEF InStep
<1>15. CASE phase = "failed"
  <2>1. FailedWhere'
    BY <1>1, <1>15, FailedServed DEF InStep
  <2>2. fetch[r] # "waiting"
    BY <1>3, <1>15, NobodyWaits DEF MainWaits
  <2> QED
    BY <1>1, <1>5, <1>6, <1>15, <2>1, <2>2 DEF InStep
<1> QED
  <2>1. phase \in {"opening", "completing", "aborting"} => fetch[main] \in {"waiting", "ok"}
    BY <1>3 DEF MainWaits, InStep, ClientIInv, ClientTypeOK, Fetches
  <2>2. phase \in {"opening", "uploading", "completing", "aborting", "failed"}
    BY <1>7 DEF ClientIInv, ClientTypeOK, Phases
  <2> QED
    BY <1>8, <1>9, <1>10, <1>11, <1>12, <1>13, <1>14, <1>15, <2>1, <2>2

(* A worker at work leaves the session as it is. *)
WorksOn ==
  /\ phase = "uploading" /\ phase' = "uploading"
  /\ \A r \in Requests : fetch'[r] \in {fetch[r], "none"}
  /\ UNCHANGED vars

(* A step of a worker leaves the server as it is.                          *)
LEMMA WorkerWorksOn ==
  ASSUME ClientTypeOK, PhasesAgree, NEW w \in Workers,
         \/ TakeChunk(w) \/ ChunkStored(w) \/ ChunkRefused(w) \/ ChunkNotFound(w)
         \/ ConnectionDrops(w) \/ SignalAborts(w)
  PROVE  WorksOn
<1> USE DEF WorksOn, ClientTypeOK, mainVars
<1>1. CASE TakeChunk(w)
  BY <1>1 DEF TakeChunk
<1>2. CASE ChunkStored(w)
  BY <1>2 DEF ChunkStored, PhasesAgree
<1>3. CASE ChunkRefused(w)
  BY <1>3 DEF ChunkRefused, ChunkFailed, PhasesAgree
<1>4. CASE ChunkNotFound(w)
  BY <1>4 DEF ChunkNotFound, ChunkFailed, PhasesAgree
<1>5. CASE ConnectionDrops(w)
  BY <1>5 DEF ConnectionDrops, ChunkFailed, PhasesAgree
<1>6. CASE SignalAborts(w)
  BY <1>6 DEF SignalAborts, ChunkFailed, PhasesAgree
<1> QED
  BY <1>1, <1>2, <1>3, <1>4, <1>5, <1>6

(* Nothing of the session moves, only a chunk's request if anything. *)
LEMMA InStepStill ==
  ASSUME InStep, MainWaits, ClientTypeOK, UNCHANGED <<phase, main, lost, fetch>>,
         UNCHANGED <<row, overdue, files, answered, registered, open, received, disk>>,
         \A r \in Requests :
           \/ pc'[r] = pc[r] /\ sess'[r] = sess[r]
           \/ pc[r] \in Uploading /\ pc'[r] \in Uploading \union {"idle"}
  PROVE  InStep'
<1>1. Ready => Ready'
  BY DEF Ready, Usable, OnlyChunks
<1>10. AllIdle => AllIdle'
  BY DEF AllIdle, Uploading
<1>2. StoredAlone => StoredAlone'
  BY DEF StoredAlone, Uploading
<1>3. DiscardedFor => DiscardedFor'
  BY DEF DiscardedFor, OnlyChunks
<1>4. ASSUME main \in Requests, Opening
      PROVE  Opening'
  <2>1. pc'[main] = pc[main] /\ sess'[main] = sess[main]
    BY <1>4 DEF Opening, On, Creating, Uploading
  <2> QED
    BY <1>4, <2>1 DEF Opening, On
<1>5. ASSUME main \in Requests, Finalizing
      PROVE  Finalizing'
  <2>1. pc'[main] = pc[main] /\ sess'[main] = sess[main]
    BY <1>5 DEF Finalizing, On, Completing, Uploading
  <2>2. \A r \in Requests : r # main => pc'[r] = "idle"
    BY <1>5 DEF Finalizing, Uploading
  <2>3. FinalPlaces'
    BY <1>5, <2>1 DEF Finalizing, FinalPlaces, Usable
  <2> QED
    BY <1>5, <2>1, <2>2, <2>3 DEF Finalizing, On
<1>6. ASSUME main \in Requests, Discarding
      PROVE  Discarding'
  <2>1. pc'[main] = pc[main] /\ sess'[main] = sess[main]
    BY <1>6 DEF Discarding, On, Aborting, Uploading
  <2>2. \A r \in Requests : r # main => pc'[r] \in Uploading \union {"idle"}
    BY <1>6 DEF Discarding
  <2>3. DiscardPlaces'
    BY <1>6, <2>1 DEF Discarding, DiscardPlaces, Usable
  <2> QED
    BY <1>6, <2>1, <2>2, <2>3 DEF Discarding, On
<1>7. /\ phase \in {"opening", "completing", "aborting"} => main \in Requests
      /\ main # None => main \in Requests
  BY DEF MainWaits, ClientTypeOK
<1>8. Fresh => Fresh'
  BY <1>10, <1>1 DEF Fresh
<1>9. FailedWhere => FailedWhere'
  <2>1. lost \in Losses
    BY DEF ClientTypeOK
  <2>2. ASSUME FailedWhere, lost = "none" PROVE FailedWhere'
    BY <1>3, <2>2 DEF FailedWhere
  <2>3. ASSUME FailedWhere, lost = "opening" PROVE FailedWhere'
    BY <1>4, <1>7, <1>8, <2>3 DEF FailedWhere
  <2>4. ASSUME FailedWhere, lost = "completing" PROVE FailedWhere'
    BY <1>10, <1>1, <1>2, <1>5, <1>7, <2>4 DEF FailedWhere
  <2>5. ASSUME FailedWhere, lost = "aborting" PROVE FailedWhere'
    BY <1>1, <1>3, <1>6, <1>7, <2>5 DEF FailedWhere
  <2> QED
    BY <2>1, <2>2, <2>3, <2>4, <2>5 DEF Losses
<1> QED
  BY <1>1, <1>2, <1>3, <1>4, <1>5, <1>6, <1>7, <1>8, <1>9 DEF InStep

(* Workers that have exited uncancelled have left no request behind.       *)
LEMMA IdleWhenExited ==
  ASSUME OneCarrier, SlotsAgree, Ready, AllExited, ~cancelled
  PROVE  AllIdle
<1>1. \A q \in Requests : chunk[q] = None
  BY DEF OneCarrier, CarriersHeld, AllExited, Holds
<1> QED
  BY <1>1, HandlersAssumption DEF AllIdle, Ready, OnlyChunks, Uploading, SlotsAgree, Copying

(* The main line and the session go on together.                           *)
LEMMA InStepStep ==
  ASSUME Smooth,
         IInv,
         SettledInv,
         ClientIInv,
         OneCarrier,
         InStep,
         AllAtComplete,
         [ClientNext]_allVars
  PROVE  InStep'
<1>1. ASSUME NEW r \in Requests, OpenSession(r)
      PROVE  InStep'
  <2>1. /\ phase' = "opening" /\ main' = r /\ UNCHANGED overdue
        /\ fetch' = [fetch EXCEPT ![r] = "waiting"]
        /\ pc' = [pc EXCEPT ![r] = "init_call"]
        /\ sess' = [sess EXCEPT ![r] = Session]
    BY <1>1 DEF OpenSession, MainSends, CreateSession, Starts
  <2>2. fetch'[r] = "waiting" /\ pc'[r] = "init_call" /\ sess'[r] = Session
    BY <2>1 DEF IInv, TypeOK, ClientIInv, ClientTypeOK
  <2>3. Opening'
    BY <2>1, <2>2 DEF Opening, On, Creating
  <2>4. \A q \in Requests : fetch'[q] # "error"
    BY <2>1 DEF InStep, ClientIInv, ClientTypeOK
  <2> QED
    BY <2>1, <2>2, <2>3, <2>4 DEF InStep
<1>2. ASSUME NEW r \in Requests, Complete(r)
      PROVE  InStep'
  <2>1. /\ phase = "uploading" /\ AllExited /\ ~cancelled
        /\ phase' = "completing" /\ main' = r
        /\ UNCHANGED <<row, overdue, files, answered, registered, open, disk>>
        /\ fetch' = [fetch EXCEPT ![r] = "waiting"]
        /\ pc' = [pc EXCEPT ![r] = "finalize_call"]
        /\ sess' = [sess EXCEPT ![r] = Session]
    BY <1>2 DEF Complete, MainSends, CompleteChunkedUpload, Starts, tableVars, storageVars
  <2>2. fetch'[r] = "waiting" /\ pc'[r] = "finalize_call" /\ sess'[r] = Session
    BY <2>1 DEF IInv, TypeOK, ClientIInv, ClientTypeOK
  <2>3. Ready
    BY <2>1 DEF InStep
  <2>4. \A q \in Requests : pc[q] = "idle"
    BY <2>1, <2>3, IdleWhenExited DEF AllIdle, IInv
  <2>5. \A q \in Requests : q # r => pc'[q] = "idle"
    BY <2>1, <2>4
  <2>6. Finalizing'
    BY <2>1, <2>2, <2>3, <2>5 DEF Finalizing, FinalPlaces, On, Completing, Ready, Usable
  <2>7. \A q \in Requests : fetch'[q] # "error"
    BY <2>1 DEF InStep, ClientIInv, ClientTypeOK
  <2> QED
    BY <2>1, <2>2, <2>6, <2>7 DEF InStep
<1>3. ASSUME NEW r \in Requests, Abort(r)
      PROVE  InStep'
  <2>1. /\ phase = "uploading"
        /\ phase' = "aborting" /\ main' = r
        /\ UNCHANGED <<row, overdue, files, answered, registered, open, disk>>
        /\ fetch' = [fetch EXCEPT ![r] = "waiting"]
        /\ pc' = [pc EXCEPT ![r] = "abort_call"]
        /\ sess' = [sess EXCEPT ![r] = Session]
    BY <1>3 DEF Abort, MainSends, AbortChunkedUpload, Starts, tableVars, storageVars
  <2>2. fetch'[r] = "waiting" /\ pc'[r] = "abort_call" /\ sess'[r] = Session
    BY <2>1 DEF IInv, TypeOK, ClientIInv, ClientTypeOK
  <2>3. Ready
    BY <2>1 DEF InStep
  <2>4. \A q \in Requests : q # r => pc'[q] \in Uploading \union {"idle"}
    BY <2>1, <2>3 DEF Ready, OnlyChunks
  <2>5. Discarding'
    BY <2>1, <2>2, <2>3, <2>4 DEF Discarding, DiscardPlaces, On, Aborting, Ready, Usable
  <2>6. \A q \in Requests : fetch'[q] # "error"
    BY <2>1 DEF InStep, ClientIInv, ClientTypeOK
  <2> QED
    BY <2>1, <2>2, <2>5, <2>6 DEF InStep
<1>4. CASE MainRefused
  <2>1. phase = "start" /\ row[Session] = "none"
    BY <1>4 DEF MainRefused, NotFound, LoadActiveSession, InStep, Ready
  <2>2. phase' = "failed" /\ lost' = "none" /\ UNCHANGED <<row, overdue, fetch>>
    BY <1>4, <2>1 DEF MainRefused, ClientIInv, PhasesAgree, vars, handlerVars, tableVars
  <2> QED
    BY <2>1, <2>2 DEF InStep, FailedWhere
<1>5. CASE MainAnswered
  <2>1. /\ main # None /\ fetch[main] = "ok"
        /\ phase' = PhaseAfter("ok") /\ main' = None
        /\ fetch' = [fetch EXCEPT ![main] = "none"]
        /\ UNCHANGED vars
    BY <1>5 DEF MainAnswered, InStep, ClientIInv, ClientTypeOK
  <2>2. ~overdue'[Session] /\ \A q \in Requests : fetch'[q] # "error"
    BY <2>1 DEF InStep, ClientIInv, ClientTypeOK, vars, handlerVars, tableVars
  <2>3. (Ready => Ready') /\ (StoredAlone => StoredAlone') /\ (DiscardedFor => DiscardedFor')
    BY <2>1 DEF vars, handlerVars, tableVars, reqVars, storageVars, Ready, StoredAlone, DiscardedFor,
       Usable, OnlyChunks
  <2>4. \/ phase = "opening" /\ phase' = "uploading"
        \/ phase = "completing" /\ phase' = "succeeded"
        \/ phase = "aborting" /\ phase' = "failed"
    BY <2>1 DEF PhaseAfter, ClientIInv, MainWaits
  <2>5. lost' = "none"
    BY <1>5, <2>4 DEF MainAnswered, ClientIInv, PhasesAgree
  <2> QED
    BY <2>1, <2>2, <2>3, <2>4, <2>5 DEF InStep, Fresh, FailedWhere
<1>6. ASSUME NEW w \in Workers, TakeChunk(w)
      PROVE  InStep'
  <2>1. WorksOn
    BY <1>6, WorkerWorksOn DEF ClientIInv
  <2>2. Ready'
    BY <2>1 DEF WorksOn, InStep, Ready, Usable, OnlyChunks, vars, handlerVars, tableVars,
       reqVars, storageVars
  <2>3. ~overdue'[Session] /\ \A r \in Requests : fetch'[r] # "error"
    BY <2>1 DEF WorksOn, InStep, vars, handlerVars, tableVars
  <2> QED
    BY <2>1, <2>2, <2>3 DEF WorksOn, InStep
<1>7. ASSUME NEW w \in Workers, NEW r \in Requests, SendChunk(w, r)
      PROVE  InStep'
  <2>1. /\ UNCHANGED <<row, overdue, files, answered, registered, open, disk, phase, main>>
        /\ fetch' = [fetch EXCEPT ![r] = "waiting"]
        /\ place[w] = "sending"
    BY <1>7 DEF SendChunk, UploadChunk, tableVars, storageVars, mainVars
  <2>2. pc' = [pc EXCEPT ![r] = "chunk_call"]
    BY <1>7 DEF SendChunk, UploadChunk, Starts, InStep
  <2>3. phase = "uploading"
    BY <2>1 DEF ClientIInv, PhasesAgree
  <2>4. Ready'
    BY <2>1, <2>2, <2>3 DEF InStep, Ready, Usable, OnlyChunks, Uploading
  <2>5. \A q \in Requests : fetch'[q] # "error"
    BY <2>1 DEF InStep, ClientIInv, ClientTypeOK
  <2> QED
    BY <2>1, <2>3, <2>4, <2>5 DEF InStep
<1>8. ASSUME NEW w \in Workers, ChunkStored(w)
      PROVE  InStep'
  <2>1. WorksOn
    BY <1>8, WorkerWorksOn DEF ClientIInv
  <2>2. Ready'
    BY <2>1 DEF WorksOn, InStep, Ready, Usable, OnlyChunks, vars, handlerVars, tableVars,
       reqVars, storageVars
  <2>3. ~overdue'[Session] /\ \A r \in Requests : fetch'[r] # "error"
    BY <2>1 DEF WorksOn, InStep, vars, handlerVars, tableVars
  <2> QED
    BY <2>1, <2>2, <2>3 DEF WorksOn, InStep
<1>9. ASSUME NEW w \in Workers, ChunkRefused(w)
      PROVE  InStep'
  <2>1. WorksOn
    BY <1>9, WorkerWorksOn DEF ClientIInv
  <2>2. Ready'
    BY <2>1 DEF WorksOn, InStep, Ready, Usable, OnlyChunks, vars, handlerVars, tableVars,
       reqVars, storageVars
  <2>3. ~overdue'[Session] /\ \A r \in Requests : fetch'[r] # "error"
    BY <2>1 DEF WorksOn, InStep, vars, handlerVars, tableVars
  <2> QED
    BY <2>1, <2>2, <2>3 DEF WorksOn, InStep
<1>10. ASSUME NEW w \in Workers, ChunkNotFound(w)
      PROVE  InStep'
  <2>1. WorksOn
    BY <1>10, WorkerWorksOn DEF ClientIInv
  <2>2. Ready'
    BY <2>1 DEF WorksOn, InStep, Ready, Usable, OnlyChunks, vars, handlerVars, tableVars,
       reqVars, storageVars
  <2>3. ~overdue'[Session] /\ \A r \in Requests : fetch'[r] # "error"
    BY <2>1 DEF WorksOn, InStep, vars, handlerVars, tableVars
  <2> QED
    BY <2>1, <2>2, <2>3 DEF WorksOn, InStep
<1>11. ASSUME NEW w \in Workers, ConnectionDrops(w)
      PROVE  InStep'
  <2>1. WorksOn
    BY <1>11, WorkerWorksOn DEF ClientIInv
  <2>2. Ready'
    BY <2>1 DEF WorksOn, InStep, Ready, Usable, OnlyChunks, vars, handlerVars, tableVars,
       reqVars, storageVars
  <2>3. ~overdue'[Session] /\ \A r \in Requests : fetch'[r] # "error"
    BY <2>1 DEF WorksOn, InStep, vars, handlerVars, tableVars
  <2> QED
    BY <2>1, <2>2, <2>3 DEF WorksOn, InStep
<1>12. ASSUME NEW w \in Workers, SignalAborts(w)
      PROVE  InStep'
  <2>1. WorksOn
    BY <1>12, WorkerWorksOn DEF ClientIInv
  <2>2. Ready'
    BY <2>1 DEF WorksOn, InStep, Ready, Usable, OnlyChunks, vars, handlerVars, tableVars,
       reqVars, storageVars
  <2>3. ~overdue'[Session] /\ \A r \in Requests : fetch'[r] # "error"
    BY <2>1 DEF WorksOn, InStep, vars, handlerVars, tableVars
  <2> QED
    BY <2>1, <2>2, <2>3 DEF WorksOn, InStep
<1>13. ASSUME NEW r \in Requests, ServerStep(r)
      PROVE  InStep'
  BY <1>13, ServerInStep
<1>14. ASSUME NEW r \in Requests, BodyEnds(r)
      PROVE  InStep'
  <2>1. /\ UNCHANGED <<phase, main, lost, fetch>>
        /\ UNCHANGED <<row, overdue, files, answered, registered, open, received, disk>>
    BY <1>14 DEF BodyEnds, ShortSource, Replies, tableVars, clientVars, mainVars
  <2>2. \A q \in Requests :
          \/ pc'[q] = pc[q] /\ sess'[q] = sess[q]
          \/ pc[q] \in Uploading /\ pc'[q] \in Uploading \union {"idle"}
    BY <1>14 DEF BodyEnds, ShortSource, Replies, Ends, Uploading, IInv, TypeOK
  <2> QED
    BY <2>1, <2>2, InStepStill DEF ClientIInv
<1>15. CASE ServerRestarts
  BY <1>15 DEF ServerRestarts, Restart, HandlersDie, Smooth
<1>16. CASE SessionRunsOut
  BY <1>16 DEF SessionRunsOut, Smooth
<1>17. CASE UNCHANGED allVars
  <2>1. /\ UNCHANGED <<phase, main, lost, fetch>>
        /\ UNCHANGED <<row, overdue, files, answered, registered, open, received, disk>>
    BY <1>17 DEF allVars, vars, handlerVars, tableVars, storageVars, clientVars, mainVars
  <2>2. \A q \in Requests :
          \/ pc'[q] = pc[q] /\ sess'[q] = sess[q]
          \/ pc[q] \in Uploading /\ pc'[q] \in Uploading \union {"idle"}
    BY <1>17 DEF allVars, vars, handlerVars, reqVars
  <2> QED
    BY <2>1, <2>2, InStepStill DEF ClientIInv
<1>18. CASE MainLost
  <2>1. /\ phase' = "failed" /\ lost' \in Losses
        /\ phase \in {"start", "opening", "uploading", "completing", "aborting"}
        /\ \A q \in Requests : fetch'[q] \in {fetch[q], "none"}
        /\ UNCHANGED <<vars, main, row, overdue>>
    BY <1>18, LosesOne DEF ClientIInv, ClientTypeOK, Phases, vars, handlerVars, tableVars
  <2>2. /\ Ready => Ready'
        /\ AllIdle => AllIdle'
        /\ Fresh => Fresh'
        /\ StoredAlone => StoredAlone'
        /\ DiscardedFor => DiscardedFor'
    BY <2>1 DEF vars, handlerVars, tableVars, reqVars, storageVars, Ready, AllIdle, Fresh,
       StoredAlone, DiscardedFor, Usable, OnlyChunks
  <2>3. /\ Opening => Opening'
        /\ Finalizing => Finalizing'
        /\ Discarding => Discarding'
    BY <2>1 DEF vars, handlerVars, tableVars, reqVars, storageVars, Opening, Finalizing,
       FinalPlaces, Discarding, DiscardPlaces, Usable, On
  <2>4. phase \in {"opening", "completing", "aborting"} =>
          main # None /\ fetch[main] \in {"waiting", "ok"}
    BY DEF MainWaits, InStep, ClientIInv, ClientTypeOK, Fetches
  <2>5. FailedWhere'
    <3>1. CASE phase \in {"start", "opening"}
      <4>1. lost' = "opening"
        BY <1>18, <3>1, LosesOne DEF ClientIInv
      <4> QED
        BY <2>1, <2>2, <2>3, <2>4, <3>1, <4>1 DEF InStep, FailedWhere
    <3>2. CASE phase = "completing"
      <4>1. lost' = "completing"
        BY <1>18, <3>2, LosesOne DEF ClientIInv
      <4> QED
        BY <2>1, <2>2, <2>3, <2>4, <3>2, <4>1 DEF InStep, FailedWhere
    <3>3. CASE phase = "uploading" /\ ~cancelled
      <4>1. lost' = "completing" /\ AllExited /\ Ready
        BY <1>18, <3>3, LosesOne DEF ClientIInv, InStep
      <4>2. AllIdle
        BY <3>3, <4>1, IdleWhenExited DEF IInv
      <4> QED
        BY <2>2, <4>1, <4>2 DEF FailedWhere
    <3>4. CASE phase = "aborting"
      <4>1. lost' = "aborting"
        BY <1>18, <3>4, LosesOne DEF ClientIInv
      <4> QED
        BY <2>1, <2>2, <2>3, <2>4, <3>4, <4>1 DEF InStep, FailedWhere
    <3>5. CASE phase = "uploading" /\ cancelled
      <4>1. lost' = "aborting" /\ Ready
        BY <1>18, <3>5, LosesOne DEF ClientIInv, InStep
      <4> QED
        BY <2>2, <4>1 DEF FailedWhere
    <3> QED
      BY <2>1, <3>1, <3>2, <3>3, <3>4, <3>5
  <2> QED
    BY <2>1, <2>5 DEF InStep
<1> QED BY <1>1, <1>2, <1>3, <1>4, <1>5, <1>6, <1>7, <1>8, <1>9, <1>10, <1>11,
     <1>12, <1>13, <1>14, <1>15, <1>16, <1>17, <1>18
     DEF ClientNext, MainStep, WorkerStep

(***************************************************************************)
(* No chunk is lost between the shared counter and the received set.       *)
(***************************************************************************)
(* A chunk once received stays so.                                         *)
LEMMA ReceivedKept ==
  ASSUME Smooth,
         TypeOK,
         CreatedAlone,
         [ClientNext]_allVars
  PROVE  received[Session] \subseteq received'[Session]
<1>1. ASSUME NEW r \in Requests, OpenSession(r)
      PROVE  received[Session] \subseteq received'[Session]
  <2>1. UNCHANGED received
    BY <1>1 DEF OpenSession, MainSends, vars, storageVars
  <2> QED
    BY <2>1
<1>2. ASSUME NEW r \in Requests, Complete(r)
      PROVE  received[Session] \subseteq received'[Session]
  <2>1. UNCHANGED received
    BY <1>2 DEF Complete, MainSends, vars, storageVars
  <2> QED
    BY <2>1
<1>3. ASSUME NEW r \in Requests, Abort(r)
      PROVE  received[Session] \subseteq received'[Session]
  <2>1. UNCHANGED received
    BY <1>3 DEF Abort, MainSends, vars, storageVars
  <2> QED
    BY <2>1
<1>4. CASE MainRefused
  <2>1. UNCHANGED received
    BY <1>4 DEF MainRefused, vars, storageVars
  <2> QED
    BY <2>1
<1>5. CASE MainAnswered
  <2>1. UNCHANGED received
    BY <1>5 DEF MainAnswered, vars, storageVars
  <2> QED
    BY <2>1
<1>6. ASSUME NEW w \in Workers, TakeChunk(w)
      PROVE  received[Session] \subseteq received'[Session]
  <2>1. UNCHANGED received
    BY <1>6 DEF TakeChunk, vars, storageVars
  <2> QED
    BY <2>1
<1>7. ASSUME NEW w \in Workers, NEW r \in Requests, SendChunk(w, r)
      PROVE  received[Session] \subseteq received'[Session]
  <2>1. UNCHANGED received
    BY <1>7 DEF SendChunk, vars, storageVars
  <2> QED
    BY <2>1
<1>8. ASSUME NEW w \in Workers, ChunkStored(w)
      PROVE  received[Session] \subseteq received'[Session]
  <2>1. UNCHANGED received
    BY <1>8 DEF ChunkStored, vars, storageVars
  <2> QED
    BY <2>1
<1>9. ASSUME NEW w \in Workers, ChunkRefused(w)
      PROVE  received[Session] \subseteq received'[Session]
  <2>1. UNCHANGED received
    BY <1>9 DEF ChunkRefused, ChunkFailed, vars, storageVars
  <2> QED
    BY <2>1
<1>10. ASSUME NEW w \in Workers, ChunkNotFound(w)
      PROVE  received[Session] \subseteq received'[Session]
  <2>1. UNCHANGED received
    BY <1>10 DEF ChunkNotFound, ChunkFailed, vars, storageVars
  <2> QED
    BY <2>1
<1>11. ASSUME NEW w \in Workers, ConnectionDrops(w)
      PROVE  received[Session] \subseteq received'[Session]
  <2>1. UNCHANGED received
    BY <1>11 DEF ConnectionDrops, ChunkFailed, vars, storageVars
  <2> QED
    BY <2>1
<1>12. ASSUME NEW w \in Workers, SignalAborts(w)
      PROVE  received[Session] \subseteq received'[Session]
  <2>1. UNCHANGED received
    BY <1>12 DEF SignalAborts, ChunkFailed, vars, storageVars
  <2> QED
    BY <2>1
<1>13. ASSUME NEW r \in Requests, ServerStep(r)
      PROVE  received[Session] \subseteq received'[Session]
  BY <1>13, ReceivedGrows DEF ServerStep
<1>14. ASSUME NEW r \in Requests, BodyEnds(r)
      PROVE  received[Session] \subseteq received'[Session]
  <2>1. UNCHANGED received
    BY <1>14 DEF BodyEnds, ShortSource
  <2> QED
    BY <2>1
<1>15. CASE ServerRestarts
  BY <1>15 DEF ServerRestarts, Restart, HandlersDie, Smooth
<1>16. CASE SessionRunsOut
  BY <1>16 DEF SessionRunsOut, Smooth
<1>17. CASE UNCHANGED allVars
  <2>1. UNCHANGED received
    BY <1>17 DEF allVars, vars, storageVars
  <2> QED
    BY <2>1
<1>18. CASE MainLost
  <2>1. UNCHANGED received
    BY <1>18 DEF MainLost, vars, storageVars
  <2> QED
    BY <2>1
<1> QED BY <1>1, <1>2, <1>3, <1>4, <1>5, <1>6, <1>7, <1>8, <1>9, <1>10, <1>11,
     <1>12, <1>13, <1>14, <1>15, <1>16, <1>17, <1>18
     DEF ClientNext, MainStep, WorkerStep

IsHeld(i) == \E w \in Workers : Holds(w) /\ number[w] = i

(* What the counter gives out is in a worker's hands.                      *)
LEMMA NewlyGiven ==
  ASSUME ClientTypeOK,
         NEW i \in Chunks,
         i < nextChunk',
         ~(i < nextChunk),
         [ClientNext]_allVars
  PROVE  IsHeld(i)'
<1>1. ASSUME NEW r \in Requests, OpenSession(r)
      PROVE  IsHeld(i)'
  <2>1. UNCHANGED nextChunk
    BY <1>1 DEF OpenSession, MainSends, workerVars, clientVars
  <2> QED
    BY <2>1
<1>2. ASSUME NEW r \in Requests, Complete(r)
      PROVE  IsHeld(i)'
  <2>1. UNCHANGED nextChunk
    BY <1>2 DEF Complete, MainSends, workerVars, clientVars
  <2> QED
    BY <2>1
<1>3. ASSUME NEW r \in Requests, Abort(r)
      PROVE  IsHeld(i)'
  <2>1. UNCHANGED nextChunk
    BY <1>3 DEF Abort, MainSends, workerVars, clientVars
  <2> QED
    BY <2>1
<1>4. CASE MainRefused
  <2>1. UNCHANGED nextChunk
    BY <1>4 DEF MainRefused, workerVars, clientVars
  <2> QED
    BY <2>1
<1>5. CASE MainAnswered
  <2>1. UNCHANGED nextChunk
    BY <1>5 DEF MainAnswered, workerVars, clientVars
  <2> QED
    BY <2>1
<1>6. ASSUME NEW w \in Workers, TakeChunk(w)
      PROVE  IsHeld(i)'
  <2>1. nextChunk \in Nat /\ nextChunk' \in {nextChunk, nextChunk + 1}
    BY <1>6 DEF TakeChunk, ClientTypeOK
  <2>2. i \in Nat
    BY Constants
  <2>3. i = nextChunk /\ nextChunk' # nextChunk
    BY <2>1, <2>2
  <2>4. ~cancelled
    BY <1>6, <2>3 DEF TakeChunk
  <2>5. /\ place' = [place EXCEPT ![w] = "sending"]
        /\ number' = [number EXCEPT ![w] = nextChunk]
    BY <1>6, <2>3, <2>4 DEF TakeChunk
  <2>6. place'[w] = "sending" /\ number'[w] = i
    BY <2>3, <2>5 DEF ClientTypeOK
  <2> QED
    BY <2>6 DEF Holds, IsHeld
<1>7. ASSUME NEW w \in Workers, NEW r \in Requests, SendChunk(w, r)
      PROVE  IsHeld(i)'
  <2>1. UNCHANGED nextChunk
    BY <1>7 DEF SendChunk, workerVars, clientVars
  <2> QED
    BY <2>1
<1>8. ASSUME NEW w \in Workers, ChunkStored(w)
      PROVE  IsHeld(i)'
  <2>1. UNCHANGED nextChunk
    BY <1>8 DEF ChunkStored, workerVars, clientVars
  <2> QED
    BY <2>1
<1>9. ASSUME NEW w \in Workers, ChunkRefused(w)
      PROVE  IsHeld(i)'
  <2>1. UNCHANGED nextChunk
    BY <1>9 DEF ChunkRefused, ChunkFailed, workerVars, clientVars
  <2> QED
    BY <2>1
<1>10. ASSUME NEW w \in Workers, ChunkNotFound(w)
      PROVE  IsHeld(i)'
  <2>1. UNCHANGED nextChunk
    BY <1>10 DEF ChunkNotFound, ChunkFailed, workerVars, clientVars
  <2> QED
    BY <2>1
<1>11. ASSUME NEW w \in Workers, ConnectionDrops(w)
      PROVE  IsHeld(i)'
  <2>1. UNCHANGED nextChunk
    BY <1>11 DEF ConnectionDrops, ChunkFailed, workerVars, clientVars
  <2> QED
    BY <2>1
<1>12. ASSUME NEW w \in Workers, SignalAborts(w)
      PROVE  IsHeld(i)'
  <2>1. UNCHANGED nextChunk
    BY <1>12 DEF SignalAborts, ChunkFailed, workerVars, clientVars
  <2> QED
    BY <2>1
<1>13. ASSUME NEW r \in Requests, ServerStep(r)
      PROVE  IsHeld(i)'
  <2>1. UNCHANGED nextChunk
    BY <1>13 DEF ServerStep, workerVars, clientVars
  <2> QED
    BY <2>1
<1>14. ASSUME NEW r \in Requests, BodyEnds(r)
      PROVE  IsHeld(i)'
  <2>1. UNCHANGED nextChunk
    BY <1>14 DEF BodyEnds, workerVars, clientVars
  <2> QED
    BY <2>1
<1>15. CASE ServerRestarts
  <2>1. UNCHANGED nextChunk
    BY <1>15 DEF ServerRestarts, workerVars, clientVars
  <2> QED
    BY <2>1
<1>16. CASE SessionRunsOut
  <2>1. UNCHANGED nextChunk
    BY <1>16 DEF SessionRunsOut, workerVars, clientVars
  <2> QED
    BY <2>1
<1>17. CASE UNCHANGED allVars
  <2>1. UNCHANGED nextChunk
    BY <1>17 DEF allVars, workerVars, clientVars
  <2> QED
    BY <2>1
<1>18. CASE MainLost
  <2>1. UNCHANGED nextChunk
    BY <1>18 DEF MainLost, workerVars, clientVars
  <2> QED
    BY <2>1
<1> QED BY <1>1, <1>2, <1>3, <1>4, <1>5, <1>6, <1>7, <1>8, <1>9, <1>10, <1>11,
     <1>12, <1>13, <1>14, <1>15, <1>16, <1>17, <1>18
     DEF ClientNext, MainStep, WorkerStep

(* A chunk taken is received, or in the hand of a worker.                  *)
LEMMA GivenOutStep ==
  ASSUME Smooth, TypeOK, CreatedAlone, ClientTypeOK, GivenOut, OkIsReceived, [ClientNext]_allVars
  PROVE  GivenOut'
<1> SUFFICES ASSUME ~cancelled', NEW i \in Chunks, i < nextChunk',
                    i \notin received'[Session]
             PROVE  IsHeld(i)'
  BY DEF GivenOut, IsHeld
<1>1. received[Session] \subseteq received'[Session] /\ ~cancelled
  BY ReceivedKept, StaysCancelled
<1>2. CASE i < nextChunk
  <2>1. PICK w \in Workers : Holds(w) /\ number[w] = i
    BY <1>1, <1>2 DEF GivenOut
  <2>2. KeepsHold(w)
    BY <2>1, HoldsKept
  <2> QED
    BY <1>1, <2>1, <2>2 DEF KeepsHold, OkIsReceived, IsHeld
<1>3. CASE ~(i < nextChunk)
  BY <1>3, NewlyGiven
<1> QED
  BY <1>2, <1>3

(* A counter that is past the chunks stays past them.                      *)
LEMMA CounterPast ==
  ASSUME NEW n \in Nat, n \notin Chunks
  PROVE  n + 1 \notin Chunks /\ \A i \in Chunks : i < n
<1>1. Cardinality(Chunks) \in Nat
  BY ClientAssumption, HandlersAssumption, FS_CardinalityType
<1>2. Chunks = 0..(Cardinality(Chunks) - 1)
  BY ClientAssumption
<1> DEFINE C == Cardinality(Chunks)
<1>3. C \in Nat /\ n \notin 0..(C - 1)
  BY <1>1, <1>2
<1> HIDE DEF C
<1>4. n + 1 \notin 0..(C - 1) /\ \A i \in 0..(C - 1) : i < n
  BY <1>3
<1> QED
  BY <1>2, <1>4 DEF C

(* A worker exits when no chunk is left to give out.                       *)
LEMMA ExitsLastStep ==
  ASSUME Smooth,
         ClientTypeOK,
         ExitsLast,
         [ClientNext]_allVars
  PROVE  ExitsLast'
<1> USE DEF ExitsLast
<1>1. ASSUME NEW r \in Requests, OpenSession(r)
      PROVE  ExitsLast'
  <2>1. UNCHANGED <<nextChunk, place, cancelled>>
    BY <1>1 DEF OpenSession, MainSends, mainVars, workerVars, clientVars
  <2> QED
    BY <2>1
<1>2. ASSUME NEW r \in Requests, Complete(r)
      PROVE  ExitsLast'
  <2>1. UNCHANGED <<nextChunk, place, cancelled>>
    BY <1>2 DEF Complete, MainSends, mainVars, workerVars, clientVars
  <2> QED
    BY <2>1
<1>3. ASSUME NEW r \in Requests, Abort(r)
      PROVE  ExitsLast'
  <2>1. UNCHANGED <<nextChunk, place, cancelled>>
    BY <1>3 DEF Abort, MainSends, mainVars, workerVars, clientVars
  <2> QED
    BY <2>1
<1>4. CASE MainRefused
  <2>1. UNCHANGED <<nextChunk, place, cancelled>>
    BY <1>4 DEF MainRefused, mainVars, workerVars, clientVars
  <2> QED
    BY <2>1
<1>5. CASE MainAnswered
  <2>1. UNCHANGED <<nextChunk, place, cancelled>>
    BY <1>5 DEF MainAnswered, mainVars, workerVars, clientVars
  <2> QED
    BY <2>1
<1>6. ASSUME NEW w \in Workers, TakeChunk(w)
      PROVE  ExitsLast'
  <2>1. nextChunk \in Nat /\ nextChunk' \in {nextChunk, nextChunk + 1} /\ UNCHANGED cancelled
    BY <1>6 DEF TakeChunk, ClientTypeOK
  <2>2. nextChunk \notin Chunks => nextChunk' \notin Chunks
    BY <2>1, CounterPast
  <2>3. \A v \in Workers :
          place'[v] = "exited" /\ ~cancelled => place[v] = "exited" \/ nextChunk \notin Chunks
    BY <1>6 DEF TakeChunk, ClientTypeOK
  <2> QED
    BY <2>1, <2>2, <2>3
<1>7. ASSUME NEW w \in Workers, NEW r \in Requests, SendChunk(w, r)
      PROVE  ExitsLast'
  <2>1. UNCHANGED <<nextChunk, cancelled>> /\ place' = [place EXCEPT ![w] = "waiting"]
    BY <1>7 DEF SendChunk
  <2> QED
    BY <2>1 DEF ClientTypeOK
<1>8. ASSUME NEW w \in Workers, ChunkStored(w)
      PROVE  ExitsLast'
  <2>1. UNCHANGED <<nextChunk, cancelled>> /\ place' = [place EXCEPT ![w] = "ready"]
    BY <1>8 DEF ChunkStored
  <2> QED
    BY <2>1 DEF ClientTypeOK
<1>9. ASSUME NEW w \in Workers, ChunkRefused(w)
      PROVE  ExitsLast'
  <2>1. nextChunk' = nextChunk /\ (cancelled => cancelled')
    BY <1>9, StaysCancelled DEF ChunkRefused, ChunkFailed
  <2>2. \A v \in Workers : place'[v] = "exited" /\ ~cancelled' => place[v] = "exited"
    BY <1>9 DEF ChunkRefused, ChunkFailed, ClientTypeOK
  <2> QED
    BY <2>1, <2>2
<1>10. ASSUME NEW w \in Workers, ChunkNotFound(w)
      PROVE  ExitsLast'
  <2>1. nextChunk' = nextChunk /\ (cancelled => cancelled')
    BY <1>10, StaysCancelled DEF ChunkNotFound, ChunkFailed
  <2>2. \A v \in Workers : place'[v] = "exited" /\ ~cancelled' => place[v] = "exited"
    BY <1>10 DEF ChunkNotFound, ChunkFailed, ClientTypeOK
  <2> QED
    BY <2>1, <2>2
<1>11. ASSUME NEW w \in Workers, ConnectionDrops(w)
      PROVE  ExitsLast'
  <2>1. nextChunk' = nextChunk /\ (cancelled => cancelled')
    BY <1>11, StaysCancelled DEF ConnectionDrops, ChunkFailed
  <2>2. \A v \in Workers : place'[v] = "exited" /\ ~cancelled' => place[v] = "exited"
    BY <1>11 DEF ConnectionDrops, ChunkFailed, ClientTypeOK
  <2> QED
    BY <2>1, <2>2
<1>12. ASSUME NEW w \in Workers, SignalAborts(w)
      PROVE  ExitsLast'
  <2>1. nextChunk' = nextChunk /\ (cancelled => cancelled')
    BY <1>12, StaysCancelled DEF SignalAborts, ChunkFailed
  <2>2. \A v \in Workers : place'[v] = "exited" /\ ~cancelled' => place[v] = "exited"
    BY <1>12 DEF SignalAborts, ChunkFailed, ClientTypeOK
  <2> QED
    BY <2>1, <2>2
<1>13. ASSUME NEW r \in Requests, ServerStep(r)
      PROVE  ExitsLast'
  <2>1. UNCHANGED <<nextChunk, place, cancelled>>
    BY <1>13 DEF ServerStep, mainVars, workerVars, clientVars
  <2> QED
    BY <2>1
<1>14. ASSUME NEW r \in Requests, BodyEnds(r)
      PROVE  ExitsLast'
  <2>1. UNCHANGED <<nextChunk, place, cancelled>>
    BY <1>14 DEF BodyEnds, mainVars, workerVars, clientVars
  <2> QED
    BY <2>1
<1>15. CASE ServerRestarts
  BY <1>15 DEF ServerRestarts, Restart, HandlersDie, Smooth
<1>16. CASE SessionRunsOut
  BY <1>16 DEF SessionRunsOut, Smooth
<1>17. CASE UNCHANGED allVars
  <2>1. UNCHANGED <<nextChunk, place, cancelled>>
    BY <1>17 DEF allVars, workerVars, clientVars
  <2> QED
    BY <2>1
<1>18. CASE MainLost
  <2>1. UNCHANGED <<nextChunk, place, cancelled>>
    BY <1>18 DEF MainLost, mainVars, workerVars, clientVars
  <2> QED
    BY <2>1
<1> HIDE DEF ExitsLast
<1> QED BY <1>1, <1>2, <1>3, <1>4, <1>5, <1>6, <1>7, <1>8, <1>9, <1>10, <1>11,
     <1>12, <1>13, <1>14, <1>15, <1>16, <1>17, <1>18
     DEF ClientNext, MainStep, WorkerStep

(* A chunk whose answer is 200 has been received.                          *)
LEMMA OkIsReceivedStep ==
  ASSUME Smooth,
         TypeOK,
         SlotsAgree,
         CreatedAlone,
         ClientTypeOK,
         WorkersWait,
         MainWaits,
         PhasesAgree,
         OwnChunks,
         CarriersUpload,
         CarriersWaited,
         OkIsReceived,
         [ClientNext]_allVars
  PROVE  OkIsReceived'
<1> USE DEF mainVars, workerVars, clientVars
<1> USE DEF OkIsReceived, ClientTypeOK, WorkersWait, MainWaits
<1>1. ASSUME NEW r \in Requests, OpenSession(r)
      PROVE  OkIsReceived'
  <2>1. /\ UNCHANGED <<place, number, slot>>
        /\ fetch' = [fetch EXCEPT ![r] = "waiting"]
    BY <1>1 DEF OpenSession, MainSends, workerVars
  <2> QED
    BY <2>1, ReceivedKept
<1>2. ASSUME NEW r \in Requests, Complete(r)
      PROVE  OkIsReceived'
  <2>1. /\ UNCHANGED <<place, number, slot>>
        /\ fetch' = [fetch EXCEPT ![r] = "waiting"]
    BY <1>2 DEF Complete, MainSends, workerVars
  <2> QED
    BY <2>1, ReceivedKept
<1>3. ASSUME NEW r \in Requests, Abort(r)
      PROVE  OkIsReceived'
  <2>1. /\ UNCHANGED <<place, number, slot>>
        /\ fetch' = [fetch EXCEPT ![r] = "waiting"]
    BY <1>3 DEF Abort, MainSends, workerVars
  <2> QED
    BY <2>1, ReceivedKept
<1>4. CASE MainRefused
  <2>1. UNCHANGED <<place, number, slot>>
    BY <1>4 DEF MainRefused, vars, handlerVars, reqVars, mainVars, workerVars
  <2>2. \A v \in Workers : place[v] = "waiting" => fetch'[slot[v]] \in {fetch[slot[v]], "none"}
    BY <1>4 DEF MainRefused
  <2> QED
    BY <2>1, <2>2, ReceivedKept
<1>5. CASE MainAnswered
  <2>1. UNCHANGED <<place, number, slot>>
    BY <1>5 DEF MainAnswered, vars, handlerVars, reqVars, mainVars, workerVars
  <2>2. \A v \in Workers : place[v] = "waiting" => fetch'[slot[v]] \in {fetch[slot[v]], "none"}
    BY <1>5 DEF MainAnswered
  <2> QED
    BY <2>1, <2>2, ReceivedKept
<1>6. ASSUME NEW w \in Workers, TakeChunk(w)
      PROVE  OkIsReceived'
  <2>1. /\ UNCHANGED <<slot, fetch>>
        /\ place'[w] # "waiting"
        /\ \A v \in Workers \ {w} : place'[v] = place[v] /\ number'[v] = number[v]
    BY <1>6 DEF TakeChunk, vars, handlerVars, reqVars
  <2> QED
    BY <2>1, ReceivedKept
<1>7. ASSUME NEW w \in Workers, NEW r \in Requests, SendChunk(w, r)
      PROVE  OkIsReceived'
  <2>1. /\ fetch' = [fetch EXCEPT ![r] = "waiting"]
        /\ slot' = [slot EXCEPT ![w] = r]
        /\ place' = [place EXCEPT ![w] = "waiting"] /\ number' = number
    BY <1>7 DEF SendChunk
  <2> QED
    BY <2>1, ReceivedKept
<1>8. ASSUME NEW w \in Workers, ChunkStored(w)
      PROVE  OkIsReceived'
  <2>1. /\ place' = [place EXCEPT ![w] = "ready"]
        /\ fetch' = [fetch EXCEPT ![slot[w]] = "none"]
        /\ slot' = [slot EXCEPT ![w] = None]
        /\ UNCHANGED <<number>>
    BY <1>8 DEF ChunkStored, vars, handlerVars, reqVars
  <2> QED
    BY <2>1, ReceivedKept
<1>9. ASSUME NEW w \in Workers, ChunkRefused(w)
      PROVE  OkIsReceived'
  <2>1. /\ place'[w] # "waiting"
        /\ \A v \in Workers \ {w} : place'[v] = place[v] /\ slot'[v] = slot[v]
        /\ UNCHANGED <<number>>
    BY <1>9 DEF ChunkRefused, ChunkFailed, vars, handlerVars, reqVars
  <2>2. \A q \in Requests : fetch'[q] \in {fetch[q], "none"}
    BY <1>9 DEF ChunkRefused
  <2> QED
    BY <2>1, <2>2, ReceivedKept
<1>10. ASSUME NEW w \in Workers, ChunkNotFound(w)
      PROVE  OkIsReceived'
  <2>1. /\ place'[w] # "waiting"
        /\ \A v \in Workers \ {w} : place'[v] = place[v] /\ slot'[v] = slot[v]
        /\ UNCHANGED <<number>>
    BY <1>10 DEF ChunkNotFound, ChunkFailed, vars, handlerVars, reqVars
  <2>2. \A q \in Requests : fetch'[q] \in {fetch[q], "none"}
    BY <1>10 DEF ChunkNotFound
  <2> QED
    BY <2>1, <2>2, ReceivedKept
<1>11. ASSUME NEW w \in Workers, ConnectionDrops(w)
      PROVE  OkIsReceived'
  <2>1. /\ place'[w] # "waiting"
        /\ \A v \in Workers \ {w} : place'[v] = place[v] /\ slot'[v] = slot[v]
        /\ UNCHANGED <<number>>
    BY <1>11 DEF ConnectionDrops, ChunkFailed, vars, handlerVars, reqVars
  <2>2. \A q \in Requests : fetch'[q] \in {fetch[q], "none"}
    BY <1>11 DEF ConnectionDrops
  <2> QED
    BY <2>1, <2>2, ReceivedKept
<1>12. ASSUME NEW w \in Workers, SignalAborts(w)
      PROVE  OkIsReceived'
  <2>1. /\ place'[w] # "waiting"
        /\ \A v \in Workers \ {w} : place'[v] = place[v] /\ slot'[v] = slot[v]
        /\ UNCHANGED <<number>>
    BY <1>12 DEF SignalAborts, ChunkFailed, vars, handlerVars, reqVars
  <2>2. \A q \in Requests : fetch'[q] \in {fetch[q], "none"}
    BY <1>12 DEF SignalAborts
  <2> QED
    BY <2>1, <2>2, ReceivedKept
<1>13. ASSUME NEW r \in Requests, ServerStep(r)
      PROVE  OkIsReceived'
  <2>1. ServesClient(r) /\ (InHandler(r) \/ InStorage(r))
    BY <1>13, ServerServes DEF ServerStep
  <2>2. UNCHANGED <<place, number, slot>>
    BY <2>1 DEF ServesClient, workerVars
  <2>3. ASSUME NEW w \in Workers, place[w] = "waiting", fetch'[slot[w]] = "ok"
        PROVE  number[w] \in received'[Session]
    <3>1. CASE fetch[slot[w]] = "ok"
      BY <2>3, <3>1, ReceivedKept DEF OkIsReceived
    <3>2. CASE fetch[slot[w]] # "ok"
      <4>1. slot[w] = r /\ pc'[r] = "idle" /\ fetch[r] = "waiting" /\ pc[r] \in Answering
        BY <2>1, <2>3, <3>2 DEF ServesClient
      <4>2. chunk[r] = number[w] /\ chunk[r] # None
        BY <2>3, <4>1, HandlersAssumption DEF CarriersWaited, OwnChunks, Holds
      <4>3. pc[r] \in Uploading /\ pc[r] = "landing"
        BY <4>1, <4>2 DEF CarriersUpload, Uploading, Answering
      <4>4. sess[r] = Session
        BY <4>3, BusyOnSession
      <4>5. UploadsOn(r)
        BY <2>1, <4>3, <4>4, UploadServed
      <4> QED
        BY <4>2, <4>3, <4>5 DEF UploadsOn
    <3> QED
      BY <3>1, <3>2
  <2> QED
    BY <2>2, <2>3
<1>14. ASSUME NEW r \in Requests, BodyEnds(r)
      PROVE  OkIsReceived'
  <2>1. UNCHANGED <<place, number, slot, fetch>>
    BY <1>14 DEF BodyEnds, clientVars, workerVars
  <2> QED
    BY <2>1, ReceivedKept
<1>15. CASE ServerRestarts
  BY <1>15 DEF ServerRestarts, Restart, HandlersDie, Smooth
<1>16. CASE SessionRunsOut
  BY <1>16 DEF SessionRunsOut, Smooth
<1>17. CASE UNCHANGED allVars
  <2>1. UNCHANGED <<place, number, slot, fetch>>
    BY <1>17 DEF allVars, vars, handlerVars, reqVars, workerVars, clientVars
  <2> QED
    BY <2>1, ReceivedKept
<1>18. CASE MainLost
  <2>1. UNCHANGED <<place, number, slot>>
    BY <1>18 DEF MainLost, vars, handlerVars, reqVars, mainVars, workerVars
  <2>2. \A v \in Workers : place[v] = "waiting" => fetch'[slot[v]] \in {fetch[slot[v]], "none"}
    BY <1>18, LosesOne
  <2> QED
    BY <2>1, <2>2, ReceivedKept
<1> HIDE DEF mainVars, workerVars, clientVars, OkIsReceived, ClientTypeOK,
           WorkersWait, MainWaits
<1> QED BY <1>1, <1>2, <1>3, <1>4, <1>5, <1>6, <1>7, <1>8, <1>9, <1>10, <1>11,
     <1>12, <1>13, <1>14, <1>15, <1>16, <1>17, <1>18
     DEF ClientNext, MainStep, WorkerStep

(* When all workers have exited and none was cancelled, all chunks have    *)
(* been received.                                                          *)
LEMMA AllGiven ==
  ASSUME ClientTypeOK, GivenOut, ExitsLast, AllExited, ~cancelled
  PROVE  \A i \in Chunks : i \in received[Session]
<1>1. nextChunk \notin Chunks
  BY Constants DEF AllExited, ExitsLast
<1>2. \A i \in Chunks : i < nextChunk
  BY <1>1, CounterPast DEF ClientTypeOK
<1> QED
  BY <1>2 DEF GivenOut, AllExited, Holds

(* A complete is sent, or lost, only when all chunks have been received.   *)
LEMMA AllAtCompleteStep ==
  ASSUME Smooth,
         TypeOK,
         received'[Session] \subseteq Chunks,
         CreatedAlone,
         ClientTypeOK,
         MainWaits,
         PhasesAgree,
         GivenOut,
         ExitsLast,
         AllAtComplete,
         [ClientNext]_allVars
  PROVE  AllAtComplete'
<1> USE DEF AllAtComplete
<1>1. ASSUME NEW r \in Requests, OpenSession(r)
      PROVE  AllAtComplete'
  BY <1>1, ReceivedKept DEF OpenSession, MainSends
<1>2. ASSUME NEW r \in Requests, Complete(r)
      PROVE  AllAtComplete'
  <2>1. AllExited /\ ~cancelled
    BY <1>2 DEF Complete
  <2>2. \A i \in Chunks : i \in received[Session]
    BY <2>1, AllGiven
  <2> QED
    BY <2>2, ReceivedKept
<1>3. ASSUME NEW r \in Requests, Abort(r)
      PROVE  AllAtComplete'
  BY <1>3, ReceivedKept DEF Abort, MainSends
<1>4. CASE MainRefused
  BY <1>4, ReceivedKept DEF MainRefused
<1>5. CASE MainAnswered
  <2>1. phase' = PhaseAfter(fetch[main]) /\ main # None /\ lost' = lost
    BY <1>5 DEF MainAnswered
  <2>2. phase' \in {"completing", "succeeded"} => phase = "completing"
    BY <2>1 DEF PhaseAfter, MainWaits
  <2> QED
    BY <2>1, <2>2, ReceivedKept
<1>6. ASSUME NEW w \in Workers, TakeChunk(w)
      PROVE  AllAtComplete'
  <2>1. UNCHANGED <<phase, lost>>
    BY <1>6 DEF TakeChunk, mainVars, clientVars
  <2> QED
    BY <2>1, ReceivedKept
<1>7. ASSUME NEW w \in Workers, NEW r \in Requests, SendChunk(w, r)
      PROVE  AllAtComplete'
  <2>1. UNCHANGED <<phase, lost>>
    BY <1>7 DEF SendChunk, mainVars, clientVars
  <2> QED
    BY <2>1, ReceivedKept
<1>8. ASSUME NEW w \in Workers, ChunkStored(w)
      PROVE  AllAtComplete'
  <2>1. UNCHANGED <<phase, lost>>
    BY <1>8 DEF ChunkStored, mainVars, clientVars
  <2> QED
    BY <2>1, ReceivedKept
<1>9. ASSUME NEW w \in Workers, ChunkRefused(w)
      PROVE  AllAtComplete'
  <2>1. UNCHANGED <<phase, lost>>
    BY <1>9 DEF ChunkRefused, ChunkFailed, mainVars, clientVars
  <2> QED
    BY <2>1, ReceivedKept
<1>10. ASSUME NEW w \in Workers, ChunkNotFound(w)
      PROVE  AllAtComplete'
  <2>1. UNCHANGED <<phase, lost>>
    BY <1>10 DEF ChunkNotFound, ChunkFailed, mainVars, clientVars
  <2> QED
    BY <2>1, ReceivedKept
<1>11. ASSUME NEW w \in Workers, ConnectionDrops(w)
      PROVE  AllAtComplete'
  <2>1. UNCHANGED <<phase, lost>>
    BY <1>11 DEF ConnectionDrops, ChunkFailed, mainVars, clientVars
  <2> QED
    BY <2>1, ReceivedKept
<1>12. ASSUME NEW w \in Workers, SignalAborts(w)
      PROVE  AllAtComplete'
  <2>1. UNCHANGED <<phase, lost>>
    BY <1>12 DEF SignalAborts, ChunkFailed, mainVars, clientVars
  <2> QED
    BY <2>1, ReceivedKept
<1>13. ASSUME NEW r \in Requests, ServerStep(r)
      PROVE  AllAtComplete'
  <2>1. UNCHANGED <<phase, lost>>
    BY <1>13 DEF ServerStep, mainVars, clientVars
  <2> QED
    BY <2>1, ReceivedKept
<1>14. ASSUME NEW r \in Requests, BodyEnds(r)
      PROVE  AllAtComplete'
  <2>1. UNCHANGED <<phase, lost>>
    BY <1>14 DEF BodyEnds, mainVars, clientVars
  <2> QED
    BY <2>1, ReceivedKept
<1>15. CASE ServerRestarts
  BY <1>15 DEF ServerRestarts, Restart, HandlersDie, Smooth
<1>16. CASE SessionRunsOut
  BY <1>16 DEF SessionRunsOut, Smooth
<1>17. CASE UNCHANGED allVars
  <2>1. UNCHANGED <<phase, lost>>
    BY <1>17 DEF allVars, mainVars, clientVars
  <2> QED
    BY <2>1, ReceivedKept
<1>18. CASE MainLost
  <2>1. CASE phase = "completing"
    BY <1>18, <2>1, LosesOne, ReceivedKept
  <2>2. CASE phase = "uploading" /\ ~cancelled
    <3>1. AllExited
      BY <1>18, <2>2, LosesOne
    <3>2. \A i \in Chunks : i \in received[Session]
      BY <2>2, <3>1, AllGiven
    <3> QED
      BY <3>2, ReceivedKept
  <2>3. CASE ~(phase = "completing" \/ (phase = "uploading" /\ ~cancelled))
    BY <1>18, <2>3, LosesOne
  <2> QED
    BY <2>1, <2>2, <2>3
<1> HIDE DEF AllAtComplete
<1> QED BY <1>1, <1>2, <1>3, <1>4, <1>5, <1>6, <1>7, <1>8, <1>9, <1>10, <1>11,
     <1>12, <1>13, <1>14, <1>15, <1>16, <1>17, <1>18
     DEF ClientNext, MainStep, WorkerStep

(***************************************************************************)
(* What the retries used up tell of the connections.                       *)
(***************************************************************************)
(* A worker gives up only when connections dropped more often than it may  *)
(* retry.                                                                  *)
LEMMA DropsCountedStep ==
  ASSUME Smooth,
         TypeOK,
         SlotsAgree,
         CreatedAlone,
         ClientTypeOK,
         WorkersWait,
         MainWaits,
         PhasesAgree,
         InStep,
         DropsCounted,
         [ClientNext]_allVars
  PROVE  DropsCounted'
<1> USE DEF DropsCounted, Holds
<1>1. ASSUME NEW r \in Requests, OpenSession(r)
      PROVE  DropsCounted'
  <2>1. UNCHANGED <<cancelled, place, left, drops, lost>> /\ phase' \notin {"aborting", "failed"}
    BY <1>1 DEF OpenSession, MainSends, workerVars
  <2> QED
    BY <2>1
<1>2. ASSUME NEW r \in Requests, Complete(r)
      PROVE  DropsCounted'
  <2>1. UNCHANGED <<cancelled, place, left, drops, lost>> /\ phase' \notin {"aborting", "failed"}
    BY <1>2 DEF Complete, MainSends, workerVars
  <2> QED
    BY <2>1
<1>3. ASSUME NEW r \in Requests, Abort(r)
      PROVE  DropsCounted'
  <2>1. UNCHANGED <<cancelled, place, left, drops, lost>> /\ cancelled
    BY <1>3 DEF Abort, MainSends, workerVars
  <2> QED
    BY <2>1
<1>4. CASE MainRefused
  <2>1. UNCHANGED <<cancelled, place, left, drops, lost, row>>
    BY <1>4 DEF MainRefused, workerVars, vars, handlerVars, tableVars
  <2>2. row[Session] = "none" /\ phase = "start"
    BY <1>4 DEF MainRefused, NotFound, LoadActiveSession, InStep, Ready
  <2>3. lost = "none" /\ phase' = "failed"
    BY <1>4, <2>2 DEF MainRefused, PhasesAgree
  <2> QED
    BY <2>1, <2>2, <2>3
<1>5. CASE MainAnswered
  <2>1. /\ UNCHANGED <<cancelled, place, left, drops>> /\ main # None /\ fetch[main] = "ok"
        /\ phase' = PhaseAfter(fetch[main])
    BY <1>5 DEF MainAnswered, workerVars, InStep, ClientTypeOK
  <2>2. phase' \in {"aborting", "failed"} => phase = "aborting"
    BY <2>1 DEF PhaseAfter, MainWaits
  <2>3. lost' = lost
    BY <1>5 DEF MainAnswered
  <2> QED
    BY <2>1, <2>2, <2>3
<1>6. ASSUME NEW w \in Workers, TakeChunk(w)
      PROVE  DropsCounted'
  <2>1. phase = "uploading" /\ UNCHANGED <<cancelled, drops, phase, lost>>
    BY <1>6 DEF TakeChunk, mainVars
  <2>2. \A v \in Workers \ {w} : place'[v] = place[v] /\ left'[v] = left[v]
    BY <1>6 DEF TakeChunk, ClientTypeOK
  <2>3. Holds(w)' => left'[w] = MaxRetries
    BY <1>6 DEF TakeChunk, ClientTypeOK, Holds
  <2>4. drops \in Nat /\ MaxRetries - MaxRetries <= drops
    BY Constants DEF ClientTypeOK
  <2> QED
    BY <2>1, <2>2, <2>3, <2>4 DEF Holds
<1>7. ASSUME NEW w \in Workers, NEW r \in Requests, SendChunk(w, r)
      PROVE  DropsCounted'
  <2>1. phase = "uploading" /\ UNCHANGED <<cancelled, left, drops, phase, lost>>
    BY <1>7 DEF SendChunk, mainVars, PhasesAgree
  <2>2. place[w] = "sending" /\ place' = [place EXCEPT ![w] = "waiting"]
    BY <1>7 DEF SendChunk
  <2>3. \A v \in Workers : Holds(v)' => Holds(v)
    BY <2>2 DEF Holds
  <2> QED
    BY <2>1, <2>3
<1>8. ASSUME NEW w \in Workers, ChunkStored(w)
      PROVE  DropsCounted'
  <2>1. phase = "uploading" /\ UNCHANGED <<cancelled, left, drops, phase, lost>>
    BY <1>8 DEF ChunkStored, mainVars, PhasesAgree
  <2>2. place[w] = "waiting" /\ place' = [place EXCEPT ![w] = "ready"]
    BY <1>8 DEF ChunkStored
  <2>3. \A v \in Workers : Holds(v)' => Holds(v)
    BY <2>2 DEF Holds
  <2> QED
    BY <2>1, <2>3
<1>9. ASSUME NEW w \in Workers, ChunkRefused(w)
      PROVE  DropsCounted'
  BY <1>9 DEF ChunkRefused, InStep, WorkersWait, ClientTypeOK
<1>10. ASSUME NEW w \in Workers, ChunkNotFound(w)
      PROVE  DropsCounted'
  BY <1>10 DEF ChunkNotFound, NotFound, LoadActiveSession, InStep, Ready, PhasesAgree
<1>11. ASSUME NEW w \in Workers, ConnectionDrops(w)
      PROVE  DropsCounted'
  <2>1. /\ phase = "uploading" /\ phase' = phase /\ lost' = lost
        /\ drops' = drops + 1 /\ Holds(w)
    BY <1>11 DEF ConnectionDrops, ChunkFailed, mainVars, Holds, PhasesAgree
  <2>2. drops \in Nat /\ left[w] \in Nat
    BY Constants DEF ClientTypeOK
  <2>3. CASE left[w] > 0 /\ ~cancelled
    <3>1. /\ left' = [left EXCEPT ![w] = @ - 1]
          /\ place' = [place EXCEPT ![w] = "sending"]
          /\ UNCHANGED cancelled
      BY <1>11, <2>3 DEF ConnectionDrops, ChunkFailed
    <3>2. /\ left'[w] = left[w] - 1
          /\ \A v \in Workers \ {w} : left'[v] = left[v] /\ place'[v] = place[v]
      BY <3>1 DEF ClientTypeOK
    <3>3. MaxRetries - left'[w] <= drops'
      BY <2>1, <2>2, <2>3, <3>2, Constants
    <3>4. \A v \in Workers \ {w} : Holds(v)' => Holds(v) /\ left'[v] = left[v]
      BY <3>2 DEF Holds
    <3>5. ASSUME NEW v \in Workers \ {w}, Holds(v)'
          PROVE  MaxRetries - left'[v] <= drops'
      <4>1. left[v] \in Nat /\ MaxRetries - left[v] <= drops /\ left'[v] = left[v]
        BY <2>3, <3>4, <3>5 DEF ClientTypeOK
      <4> QED
        BY <2>1, <2>2, <4>1, Constants
    <3> QED
      BY <2>1, <2>3, <3>1, <3>3, <3>5
  <2>4. CASE ~(left[w] > 0 /\ ~cancelled)
    <3>1. cancelled'
      BY <1>11, <2>4 DEF ConnectionDrops, ChunkFailed
    <3>2. CASE cancelled
      BY <2>1, <2>2, <3>1, <3>2, Constants
    <3>3. CASE ~cancelled
      <4>1. left[w] = 0 /\ MaxRetries - left[w] <= drops
        BY <2>1, <2>2, <2>4, <3>3
      <4> QED
        BY <2>1, <2>2, <3>1, <4>1, Constants
    <3> QED
      BY <3>2, <3>3
  <2> QED
    BY <2>3, <2>4
<1>12. ASSUME NEW w \in Workers, SignalAborts(w)
      PROVE  DropsCounted'
  <2>1. cancelled /\ cancelled' /\ UNCHANGED <<drops, phase, lost>>
    BY <1>12 DEF SignalAborts, ChunkFailed, mainVars
  <2> QED
    BY <2>1
<1>13. ASSUME NEW r \in Requests, ServerStep(r)
      PROVE  DropsCounted'
  <2>1. UNCHANGED <<cancelled, place, left, drops, phase, lost>>
    BY <1>13 DEF ServerStep, mainVars, workerVars, clientVars
  <2>2. row[Session] # "none"
    BY <1>13, ServerServes, BusyOnSession DEF ServesClient, Moves, CreatedAlone, Untouched
  <2> QED
    BY <2>1, <2>2
<1>14. ASSUME NEW r \in Requests, BodyEnds(r)
      PROVE  DropsCounted'
  <2>1. UNCHANGED <<cancelled, place, left, drops, phase, lost, row>>
    BY <1>14 DEF BodyEnds, ShortSource, Replies, tableVars, mainVars, workerVars, clientVars
  <2> QED
    BY <2>1
<1>15. CASE ServerRestarts
  BY <1>15 DEF ServerRestarts, Restart, HandlersDie, Smooth
<1>16. CASE SessionRunsOut
  BY <1>16 DEF SessionRunsOut, Smooth
<1>17. CASE UNCHANGED allVars
  <2>1. UNCHANGED <<cancelled, place, left, drops, phase, lost, row>>
    BY <1>17 DEF allVars, mainVars, workerVars, clientVars, vars, handlerVars, tableVars
  <2> QED
    BY <2>1
<1>18. CASE MainLost
  <2>1. UNCHANGED <<cancelled, place, left>> /\ drops' = drops + 1
    BY <1>18, LosesOne DEF workerVars
  <2>2. lost' = "aborting" => cancelled
    BY <1>18, LosesOne
  <2>3. lost' \in {"opening", "completing", "aborting"}
    BY <1>18, LosesOne DEF Phases, ClientTypeOK
  <2>4. \A v \in Workers : left[v] \in Nat
    BY Constants DEF ClientTypeOK
  <2>5. drops \in Nat
    BY Constants DEF ClientTypeOK
  <2>6. cancelled' => drops' > MaxRetries
    BY <2>1, <2>5, Constants
  <2>7. ASSUME ~cancelled', NEW v \in Workers, Holds(v)'
        PROVE  MaxRetries - left'[v] <= drops'
    <3>1. Holds(v) /\ left'[v] = left[v] /\ MaxRetries - left[v] <= drops
      BY <2>1, <2>7
    <3> QED
      BY <2>1, <2>4, <2>5, <3>1, Constants
  <2>8. phase' = "failed"
    BY <1>18, LosesOne
  <2> QED
    BY <2>1, <2>2, <2>3, <2>6, <2>7, <2>8
<1> HIDE DEF DropsCounted, Holds
<1> QED BY <1>1, <1>2, <1>3, <1>4, <1>5, <1>6, <1>7, <1>8, <1>9, <1>10, <1>11,
     <1>12, <1>13, <1>14, <1>15, <1>16, <1>17, <1>18
     DEF ClientNext, MainStep, WorkerStep

(***************************************************************************)
(* What is in the object's frames.                                         *)
(***************************************************************************)
(* What a request's step does to the frames of the object. *)
WritesOn(r) ==
  /\ \A q \in Requests \ {r} : nonce'[q] = nonce[q] /\ done'[q] = done[q]
  /\ \/ /\ UNCHANGED <<data, received>>
        /\ done'[r] = done[r] /\ (done[r] # 0 => nonce'[r] = nonce[r])
        /\ pc'[r] # "idle" \/ done[r] = 0
     \/ /\ UNCHANGED data /\ pc'[r] = "idle" /\ done'[r] = 0
        /\ \/ pc[r] = "landing" /\ received' = [received EXCEPT ![sess[r]] = @ \union {chunk[r]}]
           \/ pc[r] = "copying" /\ ~open[sess[r]] /\ UNCHANGED received
     \/ /\ pc[r] = "writing" /\ pc'[r] # "idle" /\ nonce'[r] = nonce[r] /\ done'[r] = done[r] + 1
        /\ data' = [data EXCEPT ![sess[r]][chunk[r]][done[r] + 1] = nonce[r]]
        /\ UNCHANGED received
     \/ pc[r] = "init_call" /\ UNCHANGED <<received, done>>
     \/ pc[r] = "registering" /\ UNCHANGED <<data, nonce, done>>
          /\ received' = [received EXCEPT ![sess[r]] = {}]

(* A frame is written piece by piece by the request that carries it.       *)
LEMMA ServerWrites ==
  ASSUME Smooth,
         TypeOK,
         SlotsAgree,
         NEW r \in Requests,
         InHandler(r) \/ InStorage(r)
  PROVE  WritesOn(r)
<1> USE DEF TypeOK, GoesTo, Ends, Proceeds, Replies, AnswerCreated,
           SaveStatus, tableVars, reqVars, storageVars, EndsCopy, copyVars
<1> USE DEF Smooth, SlotsAgree, Copying, WritesOn
<1>1. ASSUME ExpireSession(r), UNCHANGED storageVars
      PROVE  WritesOn(r)
  BY <1>1 DEF ExpireSession
<1>2. ASSUME CreateFileRecord(r), UNCHANGED storageVars
      PROVE  WritesOn(r)
  BY <1>2 DEF CreateFileRecord
<1>3. ASSUME FileRecordFails(r), UNCHANGED storageVars
      PROVE  WritesOn(r)
  BY <1>3 DEF FileRecordFails
<1>4. ASSUME MarkCompleted(r), UNCHANGED storageVars
      PROVE  WritesOn(r)
  BY <1>4 DEF MarkCompleted
<1>5. ASSUME MarkCancelled(r), UNCHANGED storageVars
      PROVE  WritesOn(r)
  BY <1>5 DEF MarkCancelled
<1>6. ASSUME CreatePartFile(r)
      PROVE  WritesOn(r)
  BY <1>6 DEF CreatePartFile
<1>7. ASSUME RegisterUpload(r)
      PROVE  WritesOn(r)
  BY <1>7 DEF RegisterUpload
<1>8. ASSUME BeginCopy(r)
      PROVE  WritesOn(r)
  <2>1. PICK n \in Nonces : nonce' = [nonce EXCEPT ![r] = n]
    BY <1>8 DEF BeginCopy
  <2>2. /\ pc[r] = "chunk_call" /\ pc' = [pc EXCEPT ![r] = "copying"]
        /\ UNCHANGED <<received, data, done>>
    BY <1>8 DEF BeginCopy
  <2> QED
    BY <2>1, <2>2
<1>9. ASSUME StartWrite(r)
      PROVE  WritesOn(r)
  BY <1>9 DEF StartWrite
<1>10. ASSUME WriteFails(r)
      PROVE  WritesOn(r)
  BY <1>10 DEF WriteFails
<1>11. ASSUME WritePiece(r)
      PROVE  WritesOn(r)
  BY <1>11 DEF WritePiece
<1>12. ASSUME RecordReceived(r)
      PROVE  WritesOn(r)
  BY <1>12 DEF RecordReceived
<1>13. ASSUME LookUpForFinalize(r)
      PROVE  WritesOn(r)
  BY <1>13 DEF LookUpForFinalize
<1>14. ASSUME CountReceived(r)
      PROVE  WritesOn(r)
  BY <1>14 DEF CountReceived
<1>15. ASSUME CloseFile(r)
      PROVE  WritesOn(r)
  BY <1>15 DEF CloseFile
<1>16. ASSUME CloseFails(r)
      PROVE  WritesOn(r)
  BY <1>16 DEF CloseFails
<1>17. ASSUME RenamePart(r)
      PROVE  WritesOn(r)
  BY <1>17 DEF RenamePart
<1>18. ASSUME DropUpload(r)
      PROVE  WritesOn(r)
  BY <1>18 DEF DropUpload
<1>19. ASSUME Deregister(r)
      PROVE  WritesOn(r)
  BY <1>19 DEF Deregister
<1>20. ASSUME ClosePart(r)
      PROVE  WritesOn(r)
  BY <1>20 DEF ClosePart
<1>21. ASSUME RemovePart(r)
      PROVE  WritesOn(r)
  BY <1>21 DEF RemovePart
<1>22. ASSUME StorageRefuses(r)
      PROVE  WritesOn(r)
  BY <1>22 DEF StorageRefuses
<1> HIDE DEF TypeOK, GoesTo, Ends, Proceeds, Replies, AnswerCreated,
           SaveStatus, tableVars, reqVars, storageVars, EndsCopy, copyVars,
           Smooth, SlotsAgree, Copying, WritesOn
<1> QED BY <1>1, <1>2, <1>3, <1>4, <1>5, <1>6, <1>7, <1>8, <1>9, <1>10, <1>11,
     <1>12, <1>13, <1>14, <1>15, <1>16, <1>17, <1>18, <1>19, <1>20, <1>21,
     <1>22
     DEF InHandler, HandlerStep, InStorage

(* What the client's own steps do to them. *)
FramesStill ==
  /\ UNCHANGED <<data, received, done, nonce>>
  /\ \A r \in Requests : chunk'[r] = chunk[r] \/ done[r] = 0

BodyGone(r) ==
  /\ UNCHANGED <<data, received>>
  /\ done' = [done EXCEPT ![r] = 0] /\ done[r] = 0
  /\ nonce' = [nonce EXCEPT ![r] = None]
  /\ chunk' = [chunk EXCEPT ![r] = None]

FramesMove ==
  \/ FramesStill
  \/ \E r \in Requests : BodyGone(r)
  \/ \E r \in Requests :
       WritesOn(r) /\ Moves(r)

(* Every step leaves the frames, ends a request that wrote nothing, or     *)
(* goes on with one.                                                       *)
LEMMA FramesMoved ==
  ASSUME Smooth,
         TypeOK,
         SlotsAgree,
         [ClientNext]_allVars
  PROVE  FramesMove
<1>1. ASSUME NEW r \in Requests, OpenSession(r)
      PROVE  FramesMove
  <2>1. /\ UNCHANGED <<data, received, done, nonce>>
        /\ pc[r] = "idle" /\ chunk' = [chunk EXCEPT ![r] = None]
    BY <1>1 DEF OpenSession, CreateSession, MainSends, Starts, storageVars, copyVars
  <2> QED
    BY <2>1 DEF FramesStill, FramesMove, SlotsAgree, Copying, TypeOK
<1>2. ASSUME NEW r \in Requests, Complete(r)
      PROVE  FramesMove
  <2>1. /\ UNCHANGED <<data, received, done, nonce>>
        /\ pc[r] = "idle" /\ chunk' = [chunk EXCEPT ![r] = None]
    BY <1>2 DEF Complete, CompleteChunkedUpload, MainSends, Starts, storageVars, copyVars
  <2> QED
    BY <2>1 DEF FramesStill, FramesMove, SlotsAgree, Copying, TypeOK
<1>3. ASSUME NEW r \in Requests, Abort(r)
      PROVE  FramesMove
  <2>1. /\ UNCHANGED <<data, received, done, nonce>>
        /\ pc[r] = "idle" /\ chunk' = [chunk EXCEPT ![r] = None]
    BY <1>3 DEF Abort, AbortChunkedUpload, MainSends, Starts, storageVars, copyVars
  <2> QED
    BY <2>1 DEF FramesStill, FramesMove, SlotsAgree, Copying, TypeOK
<1>4. CASE MainRefused
  <2>1. UNCHANGED <<data, received, done, nonce, chunk>>
    BY <1>4 DEF MainRefused, ChunkFailed, vars, handlerVars, reqVars, storageVars, copyVars
  <2> QED
    BY <2>1 DEF FramesStill, FramesMove
<1>5. CASE MainAnswered
  <2>1. UNCHANGED <<data, received, done, nonce, chunk>>
    BY <1>5 DEF MainAnswered, ChunkFailed, vars, handlerVars, reqVars, storageVars, copyVars
  <2> QED
    BY <2>1 DEF FramesStill, FramesMove
<1>6. ASSUME NEW w \in Workers, TakeChunk(w)
      PROVE  FramesMove
  <2>1. UNCHANGED <<data, received, done, nonce, chunk>>
    BY <1>6 DEF TakeChunk, ChunkFailed, vars, handlerVars, reqVars, storageVars, copyVars
  <2> QED
    BY <2>1 DEF FramesStill, FramesMove
<1>7. ASSUME NEW w \in Workers, NEW r \in Requests, SendChunk(w, r)
      PROVE  FramesMove
  <2>1. /\ UNCHANGED <<data, received, done, nonce>> /\ pc[r] = "idle"
        /\ \A q \in Requests \ {r} : chunk'[q] = chunk[q]
    BY <1>7 DEF SendChunk, UploadChunk, Starts, storageVars, copyVars, TypeOK
  <2> QED
    BY <2>1 DEF FramesStill, FramesMove, SlotsAgree, Copying
<1>8. ASSUME NEW w \in Workers, ChunkStored(w)
      PROVE  FramesMove
  <2>1. UNCHANGED <<data, received, done, nonce, chunk>>
    BY <1>8 DEF ChunkStored, ChunkFailed, vars, handlerVars, reqVars, storageVars, copyVars
  <2> QED
    BY <2>1 DEF FramesStill, FramesMove
<1>9. ASSUME NEW w \in Workers, ChunkRefused(w)
      PROVE  FramesMove
  <2>1. UNCHANGED <<data, received, done, nonce, chunk>>
    BY <1>9 DEF ChunkRefused, ChunkFailed, vars, handlerVars, reqVars, storageVars, copyVars
  <2> QED
    BY <2>1 DEF FramesStill, FramesMove
<1>10. ASSUME NEW w \in Workers, ChunkNotFound(w)
      PROVE  FramesMove
  <2>1. UNCHANGED <<data, received, done, nonce, chunk>>
    BY <1>10 DEF ChunkNotFound, ChunkFailed, vars, handlerVars, reqVars, storageVars, copyVars
  <2> QED
    BY <2>1 DEF FramesStill, FramesMove
<1>11. ASSUME NEW w \in Workers, ConnectionDrops(w)
      PROVE  FramesMove
  <2>1. UNCHANGED <<data, received, done, nonce, chunk>>
    BY <1>11 DEF ConnectionDrops, ChunkFailed, vars, handlerVars, reqVars, storageVars, copyVars
  <2> QED
    BY <2>1 DEF FramesStill, FramesMove
<1>12. ASSUME NEW w \in Workers, SignalAborts(w)
      PROVE  FramesMove
  <2>1. UNCHANGED <<data, received, done, nonce, chunk>>
    BY <1>12 DEF SignalAborts, ChunkFailed, vars, handlerVars, reqVars, storageVars, copyVars
  <2> QED
    BY <2>1 DEF FramesStill, FramesMove
<1>13. ASSUME NEW r \in Requests, ServerStep(r)
      PROVE  FramesMove
  <2>1. Moves(r) /\ WritesOn(r)
    BY <1>13, HandlerMoves, ServerWrites DEF ServerStep
  <2> QED
    BY <2>1 DEF FramesMove
<1>14. ASSUME NEW r \in Requests, BodyEnds(r)
      PROVE  FramesMove
  BY <1>14 DEF BodyEnds, ShortSource, Replies, Ends, EndsCopy, BodyGone, FramesMove
<1>15. CASE ServerRestarts
  BY <1>15 DEF ServerRestarts, Restart, HandlersDie, Smooth
<1>16. CASE SessionRunsOut
  BY <1>16 DEF SessionRunsOut, Smooth
<1>17. CASE UNCHANGED allVars
  <2>1. UNCHANGED <<data, received, done, nonce, chunk>>
    BY <1>17 DEF allVars, vars, handlerVars, reqVars, storageVars, copyVars
  <2> QED
    BY <2>1 DEF FramesStill, FramesMove
<1>18. CASE MainLost
  <2>1. UNCHANGED <<data, received, done, nonce, chunk>>
    BY <1>18 DEF MainLost, ChunkFailed, vars, handlerVars, reqVars, storageVars, copyVars
  <2> QED
    BY <2>1 DEF FramesStill, FramesMove
<1> QED BY <1>1, <1>2, <1>3, <1>4, <1>5, <1>6, <1>7, <1>8, <1>9, <1>10, <1>11,
     <1>12, <1>13, <1>14, <1>15, <1>16, <1>17, <1>18
     DEF ClientNext, MainStep, WorkerStep

(* A handler keeps its chunk until it ends.                                *)
LEMMA CarriesOn ==
  ASSUME NEW r \in Requests, Moves(r)
  PROVE  /\ \A q \in Requests : chunk'[q] \in {chunk[q], None}
         /\ \A q \in Requests \ {r} : chunk'[q] = chunk[q]
         /\ pc'[r] # "idle" => chunk'[r] = chunk[r]
BY DEF Moves

(* While the init request runs no other one carries a chunk. *)
LEMMA NoneCarriedYet ==
  ASSUME TypeOK, SlotsAgree, CreatedAlone, CarriersUpload, NEW r \in Requests,
         pc[r] \in Creating
  PROVE  received[Session] = {} /\ \A q \in Requests : chunk[q] = None
<1>1. sess[r] = Session /\ On(r, Session, Creating)
  BY BusyOnSession DEF Creating, On
<1>2. "created" \notin answered[Session]
  BY <1>1 DEF CreatedAlone
<1>3. \A q \in Requests : pc[q] \in Creating \union {"idle"}
  BY <1>2, BusyOnSession DEF CreatedAlone
<1> QED
  BY <1>2, <1>3 DEF CarriersUpload, CreatedAlone, Creating, Uploading

(* The pieces a request has written stay those of its own nonce.           *)
LEMMA PiecesOfOneStep ==
  ASSUME Smooth, TypeOK, SlotsAgree, CreatedAlone, CarriersUpload, CarriersDiffer,
         PiecesOfOne, [ClientNext]_allVars
  PROVE  PiecesOfOne'
<1>1. CASE FramesStill
  <2> SUFFICES ASSUME NEW r \in Requests, chunk'[r] # None, NEW p \in 1..done'[r]
               PROVE  data'[Session][chunk'[r]][p] = nonce'[r]
    BY DEF PiecesOfOne
  <2>1. done'[r] = done[r] /\ data' = data /\ nonce' = nonce
    BY <1>1 DEF FramesStill
  <2>2. done[r] # 0
    BY <2>1
  <2>3. chunk'[r] = chunk[r]
    BY <1>1, <2>2 DEF FramesStill
  <2> QED
    BY <2>1, <2>3 DEF PiecesOfOne
<1>2. ASSUME NEW r \in Requests, BodyGone(r)
      PROVE  PiecesOfOne'
  <2>1. \A q \in Requests \ {r} :
          chunk'[q] = chunk[q] /\ done'[q] = done[q] /\ nonce'[q] = nonce[q]
    BY <1>2 DEF BodyGone
  <2>2. chunk'[r] = None /\ data' = data
    BY <1>2 DEF BodyGone, TypeOK
  <2> QED
    BY <2>1, <2>2 DEF PiecesOfOne
<1>3. ASSUME NEW r \in Requests, WritesOn(r), Moves(r)
      PROVE  PiecesOfOne'
  <2> SUFFICES ASSUME NEW q \in Requests, chunk'[q] # None, NEW p \in 1..done'[q]
               PROVE  data'[Session][chunk'[q]][p] = nonce'[q]
    BY DEF PiecesOfOne
  <2>1. chunk'[q] = chunk[q] /\ (q # r => done'[q] = done[q] /\ nonce'[q] = nonce[q])
    BY <1>3, CarriesOn DEF WritesOn
  <2>2. \A j \in 1..done[q] : data[Session][chunk[q]][j] = nonce[q]
    BY <2>1 DEF PiecesOfOne
  <2>3. done'[q] # 0
    OBVIOUS
  <2>4. CASE data' = data /\ done'[r] = done[r] /\ (done[r] # 0 => nonce'[r] = nonce[r])
    BY <2>1, <2>2, <2>3, <2>4
  <2>5. CASE data' = data /\ done'[r] = 0
    BY <2>1, <2>2, <2>3, <2>5
  <2>6. CASE /\ pc[r] = "writing" /\ nonce'[r] = nonce[r] /\ done'[r] = done[r] + 1
             /\ data' = [data EXCEPT ![sess[r]][chunk[r]][done[r] + 1] = nonce[r]]
    <3>1. sess[r] = Session /\ chunk[r] \in Chunks /\ done[r] + 1 \in PieceNumbers
      BY <2>6, BusyOnSession, FilesystemAssumption
      DEF SlotsAgree, Copying, PieceNumbers, TypeOK
    <3>2. CASE q = r
      <4>0. done[r] \in Nat /\ p \in 1..(done[r] + 1)
        BY <2>6, <3>2, FilesystemAssumption DEF TypeOK
      <4>1. p \in 1..done[r] \/ p = done[r] + 1
        BY <4>0
      <4>2. data'[Session][chunk[r]] = [data[Session][chunk[r]] EXCEPT ![done[r] + 1] = nonce[r]]
        BY <2>6, <3>1 DEF TypeOK
      <4> QED
        BY <2>1, <2>2, <2>6, <3>1, <3>2, <4>1, <4>2 DEF TypeOK
    <3>3. CASE q # r
      <4>1. chunk[q] # chunk[r]
        BY <2>1, <3>3 DEF CarriersDiffer
      <4>2. data'[Session][chunk[q]] = data[Session][chunk[q]]
        BY <2>1, <2>6, <3>1, <4>1 DEF TypeOK
      <4> QED
        BY <2>1, <2>2, <3>3, <4>2
    <3> QED
      BY <3>2, <3>3
  <2>7. CASE pc[r] = "init_call"
    BY <2>1, <2>7, NoneCarriedYet DEF Creating
  <2> QED
    BY <1>3, <2>4, <2>5, <2>6, <2>7 DEF WritesOn
<1> QED
  BY <1>1, <1>2, <1>3, FramesMoved DEF FramesMove

(* A chunk that is received, and not being written again, opens.           *)
LEMMA ReceivedOpensStep ==
  ASSUME Smooth, TypeOK, SlotsAgree, CreatedAlone, PhasesAgree, InStep, OneCarrier,
         PiecesOfOne, ReceivedOpens, [ClientNext]_allVars
  PROVE  ReceivedOpens'
<1> SUFFICES ASSUME ~cancelled', NEW i \in received'[Session],
                    \A r \in Requests : chunk'[r] = i => done'[r] = 0
             PROVE  Opens(Session, i)'
  BY DEF ReceivedOpens
<1>0. ~cancelled
  BY StaysCancelled
<1>1. CASE FramesStill
  <2>1. \A r \in Requests : chunk[r] = i => done[r] = 0
    BY <1>1 DEF FramesStill
  <2> QED
    BY <1>0, <1>1, <2>1 DEF FramesStill, ReceivedOpens, Opens
<1>2. ASSUME NEW r \in Requests, BodyGone(r)
      PROVE  Opens(Session, i)'
  <2>1. \A q \in Requests : chunk[q] = i => done[q] = 0
    BY <1>2 DEF BodyGone
  <2> QED
    BY <1>0, <1>2, <2>1 DEF BodyGone, ReceivedOpens, Opens
<1>3. ASSUME NEW r \in Requests, WritesOn(r), Moves(r)
      PROVE  Opens(Session, i)'
  <2>1. \A q \in Requests \ {r} : chunk[q] = i => done[q] = 0
    BY <1>3, CarriesOn DEF WritesOn
  <2>2. CASE /\ UNCHANGED <<data, received>> /\ done'[r] = done[r]
             /\ pc'[r] # "idle" \/ done[r] = 0
    <3>1. chunk[r] = i => done[r] = 0
      BY <1>3, <2>2, CarriesOn
    <3> QED
      BY <1>0, <2>1, <2>2, <3>1 DEF ReceivedOpens, Opens
  <2>3. CASE /\ data' = data /\ pc[r] = "landing"
             /\ received' = [received EXCEPT ![sess[r]] = @ \union {chunk[r]}]
    <3>1. sess[r] = Session /\ done[r] = Pieces /\ chunk[r] \in Chunks /\ nonce[r] \in Nonces
      BY <2>3, BusyOnSession DEF SlotsAgree, Copying
    <3>2. CASE i = chunk[r]
      <4>1. \A p \in PieceNumbers : data[Session][i][p] = nonce[r]
        BY <3>1, <3>2, HandlersAssumption DEF PiecesOfOne, PieceNumbers
      <4> QED
        BY <2>3, <3>1, <4>1 DEF Opens
    <3>3. CASE i # chunk[r]
      <4>1. i \in received[Session]
        BY <2>3, <3>1, <3>3 DEF TypeOK
      <4> QED
        BY <1>0, <2>1, <2>3, <3>3, <4>1 DEF ReceivedOpens, Opens
    <3> QED
      BY <3>2, <3>3
  <2>4. ~(pc[r] = "copying" /\ ~open[sess[r]])
    <3> SUFFICES ASSUME pc[r] = "copying" PROVE open[sess[r]]
      OBVIOUS
    <3>1. sess[r] = Session /\ chunk[r] # None
      BY BusyOnSession, HandlersAssumption DEF SlotsAgree, Copying
    <3>2. phase = "uploading"
      BY <1>0, <3>1 DEF OneCarrier, CarriersHeld, Holds, PhasesAgree
    <3> QED
      BY <3>1, <3>2 DEF InStep, Ready, Usable
  <2>5. CASE /\ pc[r] = "writing" /\ pc'[r] # "idle" /\ done'[r] = done[r] + 1
             /\ data' = [data EXCEPT ![sess[r]][chunk[r]][done[r] + 1] = nonce[r]]
             /\ UNCHANGED received
    <3>1. sess[r] = Session /\ chunk[r] \in Chunks /\ done[r] \in Nat
      BY <2>5, BusyOnSession, FilesystemAssumption DEF SlotsAgree, Copying, TypeOK
    <3>2. chunk'[r] = chunk[r]
      BY <1>3, <2>5, CarriesOn
    <3>3. i # chunk[r]
      BY <2>5, <3>1, <3>2
    <3>4. data'[Session][i] = data[Session][i]
      BY <2>5, <3>1, <3>3 DEF TypeOK
    <3>5. Opens(Session, i)
      BY <1>0, <2>1, <2>5, <3>3 DEF ReceivedOpens
    <3> QED
      BY <3>4, <3>5 DEF Opens
  <2>6. CASE pc[r] = "init_call" /\ UNCHANGED received
    BY <2>6, NoneCarriedYet DEF Creating, OneCarrier
  <2>7. CASE pc[r] = "registering" /\ received' = [received EXCEPT ![sess[r]] = {}]
    <3>1. sess[r] = Session
      BY <2>7, BusyOnSession
    <3> QED
      BY <2>7, <3>1 DEF TypeOK
  <2> QED
    BY <1>3, <2>2, <2>3, <2>4, <2>5, <2>6, <2>7 DEF WritesOn
<1> QED
  BY <1>1, <1>2, <1>3, FramesMoved DEF FramesMove

(***************************************************************************)
(* The second invariant, and what it says of an upload that only           *)
(* connections trouble.                                                    *)
(***************************************************************************)
LEMMA InitSmooth == ClientInit => SmoothIInv
<1> SUFFICES ASSUME ClientInit PROVE SmoothIInv
  OBVIOUS
<1> USE DEF ClientInit, Init, HandlersInit
<1>1. OneCarrier
  BY DEF OneCarrier, CarriersUpload, CarriersDiffer, CarriersHeld, CarriersWaited
<1>2. InStep
  BY DEF InStep
<1>3. NoneLost
  <2>1. \A i \in Chunks : ~(i < 0)
    <3>1. \A n \in Nat : ~(n < 0)
      OBVIOUS
    <3> QED
      BY <3>1, Constants
  <2> QED
    BY <2>1 DEF NoneLost, GivenOut, ExitsLast, OkIsReceived, AllAtComplete
<1>4. DropsCounted
  BY DEF DropsCounted, Holds
<1>5. FramesWhole
  BY DEF FramesWhole, PiecesOfOne, ReceivedOpens
<1> QED
  BY <1>1, <1>2, <1>3, <1>4, <1>5 DEF SmoothIInv

(* Every step of the client or its backend keeps the second invariant.     *)
LEMMA SmoothStep ==
  IInv /\ IInv' /\ SettledInv /\ ClientIInv /\ SmoothIInv /\ [ClientNext]_allVars
    => SmoothIInv'
<1> SUFFICES ASSUME IInv, IInv', SettledInv, ClientIInv, SmoothIInv, [ClientNext]_allVars,
                    Smooth
             PROVE  SmoothIInv'
  BY DEF SmoothIInv, Smooth
<1>1. OneCarrier /\ InStep /\ NoneLost /\ DropsCounted /\ FramesWhole
  BY DEF SmoothIInv
<1>2. TypeOK /\ SlotsAgree /\ CreatedAlone
  BY DEF IInv
<1>3. /\ ClientTypeOK /\ MainWaits /\ WorkersWait
      /\ PhasesAgree /\ OwnChunks
  BY DEF ClientIInv
<1>4. CarriersUpload /\ CarriersDiffer /\ CarriersHeld /\ CarriersWaited
  BY <1>1 DEF OneCarrier
<1>5. GivenOut /\ ExitsLast /\ OkIsReceived /\ AllAtComplete
  BY <1>1 DEF NoneLost
<1>6. PiecesOfOne /\ ReceivedOpens
  BY <1>1 DEF FramesWhole
<1>7. ~overdue[Session]
  BY <1>1 DEF InStep
<1>8. OneCarrier'
  BY <1>2, <1>3, <1>4, <1>7, CarriersUploadStep, CarriersDifferStep, CarriersHeldStep,
     CarriersWaitedStep DEF OneCarrier
<1>9. InStep'
  BY <1>1, <1>5, InStepStep
<1>10. NoneLost'
  <2>1. received'[Session] \subseteq Chunks
    BY Constants DEF IInv, TypeOK
  <2>2. GivenOut' /\ ExitsLast'
    BY <1>2, <1>3, <1>5, GivenOutStep, ExitsLastStep
  <2>3. OkIsReceived'
    BY <1>2, <1>3, <1>4, <1>5, OkIsReceivedStep
  <2>4. AllAtComplete'
    BY <1>2, <1>3, <1>5, <2>1, AllAtCompleteStep
  <2> QED
    BY <2>2, <2>3, <2>4 DEF NoneLost
<1>11. DropsCounted'
  BY <1>1, <1>2, <1>3, DropsCountedStep
<1>12. FramesWhole'
  BY <1>1, <1>2, <1>3, <1>4, <1>6, PiecesOfOneStep, ReceivedOpensStep DEF FramesWhole
<1> QED
  BY <1>8, <1>9, <1>10, <1>11, <1>12 DEF SmoothIInv

(* The second invariant holds always. *)
THEOREM SmoothInvariance == ClientSpec => []SmoothIInv
<1>1. ClientInit => SmoothIInv
  BY InitSmooth
<1>2. IInv /\ IInv' /\ SettledInv /\ ClientIInv /\ SmoothIInv /\ [ClientNext]_allVars
        => SmoothIInv'
  BY SmoothStep
<1>3. ClientSpec => []SettledInv
  BY ClientImplements, SettledInvariance
<1> QED
  BY <1>1, <1>2, <1>3, ClientInvariance, PTL DEF ClientSpec

(* Where the requests are when only the main line's can be ahead. *)
LEMMA WhereTheyAre ==
  ASSUME Smooth, IInv, ClientIInv, SmoothIInv,
         phase \notin {"completing", "succeeded"}, lost # "completing"
  PROVE  /\ disk[Session] # "final"
         /\ \A r \in Requests : pc[r] \in Creating \union Uploading \union Aborting \union {"idle"}
<1>1. /\ InStep /\ TypeOK /\ SlotsAgree /\ CreatedAlone /\ MainWaits /\ ClientTypeOK
      /\ main # None => main \in Requests
  BY DEF SmoothIInv, IInv, ClientIInv, ClientTypeOK
<1>2. CASE row[Session] = "none"
  <2>1. disk[Session] = "none" /\ Untouched(Session)
    BY <1>1, <1>2 DEF CreatedAlone
  <2>2. \A r \in Requests : pc[r] = "idle"
    BY <1>1, <2>1, BusyOnSession DEF Untouched
  <2> QED
    BY <2>1, <2>2
<1>3. CASE Ready
  BY <1>3 DEF Ready, OnlyChunks, Usable
<1>4. CASE main # None /\ Opening
  <2>1. \A r \in Requests : r # main => pc[r] = "idle"
    BY <1>1, <1>4, AloneWhileOpening
  <2>2. disk[Session] \in {"none", "part"}
    BY <1>1, <1>4 DEF Opening, CreatedAlone, On, Creating
  <2> QED
    BY <1>4, <2>1, <2>2 DEF Opening, On
<1>5. CASE main # None /\ Discarding
  <2>1. disk[Session] # "final"
    BY <1>5 DEF Discarding, DiscardPlaces, On, Aborting, Usable
  <2> QED
    BY <1>5, <2>1 DEF Discarding, On
<1>6. CASE DiscardedFor
  BY <1>6 DEF DiscardedFor, OnlyChunks
<1>7. CASE phase = "failed"
  BY <1>1, <1>2, <1>3, <1>4, <1>5, <1>6, <1>7 DEF InStep, FailedWhere, Fresh, ClientTypeOK, Losses
<1> QED
  <2>1. phase \in {"opening", "aborting"} => main # None /\ fetch[main] \in {"waiting", "ok"}
    BY <1>1 DEF MainWaits, InStep, ClientTypeOK, Fetches
  <2>2. phase \in {"start", "opening", "uploading", "aborting", "failed"}
    BY <1>1 DEF ClientTypeOK, Phases
  <2> QED
    BY <1>1, <1>2, <1>3, <1>4, <1>5, <1>6, <1>7, <2>1, <2>2 DEF InStep, Fresh

(* A complete never finds a chunk missing: the counter gives out every     *)
(* chunk, and a worker that exits has had its answer.                      *)
THEOREM CompleteFindsEveryChunk == Smooth => (ClientSpec => []CompleteFindsAll)
<1> SUFFICES ASSUME Smooth PROVE ClientSpec => []CompleteFindsAll
  OBVIOUS
<1>1. IInv /\ ClientIInv /\ SmoothIInv => CompleteFindsAll
  <2> SUFFICES ASSUME IInv, ClientIInv, SmoothIInv,
                      NEW r \in Requests, pc[r] = "counting"
               PROVE  AllReceived(Session)
    BY DEF CompleteFindsAll
  <2>1. phase \in {"completing", "succeeded"} \/ lost = "completing"
    BY WhereTheyAre DEF Creating, Uploading, Aborting
  <2> QED
    BY <2>1 DEF SmoothIInv, NoneLost, AllAtComplete, AllReceived
<1> QED
  BY <1>1, ClientInvariance, SmoothInvariance, PTL

(* Once all is quiet, an upload that succeeded has left one listed file,   *)
(* and one that failed exactly what the request it lost can leave: with    *)
(* none lost, nothing; with the init or the abort lost, at most a session  *)
(* still open; with the complete lost, the file listed after all, or all   *)
(* its chunks in a session still open.                                     *)
THEOREM OutcomeIsClean == Smooth => (ClientSpec => []CleanOutcome)
<1> SUFFICES ASSUME Smooth PROVE ClientSpec => []CleanOutcome
  OBVIOUS
<1>1. IInv /\ ClientIInv /\ SmoothIInv => CleanOutcome
  <2> SUFFICES ASSUME IInv, ClientIInv, SmoothIInv, phase \in {"succeeded", "failed"}, AllIdle
               PROVE  Left
    BY DEF CleanOutcome, Quiet, AllIdle
  <2>1. InStep /\ AllAtComplete /\ lost \in Losses /\ (lost # "none" => phase = "failed")
    BY DEF SmoothIInv, NoneLost, ClientIInv, ClientTypeOK, PhasesAgree
  <2>2. StoredAlone => Stored
    <3>1. ASSUME StoredAlone PROVE files[Session] = 1
      <4>1. files[Session] > 0
        BY <3>1, Constants DEF StoredAlone, IInv, CompletedIsStored
      <4>2. files[Session] \in Nat /\ files[Session] <= 1
        BY Constants DEF IInv, TypeOK, OneRowPerSession
      <4> QED
        BY <4>1, <4>2
    <3> QED
      BY <3>1 DEF StoredAlone, Stored, Gone
  <2>3. DiscardedFor => Discarded
    BY DEF DiscardedFor, Discarded, Gone
  <2>4. Ready => LeftOpen
    BY DEF Ready, Usable, LeftOpen
  <2>5. row[Session] = "none" => NeverOpened
    <3>1. ASSUME row[Session] = "none" PROVE NeverOpened
      <4>1. disk[Session] = "none" /\ answered[Session] = {}
        BY <3>1, Constants DEF IInv, CreatedAlone
      <4>2. ~registered[Session] /\ files[Session] = 0
        BY <4>1, Constants DEF IInv, CreatedAlone
      <4>3. ~open[Session]
        BY <4>1, Constants DEF IInv, HandleOnPart
      <4> QED
        BY <3>1, <4>2, <4>3 DEF NeverOpened, Gone
    <3> QED
      BY <3>1
  <2>6. ~(main # None /\ (Opening \/ Finalizing \/ Discarding))
    BY DEF AllIdle, Opening, Finalizing, Discarding, On, Creating, Completing, Aborting,
       ClientIInv, ClientTypeOK
  <2>7. CASE phase = "succeeded"
    BY <2>1, <2>2, <2>7 DEF InStep, Left
  <2>8. CASE phase = "failed" /\ lost = "none"
    BY <2>1, <2>3, <2>5, <2>8 DEF InStep, FailedWhere, Left
  <2>9. CASE phase = "failed" /\ lost = "opening"
    BY <2>1, <2>4, <2>5, <2>6, <2>9 DEF InStep, FailedWhere, Left, Fresh
  <2>10. CASE phase = "failed" /\ lost = "completing"
    BY <2>1, <2>2, <2>4, <2>6, <2>10 DEF InStep, FailedWhere, Left, AllAtComplete, AllReceived
  <2>11. CASE phase = "failed" /\ lost = "aborting"
    BY <2>1, <2>3, <2>4, <2>6, <2>11 DEF InStep, FailedWhere, Left
  <2> QED
    BY <2>1, <2>7, <2>8, <2>9, <2>10, <2>11 DEF Losses
<1> QED
  BY <1>1, ClientInvariance, SmoothInvariance, PTL

(* An upload that was opened and lost neither its init nor its complete    *)
(* fails only if connections dropped more often than one chunk may be      *)
(* retried.                                                                *)
THEOREM FailsByDrops == Smooth => (ClientSpec => []FailsOnlyByDrops)
<1> SUFFICES ASSUME Smooth PROVE ClientSpec => []FailsOnlyByDrops
  OBVIOUS
<1>1. ClientIInv /\ SmoothIInv => FailsOnlyByDrops
  BY DEF SmoothIInv, DropsCounted, FailsOnlyByDrops, ClientIInv, ClientTypeOK, PhasesAgree, Losses
<1> QED
  BY <1>1, ClientInvariance, SmoothInvariance, PTL

(* Every frame of a published file opens: this client never has two        *)
(* requests write one chunk.                                               *)
THEOREM PublishedOpens == Smooth => (ClientSpec => []PublishedFileOpens)
<1> SUFFICES ASSUME Smooth PROVE ClientSpec => []PublishedFileOpens
  OBVIOUS
<1>1. IInv /\ ClientIInv /\ SmoothIInv => PublishedFileOpens
  <2> SUFFICES ASSUME IInv, ClientIInv, SmoothIInv, disk[Session] = "final",
                      NEW i \in Chunks
               PROVE  Opens(Session, i)
    BY Constants DEF PublishedFileOpens
  <2>1. phase \in {"completing", "succeeded"} \/ lost = "completing"
    BY WhereTheyAre
  <2>2. ~cancelled /\ i \in received[Session]
    BY <2>1 DEF SmoothIInv, NoneLost, AllAtComplete, ClientIInv, PhasesAgree
  <2>3. \A r \in Requests : chunk[r] = None
    <3>1. \A w \in Workers : ~Holds(w)
      BY <2>1 DEF ClientIInv, PhasesAgree, Holds
    <3> QED
      BY <2>2, <3>1 DEF SmoothIInv, OneCarrier, CarriersHeld
  <2> QED
    BY <2>2, <2>3, HandlersAssumption DEF SmoothIInv, FramesWhole, ReceivedOpens
<1> QED
  BY <1>1, ClientInvariance, SmoothInvariance, PTL

=============================================================================
