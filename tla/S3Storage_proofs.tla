-------------------------- MODULE S3Storage_proofs --------------------------
(***************************************************************************)
(* Theorems of S3Storage, for every value of its constants.                *)
(***************************************************************************)
EXTENDS S3Storage, TLAPS

USE HandlersAssumption, S3Assumption

(***************************************************************************)
(* The inductive invariant holds at the start and every step keeps it, one *)
(* lemma for each of its parts.                                            *)
(***************************************************************************)
LEMMA InitIInv == Init => IInv
BY DEF Init, HandlersInit, IInv, TypeOK, Statuses, Answers, Places,
       HandlerPlaces, StoragePlaces, UploadStates, PartLists, NoParts,
       SlotsAgree, Sending, CreatedAlone, Creating, On, Untouched, OneRecorder,
       Recording, ObjectIsComplete, OneRowPerSession, RowHasObject,
       CompletedIsStored

(* Types, and what a busy slot says of itself. *)
LEMMA TypeStep == IInv /\ [Next]_vars => TypeOK' /\ SlotsAgree'
<1> SUFFICES ASSUME IInv, [Next]_vars PROVE TypeOK' /\ SlotsAgree'
  OBVIOUS
<1> USE DEF IInv, Starts, GoesTo, Ends, Proceeds, Replies, SaveStatus, AnswerCreated,
           tableVars, reqVars, storeVars, storageVars
<1> USE DEF TypeOK, SlotsAgree, Sending, PartLists
<1> USE DEF NoParts, Statuses, Answers, UploadStates, Places, HandlerPlaces,
           StoragePlaces
<1>1. ASSUME NEW r \in Requests, NEW s \in Sessions, CreateSession(r, s), UNCHANGED storageVars
      PROVE  TypeOK' /\ SlotsAgree'
  BY <1>1 DEF CreateSession
<1>2. ASSUME NEW r \in Requests, NEW s \in Sessions, NEW i \in Chunks, UploadChunk(r, s, i), UNCHANGED storageVars
      PROVE  TypeOK' /\ SlotsAgree'
  BY <1>2 DEF UploadChunk
<1>3. ASSUME NEW r \in Requests, NEW s \in Sessions, CompleteChunkedUpload(r, s), UNCHANGED storageVars
      PROVE  TypeOK' /\ SlotsAgree'
  BY <1>3 DEF CompleteChunkedUpload
<1>4. ASSUME NEW r \in Requests, NEW s \in Sessions, AbortChunkedUpload(r, s), UNCHANGED storageVars
      PROVE  TypeOK' /\ SlotsAgree'
  BY <1>4 DEF AbortChunkedUpload
<1>5. ASSUME NEW r \in Requests, ExpireSession(r), UNCHANGED storageVars
      PROVE  TypeOK' /\ SlotsAgree'
  BY <1>5 DEF ExpireSession
<1>6. ASSUME NEW r \in Requests, CreateFileRecord(r), UNCHANGED storageVars
      PROVE  TypeOK' /\ SlotsAgree'
  BY <1>6 DEF CreateFileRecord
<1>7. ASSUME NEW r \in Requests, FileRecordFails(r), UNCHANGED storageVars
      PROVE  TypeOK' /\ SlotsAgree'
  BY <1>7 DEF FileRecordFails
<1>8. ASSUME NEW r \in Requests, MarkCompleted(r), UNCHANGED storageVars
      PROVE  TypeOK' /\ SlotsAgree'
  BY <1>8 DEF MarkCompleted
<1>9. ASSUME NEW r \in Requests, MarkCancelled(r), UNCHANGED storageVars
      PROVE  TypeOK' /\ SlotsAgree'
  BY <1>9 DEF MarkCancelled
<1>10. ASSUME NEW r \in Requests, CreateMultipartUpload(r)
      PROVE  TypeOK' /\ SlotsAgree'
  <2>1. /\ pc[r] = "init_call"
        /\ multipart' = [multipart EXCEPT ![sess[r]] = "open"]
        /\ UNCHANGED <<registered, parts, bucket, seal, listed>>
    BY <1>10 DEF CreateMultipartUpload
  <2>2. CASE Proceeds(r, "registering")
    BY <2>1, <2>2
  <2>3. CASE Replies(r)
    BY <2>1, <2>3
  <2> QED
    BY <1>10, <2>2, <2>3 DEF CreateMultipartUpload, Answered
<1>11. ASSUME NEW r \in Requests, RegisterUpload(r)
      PROVE  TypeOK' /\ SlotsAgree'
  BY <1>11 DEF RegisterUpload
<1>12. ASSUME NEW r \in Requests, BeginPart(r)
      PROVE  TypeOK' /\ SlotsAgree'
  <2>1. PICK n \in Seals : seal' = [seal EXCEPT ![r] = n]
    BY <1>12 DEF BeginPart
  <2>2. /\ pc[r] = "chunk_call"
        /\ Proceeds(r, "streaming")
        /\ UNCHANGED <<registered, parts, storeVars, listed>>
    BY <1>12 DEF BeginPart
  <2> QED
    BY <2>1, <2>2
<1>13. ASSUME NEW r \in Requests, UploadPart(r)
      PROVE  TypeOK' /\ SlotsAgree'
  BY <1>13 DEF UploadPart, Stores
<1>14. ASSUME NEW r \in Requests, UploadPartUnanswered(r)
      PROVE  TypeOK' /\ SlotsAgree'
  <2>1. /\ pc[r] \in {"streaming", "replaying"}
        /\ Stores(r)
    BY <1>14 DEF UploadPartUnanswered
  <2>2. CASE pc[r] = "streaming"
    <3>1. Proceeds(r, "replaying") /\ UNCHANGED seal
      BY <1>14, <2>2 DEF UploadPartUnanswered
    <3> QED
      BY <2>1, <2>2, <3>1 DEF Stores
  <2>3. CASE pc[r] = "replaying"
    <3>1. Replies(r) /\ seal' = [seal EXCEPT ![r] = None]
      BY <1>14, <2>3 DEF UploadPartUnanswered
    <3> QED
      BY <2>1, <2>3, <3>1 DEF Stores
  <2> QED
    BY <2>1, <2>2, <2>3
<1>15. ASSUME NEW r \in Requests, StreamFails(r)
      PROVE  TypeOK' /\ SlotsAgree'
  BY <1>15 DEF StreamFails, Refusing
<1>16. ASSUME NEW r \in Requests, NothingToReplay(r)
      PROVE  TypeOK' /\ SlotsAgree'
  BY <1>16 DEF NothingToReplay
<1>17. ASSUME NEW r \in Requests, ReplayFails(r)
      PROVE  TypeOK' /\ SlotsAgree'
  BY <1>17 DEF ReplayFails, Refusing
<1>18. ASSUME NEW r \in Requests, RecordPart(r)
      PROVE  TypeOK' /\ SlotsAgree'
  BY <1>18 DEF RecordPart
<1>19. ASSUME NEW r \in Requests, TakeParts(r)
      PROVE  TypeOK' /\ SlotsAgree'
  BY <1>19 DEF TakeParts, AllRecorded
<1>20. ASSUME NEW r \in Requests, CompleteMultipartUpload(r)
      PROVE  TypeOK' /\ SlotsAgree'
  <2>1. /\ pc[r] = "completing"
        /\ Completes(sess[r], listed[r])
        /\ multipart' = [multipart EXCEPT ![sess[r]] = "completed"]
        /\ listed' = [listed EXCEPT ![r] = NoParts]
        /\ UNCHANGED <<registered, parts, bucket, seal>>
    BY <1>20 DEF CompleteMultipartUpload
  <2>2. CASE Proceeds(r, "dropping")
    BY <2>1, <2>2 DEF Completes
  <2>3. CASE Replies(r)
    BY <2>1, <2>3 DEF Completes
  <2> QED
    BY <1>20, <2>2, <2>3 DEF CompleteMultipartUpload, Answered
<1>21. ASSUME NEW r \in Requests, CompleteFails(r)
      PROVE  TypeOK' /\ SlotsAgree'
  BY <1>21 DEF CompleteFails
<1>22. ASSUME NEW r \in Requests, DropUpload(r)
      PROVE  TypeOK' /\ SlotsAgree'
  BY <1>22 DEF DropUpload
<1>23. ASSUME NEW r \in Requests, Deregister(r)
      PROVE  TypeOK' /\ SlotsAgree'
  BY <1>23 DEF Deregister
<1>24. ASSUME NEW r \in Requests, AbortMultipartUpload(r)
      PROVE  TypeOK' /\ SlotsAgree'
  BY <1>24 DEF AbortMultipartUpload
<1>25. ASSUME NEW r \in Requests, AbortFails(r)
      PROVE  TypeOK' /\ SlotsAgree'
  BY <1>25 DEF AbortFails, Refusing
<1>26. ASSUME NEW r \in Requests, StorageRefuses(r)
      PROVE  TypeOK' /\ SlotsAgree'
  BY <1>26 DEF StorageRefuses
<1>27. ASSUME NEW s \in Sessions, Expire(s), UNCHANGED storageVars
      PROVE  TypeOK' /\ SlotsAgree'
  BY <1>27 DEF Expire
<1>28. CASE Restart
  BY <1>28 DEF Restart, HandlersDie, NoParts
<1>29. CASE UNCHANGED vars
  BY <1>29 DEF vars, handlerVars
<1> QED BY <1>1, <1>2, <1>3, <1>4, <1>5, <1>6, <1>7, <1>8, <1>9, <1>10, <1>11,
     <1>12, <1>13, <1>14, <1>15, <1>16, <1>17, <1>18, <1>19, <1>20, <1>21,
     <1>22, <1>23, <1>24, <1>25, <1>26, <1>27, <1>28, <1>29
     DEF Next, Arrives, InHandler, HandlerStep, InStorage, TimePasses

(* A session's init request has it to itself until it answers. *)
LEMMA CreatedStep == IInv /\ [Next]_vars => CreatedAlone'
<1> SUFFICES ASSUME IInv, [Next]_vars PROVE CreatedAlone'
  OBVIOUS
<1> USE DEF IInv, Starts, GoesTo, Ends, Proceeds, Replies, SaveStatus, AnswerCreated,
           tableVars, reqVars, storeVars, storageVars
<1> USE DEF TypeOK, SlotsAgree, Sending, PartLists
<1> USE DEF CreatedAlone, Creating, On, Untouched, LoadActiveSession
<1>1. ASSUME NEW r \in Requests, NEW s \in Sessions, CreateSession(r, s), UNCHANGED storageVars
      PROVE  CreatedAlone'
  BY <1>1 DEF CreateSession
<1>2. ASSUME NEW r \in Requests, NEW s \in Sessions, NEW i \in Chunks, UploadChunk(r, s, i), UNCHANGED storageVars
      PROVE  CreatedAlone'
  BY <1>2 DEF UploadChunk
<1>3. ASSUME NEW r \in Requests, NEW s \in Sessions, CompleteChunkedUpload(r, s), UNCHANGED storageVars
      PROVE  CreatedAlone'
  BY <1>3 DEF CompleteChunkedUpload
<1>4. ASSUME NEW r \in Requests, NEW s \in Sessions, AbortChunkedUpload(r, s), UNCHANGED storageVars
      PROVE  CreatedAlone'
  BY <1>4 DEF AbortChunkedUpload
<1>5. ASSUME NEW r \in Requests, ExpireSession(r), UNCHANGED storageVars
      PROVE  CreatedAlone'
  BY <1>5 DEF ExpireSession
<1>6. ASSUME NEW r \in Requests, CreateFileRecord(r), UNCHANGED storageVars
      PROVE  CreatedAlone'
  BY <1>6 DEF CreateFileRecord
<1>7. ASSUME NEW r \in Requests, FileRecordFails(r), UNCHANGED storageVars
      PROVE  CreatedAlone'
  BY <1>7 DEF FileRecordFails
<1>8. ASSUME NEW r \in Requests, MarkCompleted(r), UNCHANGED storageVars
      PROVE  CreatedAlone'
  BY <1>8 DEF MarkCompleted
<1>9. ASSUME NEW r \in Requests, MarkCancelled(r), UNCHANGED storageVars
      PROVE  CreatedAlone'
  BY <1>9 DEF MarkCancelled
<1>10. ASSUME NEW r \in Requests, CreateMultipartUpload(r)
      PROVE  CreatedAlone'
  <2>1. /\ pc[r] = "init_call"
        /\ multipart' = [multipart EXCEPT ![sess[r]] = "open"]
        /\ UNCHANGED <<registered, parts, bucket, seal, listed>>
    BY <1>10 DEF CreateMultipartUpload
  <2>2. CASE Proceeds(r, "registering")
    BY <2>1, <2>2
  <2>3. CASE Replies(r)
    BY <2>1, <2>3
  <2> QED
    BY <1>10, <2>2, <2>3 DEF CreateMultipartUpload, Answered
<1>11. ASSUME NEW r \in Requests, RegisterUpload(r)
      PROVE  CreatedAlone'
  BY <1>11 DEF RegisterUpload
<1>12. ASSUME NEW r \in Requests, BeginPart(r)
      PROVE  CreatedAlone'
  <2>1. PICK n \in Seals : seal' = [seal EXCEPT ![r] = n]
    BY <1>12 DEF BeginPart
  <2>2. /\ pc[r] = "chunk_call"
        /\ Proceeds(r, "streaming")
        /\ UNCHANGED <<registered, parts, storeVars, listed>>
    BY <1>12 DEF BeginPart
  <2> QED
    BY <2>1, <2>2
<1>13. ASSUME NEW r \in Requests, UploadPart(r)
      PROVE  CreatedAlone'
  BY <1>13 DEF UploadPart, Stores
<1>14. ASSUME NEW r \in Requests, UploadPartUnanswered(r)
      PROVE  CreatedAlone'
  <2>1. /\ pc[r] \in {"streaming", "replaying"}
        /\ Stores(r)
    BY <1>14 DEF UploadPartUnanswered
  <2>2. CASE pc[r] = "streaming"
    <3>1. Proceeds(r, "replaying") /\ UNCHANGED seal
      BY <1>14, <2>2 DEF UploadPartUnanswered
    <3> QED
      BY <2>1, <2>2, <3>1 DEF Stores
  <2>3. CASE pc[r] = "replaying"
    <3>1. Replies(r) /\ seal' = [seal EXCEPT ![r] = None]
      BY <1>14, <2>3 DEF UploadPartUnanswered
    <3> QED
      BY <2>1, <2>3, <3>1 DEF Stores
  <2> QED
    BY <2>1, <2>2, <2>3
<1>15. ASSUME NEW r \in Requests, StreamFails(r)
      PROVE  CreatedAlone'
  BY <1>15 DEF StreamFails, Refusing
<1>16. ASSUME NEW r \in Requests, NothingToReplay(r)
      PROVE  CreatedAlone'
  BY <1>16 DEF NothingToReplay
<1>17. ASSUME NEW r \in Requests, ReplayFails(r)
      PROVE  CreatedAlone'
  BY <1>17 DEF ReplayFails, Refusing
<1>18. ASSUME NEW r \in Requests, RecordPart(r)
      PROVE  CreatedAlone'
  BY <1>18 DEF RecordPart
<1>19. ASSUME NEW r \in Requests, TakeParts(r)
      PROVE  CreatedAlone'
  BY <1>19 DEF TakeParts, AllRecorded
<1>20. ASSUME NEW r \in Requests, CompleteMultipartUpload(r)
      PROVE  CreatedAlone'
  <2>1. /\ pc[r] = "completing"
        /\ Completes(sess[r], listed[r])
        /\ multipart' = [multipart EXCEPT ![sess[r]] = "completed"]
        /\ listed' = [listed EXCEPT ![r] = NoParts]
        /\ UNCHANGED <<registered, parts, bucket, seal>>
    BY <1>20 DEF CompleteMultipartUpload
  <2>2. CASE Proceeds(r, "dropping")
    BY <2>1, <2>2 DEF Completes
  <2>3. CASE Replies(r)
    BY <2>1, <2>3 DEF Completes
  <2> QED
    BY <1>20, <2>2, <2>3 DEF CompleteMultipartUpload, Answered
<1>21. ASSUME NEW r \in Requests, CompleteFails(r)
      PROVE  CreatedAlone'
  BY <1>21 DEF CompleteFails
<1>22. ASSUME NEW r \in Requests, DropUpload(r)
      PROVE  CreatedAlone'
  BY <1>22 DEF DropUpload
<1>23. ASSUME NEW r \in Requests, Deregister(r)
      PROVE  CreatedAlone'
  BY <1>23 DEF Deregister
<1>24. ASSUME NEW r \in Requests, AbortMultipartUpload(r)
      PROVE  CreatedAlone'
  BY <1>24 DEF AbortMultipartUpload
<1>25. ASSUME NEW r \in Requests, AbortFails(r)
      PROVE  CreatedAlone'
  BY <1>25 DEF AbortFails, Refusing
<1>26. ASSUME NEW r \in Requests, StorageRefuses(r)
      PROVE  CreatedAlone'
  BY <1>26 DEF StorageRefuses
<1>27. ASSUME NEW s \in Sessions, Expire(s), UNCHANGED storageVars
      PROVE  CreatedAlone'
  BY <1>27 DEF Expire
<1>28. CASE Restart
  BY <1>28 DEF Restart, HandlersDie, NoParts
<1>29. CASE UNCHANGED vars
  BY <1>29 DEF vars, handlerVars
<1> QED BY <1>1, <1>2, <1>3, <1>4, <1>5, <1>6, <1>7, <1>8, <1>9, <1>10, <1>11,
     <1>12, <1>13, <1>14, <1>15, <1>16, <1>17, <1>18, <1>19, <1>20, <1>21,
     <1>22, <1>23, <1>24, <1>25, <1>26, <1>27, <1>28, <1>29
     DEF Next, Arrives, InHandler, HandlerStep, InStorage, TimePasses

(* The store completes an upload once, so one request comes to record it. *)
LEMMA RecorderStep == IInv /\ [Next]_vars => OneRecorder'
<1> SUFFICES ASSUME IInv, [Next]_vars PROVE OneRecorder'
  OBVIOUS
<1> USE DEF IInv, Starts, GoesTo, Ends, Proceeds, Replies, SaveStatus, AnswerCreated,
           tableVars, reqVars, storeVars, storageVars
<1> USE DEF TypeOK, SlotsAgree, Sending, PartLists
<1> USE DEF OneRecorder, Recording, RowHasObject, CreatedAlone, Creating, On
<1>1. ASSUME NEW r \in Requests, NEW s \in Sessions, CreateSession(r, s), UNCHANGED storageVars
      PROVE  OneRecorder'
  BY <1>1 DEF CreateSession
<1>2. ASSUME NEW r \in Requests, NEW s \in Sessions, NEW i \in Chunks, UploadChunk(r, s, i), UNCHANGED storageVars
      PROVE  OneRecorder'
  BY <1>2 DEF UploadChunk
<1>3. ASSUME NEW r \in Requests, NEW s \in Sessions, CompleteChunkedUpload(r, s), UNCHANGED storageVars
      PROVE  OneRecorder'
  BY <1>3 DEF CompleteChunkedUpload
<1>4. ASSUME NEW r \in Requests, NEW s \in Sessions, AbortChunkedUpload(r, s), UNCHANGED storageVars
      PROVE  OneRecorder'
  BY <1>4 DEF AbortChunkedUpload
<1>5. ASSUME NEW r \in Requests, ExpireSession(r), UNCHANGED storageVars
      PROVE  OneRecorder'
  BY <1>5 DEF ExpireSession
<1>6. ASSUME NEW r \in Requests, CreateFileRecord(r), UNCHANGED storageVars
      PROVE  OneRecorder'
  BY <1>6 DEF CreateFileRecord
<1>7. ASSUME NEW r \in Requests, FileRecordFails(r), UNCHANGED storageVars
      PROVE  OneRecorder'
  BY <1>7 DEF FileRecordFails
<1>8. ASSUME NEW r \in Requests, MarkCompleted(r), UNCHANGED storageVars
      PROVE  OneRecorder'
  BY <1>8 DEF MarkCompleted
<1>9. ASSUME NEW r \in Requests, MarkCancelled(r), UNCHANGED storageVars
      PROVE  OneRecorder'
  BY <1>9 DEF MarkCancelled
<1>10. ASSUME NEW r \in Requests, CreateMultipartUpload(r)
      PROVE  OneRecorder'
  <2>1. /\ pc[r] = "init_call"
        /\ multipart' = [multipart EXCEPT ![sess[r]] = "open"]
        /\ UNCHANGED <<registered, parts, bucket, seal, listed>>
    BY <1>10 DEF CreateMultipartUpload
  <2>2. CASE Proceeds(r, "registering")
    BY <2>1, <2>2
  <2>3. CASE Replies(r)
    BY <2>1, <2>3
  <2> QED
    BY <1>10, <2>2, <2>3 DEF CreateMultipartUpload, Answered
<1>11. ASSUME NEW r \in Requests, RegisterUpload(r)
      PROVE  OneRecorder'
  BY <1>11 DEF RegisterUpload
<1>12. ASSUME NEW r \in Requests, BeginPart(r)
      PROVE  OneRecorder'
  <2>1. PICK n \in Seals : seal' = [seal EXCEPT ![r] = n]
    BY <1>12 DEF BeginPart
  <2>2. /\ pc[r] = "chunk_call"
        /\ Proceeds(r, "streaming")
        /\ UNCHANGED <<registered, parts, storeVars, listed>>
    BY <1>12 DEF BeginPart
  <2> QED
    BY <2>1, <2>2
<1>13. ASSUME NEW r \in Requests, UploadPart(r)
      PROVE  OneRecorder'
  BY <1>13 DEF UploadPart, Stores
<1>14. ASSUME NEW r \in Requests, UploadPartUnanswered(r)
      PROVE  OneRecorder'
  <2>1. /\ pc[r] \in {"streaming", "replaying"}
        /\ Stores(r)
    BY <1>14 DEF UploadPartUnanswered
  <2>2. CASE pc[r] = "streaming"
    <3>1. Proceeds(r, "replaying") /\ UNCHANGED seal
      BY <1>14, <2>2 DEF UploadPartUnanswered
    <3> QED
      BY <2>1, <2>2, <3>1 DEF Stores
  <2>3. CASE pc[r] = "replaying"
    <3>1. Replies(r) /\ seal' = [seal EXCEPT ![r] = None]
      BY <1>14, <2>3 DEF UploadPartUnanswered
    <3> QED
      BY <2>1, <2>3, <3>1 DEF Stores
  <2> QED
    BY <2>1, <2>2, <2>3
<1>15. ASSUME NEW r \in Requests, StreamFails(r)
      PROVE  OneRecorder'
  BY <1>15 DEF StreamFails, Refusing
<1>16. ASSUME NEW r \in Requests, NothingToReplay(r)
      PROVE  OneRecorder'
  BY <1>16 DEF NothingToReplay
<1>17. ASSUME NEW r \in Requests, ReplayFails(r)
      PROVE  OneRecorder'
  BY <1>17 DEF ReplayFails, Refusing
<1>18. ASSUME NEW r \in Requests, RecordPart(r)
      PROVE  OneRecorder'
  BY <1>18 DEF RecordPart
<1>19. ASSUME NEW r \in Requests, TakeParts(r)
      PROVE  OneRecorder'
  BY <1>19 DEF TakeParts, AllRecorded
<1>20. ASSUME NEW r \in Requests, CompleteMultipartUpload(r)
      PROVE  OneRecorder'
  <2>1. /\ pc[r] = "completing"
        /\ Completes(sess[r], listed[r])
        /\ multipart' = [multipart EXCEPT ![sess[r]] = "completed"]
        /\ listed' = [listed EXCEPT ![r] = NoParts]
        /\ UNCHANGED <<registered, parts, bucket, seal>>
    BY <1>20 DEF CompleteMultipartUpload
  <2>2. CASE Proceeds(r, "dropping")
    BY <2>1, <2>2 DEF Completes
  <2>3. CASE Replies(r)
    BY <2>1, <2>3 DEF Completes
  <2> QED
    BY <1>20, <2>2, <2>3 DEF CompleteMultipartUpload, Answered
<1>21. ASSUME NEW r \in Requests, CompleteFails(r)
      PROVE  OneRecorder'
  BY <1>21 DEF CompleteFails
<1>22. ASSUME NEW r \in Requests, DropUpload(r)
      PROVE  OneRecorder'
  BY <1>22 DEF DropUpload
<1>23. ASSUME NEW r \in Requests, Deregister(r)
      PROVE  OneRecorder'
  BY <1>23 DEF Deregister
<1>24. ASSUME NEW r \in Requests, AbortMultipartUpload(r)
      PROVE  OneRecorder'
  BY <1>24 DEF AbortMultipartUpload
<1>25. ASSUME NEW r \in Requests, AbortFails(r)
      PROVE  OneRecorder'
  BY <1>25 DEF AbortFails, Refusing
<1>26. ASSUME NEW r \in Requests, StorageRefuses(r)
      PROVE  OneRecorder'
  BY <1>26 DEF StorageRefuses
<1>27. ASSUME NEW s \in Sessions, Expire(s), UNCHANGED storageVars
      PROVE  OneRecorder'
  BY <1>27 DEF Expire
<1>28. CASE Restart
  BY <1>28 DEF Restart, HandlersDie, NoParts
<1>29. CASE UNCHANGED vars
  BY <1>29 DEF vars, handlerVars
<1> QED BY <1>1, <1>2, <1>3, <1>4, <1>5, <1>6, <1>7, <1>8, <1>9, <1>10, <1>11,
     <1>12, <1>13, <1>14, <1>15, <1>16, <1>17, <1>18, <1>19, <1>20, <1>21,
     <1>22, <1>23, <1>24, <1>25, <1>26, <1>27, <1>28, <1>29
     DEF Next, Arrives, InHandler, HandlerStep, InStorage, TimePasses

(* The store held every part it was asked to complete. *)
LEMMA ObjectStep == IInv /\ [Next]_vars => ObjectIsComplete'
<1> SUFFICES ASSUME IInv, [Next]_vars PROVE ObjectIsComplete'
  OBVIOUS
<1> USE DEF IInv, Starts, GoesTo, Ends, Proceeds, Replies, SaveStatus, AnswerCreated,
           tableVars, reqVars, storeVars, storageVars
<1> USE DEF TypeOK, SlotsAgree, Sending, PartLists
<1> USE DEF ObjectIsComplete
<1>1. ASSUME NEW r \in Requests, NEW s \in Sessions, CreateSession(r, s), UNCHANGED storageVars
      PROVE  ObjectIsComplete'
  BY <1>1 DEF CreateSession
<1>2. ASSUME NEW r \in Requests, NEW s \in Sessions, NEW i \in Chunks, UploadChunk(r, s, i), UNCHANGED storageVars
      PROVE  ObjectIsComplete'
  BY <1>2 DEF UploadChunk
<1>3. ASSUME NEW r \in Requests, NEW s \in Sessions, CompleteChunkedUpload(r, s), UNCHANGED storageVars
      PROVE  ObjectIsComplete'
  BY <1>3 DEF CompleteChunkedUpload
<1>4. ASSUME NEW r \in Requests, NEW s \in Sessions, AbortChunkedUpload(r, s), UNCHANGED storageVars
      PROVE  ObjectIsComplete'
  BY <1>4 DEF AbortChunkedUpload
<1>5. ASSUME NEW r \in Requests, ExpireSession(r), UNCHANGED storageVars
      PROVE  ObjectIsComplete'
  BY <1>5 DEF ExpireSession
<1>6. ASSUME NEW r \in Requests, CreateFileRecord(r), UNCHANGED storageVars
      PROVE  ObjectIsComplete'
  BY <1>6 DEF CreateFileRecord
<1>7. ASSUME NEW r \in Requests, FileRecordFails(r), UNCHANGED storageVars
      PROVE  ObjectIsComplete'
  BY <1>7 DEF FileRecordFails
<1>8. ASSUME NEW r \in Requests, MarkCompleted(r), UNCHANGED storageVars
      PROVE  ObjectIsComplete'
  BY <1>8 DEF MarkCompleted
<1>9. ASSUME NEW r \in Requests, MarkCancelled(r), UNCHANGED storageVars
      PROVE  ObjectIsComplete'
  BY <1>9 DEF MarkCancelled
<1>10. ASSUME NEW r \in Requests, CreateMultipartUpload(r)
      PROVE  ObjectIsComplete'
  <2>1. /\ pc[r] = "init_call"
        /\ multipart' = [multipart EXCEPT ![sess[r]] = "open"]
        /\ UNCHANGED <<registered, parts, bucket, seal, listed>>
    BY <1>10 DEF CreateMultipartUpload
  <2>2. CASE Proceeds(r, "registering")
    BY <2>1, <2>2
  <2>3. CASE Replies(r)
    BY <2>1, <2>3
  <2> QED
    BY <1>10, <2>2, <2>3 DEF CreateMultipartUpload, Answered
<1>11. ASSUME NEW r \in Requests, RegisterUpload(r)
      PROVE  ObjectIsComplete'
  BY <1>11 DEF RegisterUpload
<1>12. ASSUME NEW r \in Requests, BeginPart(r)
      PROVE  ObjectIsComplete'
  <2>1. PICK n \in Seals : seal' = [seal EXCEPT ![r] = n]
    BY <1>12 DEF BeginPart
  <2>2. /\ pc[r] = "chunk_call"
        /\ Proceeds(r, "streaming")
        /\ UNCHANGED <<registered, parts, storeVars, listed>>
    BY <1>12 DEF BeginPart
  <2> QED
    BY <2>1, <2>2
<1>13. ASSUME NEW r \in Requests, UploadPart(r)
      PROVE  ObjectIsComplete'
  BY <1>13 DEF UploadPart, Stores
<1>14. ASSUME NEW r \in Requests, UploadPartUnanswered(r)
      PROVE  ObjectIsComplete'
  <2>1. /\ pc[r] \in {"streaming", "replaying"}
        /\ Stores(r)
    BY <1>14 DEF UploadPartUnanswered
  <2>2. CASE pc[r] = "streaming"
    <3>1. Proceeds(r, "replaying") /\ UNCHANGED seal
      BY <1>14, <2>2 DEF UploadPartUnanswered
    <3> QED
      BY <2>1, <2>2, <3>1 DEF Stores
  <2>3. CASE pc[r] = "replaying"
    <3>1. Replies(r) /\ seal' = [seal EXCEPT ![r] = None]
      BY <1>14, <2>3 DEF UploadPartUnanswered
    <3> QED
      BY <2>1, <2>3, <3>1 DEF Stores
  <2> QED
    BY <2>1, <2>2, <2>3
<1>15. ASSUME NEW r \in Requests, StreamFails(r)
      PROVE  ObjectIsComplete'
  BY <1>15 DEF StreamFails, Refusing
<1>16. ASSUME NEW r \in Requests, NothingToReplay(r)
      PROVE  ObjectIsComplete'
  BY <1>16 DEF NothingToReplay
<1>17. ASSUME NEW r \in Requests, ReplayFails(r)
      PROVE  ObjectIsComplete'
  BY <1>17 DEF ReplayFails, Refusing
<1>18. ASSUME NEW r \in Requests, RecordPart(r)
      PROVE  ObjectIsComplete'
  BY <1>18 DEF RecordPart
<1>19. ASSUME NEW r \in Requests, TakeParts(r)
      PROVE  ObjectIsComplete'
  BY <1>19 DEF TakeParts, AllRecorded
<1>20. ASSUME NEW r \in Requests, CompleteMultipartUpload(r)
      PROVE  ObjectIsComplete'
  <2>1. /\ pc[r] = "completing"
        /\ Completes(sess[r], listed[r])
        /\ multipart' = [multipart EXCEPT ![sess[r]] = "completed"]
        /\ listed' = [listed EXCEPT ![r] = NoParts]
        /\ UNCHANGED <<registered, parts, bucket, seal>>
    BY <1>20 DEF CompleteMultipartUpload
  <2>2. CASE Proceeds(r, "dropping")
    BY <2>1, <2>2 DEF Completes
  <2>3. CASE Replies(r)
    BY <2>1, <2>3 DEF Completes
  <2> QED
    BY <1>20, <2>2, <2>3 DEF CompleteMultipartUpload, Answered
<1>21. ASSUME NEW r \in Requests, CompleteFails(r)
      PROVE  ObjectIsComplete'
  BY <1>21 DEF CompleteFails
<1>22. ASSUME NEW r \in Requests, DropUpload(r)
      PROVE  ObjectIsComplete'
  BY <1>22 DEF DropUpload
<1>23. ASSUME NEW r \in Requests, Deregister(r)
      PROVE  ObjectIsComplete'
  BY <1>23 DEF Deregister
<1>24. ASSUME NEW r \in Requests, AbortMultipartUpload(r)
      PROVE  ObjectIsComplete'
  BY <1>24 DEF AbortMultipartUpload
<1>25. ASSUME NEW r \in Requests, AbortFails(r)
      PROVE  ObjectIsComplete'
  BY <1>25 DEF AbortFails, Refusing
<1>26. ASSUME NEW r \in Requests, StorageRefuses(r)
      PROVE  ObjectIsComplete'
  BY <1>26 DEF StorageRefuses
<1>27. ASSUME NEW s \in Sessions, Expire(s), UNCHANGED storageVars
      PROVE  ObjectIsComplete'
  BY <1>27 DEF Expire
<1>28. CASE Restart
  BY <1>28 DEF Restart, HandlersDie, NoParts
<1>29. CASE UNCHANGED vars
  BY <1>29 DEF vars, handlerVars
<1> QED BY <1>1, <1>2, <1>3, <1>4, <1>5, <1>6, <1>7, <1>8, <1>9, <1>10, <1>11,
     <1>12, <1>13, <1>14, <1>15, <1>16, <1>17, <1>18, <1>19, <1>20, <1>21,
     <1>22, <1>23, <1>24, <1>25, <1>26, <1>27, <1>28, <1>29
     DEF Next, Arrives, InHandler, HandlerStep, InStorage, TimePasses

(* A row is written after the object, once, and before its session is marked. *)
LEMMA RowStep == IInv /\ [Next]_vars => OneRowPerSession' /\ RowHasObject' /\ CompletedIsStored'
<1> SUFFICES ASSUME IInv, [Next]_vars PROVE OneRowPerSession' /\ RowHasObject' /\ CompletedIsStored'
  OBVIOUS
<1> USE DEF IInv, Starts, GoesTo, Ends, Proceeds, Replies, SaveStatus, AnswerCreated,
           tableVars, reqVars, storeVars, storageVars
<1> USE DEF TypeOK, SlotsAgree, Sending
<1> USE DEF OneRowPerSession, RowHasObject, CompletedIsStored, OneRecorder, Recording, On
<1>1. ASSUME NEW r \in Requests, NEW s \in Sessions, CreateSession(r, s), UNCHANGED storageVars
      PROVE  OneRowPerSession' /\ RowHasObject' /\ CompletedIsStored'
  BY <1>1 DEF CreateSession
<1>2. ASSUME NEW r \in Requests, NEW s \in Sessions, NEW i \in Chunks, UploadChunk(r, s, i), UNCHANGED storageVars
      PROVE  OneRowPerSession' /\ RowHasObject' /\ CompletedIsStored'
  BY <1>2 DEF UploadChunk
<1>3. ASSUME NEW r \in Requests, NEW s \in Sessions, CompleteChunkedUpload(r, s), UNCHANGED storageVars
      PROVE  OneRowPerSession' /\ RowHasObject' /\ CompletedIsStored'
  BY <1>3 DEF CompleteChunkedUpload
<1>4. ASSUME NEW r \in Requests, NEW s \in Sessions, AbortChunkedUpload(r, s), UNCHANGED storageVars
      PROVE  OneRowPerSession' /\ RowHasObject' /\ CompletedIsStored'
  BY <1>4 DEF AbortChunkedUpload
<1>5. ASSUME NEW r \in Requests, ExpireSession(r), UNCHANGED storageVars
      PROVE  OneRowPerSession' /\ RowHasObject' /\ CompletedIsStored'
  BY <1>5 DEF ExpireSession
<1>6. ASSUME NEW r \in Requests, CreateFileRecord(r), UNCHANGED storageVars
      PROVE  OneRowPerSession' /\ RowHasObject' /\ CompletedIsStored'
  BY <1>6 DEF CreateFileRecord
<1>7. ASSUME NEW r \in Requests, FileRecordFails(r), UNCHANGED storageVars
      PROVE  OneRowPerSession' /\ RowHasObject' /\ CompletedIsStored'
  BY <1>7 DEF FileRecordFails
<1>8. ASSUME NEW r \in Requests, MarkCompleted(r), UNCHANGED storageVars
      PROVE  OneRowPerSession' /\ RowHasObject' /\ CompletedIsStored'
  BY <1>8 DEF MarkCompleted
<1>9. ASSUME NEW r \in Requests, MarkCancelled(r), UNCHANGED storageVars
      PROVE  OneRowPerSession' /\ RowHasObject' /\ CompletedIsStored'
  BY <1>9 DEF MarkCancelled
<1>10. ASSUME NEW r \in Requests, CreateMultipartUpload(r)
      PROVE  OneRowPerSession' /\ RowHasObject' /\ CompletedIsStored'
  <2>1. sess[r] \in Sessions /\ multipart[sess[r]] = "none"
    BY <1>10 DEF CreateMultipartUpload, CreatedAlone
  <2>2. \A s \in Sessions : multipart[s] = "completed" => multipart'[s] = "completed"
    BY <1>10, <2>1 DEF CreateMultipartUpload
  <2>3. UNCHANGED tableVars
    BY <1>10 DEF CreateMultipartUpload, Answered
  <2> QED
    BY <2>2, <2>3
<1>11. ASSUME NEW r \in Requests, RegisterUpload(r)
      PROVE  OneRowPerSession' /\ RowHasObject' /\ CompletedIsStored'
  BY <1>11 DEF RegisterUpload
<1>12. ASSUME NEW r \in Requests, BeginPart(r)
      PROVE  OneRowPerSession' /\ RowHasObject' /\ CompletedIsStored'
  BY <1>12 DEF BeginPart
<1>13. ASSUME NEW r \in Requests, UploadPart(r)
      PROVE  OneRowPerSession' /\ RowHasObject' /\ CompletedIsStored'
  BY <1>13 DEF UploadPart, Stores
<1>14. ASSUME NEW r \in Requests, UploadPartUnanswered(r)
      PROVE  OneRowPerSession' /\ RowHasObject' /\ CompletedIsStored'
  <2>1. /\ pc[r] \in {"streaming", "replaying"}
        /\ Stores(r)
    BY <1>14 DEF UploadPartUnanswered
  <2>2. CASE pc[r] = "streaming"
    <3>1. Proceeds(r, "replaying") /\ UNCHANGED seal
      BY <1>14, <2>2 DEF UploadPartUnanswered
    <3> QED
      BY <2>1, <2>2, <3>1 DEF Stores
  <2>3. CASE pc[r] = "replaying"
    <3>1. Replies(r) /\ seal' = [seal EXCEPT ![r] = None]
      BY <1>14, <2>3 DEF UploadPartUnanswered
    <3> QED
      BY <2>1, <2>3, <3>1 DEF Stores
  <2> QED
    BY <2>1, <2>2, <2>3
<1>15. ASSUME NEW r \in Requests, StreamFails(r)
      PROVE  OneRowPerSession' /\ RowHasObject' /\ CompletedIsStored'
  BY <1>15 DEF StreamFails, Refusing
<1>16. ASSUME NEW r \in Requests, NothingToReplay(r)
      PROVE  OneRowPerSession' /\ RowHasObject' /\ CompletedIsStored'
  BY <1>16 DEF NothingToReplay
<1>17. ASSUME NEW r \in Requests, ReplayFails(r)
      PROVE  OneRowPerSession' /\ RowHasObject' /\ CompletedIsStored'
  BY <1>17 DEF ReplayFails, Refusing
<1>18. ASSUME NEW r \in Requests, RecordPart(r)
      PROVE  OneRowPerSession' /\ RowHasObject' /\ CompletedIsStored'
  BY <1>18 DEF RecordPart
<1>19. ASSUME NEW r \in Requests, TakeParts(r)
      PROVE  OneRowPerSession' /\ RowHasObject' /\ CompletedIsStored'
  BY <1>19 DEF TakeParts, AllRecorded
<1>20. ASSUME NEW r \in Requests, CompleteMultipartUpload(r)
      PROVE  OneRowPerSession' /\ RowHasObject' /\ CompletedIsStored'
  <2>1. /\ pc[r] = "completing"
        /\ Completes(sess[r], listed[r])
        /\ multipart' = [multipart EXCEPT ![sess[r]] = "completed"]
        /\ listed' = [listed EXCEPT ![r] = NoParts]
        /\ UNCHANGED <<registered, parts, bucket, seal>>
    BY <1>20 DEF CompleteMultipartUpload
  <2>2. CASE Proceeds(r, "dropping")
    BY <2>1, <2>2 DEF Completes
  <2>3. CASE Replies(r)
    BY <2>1, <2>3 DEF Completes
  <2> QED
    BY <1>20, <2>2, <2>3 DEF CompleteMultipartUpload, Answered
<1>21. ASSUME NEW r \in Requests, CompleteFails(r)
      PROVE  OneRowPerSession' /\ RowHasObject' /\ CompletedIsStored'
  BY <1>21 DEF CompleteFails
<1>22. ASSUME NEW r \in Requests, DropUpload(r)
      PROVE  OneRowPerSession' /\ RowHasObject' /\ CompletedIsStored'
  BY <1>22 DEF DropUpload
<1>23. ASSUME NEW r \in Requests, Deregister(r)
      PROVE  OneRowPerSession' /\ RowHasObject' /\ CompletedIsStored'
  BY <1>23 DEF Deregister
<1>24. ASSUME NEW r \in Requests, AbortMultipartUpload(r)
      PROVE  OneRowPerSession' /\ RowHasObject' /\ CompletedIsStored'
  BY <1>24 DEF AbortMultipartUpload
<1>25. ASSUME NEW r \in Requests, AbortFails(r)
      PROVE  OneRowPerSession' /\ RowHasObject' /\ CompletedIsStored'
  BY <1>25 DEF AbortFails, Refusing
<1>26. ASSUME NEW r \in Requests, StorageRefuses(r)
      PROVE  OneRowPerSession' /\ RowHasObject' /\ CompletedIsStored'
  BY <1>26 DEF StorageRefuses
<1>27. ASSUME NEW s \in Sessions, Expire(s), UNCHANGED storageVars
      PROVE  OneRowPerSession' /\ RowHasObject' /\ CompletedIsStored'
  BY <1>27 DEF Expire
<1>28. CASE Restart
  BY <1>28 DEF Restart, HandlersDie, NoParts
<1>29. CASE UNCHANGED vars
  BY <1>29 DEF vars, handlerVars
<1> QED BY <1>1, <1>2, <1>3, <1>4, <1>5, <1>6, <1>7, <1>8, <1>9, <1>10, <1>11,
     <1>12, <1>13, <1>14, <1>15, <1>16, <1>17, <1>18, <1>19, <1>20, <1>21,
     <1>22, <1>23, <1>24, <1>25, <1>26, <1>27, <1>28, <1>29
     DEF Next, Arrives, InHandler, HandlerStep, InStorage, TimePasses

(* The invariant holds in every state, whatever fails.                     *)
THEOREM Invariance == Spec => []IInv
<1>1. IInv /\ [Next]_vars => IInv'
  BY TypeStep, CreatedStep, RecorderStep, ObjectStep, RowStep DEF IInv
<1> QED
  BY InitIInv, <1>1, PTL DEF Spec

(* A completed object has a part for every chunk, whatever the number of   *)
(* chunks and of requests in flight, and whichever calls and answers fail. *)
THEOREM ObjectComplete == Spec => []ObjectIsComplete
BY Invariance, PTL DEF IInv

(* A session never lists two files, for the store completes it once. *)
THEOREM AtMostOneRow == Spec => []OneRowPerSession
BY Invariance, PTL DEF IInv

(* A listed file has its object, however answers get lost. *)
THEOREM ListedHasObject == Spec => []RowHasObject
BY Invariance, PTL DEF IInv

(* Who is told "completed" has a listed file. *)
THEOREM CompletedStored == Spec => []CompletedIsStored
BY Invariance, PTL DEF IInv

(***************************************************************************)
(* Every step of the backend is a step of UploadStore, or changes nothing  *)
(* UploadStore speaks of.                                                  *)
(***************************************************************************)
LEMMA InitRefines == Init => Promise!Init
BY DEF Init, HandlersInit, NoParts, Promise!Init, Stage, StageOf, Landed

(* What leaves the store, files and answered alone is no step of it. *)
LEMMA QuietStep ==
  UNCHANGED <<storeVars, files, answered>> => UNCHANGED Promise!vars
BY DEF storeVars, Promise!vars, Stage, StageOf, Landed

(* A session's stage moves only where its upload or its files do. *)
LEMMA OthersStay ==
  ASSUME NEW s \in Sessions,
         \A t \in Sessions \ {s} : multipart'[t] = multipart[t] /\ files'[t] = files[t]
  PROVE  Stage' = [Stage EXCEPT ![s] = StageOf(s)']
<1>1. \A t \in Sessions \ {s} : StageOf(t)' = StageOf(t)
  BY DEF StageOf
<1> QED
  BY <1>1 DEF Stage

(* The promised stage, by what the multipart upload has come to.           *)
LEMMA StageInStore ==
  ASSUME NEW s \in Sessions
  PROVE  /\ Stage[s] = StageOf(s)
         /\ multipart[s] = "none" => StageOf(s) = "unopened"
         /\ multipart[s] = "open" => StageOf(s) = "open"
         /\ multipart[s] = "aborted" => StageOf(s) = "discarded"
         /\ multipart[s] = "completed" /\ files[s] = 0 => StageOf(s) = "published"
         /\ multipart[s] = "completed" /\ files[s] # 0 => StageOf(s) = "recorded"
BY DEF Stage, StageOf

(* Each kind of step of the promise is a step of it.                       *)
LEMMA PromiseNext ==
  ASSUME NEW s \in Sessions
  PROVE  /\ Promise!Open(s) => Promise!Next
         /\ Promise!Publish(s) => Promise!Next
         /\ Promise!Record(s) => Promise!Next
         /\ Promise!Discard(s) => Promise!Next
         /\ \A i \in Chunks : Promise!Land(s, i) => Promise!Next
         /\ \A a \in Answers : Promise!Answer(s, a) => Promise!Next
BY DEF Promise!Next, Promise!Answers, Answers

(* What the invariant says of the session a request serves. *)
LEMMA Serves ==
  ASSUME IInv, NEW r \in Requests, pc[r] # "idle"
  PROVE  /\ sess[r] \in Sessions
         /\ pc[r] = "init_call" => multipart[sess[r]] = "none"
         /\ pc[r] = "registering" => multipart[sess[r]] = "open"
         /\ pc[r] \notin Creating => multipart[sess[r]] # "none"
         /\ pc[r] = "recording" => multipart[sess[r]] = "completed" /\ files[sess[r]] = 0
         /\ pc[r] = "settling" => multipart[sess[r]] = "completed" /\ files[sess[r]] # 0
         /\ multipart[sess[r]] = "open" => files[sess[r]] = 0
<1>1. sess[r] \in Sessions
  BY DEF IInv, TypeOK, SlotsAgree
<1>2. On(r, sess[r], {pc[r]})
  BY DEF On
<1>3. pc[r] \notin Creating => "created" \in answered[sess[r]]
  BY <1>1 DEF IInv, CreatedAlone
<1>4. files[sess[r]] \in Nat
  BY <1>1 DEF IInv, TypeOK
<1> QED
  BY <1>1, <1>2, <1>3, <1>4
     DEF IInv, CreatedAlone, OneRecorder, Recording, RowHasObject, On

(* The store takes a part: one chunk more has landed, or lands again. *)
LEMMA StoreLands ==
  ASSUME IInv, NEW r \in Requests, pc[r] \in {"streaming", "replaying"},
         Stores(r), UNCHANGED <<files, answered>>
  PROVE  Promise!Next
<1> DEFINE s == sess[r]
           i == chunk[r]
<1>1. s \in Sessions /\ i \in Chunks /\ seal[r] \in Seals
  BY Serves DEF IInv, TypeOK, SlotsAgree, Sending
<1>2. seal[r] # None
  BY <1>1, S3Assumption
<1>3. /\ multipart[s] = "open"
      /\ bucket' = [bucket EXCEPT ![s][i] = seal[r]]
      /\ UNCHANGED multipart
  BY DEF Stores
<1>4. Stage[s] = "open" /\ UNCHANGED Stage
  BY <1>1, <1>3, StageInStore DEF Stage, StageOf
<1>5. \A t \in Sessions \ {s} : bucket'[t] = bucket[t]
  BY <1>1, <1>3 DEF IInv, TypeOK
<1>6. bucket'[s][i] # None /\ \A j \in Chunks \ {i} : bucket'[s][j] = bucket[s][j]
  BY <1>1, <1>2, <1>3 DEF IInv, TypeOK, PartLists
<1>7. Landed'[s] = Landed[s] \union {i}
  BY <1>1, <1>6 DEF Landed
<1>8. \A t \in Sessions \ {s} : Landed'[t] = Landed[t]
  BY <1>5 DEF Landed
<1>9. Landed' = [Landed EXCEPT ![s] = @ \union {i}]
  BY <1>1, <1>7, <1>8 DEF Landed
<1>10. Promise!Land(s, i)
  BY <1>4, <1>9 DEF Promise!Land
<1> QED
  BY <1>1, <1>10, PromiseNext

(* Every step is one of the promise, or none to it.                        *)
LEMMA StepRefines == IInv /\ [Next]_vars => [Promise!Next]_Promise!vars
<1> SUFFICES ASSUME IInv, [Next]_vars PROVE [Promise!Next]_Promise!vars
  OBVIOUS
<1>0. TypeOK
  BY DEF IInv
<1>1. ASSUME NEW r \in Requests, CreateMultipartUpload(r)
      PROVE  Promise!Next
  <2> DEFINE s == sess[r]
  <2>1. s \in Sessions /\ multipart[s] = "none"
    BY <1>1, Serves DEF CreateMultipartUpload
  <2>2. /\ multipart' = [multipart EXCEPT ![s] = "open"]
        /\ UNCHANGED <<files, bucket, answered>>
    BY <1>1 DEF CreateMultipartUpload, Answered, Proceeds, Replies, tableVars
  <2>3. multipart'[s] = "open"
    BY <1>0, <2>1, <2>2 DEF TypeOK
  <2>4. Stage[s] = "unopened" /\ Stage' = [Stage EXCEPT ![s] = "open"]
    BY <1>0, <2>1, <2>2, <2>3, OthersStay, StageInStore DEF TypeOK, StageOf
  <2>5. Promise!Open(s)
    BY <2>2, <2>4 DEF Promise!Open, Landed
  <2> QED
    BY <2>1, <2>5, PromiseNext
<1>2. ASSUME NEW r \in Requests, RegisterUpload(r)
      PROVE  Promise!Next
  <2> DEFINE s == sess[r]
  <2>1. s \in Sessions /\ Stage[s] = "open"
    BY <1>2, Serves, StageInStore DEF RegisterUpload
  <2>2. UNCHANGED <<Stage, Landed>>
    BY <1>2 DEF RegisterUpload, AnswerCreated, storeVars, Stage, StageOf, Landed
  <2>3. Promise!Answer(s, "created")
    BY <1>2, <2>1, <2>2
       DEF RegisterUpload, AnswerCreated, Promise!Answer, Promise!Justified
  <2> QED
    BY <2>1, <2>3, PromiseNext DEF Answers
<1>3. ASSUME NEW r \in Requests, UploadPart(r) \/ UploadPartUnanswered(r)
      PROVE  Promise!Next
  <2>1. pc[r] \in {"streaming", "replaying"} /\ Stores(r)
    BY <1>3 DEF UploadPart, UploadPartUnanswered
  <2>2. UNCHANGED <<files, answered>>
    BY <1>3 DEF UploadPart, UploadPartUnanswered, Proceeds, Replies, tableVars
  <2> QED
    BY <2>1, <2>2, StoreLands
<1>4. ASSUME NEW r \in Requests, CompleteMultipartUpload(r)
      PROVE  Promise!Next
  <2> DEFINE s == sess[r]
  <2>1. /\ s \in Sessions
        /\ multipart[s] = "open" /\ files[s] = 0
        /\ bucket[s] = listed[r]
    BY <1>4, Serves DEF CompleteMultipartUpload, Completes
  <2>2. /\ multipart' = [multipart EXCEPT ![s] = "completed"]
        /\ UNCHANGED <<files, bucket, answered>>
    BY <1>4 DEF CompleteMultipartUpload, Answered, Proceeds, Replies, tableVars
  <2>3. multipart'[s] = "completed"
    BY <1>0, <2>1, <2>2 DEF TypeOK
  <2>4. Stage[s] = "open" /\ Stage' = [Stage EXCEPT ![s] = "published"]
    BY <1>0, <2>1, <2>2, <2>3, OthersStay, StageInStore DEF TypeOK, StageOf
  <2>5. \A i \in Chunks : bucket[s][i] # None
    BY <1>4, <2>1 DEF CompleteMultipartUpload, IInv, SlotsAgree
  <2>6. Landed[s] = Chunks /\ UNCHANGED Landed
    BY <2>1, <2>2, <2>5 DEF Landed
  <2>7. Promise!Publish(s)
    BY <2>2, <2>4, <2>6 DEF Promise!Publish
  <2> QED
    BY <2>1, <2>7, PromiseNext
<1>5. ASSUME NEW r \in Requests, CreateFileRecord(r), UNCHANGED storageVars
      PROVE  Promise!Next
  <2> DEFINE s == sess[r]
  <2>1. s \in Sessions /\ multipart[s] = "completed" /\ files[s] = 0
    BY <1>5, Serves DEF CreateFileRecord
  <2>2. /\ files' = [files EXCEPT ![s] = 1]
        /\ UNCHANGED <<multipart, bucket, answered>>
    BY <1>5, <2>1 DEF CreateFileRecord, storageVars, storeVars
  <2>3. files'[s] = 1
    BY <1>0, <2>1, <2>2 DEF TypeOK
  <2>4. Stage[s] = "published" /\ Stage' = [Stage EXCEPT ![s] = "recorded"]
    BY <1>0, <2>1, <2>2, <2>3, OthersStay, StageInStore DEF TypeOK, StageOf
  <2>5. Promise!Record(s)
    BY <2>2, <2>4 DEF Promise!Record, Landed
  <2> QED
    BY <2>1, <2>5, PromiseNext
<1>6. ASSUME NEW r \in Requests, MarkCompleted(r), UNCHANGED storageVars
      PROVE  Promise!Next
  <2> DEFINE s == sess[r]
  <2>1. s \in Sessions /\ Stage[s] = "recorded"
    BY <1>6, Serves, StageInStore DEF MarkCompleted
  <2>2. UNCHANGED <<Stage, Landed>>
    BY <1>6 DEF MarkCompleted, storageVars, storeVars, Stage, StageOf, Landed
  <2>3. Promise!Answer(s, "completed")
    BY <1>6, <2>1, <2>2 DEF MarkCompleted, Promise!Answer, Promise!Justified
  <2> QED
    BY <2>1, <2>3, PromiseNext DEF Answers
<1>7. ASSUME NEW r \in Requests, MarkCancelled(r), UNCHANGED storageVars
      PROVE  Promise!Next
  <2> DEFINE s == sess[r]
  <2>1. s \in Sessions /\ multipart[s] # "none" /\ multipart[s] \in UploadStates
    BY <1>0, <1>7, Serves DEF MarkCancelled, Creating, TypeOK
  <2>2. Stage[s] # "unopened"
    BY <2>1, StageInStore DEF UploadStates
  <2>3. UNCHANGED <<Stage, Landed>>
    BY <1>7 DEF MarkCancelled, storageVars, storeVars, Stage, StageOf, Landed
  <2>4. Promise!Answer(s, "cancelled")
    BY <1>7, <2>2, <2>3 DEF MarkCancelled, Promise!Answer, Promise!Justified
  <2> QED
    BY <2>1, <2>4, PromiseNext DEF Answers
<1>8. ASSUME NEW r \in Requests, AbortMultipartUpload(r)
      PROVE  Promise!Next
  <2> DEFINE s == sess[r]
  <2>1. s \in Sessions /\ multipart[s] = "open"
    BY <1>8, Serves DEF AbortMultipartUpload
  <2>2. /\ multipart' = [multipart EXCEPT ![s] = "aborted"]
        /\ bucket' = [bucket EXCEPT ![s] = NoParts]
        /\ UNCHANGED <<files, answered>>
    BY <1>8 DEF AbortMultipartUpload, Proceeds, tableVars
  <2>3. multipart'[s] = "aborted" /\ bucket'[s] = NoParts
    BY <1>0, <2>1, <2>2 DEF TypeOK
  <2>4. Stage[s] = "open" /\ Stage' = [Stage EXCEPT ![s] = "discarded"]
    BY <1>0, <2>1, <2>2, <2>3, OthersStay, StageInStore DEF TypeOK, StageOf
  <2>5. Landed' = [Landed EXCEPT ![s] = {}]
    <3>1. Landed'[s] = {}
      BY <2>1, <2>3 DEF Landed, NoParts
    <3>2. \A t \in Sessions \ {s} : Landed'[t] = Landed[t]
      BY <1>0, <2>1, <2>2 DEF Landed, TypeOK
    <3> QED
      BY <2>1, <3>1, <3>2 DEF Landed
  <2>6. Promise!Discard(s)
    BY <2>2, <2>4, <2>5 DEF Promise!Discard
  <2> QED
    BY <2>1, <2>6, PromiseNext
<1>9. ASSUME NEW r \in Requests, NEW s \in Sessions, NEW i \in Chunks,
             CreateSession(r, s) \/ UploadChunk(r, s, i) \/ CompleteChunkedUpload(r, s)
             \/ AbortChunkedUpload(r, s), UNCHANGED storageVars
      PROVE  UNCHANGED Promise!vars
  BY <1>9, QuietStep DEF CreateSession, UploadChunk, CompleteChunkedUpload,
     AbortChunkedUpload, tableVars, storageVars
<1>10. ASSUME NEW r \in Requests,
              ExpireSession(r) \/ FileRecordFails(r), UNCHANGED storageVars
      PROVE  UNCHANGED Promise!vars
  BY <1>10, QuietStep DEF ExpireSession, FileRecordFails, tableVars, storageVars
<1>11. ASSUME NEW r \in Requests,
              BeginPart(r) \/ StreamFails(r) \/ NothingToReplay(r) \/ ReplayFails(r)
              \/ RecordPart(r) \/ TakeParts(r) \/ CompleteFails(r) \/ DropUpload(r)
              \/ Deregister(r) \/ AbortFails(r) \/ StorageRefuses(r)
      PROVE  UNCHANGED Promise!vars
  BY <1>11, QuietStep DEF BeginPart, StreamFails, NothingToReplay, ReplayFails,
     RecordPart, TakeParts, CompleteFails, DropUpload, Deregister, AbortFails,
     StorageRefuses, Proceeds, Replies, tableVars, storageVars
<1>12. CASE TimePasses \/ Restart \/ UNCHANGED vars
  BY <1>12, QuietStep DEF TimePasses, Expire, Restart, HandlersDie, vars, handlerVars,
     tableVars, storageVars
<1> QED BY <1>1, <1>2, <1>3, <1>4, <1>5, <1>6, <1>7, <1>8, <1>9, <1>10,
     <1>11, <1>12 DEF Next, Arrives, InHandler, HandlerStep, InStorage

(* The S3 backend under the handlers implements UploadStore, with lost     *)
(* answers, replayed parts and restarts, for any number of requests.       *)
THEOREM Refinement == Spec => KeepsPromise
BY InitRefines, StepRefines, Invariance, PTL DEF Spec, KeepsPromise, Promise!Spec
=============================================================================
