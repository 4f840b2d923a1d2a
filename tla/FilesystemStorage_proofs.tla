---------------------- MODULE FilesystemStorage_proofs ----------------------
(***************************************************************************)
(* Theorems of FilesystemStorage, for every value of its constants.        *)
(***************************************************************************)
EXTENDS FilesystemStorage, FiniteSetTheorems, TLAPS

USE HandlersAssumption, FilesystemAssumption

(***************************************************************************)
(* The inductive invariant holds at the start and every step keeps it, one *)
(* lemma for each of its parts.                                            *)
(***************************************************************************)
LEMMA InitIInv == Init => IInv
BY DEF Init, HandlersInit, IInv, TypeOK, Statuses, Answers, Places,
       HandlerPlaces, StoragePlaces, DiskStates, Blank, PieceNumbers,
       SlotsAgree, Copying, CreatedAlone, Creating, On, Untouched, HandleOnPart,
       ReceivedIsWritten, OnePublisher, Publishing, PublishedIsComplete,
       OneRowPerSession, RowHasObject, CompletedIsStored

(* Counting the received set tells whether it is all of Chunks. *)
LEMMA AllReceivedMeansAll ==
  ASSUME TypeOK, NEW s \in Sessions, AllReceived(s)
  PROVE  received[s] = Chunks
<1>1. received[s] \subseteq Chunks
  BY DEF TypeOK
<1> QED
  BY <1>1, FS_Subset DEF AllReceived

(* Types, and what a busy slot says of itself. *)
LEMMA TypeStep == IInv /\ [Next]_vars => TypeOK' /\ SlotsAgree'
<1> SUFFICES ASSUME IInv, [Next]_vars PROVE TypeOK' /\ SlotsAgree'
  OBVIOUS
<1> USE DEF IInv, Starts, GoesTo, Ends, Proceeds, Replies, SaveStatus, AnswerCreated,
           EndsCopy, tableVars, reqVars, copyVars, storageVars
<1> USE DEF TypeOK, SlotsAgree, Copying, PieceNumbers, Statuses, Answers,
           DiskStates, Places, HandlerPlaces, StoragePlaces
<1>1. ASSUME NEW r \in Requests, NEW s \in Sessions, CreateSession(r, s), UNCHANGED storageVars
      PROVE  TypeOK' /\ SlotsAgree'
  BY <1>1 DEF CreateSession
<1>2. ASSUME NEW r \in Requests, NEW s \in Sessions, NEW i \in Chunks, UploadChunk(r, s, i), UNCHANGED storageVars
      PROVE  TypeOK' /\ SlotsAgree'
  BY <1>2 DEF UploadChunk
<1>3. ASSUME NEW r \in Requests, NEW s \in Sessions, CompleteChunkedUpload(r, s), UNCHANGED storageVars
      PROVE  TypeOK' /\ SlotsAgree'
  BY <1>3 DEF CompleteChunkedUpload
<1>4. ASSUME NEW r \in Requests, NEW s \in Sessions, AbortChunkedUpload(r, s), UNCHANGED storageVars
      PROVE  TypeOK' /\ SlotsAgree'
  BY <1>4 DEF AbortChunkedUpload
<1>5. ASSUME NEW r \in Requests, ExpireSession(r), UNCHANGED storageVars
      PROVE  TypeOK' /\ SlotsAgree'
  BY <1>5 DEF ExpireSession
<1>6. ASSUME NEW r \in Requests, CreateFileRecord(r), UNCHANGED storageVars
      PROVE  TypeOK' /\ SlotsAgree'
  BY <1>6 DEF CreateFileRecord
<1>7. ASSUME NEW r \in Requests, FileRecordFails(r), UNCHANGED storageVars
      PROVE  TypeOK' /\ SlotsAgree'
  BY <1>7 DEF FileRecordFails
<1>8. ASSUME NEW r \in Requests, MarkCompleted(r), UNCHANGED storageVars
      PROVE  TypeOK' /\ SlotsAgree'
  BY <1>8 DEF MarkCompleted
<1>9. ASSUME NEW r \in Requests, MarkCancelled(r), UNCHANGED storageVars
      PROVE  TypeOK' /\ SlotsAgree'
  BY <1>9 DEF MarkCancelled
<1>10. ASSUME NEW r \in Requests, CreatePartFile(r)
      PROVE  TypeOK' /\ SlotsAgree'
  BY <1>10 DEF CreatePartFile, Blank
<1>11. ASSUME NEW r \in Requests, RegisterUpload(r)
      PROVE  TypeOK' /\ SlotsAgree'
  BY <1>11 DEF RegisterUpload
<1>12. ASSUME NEW r \in Requests, BeginCopy(r)
      PROVE  TypeOK' /\ SlotsAgree'
  <2>1. PICK n \in Nonces : nonce' = [nonce EXCEPT ![r] = n]
    BY <1>12 DEF BeginCopy
  <2>2. /\ pc[r] = "chunk_call"
        /\ Proceeds(r, "copying")
        /\ UNCHANGED <<registered, open, received, disk, data, done>>
    BY <1>12 DEF BeginCopy
  <2> QED
    BY <2>1, <2>2
<1>13. ASSUME NEW r \in Requests, ShortSource(r)
      PROVE  TypeOK' /\ SlotsAgree'
  BY <1>13 DEF ShortSource
<1>14. ASSUME NEW r \in Requests, StartWrite(r)
      PROVE  TypeOK' /\ SlotsAgree'
  BY <1>14 DEF StartWrite
<1>15. ASSUME NEW r \in Requests, WriteFails(r)
      PROVE  TypeOK' /\ SlotsAgree'
  BY <1>15 DEF WriteFails
<1>16. ASSUME NEW r \in Requests, WritePiece(r)
      PROVE  TypeOK' /\ SlotsAgree'
  BY <1>16 DEF WritePiece
<1>17. ASSUME NEW r \in Requests, RecordReceived(r)
      PROVE  TypeOK' /\ SlotsAgree'
  BY <1>17 DEF RecordReceived
<1>18. ASSUME NEW r \in Requests, LookUpForFinalize(r)
      PROVE  TypeOK' /\ SlotsAgree'
  BY <1>18 DEF LookUpForFinalize
<1>19. ASSUME NEW r \in Requests, CountReceived(r)
      PROVE  TypeOK' /\ SlotsAgree'
  BY <1>19 DEF CountReceived
<1>20. ASSUME NEW r \in Requests, CloseFile(r)
      PROVE  TypeOK' /\ SlotsAgree'
  BY <1>20 DEF CloseFile
<1>21. ASSUME NEW r \in Requests, CloseFails(r)
      PROVE  TypeOK' /\ SlotsAgree'
  BY <1>21 DEF CloseFails
<1>22. ASSUME NEW r \in Requests, RenamePart(r)
      PROVE  TypeOK' /\ SlotsAgree'
  BY <1>22 DEF RenamePart
<1>23. ASSUME NEW r \in Requests, DropUpload(r)
      PROVE  TypeOK' /\ SlotsAgree'
  BY <1>23 DEF DropUpload
<1>24. ASSUME NEW r \in Requests, Deregister(r)
      PROVE  TypeOK' /\ SlotsAgree'
  BY <1>24 DEF Deregister
<1>25. ASSUME NEW r \in Requests, ClosePart(r)
      PROVE  TypeOK' /\ SlotsAgree'
  BY <1>25 DEF ClosePart
<1>26. ASSUME NEW r \in Requests, RemovePart(r)
      PROVE  TypeOK' /\ SlotsAgree'
  <2>1. disk' \in [Sessions -> DiskStates]
    <3>1. CASE disk' = [disk EXCEPT ![sess[r]] = IF @ = "part" THEN "removed" ELSE @]
      BY <3>1
    <3>2. CASE UNCHANGED disk
      BY <3>2
    <3> QED
      BY <1>26, <3>1, <3>2 DEF RemovePart
  <2>2. /\ pc[r] = "removing"
        /\ Proceeds(r, "cancelling")
        /\ UNCHANGED <<registered, open, received, data, copyVars>>
    BY <1>26 DEF RemovePart
  <2> QED
    BY <2>1, <2>2
<1>27. ASSUME NEW r \in Requests, StorageRefuses(r)
      PROVE  TypeOK' /\ SlotsAgree'
  BY <1>27 DEF StorageRefuses
<1>28. ASSUME NEW s \in Sessions, Expire(s), UNCHANGED storageVars
      PROVE  TypeOK' /\ SlotsAgree'
  BY <1>28 DEF Expire
<1>29. CASE Restart
  BY <1>29 DEF Restart, HandlersDie
<1>30. CASE UNCHANGED vars
  BY <1>30 DEF vars, handlerVars
<1> QED   BY <1>1, <1>2, <1>3, <1>4, <1>5, <1>6, <1>7, <1>8, <1>9, <1>10,
     <1>11, <1>12, <1>13, <1>14, <1>15, <1>16, <1>17, <1>18, <1>19, <1>20,
     <1>21, <1>22, <1>23, <1>24, <1>25, <1>26, <1>27, <1>28, <1>29, <1>30
     DEF Next, Arrives, InHandler, HandlerStep, InStorage, TimePasses

(* A session's init request has it to itself until it answers. *)
LEMMA CreatedAloneStep == IInv /\ [Next]_vars => CreatedAlone'
<1> SUFFICES ASSUME IInv, [Next]_vars PROVE CreatedAlone'
  OBVIOUS
<1> USE DEF IInv, Starts, GoesTo, Ends, Proceeds, Replies, SaveStatus, AnswerCreated,
           EndsCopy, tableVars, reqVars, copyVars, storageVars
<1> USE DEF TypeOK, SlotsAgree, Copying, PieceNumbers
<1> USE DEF CreatedAlone, Creating, On, Untouched, LoadActiveSession
<1>1. ASSUME NEW r \in Requests, NEW s \in Sessions, CreateSession(r, s), UNCHANGED storageVars
      PROVE  CreatedAlone'
  BY <1>1 DEF CreateSession
<1>2. ASSUME NEW r \in Requests, NEW s \in Sessions, NEW i \in Chunks, UploadChunk(r, s, i), UNCHANGED storageVars
      PROVE  CreatedAlone'
  BY <1>2 DEF UploadChunk
<1>3. ASSUME NEW r \in Requests, NEW s \in Sessions, CompleteChunkedUpload(r, s), UNCHANGED storageVars
      PROVE  CreatedAlone'
  BY <1>3 DEF CompleteChunkedUpload
<1>4. ASSUME NEW r \in Requests, NEW s \in Sessions, AbortChunkedUpload(r, s), UNCHANGED storageVars
      PROVE  CreatedAlone'
  BY <1>4 DEF AbortChunkedUpload
<1>5. ASSUME NEW r \in Requests, ExpireSession(r), UNCHANGED storageVars
      PROVE  CreatedAlone'
  BY <1>5 DEF ExpireSession
<1>6. ASSUME NEW r \in Requests, CreateFileRecord(r), UNCHANGED storageVars
      PROVE  CreatedAlone'
  BY <1>6 DEF CreateFileRecord
<1>7. ASSUME NEW r \in Requests, FileRecordFails(r), UNCHANGED storageVars
      PROVE  CreatedAlone'
  BY <1>7 DEF FileRecordFails
<1>8. ASSUME NEW r \in Requests, MarkCompleted(r), UNCHANGED storageVars
      PROVE  CreatedAlone'
  BY <1>8 DEF MarkCompleted
<1>9. ASSUME NEW r \in Requests, MarkCancelled(r), UNCHANGED storageVars
      PROVE  CreatedAlone'
  BY <1>9 DEF MarkCancelled
<1>10. ASSUME NEW r \in Requests, CreatePartFile(r)
      PROVE  CreatedAlone'
  BY <1>10 DEF CreatePartFile
<1>11. ASSUME NEW r \in Requests, RegisterUpload(r)
      PROVE  CreatedAlone'
  BY <1>11 DEF RegisterUpload
<1>12. ASSUME NEW r \in Requests, BeginCopy(r)
      PROVE  CreatedAlone'
  BY <1>12 DEF BeginCopy
<1>13. ASSUME NEW r \in Requests, ShortSource(r)
      PROVE  CreatedAlone'
  BY <1>13 DEF ShortSource
<1>14. ASSUME NEW r \in Requests, StartWrite(r)
      PROVE  CreatedAlone'
  BY <1>14 DEF StartWrite
<1>15. ASSUME NEW r \in Requests, WriteFails(r)
      PROVE  CreatedAlone'
  BY <1>15 DEF WriteFails
<1>16. ASSUME NEW r \in Requests, WritePiece(r)
      PROVE  CreatedAlone'
  BY <1>16 DEF WritePiece
<1>17. ASSUME NEW r \in Requests, RecordReceived(r)
      PROVE  CreatedAlone'
  BY <1>17 DEF RecordReceived
<1>18. ASSUME NEW r \in Requests, LookUpForFinalize(r)
      PROVE  CreatedAlone'
  BY <1>18 DEF LookUpForFinalize
<1>19. ASSUME NEW r \in Requests, CountReceived(r)
      PROVE  CreatedAlone'
  BY <1>19 DEF CountReceived
<1>20. ASSUME NEW r \in Requests, CloseFile(r)
      PROVE  CreatedAlone'
  BY <1>20 DEF CloseFile
<1>21. ASSUME NEW r \in Requests, CloseFails(r)
      PROVE  CreatedAlone'
  BY <1>21 DEF CloseFails
<1>22. ASSUME NEW r \in Requests, RenamePart(r)
      PROVE  CreatedAlone'
  BY <1>22 DEF RenamePart
<1>23. ASSUME NEW r \in Requests, DropUpload(r)
      PROVE  CreatedAlone'
  BY <1>23 DEF DropUpload
<1>24. ASSUME NEW r \in Requests, Deregister(r)
      PROVE  CreatedAlone'
  BY <1>24 DEF Deregister
<1>25. ASSUME NEW r \in Requests, ClosePart(r)
      PROVE  CreatedAlone'
  BY <1>25 DEF ClosePart
<1>26. ASSUME NEW r \in Requests, RemovePart(r)
      PROVE  CreatedAlone'
  BY <1>26 DEF RemovePart
<1>27. ASSUME NEW r \in Requests, StorageRefuses(r)
      PROVE  CreatedAlone'
  BY <1>27 DEF StorageRefuses
<1>28. ASSUME NEW s \in Sessions, Expire(s), UNCHANGED storageVars
      PROVE  CreatedAlone'
  BY <1>28 DEF Expire
<1>29. CASE Restart
  BY <1>29 DEF Restart, HandlersDie
<1>30. CASE UNCHANGED vars
  BY <1>30 DEF vars, handlerVars
<1> QED   BY <1>1, <1>2, <1>3, <1>4, <1>5, <1>6, <1>7, <1>8, <1>9, <1>10,
     <1>11, <1>12, <1>13, <1>14, <1>15, <1>16, <1>17, <1>18, <1>19, <1>20,
     <1>21, <1>22, <1>23, <1>24, <1>25, <1>26, <1>27, <1>28, <1>29, <1>30
     DEF Next, Arrives, InHandler, HandlerStep, InStorage, TimePasses

(* A file is closed before it is renamed or unlinked. *)
LEMMA HandleStep == IInv /\ [Next]_vars => HandleOnPart'
<1> SUFFICES ASSUME IInv, [Next]_vars PROVE HandleOnPart'
  OBVIOUS
<1> USE DEF IInv, Starts, GoesTo, Ends, Proceeds, Replies, SaveStatus, AnswerCreated,
           EndsCopy, tableVars, reqVars, copyVars, storageVars
<1> USE DEF TypeOK, SlotsAgree, Copying, PieceNumbers
<1> USE DEF HandleOnPart, OnePublisher, Publishing, CreatedAlone, Creating, On
<1>1. ASSUME NEW r \in Requests, NEW s \in Sessions, CreateSession(r, s), UNCHANGED storageVars
      PROVE  HandleOnPart'
  BY <1>1 DEF CreateSession
<1>2. ASSUME NEW r \in Requests, NEW s \in Sessions, NEW i \in Chunks, UploadChunk(r, s, i), UNCHANGED storageVars
      PROVE  HandleOnPart'
  BY <1>2 DEF UploadChunk
<1>3. ASSUME NEW r \in Requests, NEW s \in Sessions, CompleteChunkedUpload(r, s), UNCHANGED storageVars
      PROVE  HandleOnPart'
  BY <1>3 DEF CompleteChunkedUpload
<1>4. ASSUME NEW r \in Requests, NEW s \in Sessions, AbortChunkedUpload(r, s), UNCHANGED storageVars
      PROVE  HandleOnPart'
  BY <1>4 DEF AbortChunkedUpload
<1>5. ASSUME NEW r \in Requests, ExpireSession(r), UNCHANGED storageVars
      PROVE  HandleOnPart'
  BY <1>5 DEF ExpireSession
<1>6. ASSUME NEW r \in Requests, CreateFileRecord(r), UNCHANGED storageVars
      PROVE  HandleOnPart'
  BY <1>6 DEF CreateFileRecord
<1>7. ASSUME NEW r \in Requests, FileRecordFails(r), UNCHANGED storageVars
      PROVE  HandleOnPart'
  BY <1>7 DEF FileRecordFails
<1>8. ASSUME NEW r \in Requests, MarkCompleted(r), UNCHANGED storageVars
      PROVE  HandleOnPart'
  BY <1>8 DEF MarkCompleted
<1>9. ASSUME NEW r \in Requests, MarkCancelled(r), UNCHANGED storageVars
      PROVE  HandleOnPart'
  BY <1>9 DEF MarkCancelled
<1>10. ASSUME NEW r \in Requests, CreatePartFile(r)
      PROVE  HandleOnPart'
  BY <1>10 DEF CreatePartFile
<1>11. ASSUME NEW r \in Requests, RegisterUpload(r)
      PROVE  HandleOnPart'
  BY <1>11 DEF RegisterUpload
<1>12. ASSUME NEW r \in Requests, BeginCopy(r)
      PROVE  HandleOnPart'
  BY <1>12 DEF BeginCopy
<1>13. ASSUME NEW r \in Requests, ShortSource(r)
      PROVE  HandleOnPart'
  BY <1>13 DEF ShortSource
<1>14. ASSUME NEW r \in Requests, StartWrite(r)
      PROVE  HandleOnPart'
  BY <1>14 DEF StartWrite
<1>15. ASSUME NEW r \in Requests, WriteFails(r)
      PROVE  HandleOnPart'
  BY <1>15 DEF WriteFails
<1>16. ASSUME NEW r \in Requests, WritePiece(r)
      PROVE  HandleOnPart'
  BY <1>16 DEF WritePiece
<1>17. ASSUME NEW r \in Requests, RecordReceived(r)
      PROVE  HandleOnPart'
  BY <1>17 DEF RecordReceived
<1>18. ASSUME NEW r \in Requests, LookUpForFinalize(r)
      PROVE  HandleOnPart'
  BY <1>18 DEF LookUpForFinalize
<1>19. ASSUME NEW r \in Requests, CountReceived(r)
      PROVE  HandleOnPart'
  BY <1>19 DEF CountReceived
<1>20. ASSUME NEW r \in Requests, CloseFile(r)
      PROVE  HandleOnPart'
  BY <1>20 DEF CloseFile
<1>21. ASSUME NEW r \in Requests, CloseFails(r)
      PROVE  HandleOnPart'
  BY <1>21 DEF CloseFails
<1>22. ASSUME NEW r \in Requests, RenamePart(r)
      PROVE  HandleOnPart'
  BY <1>22 DEF RenamePart
<1>23. ASSUME NEW r \in Requests, DropUpload(r)
      PROVE  HandleOnPart'
  BY <1>23 DEF DropUpload
<1>24. ASSUME NEW r \in Requests, Deregister(r)
      PROVE  HandleOnPart'
  BY <1>24 DEF Deregister
<1>25. ASSUME NEW r \in Requests, ClosePart(r)
      PROVE  HandleOnPart'
  BY <1>25 DEF ClosePart
<1>26. ASSUME NEW r \in Requests, RemovePart(r)
      PROVE  HandleOnPart'
  BY <1>26 DEF RemovePart
<1>27. ASSUME NEW r \in Requests, StorageRefuses(r)
      PROVE  HandleOnPart'
  BY <1>27 DEF StorageRefuses
<1>28. ASSUME NEW s \in Sessions, Expire(s), UNCHANGED storageVars
      PROVE  HandleOnPart'
  BY <1>28 DEF Expire
<1>29. CASE Restart
  BY <1>29 DEF Restart, HandlersDie
<1>30. CASE UNCHANGED vars
  BY <1>30 DEF vars, handlerVars
<1> QED   BY <1>1, <1>2, <1>3, <1>4, <1>5, <1>6, <1>7, <1>8, <1>9, <1>10,
     <1>11, <1>12, <1>13, <1>14, <1>15, <1>16, <1>17, <1>18, <1>19, <1>20,
     <1>21, <1>22, <1>23, <1>24, <1>25, <1>26, <1>27, <1>28, <1>29, <1>30
     DEF Next, Arrives, InHandler, HandlerStep, InStorage, TimePasses

(* Pieces are never unwritten, and a chunk is received after its last one. *)
LEMMA ReceivedStep == IInv /\ [Next]_vars => ReceivedIsWritten'
<1> SUFFICES ASSUME IInv, [Next]_vars PROVE ReceivedIsWritten'
  OBVIOUS
<1> USE DEF IInv, Starts, GoesTo, Ends, Proceeds, Replies, SaveStatus, AnswerCreated,
           EndsCopy, tableVars, reqVars, copyVars, storageVars
<1> USE DEF TypeOK, SlotsAgree, Copying, PieceNumbers
<1> USE DEF ReceivedIsWritten, Written, CreatedAlone, Creating, On
<1>1. ASSUME NEW r \in Requests, NEW s \in Sessions, CreateSession(r, s), UNCHANGED storageVars
      PROVE  ReceivedIsWritten'
  BY <1>1 DEF CreateSession
<1>2. ASSUME NEW r \in Requests, NEW s \in Sessions, NEW i \in Chunks, UploadChunk(r, s, i), UNCHANGED storageVars
      PROVE  ReceivedIsWritten'
  BY <1>2 DEF UploadChunk
<1>3. ASSUME NEW r \in Requests, NEW s \in Sessions, CompleteChunkedUpload(r, s), UNCHANGED storageVars
      PROVE  ReceivedIsWritten'
  BY <1>3 DEF CompleteChunkedUpload
<1>4. ASSUME NEW r \in Requests, NEW s \in Sessions, AbortChunkedUpload(r, s), UNCHANGED storageVars
      PROVE  ReceivedIsWritten'
  BY <1>4 DEF AbortChunkedUpload
<1>5. ASSUME NEW r \in Requests, ExpireSession(r), UNCHANGED storageVars
      PROVE  ReceivedIsWritten'
  BY <1>5 DEF ExpireSession
<1>6. ASSUME NEW r \in Requests, CreateFileRecord(r), UNCHANGED storageVars
      PROVE  ReceivedIsWritten'
  BY <1>6 DEF CreateFileRecord
<1>7. ASSUME NEW r \in Requests, FileRecordFails(r), UNCHANGED storageVars
      PROVE  ReceivedIsWritten'
  BY <1>7 DEF FileRecordFails
<1>8. ASSUME NEW r \in Requests, MarkCompleted(r), UNCHANGED storageVars
      PROVE  ReceivedIsWritten'
  BY <1>8 DEF MarkCompleted
<1>9. ASSUME NEW r \in Requests, MarkCancelled(r), UNCHANGED storageVars
      PROVE  ReceivedIsWritten'
  BY <1>9 DEF MarkCancelled
<1>10. ASSUME NEW r \in Requests, CreatePartFile(r)
      PROVE  ReceivedIsWritten'
  BY <1>10 DEF CreatePartFile
<1>11. ASSUME NEW r \in Requests, RegisterUpload(r)
      PROVE  ReceivedIsWritten'
  <2>1. sess[r] \in Sessions
    BY <1>11 DEF RegisterUpload
  <2>2. "created" \notin answered[sess[r]]
    BY <1>11, <2>1 DEF RegisterUpload
  <2>3. /\ pc[r] = "registering"
        /\ received' = [received EXCEPT ![sess[r]] = {}]
        /\ Ends(r)
        /\ UNCHANGED <<data, copyVars>>
    BY <1>11 DEF RegisterUpload
  <2>4. ASSUME NEW q \in Requests, sess[q] = sess[r], q # r PROVE FALSE
    BY <2>1, <2>2, <2>4
  <2> QED
    BY <2>1, <2>3, <2>4
<1>12. ASSUME NEW r \in Requests, BeginCopy(r)
      PROVE  ReceivedIsWritten'
  <2>1. PICK n \in Nonces : nonce' = [nonce EXCEPT ![r] = n]
    BY <1>12 DEF BeginCopy
  <2>2. /\ pc[r] = "chunk_call"
        /\ Proceeds(r, "copying")
        /\ UNCHANGED <<registered, open, received, disk, data, done>>
    BY <1>12 DEF BeginCopy
  <2> QED
    BY <2>1, <2>2
<1>13. ASSUME NEW r \in Requests, ShortSource(r)
      PROVE  ReceivedIsWritten'
  BY <1>13 DEF ShortSource
<1>14. ASSUME NEW r \in Requests, StartWrite(r)
      PROVE  ReceivedIsWritten'
  BY <1>14 DEF StartWrite
<1>15. ASSUME NEW r \in Requests, WriteFails(r)
      PROVE  ReceivedIsWritten'
  BY <1>15 DEF WriteFails
<1>16. ASSUME NEW r \in Requests, WritePiece(r)
      PROVE  ReceivedIsWritten'
  BY <1>16 DEF WritePiece
<1>17. ASSUME NEW r \in Requests, RecordReceived(r)
      PROVE  ReceivedIsWritten'
  BY <1>17 DEF RecordReceived
<1>18. ASSUME NEW r \in Requests, LookUpForFinalize(r)
      PROVE  ReceivedIsWritten'
  BY <1>18 DEF LookUpForFinalize
<1>19. ASSUME NEW r \in Requests, CountReceived(r)
      PROVE  ReceivedIsWritten'
  BY <1>19, AllReceivedMeansAll DEF CountReceived
<1>20. ASSUME NEW r \in Requests, CloseFile(r)
      PROVE  ReceivedIsWritten'
  BY <1>20 DEF CloseFile
<1>21. ASSUME NEW r \in Requests, CloseFails(r)
      PROVE  ReceivedIsWritten'
  BY <1>21 DEF CloseFails
<1>22. ASSUME NEW r \in Requests, RenamePart(r)
      PROVE  ReceivedIsWritten'
  BY <1>22 DEF RenamePart
<1>23. ASSUME NEW r \in Requests, DropUpload(r)
      PROVE  ReceivedIsWritten'
  BY <1>23 DEF DropUpload
<1>24. ASSUME NEW r \in Requests, Deregister(r)
      PROVE  ReceivedIsWritten'
  BY <1>24 DEF Deregister
<1>25. ASSUME NEW r \in Requests, ClosePart(r)
      PROVE  ReceivedIsWritten'
  BY <1>25 DEF ClosePart
<1>26. ASSUME NEW r \in Requests, RemovePart(r)
      PROVE  ReceivedIsWritten'
  BY <1>26 DEF RemovePart
<1>27. ASSUME NEW r \in Requests, StorageRefuses(r)
      PROVE  ReceivedIsWritten'
  BY <1>27 DEF StorageRefuses
<1>28. ASSUME NEW s \in Sessions, Expire(s), UNCHANGED storageVars
      PROVE  ReceivedIsWritten'
  BY <1>28 DEF Expire
<1>29. CASE Restart
  BY <1>29 DEF Restart, HandlersDie
<1>30. CASE UNCHANGED vars
  BY <1>30 DEF vars, handlerVars
<1> QED   BY <1>1, <1>2, <1>3, <1>4, <1>5, <1>6, <1>7, <1>8, <1>9, <1>10,
     <1>11, <1>12, <1>13, <1>14, <1>15, <1>16, <1>17, <1>18, <1>19, <1>20,
     <1>21, <1>22, <1>23, <1>24, <1>25, <1>26, <1>27, <1>28, <1>29, <1>30
     DEF Next, Arrives, InHandler, HandlerStep, InStorage, TimePasses

(* Whoever closes the open file is alone past that point. *)
LEMMA PublisherStep == IInv /\ [Next]_vars => OnePublisher'
<1> SUFFICES ASSUME IInv, [Next]_vars PROVE OnePublisher'
  OBVIOUS
<1> USE DEF IInv, Starts, GoesTo, Ends, Proceeds, Replies, SaveStatus, AnswerCreated,
           EndsCopy, tableVars, reqVars, copyVars, storageVars
<1> USE DEF TypeOK, SlotsAgree, Copying, PieceNumbers
<1> USE DEF OnePublisher, Publishing, HandleOnPart, CreatedAlone, Creating,
           RowHasObject, On
<1>1. ASSUME NEW r \in Requests, NEW s \in Sessions, CreateSession(r, s), UNCHANGED storageVars
      PROVE  OnePublisher'
  BY <1>1 DEF CreateSession
<1>2. ASSUME NEW r \in Requests, NEW s \in Sessions, NEW i \in Chunks, UploadChunk(r, s, i), UNCHANGED storageVars
      PROVE  OnePublisher'
  BY <1>2 DEF UploadChunk
<1>3. ASSUME NEW r \in Requests, NEW s \in Sessions, CompleteChunkedUpload(r, s), UNCHANGED storageVars
      PROVE  OnePublisher'
  BY <1>3 DEF CompleteChunkedUpload
<1>4. ASSUME NEW r \in Requests, NEW s \in Sessions, AbortChunkedUpload(r, s), UNCHANGED storageVars
      PROVE  OnePublisher'
  BY <1>4 DEF AbortChunkedUpload
<1>5. ASSUME NEW r \in Requests, ExpireSession(r), UNCHANGED storageVars
      PROVE  OnePublisher'
  BY <1>5 DEF ExpireSession
<1>6. ASSUME NEW r \in Requests, CreateFileRecord(r), UNCHANGED storageVars
      PROVE  OnePublisher'
  BY <1>6 DEF CreateFileRecord
<1>7. ASSUME NEW r \in Requests, FileRecordFails(r), UNCHANGED storageVars
      PROVE  OnePublisher'
  BY <1>7 DEF FileRecordFails
<1>8. ASSUME NEW r \in Requests, MarkCompleted(r), UNCHANGED storageVars
      PROVE  OnePublisher'
  BY <1>8 DEF MarkCompleted
<1>9. ASSUME NEW r \in Requests, MarkCancelled(r), UNCHANGED storageVars
      PROVE  OnePublisher'
  BY <1>9 DEF MarkCancelled
<1>10. ASSUME NEW r \in Requests, CreatePartFile(r)
      PROVE  OnePublisher'
  BY <1>10 DEF CreatePartFile
<1>11. ASSUME NEW r \in Requests, RegisterUpload(r)
      PROVE  OnePublisher'
  BY <1>11 DEF RegisterUpload
<1>12. ASSUME NEW r \in Requests, BeginCopy(r)
      PROVE  OnePublisher'
  BY <1>12 DEF BeginCopy
<1>13. ASSUME NEW r \in Requests, ShortSource(r)
      PROVE  OnePublisher'
  BY <1>13 DEF ShortSource
<1>14. ASSUME NEW r \in Requests, StartWrite(r)
      PROVE  OnePublisher'
  BY <1>14 DEF StartWrite
<1>15. ASSUME NEW r \in Requests, WriteFails(r)
      PROVE  OnePublisher'
  BY <1>15 DEF WriteFails
<1>16. ASSUME NEW r \in Requests, WritePiece(r)
      PROVE  OnePublisher'
  BY <1>16 DEF WritePiece
<1>17. ASSUME NEW r \in Requests, RecordReceived(r)
      PROVE  OnePublisher'
  BY <1>17 DEF RecordReceived
<1>18. ASSUME NEW r \in Requests, LookUpForFinalize(r)
      PROVE  OnePublisher'
  BY <1>18 DEF LookUpForFinalize
<1>19. ASSUME NEW r \in Requests, CountReceived(r)
      PROVE  OnePublisher'
  BY <1>19 DEF CountReceived
<1>20. ASSUME NEW r \in Requests, CloseFile(r)
      PROVE  OnePublisher'
  BY <1>20 DEF CloseFile
<1>21. ASSUME NEW r \in Requests, CloseFails(r)
      PROVE  OnePublisher'
  BY <1>21 DEF CloseFails
<1>22. ASSUME NEW r \in Requests, RenamePart(r)
      PROVE  OnePublisher'
  BY <1>22 DEF RenamePart
<1>23. ASSUME NEW r \in Requests, DropUpload(r)
      PROVE  OnePublisher'
  BY <1>23 DEF DropUpload
<1>24. ASSUME NEW r \in Requests, Deregister(r)
      PROVE  OnePublisher'
  BY <1>24 DEF Deregister
<1>25. ASSUME NEW r \in Requests, ClosePart(r)
      PROVE  OnePublisher'
  BY <1>25 DEF ClosePart
<1>26. ASSUME NEW r \in Requests, RemovePart(r)
      PROVE  OnePublisher'
  BY <1>26 DEF RemovePart
<1>27. ASSUME NEW r \in Requests, StorageRefuses(r)
      PROVE  OnePublisher'
  BY <1>27 DEF StorageRefuses
<1>28. ASSUME NEW s \in Sessions, Expire(s), UNCHANGED storageVars
      PROVE  OnePublisher'
  BY <1>28 DEF Expire
<1>29. CASE Restart
  BY <1>29 DEF Restart, HandlersDie
<1>30. CASE UNCHANGED vars
  BY <1>30 DEF vars, handlerVars
<1> QED   BY <1>1, <1>2, <1>3, <1>4, <1>5, <1>6, <1>7, <1>8, <1>9, <1>10,
     <1>11, <1>12, <1>13, <1>14, <1>15, <1>16, <1>17, <1>18, <1>19, <1>20,
     <1>21, <1>22, <1>23, <1>24, <1>25, <1>26, <1>27, <1>28, <1>29, <1>30
     DEF Next, Arrives, InHandler, HandlerStep, InStorage, TimePasses

(* The properties themselves, from the parts above. *)
LEMMA PropertiesStep == IInv /\ [Next]_vars => PublishedIsComplete' /\ OneRowPerSession' /\ RowHasObject' /\ CompletedIsStored'
<1> SUFFICES ASSUME IInv, [Next]_vars PROVE PublishedIsComplete' /\ OneRowPerSession' /\ RowHasObject' /\ CompletedIsStored'
  OBVIOUS
<1> USE DEF IInv, Starts, GoesTo, Ends, Proceeds, Replies, SaveStatus, AnswerCreated,
           EndsCopy, tableVars, reqVars, copyVars, storageVars
<1> USE DEF TypeOK, SlotsAgree, Copying, PieceNumbers
<1> USE DEF PublishedIsComplete, OneRowPerSession, RowHasObject, CompletedIsStored,
           ReceivedIsWritten, Written, OnePublisher, Publishing, HandleOnPart,
           CreatedAlone, Creating, On
<1>1. ASSUME NEW r \in Requests, NEW s \in Sessions, CreateSession(r, s), UNCHANGED storageVars
      PROVE  PublishedIsComplete' /\ OneRowPerSession' /\ RowHasObject' /\ CompletedIsStored'
  BY <1>1 DEF CreateSession
<1>2. ASSUME NEW r \in Requests, NEW s \in Sessions, NEW i \in Chunks, UploadChunk(r, s, i), UNCHANGED storageVars
      PROVE  PublishedIsComplete' /\ OneRowPerSession' /\ RowHasObject' /\ CompletedIsStored'
  BY <1>2 DEF UploadChunk
<1>3. ASSUME NEW r \in Requests, NEW s \in Sessions, CompleteChunkedUpload(r, s), UNCHANGED storageVars
      PROVE  PublishedIsComplete' /\ OneRowPerSession' /\ RowHasObject' /\ CompletedIsStored'
  BY <1>3 DEF CompleteChunkedUpload
<1>4. ASSUME NEW r \in Requests, NEW s \in Sessions, AbortChunkedUpload(r, s), UNCHANGED storageVars
      PROVE  PublishedIsComplete' /\ OneRowPerSession' /\ RowHasObject' /\ CompletedIsStored'
  BY <1>4 DEF AbortChunkedUpload
<1>5. ASSUME NEW r \in Requests, ExpireSession(r), UNCHANGED storageVars
      PROVE  PublishedIsComplete' /\ OneRowPerSession' /\ RowHasObject' /\ CompletedIsStored'
  BY <1>5 DEF ExpireSession
<1>6. ASSUME NEW r \in Requests, CreateFileRecord(r), UNCHANGED storageVars
      PROVE  PublishedIsComplete' /\ OneRowPerSession' /\ RowHasObject' /\ CompletedIsStored'
  BY <1>6 DEF CreateFileRecord
<1>7. ASSUME NEW r \in Requests, FileRecordFails(r), UNCHANGED storageVars
      PROVE  PublishedIsComplete' /\ OneRowPerSession' /\ RowHasObject' /\ CompletedIsStored'
  BY <1>7 DEF FileRecordFails
<1>8. ASSUME NEW r \in Requests, MarkCompleted(r), UNCHANGED storageVars
      PROVE  PublishedIsComplete' /\ OneRowPerSession' /\ RowHasObject' /\ CompletedIsStored'
  BY <1>8 DEF MarkCompleted
<1>9. ASSUME NEW r \in Requests, MarkCancelled(r), UNCHANGED storageVars
      PROVE  PublishedIsComplete' /\ OneRowPerSession' /\ RowHasObject' /\ CompletedIsStored'
  BY <1>9 DEF MarkCancelled
<1>10. ASSUME NEW r \in Requests, CreatePartFile(r)
      PROVE  PublishedIsComplete' /\ OneRowPerSession' /\ RowHasObject' /\ CompletedIsStored'
  BY <1>10 DEF CreatePartFile
<1>11. ASSUME NEW r \in Requests, RegisterUpload(r)
      PROVE  PublishedIsComplete' /\ OneRowPerSession' /\ RowHasObject' /\ CompletedIsStored'
  BY <1>11 DEF RegisterUpload
<1>12. ASSUME NEW r \in Requests, BeginCopy(r)
      PROVE  PublishedIsComplete' /\ OneRowPerSession' /\ RowHasObject' /\ CompletedIsStored'
  BY <1>12 DEF BeginCopy
<1>13. ASSUME NEW r \in Requests, ShortSource(r)
      PROVE  PublishedIsComplete' /\ OneRowPerSession' /\ RowHasObject' /\ CompletedIsStored'
  BY <1>13 DEF ShortSource
<1>14. ASSUME NEW r \in Requests, StartWrite(r)
      PROVE  PublishedIsComplete' /\ OneRowPerSession' /\ RowHasObject' /\ CompletedIsStored'
  BY <1>14 DEF StartWrite
<1>15. ASSUME NEW r \in Requests, WriteFails(r)
      PROVE  PublishedIsComplete' /\ OneRowPerSession' /\ RowHasObject' /\ CompletedIsStored'
  BY <1>15 DEF WriteFails
<1>16. ASSUME NEW r \in Requests, WritePiece(r)
      PROVE  PublishedIsComplete' /\ OneRowPerSession' /\ RowHasObject' /\ CompletedIsStored'
  BY <1>16 DEF WritePiece
<1>17. ASSUME NEW r \in Requests, RecordReceived(r)
      PROVE  PublishedIsComplete' /\ OneRowPerSession' /\ RowHasObject' /\ CompletedIsStored'
  BY <1>17 DEF RecordReceived
<1>18. ASSUME NEW r \in Requests, LookUpForFinalize(r)
      PROVE  PublishedIsComplete' /\ OneRowPerSession' /\ RowHasObject' /\ CompletedIsStored'
  BY <1>18 DEF LookUpForFinalize
<1>19. ASSUME NEW r \in Requests, CountReceived(r)
      PROVE  PublishedIsComplete' /\ OneRowPerSession' /\ RowHasObject' /\ CompletedIsStored'
  BY <1>19 DEF CountReceived
<1>20. ASSUME NEW r \in Requests, CloseFile(r)
      PROVE  PublishedIsComplete' /\ OneRowPerSession' /\ RowHasObject' /\ CompletedIsStored'
  BY <1>20 DEF CloseFile
<1>21. ASSUME NEW r \in Requests, CloseFails(r)
      PROVE  PublishedIsComplete' /\ OneRowPerSession' /\ RowHasObject' /\ CompletedIsStored'
  BY <1>21 DEF CloseFails
<1>22. ASSUME NEW r \in Requests, RenamePart(r)
      PROVE  PublishedIsComplete' /\ OneRowPerSession' /\ RowHasObject' /\ CompletedIsStored'
  BY <1>22 DEF RenamePart
<1>23. ASSUME NEW r \in Requests, DropUpload(r)
      PROVE  PublishedIsComplete' /\ OneRowPerSession' /\ RowHasObject' /\ CompletedIsStored'
  BY <1>23 DEF DropUpload
<1>24. ASSUME NEW r \in Requests, Deregister(r)
      PROVE  PublishedIsComplete' /\ OneRowPerSession' /\ RowHasObject' /\ CompletedIsStored'
  BY <1>24 DEF Deregister
<1>25. ASSUME NEW r \in Requests, ClosePart(r)
      PROVE  PublishedIsComplete' /\ OneRowPerSession' /\ RowHasObject' /\ CompletedIsStored'
  BY <1>25 DEF ClosePart
<1>26. ASSUME NEW r \in Requests, RemovePart(r)
      PROVE  PublishedIsComplete' /\ OneRowPerSession' /\ RowHasObject' /\ CompletedIsStored'
  <2>1. \A s \in Sessions : disk'[s] = "final" <=> disk[s] = "final"
    BY <1>26 DEF RemovePart
  <2>2. Proceeds(r, "cancelling") /\ UNCHANGED data
    BY <1>26 DEF RemovePart
  <2> QED
    BY <2>1, <2>2
<1>27. ASSUME NEW r \in Requests, StorageRefuses(r)
      PROVE  PublishedIsComplete' /\ OneRowPerSession' /\ RowHasObject' /\ CompletedIsStored'
  BY <1>27 DEF StorageRefuses
<1>28. ASSUME NEW s \in Sessions, Expire(s), UNCHANGED storageVars
      PROVE  PublishedIsComplete' /\ OneRowPerSession' /\ RowHasObject' /\ CompletedIsStored'
  BY <1>28 DEF Expire
<1>29. CASE Restart
  BY <1>29 DEF Restart, HandlersDie
<1>30. CASE UNCHANGED vars
  BY <1>30 DEF vars, handlerVars
<1> QED   BY <1>1, <1>2, <1>3, <1>4, <1>5, <1>6, <1>7, <1>8, <1>9, <1>10,
     <1>11, <1>12, <1>13, <1>14, <1>15, <1>16, <1>17, <1>18, <1>19, <1>20,
     <1>21, <1>22, <1>23, <1>24, <1>25, <1>26, <1>27, <1>28, <1>29, <1>30
     DEF Next, Arrives, InHandler, HandlerStep, InStorage, TimePasses

(* The invariant holds in every state, whatever fails.                     *)
THEOREM Invariance == Spec => []IInv
<1>1. IInv /\ [Next]_vars => IInv'
  BY TypeStep, CreatedAloneStep, HandleStep, ReceivedStep, PublisherStep,
     PropertiesStep DEF IInv
<1> QED
  BY InitIInv, <1>1, PTL DEF Spec

(* Every variable keeps its type. *)
THEOREM TypeCorrect == Spec => []TypeOK
BY Invariance, PTL DEF IInv

(* A published file is complete, whatever the number of chunks, of requests *)
(* in flight and of pieces a chunk is written in, and whatever fails.       *)
THEOREM PublishedComplete == Spec => []PublishedIsComplete
BY Invariance, PTL DEF IInv

(* A session never lists two files. *)
THEOREM AtMostOneRow == Spec => []OneRowPerSession
BY Invariance, PTL DEF IInv

(* A listed file has its object. *)
THEOREM ListedHasObject == Spec => []RowHasObject
BY Invariance, PTL DEF IInv

(* Who is told "completed" has a listed file. *)
THEOREM CompletedStored == Spec => []CompletedIsStored
BY Invariance, PTL DEF IInv

(***************************************************************************)
(* Without faults and restarts no session is left half way: a second       *)
(* invariant, on top of the first.                                         *)
(***************************************************************************)
Untroubled == ~Faults /\ ~Restarts

Usable(s) == registered[s] /\ open[s] /\ disk[s] = "part"

(* Where a request still has a step to come that makes the session usable, *)
(* or marks its row as something else.                                     *)
Unfinished ==
  Creating \union Publishing \union {"settling", "closing_part", "removing", "cancelling"}

(* An active session that cannot be used has a request that will see to it. *)
SeenTo(s) ==
  row[s] = "active" => Usable(s) \/ \E r \in Requests : On(r, s, Unfinished)

(* Only an abort unlinks a .part file, and it marks the row next. *)
RemovedByAbort(s) ==
  row[s] = "active" /\ disk[s] = "removed" => \E r \in Requests : On(r, s, {"cancelling"})

(* So a rename fails only because an abort came first. *)
NotYetFinal(s) == \A r \in Requests : On(r, s, {"renaming"}) => disk[s] # "final"

(* What is left outside the map is being registered or cleared away. *)
RegistersOpen(s) == \A r \in Requests : On(r, s, {"registering"}) => open[s]

Clearing == {"registering", "closing_part", "removing"}

LeftToSomeone(s) ==
  ~registered[s] /\ (open[s] \/ disk[s] = "part") => \E r \in Requests : On(r, s, Clearing)

SettledInv ==
  Untroubled =>
    \A s \in Sessions :
      /\ SeenTo(s)
      /\ RemovedByAbort(s)
      /\ NotYetFinal(s)
      /\ RegistersOpen(s)
      /\ LeftToSomeone(s)

(* What a step does to a session that can be used, to a request that will  *)
(* see to one that cannot, and to one that clears away.                    *)
StaysUsable(s) == Usable(s) => Usable(s)' \/ \E r \in Requests : On(r, s, Unfinished)'

KeepsAtIt(r, s) ==
  On(r, s, Unfinished) =>
    \/ On(r, s, Unfinished)'
    \/ row'[s] # "active"
    \/ Usable(s)'
    \/ disk[s] = "removed" /\ On(r, s, {"renaming"})

ClearsAway(r, s) ==
  On(r, s, Clearing) =>
    \/ On(r, s, Clearing)'
    \/ registered'[s]
    \/ ~open'[s] /\ disk'[s] # "part"

LeavesToSomeone(s) ==
  ~registered'[s] /\ (open'[s] \/ disk'[s] = "part") =>
    \/ ~registered[s] /\ (open[s] \/ disk[s] = "part")
    \/ \E r \in Requests : On(r, s, Clearing)'

(* Once another request than its init's is on a session, that one is done. *)
LEMMA PastCreation ==
  ASSUME TypeOK, SlotsAgree, CreatedAlone,
         NEW r \in Requests, pc[r] # "idle", pc[r] \notin Creating
  PROVE  sess[r] \in Sessions /\ \A q \in Requests : ~On(q, sess[r], Creating)
<1>1. sess[r] \in Sessions
  BY DEF TypeOK, SlotsAgree
<1>2. "created" \in answered[sess[r]]
  BY <1>1 DEF CreatedAlone
<1> QED
  BY <1>1, <1>2 DEF CreatedAlone

(* A session is registered with its file open.                             *)
LEMMA RegistersOpenStep ==
  ASSUME TypeOK,
         SlotsAgree,
         [Next]_vars,
         Untroubled,
         NEW x \in Sessions,
         CreatedAlone,
         RegistersOpen(x)
  PROVE  RegistersOpen(x)'
<1> USE DEF TypeOK, Starts, GoesTo, Ends, Proceeds, Replies, SaveStatus,
           AnswerCreated, EndsCopy, tableVars, reqVars, copyVars, storageVars
<1> USE DEF RegistersOpen, On
<1>1. ASSUME NEW r \in Requests, NEW s \in Sessions, CreateSession(r, s), UNCHANGED storageVars
      PROVE  RegistersOpen(x)'
  BY <1>1 DEF CreateSession
<1>2. ASSUME NEW r \in Requests, NEW s \in Sessions, NEW i \in Chunks, UploadChunk(r, s, i), UNCHANGED storageVars
      PROVE  RegistersOpen(x)'
  BY <1>2 DEF UploadChunk
<1>3. ASSUME NEW r \in Requests, NEW s \in Sessions, CompleteChunkedUpload(r, s), UNCHANGED storageVars
      PROVE  RegistersOpen(x)'
  BY <1>3 DEF CompleteChunkedUpload
<1>4. ASSUME NEW r \in Requests, NEW s \in Sessions, AbortChunkedUpload(r, s), UNCHANGED storageVars
      PROVE  RegistersOpen(x)'
  BY <1>4 DEF AbortChunkedUpload
<1>5. ASSUME NEW r \in Requests, ExpireSession(r), UNCHANGED storageVars
      PROVE  RegistersOpen(x)'
  BY <1>5 DEF ExpireSession
<1>6. ASSUME NEW r \in Requests, CreateFileRecord(r), UNCHANGED storageVars
      PROVE  RegistersOpen(x)'
  BY <1>6 DEF CreateFileRecord
<1>7. ASSUME NEW r \in Requests, FileRecordFails(r), UNCHANGED storageVars
      PROVE  RegistersOpen(x)'
  BY <1>7 DEF FileRecordFails
<1>8. ASSUME NEW r \in Requests, MarkCompleted(r), UNCHANGED storageVars
      PROVE  RegistersOpen(x)'
  BY <1>8 DEF MarkCompleted
<1>9. ASSUME NEW r \in Requests, MarkCancelled(r), UNCHANGED storageVars
      PROVE  RegistersOpen(x)'
  BY <1>9 DEF MarkCancelled
<1>10. ASSUME NEW r \in Requests, CreatePartFile(r)
      PROVE  RegistersOpen(x)'
  BY <1>10 DEF CreatePartFile
<1>11. ASSUME NEW r \in Requests, RegisterUpload(r)
      PROVE  RegistersOpen(x)'
  BY <1>11 DEF RegisterUpload
<1>12. ASSUME NEW r \in Requests, BeginCopy(r)
      PROVE  RegistersOpen(x)'
  BY <1>12 DEF BeginCopy
<1>13. ASSUME NEW r \in Requests, ShortSource(r)
      PROVE  RegistersOpen(x)'
  BY <1>13 DEF ShortSource
<1>14. ASSUME NEW r \in Requests, StartWrite(r)
      PROVE  RegistersOpen(x)'
  BY <1>14 DEF StartWrite
<1>15. ASSUME NEW r \in Requests, WriteFails(r)
      PROVE  RegistersOpen(x)'
  BY <1>15 DEF WriteFails
<1>16. ASSUME NEW r \in Requests, WritePiece(r)
      PROVE  RegistersOpen(x)'
  BY <1>16 DEF WritePiece
<1>17. ASSUME NEW r \in Requests, RecordReceived(r)
      PROVE  RegistersOpen(x)'
  BY <1>17 DEF RecordReceived
<1>18. ASSUME NEW r \in Requests, LookUpForFinalize(r)
      PROVE  RegistersOpen(x)'
  BY <1>18 DEF LookUpForFinalize
<1>19. ASSUME NEW r \in Requests, CountReceived(r)
      PROVE  RegistersOpen(x)'
  BY <1>19 DEF CountReceived
<1>20. ASSUME NEW r \in Requests, CloseFile(r)
      PROVE  RegistersOpen(x)'
  <2>1. /\ pc[r] = "closing"
        /\ \A y \in Sessions : y # sess[r] => open'[y] = open[y]
        /\ \A q \in Requests : pc'[q] = "registering" => pc[q] = "registering" /\ UNCHANGED sess[q]
    BY <1>20 DEF CloseFile
  <2>2. \A q \in Requests : ~On(q, sess[r], Creating)
    BY <2>1, PastCreation DEF Creating
  <2> QED
    BY <2>1, <2>2 DEF Creating
<1>21. ASSUME NEW r \in Requests, CloseFails(r)
      PROVE  RegistersOpen(x)'
  <2>1. /\ pc[r] = "closing"
        /\ \A y \in Sessions : y # sess[r] => open'[y] = open[y]
        /\ \A q \in Requests : pc'[q] = "registering" => pc[q] = "registering" /\ UNCHANGED sess[q]
    BY <1>21 DEF CloseFails
  <2>2. \A q \in Requests : ~On(q, sess[r], Creating)
    BY <2>1, PastCreation DEF Creating
  <2> QED
    BY <2>1, <2>2 DEF Creating
<1>22. ASSUME NEW r \in Requests, RenamePart(r)
      PROVE  RegistersOpen(x)'
  BY <1>22 DEF RenamePart
<1>23. ASSUME NEW r \in Requests, DropUpload(r)
      PROVE  RegistersOpen(x)'
  BY <1>23 DEF DropUpload
<1>24. ASSUME NEW r \in Requests, Deregister(r)
      PROVE  RegistersOpen(x)'
  BY <1>24 DEF Deregister
<1>25. ASSUME NEW r \in Requests, ClosePart(r)
      PROVE  RegistersOpen(x)'
  <2>1. /\ pc[r] = "closing_part"
        /\ \A y \in Sessions : y # sess[r] => open'[y] = open[y]
        /\ \A q \in Requests : pc'[q] = "registering" => pc[q] = "registering" /\ UNCHANGED sess[q]
    BY <1>25 DEF ClosePart
  <2>2. \A q \in Requests : ~On(q, sess[r], Creating)
    BY <2>1, PastCreation DEF Creating
  <2> QED
    BY <2>1, <2>2 DEF Creating
<1>26. ASSUME NEW r \in Requests, RemovePart(r)
      PROVE  RegistersOpen(x)'
  BY <1>26 DEF RemovePart
<1>27. ASSUME NEW r \in Requests, StorageRefuses(r)
      PROVE  RegistersOpen(x)'
  BY <1>27 DEF StorageRefuses
<1>28. ASSUME NEW s \in Sessions, Expire(s), UNCHANGED storageVars
      PROVE  RegistersOpen(x)'
  BY <1>28 DEF Expire
<1>29. CASE Restart
  BY <1>29 DEF Restart, HandlersDie, Untroubled
<1>30. CASE UNCHANGED vars
  BY <1>30 DEF vars, handlerVars
<1> HIDE DEF TypeOK, Starts, GoesTo, Ends, Proceeds, Replies, SaveStatus,
           AnswerCreated, EndsCopy, tableVars, reqVars, copyVars, storageVars,
           RegistersOpen, On
<1> QED BY <1>1, <1>2, <1>3, <1>4, <1>5, <1>6, <1>7, <1>8, <1>9, <1>10, <1>11,
     <1>12, <1>13, <1>14, <1>15, <1>16, <1>17, <1>18, <1>19, <1>20, <1>21,
     <1>22, <1>23, <1>24, <1>25, <1>26, <1>27, <1>28, <1>29, <1>30
     DEF Next, Arrives, InHandler, HandlerStep, InStorage, TimePasses

(* The one request that publishes renames once.                            *)
LEMMA RenamesPartStep ==
  ASSUME TypeOK,
         SlotsAgree,
         [Next]_vars,
         Untroubled,
         NEW x \in Sessions,
         HandleOnPart,
         OnePublisher,
         NotYetFinal(x)
  PROVE  NotYetFinal(x)'
<1> USE DEF TypeOK, Starts, GoesTo, Ends, Proceeds, Replies, SaveStatus,
           AnswerCreated, EndsCopy, tableVars, reqVars, copyVars, storageVars
<1> USE DEF NotYetFinal, On
<1>1. ASSUME NEW r \in Requests, NEW s \in Sessions, CreateSession(r, s), UNCHANGED storageVars
      PROVE  NotYetFinal(x)'
  BY <1>1 DEF CreateSession
<1>2. ASSUME NEW r \in Requests, NEW s \in Sessions, NEW i \in Chunks, UploadChunk(r, s, i), UNCHANGED storageVars
      PROVE  NotYetFinal(x)'
  BY <1>2 DEF UploadChunk
<1>3. ASSUME NEW r \in Requests, NEW s \in Sessions, CompleteChunkedUpload(r, s), UNCHANGED storageVars
      PROVE  NotYetFinal(x)'
  BY <1>3 DEF CompleteChunkedUpload
<1>4. ASSUME NEW r \in Requests, NEW s \in Sessions, AbortChunkedUpload(r, s), UNCHANGED storageVars
      PROVE  NotYetFinal(x)'
  BY <1>4 DEF AbortChunkedUpload
<1>5. ASSUME NEW r \in Requests, ExpireSession(r), UNCHANGED storageVars
      PROVE  NotYetFinal(x)'
  BY <1>5 DEF ExpireSession
<1>6. ASSUME NEW r \in Requests, CreateFileRecord(r), UNCHANGED storageVars
      PROVE  NotYetFinal(x)'
  BY <1>6 DEF CreateFileRecord
<1>7. ASSUME NEW r \in Requests, FileRecordFails(r), UNCHANGED storageVars
      PROVE  NotYetFinal(x)'
  BY <1>7 DEF FileRecordFails
<1>8. ASSUME NEW r \in Requests, MarkCompleted(r), UNCHANGED storageVars
      PROVE  NotYetFinal(x)'
  BY <1>8 DEF MarkCompleted
<1>9. ASSUME NEW r \in Requests, MarkCancelled(r), UNCHANGED storageVars
      PROVE  NotYetFinal(x)'
  BY <1>9 DEF MarkCancelled
<1>10. ASSUME NEW r \in Requests, CreatePartFile(r)
      PROVE  NotYetFinal(x)'
  BY <1>10 DEF CreatePartFile
<1>11. ASSUME NEW r \in Requests, RegisterUpload(r)
      PROVE  NotYetFinal(x)'
  BY <1>11 DEF RegisterUpload
<1>12. ASSUME NEW r \in Requests, BeginCopy(r)
      PROVE  NotYetFinal(x)'
  BY <1>12 DEF BeginCopy
<1>13. ASSUME NEW r \in Requests, ShortSource(r)
      PROVE  NotYetFinal(x)'
  BY <1>13 DEF ShortSource
<1>14. ASSUME NEW r \in Requests, StartWrite(r)
      PROVE  NotYetFinal(x)'
  BY <1>14 DEF StartWrite
<1>15. ASSUME NEW r \in Requests, WriteFails(r)
      PROVE  NotYetFinal(x)'
  BY <1>15 DEF WriteFails
<1>16. ASSUME NEW r \in Requests, WritePiece(r)
      PROVE  NotYetFinal(x)'
  BY <1>16 DEF WritePiece
<1>17. ASSUME NEW r \in Requests, RecordReceived(r)
      PROVE  NotYetFinal(x)'
  BY <1>17 DEF RecordReceived
<1>18. ASSUME NEW r \in Requests, LookUpForFinalize(r)
      PROVE  NotYetFinal(x)'
  BY <1>18 DEF LookUpForFinalize
<1>19. ASSUME NEW r \in Requests, CountReceived(r)
      PROVE  NotYetFinal(x)'
  BY <1>19 DEF CountReceived
<1>20. ASSUME NEW r \in Requests, CloseFile(r)
      PROVE  NotYetFinal(x)'
  BY <1>20 DEF CloseFile, HandleOnPart
<1>21. ASSUME NEW r \in Requests, CloseFails(r)
      PROVE  NotYetFinal(x)'
  BY <1>21 DEF CloseFails
<1>22. ASSUME NEW r \in Requests, RenamePart(r)
      PROVE  NotYetFinal(x)'
  BY <1>22 DEF RenamePart, OnePublisher, Publishing
<1>23. ASSUME NEW r \in Requests, DropUpload(r)
      PROVE  NotYetFinal(x)'
  BY <1>23 DEF DropUpload
<1>24. ASSUME NEW r \in Requests, Deregister(r)
      PROVE  NotYetFinal(x)'
  BY <1>24 DEF Deregister
<1>25. ASSUME NEW r \in Requests, ClosePart(r)
      PROVE  NotYetFinal(x)'
  BY <1>25 DEF ClosePart
<1>26. ASSUME NEW r \in Requests, RemovePart(r)
      PROVE  NotYetFinal(x)'
  BY <1>26 DEF RemovePart
<1>27. ASSUME NEW r \in Requests, StorageRefuses(r)
      PROVE  NotYetFinal(x)'
  BY <1>27 DEF StorageRefuses
<1>28. ASSUME NEW s \in Sessions, Expire(s), UNCHANGED storageVars
      PROVE  NotYetFinal(x)'
  BY <1>28 DEF Expire
<1>29. CASE Restart
  BY <1>29 DEF Restart, HandlersDie
<1>30. CASE UNCHANGED vars
  BY <1>30 DEF vars, handlerVars
<1> HIDE DEF TypeOK, Starts, GoesTo, Ends, Proceeds, Replies, SaveStatus,
           AnswerCreated, EndsCopy, tableVars, reqVars, copyVars, storageVars,
           NotYetFinal, On
<1> QED BY <1>1, <1>2, <1>3, <1>4, <1>5, <1>6, <1>7, <1>8, <1>9, <1>10, <1>11,
     <1>12, <1>13, <1>14, <1>15, <1>16, <1>17, <1>18, <1>19, <1>20, <1>21,
     <1>22, <1>23, <1>24, <1>25, <1>26, <1>27, <1>28, <1>29, <1>30
     DEF Next, Arrives, InHandler, HandlerStep, InStorage, TimePasses

(* An abort unlinks and then marks.                                        *)
LEMMA RemovedByAbortStep ==
  ASSUME TypeOK,
         SlotsAgree,
         CreatedAlone,
         [Next]_vars,
         Untroubled,
         NEW x \in Sessions,
         RemovedByAbort(x)
  PROVE  RemovedByAbort(x)'
<1> USE DEF TypeOK, Starts, GoesTo, Ends, Proceeds, Replies, SaveStatus,
           AnswerCreated, EndsCopy, tableVars, reqVars, copyVars, storageVars
<1> USE DEF RemovedByAbort, On, Untroubled
<1>1. ASSUME NEW r \in Requests, NEW s \in Sessions, CreateSession(r, s), UNCHANGED storageVars
      PROVE  RemovedByAbort(x)'
  BY <1>1 DEF CreateSession, CreatedAlone
<1>2. ASSUME NEW r \in Requests, NEW s \in Sessions, NEW i \in Chunks, UploadChunk(r, s, i), UNCHANGED storageVars
      PROVE  RemovedByAbort(x)'
  BY <1>2 DEF UploadChunk
<1>3. ASSUME NEW r \in Requests, NEW s \in Sessions, CompleteChunkedUpload(r, s), UNCHANGED storageVars
      PROVE  RemovedByAbort(x)'
  BY <1>3 DEF CompleteChunkedUpload
<1>4. ASSUME NEW r \in Requests, NEW s \in Sessions, AbortChunkedUpload(r, s), UNCHANGED storageVars
      PROVE  RemovedByAbort(x)'
  BY <1>4 DEF AbortChunkedUpload
<1>5. ASSUME NEW r \in Requests, ExpireSession(r), UNCHANGED storageVars
      PROVE  RemovedByAbort(x)'
  BY <1>5 DEF ExpireSession
<1>6. ASSUME NEW r \in Requests, CreateFileRecord(r), UNCHANGED storageVars
      PROVE  RemovedByAbort(x)'
  BY <1>6 DEF CreateFileRecord
<1>7. ASSUME NEW r \in Requests, FileRecordFails(r), UNCHANGED storageVars
      PROVE  RemovedByAbort(x)'
  BY <1>7 DEF FileRecordFails
<1>8. ASSUME NEW r \in Requests, MarkCompleted(r), UNCHANGED storageVars
      PROVE  RemovedByAbort(x)'
  BY <1>8 DEF MarkCompleted
<1>9. ASSUME NEW r \in Requests, MarkCancelled(r), UNCHANGED storageVars
      PROVE  RemovedByAbort(x)'
  BY <1>9 DEF MarkCancelled
<1>10. ASSUME NEW r \in Requests, CreatePartFile(r)
      PROVE  RemovedByAbort(x)'
  BY <1>10 DEF CreatePartFile
<1>11. ASSUME NEW r \in Requests, RegisterUpload(r)
      PROVE  RemovedByAbort(x)'
  BY <1>11 DEF RegisterUpload
<1>12. ASSUME NEW r \in Requests, BeginCopy(r)
      PROVE  RemovedByAbort(x)'
  BY <1>12 DEF BeginCopy
<1>13. ASSUME NEW r \in Requests, ShortSource(r)
      PROVE  RemovedByAbort(x)'
  BY <1>13 DEF ShortSource
<1>14. ASSUME NEW r \in Requests, StartWrite(r)
      PROVE  RemovedByAbort(x)'
  BY <1>14 DEF StartWrite
<1>15. ASSUME NEW r \in Requests, WriteFails(r)
      PROVE  RemovedByAbort(x)'
  BY <1>15 DEF WriteFails
<1>16. ASSUME NEW r \in Requests, WritePiece(r)
      PROVE  RemovedByAbort(x)'
  BY <1>16 DEF WritePiece
<1>17. ASSUME NEW r \in Requests, RecordReceived(r)
      PROVE  RemovedByAbort(x)'
  BY <1>17 DEF RecordReceived
<1>18. ASSUME NEW r \in Requests, LookUpForFinalize(r)
      PROVE  RemovedByAbort(x)'
  BY <1>18 DEF LookUpForFinalize
<1>19. ASSUME NEW r \in Requests, CountReceived(r)
      PROVE  RemovedByAbort(x)'
  BY <1>19 DEF CountReceived
<1>20. ASSUME NEW r \in Requests, CloseFile(r)
      PROVE  RemovedByAbort(x)'
  BY <1>20 DEF CloseFile
<1>21. ASSUME NEW r \in Requests, CloseFails(r)
      PROVE  RemovedByAbort(x)'
  BY <1>21 DEF CloseFails
<1>22. ASSUME NEW r \in Requests, RenamePart(r)
      PROVE  RemovedByAbort(x)'
  BY <1>22 DEF RenamePart
<1>23. ASSUME NEW r \in Requests, DropUpload(r)
      PROVE  RemovedByAbort(x)'
  BY <1>23 DEF DropUpload
<1>24. ASSUME NEW r \in Requests, Deregister(r)
      PROVE  RemovedByAbort(x)'
  BY <1>24 DEF Deregister
<1>25. ASSUME NEW r \in Requests, ClosePart(r)
      PROVE  RemovedByAbort(x)'
  BY <1>25 DEF ClosePart
<1>26. ASSUME NEW r \in Requests, RemovePart(r)
      PROVE  RemovedByAbort(x)'
  BY <1>26 DEF RemovePart
<1>27. ASSUME NEW r \in Requests, StorageRefuses(r)
      PROVE  RemovedByAbort(x)'
  BY <1>27 DEF StorageRefuses
<1>28. ASSUME NEW s \in Sessions, Expire(s), UNCHANGED storageVars
      PROVE  RemovedByAbort(x)'
  BY <1>28 DEF Expire
<1>29. CASE Restart
  BY <1>29 DEF Restart, HandlersDie
<1>30. CASE UNCHANGED vars
  BY <1>30 DEF vars, handlerVars
<1> HIDE DEF TypeOK, Starts, GoesTo, Ends, Proceeds, Replies, SaveStatus,
           AnswerCreated, EndsCopy, tableVars, reqVars, copyVars, storageVars,
           RemovedByAbort, On, Untroubled
<1> QED BY <1>1, <1>2, <1>3, <1>4, <1>5, <1>6, <1>7, <1>8, <1>9, <1>10, <1>11,
     <1>12, <1>13, <1>14, <1>15, <1>16, <1>17, <1>18, <1>19, <1>20, <1>21,
     <1>22, <1>23, <1>24, <1>25, <1>26, <1>27, <1>28, <1>29, <1>30
     DEF Next, Arrives, InHandler, HandlerStep, InStorage, TimePasses

(* A session stops being usable only at the hand of a request that goes on *)
(* to publish it or to discard it.                                         *)
LEMMA StaysUsableStep ==
  ASSUME TypeOK,
         SlotsAgree,
         HandleOnPart,
         OnePublisher,
         CreatedAlone,
         [Next]_vars,
         Untroubled,
         NEW x \in Sessions
  PROVE  StaysUsable(x)
<1> USE DEF TypeOK, Starts, GoesTo, Ends, Proceeds, Replies, SaveStatus,
           AnswerCreated, EndsCopy, tableVars, reqVars, copyVars, storageVars
<1> USE DEF StaysUsable, Usable, Unfinished, On
<1>1. ASSUME NEW r \in Requests, NEW s \in Sessions, CreateSession(r, s), UNCHANGED storageVars
      PROVE  StaysUsable(x)
  BY <1>1 DEF CreateSession
<1>2. ASSUME NEW r \in Requests, NEW s \in Sessions, NEW i \in Chunks, UploadChunk(r, s, i), UNCHANGED storageVars
      PROVE  StaysUsable(x)
  BY <1>2 DEF UploadChunk
<1>3. ASSUME NEW r \in Requests, NEW s \in Sessions, CompleteChunkedUpload(r, s), UNCHANGED storageVars
      PROVE  StaysUsable(x)
  BY <1>3 DEF CompleteChunkedUpload
<1>4. ASSUME NEW r \in Requests, NEW s \in Sessions, AbortChunkedUpload(r, s), UNCHANGED storageVars
      PROVE  StaysUsable(x)
  BY <1>4 DEF AbortChunkedUpload
<1>5. ASSUME NEW r \in Requests, ExpireSession(r), UNCHANGED storageVars
      PROVE  StaysUsable(x)
  BY <1>5 DEF ExpireSession
<1>6. ASSUME NEW r \in Requests, CreateFileRecord(r), UNCHANGED storageVars
      PROVE  StaysUsable(x)
  BY <1>6 DEF CreateFileRecord
<1>7. ASSUME NEW r \in Requests, FileRecordFails(r), UNCHANGED storageVars
      PROVE  StaysUsable(x)
  BY <1>7 DEF FileRecordFails
<1>8. ASSUME NEW r \in Requests, MarkCompleted(r), UNCHANGED storageVars
      PROVE  StaysUsable(x)
  BY <1>8 DEF MarkCompleted
<1>9. ASSUME NEW r \in Requests, MarkCancelled(r), UNCHANGED storageVars
      PROVE  StaysUsable(x)
  BY <1>9 DEF MarkCancelled
<1>10. ASSUME NEW r \in Requests, CreatePartFile(r)
      PROVE  StaysUsable(x)
  BY <1>10 DEF CreatePartFile
<1>11. ASSUME NEW r \in Requests, RegisterUpload(r)
      PROVE  StaysUsable(x)
  BY <1>11 DEF RegisterUpload
<1>12. ASSUME NEW r \in Requests, BeginCopy(r)
      PROVE  StaysUsable(x)
  BY <1>12 DEF BeginCopy
<1>13. ASSUME NEW r \in Requests, ShortSource(r)
      PROVE  StaysUsable(x)
  BY <1>13 DEF ShortSource
<1>14. ASSUME NEW r \in Requests, StartWrite(r)
      PROVE  StaysUsable(x)
  BY <1>14 DEF StartWrite
<1>15. ASSUME NEW r \in Requests, WriteFails(r)
      PROVE  StaysUsable(x)
  BY <1>15 DEF WriteFails
<1>16. ASSUME NEW r \in Requests, WritePiece(r)
      PROVE  StaysUsable(x)
  BY <1>16 DEF WritePiece
<1>17. ASSUME NEW r \in Requests, RecordReceived(r)
      PROVE  StaysUsable(x)
  BY <1>17 DEF RecordReceived
<1>18. ASSUME NEW r \in Requests, LookUpForFinalize(r)
      PROVE  StaysUsable(x)
  BY <1>18 DEF LookUpForFinalize
<1>19. ASSUME NEW r \in Requests, CountReceived(r)
      PROVE  StaysUsable(x)
  BY <1>19 DEF CountReceived
<1>20. ASSUME NEW r \in Requests, CloseFile(r)
      PROVE  StaysUsable(x)
  <2>1. /\ pc' = [pc EXCEPT ![r] = "renaming"] /\ UNCHANGED sess
        /\ UNCHANGED <<registered, disk>> /\ \A y \in Sessions : y # sess[r] => open'[y] = open[y]
    BY <1>20 DEF CloseFile
  <2>2. CASE x = sess[r]
    <3>1. pc'[r] = "renaming" /\ sess'[r] = x
      BY <2>1, <2>2
    <3> QED
      BY <3>1 DEF Publishing
  <2>3. CASE x # sess[r]
    BY <2>1, <2>3
  <2> QED
    BY <2>2, <2>3
<1>21. ASSUME NEW r \in Requests, CloseFails(r)
      PROVE  StaysUsable(x)
  <2>1. /\ ~open[sess[r]] /\ open' = [open EXCEPT ![sess[r]] = FALSE]
        /\ UNCHANGED <<registered, disk>>
    BY <1>21 DEF CloseFails, Untroubled
  <2>2. open[x] => open'[x]
    BY <2>1
  <2> QED
    BY <2>1, <2>2
<1>22. ASSUME NEW r \in Requests, RenamePart(r)
      PROVE  StaysUsable(x)
  <2>1. /\ pc' = [pc EXCEPT ![r] = "dropping"] /\ UNCHANGED sess
        /\ UNCHANGED <<registered, open>> /\ \A y \in Sessions : y # sess[r] => disk'[y] = disk[y]
    BY <1>22 DEF RenamePart
  <2>2. CASE x = sess[r]
    <3>1. pc'[r] = "dropping" /\ sess'[r] = x
      BY <2>1, <2>2
    <3> QED
      BY <3>1 DEF Publishing
  <2>3. CASE x # sess[r]
    BY <2>1, <2>3
  <2> QED
    BY <2>2, <2>3
<1>23. ASSUME NEW r \in Requests, DropUpload(r)
      PROVE  StaysUsable(x)
  <2>1. ~open[sess[r]] /\ disk[sess[r]] = "final"
    BY <1>23 DEF DropUpload, OnePublisher, Publishing, On, SlotsAgree, TypeOK
  <2>2. registered' = [registered EXCEPT ![sess[r]] = FALSE] /\ UNCHANGED <<open, disk>>
    BY <1>23 DEF DropUpload
  <2> QED
    BY <2>1, <2>2
<1>24. ASSUME NEW r \in Requests, Deregister(r)
      PROVE  StaysUsable(x)
  <2>1. pc[r] = "abort_call" /\ registered' = [registered EXCEPT ![sess[r]] = FALSE]
        /\ Proceeds(r, IF registered[sess[r]] THEN "closing_part" ELSE "cancelling")
        /\ UNCHANGED <<open, disk>>
    BY <1>24 DEF Deregister
  <2>2. CASE x = sess[r] /\ registered[x]
    <3>1. pc'[r] = "closing_part" /\ sess'[r] = x
      BY <2>1, <2>2
    <3> QED
      BY <3>1
  <2>3. CASE x # sess[r] \/ ~registered[x]
    BY <2>1, <2>3
  <2> QED
    BY <2>2, <2>3
<1>25. ASSUME NEW r \in Requests, ClosePart(r)
      PROVE  StaysUsable(x)
  BY <1>25 DEF ClosePart
<1>26. ASSUME NEW r \in Requests, RemovePart(r)
      PROVE  StaysUsable(x)
  BY <1>26 DEF RemovePart
<1>27. ASSUME NEW r \in Requests, StorageRefuses(r)
      PROVE  StaysUsable(x)
  BY <1>27 DEF StorageRefuses
<1>28. ASSUME NEW s \in Sessions, Expire(s), UNCHANGED storageVars
      PROVE  StaysUsable(x)
  BY <1>28 DEF Expire
<1>29. CASE Restart
  BY <1>29 DEF Restart, HandlersDie, Untroubled
<1>30. CASE UNCHANGED vars
  BY <1>30 DEF vars, handlerVars
<1> HIDE DEF TypeOK, Starts, GoesTo, Ends, Proceeds, Replies, SaveStatus,
           AnswerCreated, EndsCopy, tableVars, reqVars, copyVars, storageVars,
           StaysUsable, Usable, Unfinished, On
<1> QED BY <1>1, <1>2, <1>3, <1>4, <1>5, <1>6, <1>7, <1>8, <1>9, <1>10, <1>11,
     <1>12, <1>13, <1>14, <1>15, <1>16, <1>17, <1>18, <1>19, <1>20, <1>21,
     <1>22, <1>23, <1>24, <1>25, <1>26, <1>27, <1>28, <1>29, <1>30
     DEF Next, Arrives, InHandler, HandlerStep, InStorage, TimePasses

(* Who publishes or discards a session goes on until its row is marked.    *)
LEMMA KeepsAtItStep ==
  ASSUME TypeOK,
         SlotsAgree,
         CreatedAlone,
         [Next]_vars,
         Untroubled,
         NEW x \in Sessions,
         NEW q \in Requests,
         RegistersOpen(x),
         NotYetFinal(x)
  PROVE  KeepsAtIt(q, x)
<1> USE DEF TypeOK, Starts, GoesTo, Ends, Proceeds, Replies, SaveStatus,
           AnswerCreated, EndsCopy, tableVars, reqVars, copyVars, storageVars
<1> USE DEF KeepsAtIt, Usable, Unfinished, Creating, Publishing, On
<1>1. ASSUME NEW r \in Requests, NEW s \in Sessions, CreateSession(r, s), UNCHANGED storageVars
      PROVE  KeepsAtIt(q, x)
  BY <1>1 DEF CreateSession
<1>2. ASSUME NEW r \in Requests, NEW s \in Sessions, NEW i \in Chunks, UploadChunk(r, s, i), UNCHANGED storageVars
      PROVE  KeepsAtIt(q, x)
  BY <1>2 DEF UploadChunk
<1>3. ASSUME NEW r \in Requests, NEW s \in Sessions, CompleteChunkedUpload(r, s), UNCHANGED storageVars
      PROVE  KeepsAtIt(q, x)
  BY <1>3 DEF CompleteChunkedUpload
<1>4. ASSUME NEW r \in Requests, NEW s \in Sessions, AbortChunkedUpload(r, s), UNCHANGED storageVars
      PROVE  KeepsAtIt(q, x)
  BY <1>4 DEF AbortChunkedUpload
<1>5. ASSUME NEW r \in Requests, ExpireSession(r), UNCHANGED storageVars
      PROVE  KeepsAtIt(q, x)
  BY <1>5 DEF ExpireSession
<1>6. ASSUME NEW r \in Requests, CreateFileRecord(r), UNCHANGED storageVars
      PROVE  KeepsAtIt(q, x)
  BY <1>6 DEF CreateFileRecord
<1>7. ASSUME NEW r \in Requests, FileRecordFails(r), UNCHANGED storageVars
      PROVE  KeepsAtIt(q, x)
  BY <1>7 DEF FileRecordFails, Untroubled
<1>8. ASSUME NEW r \in Requests, MarkCompleted(r), UNCHANGED storageVars
      PROVE  KeepsAtIt(q, x)
  <2>1. row' = [row EXCEPT ![sess[r]] = "completed"] /\ Ends(r)
    BY <1>8 DEF MarkCompleted, Untroubled
  <2>2. CASE q = r
    BY <2>1, <2>2
  <2>3. CASE q # r
    BY <2>1, <2>3
  <2> QED
    BY <2>2, <2>3
<1>9. ASSUME NEW r \in Requests, MarkCancelled(r), UNCHANGED storageVars
      PROVE  KeepsAtIt(q, x)
  <2>1. row' = [row EXCEPT ![sess[r]] = "cancelled"] /\ Ends(r)
    BY <1>9 DEF MarkCancelled, Untroubled
  <2>2. CASE q = r
    BY <2>1, <2>2
  <2>3. CASE q # r
    BY <2>1, <2>3
  <2> QED
    BY <2>2, <2>3
<1>10. ASSUME NEW r \in Requests, CreatePartFile(r)
      PROVE  KeepsAtIt(q, x)
  BY <1>10 DEF CreatePartFile
<1>11. ASSUME NEW r \in Requests, RegisterUpload(r)
      PROVE  KeepsAtIt(q, x)
  <2>1. /\ pc[r] = "registering" /\ Ends(r)
        /\ registered' = [registered EXCEPT ![sess[r]] = TRUE]
        /\ UNCHANGED <<open, disk>>
    BY <1>11 DEF RegisterUpload
  <2>2. CASE q = r /\ sess[q] = x
    <3>1. disk[x] = "part" /\ open[x]
      BY <2>1, <2>2 DEF CreatedAlone, RegistersOpen
    <3> QED
      BY <2>1, <2>2, <3>1
  <2>3. CASE q # r \/ sess[q] # x
    BY <2>1, <2>3
  <2> QED
    BY <2>2, <2>3
<1>12. ASSUME NEW r \in Requests, BeginCopy(r)
      PROVE  KeepsAtIt(q, x)
  BY <1>12 DEF BeginCopy
<1>13. ASSUME NEW r \in Requests, ShortSource(r)
      PROVE  KeepsAtIt(q, x)
  BY <1>13 DEF ShortSource
<1>14. ASSUME NEW r \in Requests, StartWrite(r)
      PROVE  KeepsAtIt(q, x)
  BY <1>14 DEF StartWrite
<1>15. ASSUME NEW r \in Requests, WriteFails(r)
      PROVE  KeepsAtIt(q, x)
  BY <1>15 DEF WriteFails
<1>16. ASSUME NEW r \in Requests, WritePiece(r)
      PROVE  KeepsAtIt(q, x)
  BY <1>16 DEF WritePiece
<1>17. ASSUME NEW r \in Requests, RecordReceived(r)
      PROVE  KeepsAtIt(q, x)
  BY <1>17 DEF RecordReceived
<1>18. ASSUME NEW r \in Requests, LookUpForFinalize(r)
      PROVE  KeepsAtIt(q, x)
  BY <1>18 DEF LookUpForFinalize
<1>19. ASSUME NEW r \in Requests, CountReceived(r)
      PROVE  KeepsAtIt(q, x)
  BY <1>19 DEF CountReceived
<1>20. ASSUME NEW r \in Requests, CloseFile(r)
      PROVE  KeepsAtIt(q, x)
  BY <1>20 DEF CloseFile
<1>21. ASSUME NEW r \in Requests, CloseFails(r)
      PROVE  KeepsAtIt(q, x)
  BY <1>21 DEF CloseFails
<1>22. ASSUME NEW r \in Requests, RenamePart(r)
      PROVE  KeepsAtIt(q, x)
  BY <1>22 DEF RenamePart
<1>23. ASSUME NEW r \in Requests, DropUpload(r)
      PROVE  KeepsAtIt(q, x)
  BY <1>23 DEF DropUpload
<1>24. ASSUME NEW r \in Requests, Deregister(r)
      PROVE  KeepsAtIt(q, x)
  BY <1>24 DEF Deregister
<1>25. ASSUME NEW r \in Requests, ClosePart(r)
      PROVE  KeepsAtIt(q, x)
  BY <1>25 DEF ClosePart
<1>26. ASSUME NEW r \in Requests, RemovePart(r)
      PROVE  KeepsAtIt(q, x)
  BY <1>26 DEF RemovePart
<1>27. ASSUME NEW r \in Requests, StorageRefuses(r)
      PROVE  KeepsAtIt(q, x)
  <2>1. /\ pc[r] \in {"chunk_call", "finalize_call", "counting", "renaming"} /\ Ends(r)
        /\ pc[r] = "renaming" => disk[sess[r]] # "part"
    BY <1>27 DEF StorageRefuses, Untroubled
  <2>2. CASE q = r /\ pc[r] = "renaming" /\ sess[r] = x
    <3>1. disk[x] # "final"
      BY <2>2 DEF NotYetFinal
    <3>2. disk[x] # "none"
      BY <2>2, PastCreation DEF CreatedAlone
    <3> QED
      BY <2>1, <2>2, <3>1, <3>2 DEF DiskStates
  <2>3. CASE ~(q = r /\ pc[r] = "renaming" /\ sess[r] = x)
    BY <2>1, <2>3
  <2> QED
    BY <2>2, <2>3
<1>28. ASSUME NEW s \in Sessions, Expire(s), UNCHANGED storageVars
      PROVE  KeepsAtIt(q, x)
  BY <1>28 DEF Expire
<1>29. CASE Restart
  BY <1>29 DEF Restart, HandlersDie, Untroubled
<1>30. CASE UNCHANGED vars
  BY <1>30 DEF vars, handlerVars
<1> HIDE DEF TypeOK, Starts, GoesTo, Ends, Proceeds, Replies, SaveStatus,
           AnswerCreated, EndsCopy, tableVars, reqVars, copyVars, storageVars,
           KeepsAtIt, Usable, Unfinished, Creating, Publishing, On
<1> QED BY <1>1, <1>2, <1>3, <1>4, <1>5, <1>6, <1>7, <1>8, <1>9, <1>10, <1>11,
     <1>12, <1>13, <1>14, <1>15, <1>16, <1>17, <1>18, <1>19, <1>20, <1>21,
     <1>22, <1>23, <1>24, <1>25, <1>26, <1>27, <1>28, <1>29, <1>30
     DEF Next, Arrives, InHandler, HandlerStep, InStorage, TimePasses

(* Who clears a session away goes on until it is gone.                     *)
LEMMA ClearsAwayStep ==
  ASSUME TypeOK,
         SlotsAgree,
         HandleOnPart,
         CreatedAlone,
         [Next]_vars,
         Untroubled,
         NEW x \in Sessions,
         NEW q \in Requests
  PROVE  ClearsAway(q, x)
<1> USE DEF TypeOK, Starts, GoesTo, Ends, Proceeds, Replies, SaveStatus,
           AnswerCreated, EndsCopy, tableVars, reqVars, copyVars, storageVars
<1> USE DEF ClearsAway, Clearing, On
<1>1. ASSUME NEW r \in Requests, NEW s \in Sessions, CreateSession(r, s), UNCHANGED storageVars
      PROVE  ClearsAway(q, x)
  BY <1>1 DEF CreateSession
<1>2. ASSUME NEW r \in Requests, NEW s \in Sessions, NEW i \in Chunks, UploadChunk(r, s, i), UNCHANGED storageVars
      PROVE  ClearsAway(q, x)
  BY <1>2 DEF UploadChunk
<1>3. ASSUME NEW r \in Requests, NEW s \in Sessions, CompleteChunkedUpload(r, s), UNCHANGED storageVars
      PROVE  ClearsAway(q, x)
  BY <1>3 DEF CompleteChunkedUpload
<1>4. ASSUME NEW r \in Requests, NEW s \in Sessions, AbortChunkedUpload(r, s), UNCHANGED storageVars
      PROVE  ClearsAway(q, x)
  BY <1>4 DEF AbortChunkedUpload
<1>5. ASSUME NEW r \in Requests, ExpireSession(r), UNCHANGED storageVars
      PROVE  ClearsAway(q, x)
  BY <1>5 DEF ExpireSession
<1>6. ASSUME NEW r \in Requests, CreateFileRecord(r), UNCHANGED storageVars
      PROVE  ClearsAway(q, x)
  BY <1>6 DEF CreateFileRecord
<1>7. ASSUME NEW r \in Requests, FileRecordFails(r), UNCHANGED storageVars
      PROVE  ClearsAway(q, x)
  BY <1>7 DEF FileRecordFails
<1>8. ASSUME NEW r \in Requests, MarkCompleted(r), UNCHANGED storageVars
      PROVE  ClearsAway(q, x)
  BY <1>8 DEF MarkCompleted
<1>9. ASSUME NEW r \in Requests, MarkCancelled(r), UNCHANGED storageVars
      PROVE  ClearsAway(q, x)
  BY <1>9 DEF MarkCancelled
<1>10. ASSUME NEW r \in Requests, CreatePartFile(r)
      PROVE  ClearsAway(q, x)
  BY <1>10 DEF CreatePartFile
<1>11. ASSUME NEW r \in Requests, RegisterUpload(r)
      PROVE  ClearsAway(q, x)
  BY <1>11 DEF RegisterUpload
<1>12. ASSUME NEW r \in Requests, BeginCopy(r)
      PROVE  ClearsAway(q, x)
  BY <1>12 DEF BeginCopy
<1>13. ASSUME NEW r \in Requests, ShortSource(r)
      PROVE  ClearsAway(q, x)
  BY <1>13 DEF ShortSource
<1>14. ASSUME NEW r \in Requests, StartWrite(r)
      PROVE  ClearsAway(q, x)
  BY <1>14 DEF StartWrite
<1>15. ASSUME NEW r \in Requests, WriteFails(r)
      PROVE  ClearsAway(q, x)
  BY <1>15 DEF WriteFails
<1>16. ASSUME NEW r \in Requests, WritePiece(r)
      PROVE  ClearsAway(q, x)
  BY <1>16 DEF WritePiece
<1>17. ASSUME NEW r \in Requests, RecordReceived(r)
      PROVE  ClearsAway(q, x)
  BY <1>17 DEF RecordReceived
<1>18. ASSUME NEW r \in Requests, LookUpForFinalize(r)
      PROVE  ClearsAway(q, x)
  BY <1>18 DEF LookUpForFinalize
<1>19. ASSUME NEW r \in Requests, CountReceived(r)
      PROVE  ClearsAway(q, x)
  BY <1>19 DEF CountReceived
<1>20. ASSUME NEW r \in Requests, CloseFile(r)
      PROVE  ClearsAway(q, x)
  BY <1>20 DEF CloseFile
<1>21. ASSUME NEW r \in Requests, CloseFails(r)
      PROVE  ClearsAway(q, x)
  BY <1>21 DEF CloseFails
<1>22. ASSUME NEW r \in Requests, RenamePart(r)
      PROVE  ClearsAway(q, x)
  BY <1>22 DEF RenamePart
<1>23. ASSUME NEW r \in Requests, DropUpload(r)
      PROVE  ClearsAway(q, x)
  BY <1>23 DEF DropUpload
<1>24. ASSUME NEW r \in Requests, Deregister(r)
      PROVE  ClearsAway(q, x)
  BY <1>24 DEF Deregister
<1>25. ASSUME NEW r \in Requests, ClosePart(r)
      PROVE  ClearsAway(q, x)
  BY <1>25 DEF ClosePart
<1>26. ASSUME NEW r \in Requests, RemovePart(r)
      PROVE  ClearsAway(q, x)
  <2>1. /\ pc[r] = "removing" /\ Proceeds(r, "cancelling") /\ UNCHANGED <<registered, open>>
        /\ disk' = [disk EXCEPT ![sess[r]] = IF @ = "part" THEN "removed" ELSE @]
    BY <1>26 DEF RemovePart, Untroubled
  <2>2. ~open[sess[r]]
    BY <2>1 DEF HandleOnPart, SlotsAgree
  <2>3. CASE q = r
    BY <2>1, <2>2, <2>3
  <2>4. CASE q # r
    BY <2>1, <2>4
  <2> QED
    BY <2>3, <2>4
<1>27. ASSUME NEW r \in Requests, StorageRefuses(r)
      PROVE  ClearsAway(q, x)
  BY <1>27 DEF StorageRefuses
<1>28. ASSUME NEW s \in Sessions, Expire(s), UNCHANGED storageVars
      PROVE  ClearsAway(q, x)
  BY <1>28 DEF Expire
<1>29. CASE Restart
  BY <1>29 DEF Restart, HandlersDie, Untroubled
<1>30. CASE UNCHANGED vars
  BY <1>30 DEF vars, handlerVars
<1> HIDE DEF TypeOK, Starts, GoesTo, Ends, Proceeds, Replies, SaveStatus,
           AnswerCreated, EndsCopy, tableVars, reqVars, copyVars, storageVars,
           ClearsAway, Clearing, On
<1> QED BY <1>1, <1>2, <1>3, <1>4, <1>5, <1>6, <1>7, <1>8, <1>9, <1>10, <1>11,
     <1>12, <1>13, <1>14, <1>15, <1>16, <1>17, <1>18, <1>19, <1>20, <1>21,
     <1>22, <1>23, <1>24, <1>25, <1>26, <1>27, <1>28, <1>29, <1>30
     DEF Next, Arrives, InHandler, HandlerStep, InStorage, TimePasses

(* A session leaves the map only when its file is published, or by the     *)
(* hand of who clears it away.                                             *)
LEMMA LeavesToSomeoneStep ==
  ASSUME TypeOK,
         SlotsAgree,
         OnePublisher,
         CreatedAlone,
         [Next]_vars,
         Untroubled,
         NEW x \in Sessions
  PROVE  LeavesToSomeone(x)
<1> USE DEF TypeOK, Starts, GoesTo, Ends, Proceeds, Replies, SaveStatus,
           AnswerCreated, EndsCopy, tableVars, reqVars, copyVars, storageVars
<1> USE DEF LeavesToSomeone, Clearing, On
<1>1. ASSUME NEW r \in Requests, NEW s \in Sessions, CreateSession(r, s), UNCHANGED storageVars
      PROVE  LeavesToSomeone(x)
  BY <1>1 DEF CreateSession
<1>2. ASSUME NEW r \in Requests, NEW s \in Sessions, NEW i \in Chunks, UploadChunk(r, s, i), UNCHANGED storageVars
      PROVE  LeavesToSomeone(x)
  BY <1>2 DEF UploadChunk
<1>3. ASSUME NEW r \in Requests, NEW s \in Sessions, CompleteChunkedUpload(r, s), UNCHANGED storageVars
      PROVE  LeavesToSomeone(x)
  BY <1>3 DEF CompleteChunkedUpload
<1>4. ASSUME NEW r \in Requests, NEW s \in Sessions, AbortChunkedUpload(r, s), UNCHANGED storageVars
      PROVE  LeavesToSomeone(x)
  BY <1>4 DEF AbortChunkedUpload
<1>5. ASSUME NEW r \in Requests, ExpireSession(r), UNCHANGED storageVars
      PROVE  LeavesToSomeone(x)
  BY <1>5 DEF ExpireSession
<1>6. ASSUME NEW r \in Requests, CreateFileRecord(r), UNCHANGED storageVars
      PROVE  LeavesToSomeone(x)
  BY <1>6 DEF CreateFileRecord
<1>7. ASSUME NEW r \in Requests, FileRecordFails(r), UNCHANGED storageVars
      PROVE  LeavesToSomeone(x)
  BY <1>7 DEF FileRecordFails
<1>8. ASSUME NEW r \in Requests, MarkCompleted(r), UNCHANGED storageVars
      PROVE  LeavesToSomeone(x)
  BY <1>8 DEF MarkCompleted
<1>9. ASSUME NEW r \in Requests, MarkCancelled(r), UNCHANGED storageVars
      PROVE  LeavesToSomeone(x)
  BY <1>9 DEF MarkCancelled
<1>10. ASSUME NEW r \in Requests, CreatePartFile(r)
      PROVE  LeavesToSomeone(x)
  <2>1. /\ pc' = [pc EXCEPT ![r] = "registering"]
        /\ UNCHANGED <<sess, registered>>
        /\ \A y \in Sessions : y # sess[r] => open'[y] = open[y] /\ disk'[y] = disk[y]
    BY <1>10 DEF CreatePartFile
  <2>2. CASE x = sess[r]
    <3>1. pc'[r] = "registering" /\ sess'[r] = x
      BY <2>1, <2>2
    <3> QED
      BY <3>1
  <2>3. CASE x # sess[r]
    BY <2>1, <2>3
  <2> QED
    BY <2>2, <2>3
<1>11. ASSUME NEW r \in Requests, RegisterUpload(r)
      PROVE  LeavesToSomeone(x)
  BY <1>11 DEF RegisterUpload
<1>12. ASSUME NEW r \in Requests, BeginCopy(r)
      PROVE  LeavesToSomeone(x)
  BY <1>12 DEF BeginCopy
<1>13. ASSUME NEW r \in Requests, ShortSource(r)
      PROVE  LeavesToSomeone(x)
  BY <1>13 DEF ShortSource
<1>14. ASSUME NEW r \in Requests, StartWrite(r)
      PROVE  LeavesToSomeone(x)
  BY <1>14 DEF StartWrite
<1>15. ASSUME NEW r \in Requests, WriteFails(r)
      PROVE  LeavesToSomeone(x)
  BY <1>15 DEF WriteFails
<1>16. ASSUME NEW r \in Requests, WritePiece(r)
      PROVE  LeavesToSomeone(x)
  BY <1>16 DEF WritePiece
<1>17. ASSUME NEW r \in Requests, RecordReceived(r)
      PROVE  LeavesToSomeone(x)
  BY <1>17 DEF RecordReceived
<1>18. ASSUME NEW r \in Requests, LookUpForFinalize(r)
      PROVE  LeavesToSomeone(x)
  BY <1>18 DEF LookUpForFinalize
<1>19. ASSUME NEW r \in Requests, CountReceived(r)
      PROVE  LeavesToSomeone(x)
  BY <1>19 DEF CountReceived
<1>20. ASSUME NEW r \in Requests, CloseFile(r)
      PROVE  LeavesToSomeone(x)
  BY <1>20 DEF CloseFile
<1>21. ASSUME NEW r \in Requests, CloseFails(r)
      PROVE  LeavesToSomeone(x)
  BY <1>21 DEF CloseFails
<1>22. ASSUME NEW r \in Requests, RenamePart(r)
      PROVE  LeavesToSomeone(x)
  BY <1>22 DEF RenamePart
<1>23. ASSUME NEW r \in Requests, DropUpload(r)
      PROVE  LeavesToSomeone(x)
  <2>1. ~open[sess[r]] /\ disk[sess[r]] = "final"
    BY <1>23 DEF DropUpload, OnePublisher, Publishing, On, SlotsAgree, TypeOK
  <2>2. registered' = [registered EXCEPT ![sess[r]] = FALSE] /\ UNCHANGED <<open, disk>>
    BY <1>23 DEF DropUpload
  <2> QED
    BY <2>1, <2>2
<1>24. ASSUME NEW r \in Requests, Deregister(r)
      PROVE  LeavesToSomeone(x)
  <2>1. pc[r] = "abort_call" /\ registered' = [registered EXCEPT ![sess[r]] = FALSE]
        /\ Proceeds(r, IF registered[sess[r]] THEN "closing_part" ELSE "cancelling")
        /\ UNCHANGED <<open, disk>>
    BY <1>24 DEF Deregister
  <2>2. CASE x = sess[r] /\ registered[x]
    <3>1. pc'[r] = "closing_part" /\ sess'[r] = x
      BY <2>1, <2>2
    <3> QED
      BY <3>1
  <2>3. CASE x # sess[r] \/ ~registered[x]
    BY <2>1, <2>3
  <2> QED
    BY <2>2, <2>3
<1>25. ASSUME NEW r \in Requests, ClosePart(r)
      PROVE  LeavesToSomeone(x)
  BY <1>25 DEF ClosePart
<1>26. ASSUME NEW r \in Requests, RemovePart(r)
      PROVE  LeavesToSomeone(x)
  BY <1>26 DEF RemovePart
<1>27. ASSUME NEW r \in Requests, StorageRefuses(r)
      PROVE  LeavesToSomeone(x)
  BY <1>27 DEF StorageRefuses
<1>28. ASSUME NEW s \in Sessions, Expire(s), UNCHANGED storageVars
      PROVE  LeavesToSomeone(x)
  BY <1>28 DEF Expire
<1>29. CASE Restart
  BY <1>29 DEF Restart, HandlersDie, Untroubled
<1>30. CASE UNCHANGED vars
  BY <1>30 DEF vars, handlerVars
<1> HIDE DEF TypeOK, Starts, GoesTo, Ends, Proceeds, Replies, SaveStatus,
           AnswerCreated, EndsCopy, tableVars, reqVars, copyVars, storageVars,
           LeavesToSomeone, Clearing, On
<1> QED BY <1>1, <1>2, <1>3, <1>4, <1>5, <1>6, <1>7, <1>8, <1>9, <1>10, <1>11,
     <1>12, <1>13, <1>14, <1>15, <1>16, <1>17, <1>18, <1>19, <1>20, <1>21,
     <1>22, <1>23, <1>24, <1>25, <1>26, <1>27, <1>28, <1>29, <1>30
     DEF Next, Arrives, InHandler, HandlerStep, InStorage, TimePasses

(* A row says active from the step that creates the session on.            *)
LEMMA ComesToBeActive ==
  ASSUME TypeOK,
         SlotsAgree,
         [Next]_vars,
         NEW x \in Sessions,
         row'[x] = "active",
         row[x] # "active"
  PROVE  \E q \in Requests : On(q, x, {"init_call"})'
<1> USE DEF TypeOK, Starts, GoesTo, Ends, Proceeds, Replies, SaveStatus,
           AnswerCreated, EndsCopy, tableVars, reqVars, copyVars, storageVars
<1> USE DEF On
<1>1. ASSUME NEW r \in Requests, NEW s \in Sessions, CreateSession(r, s), UNCHANGED storageVars
      PROVE  \E q \in Requests : On(q, x, {"init_call"})'
  <2>1. /\ row' = [row EXCEPT ![s] = "active"]
        /\ pc' = [pc EXCEPT ![r] = "init_call"]
        /\ sess' = [sess EXCEPT ![r] = s]
    BY <1>1 DEF CreateSession
  <2>2. x = s
    BY <2>1
  <2>3. pc'[r] = "init_call" /\ sess'[r] = x
    BY <2>1, <2>2
  <2> QED
    BY <2>3
<1>2. ASSUME NEW r \in Requests, NEW s \in Sessions, NEW i \in Chunks, UploadChunk(r, s, i), UNCHANGED storageVars
      PROVE  \E q \in Requests : On(q, x, {"init_call"})'
  BY <1>2 DEF UploadChunk
<1>3. ASSUME NEW r \in Requests, NEW s \in Sessions, CompleteChunkedUpload(r, s), UNCHANGED storageVars
      PROVE  \E q \in Requests : On(q, x, {"init_call"})'
  BY <1>3 DEF CompleteChunkedUpload
<1>4. ASSUME NEW r \in Requests, NEW s \in Sessions, AbortChunkedUpload(r, s), UNCHANGED storageVars
      PROVE  \E q \in Requests : On(q, x, {"init_call"})'
  BY <1>4 DEF AbortChunkedUpload
<1>5. ASSUME NEW r \in Requests, ExpireSession(r), UNCHANGED storageVars
      PROVE  \E q \in Requests : On(q, x, {"init_call"})'
  BY <1>5 DEF ExpireSession
<1>6. ASSUME NEW r \in Requests, CreateFileRecord(r), UNCHANGED storageVars
      PROVE  \E q \in Requests : On(q, x, {"init_call"})'
  BY <1>6 DEF CreateFileRecord
<1>7. ASSUME NEW r \in Requests, FileRecordFails(r), UNCHANGED storageVars
      PROVE  \E q \in Requests : On(q, x, {"init_call"})'
  BY <1>7 DEF FileRecordFails
<1>8. ASSUME NEW r \in Requests, MarkCompleted(r), UNCHANGED storageVars
      PROVE  \E q \in Requests : On(q, x, {"init_call"})'
  BY <1>8 DEF MarkCompleted
<1>9. ASSUME NEW r \in Requests, MarkCancelled(r), UNCHANGED storageVars
      PROVE  \E q \in Requests : On(q, x, {"init_call"})'
  BY <1>9 DEF MarkCancelled
<1>10. ASSUME NEW r \in Requests, CreatePartFile(r)
      PROVE  \E q \in Requests : On(q, x, {"init_call"})'
  BY <1>10 DEF CreatePartFile
<1>11. ASSUME NEW r \in Requests, RegisterUpload(r)
      PROVE  \E q \in Requests : On(q, x, {"init_call"})'
  BY <1>11 DEF RegisterUpload
<1>12. ASSUME NEW r \in Requests, BeginCopy(r)
      PROVE  \E q \in Requests : On(q, x, {"init_call"})'
  BY <1>12 DEF BeginCopy
<1>13. ASSUME NEW r \in Requests, ShortSource(r)
      PROVE  \E q \in Requests : On(q, x, {"init_call"})'
  BY <1>13 DEF ShortSource
<1>14. ASSUME NEW r \in Requests, StartWrite(r)
      PROVE  \E q \in Requests : On(q, x, {"init_call"})'
  BY <1>14 DEF StartWrite
<1>15. ASSUME NEW r \in Requests, WriteFails(r)
      PROVE  \E q \in Requests : On(q, x, {"init_call"})'
  BY <1>15 DEF WriteFails
<1>16. ASSUME NEW r \in Requests, WritePiece(r)
      PROVE  \E q \in Requests : On(q, x, {"init_call"})'
  BY <1>16 DEF WritePiece
<1>17. ASSUME NEW r \in Requests, RecordReceived(r)
      PROVE  \E q \in Requests : On(q, x, {"init_call"})'
  BY <1>17 DEF RecordReceived
<1>18. ASSUME NEW r \in Requests, LookUpForFinalize(r)
      PROVE  \E q \in Requests : On(q, x, {"init_call"})'
  BY <1>18 DEF LookUpForFinalize
<1>19. ASSUME NEW r \in Requests, CountReceived(r)
      PROVE  \E q \in Requests : On(q, x, {"init_call"})'
  BY <1>19 DEF CountReceived
<1>20. ASSUME NEW r \in Requests, CloseFile(r)
      PROVE  \E q \in Requests : On(q, x, {"init_call"})'
  BY <1>20 DEF CloseFile
<1>21. ASSUME NEW r \in Requests, CloseFails(r)
      PROVE  \E q \in Requests : On(q, x, {"init_call"})'
  BY <1>21 DEF CloseFails
<1>22. ASSUME NEW r \in Requests, RenamePart(r)
      PROVE  \E q \in Requests : On(q, x, {"init_call"})'
  BY <1>22 DEF RenamePart
<1>23. ASSUME NEW r \in Requests, DropUpload(r)
      PROVE  \E q \in Requests : On(q, x, {"init_call"})'
  BY <1>23 DEF DropUpload
<1>24. ASSUME NEW r \in Requests, Deregister(r)
      PROVE  \E q \in Requests : On(q, x, {"init_call"})'
  BY <1>24 DEF Deregister
<1>25. ASSUME NEW r \in Requests, ClosePart(r)
      PROVE  \E q \in Requests : On(q, x, {"init_call"})'
  BY <1>25 DEF ClosePart
<1>26. ASSUME NEW r \in Requests, RemovePart(r)
      PROVE  \E q \in Requests : On(q, x, {"init_call"})'
  BY <1>26 DEF RemovePart
<1>27. ASSUME NEW r \in Requests, StorageRefuses(r)
      PROVE  \E q \in Requests : On(q, x, {"init_call"})'
  BY <1>27 DEF StorageRefuses
<1>28. ASSUME NEW s \in Sessions, Expire(s), UNCHANGED storageVars
      PROVE  \E q \in Requests : On(q, x, {"init_call"})'
  BY <1>28 DEF Expire
<1>29. CASE Restart
  BY <1>29 DEF Restart, HandlersDie
<1>30. CASE UNCHANGED vars
  BY <1>30 DEF vars, handlerVars
<1> HIDE DEF TypeOK, Starts, GoesTo, Ends, Proceeds, Replies, SaveStatus,
           AnswerCreated, EndsCopy, tableVars, reqVars, copyVars, storageVars,
           On
<1> QED BY <1>1, <1>2, <1>3, <1>4, <1>5, <1>6, <1>7, <1>8, <1>9, <1>10, <1>11,
     <1>12, <1>13, <1>14, <1>15, <1>16, <1>17, <1>18, <1>19, <1>20, <1>21,
     <1>22, <1>23, <1>24, <1>25, <1>26, <1>27, <1>28, <1>29, <1>30
     DEF Next, Arrives, InHandler, HandlerStep, InStorage, TimePasses

(* The second invariant: whoever had the session in hand has it, has handed *)
(* it on, or has left it usable or gone.                                   *)
LEMMA InitSettled == Init => SettledInv
BY DEF Init, HandlersInit, SettledInv, SeenTo, RemovedByAbort, NotYetFinal, RegistersOpen,
       LeftToSomeone, On

(* Every step keeps the second invariant.                                  *)
LEMMA SettledStep == IInv /\ SettledInv /\ [Next]_vars => SettledInv'
<1> SUFFICES ASSUME IInv, SettledInv, [Next]_vars, Untroubled, NEW x \in Sessions
             PROVE  /\ SeenTo(x)'
                    /\ RemovedByAbort(x)'
                    /\ NotYetFinal(x)'
                    /\ RegistersOpen(x)'
                    /\ LeftToSomeone(x)'
  BY DEF SettledInv, Untroubled
<1>1. /\ TypeOK /\ SlotsAgree /\ CreatedAlone /\ HandleOnPart /\ OnePublisher
      /\ SeenTo(x) /\ RemovedByAbort(x) /\ NotYetFinal(x) /\ RegistersOpen(x)
      /\ LeftToSomeone(x)
  BY DEF IInv, SettledInv
<1>2. SeenTo(x)'
  <2> SUFFICES ASSUME row'[x] = "active"
               PROVE  Usable(x)' \/ \E r \in Requests : On(r, x, Unfinished)'
    BY DEF SeenTo
  <2>1. CASE row[x] # "active"
    BY <1>1, <2>1, ComesToBeActive DEF Unfinished, On, Creating
  <2>2. CASE Usable(x)
    BY <1>1, <2>2, StaysUsableStep DEF StaysUsable
  <2>3. ASSUME NEW q \in Requests, On(q, x, Unfinished), row[x] = "active"
        PROVE  Usable(x)' \/ \E r \in Requests : On(r, x, Unfinished)'
    <3>1. CASE disk[x] = "removed" /\ On(q, x, {"renaming"})
      <4>1. PICK a \in Requests : On(a, x, {"cancelling"})
        BY <1>1, <2>3, <3>1 DEF RemovedByAbort
      <4>2. KeepsAtIt(a, x)
        BY <1>1, KeepsAtItStep
      <4>3. On(a, x, Unfinished) /\ ~On(a, x, {"renaming"})
        BY <4>1 DEF On, Unfinished
      <4> QED
        BY <4>2, <4>3 DEF KeepsAtIt
    <3>2. CASE ~(disk[x] = "removed" /\ On(q, x, {"renaming"}))
      <4>1. KeepsAtIt(q, x)
        BY <1>1, KeepsAtItStep
      <4> QED
        BY <2>3, <3>2, <4>1 DEF KeepsAtIt
    <3> QED
      BY <3>1, <3>2
  <2> QED
    BY <1>1, <2>1, <2>2, <2>3 DEF SeenTo
<1>3. RemovedByAbort(x)'
  BY <1>1, RemovedByAbortStep
<1>4. NotYetFinal(x)'
  BY <1>1, RenamesPartStep
<1>5. RegistersOpen(x)'
  BY <1>1, RegistersOpenStep
<1>6. LeftToSomeone(x)'
  <2> SUFFICES ASSUME ~registered'[x], open'[x] \/ disk'[x] = "part"
               PROVE  \E r \in Requests : On(r, x, Clearing)'
    BY DEF LeftToSomeone
  <2>1. LeavesToSomeone(x)
    BY <1>1, LeavesToSomeoneStep
  <2>2. ASSUME NEW q \in Requests, On(q, x, Clearing)
        PROVE  On(q, x, Clearing)'
    <3>1. ClearsAway(q, x)
      BY <1>1, ClearsAwayStep
    <3> QED
      BY <2>2, <3>1 DEF ClearsAway
  <2> QED
    BY <1>1, <2>1, <2>2 DEF LeavesToSomeone, LeftToSomeone
<1> QED
  BY <1>2, <1>3, <1>4, <1>5, <1>6

(* Where nothing fails and no server restarts, every session is seen to.   *)
THEOREM SettledInvariance == Spec => []SettledInv
BY InitSettled, SettledStep, Invariance, PTL DEF Spec

(* Without faults and restarts no mix of racing requests leaves a session  *)
(* active that cannot be used.                                             *)
THEOREM ActiveUsable == Spec => []ActiveIsUsable
<1>1. SettledInv => ActiveIsUsable
  BY DEF SettledInv, ActiveIsUsable, SeenTo, Usable, Untroubled, Untouched, On
<1> QED
  BY <1>1, SettledInvariance, PTL

(* Without faults and restarts a session that has left the map leaves      *)
(* neither an open file nor a .part behind.                                *)
THEOREM NothingLeft == Spec => []NoLeftovers
<1>1. SettledInv => NoLeftovers
  BY DEF SettledInv, NoLeftovers, LeftToSomeone, Untroubled, Untouched, On
<1> QED
  BY <1>1, SettledInvariance, PTL

(***************************************************************************)
(* Every step of the backend is a step of UploadStore, or changes nothing  *)
(* UploadStore speaks of.                                                  *)
(***************************************************************************)
LEMMA InitRefines == Init => Promise!Init
BY DEF Init, HandlersInit, Promise!Init, Stage, StageOf, Landed

(* What leaves disk, data, files and answered alone is no step of it. *)
LEMMA QuietStep ==
  UNCHANGED <<disk, data, files, answered>> => UNCHANGED Promise!vars
BY DEF Promise!vars, Stage, StageOf, Landed, Written

(* A session's stage and chunks move only where disk, files and data do. *)
LEMMA OthersStay ==
  ASSUME NEW s \in Sessions,
         \A t \in Sessions \ {s} : /\ disk'[t] = disk[t]
                                   /\ files'[t] = files[t]
                                   /\ data'[t] = data[t]
  PROVE  /\ Stage' = [Stage EXCEPT ![s] = StageOf(s)']
         /\ Landed' = [Landed EXCEPT ![s] = Landed'[s]]
<1>1. \A t \in Sessions \ {s} : StageOf(t)' = StageOf(t)
  BY DEF StageOf
<1>2. \A t \in Sessions \ {s} : Landed'[t] = Landed[t]
  BY DEF Landed, Written
<1> QED
  BY <1>1, <1>2 DEF Stage, Landed

(* Where StageOf and Landed stand, by what is on disk. *)
LEMMA StageOnDisk ==
  ASSUME NEW s \in Sessions
  PROVE  /\ Stage[s] = StageOf(s)
         /\ disk[s] = "none" => StageOf(s) = "unopened"
         /\ disk[s] = "part" => StageOf(s) = "open"
         /\ disk[s] = "removed" => StageOf(s) = "discarded"
         /\ disk[s] = "final" /\ files[s] = 0 => StageOf(s) = "published"
         /\ disk[s] = "final" /\ files[s] # 0 => StageOf(s) = "recorded"
BY DEF Stage, StageOf

(* What has landed is what the session's file on disk holds.               *)
LEMMA LandedOnDisk ==
  ASSUME NEW s \in Sessions
  PROVE  /\ Landed[s] \subseteq Chunks
         /\ \A i \in Chunks :
              i \in Landed[s] <=> disk[s] \in {"part", "final"} /\ Written(s, i)
BY DEF Landed

(* Each kind of step of the promise is a step of it.                       *)
LEMMA PromiseNext ==
  ASSUME NEW s \in Sessions
  PROVE  /\ Promise!Open(s) => Promise!Next
         /\ Promise!Publish(s) => Promise!Next
         /\ Promise!Record(s) => Promise!Next
         /\ Promise!Discard(s) => Promise!Next
         /\ \A i \in Chunks : Promise!Land(s, i) => Promise!Next
         /\ \A a \in Answers : Promise!Answer(s, a) => Promise!Next
BY DEF Promise!Next, Promise!Answers, Answers

(* What the invariant says of the session a request serves. *)
LEMMA Serves ==
  ASSUME IInv, NEW r \in Requests, pc[r] # "idle"
  PROVE  /\ sess[r] \in Sessions
         /\ pc[r] = "init_call" => disk[sess[r]] = "none"
         /\ pc[r] = "registering" => disk[sess[r]] = "part"
         /\ pc[r] \notin Creating => disk[sess[r]] # "none"
         /\ pc[r] = "renaming" => files[sess[r]] = 0 /\ received[sess[r]] = Chunks
         /\ pc[r] = "recording" => disk[sess[r]] = "final" /\ files[sess[r]] = 0
         /\ pc[r] = "settling" => disk[sess[r]] = "final" /\ files[sess[r]] # 0
<1>1. sess[r] \in Sessions
  BY DEF IInv, TypeOK, SlotsAgree
<1>2. On(r, sess[r], {pc[r]})
  BY DEF On
<1>3. pc[r] \notin Creating => "created" \in answered[sess[r]]
  BY <1>1 DEF IInv, CreatedAlone
<1>4. files[sess[r]] \in Nat
  BY <1>1 DEF IInv, TypeOK
<1> QED
  BY <1>1, <1>2, <1>3, <1>4 DEF IInv, CreatedAlone, OnePublisher, Publishing,
     ReceivedIsWritten, RowHasObject, On

(* Every step is one of the promise, or none to it.                        *)
LEMMA StepRefines == IInv /\ IInv' /\ [Next]_vars => [Promise!Next]_Promise!vars
<1> SUFFICES ASSUME IInv, IInv', [Next]_vars PROVE [Promise!Next]_Promise!vars
  OBVIOUS
<1>0. TypeOK
  BY DEF IInv
<1>1. ASSUME NEW r \in Requests, CreatePartFile(r)
      PROVE  Promise!Next
  <2> DEFINE s == sess[r]
  <2>1. s \in Sessions /\ disk[s] = "none"
    BY <1>1, Serves DEF CreatePartFile
  <2>2. /\ disk' = [disk EXCEPT ![s] = "part"]
        /\ data' = [data EXCEPT ![s] = Blank]
        /\ UNCHANGED <<files, answered>>
    BY <1>1 DEF CreatePartFile, Proceeds, tableVars
  <2>3. disk'[s] = "part" /\ data'[s] = Blank
    BY <1>0, <2>1, <2>2 DEF TypeOK
  <2>4. Stage[s] = "unopened" /\ Stage' = [Stage EXCEPT ![s] = "open"]
    BY <1>0, <2>1, <2>2, <2>3, OthersStay, StageOnDisk DEF TypeOK, StageOf
  <2>5. Landed'[s] = {} /\ Landed[s] = {}
    BY <2>1, <2>3 DEF Landed, Written, Blank, PieceNumbers
  <2>6. Landed' = Landed
    BY <1>0, <2>1, <2>2, <2>5, OthersStay DEF TypeOK, Landed
  <2>7. Promise!Open(s)
    BY <2>2, <2>4, <2>6 DEF Promise!Open
  <2> QED
    BY <2>1, <2>7, PromiseNext
<1>2. ASSUME NEW r \in Requests, RegisterUpload(r)
      PROVE  Promise!Next
  <2> DEFINE s == sess[r]
  <2>1. s \in Sessions /\ Stage[s] = "open"
    BY <1>2, Serves, StageOnDisk DEF RegisterUpload
  <2>2. UNCHANGED <<Stage, Landed>>
    BY <1>2 DEF RegisterUpload, AnswerCreated, Stage, StageOf, Landed, Written
  <2>3. Promise!Answer(s, "created")
    BY <1>2, <2>1, <2>2
       DEF RegisterUpload, AnswerCreated, Promise!Answer, Promise!Justified
  <2> QED
    BY <2>1, <2>3, PromiseNext DEF Answers
<1>3. ASSUME NEW r \in Requests, WritePiece(r)
      PROVE  [Promise!Next]_Promise!vars
  <2> DEFINE s == sess[r]
             i == chunk[r]
  <2>1. s \in Sessions /\ i \in Chunks /\ nonce[r] \in Nonces /\ done[r] \in Nat
    BY <1>3, Serves DEF WritePiece, IInv, TypeOK, SlotsAgree, Copying
  <2>2. /\ UNCHANGED <<disk, files, answered>>
        /\ data' = [data EXCEPT ![s][i][done[r] + 1] = nonce[r]]
    BY <1>3 DEF WritePiece, Proceeds, tableVars
  <2>3. \A t \in Sessions \ {s} : data'[t] = data[t]
    BY <1>0, <2>1, <2>2 DEF TypeOK
  <2>4. \A j \in Chunks \ {i} : data'[s][j] = data[s][j]
    BY <1>0, <2>1, <2>2 DEF TypeOK
  <2>5. \A p \in PieceNumbers : data[s][i][p] # None => data'[s][i][p] # None
    BY <1>0, <2>1, <2>2, FilesystemAssumption DEF TypeOK
  <2>6. UNCHANGED Stage
    BY <2>2 DEF Stage, StageOf
  <2>7. Landed'[s] = Landed[s] \/ Landed'[s] = Landed[s] \union {i}
    <3> DEFINE WrittenNext(j) == \A p \in PieceNumbers : data'[s][j][p] # None
    <3>1. \A j \in Chunks \ {i} : WrittenNext(j) <=> Written(s, j)
      BY <2>4 DEF Written
    <3>2. Written(s, i) => WrittenNext(i)
      BY <2>5 DEF Written
    <3>3. Landed'[s] = {j \in Chunks : disk'[s] \in {"part", "final"} /\ WrittenNext(j)}
      BY <2>1 DEF Landed, Written
    <3> HIDE DEF WrittenNext
    <3>4. Landed[s] = {j \in Chunks : disk[s] \in {"part", "final"} /\ Written(s, j)}
      BY <2>1 DEF Landed
    <3>5. disk'[s] = disk[s]
      BY <2>2
    <3> QED
      BY <2>1, <3>1, <3>2, <3>3, <3>4, <3>5
  <2>8. Landed' = [Landed EXCEPT ![s] = Landed'[s]]
    BY <2>1, <2>2, <2>3, OthersStay
  <2>9. CASE Landed'[s] = Landed[s]
    BY <2>1, <2>2, <2>6, <2>8, <2>9 DEF Promise!vars, Landed
  <2>10. CASE Landed'[s] # Landed[s]
    <3>1. i \in Landed'[s] /\ i \notin Landed[s]
      BY <2>1, <2>7, <2>10
    <3>2. disk[s] = "part"
      BY <2>1, <2>2, <3>1, LandedOnDisk DEF Landed, IInv, PublishedIsComplete
    <3>3. Stage[s] = "open"
      BY <2>1, <3>2, StageOnDisk
    <3>4. Landed' = [Landed EXCEPT ![s] = @ \union {i}]
      BY <2>7, <2>8, <2>10
    <3>5. Promise!Land(s, i)
      BY <2>2, <2>6, <3>3, <3>4 DEF Promise!Land
    <3> QED
      BY <2>1, <3>5, PromiseNext
  <2> QED
    BY <2>9, <2>10
<1>4. ASSUME NEW r \in Requests, RenamePart(r)
      PROVE  Promise!Next
  <2> DEFINE s == sess[r]
  <2>1. /\ s \in Sessions
        /\ disk[s] = "part" /\ files[s] = 0
        /\ received[s] = Chunks
    BY <1>4, Serves DEF RenamePart
  <2>2. /\ disk' = [disk EXCEPT ![s] = "final"]
        /\ UNCHANGED <<files, data, answered>>
    BY <1>4 DEF RenamePart, Proceeds, tableVars
  <2>3. disk'[s] = "final"
    BY <1>0, <2>1, <2>2 DEF TypeOK
  <2>4. Stage[s] = "open" /\ Stage' = [Stage EXCEPT ![s] = "published"]
    BY <1>0, <2>1, <2>2, <2>3, OthersStay, StageOnDisk DEF TypeOK, StageOf
  <2>5. Landed[s] = Chunks
    <3>1. \A i \in Chunks : Written(s, i)
      BY <2>1 DEF IInv, ReceivedIsWritten
    <3> QED
      BY <2>1, <3>1 DEF Landed
  <2>6. Landed' = Landed
    BY <1>0, <2>1, <2>2 DEF TypeOK, Landed, Written
  <2>7. Promise!Publish(s)
    BY <2>2, <2>4, <2>5, <2>6 DEF Promise!Publish
  <2> QED
    BY <2>1, <2>7, PromiseNext
<1>5. ASSUME NEW r \in Requests, CreateFileRecord(r), UNCHANGED storageVars
      PROVE  Promise!Next
  <2> DEFINE s == sess[r]
  <2>1. s \in Sessions /\ disk[s] = "final" /\ files[s] = 0
    BY <1>5, Serves DEF CreateFileRecord
  <2>2. /\ files' = [files EXCEPT ![s] = 1]
        /\ UNCHANGED <<disk, data, answered>>
    BY <1>5, <2>1 DEF CreateFileRecord, storageVars
  <2>3. files'[s] = 1
    BY <1>0, <2>1, <2>2 DEF TypeOK
  <2>4. Stage[s] = "published" /\ Stage' = [Stage EXCEPT ![s] = "recorded"]
    BY <1>0, <2>1, <2>2, <2>3, OthersStay, StageOnDisk DEF TypeOK, StageOf
  <2>5. UNCHANGED Landed
    BY <2>2 DEF Landed, Written
  <2>6. Promise!Record(s)
    BY <2>2, <2>4, <2>5 DEF Promise!Record
  <2> QED
    BY <2>1, <2>6, PromiseNext
<1>6. ASSUME NEW r \in Requests, MarkCompleted(r), UNCHANGED storageVars
      PROVE  Promise!Next
  <2> DEFINE s == sess[r]
  <2>1. s \in Sessions /\ Stage[s] = "recorded"
    BY <1>6, Serves, StageOnDisk DEF MarkCompleted
  <2>2. UNCHANGED <<Stage, Landed>>
    BY <1>6 DEF MarkCompleted, storageVars, Stage, StageOf, Landed, Written
  <2>3. Promise!Answer(s, "completed")
    BY <1>6, <2>1, <2>2 DEF MarkCompleted, Promise!Answer, Promise!Justified
  <2> QED
    BY <2>1, <2>3, PromiseNext DEF Answers
<1>7. ASSUME NEW r \in Requests, MarkCancelled(r), UNCHANGED storageVars
      PROVE  Promise!Next
  <2> DEFINE s == sess[r]
  <2>1. s \in Sessions /\ disk[s] # "none" /\ disk[s] \in DiskStates
    BY <1>0, <1>7, Serves DEF MarkCancelled, Creating, TypeOK
  <2>2. Stage[s] # "unopened"
    BY <2>1, StageOnDisk DEF DiskStates
  <2>3. UNCHANGED <<Stage, Landed>>
    BY <1>7 DEF MarkCancelled, storageVars, Stage, StageOf, Landed, Written
  <2>4. Promise!Answer(s, "cancelled")
    BY <1>7, <2>2, <2>3 DEF MarkCancelled, Promise!Answer, Promise!Justified
  <2> QED
    BY <2>1, <2>4, PromiseNext DEF Answers
<1>8. ASSUME NEW r \in Requests, RemovePart(r)
      PROVE  [Promise!Next]_Promise!vars
  <2> DEFINE s == sess[r]
  <2>1. s \in Sessions
    BY <1>8, Serves DEF RemovePart
  <2>2. UNCHANGED <<data, files, answered>>
    BY <1>8 DEF RemovePart, Proceeds, tableVars
  <2>3. CASE UNCHANGED disk
    BY <2>2, <2>3, QuietStep
  <2>4. CASE disk' # disk
    <3>1. disk[s] = "part" /\ disk' = [disk EXCEPT ![s] = "removed"]
      BY <1>0, <1>8, <2>1, <2>4 DEF RemovePart, TypeOK
    <3>2. disk'[s] = "removed"
      BY <1>0, <2>1, <3>1 DEF TypeOK
    <3>3. Stage[s] = "open" /\ Stage' = [Stage EXCEPT ![s] = "discarded"]
      BY <1>0, <2>1, <2>2, <3>1, <3>2, OthersStay, StageOnDisk DEF TypeOK, StageOf
    <3>4. Landed'[s] = {}
      BY <2>1, <3>2 DEF Landed
    <3>5. Landed' = [Landed EXCEPT ![s] = {}]
      BY <1>0, <2>1, <2>2, <3>1, <3>4, OthersStay DEF TypeOK
    <3>6. Promise!Discard(s)
      BY <2>2, <3>3, <3>5 DEF Promise!Discard
    <3> QED
      BY <2>1, <3>6, PromiseNext
  <2> QED
    BY <2>3, <2>4
<1>9. ASSUME NEW r \in Requests, NEW s \in Sessions, NEW i \in Chunks,
             CreateSession(r, s) \/ UploadChunk(r, s, i) \/ CompleteChunkedUpload(r, s)
             \/ AbortChunkedUpload(r, s), UNCHANGED storageVars
      PROVE  UNCHANGED Promise!vars
  BY <1>9, QuietStep DEF CreateSession, UploadChunk, CompleteChunkedUpload,
     AbortChunkedUpload, Starts, GoesTo, Ends, Proceeds, Replies,
     SaveStatus, EndsCopy, tableVars, reqVars, copyVars, storageVars
<1>10. ASSUME NEW r \in Requests,
             ExpireSession(r) \/ FileRecordFails(r), UNCHANGED storageVars
      PROVE  UNCHANGED Promise!vars
  BY <1>10, QuietStep DEF ExpireSession, FileRecordFails, Starts, GoesTo,
     Ends, Proceeds, Replies, SaveStatus, EndsCopy, tableVars, reqVars,
     copyVars, storageVars
<1>11. ASSUME NEW r \in Requests,
             BeginCopy(r) \/ ShortSource(r) \/ StartWrite(r) \/ WriteFails(r) \/
             RecordReceived(r) \/ LookUpForFinalize(r) \/ CountReceived(r)
             \/ CloseFile(r) \/ CloseFails(r) \/ DropUpload(r) \/
             Deregister(r) \/ ClosePart(r) \/ StorageRefuses(r)
      PROVE  UNCHANGED Promise!vars
  BY <1>11, QuietStep DEF BeginCopy, ShortSource, StartWrite, WriteFails,
     RecordReceived, LookUpForFinalize, CountReceived, CloseFile,
     CloseFails, DropUpload, Deregister, ClosePart, StorageRefuses, Starts,
     GoesTo, Ends, Proceeds, Replies, SaveStatus, EndsCopy, tableVars,
     reqVars, copyVars, storageVars
<1>12. CASE TimePasses \/ Restart \/ UNCHANGED vars
  BY <1>12, QuietStep DEF TimePasses, Expire, Restart, HandlersDie, vars, handlerVars,
     tableVars, storageVars
<1> QED BY <1>1, <1>2, <1>3, <1>4, <1>5, <1>6, <1>7, <1>8, <1>9, <1>10,
     <1>11, <1>12 DEF Next, Arrives, InHandler, HandlerStep, InStorage

(* The filesystem backend under the handlers implements UploadStore. *)
THEOREM Refinement == Spec => KeepsPromise
BY InitRefines, StepRefines, Invariance, PTL DEF Spec, KeepsPromise, Promise!Spec
=============================================================================
