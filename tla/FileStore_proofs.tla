-------------------------- MODULE FileStore_proofs --------------------------
(***************************************************************************)
(* Theorems of FileStore, for every value of its constants.                *)
(***************************************************************************)
EXTENDS FileStore, TLAPS

USE FilesAssumption

(***************************************************************************)
(* The inductive invariant.                                                *)
(***************************************************************************)
OwnersDelete == {"DeleteFile", "DeleteAccount"}

AdminsDelete == {"AdminDeleteFile", "DeleteUserFiles"}

Uploading == {"saving", "writing", "creating"}

Deleting == {"deleting", "checking", "removing"}

(* What a request is, from where it is and what it has in hand. *)
JobsAgree ==
  \A r \in Requests :
    /\ pc[r] # "idle" => job[r] \in use
    /\ pc[r] \in {"saving", "writing"} => job[r] = "UploadFile"
    /\ pc[r] = "creating" => job[r] \in {"UploadFile", "CompleteChunkedUpload"}
    /\ pc[r] \in Uploading => user[r] \in Owners
    /\ pc[r] \in Uploading /\ job[r] = "UploadFile" => target[r] \in Contents
    /\ pc[r] = "creating" /\ job[r] = "CompleteChunkedUpload" => target[r] \in Objects
    /\ pc[r] = "renaming" => job[r] = "UpdateFile"
    /\ pc[r] = "next" => job[r] \in Loops
    /\ pc[r] \in Deleting => job[r] \in OwnersDelete \union AdminsDelete
    /\ pc[r] = "leaving" => job[r] = "DeleteAccount"
    /\ pc[r] \in Deleting \union {"leaving", "next"} /\ job[r] \in OwnersDelete =>
         user[r] \in Owners
    /\ pc[r] \in {"purging", "sweeping"} => job[r] = "DeleteAllFiles"

(* The rows and objects in hand are or were in the table, and a delete's *)
(* object is that of its row.                                            *)
InHand ==
  \A r \in Requests :
    /\ \A f \in todo[r] : path[f] # None
    /\ \A p \in sweep[r] : \E f \in Files : path[f] = p
    /\ pc[r] \in Deleting \union {"renaming"} => file[r] \in Files /\ path[file[r]] # None
    /\ pc[r] \in Deleting => target[r] \in {None, path[file[r]]}
    /\ pc[r] \in Deleting /\ job[r] \in AdminsDelete => target[r] # None
    /\ target[r] # None =>
         pc[r] \in Uploading \/ \E f \in Files : path[f] = target[r]

(* A published object is its request's alone until the row is there. *)
PublishedAlone ==
  \A r \in Requests :
    pc[r] = "creating" /\ job[r] = "CompleteChunkedUpload" =>
      /\ blob[target[r]] = "framed"
      /\ \A f \in Files : path[f] # target[r]
      /\ \A q \in Requests : q # r => target[q] # target[r]

Steady == "lookup failures" \notin use /\ "UpdateFile" \notin use

Kept(p) == p \in Objects \/ "UploadFile" \notin use

(* What is about to be removed is not listed, nor will it be. *)
RemovesUnlisted ==
  Steady =>
    \A r \in Requests :
      /\ pc[r] = "removing" /\ Kept(target[r]) => ~Referenced(target[r])
      /\ pc[r] = "sweeping" => \A p \in sweep[r] : Kept(p) => ~Referenced(p)

ListedIsWhole ==
  Steady => \A f \in Files : live[f] /\ Kept(path[f]) => Whole(path[f])

Undisturbed ==
  /\ "lookup failures" \notin use /\ "failures" \notin use
  /\ "restarts" \notin use /\ "DeleteAllFiles" \notin use
  /\ "UpdateFile" \in use => "DeleteFile" \notin use /\ "DeleteAccount" \notin use

(* An owner's delete is without a path only if there is nothing it deletes. *)
NothingMissed ==
  Undisturbed =>
    \A r \in Requests :
      pc[r] = "deleting" /\ target[r] = None =>
        ~live[file[r]] \/ owner[file[r]] # user[r]

Tends(r, p) ==
  pc[r] \in {"writing", "creating", "checking", "removing"} /\ target[r] = p

(* Every object is listed, or in the hand of a request that will list it or *)
(* ask whether it is listed still.                                          *)
SomeoneTends ==
  Undisturbed =>
    \A p \in Paths :
      blob[p] # "none" => Referenced(p) \/ \E r \in Requests : Tends(r, p)

IInv ==
  /\ TypeOK
  /\ JobsAgree
  /\ InHand
  /\ PublishedAlone
  /\ RemovesUnlisted
  /\ ListedIsWhole
  /\ NothingMissed
  /\ SomeoneTends

(* What a step can make of a row, and of a request that removes objects. *)
StaysOrIsNew(f) ==
  \/ live[f] /\ path'[f] = path[f]
  \/ /\ path[f] = None
     /\ path'[f] \in Paths
     /\ Kept(path'[f]) => Whole(path'[f]) /\ \A g \in Files : path[g] # path'[f]
     /\ UNCHANGED blob

RemovesOnAskedFor(q) ==
  /\ pc'[q] = "removing" =>
       /\ target'[q] = target[q]
       /\ \/ pc[q] = "removing"
          \/ ~Referenced(target[q]) /\ UNCHANGED tableVars
  /\ pc'[q] = "sweeping" =>
       \/ pc[q] = "sweeping" /\ sweep'[q] \subseteq sweep[q]
       \/ \A f \in Files : ~live'[f]

(* What a step can make of an object that a row may list. *)
WholeOrUnlisted(p) ==
  \/ blob'[p] \in {"framed", "whole"}
  \/ ~Referenced(p) /\ UNCHANGED <<live, path>>

ObjectFromRequest(p) ==
  blob'[p] # "none" => blob[p] # "none" \/ \E r \in Requests : Tends(r, p)'

RowLetGo(p) ==
  Referenced(p) => Referenced(p)' \/ \E r \in Requests : Tends(r, p)'

GoesOnTending(r, p) ==
  Tends(r, p) => Tends(r, p)' \/ Referenced(p)' \/ blob'[p] = "none"

(***************************************************************************)
(* It holds at the start and every step keeps it.                          *)
(***************************************************************************)
LEMMA InitIInv == Init => IInv
<1> SUFFICES ASSUME Init PROVE IInv
  OBVIOUS
<1> USE DEF Init, Paths
<1>1. TypeOK
  BY DEF TypeOK, Formats, Places
<1>2. JobsAgree
  BY DEF JobsAgree, Uploading, Deleting
<1>3. InHand
  BY DEF InHand, Uploading, Deleting
<1>4. PublishedAlone
  BY DEF PublishedAlone
<1>5. RemovesUnlisted
  BY DEF RemovesUnlisted
<1>6. ListedIsWhole
  BY DEF ListedIsWhole, Whole
<1>7. NothingMissed
  BY DEF NothingMissed
<1>8. SomeoneTends
  BY DEF SomeoneTends, Referenced, Refers
<1> HIDE DEF Init, Paths
<1> QED
  BY <1>1, <1>2, <1>3, <1>4, <1>5, <1>6, <1>7, <1>8 DEF IInv

(* Types, and what is true of every row.                                   *)
LEMMA TypeStep == IInv /\ [Next]_vars => TypeOK'
<1> SUFFICES ASSUME IInv, [Next]_vars PROVE TypeOK'
  OBVIOUS
<1> USE DEF IInv, TypeOK, JobsAgree, Paths, Arrives, Goes, Ends, Done, Loops,
           tableVars, workVars, reqVars
<1> USE DEF Places, Formats, InHand, Deleting, Uploading
<1>1. ASSUME NEW r \in Requests, NEW o \in Owners, NEW p \in Contents, LookUpContent(r, o, p)
      PROVE  TypeOK'
  BY <1>1 DEF LookUpContent
<1>2. ASSUME NEW r \in Requests, NEW o \in Owners, NEW p \in Objects, PublishObject(r, o, p)
      PROVE  TypeOK'
  BY <1>2 DEF PublishObject
<1>3. ASSUME NEW r \in Requests, NEW o \in Owners, NEW f \in Files, LoadForUpdate(r, o, f)
      PROVE  TypeOK'
  BY <1>3 DEF LoadForUpdate
<1>4. ASSUME NEW r \in Requests, NEW o \in Owners, NEW f \in Files, DeleteFile(r, o, f)
      PROVE  TypeOK'
  BY <1>4 DEF DeleteFile, PathsSeen
<1>5. ASSUME NEW r \in Requests, NEW o \in Owners, DeleteAccount(r, o)
      PROVE  TypeOK'
  BY <1>5 DEF DeleteAccount, FilesOf
<1>6. ASSUME NEW r \in Requests, NEW f \in Files, AdminDeleteFile(r, f)
      PROVE  TypeOK'
  BY <1>6 DEF AdminDeleteFile
<1>7. ASSUME NEW r \in Requests, NEW o \in Owners, DeleteUserFiles(r, o)
      PROVE  TypeOK'
  BY <1>7 DEF DeleteUserFiles, FilesOf
<1>8. ASSUME NEW r \in Requests, DeleteAllFiles(r)
      PROVE  TypeOK'
  BY <1>8 DEF DeleteAllFiles, Referenced, Refers
<1>9. ASSUME NEW r \in Requests, CreateObject(r)
      PROVE  TypeOK'
  BY <1>9 DEF CreateObject
<1>10. ASSUME NEW r \in Requests, FillObject(r)
      PROVE  TypeOK'
  BY <1>10 DEF FillObject, AfterFill
<1>11. ASSUME NEW r \in Requests, CreateRow(r)
      PROVE  TypeOK'
  BY <1>11 DEF CreateRow, ReaderOf
<1>12. ASSUME NEW r \in Requests, SaveName(r)
      PROVE  TypeOK'
  BY <1>12 DEF SaveName
<1>13. ASSUME NEW r \in Requests, NextFile(r)
      PROVE  TypeOK'
  BY <1>13 DEF NextFile, PathsSeen
<1>14. ASSUME NEW r \in Requests, LoopEnds(r)
      PROVE  TypeOK'
  <2>1. CASE job[r] = "DeleteAccount"
    <3>1. pc[r] = "next" /\ todo[r] = {} /\ Goes(r, "leaving") /\ UNCHANGED workVars /\ UNCHANGED <<use, tableVars, blob>>
      BY <1>14, <2>1 DEF LoopEnds
    <3> QED
      BY <3>1, <2>1
  <2>2. CASE job[r] # "DeleteAccount"
    <3>1. pc[r] = "next" /\ Ends(r) /\ UNCHANGED <<use, tableVars, blob>>
      BY <1>14, <2>2 DEF LoopEnds
    <3> QED
      BY <3>1, <2>2
  <2> QED BY <2>1, <2>2
<1>15. ASSUME NEW r \in Requests, DeleteRow(r)
      PROVE  TypeOK'
  BY <1>15 DEF DeleteRow
<1>16. ASSUME NEW r \in Requests, DeleteRowFails(r)
      PROVE  TypeOK'
  <2>1. CASE job[r] \in {"DeleteFile", "DeleteAccount"}
    <3>1. pc[r] = "deleting" /\ Goes(r, "checking") /\ UNCHANGED workVars /\ UNCHANGED <<use, tableVars, blob>>
      BY <1>16, <2>1 DEF DeleteRowFails
    <3> QED
      BY <3>1, <2>1
  <2>2. CASE job[r] = "DeleteUserFiles"
    <3>1. pc[r] = "deleting" /\ Goes(r, "next") /\ UNCHANGED workVars /\ UNCHANGED <<use, tableVars, blob>>
      BY <1>16, <2>2 DEF DeleteRowFails
    <3> QED
      BY <3>1, <2>2
  <2>3. CASE job[r] \notin {"DeleteFile", "DeleteAccount", "DeleteUserFiles"}
    <3>1. pc[r] = "deleting" /\ Ends(r) /\ UNCHANGED <<use, tableVars, blob>>
      BY <1>16, <2>3 DEF DeleteRowFails
    <3> QED
      BY <3>1, <2>3
  <2> QED BY <2>1, <2>2, <2>3
<1>17. ASSUME NEW r \in Requests, FindOthers(r)
      PROVE  TypeOK'
  <2>1. CASE job[r] \in Loops
    <3>1. pc[r] = "checking" /\ Goes(r, "next") /\ UNCHANGED workVars /\ UNCHANGED <<use, tableVars, blob>>
      BY <1>17, <2>1 DEF FindOthers
    <3> QED
      BY <3>1, <2>1
  <2>2. CASE job[r] \notin Loops
    <3>1. pc[r] = "checking" /\ Ends(r) /\ UNCHANGED <<use, tableVars, blob>>
      BY <1>17, <2>2 DEF FindOthers
    <3> QED
      BY <3>1, <2>2
  <2> QED BY <2>1, <2>2
<1>18. ASSUME NEW r \in Requests, FindNoOthers(r)
      PROVE  TypeOK'
  BY <1>18 DEF FindNoOthers
<1>19. ASSUME NEW r \in Requests, RemoveObject(r)
      PROVE  TypeOK'
  <2>1. /\ pc[r] = "removing"
        /\ blob' = [p \in Paths |-> IF p = target[r] THEN "none" ELSE blob[p]]
        /\ UNCHANGED <<use, tableVars>>
    BY <1>19 DEF RemoveObject
  <2>2. CASE job[r] \in Loops
    <3>1. Goes(r, "next") /\ UNCHANGED workVars
      BY <1>19, <2>2 DEF RemoveObject
    <3> QED
      BY <3>1, <2>1, <2>2
  <2>3. CASE job[r] \notin Loops
    <3>1. Ends(r)
      BY <1>19, <2>3 DEF RemoveObject
    <3> QED
      BY <3>1, <2>1, <2>3
  <2> QED BY <2>2, <2>3
<1>20. ASSUME NEW r \in Requests, RemoveObjectFails(r)
      PROVE  TypeOK'
  <2>1. CASE job[r] \in Loops
    <3>1. pc[r] = "removing" /\ Goes(r, "next") /\ UNCHANGED workVars /\ UNCHANGED <<use, tableVars, blob>>
      BY <1>20, <2>1 DEF RemoveObjectFails
    <3> QED
      BY <3>1, <2>1
  <2>2. CASE job[r] \notin Loops
    <3>1. pc[r] = "removing" /\ Ends(r) /\ UNCHANGED <<use, tableVars, blob>>
      BY <1>20, <2>2 DEF RemoveObjectFails
    <3> QED
      BY <3>1, <2>2
  <2> QED BY <2>1, <2>2
<1>21. ASSUME NEW r \in Requests, DeleteUser(r)
      PROVE  TypeOK'
  <2>1. account' \in [Owners -> BOOLEAN]
    BY <1>21 DEF DeleteUser
  <2>2. Ends(r) /\ UNCHANGED <<use, live, path, owner, reader, blob>>
    BY <1>21 DEF DeleteUser
  <2> QED
    BY <2>1, <2>2
<1>22. ASSUME NEW r \in Requests, DeleteAllRows(r)
      PROVE  TypeOK'
  BY <1>22 DEF DeleteAllRows
<1>23. ASSUME NEW r \in Requests, SweepObject(r)
      PROVE  TypeOK'
  BY <1>23 DEF SweepObject
<1>24. ASSUME NEW r \in Requests, SweepEnds(r)
      PROVE  TypeOK'
  BY <1>24 DEF SweepEnds
<1>25. ASSUME NEW r \in Requests, RequestFails(r)
      PROVE  TypeOK'
  BY <1>25 DEF RequestFails
<1>26. CASE Restart
  BY <1>26 DEF Restart
<1>27. ASSUME NEW o \in Owners, SaveUser(o)
      PROVE  TypeOK'
  BY <1>27 DEF SaveUser
<1>28. CASE UNCHANGED vars
  BY <1>28 DEF vars
<1> QED BY <1>1, <1>2, <1>3, <1>4, <1>5, <1>6, <1>7, <1>8, <1>9, <1>10, <1>11,
     <1>12, <1>13, <1>14, <1>15, <1>16, <1>17, <1>18, <1>19, <1>20, <1>21,
     <1>22, <1>23, <1>24, <1>25, <1>26, <1>27, <1>28
     DEF Next, UserRequest, AdminRequest, RequestStep

(* What a request is follows from where it is.                             *)
LEMMA JobsStep == IInv /\ [Next]_vars => JobsAgree'
<1> SUFFICES ASSUME IInv, [Next]_vars PROVE JobsAgree'
  OBVIOUS
<1> USE DEF IInv, TypeOK, JobsAgree, Paths, Arrives, Goes, Ends, Done, Loops,
           tableVars, workVars, reqVars
<1> USE DEF Uploading, Deleting, OwnersDelete, AdminsDelete
<1>1. ASSUME NEW r \in Requests, NEW o \in Owners, NEW p \in Contents, LookUpContent(r, o, p)
      PROVE  JobsAgree'
  BY <1>1 DEF LookUpContent
<1>2. ASSUME NEW r \in Requests, NEW o \in Owners, NEW p \in Objects, PublishObject(r, o, p)
      PROVE  JobsAgree'
  BY <1>2 DEF PublishObject
<1>3. ASSUME NEW r \in Requests, NEW o \in Owners, NEW f \in Files, LoadForUpdate(r, o, f)
      PROVE  JobsAgree'
  BY <1>3 DEF LoadForUpdate
<1>4. ASSUME NEW r \in Requests, NEW o \in Owners, NEW f \in Files, DeleteFile(r, o, f)
      PROVE  JobsAgree'
  BY <1>4 DEF DeleteFile, PathsSeen
<1>5. ASSUME NEW r \in Requests, NEW o \in Owners, DeleteAccount(r, o)
      PROVE  JobsAgree'
  BY <1>5 DEF DeleteAccount, FilesOf
<1>6. ASSUME NEW r \in Requests, NEW f \in Files, AdminDeleteFile(r, f)
      PROVE  JobsAgree'
  BY <1>6 DEF AdminDeleteFile
<1>7. ASSUME NEW r \in Requests, NEW o \in Owners, DeleteUserFiles(r, o)
      PROVE  JobsAgree'
  BY <1>7 DEF DeleteUserFiles, FilesOf
<1>8. ASSUME NEW r \in Requests, DeleteAllFiles(r)
      PROVE  JobsAgree'
  BY <1>8 DEF DeleteAllFiles, Referenced, Refers
<1>9. ASSUME NEW r \in Requests, CreateObject(r)
      PROVE  JobsAgree'
  BY <1>9 DEF CreateObject
<1>10. ASSUME NEW r \in Requests, FillObject(r)
      PROVE  JobsAgree'
  BY <1>10 DEF FillObject, AfterFill
<1>11. ASSUME NEW r \in Requests, CreateRow(r)
      PROVE  JobsAgree'
  BY <1>11 DEF CreateRow, ReaderOf
<1>12. ASSUME NEW r \in Requests, SaveName(r)
      PROVE  JobsAgree'
  BY <1>12 DEF SaveName
<1>13. ASSUME NEW r \in Requests, NextFile(r)
      PROVE  JobsAgree'
  BY <1>13 DEF NextFile, PathsSeen
<1>14. ASSUME NEW r \in Requests, LoopEnds(r)
      PROVE  JobsAgree'
  <2>1. CASE job[r] = "DeleteAccount"
    <3>1. pc[r] = "next" /\ todo[r] = {} /\ Goes(r, "leaving") /\ UNCHANGED workVars /\ UNCHANGED <<use, tableVars, blob>>
      BY <1>14, <2>1 DEF LoopEnds
    <3> QED
      BY <3>1, <2>1
  <2>2. CASE job[r] # "DeleteAccount"
    <3>1. pc[r] = "next" /\ Ends(r) /\ UNCHANGED <<use, tableVars, blob>>
      BY <1>14, <2>2 DEF LoopEnds
    <3> QED
      BY <3>1, <2>2
  <2> QED BY <2>1, <2>2
<1>15. ASSUME NEW r \in Requests, DeleteRow(r)
      PROVE  JobsAgree'
  BY <1>15 DEF DeleteRow
<1>16. ASSUME NEW r \in Requests, DeleteRowFails(r)
      PROVE  JobsAgree'
  <2>1. CASE job[r] \in {"DeleteFile", "DeleteAccount"}
    <3>1. pc[r] = "deleting" /\ Goes(r, "checking") /\ UNCHANGED workVars /\ UNCHANGED <<use, tableVars, blob>>
      BY <1>16, <2>1 DEF DeleteRowFails
    <3> QED
      BY <3>1, <2>1
  <2>2. CASE job[r] = "DeleteUserFiles"
    <3>1. pc[r] = "deleting" /\ Goes(r, "next") /\ UNCHANGED workVars /\ UNCHANGED <<use, tableVars, blob>>
      BY <1>16, <2>2 DEF DeleteRowFails
    <3> QED
      BY <3>1, <2>2
  <2>3. CASE job[r] \notin {"DeleteFile", "DeleteAccount", "DeleteUserFiles"}
    <3>1. pc[r] = "deleting" /\ Ends(r) /\ UNCHANGED <<use, tableVars, blob>>
      BY <1>16, <2>3 DEF DeleteRowFails
    <3> QED
      BY <3>1, <2>3
  <2> QED BY <2>1, <2>2, <2>3
<1>17. ASSUME NEW r \in Requests, FindOthers(r)
      PROVE  JobsAgree'
  <2>1. CASE job[r] \in Loops
    <3>1. pc[r] = "checking" /\ Goes(r, "next") /\ UNCHANGED workVars /\ UNCHANGED <<use, tableVars, blob>>
      BY <1>17, <2>1 DEF FindOthers
    <3> QED
      BY <3>1, <2>1
  <2>2. CASE job[r] \notin Loops
    <3>1. pc[r] = "checking" /\ Ends(r) /\ UNCHANGED <<use, tableVars, blob>>
      BY <1>17, <2>2 DEF FindOthers
    <3> QED
      BY <3>1, <2>2
  <2> QED BY <2>1, <2>2
<1>18. ASSUME NEW r \in Requests, FindNoOthers(r)
      PROVE  JobsAgree'
  BY <1>18 DEF FindNoOthers
<1>19. ASSUME NEW r \in Requests, RemoveObject(r)
      PROVE  JobsAgree'
  <2>1. /\ pc[r] = "removing"
        /\ blob' = [p \in Paths |-> IF p = target[r] THEN "none" ELSE blob[p]]
        /\ UNCHANGED <<use, tableVars>>
    BY <1>19 DEF RemoveObject
  <2>2. CASE job[r] \in Loops
    <3>1. Goes(r, "next") /\ UNCHANGED workVars
      BY <1>19, <2>2 DEF RemoveObject
    <3> QED
      BY <3>1, <2>1, <2>2
  <2>3. CASE job[r] \notin Loops
    <3>1. Ends(r)
      BY <1>19, <2>3 DEF RemoveObject
    <3> QED
      BY <3>1, <2>1, <2>3
  <2> QED BY <2>2, <2>3
<1>20. ASSUME NEW r \in Requests, RemoveObjectFails(r)
      PROVE  JobsAgree'
  <2>1. CASE job[r] \in Loops
    <3>1. pc[r] = "removing" /\ Goes(r, "next") /\ UNCHANGED workVars /\ UNCHANGED <<use, tableVars, blob>>
      BY <1>20, <2>1 DEF RemoveObjectFails
    <3> QED
      BY <3>1, <2>1
  <2>2. CASE job[r] \notin Loops
    <3>1. pc[r] = "removing" /\ Ends(r) /\ UNCHANGED <<use, tableVars, blob>>
      BY <1>20, <2>2 DEF RemoveObjectFails
    <3> QED
      BY <3>1, <2>2
  <2> QED BY <2>1, <2>2
<1>21. ASSUME NEW r \in Requests, DeleteUser(r)
      PROVE  JobsAgree'
  BY <1>21 DEF DeleteUser
<1>22. ASSUME NEW r \in Requests, DeleteAllRows(r)
      PROVE  JobsAgree'
  BY <1>22 DEF DeleteAllRows
<1>23. ASSUME NEW r \in Requests, SweepObject(r)
      PROVE  JobsAgree'
  BY <1>23 DEF SweepObject
<1>24. ASSUME NEW r \in Requests, SweepEnds(r)
      PROVE  JobsAgree'
  BY <1>24 DEF SweepEnds
<1>25. ASSUME NEW r \in Requests, RequestFails(r)
      PROVE  JobsAgree'
  BY <1>25 DEF RequestFails
<1>26. CASE Restart
  BY <1>26 DEF Restart
<1>27. ASSUME NEW o \in Owners, SaveUser(o)
      PROVE  JobsAgree'
  BY <1>27 DEF SaveUser
<1>28. CASE UNCHANGED vars
  BY <1>28 DEF vars
<1> QED BY <1>1, <1>2, <1>3, <1>4, <1>5, <1>6, <1>7, <1>8, <1>9, <1>10, <1>11,
     <1>12, <1>13, <1>14, <1>15, <1>16, <1>17, <1>18, <1>19, <1>20, <1>21,
     <1>22, <1>23, <1>24, <1>25, <1>26, <1>27, <1>28
     DEF Next, UserRequest, AdminRequest, RequestStep

(* A path once in the table stays there.                                   *)
LEMMA InHandStep == IInv /\ [Next]_vars => InHand'
<1> SUFFICES ASSUME IInv, [Next]_vars PROVE InHand'
  OBVIOUS
<1> USE DEF IInv, TypeOK, JobsAgree, Paths, Arrives, Goes, Ends, Done, Loops,
           tableVars, workVars, reqVars
<1> USE DEF InHand, Uploading, Deleting, OwnersDelete, AdminsDelete
<1>1. ASSUME NEW r \in Requests, NEW o \in Owners, NEW p \in Contents, LookUpContent(r, o, p)
      PROVE  InHand'
  BY <1>1 DEF LookUpContent
<1>2. ASSUME NEW r \in Requests, NEW o \in Owners, NEW p \in Objects, PublishObject(r, o, p)
      PROVE  InHand'
  BY <1>2 DEF PublishObject
<1>3. ASSUME NEW r \in Requests, NEW o \in Owners, NEW f \in Files, LoadForUpdate(r, o, f)
      PROVE  InHand'
  BY <1>3 DEF LoadForUpdate
<1>4. ASSUME NEW r \in Requests, NEW o \in Owners, NEW f \in Files, DeleteFile(r, o, f)
      PROVE  InHand'
  BY <1>4 DEF DeleteFile, PathsSeen
<1>5. ASSUME NEW r \in Requests, NEW o \in Owners, DeleteAccount(r, o)
      PROVE  InHand'
  BY <1>5 DEF DeleteAccount, FilesOf
<1>6. ASSUME NEW r \in Requests, NEW f \in Files, AdminDeleteFile(r, f)
      PROVE  InHand'
  BY <1>6 DEF AdminDeleteFile
<1>7. ASSUME NEW r \in Requests, NEW o \in Owners, DeleteUserFiles(r, o)
      PROVE  InHand'
  BY <1>7 DEF DeleteUserFiles, FilesOf
<1>8. ASSUME NEW r \in Requests, DeleteAllFiles(r)
      PROVE  InHand'
  BY <1>8 DEF DeleteAllFiles, Referenced, Refers
<1>9. ASSUME NEW r \in Requests, CreateObject(r)
      PROVE  InHand'
  BY <1>9 DEF CreateObject
<1>10. ASSUME NEW r \in Requests, FillObject(r)
      PROVE  InHand'
  BY <1>10 DEF FillObject, AfterFill
<1>11. ASSUME NEW r \in Requests, CreateRow(r)
      PROVE  InHand'
  BY <1>11 DEF CreateRow, ReaderOf
<1>12. ASSUME NEW r \in Requests, SaveName(r)
      PROVE  InHand'
  BY <1>12 DEF SaveName
<1>13. ASSUME NEW r \in Requests, NextFile(r)
      PROVE  InHand'
  BY <1>13 DEF NextFile, PathsSeen
<1>14. ASSUME NEW r \in Requests, LoopEnds(r)
      PROVE  InHand'
  <2>1. CASE job[r] = "DeleteAccount"
    <3>1. pc[r] = "next" /\ todo[r] = {} /\ Goes(r, "leaving") /\ UNCHANGED workVars /\ UNCHANGED <<use, tableVars, blob>>
      BY <1>14, <2>1 DEF LoopEnds
    <3> QED
      BY <3>1, <2>1
  <2>2. CASE job[r] # "DeleteAccount"
    <3>1. pc[r] = "next" /\ Ends(r) /\ UNCHANGED <<use, tableVars, blob>>
      BY <1>14, <2>2 DEF LoopEnds
    <3> QED
      BY <3>1, <2>2
  <2> QED BY <2>1, <2>2
<1>15. ASSUME NEW r \in Requests, DeleteRow(r)
      PROVE  InHand'
  BY <1>15 DEF DeleteRow
<1>16. ASSUME NEW r \in Requests, DeleteRowFails(r)
      PROVE  InHand'
  <2>1. CASE job[r] \in {"DeleteFile", "DeleteAccount"}
    <3>1. pc[r] = "deleting" /\ Goes(r, "checking") /\ UNCHANGED workVars /\ UNCHANGED <<use, tableVars, blob>>
      BY <1>16, <2>1 DEF DeleteRowFails
    <3> QED
      BY <3>1, <2>1
  <2>2. CASE job[r] = "DeleteUserFiles"
    <3>1. pc[r] = "deleting" /\ Goes(r, "next") /\ UNCHANGED workVars /\ UNCHANGED <<use, tableVars, blob>>
      BY <1>16, <2>2 DEF DeleteRowFails
    <3> QED
      BY <3>1, <2>2
  <2>3. CASE job[r] \notin {"DeleteFile", "DeleteAccount", "DeleteUserFiles"}
    <3>1. pc[r] = "deleting" /\ Ends(r) /\ UNCHANGED <<use, tableVars, blob>>
      BY <1>16, <2>3 DEF DeleteRowFails
    <3> QED
      BY <3>1, <2>3
  <2> QED BY <2>1, <2>2, <2>3
<1>17. ASSUME NEW r \in Requests, FindOthers(r)
      PROVE  InHand'
  <2>1. CASE job[r] \in Loops
    <3>1. pc[r] = "checking" /\ Goes(r, "next") /\ UNCHANGED workVars /\ UNCHANGED <<use, tableVars, blob>>
      BY <1>17, <2>1 DEF FindOthers
    <3> QED
      BY <3>1, <2>1
  <2>2. CASE job[r] \notin Loops
    <3>1. pc[r] = "checking" /\ Ends(r) /\ UNCHANGED <<use, tableVars, blob>>
      BY <1>17, <2>2 DEF FindOthers
    <3> QED
      BY <3>1, <2>2
  <2> QED BY <2>1, <2>2
<1>18. ASSUME NEW r \in Requests, FindNoOthers(r)
      PROVE  InHand'
  BY <1>18 DEF FindNoOthers
<1>19. ASSUME NEW r \in Requests, RemoveObject(r)
      PROVE  InHand'
  <2>1. /\ pc[r] = "removing"
        /\ blob' = [p \in Paths |-> IF p = target[r] THEN "none" ELSE blob[p]]
        /\ UNCHANGED <<use, tableVars>>
    BY <1>19 DEF RemoveObject
  <2>2. CASE job[r] \in Loops
    <3>1. Goes(r, "next") /\ UNCHANGED workVars
      BY <1>19, <2>2 DEF RemoveObject
    <3> QED
      BY <3>1, <2>1, <2>2
  <2>3. CASE job[r] \notin Loops
    <3>1. Ends(r)
      BY <1>19, <2>3 DEF RemoveObject
    <3> QED
      BY <3>1, <2>1, <2>3
  <2> QED BY <2>2, <2>3
<1>20. ASSUME NEW r \in Requests, RemoveObjectFails(r)
      PROVE  InHand'
  <2>1. CASE job[r] \in Loops
    <3>1. pc[r] = "removing" /\ Goes(r, "next") /\ UNCHANGED workVars /\ UNCHANGED <<use, tableVars, blob>>
      BY <1>20, <2>1 DEF RemoveObjectFails
    <3> QED
      BY <3>1, <2>1
  <2>2. CASE job[r] \notin Loops
    <3>1. pc[r] = "removing" /\ Ends(r) /\ UNCHANGED <<use, tableVars, blob>>
      BY <1>20, <2>2 DEF RemoveObjectFails
    <3> QED
      BY <3>1, <2>2
  <2> QED BY <2>1, <2>2
<1>21. ASSUME NEW r \in Requests, DeleteUser(r)
      PROVE  InHand'
  BY <1>21 DEF DeleteUser
<1>22. ASSUME NEW r \in Requests, DeleteAllRows(r)
      PROVE  InHand'
  BY <1>22 DEF DeleteAllRows
<1>23. ASSUME NEW r \in Requests, SweepObject(r)
      PROVE  InHand'
  BY <1>23 DEF SweepObject
<1>24. ASSUME NEW r \in Requests, SweepEnds(r)
      PROVE  InHand'
  BY <1>24 DEF SweepEnds
<1>25. ASSUME NEW r \in Requests, RequestFails(r)
      PROVE  InHand'
  BY <1>25 DEF RequestFails
<1>26. CASE Restart
  BY <1>26 DEF Restart
<1>27. ASSUME NEW o \in Owners, SaveUser(o)
      PROVE  InHand'
  BY <1>27 DEF SaveUser
<1>28. CASE UNCHANGED vars
  BY <1>28 DEF vars
<1> QED BY <1>1, <1>2, <1>3, <1>4, <1>5, <1>6, <1>7, <1>8, <1>9, <1>10, <1>11,
     <1>12, <1>13, <1>14, <1>15, <1>16, <1>17, <1>18, <1>19, <1>20, <1>21,
     <1>22, <1>23, <1>24, <1>25, <1>26, <1>27, <1>28
     DEF Next, UserRequest, AdminRequest, RequestStep

(* Nobody else knows the path of an object that has no row yet.            *)
LEMMA PublishedStep == IInv /\ [Next]_vars => PublishedAlone'
<1> SUFFICES ASSUME IInv, [Next]_vars PROVE PublishedAlone'
  OBVIOUS
<1> USE DEF IInv, TypeOK, JobsAgree, Paths, Arrives, Goes, Ends, Done, Loops,
           tableVars, workVars, reqVars
<1> USE DEF InHand, PublishedAlone, Uploading, Deleting, OwnersDelete,
           AdminsDelete
<1>1. ASSUME NEW r \in Requests, NEW o \in Owners, NEW p \in Contents, LookUpContent(r, o, p)
      PROVE  PublishedAlone'
  BY <1>1 DEF LookUpContent
<1>2. ASSUME NEW r \in Requests, NEW o \in Owners, NEW p \in Objects, PublishObject(r, o, p)
      PROVE  PublishedAlone'
  BY <1>2 DEF PublishObject
<1>3. ASSUME NEW r \in Requests, NEW o \in Owners, NEW f \in Files, LoadForUpdate(r, o, f)
      PROVE  PublishedAlone'
  BY <1>3 DEF LoadForUpdate
<1>4. ASSUME NEW r \in Requests, NEW o \in Owners, NEW f \in Files, DeleteFile(r, o, f)
      PROVE  PublishedAlone'
  BY <1>4 DEF DeleteFile, PathsSeen
<1>5. ASSUME NEW r \in Requests, NEW o \in Owners, DeleteAccount(r, o)
      PROVE  PublishedAlone'
  BY <1>5 DEF DeleteAccount, FilesOf
<1>6. ASSUME NEW r \in Requests, NEW f \in Files, AdminDeleteFile(r, f)
      PROVE  PublishedAlone'
  BY <1>6 DEF AdminDeleteFile
<1>7. ASSUME NEW r \in Requests, NEW o \in Owners, DeleteUserFiles(r, o)
      PROVE  PublishedAlone'
  BY <1>7 DEF DeleteUserFiles, FilesOf
<1>8. ASSUME NEW r \in Requests, DeleteAllFiles(r)
      PROVE  PublishedAlone'
  BY <1>8 DEF DeleteAllFiles, Referenced, Refers
<1>9. ASSUME NEW r \in Requests, CreateObject(r)
      PROVE  PublishedAlone'
  BY <1>9 DEF CreateObject
<1>10. ASSUME NEW r \in Requests, FillObject(r)
      PROVE  PublishedAlone'
  BY <1>10 DEF FillObject, AfterFill
<1>11. ASSUME NEW r \in Requests, CreateRow(r)
      PROVE  PublishedAlone'
  BY <1>11 DEF CreateRow, ReaderOf
<1>12. ASSUME NEW r \in Requests, SaveName(r)
      PROVE  PublishedAlone'
  BY <1>12 DEF SaveName
<1>13. ASSUME NEW r \in Requests, NextFile(r)
      PROVE  PublishedAlone'
  BY <1>13 DEF NextFile, PathsSeen
<1>14. ASSUME NEW r \in Requests, LoopEnds(r)
      PROVE  PublishedAlone'
  <2>1. CASE job[r] = "DeleteAccount"
    <3>1. pc[r] = "next" /\ todo[r] = {} /\ Goes(r, "leaving") /\ UNCHANGED workVars /\ UNCHANGED <<use, tableVars, blob>>
      BY <1>14, <2>1 DEF LoopEnds
    <3> QED
      BY <3>1, <2>1
  <2>2. CASE job[r] # "DeleteAccount"
    <3>1. pc[r] = "next" /\ Ends(r) /\ UNCHANGED <<use, tableVars, blob>>
      BY <1>14, <2>2 DEF LoopEnds
    <3> QED
      BY <3>1, <2>2
  <2> QED BY <2>1, <2>2
<1>15. ASSUME NEW r \in Requests, DeleteRow(r)
      PROVE  PublishedAlone'
  BY <1>15 DEF DeleteRow
<1>16. ASSUME NEW r \in Requests, DeleteRowFails(r)
      PROVE  PublishedAlone'
  <2>1. CASE job[r] \in {"DeleteFile", "DeleteAccount"}
    <3>1. pc[r] = "deleting" /\ Goes(r, "checking") /\ UNCHANGED workVars /\ UNCHANGED <<use, tableVars, blob>>
      BY <1>16, <2>1 DEF DeleteRowFails
    <3> QED
      BY <3>1, <2>1
  <2>2. CASE job[r] = "DeleteUserFiles"
    <3>1. pc[r] = "deleting" /\ Goes(r, "next") /\ UNCHANGED workVars /\ UNCHANGED <<use, tableVars, blob>>
      BY <1>16, <2>2 DEF DeleteRowFails
    <3> QED
      BY <3>1, <2>2
  <2>3. CASE job[r] \notin {"DeleteFile", "DeleteAccount", "DeleteUserFiles"}
    <3>1. pc[r] = "deleting" /\ Ends(r) /\ UNCHANGED <<use, tableVars, blob>>
      BY <1>16, <2>3 DEF DeleteRowFails
    <3> QED
      BY <3>1, <2>3
  <2> QED BY <2>1, <2>2, <2>3
<1>17. ASSUME NEW r \in Requests, FindOthers(r)
      PROVE  PublishedAlone'
  <2>1. CASE job[r] \in Loops
    <3>1. pc[r] = "checking" /\ Goes(r, "next") /\ UNCHANGED workVars /\ UNCHANGED <<use, tableVars, blob>>
      BY <1>17, <2>1 DEF FindOthers
    <3> QED
      BY <3>1, <2>1
  <2>2. CASE job[r] \notin Loops
    <3>1. pc[r] = "checking" /\ Ends(r) /\ UNCHANGED <<use, tableVars, blob>>
      BY <1>17, <2>2 DEF FindOthers
    <3> QED
      BY <3>1, <2>2
  <2> QED BY <2>1, <2>2
<1>18. ASSUME NEW r \in Requests, FindNoOthers(r)
      PROVE  PublishedAlone'
  BY <1>18 DEF FindNoOthers
<1>19. ASSUME NEW r \in Requests, RemoveObject(r)
      PROVE  PublishedAlone'
  <2>1. /\ pc[r] = "removing"
        /\ blob' = [p \in Paths |-> IF p = target[r] THEN "none" ELSE blob[p]]
        /\ UNCHANGED <<use, tableVars>>
    BY <1>19 DEF RemoveObject
  <2>2. CASE job[r] \in Loops
    <3>1. Goes(r, "next") /\ UNCHANGED workVars
      BY <1>19, <2>2 DEF RemoveObject
    <3> QED
      BY <3>1, <2>1, <2>2
  <2>3. CASE job[r] \notin Loops
    <3>1. Ends(r)
      BY <1>19, <2>3 DEF RemoveObject
    <3> QED
      BY <3>1, <2>1, <2>3
  <2> QED BY <2>2, <2>3
<1>20. ASSUME NEW r \in Requests, RemoveObjectFails(r)
      PROVE  PublishedAlone'
  <2>1. CASE job[r] \in Loops
    <3>1. pc[r] = "removing" /\ Goes(r, "next") /\ UNCHANGED workVars /\ UNCHANGED <<use, tableVars, blob>>
      BY <1>20, <2>1 DEF RemoveObjectFails
    <3> QED
      BY <3>1, <2>1
  <2>2. CASE job[r] \notin Loops
    <3>1. pc[r] = "removing" /\ Ends(r) /\ UNCHANGED <<use, tableVars, blob>>
      BY <1>20, <2>2 DEF RemoveObjectFails
    <3> QED
      BY <3>1, <2>2
  <2> QED BY <2>1, <2>2
<1>21. ASSUME NEW r \in Requests, DeleteUser(r)
      PROVE  PublishedAlone'
  BY <1>21 DEF DeleteUser
<1>22. ASSUME NEW r \in Requests, DeleteAllRows(r)
      PROVE  PublishedAlone'
  BY <1>22 DEF DeleteAllRows
<1>23. ASSUME NEW r \in Requests, SweepObject(r)
      PROVE  PublishedAlone'
  BY <1>23 DEF SweepObject
<1>24. ASSUME NEW r \in Requests, SweepEnds(r)
      PROVE  PublishedAlone'
  BY <1>24 DEF SweepEnds
<1>25. ASSUME NEW r \in Requests, RequestFails(r)
      PROVE  PublishedAlone'
  BY <1>25 DEF RequestFails
<1>26. CASE Restart
  BY <1>26 DEF Restart
<1>27. ASSUME NEW o \in Owners, SaveUser(o)
      PROVE  PublishedAlone'
  BY <1>27 DEF SaveUser
<1>28. CASE UNCHANGED vars
  BY <1>28 DEF vars
<1> QED BY <1>1, <1>2, <1>3, <1>4, <1>5, <1>6, <1>7, <1>8, <1>9, <1>10, <1>11,
     <1>12, <1>13, <1>14, <1>15, <1>16, <1>17, <1>18, <1>19, <1>20, <1>21,
     <1>22, <1>23, <1>24, <1>25, <1>26, <1>27, <1>28
     DEF Next, UserRequest, AdminRequest, RequestStep

(* What occurs in a behaviour is settled at its start.                     *)
LEMMA UseStays ==
  ASSUME [Next]_vars
  PROVE  use' = use
<1> USE DEF Arrives, Goes, Ends, Done, tableVars, workVars, reqVars
<1>1. ASSUME NEW r \in Requests, NEW o \in Owners, NEW p \in Contents, LookUpContent(r, o, p)
      PROVE  use' = use
  BY <1>1 DEF LookUpContent
<1>2. ASSUME NEW r \in Requests, NEW o \in Owners, NEW p \in Objects, PublishObject(r, o, p)
      PROVE  use' = use
  BY <1>2 DEF PublishObject
<1>3. ASSUME NEW r \in Requests, NEW o \in Owners, NEW f \in Files, LoadForUpdate(r, o, f)
      PROVE  use' = use
  BY <1>3 DEF LoadForUpdate
<1>4. ASSUME NEW r \in Requests, NEW o \in Owners, NEW f \in Files, DeleteFile(r, o, f)
      PROVE  use' = use
  BY <1>4 DEF DeleteFile, PathsSeen
<1>5. ASSUME NEW r \in Requests, NEW o \in Owners, DeleteAccount(r, o)
      PROVE  use' = use
  BY <1>5 DEF DeleteAccount, FilesOf
<1>6. ASSUME NEW r \in Requests, NEW f \in Files, AdminDeleteFile(r, f)
      PROVE  use' = use
  BY <1>6 DEF AdminDeleteFile
<1>7. ASSUME NEW r \in Requests, NEW o \in Owners, DeleteUserFiles(r, o)
      PROVE  use' = use
  BY <1>7 DEF DeleteUserFiles, FilesOf
<1>8. ASSUME NEW r \in Requests, DeleteAllFiles(r)
      PROVE  use' = use
  BY <1>8 DEF DeleteAllFiles, Referenced, Refers
<1>9. ASSUME NEW r \in Requests, CreateObject(r)
      PROVE  use' = use
  BY <1>9 DEF CreateObject
<1>10. ASSUME NEW r \in Requests, FillObject(r)
      PROVE  use' = use
  BY <1>10 DEF FillObject, AfterFill
<1>11. ASSUME NEW r \in Requests, CreateRow(r)
      PROVE  use' = use
  BY <1>11 DEF CreateRow, ReaderOf
<1>12. ASSUME NEW r \in Requests, SaveName(r)
      PROVE  use' = use
  BY <1>12 DEF SaveName
<1>13. ASSUME NEW r \in Requests, NextFile(r)
      PROVE  use' = use
  BY <1>13 DEF NextFile, PathsSeen
<1>14. ASSUME NEW r \in Requests, LoopEnds(r)
      PROVE  use' = use
  BY <1>14 DEF LoopEnds
<1>15. ASSUME NEW r \in Requests, DeleteRow(r)
      PROVE  use' = use
  BY <1>15 DEF DeleteRow
<1>16. ASSUME NEW r \in Requests, DeleteRowFails(r)
      PROVE  use' = use
  BY <1>16 DEF DeleteRowFails
<1>17. ASSUME NEW r \in Requests, FindOthers(r)
      PROVE  use' = use
  BY <1>17 DEF FindOthers
<1>18. ASSUME NEW r \in Requests, FindNoOthers(r)
      PROVE  use' = use
  BY <1>18 DEF FindNoOthers
<1>19. ASSUME NEW r \in Requests, RemoveObject(r)
      PROVE  use' = use
  BY <1>19 DEF RemoveObject
<1>20. ASSUME NEW r \in Requests, RemoveObjectFails(r)
      PROVE  use' = use
  BY <1>20 DEF RemoveObjectFails
<1>21. ASSUME NEW r \in Requests, DeleteUser(r)
      PROVE  use' = use
  BY <1>21 DEF DeleteUser
<1>22. ASSUME NEW r \in Requests, DeleteAllRows(r)
      PROVE  use' = use
  BY <1>22 DEF DeleteAllRows
<1>23. ASSUME NEW r \in Requests, SweepObject(r)
      PROVE  use' = use
  BY <1>23 DEF SweepObject
<1>24. ASSUME NEW r \in Requests, SweepEnds(r)
      PROVE  use' = use
  BY <1>24 DEF SweepEnds
<1>25. ASSUME NEW r \in Requests, RequestFails(r)
      PROVE  use' = use
  BY <1>25 DEF RequestFails
<1>26. CASE Restart
  BY <1>26 DEF Restart
<1>27. ASSUME NEW o \in Owners, SaveUser(o)
      PROVE  use' = use
  BY <1>27 DEF SaveUser
<1>28. CASE UNCHANGED vars
  BY <1>28 DEF vars
<1> HIDE DEF Arrives, Goes, Ends, Done, tableVars, workVars, reqVars
<1> QED BY <1>1, <1>2, <1>3, <1>4, <1>5, <1>6, <1>7, <1>8, <1>9, <1>10, <1>11,
     <1>12, <1>13, <1>14, <1>15, <1>16, <1>17, <1>18, <1>19, <1>20, <1>21,
     <1>22, <1>23, <1>24, <1>25, <1>26, <1>27, <1>28
     DEF Next, UserRequest, AdminRequest, RequestStep

(* A row comes to be listed only when it is created, at a path no row has  *)
(* had if the path is kept, and with its object there.                     *)
LEMMA NewRows ==
  ASSUME TypeOK,
         [Next]_vars,
         JobsAgree,
         PublishedAlone,
         Steady,
         NEW g \in Files,
         live'[g]
  PROVE  StaysOrIsNew(g)
<1> USE DEF TypeOK, Paths, Arrives, Goes, Ends, Done, Loops, tableVars,
           workVars, reqVars
<1> USE DEF StaysOrIsNew
<1>1. ASSUME NEW r \in Requests, NEW o \in Owners, NEW p \in Contents, LookUpContent(r, o, p)
      PROVE  StaysOrIsNew(g)
  BY <1>1 DEF LookUpContent
<1>2. ASSUME NEW r \in Requests, NEW o \in Owners, NEW p \in Objects, PublishObject(r, o, p)
      PROVE  StaysOrIsNew(g)
  BY <1>2 DEF PublishObject
<1>3. ASSUME NEW r \in Requests, NEW o \in Owners, NEW f \in Files, LoadForUpdate(r, o, f)
      PROVE  StaysOrIsNew(g)
  BY <1>3 DEF LoadForUpdate
<1>4. ASSUME NEW r \in Requests, NEW o \in Owners, NEW f \in Files, DeleteFile(r, o, f)
      PROVE  StaysOrIsNew(g)
  <2>1. UNCHANGED <<live, path>>
    BY <1>4 DEF DeleteFile
  <2> QED
    BY <2>1
<1>5. ASSUME NEW r \in Requests, NEW o \in Owners, DeleteAccount(r, o)
      PROVE  StaysOrIsNew(g)
  BY <1>5 DEF DeleteAccount, FilesOf
<1>6. ASSUME NEW r \in Requests, NEW f \in Files, AdminDeleteFile(r, f)
      PROVE  StaysOrIsNew(g)
  BY <1>6 DEF AdminDeleteFile
<1>7. ASSUME NEW r \in Requests, NEW o \in Owners, DeleteUserFiles(r, o)
      PROVE  StaysOrIsNew(g)
  BY <1>7 DEF DeleteUserFiles, FilesOf
<1>8. ASSUME NEW r \in Requests, DeleteAllFiles(r)
      PROVE  StaysOrIsNew(g)
  BY <1>8 DEF DeleteAllFiles, Referenced, Refers
<1>9. ASSUME NEW r \in Requests, CreateObject(r)
      PROVE  StaysOrIsNew(g)
  BY <1>9 DEF CreateObject
<1>10. ASSUME NEW r \in Requests, FillObject(r)
      PROVE  StaysOrIsNew(g)
  BY <1>10 DEF FillObject, AfterFill
<1>11. ASSUME NEW r \in Requests, CreateRow(r)
      PROVE  StaysOrIsNew(g)
  <2>1. PICK f \in Files : /\ path[f] = None
                           /\ path' = [path EXCEPT ![f] = target[r]]
                           /\ live' = [live EXCEPT ![f] = TRUE]
    BY <1>11 DEF CreateRow
  <2>2. pc[r] = "creating" /\ UNCHANGED <<use, blob>>
    BY <1>11 DEF CreateRow
  <2>3. CASE g # f
    BY <2>1, <2>3
  <2>4. CASE g = f
    <3>1. path[g] = None /\ path'[g] = target[r]
      BY <2>1, <2>4
    <3>2. CASE job[r] = "UploadFile"
      <4>1. target[r] \in Contents /\ "UploadFile" \in use
        BY <2>2, <3>2 DEF JobsAgree, Uploading
      <4> QED
        BY <2>2, <3>1, <4>1 DEF Kept
    <3>3. CASE job[r] = "CompleteChunkedUpload"
      <4>1. /\ target[r] \in Objects
            /\ blob[target[r]] = "framed"
            /\ \A h \in Files : path[h] # target[r]
        BY <2>2, <3>3 DEF JobsAgree, PublishedAlone
      <4> QED
        BY <2>2, <3>1, <4>1 DEF Whole
    <3> QED
      BY <2>2, <3>2, <3>3 DEF JobsAgree
  <2> QED
    BY <2>3, <2>4
<1>12. ASSUME NEW r \in Requests, SaveName(r)
      PROVE  StaysOrIsNew(g)
  <2>1. pc[r] = "renaming"
    BY <1>12 DEF SaveName
  <2>2. "UpdateFile" \in use
    BY <2>1 DEF JobsAgree
  <2> QED
    BY <2>2 DEF Steady
<1>13. ASSUME NEW r \in Requests, NextFile(r)
      PROVE  StaysOrIsNew(g)
  BY <1>13 DEF NextFile, PathsSeen
<1>14. ASSUME NEW r \in Requests, LoopEnds(r)
      PROVE  StaysOrIsNew(g)
  <2>1. CASE job[r] = "DeleteAccount"
    <3>1. pc[r] = "next" /\ todo[r] = {} /\ Goes(r, "leaving") /\ UNCHANGED workVars /\ UNCHANGED <<use, tableVars, blob>>
      BY <1>14, <2>1 DEF LoopEnds
    <3> QED
      BY <3>1, <2>1
  <2>2. CASE job[r] # "DeleteAccount"
    <3>1. pc[r] = "next" /\ Ends(r) /\ UNCHANGED <<use, tableVars, blob>>
      BY <1>14, <2>2 DEF LoopEnds
    <3> QED
      BY <3>1, <2>2
  <2> QED BY <2>1, <2>2
<1>15. ASSUME NEW r \in Requests, DeleteRow(r)
      PROVE  StaysOrIsNew(g)
  <2>1. UNCHANGED path
    BY <1>15 DEF DeleteRow
  <2>2. live[g]
    BY <1>15 DEF DeleteRow
  <2> QED
    BY <2>1, <2>2
<1>16. ASSUME NEW r \in Requests, DeleteRowFails(r)
      PROVE  StaysOrIsNew(g)
  <2>1. CASE job[r] \in {"DeleteFile", "DeleteAccount"}
    <3>1. pc[r] = "deleting" /\ Goes(r, "checking") /\ UNCHANGED workVars /\ UNCHANGED <<use, tableVars, blob>>
      BY <1>16, <2>1 DEF DeleteRowFails
    <3> QED
      BY <3>1, <2>1
  <2>2. CASE job[r] = "DeleteUserFiles"
    <3>1. pc[r] = "deleting" /\ Goes(r, "next") /\ UNCHANGED workVars /\ UNCHANGED <<use, tableVars, blob>>
      BY <1>16, <2>2 DEF DeleteRowFails
    <3> QED
      BY <3>1, <2>2
  <2>3. CASE job[r] \notin {"DeleteFile", "DeleteAccount", "DeleteUserFiles"}
    <3>1. pc[r] = "deleting" /\ Ends(r) /\ UNCHANGED <<use, tableVars, blob>>
      BY <1>16, <2>3 DEF DeleteRowFails
    <3> QED
      BY <3>1, <2>3
  <2> QED BY <2>1, <2>2, <2>3
<1>17. ASSUME NEW r \in Requests, FindOthers(r)
      PROVE  StaysOrIsNew(g)
  <2>1. CASE job[r] \in Loops
    <3>1. pc[r] = "checking" /\ Goes(r, "next") /\ UNCHANGED workVars /\ UNCHANGED <<use, tableVars, blob>>
      BY <1>17, <2>1 DEF FindOthers
    <3> QED
      BY <3>1, <2>1
  <2>2. CASE job[r] \notin Loops
    <3>1. pc[r] = "checking" /\ Ends(r) /\ UNCHANGED <<use, tableVars, blob>>
      BY <1>17, <2>2 DEF FindOthers
    <3> QED
      BY <3>1, <2>2
  <2> QED BY <2>1, <2>2
<1>18. ASSUME NEW r \in Requests, FindNoOthers(r)
      PROVE  StaysOrIsNew(g)
  BY <1>18 DEF FindNoOthers
<1>19. ASSUME NEW r \in Requests, RemoveObject(r)
      PROVE  StaysOrIsNew(g)
  <2>1. /\ pc[r] = "removing"
        /\ blob' = [p \in Paths |-> IF p = target[r] THEN "none" ELSE blob[p]]
        /\ UNCHANGED <<use, tableVars>>
    BY <1>19 DEF RemoveObject
  <2>2. CASE job[r] \in Loops
    <3>1. Goes(r, "next") /\ UNCHANGED workVars
      BY <1>19, <2>2 DEF RemoveObject
    <3> QED
      BY <3>1, <2>1, <2>2
  <2>3. CASE job[r] \notin Loops
    <3>1. Ends(r)
      BY <1>19, <2>3 DEF RemoveObject
    <3> QED
      BY <3>1, <2>1, <2>3
  <2> QED BY <2>2, <2>3
<1>20. ASSUME NEW r \in Requests, RemoveObjectFails(r)
      PROVE  StaysOrIsNew(g)
  <2>1. CASE job[r] \in Loops
    <3>1. pc[r] = "removing" /\ Goes(r, "next") /\ UNCHANGED workVars /\ UNCHANGED <<use, tableVars, blob>>
      BY <1>20, <2>1 DEF RemoveObjectFails
    <3> QED
      BY <3>1, <2>1
  <2>2. CASE job[r] \notin Loops
    <3>1. pc[r] = "removing" /\ Ends(r) /\ UNCHANGED <<use, tableVars, blob>>
      BY <1>20, <2>2 DEF RemoveObjectFails
    <3> QED
      BY <3>1, <2>2
  <2> QED BY <2>1, <2>2
<1>21. ASSUME NEW r \in Requests, DeleteUser(r)
      PROVE  StaysOrIsNew(g)
  BY <1>21 DEF DeleteUser
<1>22. ASSUME NEW r \in Requests, DeleteAllRows(r)
      PROVE  StaysOrIsNew(g)
  BY <1>22 DEF DeleteAllRows
<1>23. ASSUME NEW r \in Requests, SweepObject(r)
      PROVE  StaysOrIsNew(g)
  BY <1>23 DEF SweepObject
<1>24. ASSUME NEW r \in Requests, SweepEnds(r)
      PROVE  StaysOrIsNew(g)
  BY <1>24 DEF SweepEnds
<1>25. ASSUME NEW r \in Requests, RequestFails(r)
      PROVE  StaysOrIsNew(g)
  BY <1>25 DEF RequestFails
<1>26. CASE Restart
  BY <1>26 DEF Restart
<1>27. ASSUME NEW o \in Owners, SaveUser(o)
      PROVE  StaysOrIsNew(g)
  BY <1>27 DEF SaveUser
<1>28. CASE UNCHANGED vars
  BY <1>28 DEF vars
<1> HIDE DEF TypeOK, Paths, Arrives, Goes, Ends, Done, Loops, tableVars,
           workVars, reqVars, StaysOrIsNew
<1> QED BY <1>1, <1>2, <1>3, <1>4, <1>5, <1>6, <1>7, <1>8, <1>9, <1>10, <1>11,
     <1>12, <1>13, <1>14, <1>15, <1>16, <1>17, <1>18, <1>19, <1>20, <1>21,
     <1>22, <1>23, <1>24, <1>25, <1>26, <1>27, <1>28
     DEF Next, UserRequest, AdminRequest, RequestStep

(* A request comes to remove what it has just found unlisted.              *)
LEMMA Removers ==
  ASSUME TypeOK,
         [Next]_vars,
         Steady,
         NEW q \in Requests
  PROVE  RemovesOnAskedFor(q)
<1> USE DEF TypeOK, Paths, Arrives, Goes, Ends, Done, Loops, tableVars,
           workVars, reqVars
<1> USE DEF RemovesOnAskedFor
<1>1. ASSUME NEW r \in Requests, NEW o \in Owners, NEW p \in Contents, LookUpContent(r, o, p)
      PROVE  RemovesOnAskedFor(q)
  BY <1>1 DEF LookUpContent
<1>2. ASSUME NEW r \in Requests, NEW o \in Owners, NEW p \in Objects, PublishObject(r, o, p)
      PROVE  RemovesOnAskedFor(q)
  BY <1>2 DEF PublishObject
<1>3. ASSUME NEW r \in Requests, NEW o \in Owners, NEW f \in Files, LoadForUpdate(r, o, f)
      PROVE  RemovesOnAskedFor(q)
  BY <1>3 DEF LoadForUpdate
<1>4. ASSUME NEW r \in Requests, NEW o \in Owners, NEW f \in Files, DeleteFile(r, o, f)
      PROVE  RemovesOnAskedFor(q)
  BY <1>4 DEF DeleteFile, PathsSeen
<1>5. ASSUME NEW r \in Requests, NEW o \in Owners, DeleteAccount(r, o)
      PROVE  RemovesOnAskedFor(q)
  BY <1>5 DEF DeleteAccount, FilesOf
<1>6. ASSUME NEW r \in Requests, NEW f \in Files, AdminDeleteFile(r, f)
      PROVE  RemovesOnAskedFor(q)
  BY <1>6 DEF AdminDeleteFile
<1>7. ASSUME NEW r \in Requests, NEW o \in Owners, DeleteUserFiles(r, o)
      PROVE  RemovesOnAskedFor(q)
  BY <1>7 DEF DeleteUserFiles, FilesOf
<1>8. ASSUME NEW r \in Requests, DeleteAllFiles(r)
      PROVE  RemovesOnAskedFor(q)
  BY <1>8 DEF DeleteAllFiles
<1>9. ASSUME NEW r \in Requests, CreateObject(r)
      PROVE  RemovesOnAskedFor(q)
  BY <1>9 DEF CreateObject
<1>10. ASSUME NEW r \in Requests, FillObject(r)
      PROVE  RemovesOnAskedFor(q)
  BY <1>10 DEF FillObject, AfterFill
<1>11. ASSUME NEW r \in Requests, CreateRow(r)
      PROVE  RemovesOnAskedFor(q)
  <2>1. Ends(r)
    BY <1>11 DEF CreateRow
  <2> QED
    BY <2>1
<1>12. ASSUME NEW r \in Requests, SaveName(r)
      PROVE  RemovesOnAskedFor(q)
  <2>1. Ends(r)
    BY <1>12 DEF SaveName
  <2> QED
    BY <2>1
<1>13. ASSUME NEW r \in Requests, NextFile(r)
      PROVE  RemovesOnAskedFor(q)
  BY <1>13 DEF NextFile, PathsSeen
<1>14. ASSUME NEW r \in Requests, LoopEnds(r)
      PROVE  RemovesOnAskedFor(q)
  <2>1. CASE job[r] = "DeleteAccount"
    <3>1. pc[r] = "next" /\ todo[r] = {} /\ Goes(r, "leaving") /\ UNCHANGED workVars /\ UNCHANGED <<use, tableVars, blob>>
      BY <1>14, <2>1 DEF LoopEnds
    <3> QED
      BY <3>1, <2>1
  <2>2. CASE job[r] # "DeleteAccount"
    <3>1. pc[r] = "next" /\ Ends(r) /\ UNCHANGED <<use, tableVars, blob>>
      BY <1>14, <2>2 DEF LoopEnds
    <3> QED
      BY <3>1, <2>2
  <2> QED BY <2>1, <2>2
<1>15. ASSUME NEW r \in Requests, DeleteRow(r)
      PROVE  RemovesOnAskedFor(q)
  <2>1. Goes(r, "checking") /\ UNCHANGED workVars
    BY <1>15 DEF DeleteRow
  <2> QED
    BY <2>1
<1>16. ASSUME NEW r \in Requests, DeleteRowFails(r)
      PROVE  RemovesOnAskedFor(q)
  <2>1. CASE job[r] \in {"DeleteFile", "DeleteAccount"}
    <3>1. pc[r] = "deleting" /\ Goes(r, "checking") /\ UNCHANGED workVars /\ UNCHANGED <<use, tableVars, blob>>
      BY <1>16, <2>1 DEF DeleteRowFails
    <3> QED
      BY <3>1, <2>1
  <2>2. CASE job[r] = "DeleteUserFiles"
    <3>1. pc[r] = "deleting" /\ Goes(r, "next") /\ UNCHANGED workVars /\ UNCHANGED <<use, tableVars, blob>>
      BY <1>16, <2>2 DEF DeleteRowFails
    <3> QED
      BY <3>1, <2>2
  <2>3. CASE job[r] \notin {"DeleteFile", "DeleteAccount", "DeleteUserFiles"}
    <3>1. pc[r] = "deleting" /\ Ends(r) /\ UNCHANGED <<use, tableVars, blob>>
      BY <1>16, <2>3 DEF DeleteRowFails
    <3> QED
      BY <3>1, <2>3
  <2> QED BY <2>1, <2>2, <2>3
<1>17. ASSUME NEW r \in Requests, FindOthers(r)
      PROVE  RemovesOnAskedFor(q)
  <2>1. CASE job[r] \in Loops
    <3>1. pc[r] = "checking" /\ Goes(r, "next") /\ UNCHANGED workVars /\ UNCHANGED <<use, tableVars, blob>>
      BY <1>17, <2>1 DEF FindOthers
    <3> QED
      BY <3>1, <2>1
  <2>2. CASE job[r] \notin Loops
    <3>1. pc[r] = "checking" /\ Ends(r) /\ UNCHANGED <<use, tableVars, blob>>
      BY <1>17, <2>2 DEF FindOthers
    <3> QED
      BY <3>1, <2>2
  <2> QED BY <2>1, <2>2
<1>18. ASSUME NEW r \in Requests, FindNoOthers(r)
      PROVE  RemovesOnAskedFor(q)
  <2>1. pc[r] = "checking" /\ Goes(r, "removing") /\ UNCHANGED <<tableVars, workVars>>
    BY <1>18 DEF FindNoOthers
  <2>2. ~Referenced(target[r])
    BY <1>18 DEF FindNoOthers, Steady, LookupFailures
  <2> QED
    BY <2>1, <2>2
<1>19. ASSUME NEW r \in Requests, RemoveObject(r)
      PROVE  RemovesOnAskedFor(q)
  <2>1. /\ pc[r] = "removing"
        /\ blob' = [p \in Paths |-> IF p = target[r] THEN "none" ELSE blob[p]]
        /\ UNCHANGED <<use, tableVars>>
    BY <1>19 DEF RemoveObject
  <2>2. CASE job[r] \in Loops
    <3>1. Goes(r, "next") /\ UNCHANGED workVars
      BY <1>19, <2>2 DEF RemoveObject
    <3> QED
      BY <3>1, <2>1, <2>2
  <2>3. CASE job[r] \notin Loops
    <3>1. Ends(r)
      BY <1>19, <2>3 DEF RemoveObject
    <3> QED
      BY <3>1, <2>1, <2>3
  <2> QED BY <2>2, <2>3
<1>20. ASSUME NEW r \in Requests, RemoveObjectFails(r)
      PROVE  RemovesOnAskedFor(q)
  <2>1. CASE job[r] \in Loops
    <3>1. pc[r] = "removing" /\ Goes(r, "next") /\ UNCHANGED workVars /\ UNCHANGED <<use, tableVars, blob>>
      BY <1>20, <2>1 DEF RemoveObjectFails
    <3> QED
      BY <3>1, <2>1
  <2>2. CASE job[r] \notin Loops
    <3>1. pc[r] = "removing" /\ Ends(r) /\ UNCHANGED <<use, tableVars, blob>>
      BY <1>20, <2>2 DEF RemoveObjectFails
    <3> QED
      BY <3>1, <2>2
  <2> QED BY <2>1, <2>2
<1>21. ASSUME NEW r \in Requests, DeleteUser(r)
      PROVE  RemovesOnAskedFor(q)
  <2>1. Ends(r)
    BY <1>21 DEF DeleteUser
  <2> QED
    BY <2>1
<1>22. ASSUME NEW r \in Requests, DeleteAllRows(r)
      PROVE  RemovesOnAskedFor(q)
  <2>1. Goes(r, "sweeping") /\ UNCHANGED workVars /\ live' = [f \in Files |-> FALSE]
    BY <1>22 DEF DeleteAllRows
  <2> QED
    BY <2>1
<1>23. ASSUME NEW r \in Requests, SweepObject(r)
      PROVE  RemovesOnAskedFor(q)
  BY <1>23 DEF SweepObject
<1>24. ASSUME NEW r \in Requests, SweepEnds(r)
      PROVE  RemovesOnAskedFor(q)
  BY <1>24 DEF SweepEnds
<1>25. ASSUME NEW r \in Requests, RequestFails(r)
      PROVE  RemovesOnAskedFor(q)
  BY <1>25 DEF RequestFails
<1>26. CASE Restart
  BY <1>26 DEF Restart
<1>27. ASSUME NEW o \in Owners, SaveUser(o)
      PROVE  RemovesOnAskedFor(q)
  BY <1>27 DEF SaveUser
<1>28. CASE UNCHANGED vars
  BY <1>28 DEF vars
<1> HIDE DEF TypeOK, Paths, Arrives, Goes, Ends, Done, Loops, tableVars,
           workVars, reqVars, RemovesOnAskedFor
<1> QED BY <1>1, <1>2, <1>3, <1>4, <1>5, <1>6, <1>7, <1>8, <1>9, <1>10, <1>11,
     <1>12, <1>13, <1>14, <1>15, <1>16, <1>17, <1>18, <1>19, <1>20, <1>21,
     <1>22, <1>23, <1>24, <1>25, <1>26, <1>27, <1>28
     DEF Next, UserRequest, AdminRequest, RequestStep

(* So what is about to be removed stays unlisted: a row that comes to be   *)
(* listed was created at a path nobody can have found unlisted before.     *)
LEMMA RemovesStep == IInv /\ [Next]_vars => RemovesUnlisted'
<1> SUFFICES ASSUME IInv, [Next]_vars, Steady PROVE RemovesUnlisted'
  BY UseStays DEF RemovesUnlisted, Steady
<1> DEFINE Unlisted(p) == \A g \in Files : live'[g] => path'[g] # p
<1>1. \A g \in Files : live'[g] => StaysOrIsNew(g)
  BY NewRows DEF IInv
<1>2. \A q \in Requests : RemovesOnAskedFor(q)
  BY Removers DEF IInv
<1>3. ASSUME NEW p, Kept(p), ~Referenced(p), \E g \in Files : path[g] = p
      PROVE  Unlisted(p)
  BY <1>1, <1>3 DEF StaysOrIsNew, Referenced, Refers
<1>4. ASSUME NEW q \in Requests, pc'[q] = "removing", Kept(target'[q])
      PROVE  Unlisted(target'[q])
  <2>1. target'[q] = target[q]
    BY <1>2, <1>4 DEF RemovesOnAskedFor
  <2>2. CASE pc[q] = "removing"
    <3>1. CASE target[q] = None
      <4>1. \A g \in Files : live'[g] => path'[g] # None
        BY TypeStep DEF TypeOK
      <4> QED
        BY <2>1, <3>1, <4>1
    <3>2. CASE target[q] # None
      <4>1. \E g \in Files : path[g] = target[q]
        BY <2>2, <3>2 DEF IInv, InHand, Uploading
      <4>2. ~Referenced(target[q])
        BY <1>4, <2>1, <2>2 DEF IInv, RemovesUnlisted
      <4> QED
        BY <1>3, <1>4, <2>1, <4>1, <4>2
    <3> QED
      BY <3>1, <3>2
  <2>3. CASE ~Referenced(target[q]) /\ UNCHANGED tableVars
    BY <2>1, <2>3 DEF Referenced, Refers, tableVars
  <2> QED
    BY <1>2, <1>4, <2>2, <2>3 DEF RemovesOnAskedFor
<1>5. ASSUME NEW q \in Requests, pc'[q] = "sweeping", NEW p \in sweep'[q], Kept(p)
      PROVE  Unlisted(p)
  <2>1. CASE pc[q] = "sweeping" /\ sweep'[q] \subseteq sweep[q]
    <3>1. ~Referenced(p) /\ \E g \in Files : path[g] = p
      BY <1>5, <2>1 DEF IInv, RemovesUnlisted, InHand
    <3> QED
      BY <1>3, <1>5, <3>1
  <2>2. CASE \A g \in Files : ~live'[g]
    BY <2>2
  <2> QED
    BY <1>2, <1>5, <2>1, <2>2 DEF RemovesOnAskedFor
<1> QED
  BY <1>4, <1>5, UseStays DEF RemovesUnlisted, Referenced, Refers, Kept

(* An object that is kept is spoiled only when no row lists it.            *)
LEMMA ObjectsKept ==
  ASSUME TypeOK,
         [Next]_vars,
         JobsAgree,
         RemovesUnlisted,
         Steady,
         NEW x \in Paths,
         Kept(x),
         Whole(x)
  PROVE  WholeOrUnlisted(x)
<1> USE DEF TypeOK, tableVars, reqVars
<1> USE DEF WholeOrUnlisted, Whole
<1>1. ASSUME NEW r \in Requests, NEW o \in Owners, NEW p \in Contents, LookUpContent(r, o, p)
      PROVE  WholeOrUnlisted(x)
  <2>1. UNCHANGED blob
    BY <1>1 DEF LookUpContent, tableVars
  <2> QED
    BY <2>1
<1>2. ASSUME NEW r \in Requests, NEW o \in Owners, NEW p \in Objects, PublishObject(r, o, p)
      PROVE  WholeOrUnlisted(x)
  <2>1. PICK y \in Objects : blob' = [blob EXCEPT ![y] = "framed"]
    BY <1>2 DEF PublishObject
  <2> QED
    BY <2>1
<1>3. ASSUME NEW r \in Requests, NEW o \in Owners, NEW f \in Files, LoadForUpdate(r, o, f)
      PROVE  WholeOrUnlisted(x)
  BY <1>3 DEF LoadForUpdate
<1>4. ASSUME NEW r \in Requests, NEW o \in Owners, NEW f \in Files, DeleteFile(r, o, f)
      PROVE  WholeOrUnlisted(x)
  BY <1>4 DEF DeleteFile
<1>5. ASSUME NEW r \in Requests, NEW o \in Owners, DeleteAccount(r, o)
      PROVE  WholeOrUnlisted(x)
  BY <1>5 DEF DeleteAccount
<1>6. ASSUME NEW r \in Requests, NEW f \in Files, AdminDeleteFile(r, f)
      PROVE  WholeOrUnlisted(x)
  BY <1>6 DEF AdminDeleteFile
<1>7. ASSUME NEW r \in Requests, NEW o \in Owners, DeleteUserFiles(r, o)
      PROVE  WholeOrUnlisted(x)
  BY <1>7 DEF DeleteUserFiles
<1>8. ASSUME NEW r \in Requests, DeleteAllFiles(r)
      PROVE  WholeOrUnlisted(x)
  BY <1>8 DEF DeleteAllFiles
<1>9. ASSUME NEW r \in Requests, CreateObject(r)
      PROVE  WholeOrUnlisted(x)
  <2>1. pc[r] \in {"saving", "writing"} /\ \A y \in Paths : y # target[r] => blob'[y] = blob[y]
    BY <1>9 DEF CreateObject
  <2>2. target[r] \in Contents /\ "UploadFile" \in use
    BY <2>1 DEF JobsAgree, Uploading
  <2>3. x # target[r]
    BY <2>2, FilesAssumption DEF Kept
  <2> QED
    BY <2>1, <2>3
<1>10. ASSUME NEW r \in Requests, FillObject(r)
      PROVE  WholeOrUnlisted(x)
  <2>1. pc[r] \in {"saving", "writing"} /\ \A y \in Paths : y # target[r] => blob'[y] = blob[y]
    BY <1>10 DEF FillObject
  <2>2. target[r] \in Contents /\ "UploadFile" \in use
    BY <2>1 DEF JobsAgree, Uploading
  <2>3. x # target[r]
    BY <2>2, FilesAssumption DEF Kept
  <2> QED
    BY <2>1, <2>3
<1>11. ASSUME NEW r \in Requests, CreateRow(r)
      PROVE  WholeOrUnlisted(x)
  BY <1>11 DEF CreateRow
<1>12. ASSUME NEW r \in Requests, SaveName(r)
      PROVE  WholeOrUnlisted(x)
  BY <1>12 DEF SaveName
<1>13. ASSUME NEW r \in Requests, NextFile(r)
      PROVE  WholeOrUnlisted(x)
  BY <1>13 DEF NextFile
<1>14. ASSUME NEW r \in Requests, LoopEnds(r)
      PROVE  WholeOrUnlisted(x)
  BY <1>14 DEF LoopEnds
<1>15. ASSUME NEW r \in Requests, DeleteRow(r)
      PROVE  WholeOrUnlisted(x)
  BY <1>15 DEF DeleteRow
<1>16. ASSUME NEW r \in Requests, DeleteRowFails(r)
      PROVE  WholeOrUnlisted(x)
  BY <1>16 DEF DeleteRowFails
<1>17. ASSUME NEW r \in Requests, FindOthers(r)
      PROVE  WholeOrUnlisted(x)
  BY <1>17 DEF FindOthers
<1>18. ASSUME NEW r \in Requests, FindNoOthers(r)
      PROVE  WholeOrUnlisted(x)
  BY <1>18 DEF FindNoOthers
<1>19. ASSUME NEW r \in Requests, RemoveObject(r)
      PROVE  WholeOrUnlisted(x)
  <2>1. pc[r] = "removing" /\ UNCHANGED <<live, path>>
    BY <1>19 DEF RemoveObject
  <2>2. blob' = [q \in Paths |-> IF q = target[r] THEN "none" ELSE blob[q]]
    BY <1>19 DEF RemoveObject
  <2>3. CASE x = target[r]
    BY <2>1, <2>3 DEF RemovesUnlisted
  <2>4. CASE x # target[r]
    BY <2>2, <2>4
  <2> QED
    BY <2>3, <2>4
<1>20. ASSUME NEW r \in Requests, RemoveObjectFails(r)
      PROVE  WholeOrUnlisted(x)
  BY <1>20 DEF RemoveObjectFails
<1>21. ASSUME NEW r \in Requests, DeleteUser(r)
      PROVE  WholeOrUnlisted(x)
  BY <1>21 DEF DeleteUser
<1>22. ASSUME NEW r \in Requests, DeleteAllRows(r)
      PROVE  WholeOrUnlisted(x)
  BY <1>22 DEF DeleteAllRows
<1>23. ASSUME NEW r \in Requests, SweepObject(r)
      PROVE  WholeOrUnlisted(x)
  <2>1. PICK q \in sweep[r] :
          blob' = [blob EXCEPT ![q] = "none"] \/ UNCHANGED blob
    BY <1>23 DEF SweepObject
  <2>2. pc[r] = "sweeping" /\ UNCHANGED <<live, path>>
    BY <1>23 DEF SweepObject
  <2>3. CASE x = q
    BY <2>2, <2>3 DEF RemovesUnlisted
  <2>4. CASE x # q
    BY <2>1, <2>4
  <2> QED
    BY <2>3, <2>4
<1>24. ASSUME NEW r \in Requests, SweepEnds(r)
      PROVE  WholeOrUnlisted(x)
  BY <1>24 DEF SweepEnds
<1>25. ASSUME NEW r \in Requests, RequestFails(r)
      PROVE  WholeOrUnlisted(x)
  BY <1>25 DEF RequestFails
<1>26. CASE Restart
  BY <1>26 DEF Restart
<1>27. ASSUME NEW o \in Owners, SaveUser(o)
      PROVE  WholeOrUnlisted(x)
  BY <1>27 DEF SaveUser
<1>28. CASE UNCHANGED vars
  BY <1>28 DEF vars
<1> HIDE DEF TypeOK, tableVars, reqVars, WholeOrUnlisted, Whole
<1> QED BY <1>1, <1>2, <1>3, <1>4, <1>5, <1>6, <1>7, <1>8, <1>9, <1>10, <1>11,
     <1>12, <1>13, <1>14, <1>15, <1>16, <1>17, <1>18, <1>19, <1>20, <1>21,
     <1>22, <1>23, <1>24, <1>25, <1>26, <1>27, <1>28
     DEF Next, UserRequest, AdminRequest, RequestStep

(* What a row lists is whole: it was when the row was created, and what is *)
(* spoiled since is no row's.                                              *)
LEMMA RowStep == IInv /\ [Next]_vars => ListedIsWhole'
<1> SUFFICES ASSUME IInv, [Next]_vars, Steady PROVE ListedIsWhole'
  BY UseStays DEF ListedIsWhole, Steady
<1>1. ASSUME NEW g \in Files, live'[g], Kept(path'[g])
      PROVE  blob'[path'[g]] \in {"framed", "whole"}
  <2>1. StaysOrIsNew(g)
    BY <1>1, NewRows DEF IInv
  <2>2. CASE live[g] /\ path'[g] = path[g]
    <3>1. path[g] \in Paths /\ Referenced(path[g])
      BY <2>2 DEF IInv, TypeOK, Referenced, Refers
    <3>2. Whole(path[g])
      BY <1>1, <2>2 DEF IInv, ListedIsWhole
    <3>3. WholeOrUnlisted(path[g])
      BY <1>1, <2>2, <3>1, <3>2, ObjectsKept DEF IInv
    <3> QED
      BY <2>2, <3>1, <3>3 DEF WholeOrUnlisted
  <2>3. CASE ~(live[g] /\ path'[g] = path[g])
    BY <1>1, <2>1, <2>3 DEF StaysOrIsNew, Whole
  <2> QED
    BY <2>2, <2>3
<1> QED
  BY <1>1, UseStays DEF ListedIsWhole, Kept, Whole

(* An owner's delete has no path in hand only while its row is not one it  *)
(* would delete: no such row is brought back.                              *)
LEMMA FoundNothing ==
  ASSUME TypeOK,
         [Next]_vars,
         JobsAgree,
         InHand,
         NothingMissed,
         Undisturbed,
         NEW q \in Requests,
         pc'[q] = "deleting",
         target'[q] = None
  PROVE  ~live'[file'[q]] \/ owner'[file'[q]] # user'[q]
<1> USE DEF TypeOK, Paths, Arrives, Goes, Ends, Done, Loops, tableVars,
           workVars, reqVars
<1>1. ASSUME NEW r \in Requests, NEW o \in Owners, NEW p \in Contents, LookUpContent(r, o, p)
      PROVE  ~live'[file'[q]] \/ owner'[file'[q]] # user'[q]
  BY <1>1 DEF LookUpContent, NothingMissed
<1>2. ASSUME NEW r \in Requests, NEW o \in Owners, NEW p \in Objects, PublishObject(r, o, p)
      PROVE  ~live'[file'[q]] \/ owner'[file'[q]] # user'[q]
  BY <1>2 DEF PublishObject, NothingMissed
<1>3. ASSUME NEW r \in Requests, NEW o \in Owners, NEW f \in Files, LoadForUpdate(r, o, f)
      PROVE  ~live'[file'[q]] \/ owner'[file'[q]] # user'[q]
  BY <1>3 DEF LoadForUpdate, NothingMissed
<1>4. ASSUME NEW r \in Requests, NEW o \in Owners, NEW f \in Files, DeleteFile(r, o, f)
      PROVE  ~live'[file'[q]] \/ owner'[file'[q]] # user'[q]
  <2>1. /\ pc' = [pc EXCEPT ![r] = "deleting"]
        /\ user' = [user EXCEPT ![r] = o]
        /\ file' = [file EXCEPT ![r] = f]
        /\ UNCHANGED <<live, path, owner>>
    BY <1>4 DEF DeleteFile
  <2>2. PICK p \in PathsSeen(f, o) : target' = [target EXCEPT ![r] = p]
    BY <1>4 DEF DeleteFile
  <2>3. CASE q = r
    <3>1. p = None
      BY <2>2, <2>3
    <3>2. path[f] # None
      BY <1>4 DEF DeleteFile
    <3>3. ~live[f] \/ owner[f] # o
      BY <2>2, <3>1, <3>2 DEF PathsSeen, Undisturbed, LookupFailures
    <3> QED
      BY <2>1, <2>3, <3>3
  <2>4. CASE q # r
    BY <2>1, <2>2, <2>4 DEF NothingMissed
  <2> QED
    BY <2>3, <2>4
<1>5. ASSUME NEW r \in Requests, NEW o \in Owners, DeleteAccount(r, o)
      PROVE  ~live'[file'[q]] \/ owner'[file'[q]] # user'[q]
  BY <1>5 DEF DeleteAccount, NothingMissed
<1>6. ASSUME NEW r \in Requests, NEW f \in Files, AdminDeleteFile(r, f)
      PROVE  ~live'[file'[q]] \/ owner'[file'[q]] # user'[q]
  <2>1. target' = [target EXCEPT ![r] = path[f]] /\ live[f]
    BY <1>6 DEF AdminDeleteFile
  <2>2. q # r
    BY <2>1
  <2> QED
    BY <1>6, <2>2 DEF AdminDeleteFile, NothingMissed
<1>7. ASSUME NEW r \in Requests, NEW o \in Owners, DeleteUserFiles(r, o)
      PROVE  ~live'[file'[q]] \/ owner'[file'[q]] # user'[q]
  BY <1>7 DEF DeleteUserFiles, NothingMissed
<1>8. ASSUME NEW r \in Requests, DeleteAllFiles(r)
      PROVE  ~live'[file'[q]] \/ owner'[file'[q]] # user'[q]
  BY <1>8 DEF DeleteAllFiles, NothingMissed
<1>9. ASSUME NEW r \in Requests, CreateObject(r)
      PROVE  ~live'[file'[q]] \/ owner'[file'[q]] # user'[q]
  BY <1>9 DEF CreateObject, NothingMissed
<1>10. ASSUME NEW r \in Requests, FillObject(r)
      PROVE  ~live'[file'[q]] \/ owner'[file'[q]] # user'[q]
  BY <1>10 DEF FillObject, NothingMissed
<1>11. ASSUME NEW r \in Requests, CreateRow(r)
      PROVE  ~live'[file'[q]] \/ owner'[file'[q]] # user'[q]
  <2>1. PICK f \in Files : /\ path[f] = None
                           /\ owner' = [owner EXCEPT ![f] = user[r]]
                           /\ live' = [live EXCEPT ![f] = TRUE]
    BY <1>11 DEF CreateRow
  <2>2. Ends(r)
    BY <1>11 DEF CreateRow
  <2>3. q # r /\ pc[q] = "deleting" /\ target[q] = None
    BY <2>2
  <2>4. file[q] \in Files /\ file[q] # f
    BY <2>1, <2>3 DEF InHand, Deleting
  <2> QED
    BY <2>1, <2>2, <2>3, <2>4 DEF NothingMissed
<1>12. ASSUME NEW r \in Requests, SaveName(r)
      PROVE  ~live'[file'[q]] \/ owner'[file'[q]] # user'[q]
  <2>1. pc[r] = "renaming" /\ Ends(r) /\ UNCHANGED owner
    BY <1>12 DEF SaveName
  <2>2. q # r /\ pc[q] = "deleting" /\ target[q] = None
    BY <2>1
  <2>3. "UpdateFile" \in use
    BY <2>1 DEF JobsAgree
  <2>4. job[q] \in OwnersDelete /\ job[q] \in use
    BY <2>2 DEF JobsAgree, InHand, Deleting
  <2>5. job[q] = "DeleteFile" \/ job[q] = "DeleteAccount"
    BY <2>4 DEF OwnersDelete
  <2>6. "DeleteFile" \notin use /\ "DeleteAccount" \notin use
    BY <2>3 DEF Undisturbed
  <2> QED
    BY <2>4, <2>5, <2>6
<1>13. ASSUME NEW r \in Requests, NextFile(r)
      PROVE  ~live'[file'[q]] \/ owner'[file'[q]] # user'[q]
  <2>1. PICK f \in todo[r] :
          /\ file' = [file EXCEPT ![r] = f]
          /\ \E p \in IF job[r] = "DeleteAccount" THEN PathsSeen(f, user[r]) ELSE {path[f]} :
               target' = [target EXCEPT ![r] = p]
    BY <1>13 DEF NextFile
  <2>2. /\ pc[r] = "next"
        /\ pc' = [pc EXCEPT ![r] = "deleting"]
        /\ UNCHANGED <<live, path, owner, user>>
    BY <1>13 DEF NextFile
  <2>3. CASE q = r
    <3>1. path[f] # None
      BY DEF InHand
    <3>2. PICK p \in PathsSeen(f, user[r]) \union {path[f]} : target' = [target EXCEPT ![r] = p]
      BY <2>1 DEF PathsSeen
    <3>3. p = None
      BY <2>3, <3>2
    <3>4. ~live[f] \/ owner[f] # user[r]
      BY <3>1, <3>2, <3>3 DEF PathsSeen, Undisturbed, LookupFailures
    <3> QED
      BY <2>1, <2>2, <2>3, <3>4
  <2>4. CASE q # r
    BY <2>1, <2>2, <2>4 DEF NothingMissed
  <2> QED
    BY <2>3, <2>4
<1>14. ASSUME NEW r \in Requests, LoopEnds(r)
      PROVE  ~live'[file'[q]] \/ owner'[file'[q]] # user'[q]
  <2>1. CASE job[r] = "DeleteAccount"
    <3>1. pc[r] = "next" /\ todo[r] = {} /\ Goes(r, "leaving") /\ UNCHANGED workVars /\ UNCHANGED <<use, tableVars, blob>>
      BY <1>14, <2>1 DEF LoopEnds
    <3> QED
      BY <3>1, <2>1 DEF NothingMissed
  <2>2. CASE job[r] # "DeleteAccount"
    <3>1. pc[r] = "next" /\ Ends(r) /\ UNCHANGED <<use, tableVars, blob>>
      BY <1>14, <2>2 DEF LoopEnds
    <3> QED
      BY <3>1, <2>2 DEF NothingMissed
  <2> QED BY <2>1, <2>2
<1>15. ASSUME NEW r \in Requests, DeleteRow(r)
      PROVE  ~live'[file'[q]] \/ owner'[file'[q]] # user'[q]
  <2>1. /\ Goes(r, "checking")
        /\ \A f \in Files : live'[f] => live[f]
        /\ UNCHANGED <<path, owner, workVars>>
    BY <1>15 DEF DeleteRow
  <2>2. q # r /\ pc[q] = "deleting" /\ target[q] = None
    BY <2>1
  <2>3. file[q] \in Files
    BY <2>2 DEF InHand, Deleting
  <2> QED
    BY <2>1, <2>2, <2>3 DEF NothingMissed
<1>16. ASSUME NEW r \in Requests, DeleteRowFails(r)
      PROVE  ~live'[file'[q]] \/ owner'[file'[q]] # user'[q]
  <2>1. CASE job[r] \in {"DeleteFile", "DeleteAccount"}
    <3>1. pc[r] = "deleting" /\ Goes(r, "checking") /\ UNCHANGED workVars /\ UNCHANGED <<use, tableVars, blob>>
      BY <1>16, <2>1 DEF DeleteRowFails
    <3> QED
      BY <3>1, <2>1 DEF NothingMissed
  <2>2. CASE job[r] = "DeleteUserFiles"
    <3>1. pc[r] = "deleting" /\ Goes(r, "next") /\ UNCHANGED workVars /\ UNCHANGED <<use, tableVars, blob>>
      BY <1>16, <2>2 DEF DeleteRowFails
    <3> QED
      BY <3>1, <2>2 DEF NothingMissed
  <2>3. CASE job[r] \notin {"DeleteFile", "DeleteAccount", "DeleteUserFiles"}
    <3>1. pc[r] = "deleting" /\ Ends(r) /\ UNCHANGED <<use, tableVars, blob>>
      BY <1>16, <2>3 DEF DeleteRowFails
    <3> QED
      BY <3>1, <2>3 DEF NothingMissed
  <2> QED BY <2>1, <2>2, <2>3
<1>17. ASSUME NEW r \in Requests, FindOthers(r)
      PROVE  ~live'[file'[q]] \/ owner'[file'[q]] # user'[q]
  <2>1. CASE job[r] \in Loops
    <3>1. pc[r] = "checking" /\ Goes(r, "next") /\ UNCHANGED workVars /\ UNCHANGED <<use, tableVars, blob>>
      BY <1>17, <2>1 DEF FindOthers
    <3> QED
      BY <3>1, <2>1 DEF NothingMissed
  <2>2. CASE job[r] \notin Loops
    <3>1. pc[r] = "checking" /\ Ends(r) /\ UNCHANGED <<use, tableVars, blob>>
      BY <1>17, <2>2 DEF FindOthers
    <3> QED
      BY <3>1, <2>2 DEF NothingMissed
  <2> QED BY <2>1, <2>2
<1>18. ASSUME NEW r \in Requests, FindNoOthers(r)
      PROVE  ~live'[file'[q]] \/ owner'[file'[q]] # user'[q]
  BY <1>18 DEF FindNoOthers, NothingMissed
<1>19. ASSUME NEW r \in Requests, RemoveObject(r)
      PROVE  ~live'[file'[q]] \/ owner'[file'[q]] # user'[q]
  <2>1. /\ pc[r] = "removing"
        /\ blob' = [p \in Paths |-> IF p = target[r] THEN "none" ELSE blob[p]]
        /\ UNCHANGED <<use, tableVars>>
    BY <1>19 DEF RemoveObject
  <2>2. CASE job[r] \in Loops
    <3>1. Goes(r, "next") /\ UNCHANGED workVars
      BY <1>19, <2>2 DEF RemoveObject
    <3> QED
      BY <3>1, <2>1, <2>2 DEF NothingMissed
  <2>3. CASE job[r] \notin Loops
    <3>1. Ends(r)
      BY <1>19, <2>3 DEF RemoveObject
    <3> QED
      BY <3>1, <2>1, <2>3 DEF NothingMissed
  <2> QED BY <2>2, <2>3
<1>20. ASSUME NEW r \in Requests, RemoveObjectFails(r)
      PROVE  ~live'[file'[q]] \/ owner'[file'[q]] # user'[q]
  <2>1. CASE job[r] \in Loops
    <3>1. pc[r] = "removing" /\ Goes(r, "next") /\ UNCHANGED workVars /\ UNCHANGED <<use, tableVars, blob>>
      BY <1>20, <2>1 DEF RemoveObjectFails
    <3> QED
      BY <3>1, <2>1 DEF NothingMissed
  <2>2. CASE job[r] \notin Loops
    <3>1. pc[r] = "removing" /\ Ends(r) /\ UNCHANGED <<use, tableVars, blob>>
      BY <1>20, <2>2 DEF RemoveObjectFails
    <3> QED
      BY <3>1, <2>2 DEF NothingMissed
  <2> QED BY <2>1, <2>2
<1>21. ASSUME NEW r \in Requests, DeleteUser(r)
      PROVE  ~live'[file'[q]] \/ owner'[file'[q]] # user'[q]
  <2>1. Ends(r) /\ UNCHANGED <<live, owner>>
    BY <1>21 DEF DeleteUser
  <2> QED
    BY <2>1 DEF NothingMissed
<1>22. ASSUME NEW r \in Requests, DeleteAllRows(r)
      PROVE  ~live'[file'[q]] \/ owner'[file'[q]] # user'[q]
  <2>1. /\ Goes(r, "sweeping")
        /\ \A f \in Files : ~live'[f]
        /\ UNCHANGED workVars
    BY <1>22 DEF DeleteAllRows
  <2>2. q # r /\ pc[q] = "deleting" /\ target[q] = None
    BY <2>1
  <2>3. file[q] \in Files
    BY <2>2 DEF InHand, Deleting
  <2> QED
    BY <2>1, <2>3
<1>23. ASSUME NEW r \in Requests, SweepObject(r)
      PROVE  ~live'[file'[q]] \/ owner'[file'[q]] # user'[q]
  BY <1>23 DEF SweepObject, NothingMissed
<1>24. ASSUME NEW r \in Requests, SweepEnds(r)
      PROVE  ~live'[file'[q]] \/ owner'[file'[q]] # user'[q]
  BY <1>24 DEF SweepEnds, NothingMissed
<1>25. ASSUME NEW r \in Requests, RequestFails(r)
      PROVE  ~live'[file'[q]] \/ owner'[file'[q]] # user'[q]
  BY <1>25 DEF RequestFails, NothingMissed
<1>26. CASE Restart
  BY <1>26 DEF Restart, NothingMissed
<1>27. ASSUME NEW o \in Owners, SaveUser(o)
      PROVE  ~live'[file'[q]] \/ owner'[file'[q]] # user'[q]
  BY <1>27 DEF SaveUser, NothingMissed
<1>28. CASE UNCHANGED vars
  BY <1>28 DEF vars, NothingMissed
<1> HIDE DEF TypeOK, Paths, Arrives, Goes, Ends, Done, Loops, tableVars,
           workVars, reqVars
<1> QED BY <1>1, <1>2, <1>3, <1>4, <1>5, <1>6, <1>7, <1>8, <1>9, <1>10, <1>11,
     <1>12, <1>13, <1>14, <1>15, <1>16, <1>17, <1>18, <1>19, <1>20, <1>21,
     <1>22, <1>23, <1>24, <1>25, <1>26, <1>27, <1>28
     DEF Next, UserRequest, AdminRequest, RequestStep

(* Every step keeps what a check that found nothing has to say.            *)
LEMMA MissedStep == IInv /\ [Next]_vars => NothingMissed'
BY FoundNothing, UseStays DEF IInv, NothingMissed, Undisturbed

(* An object comes to be only in the hand of the request that writes or    *)
(* publishes it.                                                           *)
LEMMA ObjectsComeFromRequests ==
  ASSUME TypeOK,
         [Next]_vars,
         NEW x \in Paths
  PROVE  ObjectFromRequest(x)
<1> USE DEF TypeOK, Arrives, Goes, Paths, workVars
<1> USE DEF ObjectFromRequest, Tends
<1>1. ASSUME NEW r \in Requests, NEW o \in Owners, NEW p \in Contents, LookUpContent(r, o, p)
      PROVE  ObjectFromRequest(x)
  <2>1. UNCHANGED blob
    BY <1>1 DEF LookUpContent, tableVars
  <2> QED
    BY <2>1
<1>2. ASSUME NEW r \in Requests, NEW o \in Owners, NEW p \in Objects, PublishObject(r, o, p)
      PROVE  ObjectFromRequest(x)
  <2>1. /\ pc' = [pc EXCEPT ![r] = "creating"]
        /\ target' = [target EXCEPT ![r] = p]
        /\ blob' = [blob EXCEPT ![p] = "framed"]
    BY <1>2 DEF PublishObject
  <2>2. CASE x = p
    BY <2>1, <2>2
  <2>3. CASE x # p
    BY <2>1, <2>3
  <2> QED
    BY <2>2, <2>3
<1>3. ASSUME NEW r \in Requests, NEW o \in Owners, NEW f \in Files, LoadForUpdate(r, o, f)
      PROVE  ObjectFromRequest(x)
  <2>1. UNCHANGED blob
    BY <1>3 DEF LoadForUpdate, tableVars
  <2> QED
    BY <2>1
<1>4. ASSUME NEW r \in Requests, NEW o \in Owners, NEW f \in Files, DeleteFile(r, o, f)
      PROVE  ObjectFromRequest(x)
  <2>1. UNCHANGED blob
    BY <1>4 DEF DeleteFile, tableVars
  <2> QED
    BY <2>1
<1>5. ASSUME NEW r \in Requests, NEW o \in Owners, DeleteAccount(r, o)
      PROVE  ObjectFromRequest(x)
  <2>1. UNCHANGED blob
    BY <1>5 DEF DeleteAccount, tableVars
  <2> QED
    BY <2>1
<1>6. ASSUME NEW r \in Requests, NEW f \in Files, AdminDeleteFile(r, f)
      PROVE  ObjectFromRequest(x)
  <2>1. UNCHANGED blob
    BY <1>6 DEF AdminDeleteFile, tableVars
  <2> QED
    BY <2>1
<1>7. ASSUME NEW r \in Requests, NEW o \in Owners, DeleteUserFiles(r, o)
      PROVE  ObjectFromRequest(x)
  <2>1. UNCHANGED blob
    BY <1>7 DEF DeleteUserFiles, tableVars
  <2> QED
    BY <2>1
<1>8. ASSUME NEW r \in Requests, DeleteAllFiles(r)
      PROVE  ObjectFromRequest(x)
  <2>1. UNCHANGED blob
    BY <1>8 DEF DeleteAllFiles, tableVars
  <2> QED
    BY <2>1
<1>9. ASSUME NEW r \in Requests, CreateObject(r)
      PROVE  ObjectFromRequest(x)
  <2>1. pc[r] = "saving" /\ Goes(r, "writing") /\ UNCHANGED workVars
    BY <1>9 DEF CreateObject
  <2>2. \A y \in Paths : y # target[r] => blob'[y] = blob[y]
    BY <1>9 DEF CreateObject
  <2>3. pc'[r] = "writing" /\ target'[r] = target[r]
    BY <2>1
  <2>4. CASE x = target[r]
    BY <2>3, <2>4
  <2>5. CASE x # target[r]
    BY <2>2, <2>5
  <2> QED
    BY <2>4, <2>5
<1>10. ASSUME NEW r \in Requests, FillObject(r)
      PROVE  ObjectFromRequest(x)
  <2>1. PICK format \in AfterFill(r) : blob' = [blob EXCEPT ![target[r]] = format]
    BY <1>10 DEF FillObject
  <2>2. CASE x = target[r] /\ blob[x] = "none"
    BY <2>1, <2>2 DEF AfterFill
  <2>3. CASE x # target[r] \/ blob[x] # "none"
    BY <2>1, <2>3
  <2> QED
    BY <2>2, <2>3
<1>11. ASSUME NEW r \in Requests, CreateRow(r)
      PROVE  ObjectFromRequest(x)
  <2>1. UNCHANGED blob
    BY <1>11 DEF CreateRow, tableVars
  <2> QED
    BY <2>1
<1>12. ASSUME NEW r \in Requests, SaveName(r)
      PROVE  ObjectFromRequest(x)
  <2>1. UNCHANGED blob
    BY <1>12 DEF SaveName, tableVars
  <2> QED
    BY <2>1
<1>13. ASSUME NEW r \in Requests, NextFile(r)
      PROVE  ObjectFromRequest(x)
  <2>1. UNCHANGED blob
    BY <1>13 DEF NextFile, tableVars
  <2> QED
    BY <2>1
<1>14. ASSUME NEW r \in Requests, LoopEnds(r)
      PROVE  ObjectFromRequest(x)
  <2>1. UNCHANGED blob
    BY <1>14 DEF LoopEnds, tableVars
  <2> QED
    BY <2>1
<1>15. ASSUME NEW r \in Requests, DeleteRow(r)
      PROVE  ObjectFromRequest(x)
  <2>1. UNCHANGED blob
    BY <1>15 DEF DeleteRow, tableVars
  <2> QED
    BY <2>1
<1>16. ASSUME NEW r \in Requests, DeleteRowFails(r)
      PROVE  ObjectFromRequest(x)
  <2>1. UNCHANGED blob
    BY <1>16 DEF DeleteRowFails, tableVars
  <2> QED
    BY <2>1
<1>17. ASSUME NEW r \in Requests, FindOthers(r)
      PROVE  ObjectFromRequest(x)
  <2>1. UNCHANGED blob
    BY <1>17 DEF FindOthers, tableVars
  <2> QED
    BY <2>1
<1>18. ASSUME NEW r \in Requests, FindNoOthers(r)
      PROVE  ObjectFromRequest(x)
  <2>1. UNCHANGED blob
    BY <1>18 DEF FindNoOthers, tableVars
  <2> QED
    BY <2>1
<1>19. ASSUME NEW r \in Requests, RemoveObject(r)
      PROVE  ObjectFromRequest(x)
  <2>1. blob' = [y \in Paths |-> IF y = target[r] THEN "none" ELSE blob[y]]
    BY <1>19 DEF RemoveObject
  <2> QED
    BY <2>1
<1>20. ASSUME NEW r \in Requests, RemoveObjectFails(r)
      PROVE  ObjectFromRequest(x)
  <2>1. UNCHANGED blob
    BY <1>20 DEF RemoveObjectFails, tableVars
  <2> QED
    BY <2>1
<1>21. ASSUME NEW r \in Requests, DeleteUser(r)
      PROVE  ObjectFromRequest(x)
  <2>1. UNCHANGED blob
    BY <1>21 DEF DeleteUser, tableVars
  <2> QED
    BY <2>1
<1>22. ASSUME NEW r \in Requests, DeleteAllRows(r)
      PROVE  ObjectFromRequest(x)
  <2>1. UNCHANGED blob
    BY <1>22 DEF DeleteAllRows, tableVars
  <2> QED
    BY <2>1
<1>23. ASSUME NEW r \in Requests, SweepObject(r)
      PROVE  ObjectFromRequest(x)
  <2>1. PICK y \in sweep[r] : blob' = [blob EXCEPT ![y] = "none"] \/ UNCHANGED blob
    BY <1>23 DEF SweepObject
  <2> QED
    BY <2>1
<1>24. ASSUME NEW r \in Requests, SweepEnds(r)
      PROVE  ObjectFromRequest(x)
  <2>1. UNCHANGED blob
    BY <1>24 DEF SweepEnds, tableVars
  <2> QED
    BY <2>1
<1>25. ASSUME NEW r \in Requests, RequestFails(r)
      PROVE  ObjectFromRequest(x)
  <2>1. UNCHANGED blob
    BY <1>25 DEF RequestFails, tableVars
  <2> QED
    BY <2>1
<1>26. CASE Restart
  <2>1. UNCHANGED blob
    BY <1>26 DEF Restart, tableVars
  <2> QED
    BY <2>1
<1>27. ASSUME NEW o \in Owners, SaveUser(o)
      PROVE  ObjectFromRequest(x)
  <2>1. UNCHANGED blob
    BY <1>27 DEF SaveUser
  <2> QED
    BY <2>1
<1>28. CASE UNCHANGED vars
  <2>1. UNCHANGED blob
    BY <1>28 DEF vars
  <2> QED
    BY <2>1
<1> HIDE DEF TypeOK, Arrives, Goes, Paths, workVars, ObjectFromRequest, Tends
<1> QED BY <1>1, <1>2, <1>3, <1>4, <1>5, <1>6, <1>7, <1>8, <1>9, <1>10, <1>11,
     <1>12, <1>13, <1>14, <1>15, <1>16, <1>17, <1>18, <1>19, <1>20, <1>21,
     <1>22, <1>23, <1>24, <1>25, <1>26, <1>27, <1>28
     DEF Next, UserRequest, AdminRequest, RequestStep

(* A row goes only at the hand of a delete that has its path, and asks for *)
(* other rows next.                                                        *)
LEMMA RowsLetGo ==
  ASSUME TypeOK,
         JobsAgree,
         InHand,
         NothingMissed,
         Undisturbed,
         [Next]_vars,
         NEW x \in Paths
  PROVE  RowLetGo(x)
<1> USE DEF TypeOK, Arrives, Goes, Paths, workVars
<1> USE DEF RowLetGo
<1> USE DEF Tends, Referenced, Refers
<1>1. ASSUME NEW r \in Requests, NEW o \in Owners, NEW p \in Contents, LookUpContent(r, o, p)
      PROVE  RowLetGo(x)
  <2>1. UNCHANGED <<live, path>>
    BY <1>1 DEF LookUpContent, tableVars
  <2> QED
    BY <2>1
<1>2. ASSUME NEW r \in Requests, NEW o \in Owners, NEW p \in Objects, PublishObject(r, o, p)
      PROVE  RowLetGo(x)
  <2>1. UNCHANGED <<live, path>>
    BY <1>2 DEF PublishObject, tableVars
  <2> QED
    BY <2>1
<1>3. ASSUME NEW r \in Requests, NEW o \in Owners, NEW f \in Files, LoadForUpdate(r, o, f)
      PROVE  RowLetGo(x)
  <2>1. UNCHANGED <<live, path>>
    BY <1>3 DEF LoadForUpdate, tableVars
  <2> QED
    BY <2>1
<1>4. ASSUME NEW r \in Requests, NEW o \in Owners, NEW f \in Files, DeleteFile(r, o, f)
      PROVE  RowLetGo(x)
  <2>1. UNCHANGED <<live, path>>
    BY <1>4 DEF DeleteFile, tableVars
  <2> QED
    BY <2>1
<1>5. ASSUME NEW r \in Requests, NEW o \in Owners, DeleteAccount(r, o)
      PROVE  RowLetGo(x)
  <2>1. UNCHANGED <<live, path>>
    BY <1>5 DEF DeleteAccount, tableVars
  <2> QED
    BY <2>1
<1>6. ASSUME NEW r \in Requests, NEW f \in Files, AdminDeleteFile(r, f)
      PROVE  RowLetGo(x)
  <2>1. UNCHANGED <<live, path>>
    BY <1>6 DEF AdminDeleteFile, tableVars
  <2> QED
    BY <2>1
<1>7. ASSUME NEW r \in Requests, NEW o \in Owners, DeleteUserFiles(r, o)
      PROVE  RowLetGo(x)
  <2>1. UNCHANGED <<live, path>>
    BY <1>7 DEF DeleteUserFiles, tableVars
  <2> QED
    BY <2>1
<1>8. ASSUME NEW r \in Requests, DeleteAllFiles(r)
      PROVE  RowLetGo(x)
  <2>1. UNCHANGED <<live, path>>
    BY <1>8 DEF DeleteAllFiles, tableVars
  <2> QED
    BY <2>1
<1>9. ASSUME NEW r \in Requests, CreateObject(r)
      PROVE  RowLetGo(x)
  <2>1. UNCHANGED <<live, path>>
    BY <1>9 DEF CreateObject, tableVars
  <2> QED
    BY <2>1
<1>10. ASSUME NEW r \in Requests, FillObject(r)
      PROVE  RowLetGo(x)
  <2>1. UNCHANGED <<live, path>>
    BY <1>10 DEF FillObject, tableVars
  <2> QED
    BY <2>1
<1>11. ASSUME NEW r \in Requests, CreateRow(r)
      PROVE  RowLetGo(x)
  <2>1. PICK f \in Files : /\ path[f] = None
                           /\ path' = [path EXCEPT ![f] = target[r]]
                           /\ live' = [live EXCEPT ![f] = TRUE]
    BY <1>11 DEF CreateRow
  <2>2. ASSUME NEW g \in Files, live[g], path[g] = x
        PROVE  live'[g] /\ path'[g] = x
    BY <2>1, <2>2
  <2> QED
    BY <2>2
<1>12. ASSUME NEW r \in Requests, SaveName(r)
      PROVE  RowLetGo(x)
  <2>1. \A g \in Files : live[g] => live'[g]
    BY <1>12 DEF SaveName
  <2>2. UNCHANGED path
    BY <1>12 DEF SaveName
  <2> QED
    BY <2>1, <2>2
<1>13. ASSUME NEW r \in Requests, NextFile(r)
      PROVE  RowLetGo(x)
  <2>1. UNCHANGED <<live, path>>
    BY <1>13 DEF NextFile, tableVars
  <2> QED
    BY <2>1
<1>14. ASSUME NEW r \in Requests, LoopEnds(r)
      PROVE  RowLetGo(x)
  <2>1. UNCHANGED <<live, path>>
    BY <1>14 DEF LoopEnds, tableVars
  <2> QED
    BY <2>1
<1>15. ASSUME NEW r \in Requests, DeleteRow(r)
      PROVE  RowLetGo(x)
  <2>1. /\ pc[r] = "deleting" /\ Goes(r, "checking") /\ UNCHANGED <<path, workVars>>
        /\ live' = [live EXCEPT ![file[r]] =
                     @ /\ job[r] \in OwnersDelete /\ owner[file[r]] # user[r]]
    BY <1>15 DEF DeleteRow, OwnersDelete
  <2>2. pc'[r] = "checking" /\ target'[r] = target[r]
    BY <2>1
  <2>3. /\ file[r] \in Files
        /\ target[r] \in {None, path[file[r]]}
        /\ job[r] \in OwnersDelete \/ target[r] # None
    BY <2>1 DEF InHand, JobsAgree, Deleting
  <2>4. target[r] = None => ~live[file[r]] \/ owner[file[r]] # user[r]
    BY <2>1 DEF NothingMissed
  <2>5. CASE target[r] = x
    BY <2>2, <2>5
  <2>6. ASSUME target[r] # x, NEW g \in Files, live[g], path[g] = x
        PROVE  live'[g] /\ path'[g] = x
    <3>1. CASE g # file[r]
      BY <2>1, <2>6, <3>1
    <3>2. CASE g = file[r]
      <4>1. target[r] = None
        BY <2>3, <2>6, <3>2
      <4>2. job[r] \in OwnersDelete /\ owner[g] # user[r]
        BY <2>3, <2>4, <2>6, <3>2, <4>1
      <4>3. live'[g]
        BY <2>1, <2>6, <3>2, <4>2
      <4> QED
        BY <2>1, <2>6, <4>3
    <3> QED
      BY <3>1, <3>2
  <2> QED
    BY <2>5, <2>6
<1>16. ASSUME NEW r \in Requests, DeleteRowFails(r)
      PROVE  RowLetGo(x)
  <2>1. UNCHANGED <<live, path>>
    BY <1>16 DEF DeleteRowFails, tableVars
  <2> QED
    BY <2>1
<1>17. ASSUME NEW r \in Requests, FindOthers(r)
      PROVE  RowLetGo(x)
  <2>1. UNCHANGED <<live, path>>
    BY <1>17 DEF FindOthers, tableVars
  <2> QED
    BY <2>1
<1>18. ASSUME NEW r \in Requests, FindNoOthers(r)
      PROVE  RowLetGo(x)
  <2>1. UNCHANGED <<live, path>>
    BY <1>18 DEF FindNoOthers, tableVars
  <2> QED
    BY <2>1
<1>19. ASSUME NEW r \in Requests, RemoveObject(r)
      PROVE  RowLetGo(x)
  <2>1. UNCHANGED <<live, path>>
    BY <1>19 DEF RemoveObject, tableVars
  <2> QED
    BY <2>1
<1>20. ASSUME NEW r \in Requests, RemoveObjectFails(r)
      PROVE  RowLetGo(x)
  <2>1. UNCHANGED <<live, path>>
    BY <1>20 DEF RemoveObjectFails, tableVars
  <2> QED
    BY <2>1
<1>21. ASSUME NEW r \in Requests, DeleteUser(r)
      PROVE  RowLetGo(x)
  <2>1. UNCHANGED <<live, path>>
    BY <1>21 DEF DeleteUser, tableVars
  <2> QED
    BY <2>1
<1>22. ASSUME NEW r \in Requests, DeleteAllRows(r)
      PROVE  RowLetGo(x)
  <2>1. pc[r] = "purging"
    BY <1>22 DEF DeleteAllRows
  <2>2. "DeleteAllFiles" \in use
    BY <2>1 DEF JobsAgree
  <2> QED
    BY <2>2 DEF Undisturbed
<1>23. ASSUME NEW r \in Requests, SweepObject(r)
      PROVE  RowLetGo(x)
  <2>1. UNCHANGED <<live, path>>
    BY <1>23 DEF SweepObject, tableVars
  <2> QED
    BY <2>1
<1>24. ASSUME NEW r \in Requests, SweepEnds(r)
      PROVE  RowLetGo(x)
  <2>1. UNCHANGED <<live, path>>
    BY <1>24 DEF SweepEnds, tableVars
  <2> QED
    BY <2>1
<1>25. ASSUME NEW r \in Requests, RequestFails(r)
      PROVE  RowLetGo(x)
  <2>1. UNCHANGED <<live, path>>
    BY <1>25 DEF RequestFails, tableVars
  <2> QED
    BY <2>1
<1>26. CASE Restart
  <2>1. UNCHANGED <<live, path>>
    BY <1>26 DEF Restart, tableVars
  <2> QED
    BY <2>1
<1>27. ASSUME NEW o \in Owners, SaveUser(o)
      PROVE  RowLetGo(x)
  <2>1. UNCHANGED <<live, path>>
    BY <1>27 DEF SaveUser, tableVars
  <2> QED
    BY <2>1
<1>28. CASE UNCHANGED vars
  <2>1. UNCHANGED <<live, path>>
    BY <1>28 DEF vars, tableVars
  <2> QED
    BY <2>1
<1> HIDE DEF TypeOK, Arrives, Goes, Paths, workVars, RowLetGo, Tends,
           Referenced, Refers
<1> QED BY <1>1, <1>2, <1>3, <1>4, <1>5, <1>6, <1>7, <1>8, <1>9, <1>10, <1>11,
     <1>12, <1>13, <1>14, <1>15, <1>16, <1>17, <1>18, <1>19, <1>20, <1>21,
     <1>22, <1>23, <1>24, <1>25, <1>26, <1>27, <1>28
     DEF Next, UserRequest, AdminRequest, RequestStep

(* Who has an object in hand leaves it to a row, or removes it.            *)
LEMMA TendingGoesOn ==
  ASSUME TypeOK,
         Undisturbed,
         [Next]_vars,
         NEW q \in Requests,
         NEW x \in Paths
  PROVE  GoesOnTending(q, x)
<1> USE DEF TypeOK, Arrives, Goes, Ends, Paths, workVars
<1> USE DEF GoesOnTending
<1> USE DEF Tends, Referenced, Refers
<1>1. ASSUME NEW r \in Requests, NEW o \in Owners, NEW p \in Contents, LookUpContent(r, o, p)
      PROVE  GoesOnTending(q, x)
  <2>1. /\ pc[r] = "idle" /\ target' = [target EXCEPT ![r] = p]
        /\ \A s \in Requests : s # r => pc'[s] = pc[s]
    BY <1>1 DEF LookUpContent
  <2> QED
    BY <2>1
<1>2. ASSUME NEW r \in Requests, NEW o \in Owners, NEW p \in Objects, PublishObject(r, o, p)
      PROVE  GoesOnTending(q, x)
  <2>1. pc[r] = "idle" /\ pc' = [pc EXCEPT ![r] = "creating"] /\ \A s \in Requests : s # r => target'[s] = target[s]
    BY <1>2 DEF PublishObject
  <2> QED
    BY <2>1
<1>3. ASSUME NEW r \in Requests, NEW o \in Owners, NEW f \in Files, LoadForUpdate(r, o, f)
      PROVE  GoesOnTending(q, x)
  <2>1. pc[r] = "idle" /\ pc' = [pc EXCEPT ![r] = "renaming"] /\ \A s \in Requests : s # r => target'[s] = target[s]
    BY <1>3 DEF LoadForUpdate
  <2> QED
    BY <2>1
<1>4. ASSUME NEW r \in Requests, NEW o \in Owners, NEW f \in Files, DeleteFile(r, o, f)
      PROVE  GoesOnTending(q, x)
  <2>1. pc[r] = "idle" /\ pc' = [pc EXCEPT ![r] = "deleting"] /\ \A s \in Requests : s # r => target'[s] = target[s]
    BY <1>4 DEF DeleteFile
  <2> QED
    BY <2>1
<1>5. ASSUME NEW r \in Requests, NEW o \in Owners, DeleteAccount(r, o)
      PROVE  GoesOnTending(q, x)
  <2>1. pc[r] = "idle" /\ pc' = [pc EXCEPT ![r] = "next"] /\ \A s \in Requests : s # r => target'[s] = target[s]
    BY <1>5 DEF DeleteAccount
  <2> QED
    BY <2>1
<1>6. ASSUME NEW r \in Requests, NEW f \in Files, AdminDeleteFile(r, f)
      PROVE  GoesOnTending(q, x)
  <2>1. pc[r] = "idle" /\ pc' = [pc EXCEPT ![r] = "deleting"] /\ \A s \in Requests : s # r => target'[s] = target[s]
    BY <1>6 DEF AdminDeleteFile
  <2> QED
    BY <2>1
<1>7. ASSUME NEW r \in Requests, NEW o \in Owners, DeleteUserFiles(r, o)
      PROVE  GoesOnTending(q, x)
  <2>1. pc[r] = "idle" /\ pc' = [pc EXCEPT ![r] = "next"] /\ \A s \in Requests : s # r => target'[s] = target[s]
    BY <1>7 DEF DeleteUserFiles
  <2> QED
    BY <2>1
<1>8. ASSUME NEW r \in Requests, DeleteAllFiles(r)
      PROVE  GoesOnTending(q, x)
  <2>1. pc[r] = "idle" /\ pc' = [pc EXCEPT ![r] = "purging"] /\ \A s \in Requests : s # r => target'[s] = target[s]
    BY <1>8 DEF DeleteAllFiles
  <2> QED
    BY <2>1
<1>9. ASSUME NEW r \in Requests, CreateObject(r)
      PROVE  GoesOnTending(q, x)
  <2>1. pc[r] = "saving" /\ Goes(r, "writing") /\ UNCHANGED workVars
    BY <1>9 DEF CreateObject
  <2> QED
    BY <2>1
<1>10. ASSUME NEW r \in Requests, FillObject(r)
      PROVE  GoesOnTending(q, x)
  <2>1. pc[r] = "writing" /\ Goes(r, "creating") /\ UNCHANGED workVars
    BY <1>10 DEF FillObject
  <2> QED
    BY <2>1
<1>11. ASSUME NEW r \in Requests, CreateRow(r)
      PROVE  GoesOnTending(q, x)
  <2>1. pc[r] = "creating" /\ Ends(r)
    BY <1>11 DEF CreateRow
  <2>2. PICK f \in Files : path' = [path EXCEPT ![f] = target[r]] /\ live' = [live EXCEPT ![f] = TRUE]
    BY <1>11 DEF CreateRow
  <2>3. CASE q = r
    <3>1. live'[f] /\ path'[f] = target[q]
      BY <2>2, <2>3
    <3> QED
      BY <3>1
  <2>4. CASE q # r
    BY <2>1, <2>4
  <2> QED
    BY <2>3, <2>4
<1>12. ASSUME NEW r \in Requests, SaveName(r)
      PROVE  GoesOnTending(q, x)
  <2>1. pc[r] = "renaming" /\ Ends(r)
    BY <1>12 DEF SaveName
  <2> QED
    BY <2>1
<1>13. ASSUME NEW r \in Requests, NextFile(r)
      PROVE  GoesOnTending(q, x)
  <2>1. pc[r] = "next" /\ pc' = [pc EXCEPT ![r] = "deleting"] /\ \A s \in Requests : s # r => target'[s] = target[s]
    BY <1>13 DEF NextFile
  <2> QED
    BY <2>1
<1>14. ASSUME NEW r \in Requests, LoopEnds(r)
      PROVE  GoesOnTending(q, x)
  <2>1. CASE job[r] = "DeleteAccount"
    <3>1. pc[r] = "next" /\ Goes(r, "leaving") /\ UNCHANGED workVars
      BY <1>14, <2>1 DEF LoopEnds
    <3> QED
      BY <3>1, <2>1
  <2>2. CASE job[r] # "DeleteAccount"
    <3>1. pc[r] = "next" /\ Ends(r)
      BY <1>14, <2>2 DEF LoopEnds
    <3> QED
      BY <3>1, <2>2
  <2> QED BY <2>1, <2>2
<1>15. ASSUME NEW r \in Requests, DeleteRow(r)
      PROVE  GoesOnTending(q, x)
  <2>1. pc[r] = "deleting" /\ Goes(r, "checking") /\ UNCHANGED workVars
    BY <1>15 DEF DeleteRow
  <2> QED
    BY <2>1
<1>16. ASSUME NEW r \in Requests, DeleteRowFails(r)
      PROVE  GoesOnTending(q, x)
  <2>1. FALSE
    BY <1>16 DEF DeleteRowFails, Failures, Undisturbed
  <2> QED
    BY <2>1
<1>17. ASSUME NEW r \in Requests, FindOthers(r)
      PROVE  GoesOnTending(q, x)
  <2>1. pc[r] = "checking" /\ Referenced(target[r]) /\ UNCHANGED <<live, path>>
    BY <1>17 DEF FindOthers, tableVars
  <2>2. Done(r)
    BY <1>17 DEF FindOthers
  <2>3. CASE q = r
    BY <2>1, <2>3
  <2>4. CASE q # r
    <3>1. \A s \in Requests : s # r => pc'[s] = pc[s] /\ target'[s] = target[s]
      BY <2>2 DEF Done
    <3> QED
      BY <2>4, <3>1
  <2> QED
    BY <2>3, <2>4
<1>18. ASSUME NEW r \in Requests, FindNoOthers(r)
      PROVE  GoesOnTending(q, x)
  <2>1. pc[r] = "checking" /\ Goes(r, "removing") /\ UNCHANGED workVars
    BY <1>18 DEF FindNoOthers
  <2> QED
    BY <2>1
<1>19. ASSUME NEW r \in Requests, RemoveObject(r)
      PROVE  GoesOnTending(q, x)
  <2>1. pc[r] = "removing" /\ blob' = [y \in Paths |-> IF y = target[r] THEN "none" ELSE blob[y]]
    BY <1>19 DEF RemoveObject
  <2>2. Done(r)
    BY <1>19 DEF RemoveObject
  <2>3. CASE q = r
    BY <2>1, <2>3
  <2>4. CASE q # r
    <3>1. \A s \in Requests : s # r => pc'[s] = pc[s] /\ target'[s] = target[s]
      BY <2>2 DEF Done
    <3> QED
      BY <2>4, <3>1
  <2> QED
    BY <2>3, <2>4
<1>20. ASSUME NEW r \in Requests, RemoveObjectFails(r)
      PROVE  GoesOnTending(q, x)
  <2>1. FALSE
    BY <1>20 DEF RemoveObjectFails, Failures, Undisturbed
  <2> QED
    BY <2>1
<1>21. ASSUME NEW r \in Requests, DeleteUser(r)
      PROVE  GoesOnTending(q, x)
  <2>1. pc[r] = "leaving" /\ Ends(r)
    BY <1>21 DEF DeleteUser
  <2> QED
    BY <2>1
<1>22. ASSUME NEW r \in Requests, DeleteAllRows(r)
      PROVE  GoesOnTending(q, x)
  <2>1. pc[r] = "purging" /\ Goes(r, "sweeping") /\ UNCHANGED workVars
    BY <1>22 DEF DeleteAllRows
  <2> QED
    BY <2>1
<1>23. ASSUME NEW r \in Requests, SweepObject(r)
      PROVE  GoesOnTending(q, x)
  <2>1. UNCHANGED <<pc, target>>
    BY <1>23 DEF SweepObject
  <2> QED
    BY <2>1
<1>24. ASSUME NEW r \in Requests, SweepEnds(r)
      PROVE  GoesOnTending(q, x)
  <2>1. pc[r] = "sweeping" /\ Ends(r)
    BY <1>24 DEF SweepEnds
  <2> QED
    BY <2>1
<1>25. ASSUME NEW r \in Requests, RequestFails(r)
      PROVE  GoesOnTending(q, x)
  <2>1. FALSE
    BY <1>25 DEF RequestFails, Failures, Undisturbed
  <2> QED
    BY <2>1
<1>26. CASE Restart
  <2>1. FALSE
    BY <1>26 DEF Restart, Failures, Undisturbed
  <2> QED
    BY <2>1
<1>27. ASSUME NEW o \in Owners, SaveUser(o)
      PROVE  GoesOnTending(q, x)
  <2>1. UNCHANGED <<pc, target>>
    BY <1>27 DEF SaveUser, reqVars, workVars
  <2> QED
    BY <2>1
<1>28. CASE UNCHANGED vars
  <2>1. UNCHANGED <<pc, target>>
    BY <1>28 DEF vars, reqVars, workVars
  <2> QED
    BY <2>1
<1> HIDE DEF TypeOK, Arrives, Goes, Ends, Paths, workVars, GoesOnTending,
           Tends, Referenced, Refers
<1> QED BY <1>1, <1>2, <1>3, <1>4, <1>5, <1>6, <1>7, <1>8, <1>9, <1>10, <1>11,
     <1>12, <1>13, <1>14, <1>15, <1>16, <1>17, <1>18, <1>19, <1>20, <1>21,
     <1>22, <1>23, <1>24, <1>25, <1>26, <1>27, <1>28
     DEF Next, UserRequest, AdminRequest, RequestStep

(* So every object is listed or tended. *)
LEMMA TendsStep == IInv /\ [Next]_vars => SomeoneTends'
<1> SUFFICES ASSUME IInv, [Next]_vars, Undisturbed, NEW p \in Paths, blob'[p] # "none"
             PROVE  Referenced(p)' \/ \E r \in Requests : Tends(r, p)'
  BY UseStays DEF SomeoneTends, Undisturbed
<1>1. TypeOK /\ JobsAgree /\ InHand /\ NothingMissed /\ SomeoneTends
  BY DEF IInv
<1>2. CASE blob[p] = "none"
  BY <1>1, <1>2, ObjectsComeFromRequests DEF ObjectFromRequest
<1>3. CASE Referenced(p)
  BY <1>1, <1>3, RowsLetGo DEF RowLetGo
<1>4. CASE \E r \in Requests : Tends(r, p)
  BY <1>1, <1>4, TendingGoesOn DEF GoesOnTending
<1> QED
  BY <1>1, <1>2, <1>3, <1>4 DEF SomeoneTends

(***************************************************************************)
(* The theorems.                                                           *)
(***************************************************************************)

(* The invariant holds in every state that can be reached. *)
THEOREM Invariance == Spec => []IInv
<1>1. IInv /\ [Next]_vars => IInv'
  BY TypeStep, JobsStep, InHandStep, PublishedStep, RemovesStep, RowStep, MissedStep,
     TendsStep DEF IInv
<1> QED
  BY InitIInv, <1>1, PTL DEF Spec

(* The table, the objects and the requests keep their types: a row that is *)
(* listed has a path and an owner, a request that goes on has a job.       *)
THEOREM TypeCorrect == Spec => []TypeOK
<1>1. IInv => TypeOK
  BY DEF IInv
<1> QED
  BY <1>1, Invariance, PTL

(* A listed file has its object, however many files, owners and requests   *)
(* there are and whatever requests, failing calls and restarts are mixed.  *)
THEOREM ListedHasObject == Spec => []RowHasObject
<1>1. IInv => RowHasObject
  <2> SUFFICES ASSUME ListedIsWhole, use \intersect {"lookup failures", "UpdateFile"} = {}
               PROVE  \A f \in Files : live[f] /\ Kept(path[f]) => Whole(path[f])
    BY DEF IInv, RowHasObject, Kept
  <2>1. Steady
    BY DEF Steady
  <2> QED
    BY <2>1 DEF ListedIsWhole
<1> QED
  BY <1>1, Invariance, PTL

(* No object outlives its last row once the requests are done.             *)
THEOREM NoneOrphaned == Spec => []NoOrphans
<1>1. IInv => NoOrphans
  <2> SUFFICES ASSUME SomeoneTends,
                      use \intersect {"lookup failures", "failures", "restarts",
                                      "DeleteAllFiles"} = {},
                      "UpdateFile" \in use =>
                        use \intersect {"DeleteFile", "DeleteAccount"} = {},
                      NEW p \in Paths, Idle, blob[p] # "none"
               PROVE  Referenced(p)
    BY DEF IInv, NoOrphans
  <2>1. Undisturbed
    BY DEF Undisturbed
  <2>2. \A r \in Requests : ~Tends(r, p)
    BY DEF Idle, Tends
  <2> QED
    BY <2>1, <2>2 DEF SomeoneTends
<1> QED
  BY <1>1, Invariance, PTL
=============================================================================
