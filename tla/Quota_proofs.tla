---------------------------- MODULE Quota_proofs ----------------------------
(***************************************************************************)
(* Theorems of Quota, for every value of its constants.                    *)
(***************************************************************************)
EXTENDS Quota, SumLemmas, TLAPS

USE QuotaAssumption

(***************************************************************************)
(* The inductive invariant.                                                *)
(***************************************************************************)
RowsOK ==
  /\ use \in Uses
  /\ user \in [Accounts -> {"none", "live", "deleted"}]
  /\ connections \subseteq Accounts \X Addresses
  /\ session \in [Uploads -> {"none", "active", "completed", "cancelled", "expired"}]
  /\ file \in [Uploads -> {"none", "listed", "deleted"}]
  /\ size \in [Uploads -> Sizes \union {0}]
  /\ owner \in [Uploads -> Accounts \union {None}]
  /\ secret \in Secrets \union {None}
  /\ cookie \in [Accounts -> Secrets \union {None}]

SetsOK ==
  /\ waived \subseteq Uploads
  /\ overdue \subseteq Uploads
  /\ old \subseteq Uploads
  /\ open \subseteq Uploads
  /\ waiving \subseteq Requests

RequestsOK ==
  /\ pc \in [Requests -> Places]
  /\ kind \in [Requests -> Kinds \union {None}]
  /\ account \in [Requests -> Accounts \union {None}]
  /\ address \in [Requests -> Addresses \union {None}]
  /\ upload \in [Requests -> Uploads \union {None}]
  /\ bytes \in [Requests -> Sizes \union {0}]

(* A walk asks for the addresses of accounts, or the accounts at addresses. *)
Asks == (SUBSET Accounts) \union (SUBSET Addresses)

WalksOK ==
  /\ found \in [Requests -> SUBSET Accounts]
  /\ seen \in [Requests -> SUBSET Addresses]
  /\ ask \in [Requests -> Asks]
  /\ before \in [Requests -> SUBSET (Accounts \X Addresses)]
  /\ summed \in [Requests -> SUBSET Uploads]

(* A request names who it is from, and where it is goes with what it is. *)
RequestsNamed ==
  \A r \in Requests : pc[r] # "idle" => account[r] # None /\ address[r] # None

SessionsOwned == \A u \in Uploads : session[u] # "none" => owner[u] # None

NamesUpload == OfSession \union {"DeleteFile"}

UploadsNamed ==
  \A r \in Requests : kind[r] \in NamesUpload =>
    upload[r] \in Uploads /\ owner[upload[r]] # None

KindsAgree ==
  \A r \in Requests :
    /\ kind[r] \in use \union {None}
    /\ pc[r] = "loaded" => kind[r] \in {"CompleteChunkedUpload", "AbortChunkedUpload"}
    /\ pc[r] = "settling" => kind[r] \in OfSession
    /\ pc[r] \in {"disconnecting", "leaving"} => kind[r] = "DeleteAccount"

(* The walk: what it asks for it has found last, and what it asked for      *)
(* before has led it to all that was linked to it when it began.            *)
Walking == {"by address", "by account", "summing files", "summing sessions"}

LinkedAccounts(r, ips) ==
  \A a \in Accounts, i \in ips : <<a, i>> \in before[r] => a \in found[r]

LinkedAddresses(r, as) ==
  \A a \in as, i \in Addresses : <<a, i>> \in before[r] => i \in seen[r]

WalkComplete(r) ==
  /\ pc[r] = "by address" =>
       /\ ask[r] \subseteq seen[r]
       /\ LinkedAccounts(r, seen[r] \ ask[r])
       /\ LinkedAddresses(r, found[r])
  /\ pc[r] = "by account" =>
       /\ ask[r] \subseteq found[r]
       /\ LinkedAccounts(r, seen[r])
       /\ LinkedAddresses(r, found[r] \ ask[r])
  /\ WalkDone(r) =>
       /\ LinkedAccounts(r, seen[r])
       /\ LinkedAddresses(r, found[r])

(* What it has found lies in every set that is closed under the links. *)
WalkSound(r) ==
  \A ips \in SUBSET Addresses :
    address[r] \in ips /\ ClosedUnder(connections, ips) =>
      /\ seen[r] \subseteq ips
      /\ \A a \in found[r] : \E i \in ips : <<a, i>> \in connections

Walks ==
  "DeleteAccount" \notin use =>
    \A r \in Requests : pc[r] \in Walking =>
      /\ address[r] \in seen[r]
      /\ before[r] \subseteq connections
      /\ WalkComplete(r)
      /\ WalkSound(r)

IInv ==
  /\ RowsOK
  /\ SetsOK
  /\ RequestsOK
  /\ WalksOK
  /\ RequestsNamed
  /\ SessionsOwned
  /\ UploadsNamed
  /\ KindsAgree
  /\ Walks
  /\ ChargedOnce

(***************************************************************************)
(* What comes in.                                                          *)
(***************************************************************************)
Comes(r, k, a, ip, u, n) ==
  /\ k \in Kinds
  /\ k \in use
  /\ k \in NamesUpload => u \in Uploads /\ owner[u] = a
  /\ pc[r] = "idle"
  /\ Apart(k)
  /\ AtHome(a, ip)
  /\ pc' = [pc EXCEPT ![r] = "finding"]
  /\ kind' = [kind EXCEPT ![r] = k]
  /\ account' = [account EXCEPT ![r] = a]
  /\ address' = [address EXCEPT ![r] = ip]
  /\ upload' = [upload EXCEPT ![r] = u]
  /\ bytes' = [bytes EXCEPT ![r] = n]
  /\ UNCHANGED <<use, accountVars, uploadVars, unlockVars, walkVars>>

(* A request comes in at an idle slot; it names its upload if it is about  *)
(* one.                                                                    *)
LEMMA RequestComes ==
  ASSUME NEW r \in Requests, NEW a \in Accounts, NEW ip \in Addresses, Request(r, a, ip)
  PROVE  \E k \in Kinds, u \in Uploads \union {None}, n \in Sizes \union {0} :
           Comes(r, k, a, ip, u, n)
<1>1. CASE \E k \in Checked, n \in Sizes : Arrives(r, k, a, ip, None, n)
  <2>1. PICK k \in Checked, n \in Sizes : Arrives(r, k, a, ip, None, n)
    BY <1>1
  <2>2. k \in Kinds /\ k \notin NamesUpload
    BY DEF Kinds, Checked, NamesUpload, OfSession
  <2>3. Comes(r, k, a, ip, None, n)
    BY <2>1, <2>2 DEF Comes, Arrives
  <2> QED
    BY <2>2, <2>3
<1>2. CASE \E k \in OfSession \union {"DeleteFile"}, u \in Uploads :
             owner[u] = a /\ Arrives(r, k, a, ip, u, 0)
  <2>1. PICK k \in OfSession \union {"DeleteFile"}, u \in Uploads :
               owner[u] = a /\ Arrives(r, k, a, ip, u, 0)
    BY <1>2
  <2>2. k \in Kinds
    BY DEF Kinds
  <2>3. Comes(r, k, a, ip, u, 0)
    BY <2>1, <2>2 DEF Comes, Arrives
  <2> QED
    BY <2>2, <2>3
<1>3. CASE \E k \in {"DeleteAccount", "UnlockLimits", "LockLimits"} :
             Arrives(r, k, a, ip, None, 0)
  <2>1. PICK k \in {"DeleteAccount", "UnlockLimits", "LockLimits"} :
               Arrives(r, k, a, ip, None, 0)
    BY <1>3
  <2>2. k \in Kinds /\ k \notin NamesUpload
    BY DEF Kinds, NamesUpload, OfSession
  <2>3. Comes(r, k, a, ip, None, 0)
    BY <2>1, <2>2 DEF Comes, Arrives
  <2> QED
    BY <2>2, <2>3
<1> QED
  BY <1>1, <1>2, <1>3 DEF Request

(* What a walk may ask for.                                                *)
LEMMA MayAsk ==
  /\ {} \in Asks
  /\ \A as \in SUBSET Accounts : as \in Asks
  /\ \A ips \in SUBSET Addresses : ips \in Asks
<1>1. \A as \in SUBSET Accounts : as \in Asks
  BY Zenon DEF Asks
<1>2. \A ips \in SUBSET Addresses : ips \in Asks
  BY Zenon DEF Asks
<1>3. {} \in SUBSET Accounts
  OBVIOUS
<1> QED
  BY <1>1, <1>2, <1>3, Zenon

(* A kind that is a request's is no sign of none.                          *)
LEMMA KindsAreKinds ==
  /\ None \notin NamesUpload /\ None \notin Checked
  /\ None # "DeleteAccount" /\ "DeleteAccount" \notin NamesUpload
BY DEF Kinds, NamesUpload, OfSession, Checked

(***************************************************************************)
(* The invariant holds at the start and every step keeps it.               *)
(***************************************************************************)
(* The rows are of their types.                                            *)
LEMMA KeepsRows ==
  ASSUME RowsOK,
         RequestsOK,
         RequestsNamed,
         UploadsNamed,
         KindsAgree,
         [Next]_vars
  PROVE  RowsOK'
<1> USE DEF accountVars, uploadVars, unlockVars, requestVars, walkVars
<1> USE DEF RowsOK
<1>1. ASSUME NEW r \in Requests, NEW a \in Accounts, NEW ip \in Addresses, Request(r, a, ip)
      PROVE  RowsOK'
  <2>1. PICK k \in Kinds, u \in Uploads \union {None}, n \in Sizes \union {0} :
               Comes(r, k, a, ip, u, n)
    BY <1>1, RequestComes
  <2> QED
    BY <2>1 DEF Comes
<1>2. ASSUME NEW r \in Requests, FindUser(r)
      PROVE  RowsOK'
  BY <1>2 DEF FindUser, AfterLookup
<1>3. ASSUME NEW r \in Requests, CreateUser(r)
      PROVE  RowsOK'
  <2>1. account[r] \in Accounts
    BY <1>3 DEF CreateUser, RequestsOK, RequestsNamed
  <2> QED
    BY <1>3, <2>1 DEF CreateUser
<1>4. ASSUME NEW r \in Requests, AccountIdTaken(r)
      PROVE  RowsOK'
  BY <1>4 DEF AccountIdTaken
<1>5. ASSUME NEW r \in Requests, Connect(r)
      PROVE  RowsOK'
  <2>1. account[r] \in Accounts /\ address[r] \in Addresses
    BY <1>5 DEF Connect, RequestsOK, RequestsNamed
  <2> QED
    BY <1>5, <2>1 DEF Connect
<1>6. ASSUME NEW r \in Requests, CookieLiftsQuota(r)
      PROVE  RowsOK'
  BY <1>6 DEF CookieLiftsQuota
<1>7. ASSUME NEW r \in Requests, BeginWalk(r)
      PROVE  RowsOK'
  BY <1>7 DEF BeginWalk
<1>8. ASSUME NEW r \in Requests, QueryByAddress(r)
      PROVE  RowsOK'
  BY <1>8 DEF QueryByAddress
<1>9. ASSUME NEW r \in Requests, QueryByAccount(r)
      PROVE  RowsOK'
  BY <1>9 DEF QueryByAccount
<1>10. ASSUME NEW r \in Requests, SumFiles(r)
      PROVE  RowsOK'
  BY <1>10 DEF SumFiles
<1>11. ASSUME NEW r \in Requests, Throttle(r)
      PROVE  RowsOK'
  BY <1>11 DEF Throttle
<1>12. ASSUME NEW r \in Requests, Admit(r)
      PROVE  RowsOK'
  BY <1>12 DEF Admit
<1>13. ASSUME NEW r \in Requests, NEW u \in Uploads, CreateSession(r, u)
      PROVE  RowsOK'
  <2>1. account[r] \in Accounts /\ bytes[r] \in Sizes \union {0}
    BY <1>13 DEF CreateSession, Enters, RequestsOK, RequestsNamed
  <2> QED
    BY <1>13, <2>1 DEF CreateSession, Enters
<1>14. ASSUME NEW r \in Requests, NEW u \in Uploads, CreateFile(r, u)
      PROVE  RowsOK'
  <2>1. account[r] \in Accounts /\ bytes[r] \in Sizes \union {0}
    BY <1>14 DEF CreateFile, Enters, RequestsOK, RequestsNamed
  <2> QED
    BY <1>14, <2>1 DEF CreateFile, Enters
<1>15. ASSUME NEW r \in Requests, LoadSession(r)
      PROVE  RowsOK'
  BY <1>15 DEF LoadSession
<1>16. ASSUME NEW r \in Requests, FinalizeAndCreateFile(r)
      PROVE  RowsOK'
  <2>1. upload[r] \in Uploads
    BY <1>16 DEF FinalizeAndCreateFile, RequestsOK, UploadsNamed, NamesUpload, OfSession
  <2> QED
    BY <1>16, <2>1 DEF FinalizeAndCreateFile
<1>17. ASSUME NEW r \in Requests, DropFromStorage(r)
      PROVE  RowsOK'
  BY <1>17 DEF DropFromStorage
<1>18. ASSUME NEW r \in Requests, SaveStatus(r)
      PROVE  RowsOK'
  <2>1. upload[r] \in Uploads /\ kind[r] \in OfSession
    BY <1>18 DEF SaveStatus, RequestsOK, UploadsNamed, NamesUpload, KindsAgree
  <2> QED
    BY <1>18, <2>1 DEF SaveStatus, StatusAfter, OfSession
<1>19. ASSUME NEW r \in Requests, DeleteFile(r)
      PROVE  RowsOK'
  <2>1. upload[r] \in Uploads
    BY <1>19 DEF DeleteFile, RequestsOK, UploadsNamed, NamesUpload
  <2> QED
    BY <1>19, <2>1 DEF DeleteFile
<1>20. ASSUME NEW r \in Requests, DeleteFiles(r)
      PROVE  RowsOK'
  BY <1>20 DEF DeleteFiles
<1>21. ASSUME NEW r \in Requests, DeleteConnections(r)
      PROVE  RowsOK'
  BY <1>21 DEF DeleteConnections
<1>22. ASSUME NEW r \in Requests, DeleteUser(r)
      PROVE  RowsOK'
  <2>1. account[r] \in Accounts
    BY <1>22 DEF DeleteUser, RequestsOK, RequestsNamed
  <2> QED
    BY <1>22, <2>1 DEF DeleteUser
<1>23. ASSUME NEW r \in Requests, UnlockLimits(r)
      PROVE  RowsOK'
  <2>1. account[r] \in Accounts
    BY <1>23 DEF UnlockLimits, RequestsOK, RequestsNamed
  <2> QED
    BY <1>23, <2>1 DEF UnlockLimits
<1>24. ASSUME NEW r \in Requests, LockLimits(r)
      PROVE  RowsOK'
  <2>1. account[r] \in Accounts
    BY <1>24 DEF LockLimits, RequestsOK, RequestsNamed
  <2> QED
    BY <1>24, <2>1 DEF LockLimits
<1>25. ASSUME NEW r \in Requests, GivesUp(r)
      PROVE  RowsOK'
  BY <1>25 DEF GivesUp
<1>26. ASSUME NEW a \in Accounts, CookieExpires(a)
      PROVE  RowsOK'
  BY <1>26 DEF CookieExpires
<1>27. ASSUME NEW u \in Uploads, SessionRunsOut(u)
      PROVE  RowsOK'
  BY <1>27 DEF SessionRunsOut
<1>28. ASSUME NEW u \in Uploads, FileRollsOff(u)
      PROVE  RowsOK'
  BY <1>28 DEF FileRollsOff
<1>29. CASE Restart
  BY <1>29 DEF Restart
<1>30. CASE UNCHANGED vars
  BY <1>30 DEF vars, vars
<1>31. ASSUME NEW r \in Requests, SaveUser(r)
      PROVE  RowsOK'
  <2>1. account[r] \in Accounts
    BY <1>31 DEF SaveUser, RequestsOK, RequestsNamed
  <2> QED
    BY <1>31, <2>1 DEF SaveUser
<1> HIDE DEF accountVars, uploadVars, unlockVars, requestVars, walkVars,
           RowsOK
<1> QED BY <1>1, <1>2, <1>3, <1>4, <1>5, <1>6, <1>7, <1>8, <1>9, <1>10, <1>11,
     <1>12, <1>13, <1>14, <1>15, <1>16, <1>17, <1>18, <1>19, <1>20, <1>21,
     <1>22, <1>23, <1>24, <1>25, <1>26, <1>27, <1>28, <1>29, <1>30, <1>31
     DEF Next, Step

(* The sets hold uploads and requests.                                     *)
LEMMA KeepsSets ==
  ASSUME SetsOK,
         [Next]_vars
  PROVE  SetsOK'
<1> USE DEF accountVars, uploadVars, unlockVars, requestVars, walkVars
<1> USE DEF SetsOK, Ends
<1>1. ASSUME NEW r \in Requests, NEW a \in Accounts, NEW ip \in Addresses, Request(r, a, ip)
      PROVE  SetsOK'
  <2>1. PICK k \in Kinds, u \in Uploads \union {None}, n \in Sizes \union {0} :
               Comes(r, k, a, ip, u, n)
    BY <1>1, RequestComes
  <2> QED
    BY <2>1 DEF Comes
<1>2. ASSUME NEW r \in Requests, FindUser(r)
      PROVE  SetsOK'
  BY <1>2 DEF FindUser, AfterLookup
<1>3. ASSUME NEW r \in Requests, CreateUser(r)
      PROVE  SetsOK'
  BY <1>3 DEF CreateUser
<1>4. ASSUME NEW r \in Requests, AccountIdTaken(r)
      PROVE  SetsOK'
  BY <1>4 DEF AccountIdTaken
<1>5. ASSUME NEW r \in Requests, Connect(r)
      PROVE  SetsOK'
  BY <1>5 DEF Connect
<1>6. ASSUME NEW r \in Requests, CookieLiftsQuota(r)
      PROVE  SetsOK'
  BY <1>6 DEF CookieLiftsQuota
<1>7. ASSUME NEW r \in Requests, BeginWalk(r)
      PROVE  SetsOK'
  BY <1>7 DEF BeginWalk
<1>8. ASSUME NEW r \in Requests, QueryByAddress(r)
      PROVE  SetsOK'
  BY <1>8 DEF QueryByAddress
<1>9. ASSUME NEW r \in Requests, QueryByAccount(r)
      PROVE  SetsOK'
  BY <1>9 DEF QueryByAccount
<1>10. ASSUME NEW r \in Requests, SumFiles(r)
      PROVE  SetsOK'
  BY <1>10 DEF SumFiles
<1>11. ASSUME NEW r \in Requests, Throttle(r)
      PROVE  SetsOK'
  BY <1>11 DEF Throttle
<1>12. ASSUME NEW r \in Requests, Admit(r)
      PROVE  SetsOK'
  BY <1>12 DEF Admit
<1>13. ASSUME NEW r \in Requests, NEW u \in Uploads, CreateSession(r, u)
      PROVE  SetsOK'
  BY <1>13 DEF CreateSession, Enters
<1>14. ASSUME NEW r \in Requests, NEW u \in Uploads, CreateFile(r, u)
      PROVE  SetsOK'
  BY <1>14 DEF CreateFile, Enters
<1>15. ASSUME NEW r \in Requests, LoadSession(r)
      PROVE  SetsOK'
  BY <1>15 DEF LoadSession
<1>16. ASSUME NEW r \in Requests, FinalizeAndCreateFile(r)
      PROVE  SetsOK'
  BY <1>16 DEF FinalizeAndCreateFile
<1>17. ASSUME NEW r \in Requests, DropFromStorage(r)
      PROVE  SetsOK'
  BY <1>17 DEF DropFromStorage
<1>18. ASSUME NEW r \in Requests, SaveStatus(r)
      PROVE  SetsOK'
  BY <1>18 DEF SaveStatus
<1>19. ASSUME NEW r \in Requests, DeleteFile(r)
      PROVE  SetsOK'
  BY <1>19 DEF DeleteFile
<1>20. ASSUME NEW r \in Requests, DeleteFiles(r)
      PROVE  SetsOK'
  BY <1>20 DEF DeleteFiles
<1>21. ASSUME NEW r \in Requests, DeleteConnections(r)
      PROVE  SetsOK'
  BY <1>21 DEF DeleteConnections
<1>22. ASSUME NEW r \in Requests, DeleteUser(r)
      PROVE  SetsOK'
  BY <1>22 DEF DeleteUser
<1>23. ASSUME NEW r \in Requests, UnlockLimits(r)
      PROVE  SetsOK'
  BY <1>23 DEF UnlockLimits
<1>24. ASSUME NEW r \in Requests, LockLimits(r)
      PROVE  SetsOK'
  BY <1>24 DEF LockLimits
<1>25. ASSUME NEW r \in Requests, GivesUp(r)
      PROVE  SetsOK'
  BY <1>25 DEF GivesUp
<1>26. ASSUME NEW a \in Accounts, CookieExpires(a)
      PROVE  SetsOK'
  BY <1>26 DEF CookieExpires
<1>27. ASSUME NEW u \in Uploads, SessionRunsOut(u)
      PROVE  SetsOK'
  BY <1>27 DEF SessionRunsOut
<1>28. ASSUME NEW u \in Uploads, FileRollsOff(u)
      PROVE  SetsOK'
  BY <1>28 DEF FileRollsOff
<1>29. CASE Restart
  BY <1>29 DEF Restart
<1>30. CASE UNCHANGED vars
  BY <1>30 DEF vars, vars
<1>31. ASSUME NEW r \in Requests, SaveUser(r)
      PROVE  SetsOK'
  BY <1>31 DEF SaveUser
<1> HIDE DEF accountVars, uploadVars, unlockVars, requestVars, walkVars,
           SetsOK, Ends
<1> QED BY <1>1, <1>2, <1>3, <1>4, <1>5, <1>6, <1>7, <1>8, <1>9, <1>10, <1>11,
     <1>12, <1>13, <1>14, <1>15, <1>16, <1>17, <1>18, <1>19, <1>20, <1>21,
     <1>22, <1>23, <1>24, <1>25, <1>26, <1>27, <1>28, <1>29, <1>30, <1>31
     DEF Next, Step

(* What a request is, is of its type.                                      *)
LEMMA KeepsRequests ==
  ASSUME RequestsOK,
         [Next]_vars
  PROVE  RequestsOK'
<1> USE DEF accountVars, uploadVars, unlockVars, requestVars, walkVars
<1> USE DEF RequestsOK, Ends, Goes
<1>1. ASSUME NEW r \in Requests, NEW a \in Accounts, NEW ip \in Addresses, Request(r, a, ip)
      PROVE  RequestsOK'
  <2>1. PICK k \in Kinds, u \in Uploads \union {None}, n \in Sizes \union {0} :
               Comes(r, k, a, ip, u, n)
    BY <1>1, RequestComes
  <2> QED
    BY <2>1 DEF Comes, Places
<1>2. ASSUME NEW r \in Requests, FindUser(r)
      PROVE  RequestsOK'
  BY <1>2 DEF FindUser, AfterLookup, Places
<1>3. ASSUME NEW r \in Requests, CreateUser(r)
      PROVE  RequestsOK'
  BY <1>3 DEF CreateUser, Places, Enters
<1>4. ASSUME NEW r \in Requests, AccountIdTaken(r)
      PROVE  RequestsOK'
  BY <1>4 DEF AccountIdTaken, Places
<1>5. ASSUME NEW r \in Requests, Connect(r)
      PROVE  RequestsOK'
  BY <1>5 DEF Connect, Places
<1>6. ASSUME NEW r \in Requests, CookieLiftsQuota(r)
      PROVE  RequestsOK'
  BY <1>6 DEF CookieLiftsQuota, Places
<1>7. ASSUME NEW r \in Requests, BeginWalk(r)
      PROVE  RequestsOK'
  BY <1>7 DEF BeginWalk, Places
<1>8. ASSUME NEW r \in Requests, QueryByAddress(r)
      PROVE  RequestsOK'
  BY <1>8 DEF QueryByAddress, Places, AfterWalk
<1>9. ASSUME NEW r \in Requests, QueryByAccount(r)
      PROVE  RequestsOK'
  BY <1>9 DEF QueryByAccount, Places, AfterWalk
<1>10. ASSUME NEW r \in Requests, SumFiles(r)
      PROVE  RequestsOK'
  BY <1>10 DEF SumFiles, Places
<1>11. ASSUME NEW r \in Requests, Throttle(r)
      PROVE  RequestsOK'
  BY <1>11 DEF Throttle, Places
<1>12. ASSUME NEW r \in Requests, Admit(r)
      PROVE  RequestsOK'
  BY <1>12 DEF Admit, Places
<1>13. ASSUME NEW r \in Requests, NEW u \in Uploads, CreateSession(r, u)
      PROVE  RequestsOK'
  BY <1>13 DEF CreateSession, Places, Enters
<1>14. ASSUME NEW r \in Requests, NEW u \in Uploads, CreateFile(r, u)
      PROVE  RequestsOK'
  BY <1>14 DEF CreateFile, Places, Enters
<1>15. ASSUME NEW r \in Requests, LoadSession(r)
      PROVE  RequestsOK'
  BY <1>15 DEF LoadSession, Places
<1>16. ASSUME NEW r \in Requests, FinalizeAndCreateFile(r)
      PROVE  RequestsOK'
  BY <1>16 DEF FinalizeAndCreateFile, Places
<1>17. ASSUME NEW r \in Requests, DropFromStorage(r)
      PROVE  RequestsOK'
  BY <1>17 DEF DropFromStorage, Places
<1>18. ASSUME NEW r \in Requests, SaveStatus(r)
      PROVE  RequestsOK'
  BY <1>18 DEF SaveStatus, Places
<1>19. ASSUME NEW r \in Requests, DeleteFile(r)
      PROVE  RequestsOK'
  BY <1>19 DEF DeleteFile, Places
<1>20. ASSUME NEW r \in Requests, DeleteFiles(r)
      PROVE  RequestsOK'
  BY <1>20 DEF DeleteFiles, Places
<1>21. ASSUME NEW r \in Requests, DeleteConnections(r)
      PROVE  RequestsOK'
  BY <1>21 DEF DeleteConnections, Places
<1>22. ASSUME NEW r \in Requests, DeleteUser(r)
      PROVE  RequestsOK'
  BY <1>22 DEF DeleteUser, Places
<1>23. ASSUME NEW r \in Requests, UnlockLimits(r)
      PROVE  RequestsOK'
  BY <1>23 DEF UnlockLimits, Places
<1>24. ASSUME NEW r \in Requests, LockLimits(r)
      PROVE  RequestsOK'
  BY <1>24 DEF LockLimits, Places
<1>25. ASSUME NEW r \in Requests, GivesUp(r)
      PROVE  RequestsOK'
  BY <1>25 DEF GivesUp, Places
<1>26. ASSUME NEW a \in Accounts, CookieExpires(a)
      PROVE  RequestsOK'
  BY <1>26 DEF CookieExpires, Places
<1>27. ASSUME NEW u \in Uploads, SessionRunsOut(u)
      PROVE  RequestsOK'
  BY <1>27 DEF SessionRunsOut, Places
<1>28. ASSUME NEW u \in Uploads, FileRollsOff(u)
      PROVE  RequestsOK'
  BY <1>28 DEF FileRollsOff, Places
<1>29. CASE Restart
  BY <1>29 DEF Restart, Places
<1>30. CASE UNCHANGED vars
  BY <1>30 DEF vars, vars
<1>31. ASSUME NEW r \in Requests, SaveUser(r)
      PROVE  RequestsOK'
  BY <1>31 DEF SaveUser, Places, Enters
<1> HIDE DEF accountVars, uploadVars, unlockVars, requestVars, walkVars,
           RequestsOK, Ends, Goes
<1> QED BY <1>1, <1>2, <1>3, <1>4, <1>5, <1>6, <1>7, <1>8, <1>9, <1>10, <1>11,
     <1>12, <1>13, <1>14, <1>15, <1>16, <1>17, <1>18, <1>19, <1>20, <1>21,
     <1>22, <1>23, <1>24, <1>25, <1>26, <1>27, <1>28, <1>29, <1>30, <1>31
     DEF Next, Step

(* What a walk has found is of its type.                                   *)
LEMMA KeepsWalksTypes ==
  ASSUME RequestsOK,
         RequestsNamed,
         RowsOK,
         WalksOK,
         [Next]_vars
  PROVE  WalksOK'
<1> USE DEF accountVars, uploadVars, unlockVars, requestVars, walkVars
<1> USE DEF WalksOK, Ends
<1> USE MayAsk
<1>1. ASSUME NEW r \in Requests, NEW a \in Accounts, NEW ip \in Addresses, Request(r, a, ip)
      PROVE  WalksOK'
  <2>1. PICK k \in Kinds, u \in Uploads \union {None}, n \in Sizes \union {0} :
               Comes(r, k, a, ip, u, n)
    BY <1>1, RequestComes
  <2> QED
    BY <2>1 DEF Comes
<1>2. ASSUME NEW r \in Requests, FindUser(r)
      PROVE  WalksOK'
  BY <1>2 DEF FindUser, AfterLookup
<1>3. ASSUME NEW r \in Requests, CreateUser(r)
      PROVE  WalksOK'
  BY <1>3 DEF CreateUser
<1>4. ASSUME NEW r \in Requests, AccountIdTaken(r)
      PROVE  WalksOK'
  BY <1>4 DEF AccountIdTaken
<1>5. ASSUME NEW r \in Requests, Connect(r)
      PROVE  WalksOK'
  BY <1>5 DEF Connect
<1>6. ASSUME NEW r \in Requests, CookieLiftsQuota(r)
      PROVE  WalksOK'
  BY <1>6 DEF CookieLiftsQuota
<1>7. ASSUME NEW r \in Requests, BeginWalk(r)
      PROVE  WalksOK'
  <2>1. address[r] \in Addresses
    BY <1>7 DEF BeginWalk, RequestsOK, RequestsNamed
  <2>2. connections \in SUBSET (Accounts \X Addresses)
    BY DEF RowsOK
  <2>3. before' \in [Requests -> SUBSET (Accounts \X Addresses)]
    BY <1>7, <2>2 DEF BeginWalk
  <2>4. seen' \in [Requests -> SUBSET Addresses]
    BY <1>7, <2>1 DEF BeginWalk
  <2>6. {address[r]} \in Asks
    BY <2>1, MayAsk
  <2>7. ask' \in [Requests -> Asks]
    BY <1>7, <2>6 DEF BeginWalk
  <2>5. found' \in [Requests -> SUBSET Accounts]
    BY <1>7 DEF BeginWalk
  <2> QED
    BY <1>7, <2>3, <2>4, <2>5, <2>7 DEF BeginWalk
<1>8. ASSUME NEW r \in Requests, QueryByAddress(r)
      PROVE  WalksOK'
  BY <1>8 DEF QueryByAddress, AccountsAt
<1>9. ASSUME NEW r \in Requests, QueryByAccount(r)
      PROVE  WalksOK'
  <2> DEFINE new == AddressesOf(ask[r]) \ seen[r]
  <2>1. new \subseteq Addresses
    BY DEF AddressesOf
  <2>2. seen' = [seen EXCEPT ![r] = seen[r] \union new] /\ ask' = [ask EXCEPT ![r] = new]
    BY <1>9 DEF QueryByAccount
  <2> HIDE DEF new
  <2>3. seen' \in [Requests -> SUBSET Addresses]
    BY <2>1, <2>2
  <2>6. new \in Asks
    BY <2>1, MayAsk
  <2>7. ask' \in [Requests -> Asks]
    BY <2>2, <2>6
  <2> QED
    BY <1>9, <2>3, <2>7 DEF QueryByAccount
<1>10. ASSUME NEW r \in Requests, SumFiles(r)
      PROVE  WalksOK'
  BY <1>10 DEF SumFiles, Listed
<1>11. ASSUME NEW r \in Requests, Throttle(r)
      PROVE  WalksOK'
  BY <1>11 DEF Throttle
<1>12. ASSUME NEW r \in Requests, Admit(r)
      PROVE  WalksOK'
  BY <1>12 DEF Admit
<1>13. ASSUME NEW r \in Requests, NEW u \in Uploads, CreateSession(r, u)
      PROVE  WalksOK'
  BY <1>13 DEF CreateSession, Enters
<1>14. ASSUME NEW r \in Requests, NEW u \in Uploads, CreateFile(r, u)
      PROVE  WalksOK'
  BY <1>14 DEF CreateFile, Enters
<1>15. ASSUME NEW r \in Requests, LoadSession(r)
      PROVE  WalksOK'
  BY <1>15 DEF LoadSession
<1>16. ASSUME NEW r \in Requests, FinalizeAndCreateFile(r)
      PROVE  WalksOK'
  BY <1>16 DEF FinalizeAndCreateFile
<1>17. ASSUME NEW r \in Requests, DropFromStorage(r)
      PROVE  WalksOK'
  BY <1>17 DEF DropFromStorage
<1>18. ASSUME NEW r \in Requests, SaveStatus(r)
      PROVE  WalksOK'
  BY <1>18 DEF SaveStatus
<1>19. ASSUME NEW r \in Requests, DeleteFile(r)
      PROVE  WalksOK'
  BY <1>19 DEF DeleteFile
<1>20. ASSUME NEW r \in Requests, DeleteFiles(r)
      PROVE  WalksOK'
  BY <1>20 DEF DeleteFiles
<1>21. ASSUME NEW r \in Requests, DeleteConnections(r)
      PROVE  WalksOK'
  BY <1>21 DEF DeleteConnections
<1>22. ASSUME NEW r \in Requests, DeleteUser(r)
      PROVE  WalksOK'
  BY <1>22 DEF DeleteUser
<1>23. ASSUME NEW r \in Requests, UnlockLimits(r)
      PROVE  WalksOK'
  BY <1>23 DEF UnlockLimits
<1>24. ASSUME NEW r \in Requests, LockLimits(r)
      PROVE  WalksOK'
  BY <1>24 DEF LockLimits
<1>25. ASSUME NEW r \in Requests, GivesUp(r)
      PROVE  WalksOK'
  BY <1>25 DEF GivesUp
<1>26. ASSUME NEW a \in Accounts, CookieExpires(a)
      PROVE  WalksOK'
  BY <1>26 DEF CookieExpires
<1>27. ASSUME NEW u \in Uploads, SessionRunsOut(u)
      PROVE  WalksOK'
  BY <1>27 DEF SessionRunsOut
<1>28. ASSUME NEW u \in Uploads, FileRollsOff(u)
      PROVE  WalksOK'
  BY <1>28 DEF FileRollsOff
<1>29. CASE Restart
  BY <1>29 DEF Restart
<1>30. CASE UNCHANGED vars
  BY <1>30 DEF vars, vars
<1>31. ASSUME NEW r \in Requests, SaveUser(r)
      PROVE  WalksOK'
  BY <1>31 DEF SaveUser
<1> HIDE DEF accountVars, uploadVars, unlockVars, requestVars, walkVars,
           WalksOK, Ends
<1> QED BY <1>1, <1>2, <1>3, <1>4, <1>5, <1>6, <1>7, <1>8, <1>9, <1>10, <1>11,
     <1>12, <1>13, <1>14, <1>15, <1>16, <1>17, <1>18, <1>19, <1>20, <1>21,
     <1>22, <1>23, <1>24, <1>25, <1>26, <1>27, <1>28, <1>29, <1>30, <1>31
     DEF Next, Step

(* A request that is running names account and address.                    *)
LEMMA KeepsNamed ==
  ASSUME RequestsOK,
         RequestsNamed,
         [Next]_vars
  PROVE  RequestsNamed'
<1> USE DEF accountVars, uploadVars, unlockVars, requestVars, walkVars
<1> USE DEF RequestsOK, RequestsNamed, Ends, Goes
<1>1. ASSUME NEW r \in Requests, NEW a \in Accounts, NEW ip \in Addresses, Request(r, a, ip)
      PROVE  RequestsNamed'
  <2>1. PICK k \in Kinds, u \in Uploads \union {None}, n \in Sizes \union {0} :
               Comes(r, k, a, ip, u, n)
    BY <1>1, RequestComes
  <2> QED
    BY <2>1 DEF Comes
<1>2. ASSUME NEW r \in Requests, FindUser(r)
      PROVE  RequestsNamed'
  BY <1>2 DEF FindUser, AfterLookup
<1>3. ASSUME NEW r \in Requests, CreateUser(r)
      PROVE  RequestsNamed'
  BY <1>3 DEF CreateUser
<1>4. ASSUME NEW r \in Requests, AccountIdTaken(r)
      PROVE  RequestsNamed'
  BY <1>4 DEF AccountIdTaken
<1>5. ASSUME NEW r \in Requests, Connect(r)
      PROVE  RequestsNamed'
  BY <1>5 DEF Connect
<1>6. ASSUME NEW r \in Requests, CookieLiftsQuota(r)
      PROVE  RequestsNamed'
  BY <1>6 DEF CookieLiftsQuota
<1>7. ASSUME NEW r \in Requests, BeginWalk(r)
      PROVE  RequestsNamed'
  BY <1>7 DEF BeginWalk
<1>8. ASSUME NEW r \in Requests, QueryByAddress(r)
      PROVE  RequestsNamed'
  BY <1>8 DEF QueryByAddress
<1>9. ASSUME NEW r \in Requests, QueryByAccount(r)
      PROVE  RequestsNamed'
  BY <1>9 DEF QueryByAccount
<1>10. ASSUME NEW r \in Requests, SumFiles(r)
      PROVE  RequestsNamed'
  BY <1>10 DEF SumFiles
<1>11. ASSUME NEW r \in Requests, Throttle(r)
      PROVE  RequestsNamed'
  BY <1>11 DEF Throttle
<1>12. ASSUME NEW r \in Requests, Admit(r)
      PROVE  RequestsNamed'
  BY <1>12 DEF Admit
<1>13. ASSUME NEW r \in Requests, NEW u \in Uploads, CreateSession(r, u)
      PROVE  RequestsNamed'
  BY <1>13 DEF CreateSession, Enters
<1>14. ASSUME NEW r \in Requests, NEW u \in Uploads, CreateFile(r, u)
      PROVE  RequestsNamed'
  BY <1>14 DEF CreateFile, Enters
<1>15. ASSUME NEW r \in Requests, LoadSession(r)
      PROVE  RequestsNamed'
  BY <1>15 DEF LoadSession
<1>16. ASSUME NEW r \in Requests, FinalizeAndCreateFile(r)
      PROVE  RequestsNamed'
  BY <1>16 DEF FinalizeAndCreateFile
<1>17. ASSUME NEW r \in Requests, DropFromStorage(r)
      PROVE  RequestsNamed'
  BY <1>17 DEF DropFromStorage
<1>18. ASSUME NEW r \in Requests, SaveStatus(r)
      PROVE  RequestsNamed'
  BY <1>18 DEF SaveStatus
<1>19. ASSUME NEW r \in Requests, DeleteFile(r)
      PROVE  RequestsNamed'
  BY <1>19 DEF DeleteFile
<1>20. ASSUME NEW r \in Requests, DeleteFiles(r)
      PROVE  RequestsNamed'
  BY <1>20 DEF DeleteFiles
<1>21. ASSUME NEW r \in Requests, DeleteConnections(r)
      PROVE  RequestsNamed'
  BY <1>21 DEF DeleteConnections
<1>22. ASSUME NEW r \in Requests, DeleteUser(r)
      PROVE  RequestsNamed'
  BY <1>22 DEF DeleteUser
<1>23. ASSUME NEW r \in Requests, UnlockLimits(r)
      PROVE  RequestsNamed'
  BY <1>23 DEF UnlockLimits
<1>24. ASSUME NEW r \in Requests, LockLimits(r)
      PROVE  RequestsNamed'
  BY <1>24 DEF LockLimits
<1>25. ASSUME NEW r \in Requests, GivesUp(r)
      PROVE  RequestsNamed'
  BY <1>25 DEF GivesUp
<1>26. ASSUME NEW a \in Accounts, CookieExpires(a)
      PROVE  RequestsNamed'
  BY <1>26 DEF CookieExpires
<1>27. ASSUME NEW u \in Uploads, SessionRunsOut(u)
      PROVE  RequestsNamed'
  BY <1>27 DEF SessionRunsOut
<1>28. ASSUME NEW u \in Uploads, FileRollsOff(u)
      PROVE  RequestsNamed'
  BY <1>28 DEF FileRollsOff
<1>29. CASE Restart
  BY <1>29 DEF Restart
<1>30. CASE UNCHANGED vars
  BY <1>30 DEF vars, vars
<1>31. ASSUME NEW r \in Requests, SaveUser(r)
      PROVE  RequestsNamed'
  BY <1>31 DEF SaveUser
<1> HIDE DEF accountVars, uploadVars, unlockVars, requestVars, walkVars,
           RequestsOK, RequestsNamed, Ends, Goes
<1> QED BY <1>1, <1>2, <1>3, <1>4, <1>5, <1>6, <1>7, <1>8, <1>9, <1>10, <1>11,
     <1>12, <1>13, <1>14, <1>15, <1>16, <1>17, <1>18, <1>19, <1>20, <1>21,
     <1>22, <1>23, <1>24, <1>25, <1>26, <1>27, <1>28, <1>29, <1>30, <1>31
     DEF Next, Step

(* A session has an owner.                                                 *)
LEMMA KeepsSessionsOwned ==
  ASSUME RowsOK,
         RequestsOK,
         RequestsNamed,
         UploadsNamed,
         KindsAgree,
         SessionsOwned,
         [Next]_vars
  PROVE  SessionsOwned'
<1> USE DEF accountVars, uploadVars, unlockVars, requestVars, walkVars
<1> USE DEF SessionsOwned, RowsOK, RequestsOK
<1>1. ASSUME NEW r \in Requests, NEW a \in Accounts, NEW ip \in Addresses, Request(r, a, ip)
      PROVE  SessionsOwned'
  <2>1. PICK k \in Kinds, u \in Uploads \union {None}, n \in Sizes \union {0} :
               Comes(r, k, a, ip, u, n)
    BY <1>1, RequestComes
  <2> QED
    BY <2>1 DEF Comes
<1>2. ASSUME NEW r \in Requests, FindUser(r)
      PROVE  SessionsOwned'
  BY <1>2 DEF FindUser, AfterLookup
<1>3. ASSUME NEW r \in Requests, CreateUser(r)
      PROVE  SessionsOwned'
  BY <1>3 DEF CreateUser
<1>4. ASSUME NEW r \in Requests, AccountIdTaken(r)
      PROVE  SessionsOwned'
  BY <1>4 DEF AccountIdTaken
<1>5. ASSUME NEW r \in Requests, Connect(r)
      PROVE  SessionsOwned'
  BY <1>5 DEF Connect
<1>6. ASSUME NEW r \in Requests, CookieLiftsQuota(r)
      PROVE  SessionsOwned'
  BY <1>6 DEF CookieLiftsQuota
<1>7. ASSUME NEW r \in Requests, BeginWalk(r)
      PROVE  SessionsOwned'
  BY <1>7 DEF BeginWalk
<1>8. ASSUME NEW r \in Requests, QueryByAddress(r)
      PROVE  SessionsOwned'
  BY <1>8 DEF QueryByAddress
<1>9. ASSUME NEW r \in Requests, QueryByAccount(r)
      PROVE  SessionsOwned'
  BY <1>9 DEF QueryByAccount
<1>10. ASSUME NEW r \in Requests, SumFiles(r)
      PROVE  SessionsOwned'
  BY <1>10 DEF SumFiles
<1>11. ASSUME NEW r \in Requests, Throttle(r)
      PROVE  SessionsOwned'
  BY <1>11 DEF Throttle
<1>12. ASSUME NEW r \in Requests, Admit(r)
      PROVE  SessionsOwned'
  BY <1>12 DEF Admit
<1>13. ASSUME NEW r \in Requests, NEW u \in Uploads, CreateSession(r, u)
      PROVE  SessionsOwned'
  <2>1. account[r] \in Accounts /\ account[r] # None
    BY <1>13 DEF CreateSession, Enters, RequestsNamed
  <2> QED
    BY <1>13, <2>1 DEF CreateSession, Enters
<1>14. ASSUME NEW r \in Requests, NEW u \in Uploads, CreateFile(r, u)
      PROVE  SessionsOwned'
  <2>1. account[r] \in Accounts /\ account[r] # None
    BY <1>14 DEF CreateFile, Enters, RequestsNamed
  <2> QED
    BY <1>14, <2>1 DEF CreateFile, Enters
<1>15. ASSUME NEW r \in Requests, LoadSession(r)
      PROVE  SessionsOwned'
  BY <1>15 DEF LoadSession
<1>16. ASSUME NEW r \in Requests, FinalizeAndCreateFile(r)
      PROVE  SessionsOwned'
  BY <1>16 DEF FinalizeAndCreateFile
<1>17. ASSUME NEW r \in Requests, DropFromStorage(r)
      PROVE  SessionsOwned'
  BY <1>17 DEF DropFromStorage
<1>18. ASSUME NEW r \in Requests, SaveStatus(r)
      PROVE  SessionsOwned'
  <2>1. upload[r] \in Uploads /\ owner[upload[r]] # None
    BY <1>18 DEF SaveStatus, UploadsNamed, NamesUpload, KindsAgree
  <2> QED
    BY <1>18, <2>1 DEF SaveStatus
<1>19. ASSUME NEW r \in Requests, DeleteFile(r)
      PROVE  SessionsOwned'
  BY <1>19 DEF DeleteFile
<1>20. ASSUME NEW r \in Requests, DeleteFiles(r)
      PROVE  SessionsOwned'
  BY <1>20 DEF DeleteFiles
<1>21. ASSUME NEW r \in Requests, DeleteConnections(r)
      PROVE  SessionsOwned'
  BY <1>21 DEF DeleteConnections
<1>22. ASSUME NEW r \in Requests, DeleteUser(r)
      PROVE  SessionsOwned'
  BY <1>22 DEF DeleteUser
<1>23. ASSUME NEW r \in Requests, UnlockLimits(r)
      PROVE  SessionsOwned'
  BY <1>23 DEF UnlockLimits
<1>24. ASSUME NEW r \in Requests, LockLimits(r)
      PROVE  SessionsOwned'
  BY <1>24 DEF LockLimits
<1>25. ASSUME NEW r \in Requests, GivesUp(r)
      PROVE  SessionsOwned'
  BY <1>25 DEF GivesUp
<1>26. ASSUME NEW a \in Accounts, CookieExpires(a)
      PROVE  SessionsOwned'
  BY <1>26 DEF CookieExpires
<1>27. ASSUME NEW u \in Uploads, SessionRunsOut(u)
      PROVE  SessionsOwned'
  BY <1>27 DEF SessionRunsOut
<1>28. ASSUME NEW u \in Uploads, FileRollsOff(u)
      PROVE  SessionsOwned'
  BY <1>28 DEF FileRollsOff
<1>29. CASE Restart
  BY <1>29 DEF Restart
<1>30. CASE UNCHANGED vars
  BY <1>30 DEF vars, vars
<1>31. ASSUME NEW r \in Requests, SaveUser(r)
      PROVE  SessionsOwned'
  BY <1>31 DEF SaveUser
<1> HIDE DEF accountVars, uploadVars, unlockVars, requestVars, walkVars,
           SessionsOwned, RowsOK, RequestsOK
<1> QED BY <1>1, <1>2, <1>3, <1>4, <1>5, <1>6, <1>7, <1>8, <1>9, <1>10, <1>11,
     <1>12, <1>13, <1>14, <1>15, <1>16, <1>17, <1>18, <1>19, <1>20, <1>21,
     <1>22, <1>23, <1>24, <1>25, <1>26, <1>27, <1>28, <1>29, <1>30, <1>31
     DEF Next, Step

(* A request about an upload names one that has an owner.                  *)
LEMMA KeepsUploadsNamed ==
  ASSUME RowsOK,
         RequestsOK,
         RequestsNamed,
         UploadsNamed,
         [Next]_vars
  PROVE  UploadsNamed'
<1> USE DEF accountVars, uploadVars, unlockVars, requestVars, walkVars
<1> USE DEF RowsOK, RequestsOK, UploadsNamed, Ends, Goes
<1>1. ASSUME NEW r \in Requests, NEW a \in Accounts, NEW ip \in Addresses, Request(r, a, ip)
      PROVE  UploadsNamed'
  <2>1. PICK k \in Kinds, u \in Uploads \union {None}, n \in Sizes \union {0} :
               Comes(r, k, a, ip, u, n)
    BY <1>1, RequestComes
  <2> QED
    BY <2>1, KindsAreKinds DEF Comes
<1>2. ASSUME NEW r \in Requests, FindUser(r)
      PROVE  UploadsNamed'
  BY <1>2 DEF FindUser, AfterLookup
<1>3. ASSUME NEW r \in Requests, CreateUser(r)
      PROVE  UploadsNamed'
  BY <1>3 DEF CreateUser
<1>4. ASSUME NEW r \in Requests, AccountIdTaken(r)
      PROVE  UploadsNamed'
  BY <1>4, KindsAreKinds DEF AccountIdTaken
<1>5. ASSUME NEW r \in Requests, Connect(r)
      PROVE  UploadsNamed'
  BY <1>5 DEF Connect
<1>6. ASSUME NEW r \in Requests, CookieLiftsQuota(r)
      PROVE  UploadsNamed'
  BY <1>6 DEF CookieLiftsQuota
<1>7. ASSUME NEW r \in Requests, BeginWalk(r)
      PROVE  UploadsNamed'
  BY <1>7 DEF BeginWalk
<1>8. ASSUME NEW r \in Requests, QueryByAddress(r)
      PROVE  UploadsNamed'
  BY <1>8 DEF QueryByAddress
<1>9. ASSUME NEW r \in Requests, QueryByAccount(r)
      PROVE  UploadsNamed'
  BY <1>9 DEF QueryByAccount
<1>10. ASSUME NEW r \in Requests, SumFiles(r)
      PROVE  UploadsNamed'
  BY <1>10 DEF SumFiles
<1>11. ASSUME NEW r \in Requests, Throttle(r)
      PROVE  UploadsNamed'
  BY <1>11, KindsAreKinds DEF Throttle
<1>12. ASSUME NEW r \in Requests, Admit(r)
      PROVE  UploadsNamed'
  BY <1>12 DEF Admit
<1>13. ASSUME NEW r \in Requests, NEW u \in Uploads, CreateSession(r, u)
      PROVE  UploadsNamed'
  <2>1. account[r] \in Accounts /\ account[r] # None
    BY <1>13 DEF CreateSession, Enters, RequestsNamed
  <2> QED
    BY <1>13, <2>1, KindsAreKinds DEF CreateSession, Enters
<1>14. ASSUME NEW r \in Requests, NEW u \in Uploads, CreateFile(r, u)
      PROVE  UploadsNamed'
  <2>1. account[r] \in Accounts /\ account[r] # None
    BY <1>14 DEF CreateFile, Enters, RequestsNamed
  <2> QED
    BY <1>14, <2>1, KindsAreKinds DEF CreateFile, Enters
<1>15. ASSUME NEW r \in Requests, LoadSession(r)
      PROVE  UploadsNamed'
  BY <1>15 DEF LoadSession
<1>16. ASSUME NEW r \in Requests, FinalizeAndCreateFile(r)
      PROVE  UploadsNamed'
  BY <1>16, KindsAreKinds DEF FinalizeAndCreateFile
<1>17. ASSUME NEW r \in Requests, DropFromStorage(r)
      PROVE  UploadsNamed'
  BY <1>17 DEF DropFromStorage
<1>18. ASSUME NEW r \in Requests, SaveStatus(r)
      PROVE  UploadsNamed'
  BY <1>18, KindsAreKinds DEF SaveStatus
<1>19. ASSUME NEW r \in Requests, DeleteFile(r)
      PROVE  UploadsNamed'
  BY <1>19, KindsAreKinds DEF DeleteFile
<1>20. ASSUME NEW r \in Requests, DeleteFiles(r)
      PROVE  UploadsNamed'
  BY <1>20 DEF DeleteFiles
<1>21. ASSUME NEW r \in Requests, DeleteConnections(r)
      PROVE  UploadsNamed'
  BY <1>21 DEF DeleteConnections
<1>22. ASSUME NEW r \in Requests, DeleteUser(r)
      PROVE  UploadsNamed'
  BY <1>22, KindsAreKinds DEF DeleteUser
<1>23. ASSUME NEW r \in Requests, UnlockLimits(r)
      PROVE  UploadsNamed'
  BY <1>23, KindsAreKinds DEF UnlockLimits
<1>24. ASSUME NEW r \in Requests, LockLimits(r)
      PROVE  UploadsNamed'
  BY <1>24, KindsAreKinds DEF LockLimits
<1>25. ASSUME NEW r \in Requests, GivesUp(r)
      PROVE  UploadsNamed'
  BY <1>25, KindsAreKinds DEF GivesUp
<1>26. ASSUME NEW a \in Accounts, CookieExpires(a)
      PROVE  UploadsNamed'
  BY <1>26 DEF CookieExpires
<1>27. ASSUME NEW u \in Uploads, SessionRunsOut(u)
      PROVE  UploadsNamed'
  BY <1>27 DEF SessionRunsOut
<1>28. ASSUME NEW u \in Uploads, FileRollsOff(u)
      PROVE  UploadsNamed'
  BY <1>28 DEF FileRollsOff
<1>29. CASE Restart
  BY <1>29, KindsAreKinds DEF Restart
<1>30. CASE UNCHANGED vars
  BY <1>30 DEF vars, vars
<1>31. ASSUME NEW r \in Requests, SaveUser(r)
      PROVE  UploadsNamed'
  BY <1>31 DEF SaveUser
<1> HIDE DEF accountVars, uploadVars, unlockVars, requestVars, walkVars,
           RowsOK, RequestsOK, UploadsNamed, Ends, Goes
<1> QED BY <1>1, <1>2, <1>3, <1>4, <1>5, <1>6, <1>7, <1>8, <1>9, <1>10, <1>11,
     <1>12, <1>13, <1>14, <1>15, <1>16, <1>17, <1>18, <1>19, <1>20, <1>21,
     <1>22, <1>23, <1>24, <1>25, <1>26, <1>27, <1>28, <1>29, <1>30, <1>31
     DEF Next, Step

(* Where a request is goes with what it is.                                *)
LEMMA KeepsKinds ==
  ASSUME RequestsOK,
         KindsAgree,
         [Next]_vars
  PROVE  KindsAgree'
<1> USE DEF accountVars, uploadVars, unlockVars, requestVars, walkVars
<1> USE DEF RequestsOK, KindsAgree, Ends, Goes
<1>1. ASSUME NEW r \in Requests, NEW a \in Accounts, NEW ip \in Addresses, Request(r, a, ip)
      PROVE  KindsAgree'
  <2>1. PICK k \in Kinds, u \in Uploads \union {None}, n \in Sizes \union {0} :
               Comes(r, k, a, ip, u, n)
    BY <1>1, RequestComes
  <2> QED
    BY <2>1 DEF Comes
<1>2. ASSUME NEW r \in Requests, FindUser(r)
      PROVE  KindsAgree'
  BY <1>2 DEF FindUser, AfterLookup
<1>3. ASSUME NEW r \in Requests, CreateUser(r)
      PROVE  KindsAgree'
  BY <1>3 DEF CreateUser
<1>4. ASSUME NEW r \in Requests, AccountIdTaken(r)
      PROVE  KindsAgree'
  BY <1>4 DEF AccountIdTaken
<1>5. ASSUME NEW r \in Requests, Connect(r)
      PROVE  KindsAgree'
  BY <1>5 DEF Connect
<1>6. ASSUME NEW r \in Requests, CookieLiftsQuota(r)
      PROVE  KindsAgree'
  BY <1>6 DEF CookieLiftsQuota
<1>7. ASSUME NEW r \in Requests, BeginWalk(r)
      PROVE  KindsAgree'
  BY <1>7 DEF BeginWalk
<1>8. ASSUME NEW r \in Requests, QueryByAddress(r)
      PROVE  KindsAgree'
  BY <1>8 DEF QueryByAddress, AfterWalk
<1>9. ASSUME NEW r \in Requests, QueryByAccount(r)
      PROVE  KindsAgree'
  BY <1>9 DEF QueryByAccount, AfterWalk
<1>10. ASSUME NEW r \in Requests, SumFiles(r)
      PROVE  KindsAgree'
  BY <1>10 DEF SumFiles
<1>11. ASSUME NEW r \in Requests, Throttle(r)
      PROVE  KindsAgree'
  BY <1>11 DEF Throttle
<1>12. ASSUME NEW r \in Requests, Admit(r)
      PROVE  KindsAgree'
  BY <1>12 DEF Admit
<1>13. ASSUME NEW r \in Requests, NEW u \in Uploads, CreateSession(r, u)
      PROVE  KindsAgree'
  BY <1>13 DEF CreateSession, Enters
<1>14. ASSUME NEW r \in Requests, NEW u \in Uploads, CreateFile(r, u)
      PROVE  KindsAgree'
  BY <1>14 DEF CreateFile, Enters
<1>15. ASSUME NEW r \in Requests, LoadSession(r)
      PROVE  KindsAgree'
  BY <1>15 DEF LoadSession, OfSession
<1>16. ASSUME NEW r \in Requests, FinalizeAndCreateFile(r)
      PROVE  KindsAgree'
  BY <1>16 DEF FinalizeAndCreateFile, OfSession
<1>17. ASSUME NEW r \in Requests, DropFromStorage(r)
      PROVE  KindsAgree'
  BY <1>17 DEF DropFromStorage, OfSession
<1>18. ASSUME NEW r \in Requests, SaveStatus(r)
      PROVE  KindsAgree'
  BY <1>18 DEF SaveStatus
<1>19. ASSUME NEW r \in Requests, DeleteFile(r)
      PROVE  KindsAgree'
  BY <1>19 DEF DeleteFile
<1>20. ASSUME NEW r \in Requests, DeleteFiles(r)
      PROVE  KindsAgree'
  BY <1>20 DEF DeleteFiles
<1>21. ASSUME NEW r \in Requests, DeleteConnections(r)
      PROVE  KindsAgree'
  BY <1>21 DEF DeleteConnections
<1>22. ASSUME NEW r \in Requests, DeleteUser(r)
      PROVE  KindsAgree'
  BY <1>22 DEF DeleteUser
<1>23. ASSUME NEW r \in Requests, UnlockLimits(r)
      PROVE  KindsAgree'
  BY <1>23 DEF UnlockLimits
<1>24. ASSUME NEW r \in Requests, LockLimits(r)
      PROVE  KindsAgree'
  BY <1>24 DEF LockLimits
<1>25. ASSUME NEW r \in Requests, GivesUp(r)
      PROVE  KindsAgree'
  BY <1>25 DEF GivesUp
<1>26. ASSUME NEW a \in Accounts, CookieExpires(a)
      PROVE  KindsAgree'
  BY <1>26 DEF CookieExpires
<1>27. ASSUME NEW u \in Uploads, SessionRunsOut(u)
      PROVE  KindsAgree'
  BY <1>27 DEF SessionRunsOut
<1>28. ASSUME NEW u \in Uploads, FileRollsOff(u)
      PROVE  KindsAgree'
  BY <1>28 DEF FileRollsOff
<1>29. CASE Restart
  BY <1>29 DEF Restart
<1>30. CASE UNCHANGED vars
  BY <1>30 DEF vars, vars
<1>31. ASSUME NEW r \in Requests, SaveUser(r)
      PROVE  KindsAgree'
  BY <1>31 DEF SaveUser
<1> HIDE DEF accountVars, uploadVars, unlockVars, requestVars, walkVars,
           RequestsOK, KindsAgree, Ends, Goes
<1> QED BY <1>1, <1>2, <1>3, <1>4, <1>5, <1>6, <1>7, <1>8, <1>9, <1>10, <1>11,
     <1>12, <1>13, <1>14, <1>15, <1>16, <1>17, <1>18, <1>19, <1>20, <1>21,
     <1>22, <1>23, <1>24, <1>25, <1>26, <1>27, <1>28, <1>29, <1>30, <1>31
     DEF Next, Step

(***************************************************************************)
(* What is listed is not reserved for.                                     *)
(***************************************************************************)
(* An upload is charged twice only while its complete is between its       *)
(* writes.                                                                 *)
LEMMA KeepsChargedOnce ==
  ASSUME RowsOK,
         RequestsOK,
         UploadsNamed,
         KindsAgree,
         ChargedOnce,
         [Next]_vars
  PROVE  ChargedOnce'
<1> USE DEF accountVars, uploadVars, unlockVars, requestVars, walkVars
<1> USE DEF RowsOK, RequestsOK, ChargedOnce, Settling, Ends, Goes, Failures
<1>1. ASSUME NEW r \in Requests, NEW a \in Accounts, NEW ip \in Addresses, Request(r, a, ip)
      PROVE  ChargedOnce'
  <2>1. PICK k \in Kinds, u \in Uploads \union {None}, n \in Sizes \union {0} :
               Comes(r, k, a, ip, u, n)
    BY <1>1, RequestComes
  <2> QED
    BY <2>1 DEF Comes
<1>2. ASSUME NEW r \in Requests, FindUser(r)
      PROVE  ChargedOnce'
  <2>1. PICK place \in {"saving user", "connecting", "creating user"} :
               /\ pc[r] = "finding" /\ pc' = [pc EXCEPT ![r] = place]
               /\ UNCHANGED <<use, requestVars, uploadVars>>
    BY <1>2 DEF FindUser, AfterLookup
  <2>2. \A q \in Requests : pc'[q] = pc[q] \/ (q = r /\ pc'[q] = place)
    BY <2>1
  <2>3. \A q \in Requests : pc'[q] \in {"loaded", "settling"} => pc'[q] = pc[q]
    BY <2>1, <2>2
  <2>4. \A q \in Requests : pc[q] \in {"loaded", "settling"} => pc'[q] = pc[q]
    BY <2>1, <2>2
  <2> QED
    BY <2>1, <2>3, <2>4
<1>3. ASSUME NEW r \in Requests, CreateUser(r)
      PROVE  ChargedOnce'
  <2>1. /\ pc[r] = "creating user" /\ pc' = [pc EXCEPT ![r] = "saving user"]
        /\ UNCHANGED <<use, upload, file, session>>
    BY <1>3 DEF CreateUser
  <2> QED
    BY <2>1
<1>4. ASSUME NEW r \in Requests, AccountIdTaken(r)
      PROVE  ChargedOnce'
  BY <1>4 DEF AccountIdTaken
<1>5. ASSUME NEW r \in Requests, Connect(r)
      PROVE  ChargedOnce'
  BY <1>5 DEF Connect
<1>6. ASSUME NEW r \in Requests, CookieLiftsQuota(r)
      PROVE  ChargedOnce'
  BY <1>6 DEF CookieLiftsQuota
<1>7. ASSUME NEW r \in Requests, BeginWalk(r)
      PROVE  ChargedOnce'
  BY <1>7 DEF BeginWalk
<1>8. ASSUME NEW r \in Requests, QueryByAddress(r)
      PROVE  ChargedOnce'
  BY <1>8 DEF QueryByAddress, AfterWalk
<1>9. ASSUME NEW r \in Requests, QueryByAccount(r)
      PROVE  ChargedOnce'
  BY <1>9 DEF QueryByAccount, AfterWalk
<1>10. ASSUME NEW r \in Requests, SumFiles(r)
      PROVE  ChargedOnce'
  BY <1>10 DEF SumFiles
<1>11. ASSUME NEW r \in Requests, Throttle(r)
      PROVE  ChargedOnce'
  BY <1>11 DEF Throttle
<1>12. ASSUME NEW r \in Requests, Admit(r)
      PROVE  ChargedOnce'
  BY <1>12 DEF Admit
<1>13. ASSUME NEW r \in Requests, NEW u \in Uploads, CreateSession(r, u)
      PROVE  ChargedOnce'
  BY <1>13 DEF CreateSession, Enters, Fresh
<1>14. ASSUME NEW r \in Requests, NEW u \in Uploads, CreateFile(r, u)
      PROVE  ChargedOnce'
  BY <1>14 DEF CreateFile, Enters, Fresh
<1>15. ASSUME NEW r \in Requests, LoadSession(r)
      PROVE  ChargedOnce'
  BY <1>15 DEF LoadSession
<1>16. ASSUME NEW r \in Requests, FinalizeAndCreateFile(r)
      PROVE  ChargedOnce'
  BY <1>16 DEF FinalizeAndCreateFile, UploadsNamed, NamesUpload, OfSession
<1>17. ASSUME NEW r \in Requests, DropFromStorage(r)
      PROVE  ChargedOnce'
  BY <1>17 DEF DropFromStorage
<1>18. ASSUME NEW r \in Requests, SaveStatus(r)
      PROVE  ChargedOnce'
  BY <1>18 DEF SaveStatus, StatusAfter, OfSession, KindsAgree, UploadsNamed,
     NamesUpload
<1>19. ASSUME NEW r \in Requests, DeleteFile(r)
      PROVE  ChargedOnce'
  BY <1>19 DEF DeleteFile
<1>20. ASSUME NEW r \in Requests, DeleteFiles(r)
      PROVE  ChargedOnce'
  BY <1>20 DEF DeleteFiles
<1>21. ASSUME NEW r \in Requests, DeleteConnections(r)
      PROVE  ChargedOnce'
  BY <1>21 DEF DeleteConnections
<1>22. ASSUME NEW r \in Requests, DeleteUser(r)
      PROVE  ChargedOnce'
  BY <1>22 DEF DeleteUser
<1>23. ASSUME NEW r \in Requests, UnlockLimits(r)
      PROVE  ChargedOnce'
  BY <1>23 DEF UnlockLimits
<1>24. ASSUME NEW r \in Requests, LockLimits(r)
      PROVE  ChargedOnce'
  BY <1>24 DEF LockLimits
<1>25. ASSUME NEW r \in Requests, GivesUp(r)
      PROVE  ChargedOnce'
  BY <1>25 DEF GivesUp, NothingToDo
<1>26. ASSUME NEW a \in Accounts, CookieExpires(a)
      PROVE  ChargedOnce'
  BY <1>26 DEF CookieExpires
<1>27. ASSUME NEW u \in Uploads, SessionRunsOut(u)
      PROVE  ChargedOnce'
  BY <1>27 DEF SessionRunsOut
<1>28. ASSUME NEW u \in Uploads, FileRollsOff(u)
      PROVE  ChargedOnce'
  BY <1>28 DEF FileRollsOff
<1>29. CASE Restart
  BY <1>29 DEF Restart
<1>30. CASE UNCHANGED vars
  BY <1>30 DEF vars, vars
<1>31. ASSUME NEW r \in Requests, SaveUser(r)
      PROVE  ChargedOnce'
  <2>1. /\ pc[r] = "saving user" /\ pc' = [pc EXCEPT ![r] = "connecting"]
        /\ UNCHANGED <<use, upload, file, session>>
    BY <1>31 DEF SaveUser
  <2> QED
    BY <2>1
<1> HIDE DEF accountVars, uploadVars, unlockVars, requestVars, walkVars,
           RowsOK, RequestsOK, ChargedOnce, Settling, Ends, Goes, Failures
<1> QED BY <1>1, <1>2, <1>3, <1>4, <1>5, <1>6, <1>7, <1>8, <1>9, <1>10, <1>11,
     <1>12, <1>13, <1>14, <1>15, <1>16, <1>17, <1>18, <1>19, <1>20, <1>21,
     <1>22, <1>23, <1>24, <1>25, <1>26, <1>27, <1>28, <1>29, <1>30, <1>31
     DEF Next, Step

(***************************************************************************)
(* The walk.                                                               *)
(***************************************************************************)
LinksGrow == connections \subseteq connections'

(* Where no account is deleted, links are never undone.                    *)
LEMMA LinksStay ==
  ASSUME RowsOK,
         RequestsOK,
         KindsAgree,
         "DeleteAccount" \notin use,
         [Next]_vars
  PROVE  LinksGrow
<1> USE DEF accountVars, uploadVars, unlockVars, requestVars, walkVars
<1>1. ASSUME NEW r \in Requests, NEW a \in Accounts, NEW ip \in Addresses, Request(r, a, ip)
      PROVE  LinksGrow
  <2>1. PICK k \in Kinds, u \in Uploads \union {None}, n \in Sizes \union {0} :
               Comes(r, k, a, ip, u, n)
    BY <1>1, RequestComes
  <2> QED
    BY <2>1 DEF Comes, LinksGrow
<1>2. ASSUME NEW r \in Requests, FindUser(r)
      PROVE  LinksGrow
  BY <1>2 DEF FindUser, AfterLookup, LinksGrow
<1>3. ASSUME NEW r \in Requests, CreateUser(r)
      PROVE  LinksGrow
  BY <1>3 DEF CreateUser, LinksGrow
<1>4. ASSUME NEW r \in Requests, AccountIdTaken(r)
      PROVE  LinksGrow
  BY <1>4 DEF AccountIdTaken, LinksGrow
<1>5. ASSUME NEW r \in Requests, Connect(r)
      PROVE  LinksGrow
  BY <1>5 DEF Connect, LinksGrow
<1>6. ASSUME NEW r \in Requests, CookieLiftsQuota(r)
      PROVE  LinksGrow
  BY <1>6 DEF CookieLiftsQuota, LinksGrow
<1>7. ASSUME NEW r \in Requests, BeginWalk(r)
      PROVE  LinksGrow
  BY <1>7 DEF BeginWalk, LinksGrow
<1>8. ASSUME NEW r \in Requests, QueryByAddress(r)
      PROVE  LinksGrow
  BY <1>8 DEF QueryByAddress, LinksGrow
<1>9. ASSUME NEW r \in Requests, QueryByAccount(r)
      PROVE  LinksGrow
  BY <1>9 DEF QueryByAccount, LinksGrow
<1>10. ASSUME NEW r \in Requests, SumFiles(r)
      PROVE  LinksGrow
  BY <1>10 DEF SumFiles, LinksGrow
<1>11. ASSUME NEW r \in Requests, Throttle(r)
      PROVE  LinksGrow
  BY <1>11 DEF Throttle, LinksGrow
<1>12. ASSUME NEW r \in Requests, Admit(r)
      PROVE  LinksGrow
  BY <1>12 DEF Admit, LinksGrow
<1>13. ASSUME NEW r \in Requests, NEW u \in Uploads, CreateSession(r, u)
      PROVE  LinksGrow
  BY <1>13 DEF CreateSession, Enters, LinksGrow
<1>14. ASSUME NEW r \in Requests, NEW u \in Uploads, CreateFile(r, u)
      PROVE  LinksGrow
  BY <1>14 DEF CreateFile, Enters, LinksGrow
<1>15. ASSUME NEW r \in Requests, LoadSession(r)
      PROVE  LinksGrow
  BY <1>15 DEF LoadSession, LinksGrow
<1>16. ASSUME NEW r \in Requests, FinalizeAndCreateFile(r)
      PROVE  LinksGrow
  BY <1>16 DEF FinalizeAndCreateFile, LinksGrow
<1>17. ASSUME NEW r \in Requests, DropFromStorage(r)
      PROVE  LinksGrow
  BY <1>17 DEF DropFromStorage, LinksGrow
<1>18. ASSUME NEW r \in Requests, SaveStatus(r)
      PROVE  LinksGrow
  BY <1>18 DEF SaveStatus, LinksGrow
<1>19. ASSUME NEW r \in Requests, DeleteFile(r)
      PROVE  LinksGrow
  BY <1>19 DEF DeleteFile, LinksGrow
<1>20. ASSUME NEW r \in Requests, DeleteFiles(r)
      PROVE  LinksGrow
  BY <1>20 DEF DeleteFiles, LinksGrow
<1>21. ASSUME NEW r \in Requests, DeleteConnections(r)
      PROVE  LinksGrow
  BY <1>21, KindsAreKinds DEF DeleteConnections, KindsAgree, LinksGrow
<1>22. ASSUME NEW r \in Requests, DeleteUser(r)
      PROVE  LinksGrow
  BY <1>22 DEF DeleteUser, LinksGrow
<1>23. ASSUME NEW r \in Requests, UnlockLimits(r)
      PROVE  LinksGrow
  BY <1>23 DEF UnlockLimits, LinksGrow
<1>24. ASSUME NEW r \in Requests, LockLimits(r)
      PROVE  LinksGrow
  BY <1>24 DEF LockLimits, LinksGrow
<1>25. ASSUME NEW r \in Requests, GivesUp(r)
      PROVE  LinksGrow
  BY <1>25 DEF GivesUp, LinksGrow
<1>26. ASSUME NEW a \in Accounts, CookieExpires(a)
      PROVE  LinksGrow
  BY <1>26 DEF CookieExpires, LinksGrow
<1>27. ASSUME NEW u \in Uploads, SessionRunsOut(u)
      PROVE  LinksGrow
  BY <1>27 DEF SessionRunsOut, LinksGrow
<1>28. ASSUME NEW u \in Uploads, FileRollsOff(u)
      PROVE  LinksGrow
  BY <1>28 DEF FileRollsOff, LinksGrow
<1>29. CASE Restart
  BY <1>29 DEF Restart, LinksGrow
<1>30. CASE UNCHANGED vars
  BY <1>30 DEF vars, LinksGrow
<1>31. ASSUME NEW r \in Requests, SaveUser(r)
      PROVE  LinksGrow
  BY <1>31 DEF SaveUser, LinksGrow
<1> HIDE DEF accountVars, uploadVars, unlockVars, requestVars, walkVars
<1> QED BY <1>1, <1>2, <1>3, <1>4, <1>5, <1>6, <1>7, <1>8, <1>9, <1>10, <1>11,
     <1>12, <1>13, <1>14, <1>15, <1>16, <1>17, <1>18, <1>19, <1>20, <1>21,
     <1>22, <1>23, <1>24, <1>25, <1>26, <1>27, <1>28, <1>29, <1>30, <1>31
     DEF Next, Step

(* A walk stands, or its end is followed by the sums.                      *)
WalkKept(q) ==
  /\ pc[q] \in Walking
  /\ pc'[q] = pc[q] \/ (pc[q] = "summing files" /\ pc'[q] = "summing sessions")
  /\ address'[q] = address[q]
  /\ found'[q] = found[q]
  /\ seen'[q] = seen[q]
  /\ ask'[q] = ask[q]
  /\ before'[q] = before[q]

WalkGoes(q) ==
  pc'[q] \in Walking =>
    WalkKept(q) \/ BeginWalk(q) \/ QueryByAddress(q) \/ QueryByAccount(q)

(* A walk stands, begins, or makes a query.                                *)
LEMMA WalkersStep ==
  ASSUME RequestsOK,
         WalksOK,
         NEW q \in Requests,
         [Next]_vars
  PROVE  WalkGoes(q)
<1> USE DEF accountVars, uploadVars, unlockVars, requestVars, walkVars
<1> USE DEF RequestsOK, WalksOK
<1>1. ASSUME NEW r \in Requests, NEW a \in Accounts, NEW ip \in Addresses, Request(r, a, ip)
      PROVE  WalkGoes(q)
  <2>1. PICK k \in Kinds, u \in Uploads \union {None}, n \in Sizes \union {0} :
               Comes(r, k, a, ip, u, n)
    BY <1>1, RequestComes
  <2>2. WalkKept(q) \/ pc'[q] \notin Walking
    BY <2>1 DEF Comes, WalkKept, Walking
  <2> QED
    BY <2>2 DEF WalkGoes
<1>2. ASSUME NEW r \in Requests, FindUser(r)
      PROVE  WalkGoes(q)
  <2>1. WalkKept(q) \/ pc'[q] \notin Walking
    BY <1>2 DEF FindUser, AfterLookup, Goes, Ends, WalkKept, Walking
  <2> QED
    BY <2>1 DEF WalkGoes
<1>3. ASSUME NEW r \in Requests, CreateUser(r)
      PROVE  WalkGoes(q)
  <2>1. WalkKept(q) \/ pc'[q] \notin Walking
    BY <1>3 DEF CreateUser, Goes, Ends, WalkKept, Walking
  <2> QED
    BY <2>1 DEF WalkGoes
<1>4. ASSUME NEW r \in Requests, AccountIdTaken(r)
      PROVE  WalkGoes(q)
  <2>1. WalkKept(q) \/ pc'[q] \notin Walking
    BY <1>4 DEF AccountIdTaken, Goes, Ends, WalkKept, Walking
  <2> QED
    BY <2>1 DEF WalkGoes
<1>5. ASSUME NEW r \in Requests, Connect(r)
      PROVE  WalkGoes(q)
  <2>1. WalkKept(q) \/ pc'[q] \notin Walking
    BY <1>5 DEF Connect, Goes, Ends, WalkKept, Walking
  <2> QED
    BY <2>1 DEF WalkGoes
<1>6. ASSUME NEW r \in Requests, CookieLiftsQuota(r)
      PROVE  WalkGoes(q)
  <2>1. WalkKept(q) \/ pc'[q] \notin Walking
    BY <1>6 DEF CookieLiftsQuota, Goes, Ends, WalkKept, Walking
  <2> QED
    BY <2>1 DEF WalkGoes
<1>7. ASSUME NEW r \in Requests, BeginWalk(r)
      PROVE  WalkGoes(q)
  <2>1. CASE q = r
    BY <1>7, <2>1 DEF WalkGoes
  <2>2. CASE q # r
    <3>1. WalkKept(q) \/ pc'[q] \notin Walking
      BY <1>7, <2>2 DEF BeginWalk, Goes, WalkKept
    <3> QED
      BY <3>1 DEF WalkGoes
  <2> QED
    BY <2>1, <2>2
<1>8. ASSUME NEW r \in Requests, QueryByAddress(r)
      PROVE  WalkGoes(q)
  <2>1. CASE q = r
    BY <1>8, <2>1 DEF WalkGoes
  <2>2. CASE q # r
    <3>1. WalkKept(q) \/ pc'[q] \notin Walking
      BY <1>8, <2>2 DEF QueryByAddress, Goes, WalkKept
    <3> QED
      BY <3>1 DEF WalkGoes
  <2> QED
    BY <2>1, <2>2
<1>9. ASSUME NEW r \in Requests, QueryByAccount(r)
      PROVE  WalkGoes(q)
  <2>1. CASE q = r
    BY <1>9, <2>1 DEF WalkGoes
  <2>2. CASE q # r
    <3>1. WalkKept(q) \/ pc'[q] \notin Walking
      BY <1>9, <2>2 DEF QueryByAccount, Goes, WalkKept
    <3> QED
      BY <3>1 DEF WalkGoes
  <2> QED
    BY <2>1, <2>2
<1>10. ASSUME NEW r \in Requests, SumFiles(r)
      PROVE  WalkGoes(q)
  <2>1. WalkKept(q) \/ pc'[q] \notin Walking
    BY <1>10 DEF SumFiles, Goes, Ends, WalkKept, Walking
  <2> QED
    BY <2>1 DEF WalkGoes
<1>11. ASSUME NEW r \in Requests, Throttle(r)
      PROVE  WalkGoes(q)
  <2>1. WalkKept(q) \/ pc'[q] \notin Walking
    BY <1>11 DEF Throttle, Goes, Ends, WalkKept, Walking
  <2> QED
    BY <2>1 DEF WalkGoes
<1>12. ASSUME NEW r \in Requests, Admit(r)
      PROVE  WalkGoes(q)
  <2>1. WalkKept(q) \/ pc'[q] \notin Walking
    BY <1>12 DEF Admit, Goes, Ends, WalkKept, Walking
  <2> QED
    BY <2>1 DEF WalkGoes
<1>13. ASSUME NEW r \in Requests, NEW u \in Uploads, CreateSession(r, u)
      PROVE  WalkGoes(q)
  <2>1. WalkKept(q) \/ pc'[q] \notin Walking
    BY <1>13 DEF CreateSession, Enters, Goes, Ends, WalkKept, Walking
  <2> QED
    BY <2>1 DEF WalkGoes
<1>14. ASSUME NEW r \in Requests, NEW u \in Uploads, CreateFile(r, u)
      PROVE  WalkGoes(q)
  <2>1. WalkKept(q) \/ pc'[q] \notin Walking
    BY <1>14 DEF CreateFile, Enters, Goes, Ends, WalkKept, Walking
  <2> QED
    BY <2>1 DEF WalkGoes
<1>15. ASSUME NEW r \in Requests, LoadSession(r)
      PROVE  WalkGoes(q)
  <2>1. WalkKept(q) \/ pc'[q] \notin Walking
    BY <1>15 DEF LoadSession, Goes, Ends, WalkKept, Walking
  <2> QED
    BY <2>1 DEF WalkGoes
<1>16. ASSUME NEW r \in Requests, FinalizeAndCreateFile(r)
      PROVE  WalkGoes(q)
  <2>1. WalkKept(q) \/ pc'[q] \notin Walking
    <3>1. CASE q = r
      <4>1. pc'[q] \in {"settling", "idle"}
        BY <1>16, <3>1 DEF FinalizeAndCreateFile, Goes, Ends
      <4> QED
        BY <4>1 DEF Walking
    <3>2. CASE q # r
      BY <1>16, <3>2 DEF FinalizeAndCreateFile, Goes, Ends, WalkKept
    <3> QED
      BY <3>1, <3>2
  <2> QED
    BY <2>1 DEF WalkGoes
<1>17. ASSUME NEW r \in Requests, DropFromStorage(r)
      PROVE  WalkGoes(q)
  <2>1. WalkKept(q) \/ pc'[q] \notin Walking
    BY <1>17 DEF DropFromStorage, Goes, Ends, WalkKept, Walking
  <2> QED
    BY <2>1 DEF WalkGoes
<1>18. ASSUME NEW r \in Requests, SaveStatus(r)
      PROVE  WalkGoes(q)
  <2>1. WalkKept(q) \/ pc'[q] \notin Walking
    BY <1>18 DEF SaveStatus, Goes, Ends, WalkKept, Walking
  <2> QED
    BY <2>1 DEF WalkGoes
<1>19. ASSUME NEW r \in Requests, DeleteFile(r)
      PROVE  WalkGoes(q)
  <2>1. WalkKept(q) \/ pc'[q] \notin Walking
    BY <1>19 DEF DeleteFile, Goes, Ends, WalkKept, Walking
  <2> QED
    BY <2>1 DEF WalkGoes
<1>20. ASSUME NEW r \in Requests, DeleteFiles(r)
      PROVE  WalkGoes(q)
  <2>1. WalkKept(q) \/ pc'[q] \notin Walking
    BY <1>20 DEF DeleteFiles, Goes, Ends, WalkKept, Walking
  <2> QED
    BY <2>1 DEF WalkGoes
<1>21. ASSUME NEW r \in Requests, DeleteConnections(r)
      PROVE  WalkGoes(q)
  <2>1. WalkKept(q) \/ pc'[q] \notin Walking
    BY <1>21 DEF DeleteConnections, Goes, Ends, WalkKept, Walking
  <2> QED
    BY <2>1 DEF WalkGoes
<1>22. ASSUME NEW r \in Requests, DeleteUser(r)
      PROVE  WalkGoes(q)
  <2>1. WalkKept(q) \/ pc'[q] \notin Walking
    BY <1>22 DEF DeleteUser, Goes, Ends, WalkKept, Walking
  <2> QED
    BY <2>1 DEF WalkGoes
<1>23. ASSUME NEW r \in Requests, UnlockLimits(r)
      PROVE  WalkGoes(q)
  <2>1. WalkKept(q) \/ pc'[q] \notin Walking
    BY <1>23 DEF UnlockLimits, Goes, Ends, WalkKept, Walking
  <2> QED
    BY <2>1 DEF WalkGoes
<1>24. ASSUME NEW r \in Requests, LockLimits(r)
      PROVE  WalkGoes(q)
  <2>1. WalkKept(q) \/ pc'[q] \notin Walking
    BY <1>24 DEF LockLimits, Goes, Ends, WalkKept, Walking
  <2> QED
    BY <2>1 DEF WalkGoes
<1>25. ASSUME NEW r \in Requests, GivesUp(r)
      PROVE  WalkGoes(q)
  <2>1. WalkKept(q) \/ pc'[q] \notin Walking
    BY <1>25 DEF GivesUp, Goes, Ends, WalkKept, Walking
  <2> QED
    BY <2>1 DEF WalkGoes
<1>26. ASSUME NEW a \in Accounts, CookieExpires(a)
      PROVE  WalkGoes(q)
  <2>1. WalkKept(q) \/ pc'[q] \notin Walking
    BY <1>26 DEF CookieExpires, Goes, Ends, WalkKept, Walking
  <2> QED
    BY <2>1 DEF WalkGoes
<1>27. ASSUME NEW u \in Uploads, SessionRunsOut(u)
      PROVE  WalkGoes(q)
  <2>1. WalkKept(q) \/ pc'[q] \notin Walking
    BY <1>27 DEF SessionRunsOut, Goes, Ends, WalkKept, Walking
  <2> QED
    BY <2>1 DEF WalkGoes
<1>28. ASSUME NEW u \in Uploads, FileRollsOff(u)
      PROVE  WalkGoes(q)
  <2>1. WalkKept(q) \/ pc'[q] \notin Walking
    BY <1>28 DEF FileRollsOff, Goes, Ends, WalkKept, Walking
  <2> QED
    BY <2>1 DEF WalkGoes
<1>29. CASE Restart
  <2>1. WalkKept(q) \/ pc'[q] \notin Walking
    BY <1>29 DEF Restart, Goes, Ends, WalkKept, Walking
  <2> QED
    BY <2>1 DEF WalkGoes
<1>30. CASE UNCHANGED vars
  <2>1. WalkKept(q) \/ pc'[q] \notin Walking
    BY <1>30 DEF vars, Goes, Ends, WalkKept, Walking
  <2> QED
    BY <2>1 DEF WalkGoes
<1>31. ASSUME NEW r \in Requests, SaveUser(r)
      PROVE  WalkGoes(q)
  <2>1. WalkKept(q) \/ pc'[q] \notin Walking
    BY <1>31 DEF SaveUser, Goes, Ends, WalkKept, Walking
  <2> QED
    BY <2>1 DEF WalkGoes
<1> HIDE DEF accountVars, uploadVars, unlockVars, requestVars, walkVars,
           RequestsOK, WalksOK
<1> QED BY <1>1, <1>2, <1>3, <1>4, <1>5, <1>6, <1>7, <1>8, <1>9, <1>10, <1>11,
     <1>12, <1>13, <1>14, <1>15, <1>16, <1>17, <1>18, <1>19, <1>20, <1>21,
     <1>22, <1>23, <1>24, <1>25, <1>26, <1>27, <1>28, <1>29, <1>30, <1>31
     DEF Next, Step

(* A walk that stands is as complete as it was, and as sound.              *)
LEMMA KeptWalk ==
  ASSUME NEW q \in Requests, WalkKept(q), LinksGrow, RowsOK,
         address[q] \in seen[q], before[q] \subseteq connections,
         WalkComplete(q), WalkSound(q)
  PROVE  /\ address'[q] \in seen'[q] /\ before'[q] \subseteq connections'
         /\ WalkComplete(q)' /\ WalkSound(q)'
<1>1. address'[q] \in seen'[q] /\ before'[q] \subseteq connections'
  BY DEF WalkKept, LinksGrow
<1>2. WalkComplete(q)'
  BY DEF WalkKept, WalkComplete, WalkDone, LinkedAccounts, LinkedAddresses
<1>3. WalkSound(q)'
  <2> SUFFICES ASSUME NEW ips \in SUBSET Addresses, address'[q] \in ips,
                      ClosedUnder(connections', ips)
               PROVE  /\ seen'[q] \subseteq ips
                      /\ \A a \in found'[q] : \E i \in ips : <<a, i>> \in connections'
    BY DEF WalkSound
  <2>1. ClosedUnder(connections, ips)
    BY DEF ClosedUnder, LinksGrow
  <2>2. /\ seen[q] \subseteq ips
        /\ \A a \in found[q] : \E i \in ips : <<a, i>> \in connections
    BY <2>1 DEF WalkSound, WalkKept
  <2> QED
    BY <2>2 DEF WalkKept, LinksGrow
<1> QED
  BY <1>1, <1>2, <1>3

(* A walk that begins has found nothing but the address it is from.        *)
LEMMA WalkBegins ==
  ASSUME NEW q \in Requests, RequestsOK, WalksOK, RequestsNamed, BeginWalk(q)
  PROVE  /\ address'[q] \in seen'[q] /\ before'[q] \subseteq connections'
         /\ WalkComplete(q)' /\ WalkSound(q)'
<1>1. /\ found'[q] = {} /\ seen'[q] = {address[q]} /\ ask'[q] = {address[q]}
      /\ before'[q] = connections /\ connections' = connections
      /\ pc'[q] = "by address" /\ address'[q] = address[q]
  BY DEF BeginWalk, Goes, RequestsOK, WalksOK, accountVars, requestVars
<1>2. WalkComplete(q)'
  BY <1>1 DEF WalkComplete, WalkDone, LinkedAccounts, LinkedAddresses
<1>3. WalkSound(q)'
  BY <1>1 DEF WalkSound
<1> QED
  BY <1>1, <1>2, <1>3

(* The accounts at the addresses asked for are added, and asked for next.  *)
LEMMA WalkAsksAddresses ==
  ASSUME NEW q \in Requests, RowsOK, RequestsOK, WalksOK, QueryByAddress(q),
         address[q] \in seen[q], before[q] \subseteq connections,
         WalkComplete(q), WalkSound(q)
  PROVE  /\ address'[q] \in seen'[q] /\ before'[q] \subseteq connections'
         /\ WalkComplete(q)' /\ WalkSound(q)'
<1> DEFINE new == AccountsAt(ask[q]) \ found[q]
<1>1. /\ pc[q] = "by address"
      /\ found'[q] = found[q] \union new
      /\ ask'[q] = new
      /\ pc'[q] = IF new = {} THEN AfterWalk(found[q]) ELSE "by account"
      /\ UNCHANGED <<connections, address, seen, before>>
  BY DEF QueryByAddress, Goes, RequestsOK, WalksOK, accountVars, requestVars
<1>2. /\ ask[q] \subseteq seen[q]
      /\ LinkedAccounts(q, seen[q] \ ask[q])
      /\ LinkedAddresses(q, found[q])
  BY <1>1 DEF WalkComplete
<1>3. LinkedAccounts(q, seen[q])'
  <2> SUFFICES ASSUME NEW a \in Accounts, NEW i \in seen[q], <<a, i>> \in before[q]
               PROVE  a \in found'[q]
    BY <1>1 DEF LinkedAccounts
  <2>1. CASE i \in ask[q]
    <3>1. a \in AccountsAt(ask[q])
      BY <2>1 DEF AccountsAt
    <3> QED
      BY <1>1, <3>1
  <2>2. CASE i \notin ask[q]
    BY <1>1, <1>2, <2>2 DEF LinkedAccounts
  <2> QED
    BY <2>1, <2>2
<1>4. LinkedAddresses(q, found[q] \ ask[q])'
  BY <1>1, <1>2 DEF LinkedAddresses
<1>5. new = {} => LinkedAddresses(q, found[q])'
  BY <1>1, <1>2 DEF LinkedAddresses
<1>6. WalkComplete(q)'
  BY <1>1, <1>3, <1>4, <1>5 DEF WalkComplete, WalkDone, AfterWalk
<1>7. WalkSound(q)'
  <2> SUFFICES ASSUME NEW ips \in SUBSET Addresses, address[q] \in ips,
                      ClosedUnder(connections, ips)
               PROVE  /\ seen[q] \subseteq ips
                      /\ \A a \in found'[q] : \E i \in ips : <<a, i>> \in connections
    BY <1>1 DEF WalkSound
  <2>1. /\ seen[q] \subseteq ips
        /\ \A a \in found[q] : \E i \in ips : <<a, i>> \in connections
    BY DEF WalkSound
  <2>2. \A a \in new : \E i \in ask[q] : <<a, i>> \in connections
    BY DEF AccountsAt
  <2> QED
    BY <1>1, <1>2, <2>1, <2>2
<1> QED
  BY <1>1, <1>6, <1>7

(* The addresses of the accounts asked for are added, and asked for next.  *)
LEMMA WalkAsksAccounts ==
  ASSUME NEW q \in Requests, RowsOK, RequestsOK, WalksOK, QueryByAccount(q),
         address[q] \in seen[q], before[q] \subseteq connections,
         WalkComplete(q), WalkSound(q)
  PROVE  /\ address'[q] \in seen'[q] /\ before'[q] \subseteq connections'
         /\ WalkComplete(q)' /\ WalkSound(q)'
<1> DEFINE new == AddressesOf(ask[q]) \ seen[q]
<1>1. /\ pc[q] = "by account"
      /\ seen'[q] = seen[q] \union new
      /\ ask'[q] = new
      /\ pc'[q] = IF new = {} THEN AfterWalk(found[q]) ELSE "by address"
      /\ UNCHANGED <<connections, address, found, before>>
  BY DEF QueryByAccount, Goes, RequestsOK, WalksOK, accountVars, requestVars
<1>2. /\ ask[q] \subseteq found[q]
      /\ LinkedAccounts(q, seen[q])
      /\ LinkedAddresses(q, found[q] \ ask[q])
  BY <1>1 DEF WalkComplete
<1>3. LinkedAddresses(q, found[q])'
  <2> SUFFICES ASSUME NEW a \in found[q], NEW i \in Addresses, <<a, i>> \in before[q]
               PROVE  i \in seen'[q]
    BY <1>1 DEF LinkedAddresses
  <2>1. CASE a \in ask[q]
    <3>1. i \in AddressesOf(ask[q])
      BY <2>1 DEF AddressesOf
    <3> QED
      BY <1>1, <3>1
  <2>2. CASE a \notin ask[q]
    BY <1>1, <1>2, <2>2 DEF LinkedAddresses
  <2> QED
    BY <2>1, <2>2
<1>4. LinkedAccounts(q, seen[q] \ ask[q])'
  BY <1>1, <1>2 DEF LinkedAccounts
<1>5. new = {} => LinkedAccounts(q, seen[q])'
  BY <1>1, <1>2 DEF LinkedAccounts
<1>6. WalkComplete(q)'
  BY <1>1, <1>3, <1>4, <1>5 DEF WalkComplete, WalkDone, AfterWalk
<1>7. WalkSound(q)'
  <2> SUFFICES ASSUME NEW ips \in SUBSET Addresses, address[q] \in ips,
                      ClosedUnder(connections, ips)
               PROVE  /\ seen'[q] \subseteq ips
                      /\ \A a \in found[q] : \E i \in ips : <<a, i>> \in connections
    BY <1>1 DEF WalkSound
  <2>1. /\ seen[q] \subseteq ips
        /\ \A a \in found[q] : \E i \in ips : <<a, i>> \in connections
    BY DEF WalkSound
  <2>2. ASSUME NEW i \in new PROVE i \in ips
    <3>1. PICK a \in ask[q] : <<a, i>> \in connections
      BY DEF AddressesOf
    <3>2. PICK j \in ips : <<a, j>> \in connections
      BY <1>2, <2>1, <3>1
    <3> DEFINE c == <<a, j>>  d == <<a, i>>
    <3>3. c \in connections /\ d \in connections /\ c[1] = d[1] /\ c[2] = j /\ d[2] = i
      BY <3>1, <3>2
    <3> HIDE DEF c, d
    <3> QED
      BY <3>2, <3>3 DEF ClosedUnder
  <2> QED
    BY <1>1, <2>1, <2>2
<1> QED
  BY <1>1, <1>6, <1>7

(* A walk is, between its queries, complete and sound so far.              *)
LEMMA KeepsWalks ==
  ASSUME RowsOK, RequestsOK, WalksOK, RequestsNamed, KindsAgree, Walks, [Next]_vars,
         use' = use
  PROVE  Walks'
<1> SUFFICES ASSUME "DeleteAccount" \notin use, NEW q \in Requests, pc'[q] \in Walking
             PROVE  /\ address'[q] \in seen'[q] /\ before'[q] \subseteq connections'
                    /\ WalkComplete(q)' /\ WalkSound(q)'
  BY DEF Walks
<1>1. LinksGrow
  BY LinksStay
<1>2. WalkKept(q) \/ BeginWalk(q) \/ QueryByAddress(q) \/ QueryByAccount(q)
  BY WalkersStep DEF WalkGoes
<1>3. pc[q] \in Walking => /\ address[q] \in seen[q] /\ before[q] \subseteq connections
                           /\ WalkComplete(q) /\ WalkSound(q)
  BY DEF Walks
<1>4. CASE WalkKept(q)
  BY <1>1, <1>3, <1>4, KeptWalk DEF WalkKept
<1>5. CASE BeginWalk(q)
  BY <1>5, WalkBegins
<1>6. CASE QueryByAddress(q)
  <2>1. pc[q] \in Walking
    BY <1>6 DEF QueryByAddress, Walking
  <2> QED
    BY <1>3, <1>6, <2>1, WalkAsksAddresses
<1>7. CASE QueryByAccount(q)
  <2>1. pc[q] \in Walking
    BY <1>7 DEF QueryByAccount, Walking
  <2> QED
    BY <1>3, <1>7, <2>1, WalkAsksAccounts
<1> QED
  BY <1>2, <1>4, <1>5, <1>6, <1>7

(* What occurs is settled at the start.                                    *)
LEMMA UseStays ==
  ASSUME [Next]_vars
  PROVE  use' = use
<1> USE DEF accountVars, uploadVars, unlockVars, requestVars, walkVars
<1>1. ASSUME NEW r \in Requests, NEW a \in Accounts, NEW ip \in Addresses, Request(r, a, ip)
      PROVE  use' = use
  <2>1. PICK k \in Kinds, u \in Uploads \union {None}, n \in Sizes \union {0} :
               Comes(r, k, a, ip, u, n)
    BY <1>1, RequestComes
  <2> QED
    BY <2>1 DEF Comes
<1>2. ASSUME NEW r \in Requests, FindUser(r)
      PROVE  use' = use
  BY <1>2 DEF FindUser, AfterLookup
<1>3. ASSUME NEW r \in Requests, CreateUser(r)
      PROVE  use' = use
  BY <1>3 DEF CreateUser
<1>4. ASSUME NEW r \in Requests, AccountIdTaken(r)
      PROVE  use' = use
  BY <1>4 DEF AccountIdTaken
<1>5. ASSUME NEW r \in Requests, Connect(r)
      PROVE  use' = use
  BY <1>5 DEF Connect
<1>6. ASSUME NEW r \in Requests, CookieLiftsQuota(r)
      PROVE  use' = use
  BY <1>6 DEF CookieLiftsQuota
<1>7. ASSUME NEW r \in Requests, BeginWalk(r)
      PROVE  use' = use
  BY <1>7 DEF BeginWalk
<1>8. ASSUME NEW r \in Requests, QueryByAddress(r)
      PROVE  use' = use
  BY <1>8 DEF QueryByAddress
<1>9. ASSUME NEW r \in Requests, QueryByAccount(r)
      PROVE  use' = use
  BY <1>9 DEF QueryByAccount
<1>10. ASSUME NEW r \in Requests, SumFiles(r)
      PROVE  use' = use
  BY <1>10 DEF SumFiles
<1>11. ASSUME NEW r \in Requests, Throttle(r)
      PROVE  use' = use
  BY <1>11 DEF Throttle
<1>12. ASSUME NEW r \in Requests, Admit(r)
      PROVE  use' = use
  BY <1>12 DEF Admit
<1>13. ASSUME NEW r \in Requests, NEW u \in Uploads, CreateSession(r, u)
      PROVE  use' = use
  BY <1>13 DEF CreateSession, Enters
<1>14. ASSUME NEW r \in Requests, NEW u \in Uploads, CreateFile(r, u)
      PROVE  use' = use
  BY <1>14 DEF CreateFile, Enters
<1>15. ASSUME NEW r \in Requests, LoadSession(r)
      PROVE  use' = use
  BY <1>15 DEF LoadSession
<1>16. ASSUME NEW r \in Requests, FinalizeAndCreateFile(r)
      PROVE  use' = use
  BY <1>16 DEF FinalizeAndCreateFile
<1>17. ASSUME NEW r \in Requests, DropFromStorage(r)
      PROVE  use' = use
  BY <1>17 DEF DropFromStorage
<1>18. ASSUME NEW r \in Requests, SaveStatus(r)
      PROVE  use' = use
  BY <1>18 DEF SaveStatus
<1>19. ASSUME NEW r \in Requests, DeleteFile(r)
      PROVE  use' = use
  BY <1>19 DEF DeleteFile
<1>20. ASSUME NEW r \in Requests, DeleteFiles(r)
      PROVE  use' = use
  BY <1>20 DEF DeleteFiles
<1>21. ASSUME NEW r \in Requests, DeleteConnections(r)
      PROVE  use' = use
  BY <1>21 DEF DeleteConnections
<1>22. ASSUME NEW r \in Requests, DeleteUser(r)
      PROVE  use' = use
  BY <1>22 DEF DeleteUser
<1>23. ASSUME NEW r \in Requests, UnlockLimits(r)
      PROVE  use' = use
  BY <1>23 DEF UnlockLimits
<1>24. ASSUME NEW r \in Requests, LockLimits(r)
      PROVE  use' = use
  BY <1>24 DEF LockLimits
<1>25. ASSUME NEW r \in Requests, GivesUp(r)
      PROVE  use' = use
  BY <1>25 DEF GivesUp
<1>26. ASSUME NEW a \in Accounts, CookieExpires(a)
      PROVE  use' = use
  BY <1>26 DEF CookieExpires
<1>27. ASSUME NEW u \in Uploads, SessionRunsOut(u)
      PROVE  use' = use
  BY <1>27 DEF SessionRunsOut
<1>28. ASSUME NEW u \in Uploads, FileRollsOff(u)
      PROVE  use' = use
  BY <1>28 DEF FileRollsOff
<1>29. CASE Restart
  BY <1>29 DEF Restart
<1>30. CASE UNCHANGED vars
  BY <1>30 DEF vars, vars
<1>31. ASSUME NEW r \in Requests, SaveUser(r)
      PROVE  use' = use
  BY <1>31 DEF SaveUser
<1> HIDE DEF accountVars, uploadVars, unlockVars, requestVars, walkVars
<1> QED BY <1>1, <1>2, <1>3, <1>4, <1>5, <1>6, <1>7, <1>8, <1>9, <1>10, <1>11,
     <1>12, <1>13, <1>14, <1>15, <1>16, <1>17, <1>18, <1>19, <1>20, <1>21,
     <1>22, <1>23, <1>24, <1>25, <1>26, <1>27, <1>28, <1>29, <1>30, <1>31
     DEF Next, Step

(* The invariant holds at the start.                                       *)
LEMMA InitInvariant == Init => IInv
<1> SUFFICES ASSUME Init PROVE IInv
  OBVIOUS
<1> USE DEF Init
<1>1. RowsOK /\ SetsOK
  BY DEF RowsOK, SetsOK
<1>2. RequestsOK
  BY DEF RequestsOK, Places
<1>3. WalksOK
  BY MayAsk DEF WalksOK
<1>4. RequestsNamed /\ SessionsOwned
  BY DEF RequestsNamed, SessionsOwned
<1>5. UploadsNamed /\ KindsAgree
  BY KindsAreKinds DEF UploadsNamed, KindsAgree
<1>6. Walks /\ ChargedOnce
  BY DEF Walks, Walking, ChargedOnce
<1> QED
  BY <1>1, <1>2, <1>3, <1>4, <1>5, <1>6 DEF IInv

(* Every step keeps the invariant.                                         *)
LEMMA StepInvariant == IInv /\ [Next]_vars => IInv'
<1> SUFFICES ASSUME IInv, [Next]_vars PROVE IInv'
  OBVIOUS
<1> USE DEF IInv
<1>1. RowsOK' /\ SetsOK'
  BY KeepsRows, KeepsSets
<1>2. RequestsOK' /\ WalksOK'
  BY KeepsRequests, KeepsWalksTypes
<1>3. RequestsNamed' /\ SessionsOwned'
  BY KeepsNamed, KeepsSessionsOwned
<1>4. UploadsNamed' /\ KindsAgree'
  BY KeepsUploadsNamed, KeepsKinds
<1>5. Walks'
  BY UseStays, KeepsWalks
<1>6. ChargedOnce'
  BY KeepsChargedOnce
<1> QED
  BY <1>1, <1>2, <1>3, <1>4, <1>5, <1>6

(***************************************************************************)
(* Theorems.                                                               *)
(***************************************************************************)

(* The invariant holds in every state, whatever requests interleave.       *)
THEOREM Invariance == Spec => []IInv
<1>1. Init => IInv
  BY InitInvariant
<1>2. IInv /\ [Next]_vars => IInv'
  BY StepInvariant
<1> QED
  BY <1>1, <1>2, PTL DEF Spec

(* Rows, requests and walks are of their types; a running request has an   *)
(* account and an address, and a session an owner.                         *)
THEOREM TypeCorrect == Spec => []TypeOK
<1>1. IInv => TypeOK
  BY DEF IInv, TypeOK, RowsOK, SetsOK, RequestsOK, WalksOK, Asks, RequestsNamed, SessionsOwned
<1> QED
  BY <1>1, Invariance, PTL

(* An upload is charged both as a file and as a session only while the     *)
(* request that completes it is between its two writes, whatever other     *)
(* requests of its session race it.                                        *)
THEOREM NeverChargedTwice == Spec => []ChargedOnce
<1>1. IInv => ChargedOnce
  BY DEF IInv
<1> QED
  BY <1>1, Invariance, PTL

(* The walk finds every account linked to the address when it began, over  *)
(* any number of shared addresses, and none that is not linked to it now,  *)
(* while other requests make connections between its queries.              *)
THEOREM PoolFound == Spec => []WalkFindsPool
<1>1. ASSUME IInv, "DeleteAccount" \notin use, NEW r \in Requests, WalkDone(r)
      PROVE  /\ Pool(before[r], address[r]) \subseteq found[r]
             /\ found[r] \subseteq Pool(connections, address[r])
  <2>1. /\ address[r] \in seen[r] /\ before[r] \subseteq connections
        /\ WalkComplete(r) /\ WalkSound(r)
    BY <1>1 DEF IInv, Walks, Walking, WalkDone
  <2>2. /\ LinkedAccounts(r, seen[r])
        /\ LinkedAddresses(r, found[r])
    BY <1>1, <2>1 DEF WalkComplete
  <2>3. /\ seen[r] \in SUBSET Addresses
        /\ found[r] \subseteq Accounts
        /\ before[r] \subseteq Accounts \X Addresses
    BY <1>1 DEF IInv, WalksOK
  <2>4. ClosedUnder(before[r], seen[r])
    <3> SUFFICES ASSUME NEW c \in before[r], NEW d \in before[r], c[1] = d[1],
                        c[2] \in seen[r]
                 PROVE  d[2] \in seen[r]
      BY DEF ClosedUnder
    <3>1. /\ c = <<c[1], c[2]>> /\ d = <<d[1], d[2]>>
          /\ c[1] \in Accounts /\ d[2] \in Addresses
      BY <2>3
    <3>2. c[1] \in found[r]
      BY <2>2, <3>1 DEF LinkedAccounts
    <3> QED
      BY <2>2, <3>1, <3>2 DEF LinkedAddresses
  <2>5. Pool(before[r], address[r]) \subseteq found[r]
    <3> SUFFICES ASSUME NEW a \in Pool(before[r], address[r]) PROVE a \in found[r]
      OBVIOUS
    <3>1. a \in Accounts /\ \E i \in seen[r] : <<a, i>> \in before[r]
      BY <2>1, <2>3, <2>4 DEF Pool
    <3> QED
      BY <2>2, <3>1 DEF LinkedAccounts
  <2>6. found[r] \subseteq Pool(connections, address[r])
    BY <2>1, <2>3 DEF Pool, WalkSound
  <2> QED
    BY <2>5, <2>6
<1>2. IInv => WalkFindsPool
  BY <1>1 DEF WalkFindsPool
<1> QED
  BY <1>2, Invariance, PTL

(***************************************************************************)
(* The quota.  Its invariant is about the conditions that QuotaKept names: *)
(* then a check is alone, an account has one address, what is charged is   *)
(* charged to an address that its owner is connected to, and a check that  *)
(* lets a request through has counted all of that.                         *)
(***************************************************************************)
HIDE QuotaAssumption

(* What QuotaKept leaves out. *)
Quiet ==
  /\ use \intersect {"overlaps", "roaming", "failures"} = {}
  /\ ~({"clock", "CompleteChunkedUpload"} \subseteq use)
  /\ ~({"DeleteAccount", "InitChunkedUpload"} \subseteq use)

(* While a request is checked there is no other check, complete or *)
(* deletion of an account.                                         *)
ChecksApart ==
  \A q, r \in Requests : q # r /\ kind[q] \in Checked => kind[r] \notin Disturbing

(* An account is connected to one address, and comes from there. *)
OneHome ==
  /\ \A c, d \in connections : c[1] = d[1] => c[2] = d[2]
  /\ \A r \in Requests, c \in connections : c[1] = account[r] => c[2] = address[r]
  /\ \A q, r \in Requests :
       account[q] = account[r] /\ account[q] # None => address[q] = address[r]

(* What completes has a session that is active, and a status is written *)
(* back over one that is.                                               *)
SessionsAgree ==
  /\ "InitChunkedUpload" \notin use => \A u \in Uploads : session[u] = "none"
  /\ "clock" \notin use => old = {} /\ overdue = {}
  /\ "CompleteChunkedUpload" \in use => \A u \in open : session[u] = "active"
  /\ \A r \in Requests :
       /\ pc[r] \in {"loaded", "settling"} => session[upload[r]] # "none"
       /\ pc[r] = "settling" => upload[r] \notin open \/ "clock" \in use

(* Whoever has an upload that may be charged is connected, until its *)
(* account is deleted, which leaves it none.                         *)
Held(u) == file[u] = "listed" \/ session[u] = "active"

HoldersLinked ==
  \A u \in Uploads : Held(u) => \E i \in Addresses : <<owner[u], i>> \in connections

Emptied ==
  \A r \in Requests : pc[r] = "disconnecting" =>
    \A u \in Uploads : Held(u) => owner[u] # account[r]

(* So is whoever is checked. *)
UnderCheck == Walking \union {"creating"}

CheckersLinked ==
  \A r \in Requests :
    /\ pc[r] \in UnderCheck => kind[r] \in Checked
    /\ pc[r] \in UnderCheck \union {"handling"} /\ kind[r] \in Checked =>
         <<account[r], address[r]>> \in connections

(* A walk finds, by its first query, whoever has an upload at its address *)
(* and itself; and counts what they have.                                 *)
Covers(r) ==
  /\ account[r] \in found[r]
  /\ \A u \in Uploads :
       Held(u) /\ <<owner[u], address[r]>> \in connections => owner[u] \in found[r]

WalksCover ==
  \A r \in Requests :
    /\ pc[r] = "by address" => address[r] \in ask[r] \/ Covers(r)
    /\ pc[r] \in {"by account", "summing files", "summing sessions"} => Covers(r)
    /\ pc[r] = "summing sessions" => Listed(found[r]) \subseteq summed[r]

(* There are never more rows than have been entered: finitely many. *)
Entered == {u \in Uploads : ~Fresh(u)}

Enumerated == IsFiniteSet(Entered) /\ \A r \in Requests : summed[r] \subseteq Entered

(* Where an account has one address, the accounts linked to an address are *)
(* those connected to it.                                                  *)
LinkedTo(ip) == {a \in Accounts : <<a, ip>> \in connections}

ChargedAt(ip) == Counted(LinkedTo(ip))

(* What has been let through fits. *)
Room ==
  \A r \in Requests : pc[r] = "creating" /\ r \notin waiving =>
    SizeOf(ChargedAt(address[r])) + bytes[r] < Limit

BelowLimit ==
  \A ip \in Addresses : ChargedAt(ip) = {} \/ SizeOf(ChargedAt(ip)) < Limit

QuietInv ==
  Quiet =>
    /\ ChecksApart
    /\ OneHome
    /\ SessionsAgree
    /\ HoldersLinked
    /\ Emptied
    /\ CheckersLinked
    /\ WalksCover
    /\ Enumerated
    /\ Room
    /\ BelowLimit

(***************************************************************************)
(* What a step does.                                                       *)
(***************************************************************************)
Waits(q) ==
  /\ pc'[q] = pc[q]
  /\ kind'[q] = kind[q] /\ account'[q] = account[q] /\ address'[q] = address[q]
  /\ bytes'[q] = bytes[q]
  /\ found'[q] = found[q] /\ ask'[q] = ask[q] /\ summed'[q] = summed[q]
  /\ q \in waiving' <=> q \in waiving

Quits(q) ==
  /\ pc'[q] = "idle"
  /\ kind'[q] = None /\ account'[q] = None /\ address'[q] = None
  /\ summed'[q] = {}

(* Steps outside the check. *)
Elsewhere == {"finding", "creating user", "saving user", "connecting", "loaded", "settling", "leaving"}

Turns(q) ==
  /\ pc'[q] \in Elsewhere
  /\ kind'[q] = kind[q] /\ account'[q] = account[q] /\ address'[q] = address[q]
  /\ summed'[q] = summed[q]

Moves(r) ==
  \/ Connect(r) \/ CookieLiftsQuota(r) \/ BeginWalk(r) \/ QueryByAddress(r)
  \/ QueryByAccount(r) \/ SumFiles(r) \/ Admit(r) \/ DeleteFiles(r) \/ DeleteConnections(r)

RequestMoves ==
  \/ \E r \in Requests, k \in Kinds, a \in Accounts, ip \in Addresses,
        u \in Uploads \union {None}, n \in Sizes \union {0} : Comes(r, k, a, ip, u, n)
  \/ \E r \in Requests : Moves(r)
  \/ /\ connections' = connections
     /\ \A q \in Requests : Waits(q) \/ Quits(q) \/ Turns(q)

(* What may be charged, and what is. *)
Charged(u) ==
  \/ file[u] = "listed" /\ u \notin old
  \/ session[u] = "active" /\ u \notin overdue

(* Rows are entered by a check's end only; all else charges no more, and *)
(* lists only what is completed.                                         *)
RowEntered == \E r \in Requests, u \in Uploads : CreateSession(r, u) \/ CreateFile(r, u)

RowsSettle ==
  /\ size' = size /\ owner' = owner /\ waived' = waived
  /\ Entered' = Entered
  /\ \A u \in Uploads :
       /\ Held(u)' => Held(u)
       /\ Charged(u)' => Charged(u)
       /\ (file[u] = "listed" /\ u \notin old)' =>
            \/ file[u] = "listed" /\ u \notin old
            \/ \E r \in Requests : kind[r] = "CompleteChunkedUpload"

(* What a step does to the requests and the connections.                   *)
LEMMA StepMoves ==
  ASSUME RequestsOK,
         WalksOK,
         [Next]_vars
  PROVE  RequestMoves \/ RowEntered
<1> USE DEF accountVars, uploadVars, unlockVars, requestVars, walkVars
<1> USE DEF RequestsOK, WalksOK
<1>1. ASSUME NEW r \in Requests, NEW a \in Accounts, NEW ip \in Addresses, Request(r, a, ip)
      PROVE  RequestMoves \/ RowEntered
  <2>1. PICK k \in Kinds, u \in Uploads \union {None}, n \in Sizes \union {0} :
               Comes(r, k, a, ip, u, n)
    BY <1>1, RequestComes
  <2> QED
    BY <2>1 DEF RequestMoves
<1>2. ASSUME NEW r \in Requests, FindUser(r)
      PROVE  RequestMoves \/ RowEntered
  <2>1. ASSUME NEW q \in Requests
        PROVE  Waits(q) \/ Quits(q) \/ Turns(q)
    BY <1>2 DEF FindUser, AfterLookup, Goes, Ends, Waits, Quits, Turns, Elsewhere
  <2> QED
    BY <1>2, <2>1 DEF FindUser, AfterLookup, RequestMoves
<1>3. ASSUME NEW r \in Requests, CreateUser(r)
      PROVE  RequestMoves \/ RowEntered
  <2>1. ASSUME NEW q \in Requests
        PROVE  Waits(q) \/ Quits(q) \/ Turns(q)
    BY <1>3 DEF CreateUser, Goes, Ends, Waits, Quits, Turns, Elsewhere
  <2> QED
    BY <1>3, <2>1 DEF CreateUser, RequestMoves
<1>4. ASSUME NEW r \in Requests, AccountIdTaken(r)
      PROVE  RequestMoves \/ RowEntered
  <2>1. ASSUME NEW q \in Requests
        PROVE  Waits(q) \/ Quits(q) \/ Turns(q)
    BY <1>4 DEF AccountIdTaken, Goes, Ends, Waits, Quits, Turns, Elsewhere
  <2> QED
    BY <1>4, <2>1 DEF AccountIdTaken, RequestMoves
<1>5. ASSUME NEW r \in Requests, Connect(r)
      PROVE  RequestMoves \/ RowEntered
  BY <1>5 DEF RequestMoves, Moves
<1>6. ASSUME NEW r \in Requests, CookieLiftsQuota(r)
      PROVE  RequestMoves \/ RowEntered
  BY <1>6 DEF RequestMoves, Moves
<1>7. ASSUME NEW r \in Requests, BeginWalk(r)
      PROVE  RequestMoves \/ RowEntered
  BY <1>7 DEF RequestMoves, Moves
<1>8. ASSUME NEW r \in Requests, QueryByAddress(r)
      PROVE  RequestMoves \/ RowEntered
  BY <1>8 DEF RequestMoves, Moves
<1>9. ASSUME NEW r \in Requests, QueryByAccount(r)
      PROVE  RequestMoves \/ RowEntered
  BY <1>9 DEF RequestMoves, Moves
<1>10. ASSUME NEW r \in Requests, SumFiles(r)
      PROVE  RequestMoves \/ RowEntered
  BY <1>10 DEF RequestMoves, Moves
<1>11. ASSUME NEW r \in Requests, Throttle(r)
      PROVE  RequestMoves \/ RowEntered
  <2>1. ASSUME NEW q \in Requests
        PROVE  Waits(q) \/ Quits(q) \/ Turns(q)
    BY <1>11 DEF Throttle, Goes, Ends, Waits, Quits, Turns, Elsewhere
  <2> QED
    BY <1>11, <2>1 DEF Throttle, RequestMoves
<1>12. ASSUME NEW r \in Requests, Admit(r)
      PROVE  RequestMoves \/ RowEntered
  BY <1>12 DEF RequestMoves, Moves
<1>13. ASSUME NEW r \in Requests, NEW u \in Uploads, CreateSession(r, u)
      PROVE  RequestMoves \/ RowEntered
  BY <1>13 DEF RowEntered
<1>14. ASSUME NEW r \in Requests, NEW u \in Uploads, CreateFile(r, u)
      PROVE  RequestMoves \/ RowEntered
  BY <1>14 DEF RowEntered
<1>15. ASSUME NEW r \in Requests, LoadSession(r)
      PROVE  RequestMoves \/ RowEntered
  <2>1. ASSUME NEW q \in Requests
        PROVE  Waits(q) \/ Quits(q) \/ Turns(q)
    BY <1>15 DEF LoadSession, Goes, Ends, Waits, Quits, Turns, Elsewhere
  <2> QED
    BY <1>15, <2>1 DEF LoadSession, RequestMoves
<1>16. ASSUME NEW r \in Requests, FinalizeAndCreateFile(r)
      PROVE  RequestMoves \/ RowEntered
  <2>1. ASSUME NEW q \in Requests
        PROVE  Waits(q) \/ Quits(q) \/ Turns(q)
    BY <1>16 DEF FinalizeAndCreateFile, Goes, Ends, Waits, Quits, Turns, Elsewhere
  <2> QED
    BY <1>16, <2>1 DEF FinalizeAndCreateFile, RequestMoves
<1>17. ASSUME NEW r \in Requests, DropFromStorage(r)
      PROVE  RequestMoves \/ RowEntered
  <2>1. ASSUME NEW q \in Requests
        PROVE  Waits(q) \/ Quits(q) \/ Turns(q)
    BY <1>17 DEF DropFromStorage, Goes, Ends, Waits, Quits, Turns, Elsewhere
  <2> QED
    BY <1>17, <2>1 DEF DropFromStorage, RequestMoves
<1>18. ASSUME NEW r \in Requests, SaveStatus(r)
      PROVE  RequestMoves \/ RowEntered
  <2>1. ASSUME NEW q \in Requests
        PROVE  Waits(q) \/ Quits(q) \/ Turns(q)
    BY <1>18 DEF SaveStatus, Goes, Ends, Waits, Quits, Turns, Elsewhere
  <2> QED
    BY <1>18, <2>1 DEF SaveStatus, RequestMoves
<1>19. ASSUME NEW r \in Requests, DeleteFile(r)
      PROVE  RequestMoves \/ RowEntered
  <2>1. ASSUME NEW q \in Requests
        PROVE  Waits(q) \/ Quits(q) \/ Turns(q)
    BY <1>19 DEF DeleteFile, Goes, Ends, Waits, Quits, Turns, Elsewhere
  <2> QED
    BY <1>19, <2>1 DEF DeleteFile, RequestMoves
<1>20. ASSUME NEW r \in Requests, DeleteFiles(r)
      PROVE  RequestMoves \/ RowEntered
  BY <1>20 DEF RequestMoves, Moves
<1>21. ASSUME NEW r \in Requests, DeleteConnections(r)
      PROVE  RequestMoves \/ RowEntered
  BY <1>21 DEF RequestMoves, Moves
<1>22. ASSUME NEW r \in Requests, DeleteUser(r)
      PROVE  RequestMoves \/ RowEntered
  <2>1. ASSUME NEW q \in Requests
        PROVE  Waits(q) \/ Quits(q) \/ Turns(q)
    BY <1>22 DEF DeleteUser, Goes, Ends, Waits, Quits, Turns, Elsewhere
  <2> QED
    BY <1>22, <2>1 DEF DeleteUser, RequestMoves
<1>23. ASSUME NEW r \in Requests, UnlockLimits(r)
      PROVE  RequestMoves \/ RowEntered
  <2>1. ASSUME NEW q \in Requests
        PROVE  Waits(q) \/ Quits(q) \/ Turns(q)
    BY <1>23 DEF UnlockLimits, Goes, Ends, Waits, Quits, Turns, Elsewhere
  <2> QED
    BY <1>23, <2>1 DEF UnlockLimits, RequestMoves
<1>24. ASSUME NEW r \in Requests, LockLimits(r)
      PROVE  RequestMoves \/ RowEntered
  <2>1. ASSUME NEW q \in Requests
        PROVE  Waits(q) \/ Quits(q) \/ Turns(q)
    BY <1>24 DEF LockLimits, Goes, Ends, Waits, Quits, Turns, Elsewhere
  <2> QED
    BY <1>24, <2>1 DEF LockLimits, RequestMoves
<1>25. ASSUME NEW r \in Requests, GivesUp(r)
      PROVE  RequestMoves \/ RowEntered
  <2>1. ASSUME NEW q \in Requests
        PROVE  Waits(q) \/ Quits(q) \/ Turns(q)
    BY <1>25 DEF GivesUp, Goes, Ends, Waits, Quits, Turns, Elsewhere
  <2> QED
    BY <1>25, <2>1 DEF GivesUp, RequestMoves
<1>26. ASSUME NEW a \in Accounts, CookieExpires(a)
      PROVE  RequestMoves \/ RowEntered
  <2>1. ASSUME NEW q \in Requests
        PROVE  Waits(q) \/ Quits(q) \/ Turns(q)
    BY <1>26 DEF CookieExpires, Goes, Ends, Waits, Quits, Turns, Elsewhere
  <2> QED
    BY <1>26, <2>1 DEF CookieExpires, RequestMoves
<1>27. ASSUME NEW u \in Uploads, SessionRunsOut(u)
      PROVE  RequestMoves \/ RowEntered
  <2>1. ASSUME NEW q \in Requests
        PROVE  Waits(q) \/ Quits(q) \/ Turns(q)
    BY <1>27 DEF SessionRunsOut, Goes, Ends, Waits, Quits, Turns, Elsewhere
  <2> QED
    BY <1>27, <2>1 DEF SessionRunsOut, RequestMoves
<1>28. ASSUME NEW u \in Uploads, FileRollsOff(u)
      PROVE  RequestMoves \/ RowEntered
  <2>1. ASSUME NEW q \in Requests
        PROVE  Waits(q) \/ Quits(q) \/ Turns(q)
    BY <1>28 DEF FileRollsOff, Goes, Ends, Waits, Quits, Turns, Elsewhere
  <2> QED
    BY <1>28, <2>1 DEF FileRollsOff, RequestMoves
<1>29. CASE Restart
  <2>1. \A q \in Requests : Waits(q) \/ Quits(q) \/ Turns(q)
    BY <1>29 DEF Restart, Waits, Quits, Turns
  <2> QED
    BY <1>29, <2>1 DEF Restart, RequestMoves
<1>30. CASE UNCHANGED vars
  <2>1. \A q \in Requests : Waits(q) \/ Quits(q) \/ Turns(q)
    BY <1>30 DEF vars, Waits, Quits, Turns
  <2> QED
    BY <1>30, <2>1 DEF vars, RequestMoves
<1>31. ASSUME NEW r \in Requests, SaveUser(r)
      PROVE  RequestMoves \/ RowEntered
  <2>1. ASSUME NEW q \in Requests
        PROVE  Waits(q) \/ Quits(q) \/ Turns(q)
    BY <1>31 DEF SaveUser, Goes, Ends, Waits, Quits, Turns, Elsewhere
  <2> QED
    BY <1>31, <2>1 DEF SaveUser, RequestMoves
<1> HIDE DEF accountVars, uploadVars, unlockVars, requestVars, walkVars,
           RequestsOK, WalksOK
<1> QED BY <1>1, <1>2, <1>3, <1>4, <1>5, <1>6, <1>7, <1>8, <1>9, <1>10, <1>11,
     <1>12, <1>13, <1>14, <1>15, <1>16, <1>17, <1>18, <1>19, <1>20, <1>21,
     <1>22, <1>23, <1>24, <1>25, <1>26, <1>27, <1>28, <1>29, <1>30, <1>31
     DEF Next, Step

(* The sessions agree with what goes on.                                   *)
LEMMA KeepsSessions ==
  ASSUME Quiet,
         RowsOK,
         SetsOK,
         RequestsOK,
         UploadsNamed,
         KindsAgree,
         SessionsAgree,
         [Next]_vars
  PROVE  SessionsAgree'
<1> USE DEF accountVars, uploadVars, unlockVars, requestVars, walkVars
<1> USE DEF RowsOK, SetsOK, RequestsOK, SessionsAgree, Ends, Goes, Quiet
<1>1. ASSUME NEW r \in Requests, NEW a \in Accounts, NEW ip \in Addresses, Request(r, a, ip)
      PROVE  SessionsAgree'
  <2>1. PICK k \in Kinds, u \in Uploads \union {None}, n \in Sizes \union {0} :
               Comes(r, k, a, ip, u, n)
    BY <1>1, RequestComes
  <2> QED
    BY <2>1 DEF Comes
<1>2. ASSUME NEW r \in Requests, FindUser(r)
      PROVE  SessionsAgree'
  <2>1. PICK place \in {"saving user", "connecting", "creating user"} :
               /\ pc[r] = "finding" /\ pc' = [pc EXCEPT ![r] = place]
               /\ UNCHANGED <<use, requestVars, uploadVars>>
    BY <1>2 DEF FindUser, AfterLookup
  <2>2. \A q \in Requests : pc'[q] = pc[q] \/ (q = r /\ pc'[q] = place)
    BY <2>1
  <2>3. \A q \in Requests : pc'[q] \in {"loaded", "settling"} => pc'[q] = pc[q]
    BY <2>1, <2>2
  <2>4. \A q \in Requests : pc[q] \in {"loaded", "settling"} => pc'[q] = pc[q]
    BY <2>1, <2>2
  <2> QED
    BY <2>1, <2>3, <2>4
<1>3. ASSUME NEW r \in Requests, CreateUser(r)
      PROVE  SessionsAgree'
  BY <1>3 DEF CreateUser
<1>4. ASSUME NEW r \in Requests, AccountIdTaken(r)
      PROVE  SessionsAgree'
  BY <1>4 DEF AccountIdTaken
<1>5. ASSUME NEW r \in Requests, Connect(r)
      PROVE  SessionsAgree'
  BY <1>5 DEF Connect
<1>6. ASSUME NEW r \in Requests, CookieLiftsQuota(r)
      PROVE  SessionsAgree'
  BY <1>6 DEF CookieLiftsQuota
<1>7. ASSUME NEW r \in Requests, BeginWalk(r)
      PROVE  SessionsAgree'
  BY <1>7 DEF BeginWalk
<1>8. ASSUME NEW r \in Requests, QueryByAddress(r)
      PROVE  SessionsAgree'
  BY <1>8 DEF QueryByAddress, AfterWalk
<1>9. ASSUME NEW r \in Requests, QueryByAccount(r)
      PROVE  SessionsAgree'
  BY <1>9 DEF QueryByAccount, AfterWalk
<1>10. ASSUME NEW r \in Requests, SumFiles(r)
      PROVE  SessionsAgree'
  BY <1>10 DEF SumFiles
<1>11. ASSUME NEW r \in Requests, Throttle(r)
      PROVE  SessionsAgree'
  BY <1>11 DEF Throttle
<1>12. ASSUME NEW r \in Requests, Admit(r)
      PROVE  SessionsAgree'
  BY <1>12 DEF Admit
<1>13. ASSUME NEW r \in Requests, NEW u \in Uploads, CreateSession(r, u)
      PROVE  SessionsAgree'
  <2>1. /\ session[u] = "none" /\ "InitChunkedUpload" \in use
        /\ session' = [session EXCEPT ![u] = "active"] /\ open' \subseteq open \union {u}
        /\ pc' = [pc EXCEPT ![r] = "idle"] /\ upload' = [upload EXCEPT ![r] = None]
        /\ use' = use /\ old' = old /\ overdue' = overdue
    BY <1>13, QuotaAssumption DEF CreateSession, Enters, Fresh, KindsAgree, Kinds, Checked
  <2>2. ASSUME NEW q \in Requests
        PROVE  /\ pc'[q] \in {"loaded", "settling"} => session'[upload'[q]] # "none"
               /\ pc'[q] = "settling" => upload'[q] \notin open' \/ "clock" \in use'
    <3>1. pc[q] \in {"loaded", "settling"} => upload[q] \in Uploads
      BY DEF KindsAgree, UploadsNamed, NamesUpload, OfSession
    <3> QED
      BY <2>1, <3>1
  <2>3. "CompleteChunkedUpload" \in use' => \A v \in open' : session'[v] = "active"
    BY <2>1
  <2> QED
    BY <2>1, <2>2, <2>3
<1>14. ASSUME NEW r \in Requests, NEW u \in Uploads, CreateFile(r, u)
      PROVE  SessionsAgree'
  BY <1>14 DEF CreateFile, Enters, Fresh
<1>15. ASSUME NEW r \in Requests, LoadSession(r)
      PROVE  SessionsAgree'
  <2>1. upload[r] \in Uploads
    BY <1>15 DEF LoadSession, UploadsNamed, NamesUpload, OfSession, KindsAgree
  <2> QED
    BY <1>15, <2>1 DEF LoadSession
<1>16. ASSUME NEW r \in Requests, FinalizeAndCreateFile(r)
      PROVE  SessionsAgree'
  <2>1. upload[r] \in Uploads
    BY <1>16 DEF FinalizeAndCreateFile, UploadsNamed, NamesUpload, OfSession, KindsAgree
  <2> QED
    BY <1>16, <2>1 DEF FinalizeAndCreateFile
<1>17. ASSUME NEW r \in Requests, DropFromStorage(r)
      PROVE  SessionsAgree'
  <2>1. upload[r] \in Uploads
    BY <1>17 DEF DropFromStorage, UploadsNamed, NamesUpload, OfSession, KindsAgree
  <2> QED
    BY <1>17, <2>1 DEF DropFromStorage
<1>18. ASSUME NEW r \in Requests, SaveStatus(r)
      PROVE  SessionsAgree'
  <2> DEFINE u == upload[r]
  <2>1. u \in Uploads /\ kind[r] \in OfSession
    BY <1>18 DEF SaveStatus, UploadsNamed, NamesUpload, OfSession, KindsAgree
  <2>2. session[u] # "none" /\ (u \notin open \/ "clock" \in use)
    BY <1>18 DEF SaveStatus
  <2>3. StatusAfter(kind[r]) \in {"completed", "cancelled", "expired"}
    BY <2>1 DEF StatusAfter, OfSession
  <2>4. /\ session' = [session EXCEPT ![u] = StatusAfter(kind[r])] \/ session' = session
        /\ pc' = [pc EXCEPT ![r] = "idle"] /\ upload' = [upload EXCEPT ![r] = None]
        /\ use' = use /\ old' = old /\ overdue' = overdue /\ open' = open
    BY <1>18 DEF SaveStatus
  <2> HIDE DEF u
  <2>5. ASSUME NEW q \in Requests
        PROVE  /\ pc'[q] \in {"loaded", "settling"} => session'[upload'[q]] # "none"
               /\ pc'[q] = "settling" => upload'[q] \notin open' \/ "clock" \in use'
    <3>1. pc[q] \in {"loaded", "settling"} => upload[q] \in Uploads
      BY DEF KindsAgree, UploadsNamed, NamesUpload, OfSession
    <3> QED
      BY <2>1, <2>2, <2>3, <2>4, <3>1
  <2>6. "CompleteChunkedUpload" \in use' => \A v \in open' : session'[v] = "active"
    BY <2>1, <2>2, <2>3, <2>4
  <2>7. "InitChunkedUpload" \notin use' => \A v \in Uploads : session'[v] = "none"
    BY <2>1, <2>2, <2>4
  <2> QED
    BY <2>4, <2>5, <2>6, <2>7
<1>19. ASSUME NEW r \in Requests, DeleteFile(r)
      PROVE  SessionsAgree'
  BY <1>19 DEF DeleteFile
<1>20. ASSUME NEW r \in Requests, DeleteFiles(r)
      PROVE  SessionsAgree'
  BY <1>20 DEF DeleteFiles
<1>21. ASSUME NEW r \in Requests, DeleteConnections(r)
      PROVE  SessionsAgree'
  BY <1>21 DEF DeleteConnections
<1>22. ASSUME NEW r \in Requests, DeleteUser(r)
      PROVE  SessionsAgree'
  BY <1>22 DEF DeleteUser
<1>23. ASSUME NEW r \in Requests, UnlockLimits(r)
      PROVE  SessionsAgree'
  BY <1>23 DEF UnlockLimits
<1>24. ASSUME NEW r \in Requests, LockLimits(r)
      PROVE  SessionsAgree'
  BY <1>24 DEF LockLimits
<1>25. ASSUME NEW r \in Requests, GivesUp(r)
      PROVE  SessionsAgree'
  BY <1>25 DEF GivesUp
<1>26. ASSUME NEW a \in Accounts, CookieExpires(a)
      PROVE  SessionsAgree'
  BY <1>26 DEF CookieExpires
<1>27. ASSUME NEW u \in Uploads, SessionRunsOut(u)
      PROVE  SessionsAgree'
  BY <1>27 DEF SessionRunsOut
<1>28. ASSUME NEW u \in Uploads, FileRollsOff(u)
      PROVE  SessionsAgree'
  BY <1>28 DEF FileRollsOff
<1>29. CASE Restart
  BY <1>29 DEF Restart
<1>30. CASE UNCHANGED vars
  BY <1>30 DEF vars, vars
<1>31. ASSUME NEW r \in Requests, SaveUser(r)
      PROVE  SessionsAgree'
  BY <1>31 DEF SaveUser
<1> HIDE DEF accountVars, uploadVars, unlockVars, requestVars, walkVars,
           RowsOK, SetsOK, RequestsOK, SessionsAgree, Ends, Goes, Quiet
<1> QED BY <1>1, <1>2, <1>3, <1>4, <1>5, <1>6, <1>7, <1>8, <1>9, <1>10, <1>11,
     <1>12, <1>13, <1>14, <1>15, <1>16, <1>17, <1>18, <1>19, <1>20, <1>21,
     <1>22, <1>23, <1>24, <1>25, <1>26, <1>27, <1>28, <1>29, <1>30, <1>31
     DEF Next, Step

(* What a step does to the rows.                                           *)
LEMMA StepSettles ==
  ASSUME Quiet,
         RowsOK,
         SetsOK,
         RequestsOK,
         UploadsNamed,
         KindsAgree,
         SessionsAgree,
         [Next]_vars
  PROVE  RowsSettle \/ RowEntered
<1> USE DEF accountVars, uploadVars, unlockVars, requestVars, walkVars
<1> USE DEF RowsOK, SetsOK, RequestsOK
<1>1. ASSUME NEW r \in Requests, NEW a \in Accounts, NEW ip \in Addresses, Request(r, a, ip)
      PROVE  RowsSettle \/ RowEntered
  <2>1. PICK k \in Kinds, u \in Uploads \union {None}, n \in Sizes \union {0} :
               Comes(r, k, a, ip, u, n)
    BY <1>1, RequestComes
  <2> QED
    BY <2>1 DEF Comes, Charged, Held, Entered, Fresh, RowsSettle
<1>2. ASSUME NEW r \in Requests, FindUser(r)
      PROVE  RowsSettle \/ RowEntered
  BY <1>2 DEF FindUser, AfterLookup, Charged, Held, Entered, Fresh, RowsSettle
<1>3. ASSUME NEW r \in Requests, CreateUser(r)
      PROVE  RowsSettle \/ RowEntered
  BY <1>3 DEF CreateUser, Charged, Held, Entered, Fresh, RowsSettle
<1>4. ASSUME NEW r \in Requests, AccountIdTaken(r)
      PROVE  RowsSettle \/ RowEntered
  BY <1>4 DEF AccountIdTaken, Charged, Held, Entered, Fresh, RowsSettle
<1>5. ASSUME NEW r \in Requests, Connect(r)
      PROVE  RowsSettle \/ RowEntered
  BY <1>5 DEF Connect, Charged, Held, Entered, Fresh, RowsSettle
<1>6. ASSUME NEW r \in Requests, CookieLiftsQuota(r)
      PROVE  RowsSettle \/ RowEntered
  BY <1>6 DEF CookieLiftsQuota, Charged, Held, Entered, Fresh, RowsSettle
<1>7. ASSUME NEW r \in Requests, BeginWalk(r)
      PROVE  RowsSettle \/ RowEntered
  BY <1>7 DEF BeginWalk, Charged, Held, Entered, Fresh, RowsSettle
<1>8. ASSUME NEW r \in Requests, QueryByAddress(r)
      PROVE  RowsSettle \/ RowEntered
  BY <1>8 DEF QueryByAddress, Charged, Held, Entered, Fresh, RowsSettle
<1>9. ASSUME NEW r \in Requests, QueryByAccount(r)
      PROVE  RowsSettle \/ RowEntered
  BY <1>9 DEF QueryByAccount, Charged, Held, Entered, Fresh, RowsSettle
<1>10. ASSUME NEW r \in Requests, SumFiles(r)
      PROVE  RowsSettle \/ RowEntered
  BY <1>10 DEF SumFiles, Charged, Held, Entered, Fresh, RowsSettle
<1>11. ASSUME NEW r \in Requests, Throttle(r)
      PROVE  RowsSettle \/ RowEntered
  BY <1>11 DEF Throttle, Charged, Held, Entered, Fresh, RowsSettle
<1>12. ASSUME NEW r \in Requests, Admit(r)
      PROVE  RowsSettle \/ RowEntered
  BY <1>12 DEF Admit, Charged, Held, Entered, Fresh, RowsSettle
<1>13. ASSUME NEW r \in Requests, NEW u \in Uploads, CreateSession(r, u)
      PROVE  RowsSettle \/ RowEntered
  BY <1>13 DEF RowEntered
<1>14. ASSUME NEW r \in Requests, NEW u \in Uploads, CreateFile(r, u)
      PROVE  RowsSettle \/ RowEntered
  BY <1>14 DEF RowEntered
<1>15. ASSUME NEW r \in Requests, LoadSession(r)
      PROVE  RowsSettle \/ RowEntered
  BY <1>15 DEF LoadSession, Charged, Held, Entered, Fresh, RowsSettle
<1>16. ASSUME NEW r \in Requests, FinalizeAndCreateFile(r)
      PROVE  RowsSettle \/ RowEntered
  <2> DEFINE u == upload[r]
  <2>1. /\ u \in Uploads /\ u \in open /\ kind[r] = "CompleteChunkedUpload"
        /\ "CompleteChunkedUpload" \in use
    BY <1>16, QuotaAssumption
    DEF FinalizeAndCreateFile, UploadsNamed, NamesUpload, OfSession, KindsAgree, Kinds
  <2>2. session[u] = "active" /\ overdue = {}
    BY <2>1 DEF SessionsAgree, Quiet
  <2>3. /\ file' = [file EXCEPT ![u] = "listed"] \/ file' = file
        /\ UNCHANGED <<session, size, owner, waived, overdue, old>>
    BY <1>16 DEF FinalizeAndCreateFile
  <2> HIDE DEF u
  <2> QED
    BY <2>1, <2>2, <2>3 DEF Charged, Held, Entered, Fresh, RowsSettle
<1>17. ASSUME NEW r \in Requests, DropFromStorage(r)
      PROVE  RowsSettle \/ RowEntered
  BY <1>17 DEF DropFromStorage, Charged, Held, Entered, Fresh, RowsSettle
<1>18. ASSUME NEW r \in Requests, SaveStatus(r)
      PROVE  RowsSettle \/ RowEntered
  <2>1. upload[r] \in Uploads
    BY <1>18 DEF SaveStatus, UploadsNamed, NamesUpload, OfSession, KindsAgree
  <2> QED
    BY <1>18, <2>1 DEF SaveStatus, KindsAgree, SessionsAgree, StatusAfter, OfSession,
                  Charged, Held, Entered, Fresh, RowsSettle
<1>19. ASSUME NEW r \in Requests, DeleteFile(r)
      PROVE  RowsSettle \/ RowEntered
  <2>1. upload[r] \in Uploads
    BY <1>19 DEF DeleteFile, UploadsNamed, NamesUpload, OfSession, KindsAgree
  <2> QED
    BY <1>19, <2>1 DEF DeleteFile, OfSession,
                  Charged, Held, Entered, Fresh, RowsSettle
<1>20. ASSUME NEW r \in Requests, DeleteFiles(r)
      PROVE  RowsSettle \/ RowEntered
  BY <1>20 DEF DeleteFiles, Charged, Held, Entered, Fresh, RowsSettle
<1>21. ASSUME NEW r \in Requests, DeleteConnections(r)
      PROVE  RowsSettle \/ RowEntered
  BY <1>21 DEF DeleteConnections, Charged, Held, Entered, Fresh, RowsSettle
<1>22. ASSUME NEW r \in Requests, DeleteUser(r)
      PROVE  RowsSettle \/ RowEntered
  BY <1>22 DEF DeleteUser, Charged, Held, Entered, Fresh, RowsSettle
<1>23. ASSUME NEW r \in Requests, UnlockLimits(r)
      PROVE  RowsSettle \/ RowEntered
  BY <1>23 DEF UnlockLimits, Charged, Held, Entered, Fresh, RowsSettle
<1>24. ASSUME NEW r \in Requests, LockLimits(r)
      PROVE  RowsSettle \/ RowEntered
  BY <1>24 DEF LockLimits, Charged, Held, Entered, Fresh, RowsSettle
<1>25. ASSUME NEW r \in Requests, GivesUp(r)
      PROVE  RowsSettle \/ RowEntered
  BY <1>25 DEF GivesUp, Charged, Held, Entered, Fresh, RowsSettle
<1>26. ASSUME NEW a \in Accounts, CookieExpires(a)
      PROVE  RowsSettle \/ RowEntered
  BY <1>26 DEF CookieExpires, Charged, Held, Entered, Fresh, RowsSettle
<1>27. ASSUME NEW u \in Uploads, SessionRunsOut(u)
      PROVE  RowsSettle \/ RowEntered
  BY <1>27 DEF SessionRunsOut, Charged, Held, Entered, Fresh, RowsSettle
<1>28. ASSUME NEW u \in Uploads, FileRollsOff(u)
      PROVE  RowsSettle \/ RowEntered
  BY <1>28 DEF FileRollsOff, Charged, Held, Entered, Fresh, RowsSettle
<1>29. CASE Restart
  BY <1>29 DEF Restart, Charged, Held, Entered, Fresh, RowsSettle
<1>30. CASE UNCHANGED vars
  BY <1>30 DEF vars, Charged, Held, Entered, Fresh, RowsSettle
<1>31. ASSUME NEW r \in Requests, SaveUser(r)
      PROVE  RowsSettle \/ RowEntered
  BY <1>31 DEF SaveUser, Charged, Held, Entered, Fresh, RowsSettle
<1> HIDE DEF accountVars, uploadVars, unlockVars, requestVars, walkVars,
           RowsOK, SetsOK, RequestsOK
<1> QED BY <1>1, <1>2, <1>3, <1>4, <1>5, <1>6, <1>7, <1>8, <1>9, <1>10, <1>11,
     <1>12, <1>13, <1>14, <1>15, <1>16, <1>17, <1>18, <1>19, <1>20, <1>21,
     <1>22, <1>23, <1>24, <1>25, <1>26, <1>27, <1>28, <1>29, <1>30, <1>31
     DEF Next, Step

(* Who requests are from changes only when one comes or ends.              *)
NameStays(q) ==
  \/ kind'[q] = kind[q] /\ account'[q] = account[q] /\ address'[q] = address[q]
  \/ kind'[q] = None /\ account'[q] = None

Comings ==
  \E r \in Requests, k \in Kinds, a \in Accounts, ip \in Addresses,
     u \in Uploads \union {None}, n \in Sizes \union {0} : Comes(r, k, a, ip, u, n)

(* A request that has come keeps its kind, account and address.            *)
LEMMA NamesGo ==
  ASSUME RequestsOK, WalksOK, [Next]_vars
  PROVE  Comings \/ \A q \in Requests : NameStays(q)
<1> USE DEF requestVars
<1>1. CASE RowEntered
  <2>1. PICK r \in Requests, u \in Uploads : Enters(r, u)
    BY <1>1 DEF RowEntered, CreateSession, CreateFile
  <2> QED
    BY <2>1 DEF Enters, Ends, RequestsOK, NameStays
<1>2. CASE \E r \in Requests : Moves(r)
  BY <1>2 DEF Moves, Connect, CookieLiftsQuota, BeginWalk, QueryByAddress, QueryByAccount,
              SumFiles, Admit, DeleteFiles, DeleteConnections, Goes, NameStays
<1>3. CASE \A q \in Requests : Waits(q) \/ Quits(q) \/ Turns(q)
  BY <1>3 DEF Waits, Quits, Turns, NameStays
<1> QED
  BY <1>1, <1>2, <1>3, StepMoves DEF RequestMoves, Comings

(* Connections are made and undone by one step each.                       *)
LEMMA LinksGo ==
  ASSUME RequestsOK, WalksOK, [Next]_vars
  PROVE  \/ connections' = connections
         \/ \E r \in Requests : Connect(r) \/ DeleteConnections(r)
<1> USE DEF accountVars
<1>1. CASE RowEntered
  BY <1>1 DEF RowEntered, CreateSession, CreateFile, Enters
<1>2. CASE Comings
  BY <1>2 DEF Comings, Comes
<1>3. CASE \E r \in Requests : Moves(r)
  BY <1>3 DEF Moves, CookieLiftsQuota, BeginWalk, QueryByAddress, QueryByAccount,
              SumFiles, Admit, DeleteFiles
<1> QED
  BY <1>1, <1>2, <1>3, StepMoves DEF RequestMoves, Comings

(* What a request does.                                                    *)
RequestGoes(q) ==
  \/ Waits(q) \/ Quits(q) \/ Turns(q)
  \/ pc'[q] = "finding" /\ summed'[q] = summed[q]
  \/ Moves(q)

(* The others wait.                                                        *)
LEMMA OneGoes ==
  ASSUME RequestsOK, WalksOK, NEW q \in Requests, [Next]_vars
  PROVE  RequestGoes(q)
<1> USE DEF requestVars, walkVars, RequestsOK, WalksOK
<1>1. CASE RowEntered
  <2>1. PICK r \in Requests, u \in Uploads : Enters(r, u)
    BY <1>1 DEF RowEntered, CreateSession, CreateFile
  <2>2. CASE q = r
    BY <2>1, <2>2 DEF Enters, Ends, Quits, RequestGoes
  <2>3. CASE q # r
    <3>1. Waits(q)
      BY <2>1, <2>3 DEF Enters, Ends, Waits
    <3> QED
      BY <3>1 DEF RequestGoes
  <2> QED
    BY <2>2, <2>3
<1>2. CASE Comings
  <2>1. PICK r \in Requests, k \in Kinds, a \in Accounts, ip \in Addresses,
             u \in Uploads \union {None}, n \in Sizes \union {0} : Comes(r, k, a, ip, u, n)
    BY <1>2 DEF Comings
  <2>2. Waits(q) \/ (pc'[q] = "finding" /\ summed'[q] = summed[q])
    BY <2>1 DEF Comes, Waits
  <2> QED
    BY <2>2 DEF RequestGoes
<1>3. CASE \E r \in Requests : Moves(r)
  <2>1. PICK r \in Requests : Moves(r)
    BY <1>3
  <2>2. CASE q = r
    BY <2>1, <2>2 DEF RequestGoes
  <2>3. CASE q # r
    <3>1. Waits(q)
      BY <2>1, <2>3 DEF Moves, Connect, CookieLiftsQuota, BeginWalk, QueryByAddress,
             QueryByAccount, SumFiles, Admit, DeleteFiles, DeleteConnections, Goes, Waits
    <3> QED
      BY <3>1 DEF RequestGoes
  <2> QED
    BY <2>2, <2>3
<1>4. CASE \A p \in Requests : Waits(p) \/ Quits(p) \/ Turns(p)
  BY <1>4 DEF RequestGoes
<1> QED
  BY <1>1, <1>2, <1>3, <1>4, StepMoves DEF RequestMoves, Comings

(***************************************************************************)
(* Every step keeps the invariant: who is where.                           *)
(***************************************************************************)
(* A check and what disturbs one keep apart.                               *)
LEMMA KeepsApart ==
  ASSUME Quiet, RequestsOK, WalksOK, ChecksApart, [Next]_vars
  PROVE  ChecksApart'
<1>1. CASE Comings
  <2>1. PICK r \in Requests, k \in Kinds, a \in Accounts, ip \in Addresses,
             u \in Uploads \union {None}, n \in Sizes \union {0} : Comes(r, k, a, ip, u, n)
    BY <1>1 DEF Comings
  <2>2. \A q \in Requests : ~(k \in Checked /\ kind[q] \in Disturbing)
                         /\ ~(k \in Disturbing /\ kind[q] \in Checked)
    BY <2>1 DEF Comes, Apart, Quiet
  <2>3. kind' = [kind EXCEPT ![r] = k]
    BY <2>1 DEF Comes
  <2> QED
    BY <2>2, <2>3 DEF ChecksApart, RequestsOK
<1>2. CASE \A q \in Requests : NameStays(q)
  <2>1. None \notin Checked /\ None \notin Disturbing
    BY QuotaAssumption DEF Kinds, Checked, Disturbing, OfSession
  <2>2. \A q \in Requests : kind'[q] = kind[q] \/ kind'[q] = None
    BY <1>2 DEF NameStays
  <2> QED
    BY <2>1, <2>2 DEF ChecksApart
<1> QED
  BY <1>1, <1>2, NamesGo

(* An account that has a connection is where it is from.                   *)
LEMMA KeepsHome ==
  ASSUME Quiet, RowsOK, RequestsOK, WalksOK, RequestsNamed, OneHome, [Next]_vars
  PROVE  OneHome'
<1>1. CASE Comings
  <2>1. PICK r \in Requests, k \in Kinds, a \in Accounts, ip \in Addresses,
             u \in Uploads \union {None}, n \in Sizes \union {0} : Comes(r, k, a, ip, u, n)
    BY <1>1 DEF Comings
  <2>2. /\ \A c \in connections : c[1] = a => c[2] = ip
        /\ \A q \in Requests : account[q] = a => address[q] = ip
    BY <2>1 DEF Comes, AtHome, Quiet
  <2>3. /\ account' = [account EXCEPT ![r] = a] /\ address' = [address EXCEPT ![r] = ip]
        /\ connections' = connections
    BY <2>1 DEF Comes, accountVars
  <2> QED
    BY <2>2, <2>3 DEF OneHome, RequestsOK
<1>2. CASE \A q \in Requests : NameStays(q)
  <2>1. None \notin Accounts
    BY QuotaAssumption
  <2>2. \A q \in Requests : \/ account'[q] = account[q] /\ address'[q] = address[q]
                            \/ account'[q] = None
    BY <1>2 DEF NameStays
  <2>3. \/ connections' \subseteq connections
        \/ \E r \in Requests : /\ account[r] # None
                               /\ connections' = connections \union {<<account[r], address[r]>>}
    BY LinksGo DEF Connect, DeleteConnections, RequestsNamed
  <2>4. \A c \in connections : c[1] # None
    BY <2>1 DEF RowsOK
  <2>5. \A c, d \in connections' : c[1] = d[1] => c[2] = d[2]
    BY <2>3 DEF OneHome
  <2>6. ASSUME NEW r \in Requests, NEW c \in connections', c[1] = account'[r]
        PROVE  c[2] = address'[r]
    <3>1. c[1] # None
      BY <2>3, <2>4
    <3>2. account'[r] = account[r] /\ address'[r] = address[r]
      BY <2>2, <2>6, <3>1
    <3> QED
      BY <2>3, <2>6, <3>1, <3>2 DEF OneHome
  <2>7. \A q, r \in Requests :
          account'[q] = account'[r] /\ account'[q] # None => address'[q] = address'[r]
    BY <2>2 DEF OneHome
  <2> QED
    BY <2>5, <2>6, <2>7 DEF OneHome
<1> QED
  BY <1>1, <1>2, NamesGo

(* An upload that may be charged has an owner who is connected.            *)
LEMMA KeepsHolders ==
  ASSUME Quiet, RowsOK, SetsOK, RequestsOK, WalksOK, RequestsNamed, UploadsNamed, KindsAgree,
         SessionsAgree, HoldersLinked, Emptied, CheckersLinked, [Next]_vars
  PROVE  HoldersLinked'
<1>1. CASE RowEntered
  <2>1. PICK r \in Requests, u \in Uploads : CreateSession(r, u) \/ CreateFile(r, u)
    BY <1>1 DEF RowEntered
  <2>2. /\ pc[r] = "creating" /\ connections' = connections
        /\ owner' = [owner EXCEPT ![u] = account[r]]
        /\ \A w \in Uploads : w # u /\ Held(w)' => Held(w)
    BY <2>1 DEF CreateSession, CreateFile, Enters, accountVars, Held, RowsOK
  <2>3. <<account[r], address[r]>> \in connections /\ address[r] \in Addresses
    BY <2>2 DEF CheckersLinked, UnderCheck, RequestsOK, RequestsNamed
  <2> QED
    BY <2>2, <2>3 DEF HoldersLinked, RowsOK
<1>2. CASE RowsSettle
  <2>1. \A u \in Uploads : Held(u)' => Held(u) /\ owner'[u] = owner[u]
    BY <1>2 DEF RowsSettle
  <2>2. CASE connections \subseteq connections'
    BY <2>1, <2>2 DEF HoldersLinked
  <2>3. CASE \E r \in Requests : DeleteConnections(r)
    <3>1. PICK r \in Requests : DeleteConnections(r)
      BY <2>3
    <3>2. \A u \in Uploads : Held(u) => owner[u] # account[r]
      BY <3>1 DEF DeleteConnections, Emptied
    <3>3. connections' = {c \in connections : c[1] # account[r]}
      BY <3>1 DEF DeleteConnections
    <3> QED
      BY <2>1, <3>2, <3>3 DEF HoldersLinked
  <2> QED
    BY <2>2, <2>3, LinksGo DEF Connect
<1> QED
  BY <1>1, <1>2, StepSettles

(* An account whose connections are being deleted has nothing left.        *)
LEMMA KeepsEmptied ==
  ASSUME Quiet, RowsOK, SetsOK, RequestsOK, WalksOK, RequestsNamed, UploadsNamed, KindsAgree,
         ChecksApart, SessionsAgree, Emptied, CheckersLinked, [Next]_vars
  PROVE  Emptied'
<1> SUFFICES ASSUME NEW q \in Requests, pc'[q] = "disconnecting", NEW w \in Uploads, Held(w)'
             PROVE  owner'[w] # account'[q]
  BY DEF Emptied
<1>1. CASE DeleteFiles(q)
  <2>1. /\ kind[q] = "DeleteAccount" /\ session' = session /\ owner' = owner
        /\ account' = account
        /\ file'[w] = IF file[w] = "listed" /\ owner[w] = account[q] THEN "deleted" ELSE file[w]
    BY <1>1 DEF DeleteFiles, Goes, requestVars
  <2>2. "InitChunkedUpload" \notin use
    BY <2>1, QuotaAssumption DEF KindsAgree, Quiet, Kinds
  <2>3. session[w] = "none"
    BY <2>2 DEF SessionsAgree
  <2> QED
    BY <2>1, <2>3 DEF Held
<1>2. CASE Waits(q)
  <2>1. pc[q] = "disconnecting" /\ account'[q] = account[q]
    BY <1>2 DEF Waits
  <2>2. CASE RowsSettle
    BY <2>1, <2>2 DEF RowsSettle, Emptied
  <2>3. CASE RowEntered
    <3>1. PICK r \in Requests : pc[r] = "creating"
      BY <2>3 DEF RowEntered, CreateSession, CreateFile, Enters
    <3>2. kind[r] \in Checked /\ kind[q] \in Disturbing /\ r # q
      BY <2>1, <3>1 DEF CheckersLinked, UnderCheck, KindsAgree, Disturbing
    <3> QED
      BY <3>2 DEF ChecksApart
  <2> QED
    BY <2>2, <2>3, StepSettles
<1>3. ~(Quits(q) \/ Turns(q))
  BY DEF Quits, Turns, Elsewhere
<1>4. CASE Moves(q) /\ ~DeleteFiles(q)
  BY <1>4 DEF Moves, Connect, CookieLiftsQuota, BeginWalk, QueryByAddress, QueryByAccount,
              SumFiles, Admit, DeleteConnections, Goes, AfterWalk, RequestsOK
<1> QED
  BY <1>1, <1>2, <1>3, <1>4, OneGoes DEF RequestGoes

(* A check is a checked request's, of an account that is connected.        *)
LEMMA KeepsCheckers ==
  ASSUME Quiet, RowsOK, RequestsOK, WalksOK, RequestsNamed, KindsAgree,
         ChecksApart, CheckersLinked, [Next]_vars
  PROVE  CheckersLinked'
<1> SUFFICES ASSUME NEW q \in Requests, pc'[q] \in UnderCheck \union {"handling"}
             PROVE  /\ pc'[q] \in UnderCheck => kind'[q] \in Checked
                    /\ kind'[q] \in Checked => <<account'[q], address'[q]>> \in connections'
  BY DEF CheckersLinked
<1>1. CASE Connect(q)
  <2>1. /\ connections' = connections \union {<<account[q], address[q]>>}
        /\ pc'[q] = "handling" /\ account' = account /\ address' = address
    BY <1>1 DEF Connect, Failures, Quiet, Goes, RequestsOK, requestVars
  <2> QED
    BY <2>1 DEF UnderCheck, Walking
<1>2. ASSUME /\ pc[q] \in UnderCheck \/ pc[q] = "handling"
             /\ pc'[q] \in UnderCheck => pc[q] \in UnderCheck \/ kind[q] \in Checked
             /\ kind'[q] = kind[q] /\ account'[q] = account[q] /\ address'[q] = address[q]
      PROVE  /\ pc'[q] \in UnderCheck => kind'[q] \in Checked
             /\ kind'[q] \in Checked => <<account'[q], address'[q]>> \in connections'
  <2>1. kind[q] \in Checked => <<account[q], address[q]>> \in connections
    BY <1>2 DEF CheckersLinked
  <2>2. ASSUME kind[q] \in Checked, NEW r \in Requests, DeleteConnections(r)
        PROVE  FALSE
    <3>1. kind[r] = "DeleteAccount"
      BY <2>2 DEF DeleteConnections, KindsAgree
    <3> QED
      BY <2>2, <3>1 DEF ChecksApart, Disturbing, Checked
  <2> QED
    BY <1>2, <2>1, <2>2, LinksGo DEF CheckersLinked, Connect
<1>3. CASE Waits(q)
  BY <1>2, <1>3 DEF Waits
<1>4. CASE Moves(q) /\ ~Connect(q)
  <2>1. ~DeleteFiles(q) /\ ~DeleteConnections(q)
    BY DEF DeleteFiles, DeleteConnections, Goes, UnderCheck, Walking, RequestsOK
  <2>2. /\ pc[q] \in UnderCheck \/ pc[q] = "handling"
        /\ pc[q] \in UnderCheck \/ kind[q] \in Checked
        /\ kind' = kind /\ account' = account /\ address' = address
    BY <1>4, <2>1 DEF Moves, CookieLiftsQuota, BeginWalk, QueryByAddress, QueryByAccount,
                      SumFiles, Admit, Goes, UnderCheck, Walking, requestVars
  <2> QED
    BY <1>2, <2>2
<1>5. ~(Quits(q) \/ Turns(q) \/ pc'[q] = "finding")
  BY DEF Quits, Turns, Elsewhere, UnderCheck, Walking
<1> QED
  BY <1>1, <1>3, <1>4, <1>5, OneGoes DEF RequestGoes

(***************************************************************************)
(* The walk and its sums.                                                  *)
(***************************************************************************)
(* A new connection does not charge an address with more: who has an       *)
(* upload is connected already, and only to one address.                   *)
LEMMA NoNewLink ==
  ASSUME RequestsOK, WalksOK, OneHome, HoldersLinked, [Next]_vars,
         NEW w \in Uploads, Held(w), NEW ip \in Addresses, <<owner[w], ip>> \in connections'
  PROVE  <<owner[w], ip>> \in connections
<1>1. CASE connections' \subseteq connections
  BY <1>1
<1>2. CASE \E r \in Requests : Connect(r)
  <2>1. PICK r \in Requests : connections' \subseteq connections \union {<<account[r], address[r]>>}
    BY <1>2 DEF Connect
  <2>2. CASE owner[w] = account[r] /\ ip = address[r]
    <3>1. PICK i \in Addresses : <<owner[w], i>> \in connections
      BY DEF HoldersLinked
    <3>2. i = address[r]
      BY <2>2, <3>1 DEF OneHome
    <3> QED
      BY <2>2, <3>1, <3>2
  <2> QED
    BY <2>1, <2>2
<1> QED
  BY <1>1, <1>2, LinksGo DEF DeleteConnections

(* A walk's next query finds who has an upload at its address, or has      *)
(* found it before.                                                        *)
LEMMA CoversStays ==
  ASSUME RequestsOK, WalksOK, OneHome, HoldersLinked, RowsSettle, [Next]_vars,
         NEW q \in Requests, account'[q] = account[q], address'[q] = address[q],
         address[q] \in Addresses, found[q] \subseteq found'[q], Covers(q)
  PROVE  Covers(q)'
<1> SUFFICES ASSUME NEW w \in Uploads, Held(w)', <<owner'[w], address'[q]>> \in connections'
             PROVE  owner'[w] \in found'[q]
  BY DEF Covers
<1>1. Held(w) /\ owner'[w] = owner[w]
  BY DEF RowsSettle
<1>2. <<owner[w], address[q]>> \in connections
  BY <1>1, NoNewLink
<1> QED
  BY <1>1, <1>2 DEF Covers

(* A query of the address covers it.                                       *)
LEMMA QueryCovers ==
  ASSUME RowsOK, RequestsOK, WalksOK, NEW q \in Requests, QueryByAddress(q),
         address[q] \in ask[q], <<account[q], address[q]>> \in connections
  PROVE  Covers(q)'
<1>1. found'[q] = found[q] \union (AccountsAt(ask[q]) \ found[q])
  BY DEF QueryByAddress, WalksOK
<1>2. \A a \in Accounts : <<a, address[q]>> \in connections => a \in AccountsAt(ask[q])
  BY DEF AccountsAt
<1>3. connections' = connections /\ address' = address /\ account' = account
  BY DEF QueryByAddress, Goes, accountVars, requestVars
<1>4. \A a : <<a, address[q]>> \in connections => a \in found'[q]
  BY <1>1, <1>2 DEF RowsOK
<1> QED
  BY <1>3, <1>4 DEF Covers

(* What a check has found covers its address; what it has summed covers    *)
(* what is listed there.                                                   *)
LEMMA KeepsCover ==
  ASSUME Quiet, RowsOK, SetsOK, RequestsOK, WalksOK, RequestsNamed, UploadsNamed, KindsAgree,
         ChecksApart, OneHome, SessionsAgree, HoldersLinked, CheckersLinked, WalksCover,
         [Next]_vars
  PROVE  WalksCover'
<1> DEFINE Fine(q) ==
      /\ pc[q] = "by address" => address[q] \in ask[q] \/ Covers(q)
      /\ pc[q] \in {"by account", "summing files", "summing sessions"} => Covers(q)
      /\ pc[q] = "summing sessions" => Listed(found[q]) \subseteq summed[q]
<1> SUFFICES ASSUME NEW q \in Requests, pc'[q] \in Walking PROVE Fine(q)'
  BY DEF WalksCover, Walking
<1>1. CASE BeginWalk(q)
  BY <1>1 DEF BeginWalk, Goes, WalksOK, RequestsOK, requestVars
<1>2. ASSUME pc[q] \in Walking
      PROVE  /\ RowsSettle
             /\ account[q] \in Accounts /\ address[q] \in Addresses
             /\ <<account[q], address[q]>> \in connections
             /\ kind[q] \in Checked
  <2>1. kind[q] \in Checked /\ <<account[q], address[q]>> \in connections
    BY <1>2 DEF CheckersLinked, UnderCheck
  <2>2. ASSUME RowEntered PROVE FALSE
    <3>1. PICK r \in Requests : pc[r] = "creating"
      BY <2>2 DEF RowEntered, CreateSession, CreateFile, Enters
    <3>2. r # q /\ kind[r] \in Disturbing
      BY <1>2, <3>1 DEF Walking, CheckersLinked, UnderCheck, Disturbing
    <3> QED
      BY <2>1, <3>2 DEF ChecksApart
  <2> QED
    BY <1>2, <2>1, <2>2, StepSettles DEF RequestsNamed, RequestsOK, Walking
<1>3. ASSUME pc[q] \in Walking, account'[q] = account[q], address'[q] = address[q],
             found[q] \subseteq found'[q], Covers(q)
      PROVE  Covers(q)'
  BY <1>2, <1>3, CoversStays
<1>4. CASE Waits(q)
  <2>1. pc[q] \in Walking
    BY <1>4 DEF Waits
  <2>2. Covers(q) => Covers(q)'
    BY <1>3, <1>4, <2>1 DEF Waits
  <2>3. ASSUME pc[q] = "summing sessions"
        PROVE  Listed(found[q])' \subseteq summed'[q]
    <3>1. \A r \in Requests : kind[r] # "CompleteChunkedUpload"
      BY <1>2, <2>1 DEF ChecksApart, Disturbing, Checked
    <3>2. Listed(found[q])' \subseteq Listed(found[q])
      BY <1>2, <1>4, <2>1, <3>1 DEF Waits, RowsSettle, Listed
    <3> QED
      BY <1>4, <2>3, <3>2 DEF Waits, WalksCover
  <2> QED
    BY <1>4, <2>2, <2>3 DEF Waits, WalksCover
<1>5. CASE QueryByAddress(q)
  <2>1. /\ pc[q] \in Walking /\ pc[q] = "by address"
        /\ account' = account /\ address' = address
        /\ found[q] \subseteq found'[q]
        /\ pc'[q] # "summing sessions"
    BY <1>5 DEF QueryByAddress, Goes, AfterWalk, requestVars, RequestsOK, WalksOK, Walking
  <2>2. Covers(q)'
    BY <1>2, <1>3, <1>5, <2>1, QueryCovers DEF WalksCover
  <2> QED
    BY <2>1, <2>2
<1>6. CASE QueryByAccount(q)
  <2>1. /\ pc[q] \in Walking /\ pc[q] = "by account"
        /\ account' = account /\ address' = address
        /\ found' = found
        /\ pc'[q] # "summing sessions"
    BY <1>6 DEF QueryByAccount, Goes, AfterWalk, requestVars, RequestsOK, Walking
  <2>2. Covers(q)'
    BY <1>3, <2>1 DEF WalksCover
  <2> QED
    BY <2>1, <2>2
<1>7. CASE SumFiles(q)
  <2>1. /\ pc[q] \in Walking /\ pc[q] = "summing files"
        /\ account' = account /\ address' = address
        /\ found' = found
        /\ pc'[q] = "summing sessions"
        /\ summed'[q] = Listed(found[q])
        /\ Listed(found[q])' = Listed(found[q])
    BY <1>7 DEF SumFiles, Goes, requestVars, uploadVars, RequestsOK, WalksOK, Walking, Listed
  <2>2. Covers(q)'
    BY <1>3, <2>1 DEF WalksCover
  <2> QED
    BY <2>1, <2>2
<1>8. ~(Quits(q) \/ Turns(q) \/ pc'[q] = "finding")
  BY DEF Quits, Turns, Elsewhere, Walking
<1>9. ~(Connect(q) \/ CookieLiftsQuota(q) \/ Admit(q) \/ DeleteFiles(q) \/ DeleteConnections(q))
  BY DEF Connect, CookieLiftsQuota, Admit, DeleteFiles, DeleteConnections, Goes, RequestsOK, Walking
<1> QED
  BY <1>1, <1>4, <1>5, <1>6, <1>7, <1>8, <1>9, OneGoes DEF RequestGoes, Moves

(* The rows entered are finitely many, and a check sums only such.         *)
LEMMA KeepsEnumerated ==
  ASSUME Quiet, RowsOK, SetsOK, RequestsOK, WalksOK, UploadsNamed, KindsAgree,
         SessionsAgree, Enumerated, [Next]_vars
  PROVE  Enumerated'
<1>1. Entered \subseteq Entered' /\ IsFiniteSet(Entered')
  <2>1. CASE RowsSettle
    BY <2>1 DEF RowsSettle, Enumerated
  <2>2. CASE RowEntered
    <3>1. PICK r \in Requests, u \in Uploads : CreateSession(r, u) \/ CreateFile(r, u)
      BY <2>2 DEF RowEntered
    <3>2. Entered' = Entered \union {u}
      BY <3>1 DEF CreateSession, CreateFile, Enters, Entered, Fresh, RowsOK
    <3> QED
      BY <3>2, FS_AddElement DEF Enumerated
  <2> QED
    BY <2>1, <2>2, StepSettles
<1>2. ASSUME NEW q \in Requests
      PROVE  summed'[q] \subseteq Entered'
  <2>1. CASE SumFiles(q)
    <3>1. summed'[q] = Listed(found[q])
      BY <2>1 DEF SumFiles, WalksOK
    <3>2. Listed(found[q]) \subseteq Entered
      BY DEF Listed, Entered, Fresh
    <3> QED
      BY <1>1, <3>1, <3>2
  <2>2. CASE ~SumFiles(q)
    <3>1. summed'[q] \in {summed[q], {}}
      BY <2>2, OneGoes DEF RequestGoes, Waits, Quits, Turns, Moves, Connect, CookieLiftsQuota,
         BeginWalk, QueryByAddress, QueryByAccount, Admit, DeleteFiles, DeleteConnections, walkVars
    <3> QED
      BY <1>1, <3>1 DEF Enumerated
  <2> QED
    BY <2>1, <2>2
<1> QED
  BY <1>1, <1>2 DEF Enumerated

(***************************************************************************)
(* The total.                                                              *)
(***************************************************************************)
(* Sizes are numbers of bytes, and the limit is one.                       *)
LEMMA NumbersAre == (Sizes \union {0}) \subseteq Nat /\ Limit \in Int
BY QuotaAssumption

(* What the rows of some accounts are charged with.                        *)
LEMMA CountedIs ==
  ASSUME NEW accounts
  PROVE  Counted(accounts) =
           {u \in Uploads : Charged(u) /\ owner[u] \in accounts /\ u \notin waived}
BY DEF Counted, Listed, Reserved, Charged

(* The total the handlers add up is the sum of the sizes.                  *)
LEMMA SizeIs == ASSUME NEW us PROVE SizeOf(us) = SumOf(size, us)
BY DEF SizeOf, SumOf

(* Only entered rows are charged for, and they have sizes.                 *)
LEMMA CountedEntered ==
  ASSUME RowsOK, Enumerated, NEW accounts
  PROVE  /\ Counted(accounts) \subseteq Entered
         /\ IsFiniteSet(Counted(accounts))
         /\ SizeOf(Counted(accounts)) \in Nat
         /\ \A u \in Uploads : size[u] \in Nat
<1>1. Counted(accounts) \subseteq Entered
  BY DEF Counted, Listed, Reserved, Entered, Fresh
<1>2. \A u \in Uploads : size[u] \in Nat
  BY NumbersAre DEF RowsOK
<1>3. IsFiniteSet(Counted(accounts))
  BY <1>1, FS_Subset DEF Enumerated
<1>4. SizeOf(Counted(accounts)) \in Nat
  BY <1>1, <1>2, <1>3, SizeIs, SumType DEF Entered
<1> QED
  BY <1>1, <1>2, <1>3, <1>4

(* A step that enters no row charges no address with more than before.     *)
LEMMA NoMoreCharged ==
  ASSUME RowsOK, RequestsOK, WalksOK, OneHome, HoldersLinked, Enumerated, RowsSettle,
         [Next]_vars, NEW ip \in Addresses
  PROVE  /\ ChargedAt(ip)' \subseteq ChargedAt(ip)
         /\ SizeOf(ChargedAt(ip))' \in Nat
         /\ SizeOf(ChargedAt(ip))' <= SizeOf(ChargedAt(ip))
<1>1. ChargedAt(ip)' \subseteq ChargedAt(ip)
  <2>1. ChargedAt(ip) = {u \in Uploads : Charged(u) /\ owner[u] \in LinkedTo(ip) /\ u \notin waived}
    BY CountedIs DEF ChargedAt
  <2>2. ChargedAt(ip)' = {u \in Uploads : Charged(u) /\ owner[u] \in LinkedTo(ip) /\ u \notin waived}'
    BY DEF ChargedAt, Counted, Listed, Reserved, Charged
  <2>3. ASSUME NEW w \in Uploads, Charged(w)', owner'[w] \in LinkedTo(ip)'
        PROVE  Charged(w) /\ owner[w] \in LinkedTo(ip)
    <3>1. Charged(w) /\ owner'[w] = owner[w]
      BY <2>3 DEF RowsSettle
    <3>2. Held(w)
      BY <3>1 DEF Charged, Held
    <3>3. <<owner[w], ip>> \in connections
      BY <2>3, <3>1, <3>2, NoNewLink DEF LinkedTo
    <3> QED
      BY <2>3, <3>1, <3>3 DEF LinkedTo
  <2> QED
    BY <2>1, <2>2, <2>3 DEF RowsSettle
<1>2. /\ IsFiniteSet(ChargedAt(ip))
      /\ ChargedAt(ip) \subseteq Uploads
      /\ \A u \in Uploads : size[u] \in Nat
  BY CountedEntered DEF ChargedAt, Entered
<1>3. SizeOf(ChargedAt(ip))' = SumOf(size, ChargedAt(ip)')
  <2>1. SizeOf(ChargedAt(ip))' = SumOf(size', ChargedAt(ip)')
    BY DEF SizeOf, SumOf, MapThenSumSet, MapThenFoldSet
  <2> QED
    BY <2>1 DEF RowsSettle
<1>4. SizeOf(ChargedAt(ip)) = SumOf(size, ChargedAt(ip))
  BY SizeIs
<1>5. IsFiniteSet(ChargedAt(ip)')
  BY <1>1, <1>2, FS_Subset
<1>6. SumOf(size, ChargedAt(ip)') \in Nat
  BY <1>1, <1>2, <1>5, SumType
<1>7. SumOf(size, ChargedAt(ip)') <= SumOf(size, ChargedAt(ip))
  BY <1>1, <1>2, SumMonotone
<1> QED
  BY <1>1, <1>3, <1>4, <1>6, <1>7

(* A check that lets its request through has counted all its address is    *)
(* charged with.                                                           *)
LEMMA AdmitFits ==
  ASSUME RowsOK, RequestsOK, WalksOK, RequestsNamed, WalksCover, Enumerated,
         NEW q \in Requests, Admit(q)
  PROVE  SizeOf(ChargedAt(address[q])) + bytes[q] < Limit
<1> DEFINE R == summed[q]
           S == Reserved(found[q])
           C == ChargedAt(address[q])
<1>1. pc[q] = "summing sessions" /\ SumOf(size, R) + SumOf(size, S) + bytes[q] < Limit
  BY SizeIs DEF Admit, UsedBytes
<1>2. Covers(q) /\ Listed(found[q]) \subseteq R
  BY <1>1 DEF WalksCover
<1>3. C \subseteq R \union S
  <2> SUFFICES ASSUME NEW u \in C PROVE u \in R \union S
    OBVIOUS
  <2>1. u \in Uploads /\ Charged(u) /\ <<owner[u], address[q]>> \in connections
    BY CountedIs DEF ChargedAt, LinkedTo
  <2>2. owner[u] \in found[q]
    BY <1>2, <2>1 DEF Covers, Charged, Held
  <2> QED
    BY <1>2, <2>1, <2>2 DEF Charged, Listed, Reserved
<1>4. /\ R \subseteq Entered /\ S \subseteq Entered
      /\ IsFiniteSet(R) /\ IsFiniteSet(S) /\ IsFiniteSet(R \union S)
  BY FS_Subset, FS_Union DEF Enumerated, Entered, Reserved, Fresh
<1>5. \A u \in Entered : size[u] \in Nat
  BY CountedEntered DEF Entered
<1>6. /\ SumOf(size, R) \in Nat /\ SumOf(size, S) \in Nat /\ SumOf(size, C) \in Nat
      /\ SumOf(size, R \union S) \in Nat
  BY <1>3, <1>4, <1>5, FS_Subset, SumType
<1>7. SumOf(size, C) <= SumOf(size, R \union S)
  BY <1>3, <1>4, <1>5, SumMonotone
<1>8. SumOf(size, R \union S) <= SumOf(size, R) + SumOf(size, S)
  BY <1>4, <1>5, SumUnion
<1>9. SizeOf(C) = SumOf(size, C)
  BY SizeIs
<1>10. bytes[q] \in Nat /\ Limit \in Int
  BY NumbersAre DEF RequestsOK
<1> HIDE DEF R, S, C
<1>11. SumOf(size, C) <= SumOf(size, R) + SumOf(size, S)
  BY <1>6, <1>7, <1>8
<1>12. SumOf(size, R) + SumOf(size, S) + bytes[q] < Limit
  BY <1>1
<1>13. SumOf(size, C) + bytes[q] < Limit
  BY <1>6, <1>10, <1>11, <1>12
<1> QED
  BY <1>9, <1>13 DEF C

(* What has been let through goes on to fit until it is entered.           *)
LEMMA KeepsRoom ==
  ASSUME Quiet, RowsOK, SetsOK, RequestsOK, WalksOK, RequestsNamed, UploadsNamed, KindsAgree,
         ChecksApart, OneHome, SessionsAgree, HoldersLinked, CheckersLinked, WalksCover,
         Enumerated, Room, [Next]_vars
  PROVE  Room'
<1> SUFFICES ASSUME NEW q \in Requests, pc'[q] = "creating", q \notin waiving'
             PROVE  SizeOf(ChargedAt(address[q]))' + bytes'[q] < Limit
  BY DEF Room
<1>1. CASE Waits(q) \/ Admit(q)
  <2>1. /\ pc[q] \in UnderCheck /\ address'[q] = address[q] /\ bytes'[q] = bytes[q]
        /\ address[q] \in Addresses
    BY <1>1 DEF Waits, Admit, Goes, requestVars, UnderCheck, Walking, RequestsNamed, RequestsOK
  <2>2. SizeOf(ChargedAt(address[q])) + bytes[q] < Limit
    <3>1. CASE Waits(q)
      BY <3>1 DEF Waits, Room
    <3>2. CASE Admit(q)
      BY <3>2, AdmitFits
    <3> QED
      BY <1>1, <3>1, <3>2
  <2>3. ASSUME RowEntered PROVE FALSE
    <3>1. PICK r \in Requests, u \in Uploads : Enters(r, u)
      BY <2>3 DEF RowEntered, CreateSession, CreateFile
    <3>2. r # q
      BY <3>1 DEF Enters, Ends, RequestsOK
    <3>3. kind[q] \in Checked /\ kind[r] \in Disturbing
      BY <2>1, <3>1 DEF Enters, CheckersLinked, UnderCheck, Disturbing
    <3> QED
      BY <3>2, <3>3 DEF ChecksApart
  <2>4. RowsSettle
    BY <2>3, StepSettles
  <2> DEFINE ip == address[q]
  <2>5. /\ SizeOf(ChargedAt(ip))' \in Nat
        /\ SizeOf(ChargedAt(ip))' <= SizeOf(ChargedAt(ip))
        /\ SizeOf(ChargedAt(ip)) \in Nat
    BY <2>1, <2>4, NoMoreCharged, CountedEntered DEF ChargedAt
  <2>6. bytes[q] \in Nat
    BY NumbersAre DEF RequestsOK
  <2>7. SizeOf(ChargedAt(address[q]))' = SizeOf(ChargedAt(ip))'
    BY <2>1
  <2> QED
    BY <2>1, <2>2, <2>5, <2>6, <2>7, NumbersAre
<1>2. ~(Quits(q) \/ Turns(q) \/ pc'[q] = "finding")
  BY DEF Quits, Turns, Elsewhere
<1>3. ~CookieLiftsQuota(q)
  BY DEF CookieLiftsQuota
<1>4. ~(QueryByAddress(q) \/ QueryByAccount(q))
  <2>1. ASSUME QueryByAddress(q) PROVE FALSE
    <3>1. /\ AccountsAt(ask[q]) \subseteq found[q] /\ found[q] = {}
          /\ pc[q] = "by address"
      BY <2>1 DEF QueryByAddress, Goes, AfterWalk, RequestsOK
    <3>2. address[q] \in ask[q] /\ <<account[q], address[q]>> \in connections
      BY <3>1 DEF WalksCover, Covers, CheckersLinked, UnderCheck, Walking
    <3> QED
      BY <3>1, <3>2 DEF AccountsAt, RowsOK
  <2>2. ASSUME QueryByAccount(q) PROVE FALSE
    <3>1. found[q] = {} /\ pc[q] = "by account"
      BY <2>2 DEF QueryByAccount, Goes, AfterWalk, RequestsOK
    <3> QED
      BY <3>1 DEF WalksCover, Covers
  <2> QED
    BY <2>1, <2>2
<1>5. ~(Connect(q) \/ BeginWalk(q) \/ SumFiles(q) \/ DeleteFiles(q) \/ DeleteConnections(q))
  BY DEF Connect, BeginWalk, SumFiles, DeleteFiles, DeleteConnections, Goes, RequestsOK
<1> QED
  BY <1>1, <1>2, <1>3, <1>4, <1>5, OneGoes DEF RequestGoes, Moves

(* No address is charged with more than its limit.                         *)
LEMMA KeepsBelow ==
  ASSUME Quiet, RowsOK, SetsOK, RequestsOK, WalksOK, RequestsNamed, UploadsNamed, KindsAgree,
         OneHome, SessionsAgree, HoldersLinked, CheckersLinked, Enumerated, Room, BelowLimit,
         [Next]_vars
  PROVE  BelowLimit'
<1> SUFFICES ASSUME NEW ip \in Addresses, ChargedAt(ip)' # {}
             PROVE  SizeOf(ChargedAt(ip))' < Limit
  BY DEF BelowLimit
<1>1. SizeOf(ChargedAt(ip)) \in Nat /\ (ChargedAt(ip) # {} => SizeOf(ChargedAt(ip)) < Limit)
  BY CountedEntered DEF ChargedAt, BelowLimit
<1>2. Limit \in Int
  BY NumbersAre
<1>3. CASE RowsSettle
  <2>1. /\ ChargedAt(ip)' \subseteq ChargedAt(ip)
        /\ SizeOf(ChargedAt(ip))' \in Nat
        /\ SizeOf(ChargedAt(ip))' <= SizeOf(ChargedAt(ip))
    BY <1>3, NoMoreCharged
  <2>2. ChargedAt(ip) # {}
    BY <2>1
  <2> QED
    BY <1>1, <1>2, <2>1, <2>2
<1>4. CASE RowEntered
  <2>1. PICK r \in Requests, u \in Uploads : CreateSession(r, u) \/ CreateFile(r, u)
    BY <1>4 DEF RowEntered
  <2> DEFINE C == ChargedAt(ip)
             D == ChargedAt(ip)'
  <2>2. /\ pc[r] = "creating"
        /\ connections' = connections
        /\ size' = [size EXCEPT ![u] = bytes[r]]
        /\ owner' = [owner EXCEPT ![u] = account[r]]
        /\ waived' = IF r \in waiving THEN waived \union {u} ELSE waived
        /\ ~Charged(u)
        /\ \A w \in Uploads : w # u /\ Charged(w)' => Charged(w)
    BY <2>1 DEF CreateSession, CreateFile, Enters, accountVars, Charged, Fresh, RowsOK
  <2>3. /\ C = {w \in Uploads : Charged(w) /\ owner[w] \in LinkedTo(ip) /\ w \notin waived}
        /\ D = {w \in Uploads : Charged(w) /\ owner[w] \in LinkedTo(ip) /\ w \notin waived}'
    BY DEF ChargedAt, Counted, Listed, Reserved, Charged
  <2>4. LinkedTo(ip)' = LinkedTo(ip)
    BY <2>2 DEF LinkedTo
  <2>5. \A w \in D : w # u => w \in C
    BY <2>2, <2>3, <2>4 DEF RowsOK
  <2>6. u \notin C /\ IsFiniteSet(C) /\ C \subseteq Uploads /\ \A w \in Uploads : size[w] \in Nat
    BY <2>2, <2>3, CountedEntered DEF ChargedAt
  <2>7. SizeOf(C) = SumOf(size, C) /\ SizeOf(ChargedAt(ip))' = SumOf(size', D)
    BY DEF SizeOf, SumOf, MapThenSumSet, MapThenFoldSet
  <2>8. bytes[r] \in Nat
    BY NumbersAre DEF RequestsOK
  <2> DEFINE E == D \ {u}
  <2>9. E \subseteq C /\ IsFiniteSet(E)
    BY <2>5, <2>6, FS_Subset
  <2>10. \A w \in E : size'[w] = size[w]
    BY <2>2, <2>6, <2>9 DEF RowsOK
  <2>11. SumOf(size', E) = SumOf(size, E)
    <3> DEFINE f == size'
    <3>1. \A w \in E : f[w] = size[w]
      BY <2>10
    <3> HIDE DEF f, E
    <3>2. SumOf(f, E) = SumOf(size, E)
      BY <2>9, <3>1, SumSame
    <3> QED
      BY <3>2 DEF f
  <2>12. SumOf(size, E) \in Nat /\ SumOf(size, C) \in Nat /\ SumOf(size, E) <= SumOf(size, C)
    BY <2>6, <2>9, SumType, SumMonotone
  <2>13. CASE u \notin D
    <3>1. E = D /\ C # {}
      BY <2>5, <2>13
    <3> HIDE DEF C, D, E
    <3>2. SumOf(size', D) <= SumOf(size, C) /\ SumOf(size', D) \in Nat
      BY <2>11, <2>12, <3>1
    <3> QED
      BY <1>1, <1>2, <2>7, <2>12, <3>1, <3>2 DEF C
  <2>14. CASE u \in D
    <3>1. account[r] \in LinkedTo(ip) /\ r \notin waiving
      BY <2>2, <2>3, <2>4, <2>14 DEF RowsOK
    <3>2. address[r] = ip
      BY <3>1 DEF LinkedTo, OneHome
    <3>3. SizeOf(C) + bytes[r] < Limit
      BY <2>2, <3>1, <3>2 DEF Room
    <3>4. SumOf(size', D) = bytes[r] + SumOf(size', E)
      <4> DEFINE f == size'
      <4>1. \A w \in D : f[w] \in Nat
        BY <2>2, <2>6, <2>8, <2>9, <2>10 DEF RowsOK
      <4>2. f[u] = bytes[r]
        BY <2>2 DEF RowsOK
      <4>3. IsFiniteSet(D)
        <5>1. D = E \union {u}
          BY <2>14
        <5> QED
          BY <2>9, <5>1, FS_AddElement
      <4> HIDE DEF f, D
      <4>4. SumOf(f, D) = f[u] + SumOf(f, D \ {u})
        BY <2>14, <4>1, <4>3, SumWithout
      <4> QED
        BY <4>2, <4>4 DEF f
    <3> HIDE DEF C, D, E
    <3>5. SumOf(size', D) = bytes[r] + SumOf(size, E)
      BY <2>11, <3>4
    <3>6. SumOf(size, C) + bytes[r] < Limit
      BY <2>7, <3>3
    <3>7. SumOf(size', D) < Limit
      BY <1>2, <2>8, <2>12, <3>5, <3>6
    <3> QED
      BY <2>7, <3>7
  <2> QED
    BY <2>13, <2>14
<1> QED
  BY <1>3, <1>4, StepSettles

(***************************************************************************)
(* Theorems of the quota.                                                  *)
(***************************************************************************)
(* The invariant holds at the start: nothing is charged.                   *)
LEMMA InitQuiet == Init => QuietInv
<1> SUFFICES ASSUME Init PROVE QuietInv
  OBVIOUS
<1> USE DEF Init
<1>1. ChecksApart
  BY QuotaAssumption DEF ChecksApart, Kinds, Checked
<1>2. OneHome /\ SessionsAgree
  BY DEF OneHome, SessionsAgree
<1>3. HoldersLinked /\ Emptied /\ CheckersLinked
  BY DEF HoldersLinked, Held, Emptied, CheckersLinked, UnderCheck, Walking
<1>4. WalksCover /\ Room
  BY DEF WalksCover, Room
<1>5. Enumerated
  <2>1. Entered = {}
    BY DEF Entered, Fresh
  <2> QED
    BY <2>1, FS_EmptySet DEF Enumerated
<1>6. BelowLimit
  BY DEF BelowLimit, ChargedAt, Counted, Listed, Reserved
<1> QED
  BY <1>1, <1>2, <1>3, <1>4, <1>5, <1>6 DEF QuietInv

(* Every step keeps the invariant.                                         *)
LEMMA StepQuiet == IInv /\ QuietInv /\ [Next]_vars => QuietInv'
<1> SUFFICES ASSUME IInv, QuietInv, [Next]_vars, Quiet'
             PROVE  QuietInv'
  BY DEF QuietInv
<1> USE DEF IInv, QuietInv
<1>1. Quiet
  BY UseStays DEF Quiet
<1>2. ChecksApart' /\ OneHome'
  BY <1>1, KeepsApart, KeepsHome
<1>3. SessionsAgree'
  BY <1>1, KeepsSessions
<1>4. HoldersLinked' /\ Emptied' /\ CheckersLinked'
  BY <1>1, KeepsHolders, KeepsEmptied, KeepsCheckers
<1>5. WalksCover' /\ Enumerated'
  BY <1>1, KeepsCover, KeepsEnumerated
<1>6. Room' /\ BelowLimit'
  BY <1>1, KeepsRoom, KeepsBelow
<1> QED
  BY <1>2, <1>3, <1>4, <1>5, <1>6

(* Where an account has one address, those linked to an address are those  *)
(* connected to it.                                                        *)
LEMMA PoolIsLinked ==
  ASSUME RowsOK, OneHome, NEW ip \in Addresses
  PROVE  Pool(connections, ip) = LinkedTo(ip)
<1>1. ClosedUnder(connections, {ip})
  BY DEF ClosedUnder, OneHome
<1>2. Pool(connections, ip) \subseteq LinkedTo(ip)
  <2> SUFFICES ASSUME NEW a \in Pool(connections, ip) PROVE <<a, ip>> \in connections
    BY DEF LinkedTo, Pool
  <2>1. {ip} \in SUBSET Addresses /\ ip \in {ip}
    OBVIOUS
  <2>2. \E i \in {ip} : <<a, i>> \in connections
    BY <1>1, <2>1 DEF Pool
  <2> QED
    BY <2>2
<1>3. LinkedTo(ip) \subseteq Pool(connections, ip)
  BY DEF Pool, LinkedTo
<1> QED
  BY <1>2, <1>3

(* The invariant of the quota holds in every state of the conditions that  *)
(* QuotaKept names: checks find and count all that their address is        *)
(* charged with, whatever else goes on.                                    *)
THEOREM QuietInvariance == Spec => []QuietInv
<1>1. Init => QuietInv
  BY InitQuiet
<1>2. IInv /\ QuietInv /\ [Next]_vars => QuietInv'
  BY StepQuiet
<1> QED
  BY <1>1, <1>2, Invariance, PTL DEF Spec

(* What the accounts linked to one address have listed in a day or         *)
(* reserved stays below the limit, under the conditions QuotaKept names,   *)
(* for any number of accounts, addresses, uploads and sizes, and whatever  *)
(* aborts, deletes, expiry and restarts come between a check's queries.    *)
THEOREM QuotaHolds == Spec => []QuotaKept
<1>1. IInv /\ QuietInv => QuotaKept
  <2> SUFFICES ASSUME IInv, QuietInv, Quiet, NEW ip \in Addresses
               PROVE  LET counted == Counted(Pool(connections, ip))
                      IN  counted = {} \/ SizeOf(counted) < Limit
    BY DEF QuotaKept, Quiet
  <2>1. Pool(connections, ip) = LinkedTo(ip)
    BY PoolIsLinked DEF IInv, QuietInv
  <2> QED
    BY <2>1 DEF QuietInv, BelowLimit, ChargedAt
<1> QED
  BY <1>1, Invariance, QuietInvariance, PTL

=============================================================================
