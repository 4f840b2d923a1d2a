------------------------------- MODULE Quota -------------------------------
(***************************************************************************)
(* The daily upload quota: the accounts and addresses it is pooled over    *)
(* (middleware/auth.go, pkg/limiter), the cookie that lifts it             *)
(* (pkg/unlock), and the requests that are checked against it or change    *)
(* what it counts.                                                         *)
(*                                                                         *)
(* Nothing holds a total.  A request that wants to upload walks from its   *)
(* address over the accounts seen there to their other addresses and so    *)
(* on, sums what those accounts have listed, then what they have reserved, *)
(* and later adds a row of its own; every query is a step, and the rows it *)
(* reads change between them.                                              *)
(*                                                                         *)
(* Uploads are both kinds: a chunked one has a session and, once complete, *)
(* a file, a single one has a file from the start.  What their content     *)
(* goes through is the subject of the storage modules.                     *)
(***************************************************************************)
EXTENDS Integers, FiniteSetsExt

CONSTANTS Accounts, Addresses,
          Uploads,   \* what may be uploaded
          Sizes,     \* the sizes uploads may have
          Limit,     \* UploadLimitMBPerDay, in the unit of Sizes
          Secrets,   \* values of UNLOCK_PASSWORD
          None,      \* no account, address, upload, password or cookie
          Requests,  \* slots for requests in flight at once
          Uses       \* what may be going on: sets of Kinds and Conditions

Checked == {"InitChunkedUpload", "UploadFile"}

OfSession == {"UploadChunk", "CompleteChunkedUpload", "AbortChunkedUpload"}

Kinds == Checked \union OfSession \union
           {"DeleteFile", "DeleteAccount", "UnlockLimits", "LockLimits"}

(* An account is seen at more than one address; a check runs while another, *)
(* a complete or the deletion of an account does; the day passes; calls    *)
(* fail; the server restarts, with another password perhaps.               *)
Conditions == {"roaming", "overlaps", "clock", "failures", "restarts"}

ASSUME QuotaAssumption ==
  /\ None \notin Accounts \union Addresses \union Uploads \union Secrets \union Kinds
  /\ Sizes \subseteq Nat \ {0}
  /\ Limit \in Int
  /\ Uses \subseteq SUBSET (Kinds \union Conditions)

VARIABLES use,          \* the requests and conditions that occur
          user,         \* user[a]: its users row
          connections,  \* the account_ip_connections rows
          session,      \* session[u]: status of its upload_sessions row
          file,         \* file[u]: its uploaded_files row
          size,         \* size[u]: its size, 0 before it is admitted
          owner,        \* owner[u]: the account its rows name
          waived,       \* the uploads admitted by cookie
          overdue,      \* the uploads whose session is past ExpiresAt
          old,          \* the uploads listed for more than a day
          open,         \* the uploads the storage backend has open
          secret,       \* UNLOCK_PASSWORD, None if there is none
          cookie,       \* cookie[a]: the password its cookie is signed with
          pc,           \* pc[r]: where the request in slot r is
          kind,         \* kind[r]: which request it is
          account,      \* account[r]: whose
          address,      \* address[r]: where from
          upload,       \* upload[r]: the upload it names
          bytes,        \* bytes[r]: the size it wants to upload
          found,        \* found[r]: the accounts its walk has found
          seen,         \* seen[r]: the addresses its walk has found
          ask,          \* ask[r]: those of either it found last
          before,       \* before[r]: the connections when its walk began
          summed,       \* summed[r]: the listed uploads it has counted
          waiving       \* the requests that hold a valid cookie

accountVars == <<user, connections>>

uploadVars == <<session, file, size, owner, waived, overdue, old, open>>

unlockVars == <<secret, cookie>>

requestVars == <<kind, account, address, upload, bytes>>

walkVars == <<found, seen, ask, before, summed, waiving>>

vars == <<use, accountVars, uploadVars, unlockVars, pc, requestVars, walkVars>>

Places ==
  {"idle", "finding", "creating user", "saving user", "connecting", "handling",
   "by address", "by account", "summing files", "summing sessions",
   "creating", "loaded", "settling", "disconnecting", "leaving"}

TypeOK ==
  /\ use \in Uses
  /\ user \in [Accounts -> {"none", "live", "deleted"}]
  /\ connections \subseteq Accounts \X Addresses
  /\ session \in [Uploads -> {"none", "active", "completed", "cancelled", "expired"}]
  /\ file \in [Uploads -> {"none", "listed", "deleted"}]
  /\ size \in [Uploads -> Sizes \union {0}]
  /\ owner \in [Uploads -> Accounts \union {None}]
  /\ waived \subseteq Uploads
  /\ overdue \subseteq Uploads
  /\ old \subseteq Uploads
  /\ open \subseteq Uploads
  /\ secret \in Secrets \union {None}
  /\ cookie \in [Accounts -> Secrets \union {None}]
  /\ pc \in [Requests -> Places]
  /\ kind \in [Requests -> Kinds \union {None}]
  /\ account \in [Requests -> Accounts \union {None}]
  /\ address \in [Requests -> Addresses \union {None}]
  /\ upload \in [Requests -> Uploads \union {None}]
  /\ bytes \in [Requests -> Sizes \union {0}]
  /\ found \in [Requests -> SUBSET Accounts]
  /\ seen \in [Requests -> SUBSET Addresses]
  /\ ask \in [Requests -> (SUBSET Accounts) \union (SUBSET Addresses)]
  /\ before \in [Requests -> SUBSET (Accounts \X Addresses)]
  /\ summed \in [Requests -> SUBSET Uploads]
  /\ waiving \subseteq Requests
  /\ \A r \in Requests : pc[r] # "idle" => account[r] # None /\ address[r] # None
  /\ \A u \in Uploads : session[u] # "none" => owner[u] # None

Init ==
  /\ use \in Uses
  /\ user = [a \in Accounts |-> "none"]
  /\ connections = {}
  /\ session = [u \in Uploads |-> "none"]
  /\ file = [u \in Uploads |-> "none"]
  /\ size = [u \in Uploads |-> 0]
  /\ owner = [u \in Uploads |-> None]
  /\ waived = {} /\ overdue = {} /\ old = {} /\ open = {}
  /\ secret \in Secrets \union {None}
  /\ cookie = [a \in Accounts |-> None]
  /\ pc = [r \in Requests |-> "idle"]
  /\ kind = [r \in Requests |-> None]
  /\ account = [r \in Requests |-> None]
  /\ address = [r \in Requests |-> None]
  /\ upload = [r \in Requests |-> None]
  /\ bytes = [r \in Requests |-> 0]
  /\ found = [r \in Requests |-> {}]
  /\ seen = [r \in Requests |-> {}]
  /\ ask = [r \in Requests |-> {}]
  /\ before = [r \in Requests |-> {}]
  /\ summed = [r \in Requests |-> {}]
  /\ waiving = {}

Failures == "failures" \in use

Goes(r, place) == pc' = [pc EXCEPT ![r] = place] /\ UNCHANGED requestVars

Ends(r) ==
  /\ pc' = [pc EXCEPT ![r] = "idle"]
  /\ kind' = [kind EXCEPT ![r] = None]
  /\ account' = [account EXCEPT ![r] = None]
  /\ address' = [address EXCEPT ![r] = None]
  /\ upload' = [upload EXCEPT ![r] = None]
  /\ bytes' = [bytes EXCEPT ![r] = 0]
  /\ found' = [found EXCEPT ![r] = {}]
  /\ seen' = [seen EXCEPT ![r] = {}]
  /\ ask' = [ask EXCEPT ![r] = {}]
  /\ before' = [before EXCEPT ![r] = {}]
  /\ summed' = [summed EXCEPT ![r] = {}]
  /\ waiving' = waiving \ {r}

(***************************************************************************)
(* A request comes in.  The conditions that are not in use restrict what   *)
(* comes when, not what the server does with it.                           *)
(***************************************************************************)
Disturbing == Checked \union {"CompleteChunkedUpload", "DeleteAccount"}

Apart(k) ==
  "overlaps" \notin use =>
    \A q \in Requests : ~(k \in Checked /\ kind[q] \in Disturbing)
                     /\ ~(k \in Disturbing /\ kind[q] \in Checked)

AtHome(a, ip) ==
  "roaming" \notin use =>
    /\ \A c \in connections : c[1] = a => c[2] = ip
    /\ \A q \in Requests : account[q] = a => address[q] = ip

Arrives(r, k, a, ip, u, n) ==
  /\ pc[r] = "idle"
  /\ k \in use
  /\ Apart(k)
  /\ AtHome(a, ip)
  /\ pc' = [pc EXCEPT ![r] = "finding"]
  /\ kind' = [kind EXCEPT ![r] = k]
  /\ account' = [account EXCEPT ![r] = a]
  /\ address' = [address EXCEPT ![r] = ip]
  /\ upload' = [upload EXCEPT ![r] = u]
  /\ bytes' = [bytes EXCEPT ![r] = n]
  /\ UNCHANGED <<use, accountVars, uploadVars, unlockVars, walkVars>>

(* A client knows its own uploads. *)
Request(r, a, ip) ==
  \/ \E k \in Checked, n \in Sizes : Arrives(r, k, a, ip, None, n)
  \/ \E k \in OfSession \union {"DeleteFile"}, u \in Uploads :
       owner[u] = a /\ Arrives(r, k, a, ip, u, 0)
  \/ \E k \in {"DeleteAccount", "UnlockLimits", "LockLimits"} :
       Arrives(r, k, a, ip, None, 0)

(***************************************************************************)
(* AuthMiddleware.  A deleted users row is passed over by the lookup, but  *)
(* keeps its account id taken, so that the account cannot be created again.*)
(* A row whose LastLogin is not of the last minute, as that of a new one   *)
(* never is, is written back as it was read.                               *)
(***************************************************************************)
AfterLookup(a) ==
  IF user[a] = "live" THEN {"saving user", "connecting"} ELSE {"creating user"}

FindUser(r) ==
  /\ pc[r] = "finding"
  /\ \E place \in AfterLookup(account[r]) : Goes(r, place)
  /\ UNCHANGED <<use, accountVars, uploadVars, unlockVars, walkVars>>

CreateUser(r) ==
  /\ pc[r] = "creating user"
  /\ user[account[r]] = "none"
  /\ user' = [user EXCEPT ![account[r]] = "live"]
  /\ Goes(r, "saving user")
  /\ UNCHANGED <<use, connections, uploadVars, unlockVars, walkVars>>

(* db.Save, whose error is not looked at.  A row that has been deleted since *)
(* the lookup is not found by its update, and is then inserted over what is  *)
(* there: the account is back.                                               *)
SaveUser(r) ==
  /\ pc[r] = "saving user"
  /\ \/ user' = [user EXCEPT ![account[r]] = "live"]
     \/ Failures /\ UNCHANGED user
  /\ Goes(r, "connecting")
  /\ UNCHANGED <<use, connections, uploadVars, unlockVars, walkVars>>

(* Another request has created the account since, or it has been deleted. *)
AccountIdTaken(r) ==
  /\ pc[r] = "creating user"
  /\ user[account[r]] # "none"
  /\ Ends(r)
  /\ UNCHANGED <<use, accountVars, uploadVars, unlockVars>>

(* The lookup and, for a new pair, the insert, whose error is not looked at. *)
Connect(r) ==
  /\ pc[r] = "connecting"
  /\ \/ connections' = connections \union {<<account[r], address[r]>>}
     \/ Failures /\ UNCHANGED connections
  /\ Goes(r, "handling")
  /\ UNCHANGED <<use, user, uploadVars, unlockVars, walkVars>>

(***************************************************************************)
(* ShouldThrottle, and the row of an upload that it lets through.          *)
(***************************************************************************)
IsUnlocked(a) == secret # None /\ cookie[a] = secret

CookieLiftsQuota(r) ==
  /\ pc[r] = "handling"
  /\ kind[r] \in Checked
  /\ IsUnlocked(account[r])
  /\ waiving' = waiving \union {r}
  /\ Goes(r, "creating")
  /\ UNCHANGED <<use, accountVars, uploadVars, unlockVars, found, seen, ask, before, summed>>

BeginWalk(r) ==
  /\ pc[r] = "handling"
  /\ kind[r] \in Checked
  /\ ~IsUnlocked(account[r])
  /\ found' = [found EXCEPT ![r] = {}]
  /\ seen' = [seen EXCEPT ![r] = {address[r]}]
  /\ ask' = [ask EXCEPT ![r] = {address[r]}]
  /\ before' = [before EXCEPT ![r] = connections]
  /\ Goes(r, "by address")
  /\ UNCHANGED <<use, accountVars, uploadVars, unlockVars, summed, waiving>>

AccountsAt(ips) == {a \in Accounts : \E i \in ips : <<a, i>> \in connections}

AddressesOf(as) == {i \in Addresses : \E a \in as : <<a, i>> \in connections}

(* What follows a walk that has come to its end. *)
AfterWalk(accounts) == IF accounts = {} THEN "creating" ELSE "summing files"

QueryByAddress(r) ==
  /\ pc[r] = "by address"
  /\ LET new == AccountsAt(ask[r]) \ found[r]
     IN  /\ found' = [found EXCEPT ![r] = @ \union new]
         /\ ask' = [ask EXCEPT ![r] = new]
         /\ Goes(r, IF new = {} THEN AfterWalk(found[r]) ELSE "by account")
  /\ UNCHANGED <<use, accountVars, uploadVars, unlockVars, seen, before, summed, waiving>>

(* Mutant: the walk ends after one round, with the accounts of one address. *)
QueryByAccountOnce(r) ==
  /\ pc[r] = "by account"
  /\ seen' = [seen EXCEPT ![r] = @ \union AddressesOf(ask[r])]
  /\ ask' = [ask EXCEPT ![r] = {}]
  /\ Goes(r, AfterWalk(found[r]))
  /\ UNCHANGED <<use, accountVars, uploadVars, unlockVars, found, before, summed, waiving>>

QueryByAccount(r) ==
  /\ pc[r] = "by account"
  /\ LET new == AddressesOf(ask[r]) \ seen[r]
     IN  /\ seen' = [seen EXCEPT ![r] = @ \union new]
         /\ ask' = [ask EXCEPT ![r] = new]
         /\ Goes(r, IF new = {} THEN AfterWalk(found[r]) ELSE "by address")
  /\ UNCHANGED <<use, accountVars, uploadVars, unlockVars, found, before, summed, waiving>>

Listed(accounts) ==
  {u \in Uploads : file[u] = "listed" /\ u \notin old /\ owner[u] \in accounts}

Reserved(accounts) ==
  {u \in Uploads : session[u] = "active" /\ u \notin overdue /\ owner[u] \in accounts}

SizeOf(us) == MapThenSumSet(LAMBDA u : size[u], us)

SumFiles(r) ==
  /\ pc[r] = "summing files"
  /\ summed' = [summed EXCEPT ![r] = Listed(found[r])]
  /\ Goes(r, "summing sessions")
  /\ UNCHANGED <<use, accountVars, uploadVars, unlockVars, found, seen, ask, before, waiving>>

(* Mutant: only what is listed counts. *)
ListedBytes(r) == SizeOf(summed[r])

UsedBytes(r) == SizeOf(summed[r]) + SizeOf(Reserved(found[r]))

Throttle(r) ==
  /\ pc[r] = "summing sessions"
  /\ UsedBytes(r) + bytes[r] >= Limit
  /\ Ends(r)
  /\ UNCHANGED <<use, accountVars, uploadVars, unlockVars>>

Admit(r) ==
  /\ pc[r] = "summing sessions"
  /\ UsedBytes(r) + bytes[r] < Limit
  /\ Goes(r, "creating")
  /\ UNCHANGED <<use, accountVars, uploadVars, unlockVars, walkVars>>

Fresh(u) == session[u] = "none" /\ file[u] = "none"

(* Mutant: the new row names no account. *)
EntersUnowned(r, u) ==
  /\ pc[r] = "creating"
  /\ Fresh(u)
  /\ size' = [size EXCEPT ![u] = bytes[r]]
  /\ waived' = IF r \in waiving THEN waived \union {u} ELSE waived
  /\ Ends(r)
  /\ UNCHANGED <<use, accountVars, unlockVars, owner, overdue, old>>

Enters(r, u) ==
  /\ pc[r] = "creating"
  /\ Fresh(u)
  /\ size' = [size EXCEPT ![u] = bytes[r]]
  /\ owner' = [owner EXCEPT ![u] = account[r]]
  /\ waived' = IF r \in waiving THEN waived \union {u} ELSE waived
  /\ Ends(r)
  /\ UNCHANGED <<use, accountVars, unlockVars, overdue, old>>

(* The row stays active, and reserves its bytes, also if the storage then *)
(* refuses to open the session and the client is told of a failure.       *)
CreateSession(r, u) ==
  /\ kind[r] = "InitChunkedUpload"
  /\ session' = [session EXCEPT ![u] = "active"]
  /\ \/ open' = open \union {u}
     \/ Failures /\ UNCHANGED open
  /\ Enters(r, u)
  /\ UNCHANGED file

CreateFile(r, u) ==
  /\ kind[r] = "UploadFile"
  /\ file' = [file EXCEPT ![u] = "listed"]
  /\ Enters(r, u)
  /\ UNCHANGED <<session, open>>

(***************************************************************************)
(* The requests of a session.  Each loads the row while it is active and   *)
(* writes a status back later.  The storage lets one complete through.     *)
(***************************************************************************)
LoadSession(r) ==
  /\ pc[r] = "handling"
  /\ kind[r] \in OfSession
  /\ session[upload[r]] = "active"
  /\ owner[upload[r]] = account[r]
  /\ kind[r] = "UploadChunk" => upload[r] \in overdue
  /\ Goes(r, IF kind[r] = "UploadChunk" THEN "settling" ELSE "loaded")
  /\ UNCHANGED <<use, accountVars, uploadVars, unlockVars, walkVars>>

FinalizeAndCreateFile(r) ==
  /\ pc[r] = "loaded"
  /\ kind[r] = "CompleteChunkedUpload"
  /\ upload[r] \in open
  /\ open' = open \ {upload[r]}
  /\ \/ /\ file' = [file EXCEPT ![upload[r]] = "listed"]
        /\ Goes(r, "settling")
        /\ UNCHANGED walkVars
     \/ Failures /\ Ends(r) /\ UNCHANGED file
  /\ UNCHANGED <<use, accountVars, unlockVars, session, size, owner, waived, overdue, old>>

DropFromStorage(r) ==
  /\ pc[r] = "loaded"
  /\ kind[r] = "AbortChunkedUpload"
  /\ open' = open \ {upload[r]}
  /\ Goes(r, "settling")
  /\ UNCHANGED <<use, accountVars, unlockVars, session, file, size, owner, waived, overdue, old, walkVars>>

StatusAfter(k) ==
  CASE k = "CompleteChunkedUpload" -> "completed"
    [] k = "AbortChunkedUpload"    -> "cancelled"
    [] k = "UploadChunk"           -> "expired"

(* Mutant: the status is not written back. *)
KeepStatus(r) ==
  /\ pc[r] = "settling"
  /\ Ends(r)
  /\ UNCHANGED <<use, accountVars, uploadVars, unlockVars>>

(* db.Save, whose error is not looked at. *)
SaveStatus(r) ==
  /\ pc[r] = "settling"
  /\ \/ session' = [session EXCEPT ![upload[r]] = StatusAfter(kind[r])]
     \/ Failures /\ UNCHANGED session
  /\ Ends(r)
  /\ UNCHANGED <<use, accountVars, unlockVars, file, size, owner, waived, overdue, old, open>>

(***************************************************************************)
(* Deletes.  Their steps against the objects are those of FileStore.       *)
(***************************************************************************)
DeleteFile(r) ==
  /\ pc[r] = "handling"
  /\ kind[r] = "DeleteFile"
  /\ file[upload[r]] = "listed"
  /\ owner[upload[r]] = account[r]
  /\ file' = [file EXCEPT ![upload[r]] = "deleted"]
  /\ Ends(r)
  /\ UNCHANGED <<use, accountVars, unlockVars, session, size, owner, waived, overdue, old, open>>

DeleteFiles(r) ==
  /\ pc[r] = "handling"
  /\ kind[r] = "DeleteAccount"
  /\ file' = [u \in Uploads |->
                IF file[u] = "listed" /\ owner[u] = account[r] THEN "deleted" ELSE file[u]]
  /\ Goes(r, "disconnecting")
  /\ UNCHANGED <<use, accountVars, unlockVars, session, size, owner, waived, overdue, old, open, walkVars>>

DeleteConnections(r) ==
  /\ pc[r] = "disconnecting"
  /\ connections' = {c \in connections : c[1] # account[r]}
  /\ Goes(r, "leaving")
  /\ UNCHANGED <<use, user, uploadVars, unlockVars, walkVars>>

DeleteUser(r) ==
  /\ pc[r] = "leaving"
  /\ user' = [user EXCEPT ![account[r]] = "deleted"]
  /\ Ends(r)
  /\ UNCHANGED <<use, connections, uploadVars, unlockVars>>

(***************************************************************************)
(* The cookie: signed with the password, so that another password makes it *)
(* void without a record of it.  Its expiry is signed into it.             *)
(***************************************************************************)
UnlockLimits(r) ==
  /\ pc[r] = "handling"
  /\ kind[r] = "UnlockLimits"
  /\ secret # None
  /\ cookie' = [cookie EXCEPT ![account[r]] = secret]
  /\ Ends(r)
  /\ UNCHANGED <<use, accountVars, uploadVars, secret>>

LockLimits(r) ==
  /\ pc[r] = "handling"
  /\ kind[r] = "LockLimits"
  /\ cookie' = [cookie EXCEPT ![account[r]] = None]
  /\ Ends(r)
  /\ UNCHANGED <<use, accountVars, uploadVars, secret>>

CookieExpires(a) ==
  /\ "clock" \in use
  /\ cookie[a] # None
  /\ cookie' = [cookie EXCEPT ![a] = None]
  /\ UNCHANGED <<use, accountVars, uploadVars, secret, pc, requestVars, walkVars>>

(***************************************************************************)
(* What else can end a request, and the clock.                             *)
(***************************************************************************)

(* A handler that finds nothing to do, or whose call fails, answers and *)
(* leaves everything as it stands.                                      *)
NothingToDo(r) ==
  \/ pc[r] = "handling" /\ kind[r] \in OfSession /\ session[upload[r]] # "active"
  \/ pc[r] = "handling" /\ kind[r] = "UploadChunk" /\ upload[r] \notin overdue
  \/ pc[r] = "handling" /\ kind[r] = "DeleteFile" /\ file[upload[r]] # "listed"
  \/ pc[r] = "handling" /\ kind[r] = "UnlockLimits" /\ secret = None
  \/ pc[r] = "loaded" /\ kind[r] = "CompleteChunkedUpload" /\ upload[r] \notin open

GivesUp(r) ==
  /\ \/ NothingToDo(r)
     \/ Failures /\ pc[r] \notin {"idle", "saving user", "connecting", "settling"}
  /\ Ends(r)
  /\ UNCHANGED <<use, accountVars, uploadVars, unlockVars>>

SessionRunsOut(u) ==
  /\ "clock" \in use
  /\ session[u] = "active"
  /\ overdue' = overdue \union {u}
  /\ UNCHANGED <<use, accountVars, unlockVars, session, file, size, owner, waived, old, open,
                 pc, requestVars, walkVars>>

FileRollsOff(u) ==
  /\ "clock" \in use
  /\ file[u] = "listed"
  /\ old' = old \union {u}
  /\ UNCHANGED <<use, accountVars, unlockVars, session, file, size, owner, waived, overdue, open,
                 pc, requestVars, walkVars>>

Restart ==
  /\ "restarts" \in use
  /\ secret' \in Secrets \union {None}
  /\ open' = {}
  /\ pc' = [r \in Requests |-> "idle"]
  /\ kind' = [r \in Requests |-> None]
  /\ account' = [r \in Requests |-> None]
  /\ address' = [r \in Requests |-> None]
  /\ upload' = [r \in Requests |-> None]
  /\ bytes' = [r \in Requests |-> 0]
  /\ found' = [r \in Requests |-> {}]
  /\ seen' = [r \in Requests |-> {}]
  /\ ask' = [r \in Requests |-> {}]
  /\ before' = [r \in Requests |-> {}]
  /\ summed' = [r \in Requests |-> {}]
  /\ waiving' = {}
  /\ UNCHANGED <<use, accountVars, session, file, size, owner, waived, overdue, old, cookie>>

Step(r) ==
  \/ FindUser(r) \/ CreateUser(r) \/ AccountIdTaken(r) \/ SaveUser(r) \/ Connect(r)
  \/ CookieLiftsQuota(r) \/ BeginWalk(r) \/ QueryByAddress(r) \/ QueryByAccount(r)
  \/ SumFiles(r) \/ Throttle(r) \/ Admit(r)
  \/ \E u \in Uploads : CreateSession(r, u) \/ CreateFile(r, u)
  \/ LoadSession(r) \/ FinalizeAndCreateFile(r) \/ DropFromStorage(r) \/ SaveStatus(r)
  \/ DeleteFile(r) \/ DeleteFiles(r) \/ DeleteConnections(r) \/ DeleteUser(r)
  \/ UnlockLimits(r) \/ LockLimits(r) \/ GivesUp(r)

Next ==
  \/ \E r \in Requests :
       \/ \E a \in Accounts, ip \in Addresses : Request(r, a, ip)
       \/ Step(r)
  \/ \E a \in Accounts : CookieExpires(a)
  \/ \E u \in Uploads : SessionRunsOut(u) \/ FileRollsOff(u)
  \/ Restart

Spec == Init /\ [][Next]_vars

(***************************************************************************)
(* Properties.                                                             *)
(***************************************************************************)

(* The accounts that connections link to an address, over any number of   *)
(* shared addresses and accounts: what the least set of addresses that is *)
(* closed under them leads to.                                            *)
ClosedUnder(links, ips) ==
  \A c, d \in links : c[1] = d[1] /\ c[2] \in ips => d[2] \in ips

Pool(links, ip) ==
  {a \in Accounts : \A ips \in SUBSET Addresses :
     ip \in ips /\ ClosedUnder(links, ips) => \E i \in ips : <<a, i>> \in links}

WalkDone(r) == pc[r] \in {"summing files", "summing sessions"}

(* The walk over connections finds every account that was linked to the    *)
(* address when it began and none that is not linked to it when it ends,   *)
(* although connections are made between its queries, by any number of     *)
(* other requests.  Only an account that is deleted can cut the walk.      *)
WalkFindsPool ==
  "DeleteAccount" \notin use =>
    \A r \in Requests : WalkDone(r) =>
      /\ Pool(before[r], address[r]) \subseteq found[r]
      /\ found[r] \subseteq Pool(connections, address[r])

Counted(accounts) == (Listed(accounts) \union Reserved(accounts)) \ waived

(* What the accounts linked to one address have listed in a day or         *)
(* reserved stays below the limit, whatever aborts, deletes, expiry and    *)
(* new accounts at the address interleave with the checks.  It does not    *)
(* survive checks that overlap another check, a complete (which leaves the *)
(* sessions before they are summed, and joins the files after they were)   *)
(* or the deletion of an account; nor pools that merge, connections that   *)
(* could not be recorded, and sessions completed after they have expired;  *)
(* nor the deletion of an account that has sessions, which stay and count  *)
(* again once a request of the account that was under way connects it and, *)
(* writing back the row it has read, revives it.                           *)
QuotaKept ==
  /\ use \intersect {"overlaps", "roaming", "failures"} = {}
  /\ ~({"clock", "CompleteChunkedUpload"} \subseteq use)
  /\ ~({"DeleteAccount", "InitChunkedUpload"} \subseteq use)
  => \A ip \in Addresses :
       LET counted == Counted(Pool(connections, ip))
       IN  counted = {} \/ SizeOf(counted) < Limit

Settling(u) == \E r \in Requests : pc[r] = "settling" /\ upload[r] = u

(* An upload is charged both as a file and as a session only while the     *)
(* request that completes it is between its two writes: no other request   *)
(* of the session, racing it, makes or leaves the row of a listed upload   *)
(* active.                                                                 *)
ChargedOnce ==
  use \intersect {"failures", "restarts"} = {} =>
    \A u \in Uploads : file[u] = "listed" /\ session[u] = "active" => Settling(u)

(* What upload_limiter.go says of counting sessions: that it keeps a       *)
(* client from opening many concurrently "and have each one pass the check *)
(* against the same stale total".                                          *)
InitsKeepQuota ==
  \A ip \in Addresses : SizeOf(Counted(Pool(connections, ip))) < Limit
=============================================================================
