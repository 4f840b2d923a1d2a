---------------------------- MODULE ClientStores ----------------------------
(***************************************************************************)
(* What the page shows, and what keeps it up to date: the account and file *)
(* stores, the service that asks the server for both, and the timer that   *)
(* makes it ask again (accountService.ts, fileService.ts, syncService.ts,  *)
(* routes/+page.svelte).                                                   *)
(*                                                                         *)
(* Every answer of the server is a snapshot of the files of one account,   *)
(* taken when the request was served, and replaces the whole list when it  *)
(* arrives.  Requests are in flight together, are served step by step and  *)
(* answered in any order, and what follows an answer runs whatever         *)
(* happened since it was asked for.  A callback of the page is one step:   *)
(* nothing runs between the steps of the script up to its next await on    *)
(* the network.                                                            *)
(*                                                                         *)
(* An upload is one request here, its last; those before it are modelled   *)
(* in UploadClient and do nothing to an account that the last may not do.  *)
(***************************************************************************)
EXTENDS Naturals, FiniteSets

CONSTANTS Accounts, Files, Timers,
          Calls,      \* slots for requests of the page in flight at once
          None,       \* no account, no file, no timer
          MaxEvents,  \* bound on what users do and the network loses
          Uses        \* which of it occurs: sets of Events

Events == {"uploadFile", "deleteFile", "handleChangeAccount", "deleteAccount",
           "updateLimits", "url", "navigates", "reload", "elsewhere", "failures"}

ASSUME StoresAssumption ==
  /\ None \notin Accounts \union Files \union Timers
  /\ MaxEvents \in Nat
  /\ Uses \subseteq SUBSET Events

VARIABLES use,        \* what occurs
          user,       \* user[a]: the users row of an account
          holder,     \* holder[f]: the account that lists f on the server
          gone,       \* the files that were deleted
          accountId,  \* the account store's id, and the one in localStorage
          account,    \* the account of the last answer
          files,      \* the file store
          uploading,  \* the upload store
          page,       \* "away", "mounting", or "ready" once polling was asked for
          hidden,     \* document.hidden
          listening,  \* is the service called on a visibility change?
          active,     \* isPollingActive
          interval,   \* pollingInterval
          timers,     \* the intervals the browser runs
          call,       \* call[c]: the request in slot c
          events      \* how many Events there have been

serverVars == <<user, holder, gone>>

storeVars == <<accountId, account, files, uploading>>

pollVars == <<active, interval, timers>>

pageVars == <<page, hidden, listening, pollVars>>

vars == <<use, serverVars, storeVars, pageVars, call, events>>

NoCall == [what |-> "none", stage |-> "idle", id |-> None, file |-> None,
           next |-> {}, by |-> None, files |-> {}, awaited |-> TRUE]

(* From the lookup of the account to the answer. *)
InService == {"creating", "saving", "admitted", "deleting"}

(* What may be done with an answer: its account's id is made the page's,   *)
(* polling is started.                                                     *)
Continuations == SUBSET {"setAccountId", "startPolling"}

(* What the page lists the server lists or has listed; no file is listed   *)
(* again once it was deleted; what is shown as uploading has a request     *)
(* that the page waits for.  That a file's account is live is not so: one  *)
(* can be listed after its account's files were, for the deletion.         *)
StoresTypeOK ==
  /\ use \in Uses
  /\ user \in [Accounts -> {"none", "live", "deleted"}]
  /\ holder \in [Files -> Accounts \union {None}]
  /\ \A f \in Files : holder[f] # None => f \notin gone
  /\ accountId \in Accounts \union {None}
  /\ account \in Accounts \union {None}
  /\ files \subseteq {f \in Files : holder[f] # None \/ f \in gone}
  /\ uploading \subseteq Files
  /\ page \in {"away", "mounting", "ready"}
  /\ {hidden, listening, active} \subseteq BOOLEAN
  /\ interval \in Timers \union {None}
  /\ timers \subseteq Timers
  /\ call \in [Calls -> [what  : {"none", "getMe", "uploadFile", "deleteFile", "deleteAccount"},
                         stage : {"idle", "sent", "answered", "failed"} \union InService,
                         id    : Accounts \union {None},
                         file  : Files \union {None},
                         next  : Continuations,
                         by    : Accounts \union {None},
                         files : SUBSET Files,
                         awaited : BOOLEAN]]
  /\ \A c \in Calls : call[c].what = "none" <=> call[c].stage = "idle"
  /\ \A f \in uploading :
       \E c \in Calls : call[c].what = "uploadFile" /\ call[c].file = f /\ call[c].awaited
  /\ events \in 0..MaxEvents

Init ==
  /\ use \in Uses
  /\ user = [a \in Accounts |-> "none"]
  /\ holder = [f \in Files |-> None]
  /\ gone = {}
  /\ accountId = None
  /\ account = None
  /\ files = {}
  /\ uploading = {}
  /\ page = "away"
  /\ hidden \in BOOLEAN
  /\ listening = TRUE
  /\ active = FALSE
  /\ interval = None
  /\ timers = {}
  /\ call = [c \in Calls |-> NoCall]
  /\ events = 0

Occurs(e) ==
  /\ e \in use
  /\ events < MaxEvents
  /\ events' = events + 1

Free(c) == call[c].stage = "idle"

Sends(c, what, id, f, next) ==
  call' = [call EXCEPT ![c] = [NoCall EXCEPT !.what = what, !.stage = "sent", !.id = id,
                                             !.file = f, !.next = next]]

Returns(c) == call' = [call EXCEPT ![c] = NoCall]

(* The header of a request without an account is empty. *)
GetMe(c, id, next) == Sends(c, "getMe", id, None, next)

(***************************************************************************)
(* The server.                                                             *)
(***************************************************************************)
FilesOf(a) == {f \in Files : holder[f] = a}

Answers(c, a, fs) ==
  call' = [call EXCEPT ![c].stage = "answered", ![c].by = a, ![c].files = fs]

Fails(c) == call' = [call EXCEPT ![c].stage = "failed"]

Moves(c, stage, a) == call' = [call EXCEPT ![c].stage = stage, ![c].by = a]

(* AuthMiddleware: the lookup, the insert of an account that it has not      *)
(* found, and db.Save of one that was last seen a while ago, as a new one    *)
(* always was.  A request without an id gets a new account.                  *)
FindUser(c) ==
  /\ call[c].stage = "sent"
  /\ \E stage \in IF call[c].id # None /\ user[call[c].id] = "live"
                    THEN {"saving", "admitted"} ELSE {"creating"} :
       Moves(c, stage, call[c].id)
  /\ UNCHANGED <<use, serverVars, storeVars, pageVars, events>>

(* Without an id each request of an upload would be another account's, and   *)
(* is refused.                                                               *)
Creatable(c) ==
  {a \in Accounts : user[a] = "none" /\ IF call[c].id = None THEN call[c].what = "getMe"
                                                              ELSE call[c].id = a}

CreateUser(c) ==
  /\ call[c].stage = "creating"
  /\ \E a \in Creatable(c) : user' = [user EXCEPT ![a] = "live"] /\ Moves(c, "saving", a)
  /\ UNCHANGED <<use, holder, gone, storeVars, pageVars, events>>

(* The page looks at the status of an answer to getMe and of those to an     *)
(* upload only.                                                              *)
Refuses(c) ==
  IF call[c].what \in {"getMe", "uploadFile"} THEN Fails(c) ELSE Answers(c, call[c].id, {})

(* A deleted account is not found and its id is not free; another request    *)
(* may have taken the id since the lookup.  Where all Accounts are taken, so *)
(* is every new id: a bound of the model.                                    *)
RefuseId(c) ==
  /\ call[c].stage = "creating"
  /\ Creatable(c) = {}
  /\ Refuses(c)
  /\ UNCHANGED <<use, serverVars, storeVars, pageVars, events>>

(* A row that was deleted since the lookup is inserted again.  The error is  *)
(* not looked at.                                                            *)
SaveUser(c) ==
  /\ call[c].stage = "saving"
  /\ \/ user' = [user EXCEPT ![call[c].by] = "live"]
     \/ "failures" \in use /\ UNCHANGED user
  /\ Moves(c, "admitted", call[c].by)
  /\ UNCHANGED <<use, holder, gone, storeVars, pageVars, events>>

ServeGetMe(c) ==
  /\ call[c].what = "getMe"
  /\ call[c].stage = "admitted"
  /\ Answers(c, call[c].by, FilesOf(call[c].by))
  /\ UNCHANGED <<use, serverVars, storeVars, pageVars, events>>

(* The row is created for the account that was found, whatever has become    *)
(* of it.                                                                    *)
ServeUpload(c) ==
  /\ call[c].what = "uploadFile"
  /\ call[c].stage = "admitted"
  /\ holder' = [holder EXCEPT ![call[c].file] = call[c].by]
  /\ Answers(c, call[c].by, {})
  /\ UNCHANGED <<use, user, gone, storeVars, pageVars, events>>

Drops(f) == holder' = [holder EXCEPT ![f] = None] /\ gone' = gone \union {f}

(* Not another account's. *)
ServeDelete(c) ==
  /\ call[c].what = "deleteFile"
  /\ call[c].stage = "admitted"
  /\ IF holder[call[c].file] = call[c].by THEN Drops(call[c].file) ELSE UNCHANGED <<holder, gone>>
  /\ Answers(c, call[c].by, {})
  /\ UNCHANGED <<use, user, storeVars, pageVars, events>>

(* DeleteAccount: the files are listed, the listed ones are deleted one by   *)
(* one, and then the account is.  What is created for it in between stays.   *)
ListFiles(c) ==
  /\ call[c].what = "deleteAccount"
  /\ call[c].stage = "admitted"
  /\ call' = [call EXCEPT ![c].stage = "deleting", ![c].files = FilesOf(call[c].by)]
  /\ UNCHANGED <<use, serverVars, storeVars, pageVars, events>>

DeleteListed(c) ==
  /\ call[c].stage = "deleting"
  /\ \E f \in call[c].files \intersect FilesOf(call[c].by) : Drops(f)
  /\ UNCHANGED <<use, user, storeVars, pageVars, call, events>>

(* The error of a row's delete is not looked at.  The answer has a JSON body *)
(* if DeleteFile has left one in it; else it is the text "OK".               *)
DeleteUser(c) ==
  /\ call[c].stage = "deleting"
  /\ call[c].files \intersect FilesOf(call[c].by) = {} \/ "failures" \in use
  /\ user' = [user EXCEPT ![call[c].by] = "deleted"]
  /\ IF call[c].files = {} THEN Fails(c) ELSE Answers(c, call[c].by, {})
  /\ UNCHANGED <<use, holder, gone, storeVars, pageVars, events>>

(* The database fails the middleware or the handler, which leaves what it    *)
(* has done and answers with an error.                                       *)
Errs(c) ==
  /\ call[c].stage \in {"sent", "creating", "admitted", "deleting"}
  /\ Occurs("failures")
  /\ Refuses(c)
  /\ UNCHANGED <<use, serverVars, storeVars, pageVars>>

(* A request or its answer is lost.  Of a request that the page no longer    *)
(* waits for, nothing follows on the page, whether or not the server goes on *)
(* with it; an upload that is lost to the page while the server works on it  *)
(* is one whose answer is lost later.                                        *)
Lost(c) ==
  /\ Occurs("failures")
  /\ call[c].awaited
  /\ \/ call[c].stage \in {"sent", "answered"} /\ Fails(c)
     \/ /\ call[c].stage \in {"sent"} \union InService
        /\ call[c].what # "uploadFile"
        /\ call' = [call EXCEPT ![c].awaited = FALSE]
  /\ UNCHANGED <<use, serverVars, storeVars, pageVars>>

(* The account is used on another device, or the admin deletes its files.    *)
(* The request may have found the account before it was deleted.             *)
ElsewhereUploads(a, f) ==
  /\ Occurs("elsewhere")
  /\ user[a] # "none"
  /\ holder[f] = None /\ f \notin gone
  /\ \A c \in Calls : call[c].file # f
  /\ holder' = [holder EXCEPT ![f] = a]
  /\ UNCHANGED <<use, user, gone, storeVars, pageVars, call>>

ElsewhereSaves(a) ==
  /\ Occurs("elsewhere")
  /\ user[a] = "deleted"
  /\ user' = [user EXCEPT ![a] = "live"]
  /\ UNCHANGED <<use, holder, gone, storeVars, pageVars, call>>

ElsewhereDeletes(f) ==
  /\ Occurs("elsewhere")
  /\ holder[f] # None
  /\ Drops(f)
  /\ UNCHANGED <<use, user, storeVars, pageVars, call>>

(***************************************************************************)
(* SyncService.                                                            *)
(***************************************************************************)

(* Mutant: polling is started again if it has been. *)
StartPollingAgain ==
  IF accountId' # None
  THEN /\ active' = TRUE
       /\ IF hidden'
          THEN UNCHANGED <<interval, timers>>
          ELSE \E t \in Timers \ timers : interval' = t /\ timers' = timers \union {t}
  ELSE UNCHANGED pollVars

StartPolling ==
  IF ~active /\ accountId' # None
  THEN /\ active' = TRUE
       /\ IF hidden'
          THEN UNCHANGED <<interval, timers>>
          ELSE \E t \in Timers \ timers : interval' = t /\ timers' = timers \union {t}
  ELSE UNCHANGED pollVars

StopPolling ==
  /\ timers' = timers \ {interval}
  /\ interval' = None
  /\ active' = FALSE

HandleVisibilityChange ==
  /\ hidden' = ~hidden
  /\ UNCHANGED accountId
  /\ IF ~listening
     THEN UNCHANGED pollVars
     ELSE IF hidden' THEN StopPolling ELSE StartPolling
  /\ UNCHANGED <<use, serverVars, account, files, uploading, page, listening, call, events>>

(* An interval does not wait for the answer to what it asked before. *)
Poll(c) ==
  /\ timers # {}
  /\ ~hidden
  /\ accountId # None
  /\ Free(c)
  /\ GetMe(c, accountId, {})
  /\ UNCHANGED <<use, serverVars, storeVars, pageVars, events>>

(***************************************************************************)
(* The page.                                                               *)
(***************************************************************************)

(* onMount and initializeAccount, with the id in the URL if there is one. *)
Mount(c, url) ==
  /\ page = "away"
  /\ Free(c)
  /\ IF url = None THEN UNCHANGED events ELSE Occurs("url")
  /\ page' = "mounting"
  /\ accountId' = IF url = None THEN accountId ELSE url
  /\ GetMe(c, accountId', IF accountId' = None THEN {"setAccountId", "startPolling"}
                                               ELSE {"startPolling"})
  /\ UNCHANGED <<use, serverVars, account, files, uploading, hidden, listening, pollVars>>

(* onDestroy and cleanup.  The page goes, the stores and what is in flight *)
(* remain; nothing adds the listener again.                                *)
Unmount ==
  /\ "navigates" \in use
  /\ page # "away"
  /\ page' = "away"
  /\ listening' = FALSE
  /\ StopPolling
  /\ UNCHANGED <<use, serverVars, storeVars, hidden, call, events>>

(* localStorage is all that stays.  The server goes on with what it has     *)
(* begun, and may yet get what was sent.                                    *)
Reload ==
  /\ Occurs("reload")
  /\ account' = None
  /\ files' = {}
  /\ uploading' = {}
  /\ page' = "away"
  /\ listening' = TRUE
  /\ active' = FALSE
  /\ interval' = None
  /\ timers' = {}
  /\ \E sent \in SUBSET {c \in Calls : call[c].stage = "sent"} :
       call' = [c \in Calls |-> IF c \in sent \/ call[c].stage \in InService
                                THEN [call[c] EXCEPT !.awaited = FALSE] ELSE NoCall]
  /\ UNCHANGED <<use, serverVars, accountId, hidden>>

UploadFile(c, f) ==
  /\ Occurs("uploadFile")
  /\ page # "away"
  /\ account # None
  /\ Free(c)
  /\ holder[f] = None /\ f \notin gone
  /\ \A d \in Calls : call[d].file # f
  /\ uploading' = uploading \union {f}
  /\ Sends(c, "uploadFile", accountId, f, {})
  /\ UNCHANGED <<use, serverVars, accountId, account, files, pageVars>>

DeleteFile(c, f) ==
  /\ Occurs("deleteFile")
  /\ page # "away"
  /\ accountId # None
  /\ f \in files
  /\ Free(c)
  /\ Sends(c, "deleteFile", accountId, f, {})
  /\ UNCHANGED <<use, serverVars, storeVars, pageVars>>

HandleChangeAccount(c, a) ==
  /\ Occurs("handleChangeAccount")
  /\ page # "away"
  /\ Free(c)
  /\ GetMe(c, a, {"setAccountId"})
  /\ UNCHANGED <<use, serverVars, storeVars, pageVars>>

DeleteAccount(c) ==
  /\ Occurs("deleteAccount")
  /\ page # "away"
  /\ accountId # None
  /\ Free(c)
  /\ Sends(c, "deleteAccount", accountId, None, {})
  /\ UNCHANGED <<use, serverVars, storeVars, pageVars>>

(* unlockLimits and lockLimits, which ask for the account when answered. *)
UpdateLimits(c) ==
  /\ Occurs("updateLimits")
  /\ page # "away"
  /\ Free(c)
  /\ GetMe(c, accountId, {})
  /\ UNCHANGED <<use, serverVars, storeVars, pageVars>>

(***************************************************************************)
(* Answers.                                                                *)
(***************************************************************************)

(* Mutant: an answer for the page's own account leaves its list alone. *)
GetMeArrivesOnce(c) ==
  /\ call[c].what = "getMe"
  /\ call[c].stage = "answered" /\ call[c].awaited
  /\ accountId' = IF "setAccountId" \in call[c].next THEN call[c].by ELSE accountId
  /\ account' = call[c].by
  /\ files' = IF account = call[c].by THEN files ELSE call[c].files
  /\ IF "startPolling" \in call[c].next
     THEN /\ page' = IF page = "mounting" THEN "ready" ELSE page
          /\ hidden' = hidden
          /\ StartPolling
     ELSE UNCHANGED <<page, hidden, pollVars>>
  /\ Returns(c)
  /\ UNCHANGED <<use, serverVars, uploading, listening, events>>

GetMeArrives(c) ==
  /\ call[c].what = "getMe"
  /\ call[c].stage = "answered" /\ call[c].awaited
  /\ accountId' = IF "setAccountId" \in call[c].next THEN call[c].by ELSE accountId
  /\ account' = call[c].by
  /\ files' = call[c].files
  /\ IF "startPolling" \in call[c].next
     THEN /\ page' = IF page = "mounting" THEN "ready" ELSE page
          /\ hidden' = hidden
          /\ StartPolling
     ELSE UNCHANGED <<page, hidden, pollVars>>
  /\ Returns(c)
  /\ UNCHANGED <<use, serverVars, uploading, listening, events>>

(* Nothing of what should have followed does. *)
CallThrows(c) ==
  /\ call[c].what # "uploadFile"
  /\ call[c].stage = "failed" /\ call[c].awaited
  /\ Returns(c)
  /\ UNCHANGED <<use, serverVars, storeVars, pageVars, events>>

(* Mutant: an upload that fails is left in the upload store. *)
UploadReturnsAdded(c) ==
  /\ call[c].what = "uploadFile"
  /\ call[c].stage \in {"answered", "failed"} /\ call[c].awaited
  /\ files' = IF call[c].stage = "answered" THEN files \union {call[c].file} ELSE files
  /\ uploading' = IF call[c].stage = "answered" THEN uploading \ {call[c].file} ELSE uploading
  /\ GetMe(c, accountId, {})
  /\ UNCHANGED <<use, serverVars, accountId, account, pageVars, events>>

UploadReturns(c) ==
  /\ call[c].what = "uploadFile"
  /\ call[c].stage \in {"answered", "failed"} /\ call[c].awaited
  /\ files' = IF call[c].stage = "answered" THEN files \union {call[c].file} ELSE files
  /\ uploading' = uploading \ {call[c].file}
  /\ GetMe(c, accountId, {})
  /\ UNCHANGED <<use, serverVars, accountId, account, pageVars, events>>

DeleteReturns(c) ==
  /\ call[c].what = "deleteFile"
  /\ call[c].stage = "answered" /\ call[c].awaited
  /\ files' = files \ {call[c].file}
  /\ GetMe(c, accountId, {})
  /\ UNCHANGED <<use, serverVars, accountId, account, uploading, pageVars, events>>

(* The id is forgotten and the page is initialized with a new account. *)
DeleteAccountReturns(c) ==
  /\ call[c].what = "deleteAccount"
  /\ call[c].stage = "answered" /\ call[c].awaited
  /\ accountId' = None
  /\ GetMe(c, None, {"setAccountId"})
  /\ UNCHANGED <<use, serverVars, account, files, uploading, pageVars, events>>

(* Nobody is there any more to take it. *)
Discarded(c) ==
  /\ call[c].stage \in {"answered", "failed"} /\ ~call[c].awaited
  /\ Returns(c)
  /\ UNCHANGED <<use, serverVars, storeVars, pageVars, events>>

AuthMiddleware(c) == FindUser(c) \/ CreateUser(c) \/ RefuseId(c) \/ SaveUser(c)

ServeDeleteAccount(c) == ListFiles(c) \/ DeleteListed(c) \/ DeleteUser(c)

Serve(c) ==
  AuthMiddleware(c) \/ ServeGetMe(c) \/ ServeUpload(c) \/ ServeDelete(c)
    \/ ServeDeleteAccount(c)

Return(c) ==
  GetMeArrives(c) \/ CallThrows(c) \/ UploadReturns(c) \/ DeleteReturns(c)
    \/ DeleteAccountReturns(c) \/ Discarded(c)

User(c) ==
  \/ \E url \in Accounts \union {None} : Mount(c, url)
  \/ \E f \in Files : UploadFile(c, f) \/ DeleteFile(c, f)
  \/ \E a \in Accounts : HandleChangeAccount(c, a)
  \/ DeleteAccount(c) \/ UpdateLimits(c)

Next ==
  \/ \E c \in Calls : Serve(c) \/ Return(c) \/ Errs(c) \/ Lost(c) \/ Poll(c)
                       \/ User(c)
  \/ Unmount \/ Reload \/ HandleVisibilityChange
  \/ \E a \in Accounts : ElsewhereSaves(a) \/ \E f \in Files : ElsewhereUploads(a, f)
  \/ \E f \in Files : ElsewhereDeletes(f)

(* Nobody has to do anything.  The server answers, the browser hands over  *)
(* the answers and its timers fire.                                        *)
Fairness ==
  /\ \A c \in Calls : WF_vars(Serve(c)) /\ WF_vars(Return(c))
  /\ WF_vars(\E c \in Calls : Poll(c))

Spec == Init /\ [][Next]_vars /\ Fairness

(***************************************************************************)
(* Properties.                                                             *)
(***************************************************************************)

(* There is at most one interval and the service can stop it, however      *)
(* mounts, slow answers of earlier mounts and visibility changes           *)
(* interleave; a page in sight that has got its account is being polled    *)
(* for.  Not so after its account was deleted, when nothing starts what a  *)
(* visibility change has stopped; and polling that is started while the    *)
(* page is out of sight runs no interval until it is hidden again.         *)
PollingFollowsPage ==
  /\ timers \subseteq {interval}
  /\ timers # {} => active
  /\ page = "ready" /\ ~hidden /\ "deleteAccount" \notin use => active

Watched == timers # {} /\ ~hidden /\ accountId # None /\ user[accountId] = "live"

Current ==
  /\ account = accountId
  /\ files = FilesOf(accountId)
  /\ uploading = {}

(* While an interval runs, the page ends up with the account it says it    *)
(* has, the files the server lists for it and no upload going on, whatever *)
(* answers have overtaken each other, came for another account or were     *)
(* lost before.                                                            *)
ListConverges == <>[]Watched => <>[]Current
=============================================================================
