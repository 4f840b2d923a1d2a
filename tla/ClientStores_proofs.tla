------------------------ MODULE ClientStores_proofs ------------------------
(***************************************************************************)
(* Theorems of ClientStores, for every value of its constants.             *)
(***************************************************************************)
EXTENDS ClientStores, TLAPS

USE StoresAssumption

(***************************************************************************)
(* The inductive invariant.                                                *)
(***************************************************************************)
CallOfPage ==
  [what  : {"none", "getMe", "uploadFile", "deleteFile", "deleteAccount"},
   stage : {"idle", "sent", "answered", "failed"} \union InService,
   id    : Accounts \union {None},
   file  : Files \union {None},
   next  : Continuations,
   by    : Accounts \union {None},
   files : SUBSET Files,
   awaited : BOOLEAN]

CallsOK ==
  /\ call \in [Calls -> CallOfPage]
  /\ \A c \in Calls : call[c].what = "none" <=> call[c].stage = "idle"
  /\ \A c \in Calls :
       /\ call[c].what \in {"uploadFile", "deleteFile"} => call[c].file \in Files
       /\ call[c].what \in {"deleteFile", "deleteAccount"} => call[c].id # None
       /\ call[c].what = "getMe" /\ call[c].stage = "answered" => call[c].by # None
       /\ call[c].stage \in {"saving", "admitted", "deleting"} => call[c].by # None
       /\ call[c].stage = "deleting" => call[c].what = "deleteAccount"

StoresOK ==
  /\ accountId \in Accounts \union {None}
  /\ account \in Accounts \union {None}
  /\ files \subseteq Files
  /\ uploading \subseteq Files

ServerOK ==
  /\ user \in [Accounts -> {"none", "live", "deleted"}]
  /\ holder \in [Files -> Accounts \union {None}]

PageOK ==
  /\ page \in {"away", "mounting", "ready"}
  /\ {hidden, listening, active} \subseteq BOOLEAN
  /\ interval \in Timers \union {None}
  /\ timers \subseteq Timers

(* A file is listed until it is deleted, and then never again. *)
ListedOnce == \A f \in Files : holder[f] # None => f \notin gone

(* Its row is yet to be created, if it is an upload. *)
Pending == {"sent", "creating", "saving", "admitted"}

(* What an upload on its way will add nobody has listed or deleted yet. *)
UploadsNew ==
  /\ \A c \in Calls :
       call[c].what = "uploadFile" /\ call[c].stage \in Pending =>
         holder[call[c].file] = None /\ call[c].file \notin gone
  /\ \A c, d \in Calls :
       /\ call[c].what = "uploadFile" /\ call[c].stage \in Pending
       /\ call[d].what = "uploadFile" /\ call[d].stage \in Pending
       /\ call[c].file = call[d].file
       => c = d

(* What the page lists, or is about to, the server lists or has listed. *)
Known == {f \in Files : holder[f] # None \/ f \in gone}

OnlyKnown ==
  /\ files \subseteq Known
  /\ \A c \in Calls : call[c].files \subseteq Known
  /\ \A c \in Calls :
       call[c].what = "uploadFile" /\ call[c].stage = "answered" => call[c].file \in Known

UploadsCalled ==
  \A f \in uploading :
    \E c \in Calls : call[c].what = "uploadFile" /\ call[c].file = f /\ call[c].awaited

(* One interval at most, and while polling is active only. *)
OneInterval ==
  /\ timers \subseteq {interval}
  /\ timers # {} => active

(* A page that has got its account has an id to poll for, and is polled     *)
(* for, unless it is out of sight and the service has been told.            *)
ReadyPolled ==
  "deleteAccount" \notin use =>
    /\ \A c \in Calls : call[c].what # "deleteAccount"
    /\ \A c \in Calls :
         "startPolling" \in call[c].next /\ "setAccountId" \notin call[c].next =>
           accountId # None
    /\ page = "ready" => accountId # None
    /\ page = "ready" /\ (~hidden \/ ~listening) => active

IInv ==
  /\ use \in Uses
  /\ events \in 0..MaxEvents
  /\ CallsOK
  /\ StoresOK
  /\ ServerOK
  /\ PageOK
  /\ ListedOnce
  /\ UploadsNew
  /\ OnlyKnown
  /\ UploadsCalled
  /\ OneInterval
  /\ ReadyPolled

(***************************************************************************)
(* What a step does to the requests, one by one.                           *)
(***************************************************************************)
Request(what, id, f, next) ==
  [what |-> what, stage |-> "sent", id |-> id, file |-> f, next |-> next,
   by |-> None, files |-> {}, awaited |-> TRUE]

AnsweredBy(r, a, fs) ==
  [what |-> r.what, stage |-> "answered", id |-> r.id, file |-> r.file, next |-> r.next,
   by |-> a, files |-> fs, awaited |-> r.awaited]

Failed(r) ==
  [what |-> r.what, stage |-> "failed", id |-> r.id, file |-> r.file, next |-> r.next,
   by |-> r.by, files |-> r.files, awaited |-> r.awaited]

Moved(r, stage, a) ==
  [what |-> r.what, stage |-> stage, id |-> r.id, file |-> r.file, next |-> r.next,
   by |-> a, files |-> r.files, awaited |-> r.awaited]

Becomes(c, r) ==
  /\ call' \in [Calls -> CallOfPage]
  /\ call'[c] = r
  /\ \A d \in Calls \ {c} : call'[d] = call[d]

(* A slot takes a request.                                                 *)
LEMMA Asks ==
  ASSUME call \in [Calls -> CallOfPage], NEW c \in Calls,
         NEW what \in {"getMe", "uploadFile", "deleteFile", "deleteAccount"},
         NEW id \in Accounts \union {None}, NEW f \in Files \union {None},
         NEW next \in Continuations, Sends(c, what, id, f, next)
  PROVE  Becomes(c, Request(what, id, f, next))
<1>1. Request(what, id, f, next) \in CallOfPage
  BY DEF Request, CallOfPage
<1>3. [NoCall EXCEPT !.what = what, !.stage = "sent", !.id = id, !.file = f, !.next = next]
        = Request(what, id, f, next)
  <2> DEFINE none == NoCall
             asked == [none EXCEPT !.what = what, !.stage = "sent", !.id = id, !.file = f,
                                   !.next = next]
  <2>1. none \in CallOfPage /\ none.by = None /\ none.files = {} /\ none.awaited = TRUE
    BY DEF NoCall, CallOfPage, Continuations
  <2> HIDE DEF none
  <2>2. asked \in CallOfPage
    BY <2>1 DEF CallOfPage
  <2>3. /\ asked.what = what /\ asked.stage = "sent" /\ asked.id = id /\ asked.file = f
        /\ asked.next = next /\ asked.by = None /\ asked.files = {} /\ asked.awaited = TRUE
    BY <2>1 DEF CallOfPage
  <2> HIDE DEF asked
  <2>4. asked = Request(what, id, f, next)
    BY <2>2, <2>3 DEF CallOfPage, Request
  <2> QED
    BY <2>4 DEF asked, none
<1>2. call' = [call EXCEPT ![c] = Request(what, id, f, next)]
  BY <1>3 DEF Sends
<1> QED
  BY <1>1, <1>2 DEF Becomes

(* A request for the account, which names no file.                         *)
LEMMA AsksMe ==
  ASSUME call \in [Calls -> CallOfPage], NEW c \in Calls,
         NEW id \in Accounts \union {None}, NEW next \in Continuations, GetMe(c, id, next)
  PROVE  Becomes(c, Request("getMe", id, None, next))
BY Asks DEF GetMe

(* A slot's request is answered.                                           *)
LEMMA IsAnswered ==
  ASSUME call \in [Calls -> CallOfPage], NEW c \in Calls, NEW a \in Accounts \union {None},
         NEW fs \in SUBSET Files, Answers(c, a, fs)
  PROVE  Becomes(c, AnsweredBy(call[c], a, fs))
<1>1. call[c] \in CallOfPage
  OBVIOUS
<1>2. AnsweredBy(call[c], a, fs) \in CallOfPage
  BY <1>1 DEF AnsweredBy, CallOfPage
<1>3. \A d \in Calls \ {c} : call'[d] = call[d]
  BY DEF Answers
<1>4. call'[c] = [call[c] EXCEPT !.stage = "answered", !.by = a, !.files = fs]
  BY DEF Answers
<1>5. call'[c] = AnsweredBy(call[c], a, fs)
  BY <1>1, <1>4 DEF AnsweredBy, CallOfPage
<1>6. call' = [d \in Calls |-> call'[d]]
  BY DEF Answers
<1> QED
  BY <1>2, <1>3, <1>5, <1>6 DEF Becomes

(* A slot's request goes on to another stage.                              *)
LEMMA HasMoved ==
  ASSUME call \in [Calls -> CallOfPage], NEW c \in Calls, NEW stage \in InService,
         NEW a \in Accounts \union {None}, Moves(c, stage, a)
  PROVE  Becomes(c, Moved(call[c], stage, a))
<1>1. call[c] \in CallOfPage
  OBVIOUS
<1>2. Moved(call[c], stage, a) \in CallOfPage
  BY <1>1 DEF Moved, CallOfPage
<1>3. \A d \in Calls \ {c} : call'[d] = call[d]
  BY DEF Moves
<1>4. call'[c] = [call[c] EXCEPT !.stage = stage, !.by = a]
  BY DEF Moves
<1>5. call'[c] = Moved(call[c], stage, a)
  BY <1>1, <1>4 DEF Moved, CallOfPage
<1>6. call' = [d \in Calls |-> call'[d]]
  BY DEF Moves
<1> QED
  BY <1>2, <1>3, <1>5, <1>6 DEF Becomes

(* A slot's request fails.                                                 *)
LEMMA HasFailed ==
  ASSUME call \in [Calls -> CallOfPage], NEW c \in Calls, Fails(c)
  PROVE  Becomes(c, Failed(call[c]))
<1>1. call[c] \in CallOfPage
  OBVIOUS
<1>2. Failed(call[c]) \in CallOfPage
  BY <1>1 DEF Failed, CallOfPage
<1>3. \A d \in Calls \ {c} : call'[d] = call[d]
  BY DEF Fails
<1>4. call'[c] = [call[c] EXCEPT !.stage = "failed"]
  BY DEF Fails
<1>5. call'[c] = Failed(call[c])
  BY <1>1, <1>4 DEF Failed, CallOfPage
<1>6. call' = [d \in Calls |-> call'[d]]
  BY DEF Fails
<1> QED
  BY <1>2, <1>3, <1>5, <1>6 DEF Becomes

(* A slot is free again.                                                   *)
LEMMA IsFreed ==
  ASSUME call \in [Calls -> CallOfPage], NEW c \in Calls, Returns(c)
  PROVE  Becomes(c, NoCall)
<1>1. NoCall \in CallOfPage
  BY DEF NoCall, CallOfPage, Continuations
<1> QED
  BY <1>1 DEF Returns, Becomes

(***************************************************************************)
(* What the server does with a request, and what its loss is, in the terms *)
(* of the invariant.                                                       *)
(***************************************************************************)
GoesOn(c) ==
  /\ call' \in [Calls -> CallOfPage]
  /\ \A d \in Calls \ {c} : call'[d] = call[d]
  /\ call'[c].what = call[c].what /\ call'[c].id = call[c].id
  /\ call'[c].file = call[c].file /\ call'[c].next = call[c].next
  /\ call[c].what = "uploadFile" => call'[c].awaited = call[c].awaited
  /\ call[c].stage # "idle" /\ call'[c].stage # "idle"
  /\ call'[c].stage \in Pending => call[c].stage \in Pending
  /\ call'[c].stage = "deleting" => call[c].what = "deleteAccount"
  /\ call'[c].stage \in {"saving", "admitted", "deleting"} => call'[c].by # None
  /\ call[c].what = "getMe" /\ call'[c].stage = "answered" => call'[c].by # None
  /\ call'[c].files \subseteq call[c].files \union Known

(* The row of an upload is created. *)
Lists(c) ==
  /\ call[c].what = "uploadFile" /\ call[c].stage = "admitted"
  /\ call'[c].stage = "answered"
  /\ holder' = [holder EXCEPT ![call[c].file] = call[c].by]
  /\ UNCHANGED gone

RowsGoOn(c) ==
  /\ user' \in [Accounts -> {"none", "live", "deleted"}]
  /\ UNCHANGED <<holder, gone>> \/ (\E f \in Files : holder[f] # None /\ Drops(f)) \/ Lists(c)
  /\ call[c].what = "uploadFile" /\ call'[c].stage = "answered" =>
       call[c].stage = "answered" \/ Lists(c)

Served(c) ==
  /\ GoesOn(c)
  /\ RowsGoOn(c)
  /\ UNCHANGED events \/ Occurs("failures")
  /\ UNCHANGED <<use, storeVars, pageVars>>

(* Each of the server's steps, and each loss, takes one request further,   *)
(* creates the row of an upload or deletes one file, and leaves the page   *)
(* alone.                                                                  *)
LEMMA ServerSteps ==
  ASSUME CallsOK, ServerOK, NEW c \in Calls, Serve(c) \/ Errs(c) \/ Lost(c)
  PROVE  Served(c)
<1> USE DEF serverVars, CallsOK, ServerOK
<1>c. call[c] \in CallOfPage
  OBVIOUS
<1>1. CASE FindUser(c)
  <2>1. PICK stage \in {"saving", "admitted", "creating"} :
               /\ Moves(c, stage, call[c].id)
               /\ stage # "creating" => call[c].id # None
    BY <1>1 DEF FindUser
  <2>2. Becomes(c, Moved(call[c], stage, call[c].id))
    BY <1>c, <2>1, HasMoved DEF CallOfPage, InService
  <2> QED
    BY <1>1, <1>c, <2>1, <2>2 DEF FindUser, Served, GoesOn, RowsGoOn, Becomes, Moved, Pending,
                                  CallOfPage
<1>2. CASE CreateUser(c)
  <2>1. PICK a \in Accounts : user' = [user EXCEPT ![a] = "live"] /\ Moves(c, "saving", a)
    BY <1>2 DEF CreateUser, Creatable
  <2>2. Becomes(c, Moved(call[c], "saving", a))
    BY <2>1, HasMoved DEF InService
  <2>3. user' \in [Accounts -> {"none", "live", "deleted"}]
    BY <2>1
  <2> QED
    BY <1>2, <1>c, <2>1, <2>2, <2>3 DEF CreateUser, Served, GoesOn, RowsGoOn, Becomes, Moved, Pending,
                                  CallOfPage
<1>3. CASE RefuseId(c) \/ Errs(c)
  <2>1. CASE call[c].what \in {"getMe", "uploadFile"}
    <3>1. Becomes(c, Failed(call[c]))
      BY <1>3, <2>1, HasFailed DEF RefuseId, Errs, Refuses
    <3> QED
      BY <1>3, <1>c, <3>1 DEF RefuseId, Errs, Served, GoesOn, RowsGoOn, Becomes, Failed, Pending,
                              CallOfPage
  <2>2. CASE call[c].what \notin {"getMe", "uploadFile"}
    <3>1. Becomes(c, AnsweredBy(call[c], call[c].id, {}))
      BY <1>3, <1>c, <2>2, IsAnswered DEF RefuseId, Errs, Refuses, CallOfPage
    <3> QED
      BY <1>3, <1>c, <2>2, <3>1 DEF RefuseId, Errs, Served, GoesOn, RowsGoOn, Becomes, AnsweredBy,
                                    Pending, CallOfPage
  <2> QED
    BY <2>1, <2>2
<1>4. CASE SaveUser(c)
  <2>1. Becomes(c, Moved(call[c], "admitted", call[c].by))
    BY <1>4, <1>c, HasMoved DEF SaveUser, InService, CallOfPage
  <2>2. user' \in [Accounts -> {"none", "live", "deleted"}]
    BY <1>4 DEF SaveUser
  <2> QED
    BY <1>4, <1>c, <2>1, <2>2 DEF SaveUser, Served, GoesOn, RowsGoOn, Becomes, Moved, Pending,
                                  CallOfPage
<1>5. CASE ServeGetMe(c)
  <2>1. FilesOf(call[c].by) \in SUBSET Files
    BY DEF FilesOf
  <2>2. Becomes(c, AnsweredBy(call[c], call[c].by, FilesOf(call[c].by)))
    BY <1>5, <1>c, <2>1, IsAnswered DEF ServeGetMe, CallOfPage
  <2>3. FilesOf(call[c].by) \subseteq Known
    BY <1>5 DEF ServeGetMe, FilesOf, Known
  <2> QED
    BY <1>5, <1>c, <2>2, <2>3 DEF ServeGetMe, Served, GoesOn, RowsGoOn, Becomes, AnsweredBy, Pending,
                                  CallOfPage
<1>6. CASE ServeUpload(c)
  <2>1. Becomes(c, AnsweredBy(call[c], call[c].by, {}))
    BY <1>6, <1>c, IsAnswered DEF ServeUpload, CallOfPage
  <2>2. Lists(c)
    BY <1>6, <2>1 DEF ServeUpload, Lists, Becomes, AnsweredBy
  <2> QED
    BY <1>6, <1>c, <2>1, <2>2 DEF ServeUpload, Served, GoesOn, RowsGoOn, Becomes, AnsweredBy, Pending,
                                  CallOfPage
<1>7. CASE ServeDelete(c)
  <2>1. Becomes(c, AnsweredBy(call[c], call[c].by, {}))
    BY <1>7, <1>c, IsAnswered DEF ServeDelete, CallOfPage
  <2>2. UNCHANGED <<holder, gone>> \/ \E f \in Files : holder[f] # None /\ Drops(f)
    BY <1>7 DEF ServeDelete
  <2> QED
    BY <1>7, <1>c, <2>1, <2>2 DEF ServeDelete, Served, GoesOn, RowsGoOn, Becomes, AnsweredBy, Pending,
                                  CallOfPage
<1>8. CASE ListFiles(c)
  <2> DEFINE listed == FilesOf(call[c].by)
             r == [what |-> call[c].what, stage |-> "deleting", id |-> call[c].id,
                   file |-> call[c].file, next |-> call[c].next, by |-> call[c].by,
                   files |-> listed, awaited |-> call[c].awaited]
  <2>1. listed \in SUBSET Files /\ listed \subseteq Known
    BY <1>8 DEF ListFiles, FilesOf, Known
  <2> HIDE DEF listed
  <2>2. r \in CallOfPage
    BY <1>c, <2>1 DEF CallOfPage, InService
  <2>3. call'[c] = [call[c] EXCEPT !.stage = "deleting", !.files = listed]
    BY <1>8 DEF ListFiles, listed
  <2>4. call'[c] = r
    BY <1>c, <2>3 DEF CallOfPage
  <2>5. call' = [d \in Calls |-> call'[d]] /\ \A d \in Calls \ {c} : call'[d] = call[d]
    BY <1>8 DEF ListFiles
  <2>6. call' \in [Calls -> CallOfPage]
    BY <2>2, <2>4, <2>5
  <2> QED
    BY <1>8, <1>c, <2>1, <2>4, <2>5, <2>6 DEF ListFiles, Served, GoesOn, RowsGoOn, Pending
<1>9. CASE DeleteListed(c)
  <2>1. \E f \in Files : holder[f] # None /\ Drops(f)
    BY <1>9 DEF DeleteListed, FilesOf
  <2> QED
    BY <1>9, <1>c, <2>1 DEF DeleteListed, Served, GoesOn, RowsGoOn, Pending
<1>10. CASE DeleteUser(c)
  <2>1. Becomes(c, AnsweredBy(call[c], call[c].by, {})) \/ Becomes(c, Failed(call[c]))
    BY <1>10, <1>c, IsAnswered, HasFailed DEF DeleteUser, CallOfPage
  <2>2. user' \in [Accounts -> {"none", "live", "deleted"}]
    BY <1>10 DEF DeleteUser
  <2> QED
    BY <1>10, <1>c, <2>1, <2>2 DEF DeleteUser, Served, GoesOn, RowsGoOn, Becomes, AnsweredBy, Failed,
                                   Pending, CallOfPage
<1>11. CASE Lost(c)
  <2>1. CASE call[c].stage \in {"sent", "answered"} /\ Fails(c)
    <3>1. Becomes(c, Failed(call[c]))
      BY <2>1, HasFailed
    <3> QED
      BY <1>11, <1>c, <2>1, <3>1 DEF Lost, Served, GoesOn, RowsGoOn, Becomes, Failed, Pending,
                                     CallOfPage
  <2>2. CASE /\ call[c].stage \in {"sent"} \union InService /\ call[c].what # "uploadFile"
             /\ call' = [call EXCEPT ![c].awaited = FALSE]
    <3>1. call'[c] = [call[c] EXCEPT !.awaited = FALSE]
      BY <2>2
    <3>2. /\ call'[c] \in CallOfPage
          /\ call'[c].what = call[c].what /\ call'[c].stage = call[c].stage
          /\ call'[c].id = call[c].id /\ call'[c].file = call[c].file
          /\ call'[c].next = call[c].next /\ call'[c].by = call[c].by
          /\ call'[c].files = call[c].files
      BY <1>c, <3>1 DEF CallOfPage
    <3>3. call' = [d \in Calls |-> call'[d]] /\ \A d \in Calls \ {c} : call'[d] = call[d]
      BY <2>2
    <3>4. call' \in [Calls -> CallOfPage]
      BY <3>2, <3>3
    <3> QED
      BY <1>11, <2>2, <3>2, <3>3, <3>4 DEF Lost, Served, GoesOn, RowsGoOn, Pending, InService
  <2> QED
    BY <1>11, <2>1, <2>2 DEF Lost
<1> QED
  BY <1>1, <1>2, <1>3, <1>4, <1>5, <1>6, <1>7, <1>8, <1>9, <1>10, <1>11
     DEF Serve, AuthMiddleware, ServeDeleteAccount

(* What a step of the server does to the rows of the files.                *)
LEMMA ServedRows ==
  ASSUME CallsOK, ServerOK, NEW c \in Calls, Served(c)
  PROVE  /\ holder' \in [Files -> Accounts \union {None}]
         /\ gone \subseteq gone'
         /\ \A f \in Files : holder'[f] # None =>
              \/ holder[f] # None /\ (f \in gone' => f \in gone)
              \/ Lists(c) /\ f = call[c].file
         /\ \A f \in Files : holder[f] # None => holder'[f] # None \/ f \in gone'
         /\ \A f \in gone' : f \in gone \/ holder[f] # None
         /\ Lists(c) => /\ call[c].file \in Files /\ holder'[call[c].file] # None
                        /\ gone' = gone
<1> USE DEF CallsOK, ServerOK
<1>c. call[c] \in CallOfPage
  OBVIOUS
<1>1. CASE UNCHANGED <<holder, gone>> /\ ~Lists(c)
  BY <1>1
<1>2. CASE (\E f \in Files : holder[f] # None /\ Drops(f)) /\ ~Lists(c)
  BY <1>2 DEF Drops
<1>3. CASE Lists(c)
  <2>1. call[c].file \in Files /\ call[c].by \in Accounts
    BY <1>c, <1>3 DEF Lists, CallOfPage
  <2> QED
    BY <1>3, <2>1 DEF Lists
<1> QED
  BY <1>1, <1>2, <1>3 DEF Served, RowsGoOn

(* What a reload leaves of a request: all but that it is waited for.       *)
Kept(d) ==
  /\ call'[d].what = call[d].what /\ call'[d].stage = call[d].stage
  /\ call'[d].id = call[d].id /\ call'[d].file = call[d].file
  /\ call'[d].next = call[d].next /\ call'[d].by = call[d].by
  /\ call'[d].files = call[d].files

(* A reload frees a slot or keeps its request.                             *)
LEMMA Reloads ==
  ASSUME CallsOK, Reload
  PROVE  /\ call' \in [Calls -> CallOfPage]
         /\ \A d \in Calls : call'[d] = NoCall \/ Kept(d)
<1>1. PICK sent \in SUBSET {c \in Calls : call[c].stage = "sent"} :
             call' = [c \in Calls |-> IF c \in sent \/ call[c].stage \in InService
                                      THEN [call[c] EXCEPT !.awaited = FALSE] ELSE NoCall]
  BY DEF Reload
<1>2. NoCall \in CallOfPage
  BY DEF NoCall, CallOfPage, Continuations
<1>3. ASSUME NEW d \in Calls
      PROVE  call'[d] \in CallOfPage /\ (call'[d] = NoCall \/ Kept(d))
  <2>1. call[d] \in CallOfPage
    BY DEF CallsOK
  <2>2. call'[d] = NoCall \/ call'[d] = [call[d] EXCEPT !.awaited = FALSE]
    BY <1>1
  <2> QED
    BY <1>2, <2>1, <2>2 DEF CallOfPage, Kept
<1> QED
  BY <1>1, <1>3

(***************************************************************************)
(* The invariant holds at the start and every step keeps it.               *)
(***************************************************************************)
(* Every request is one the page makes.                                    *)
LEMMA KeepsCalls ==
  ASSUME ServerOK,
         CallsOK,
         StoresOK,
         [Next]_vars
  PROVE  CallsOK'
<1> USE DEF serverVars, storeVars, pageVars, pollVars
<1> USE DEF CallsOK, StoresOK
<1>1. ASSUME NEW c \in Calls, Serve(c) \/ Errs(c) \/ Lost(c)
      PROVE  CallsOK'
  <2>1. Served(c)
    BY <1>1, ServerSteps
  <2> QED
    BY <2>1 DEF Served, GoesOn, RowsGoOn
<1>2. ASSUME NEW c \in Calls, GetMeArrives(c)
      PROVE  CallsOK'
  <2>1. Becomes(c, NoCall)
    BY <1>2, IsFreed DEF GetMeArrives
  <2> QED
    BY <1>2, <2>1 DEF GetMeArrives, Becomes, NoCall, CallOfPage
<1>3. ASSUME NEW c \in Calls, CallThrows(c)
      PROVE  CallsOK'
  <2>1. Becomes(c, NoCall)
    BY <1>3, IsFreed DEF CallThrows
  <2> QED
    BY <1>3, <2>1 DEF CallThrows, Becomes, NoCall, CallOfPage
<1>4. ASSUME NEW c \in Calls, UploadReturns(c)
      PROVE  CallsOK'
  <2>1. Becomes(c, Request("getMe", accountId, None, {}))
    BY <1>4, AsksMe DEF UploadReturns, Continuations
  <2> QED
    BY <1>4, <2>1 DEF UploadReturns, Becomes, Request, CallOfPage
<1>5. ASSUME NEW c \in Calls, DeleteReturns(c)
      PROVE  CallsOK'
  <2>1. Becomes(c, Request("getMe", accountId, None, {}))
    BY <1>5, AsksMe DEF DeleteReturns, Continuations
  <2> QED
    BY <1>5, <2>1 DEF DeleteReturns, Becomes, Request, CallOfPage
<1>6. ASSUME NEW c \in Calls, DeleteAccountReturns(c)
      PROVE  CallsOK'
  <2>1. Becomes(c, Request("getMe", None, None, {"setAccountId"}))
    BY <1>6, AsksMe DEF DeleteAccountReturns, Continuations
  <2> QED
    BY <1>6, <2>1 DEF DeleteAccountReturns, Becomes, Request, CallOfPage
<1>7. ASSUME NEW c \in Calls, Discarded(c)
      PROVE  CallsOK'
  <2>1. Becomes(c, NoCall)
    BY <1>7, IsFreed DEF Discarded
  <2> QED
    BY <1>7, <2>1 DEF Discarded, Becomes, NoCall, CallOfPage
<1>8. ASSUME NEW c \in Calls, Poll(c)
      PROVE  CallsOK'
  <2>1. Becomes(c, Request("getMe", accountId, None, {}))
    BY <1>8, AsksMe DEF Poll, Continuations
  <2> QED
    BY <1>8, <2>1 DEF Poll, Becomes, Request, CallOfPage
<1>9. ASSUME NEW c \in Calls, NEW url \in Accounts \union {None}, Mount(c, url)
      PROVE  CallsOK'
  <2>1. CASE accountId' = None /\ Becomes(c, Request("getMe", None, None, {"setAccountId", "startPolling"}))
    BY <1>9, <2>1 DEF Mount, Becomes, Request, CallOfPage
  <2>2. CASE accountId' # None /\ Becomes(c, Request("getMe", accountId', None, {"startPolling"}))
    BY <1>9, <2>2 DEF Mount, Becomes, Request, CallOfPage
  <2>3. accountId' \in Accounts \union {None}
    BY <1>9 DEF Mount
  <2>4. CASE accountId' = None
    BY <1>9, <2>1, <2>4, AsksMe DEF Mount, Continuations
  <2>5. CASE accountId' # None
    BY <1>9, <2>2, <2>3, <2>5, AsksMe DEF Mount, Continuations
  <2> QED
    BY <2>4, <2>5
<1>10. ASSUME NEW c \in Calls, NEW f \in Files, UploadFile(c, f)
      PROVE  CallsOK'
  <2>1. Becomes(c, Request("uploadFile", accountId, f, {}))
    BY <1>10, Asks DEF UploadFile, Continuations
  <2> QED
    BY <1>10, <2>1 DEF UploadFile, Becomes, Request, CallOfPage
<1>11. ASSUME NEW c \in Calls, NEW f \in Files, DeleteFile(c, f)
      PROVE  CallsOK'
  <2>1. Becomes(c, Request("deleteFile", accountId, f, {}))
    BY <1>11, Asks DEF DeleteFile, Continuations
  <2> QED
    BY <1>11, <2>1 DEF DeleteFile, Becomes, Request, CallOfPage
<1>12. ASSUME NEW c \in Calls, NEW a \in Accounts, HandleChangeAccount(c, a)
      PROVE  CallsOK'
  <2>1. Becomes(c, Request("getMe", a, None, {"setAccountId"}))
    BY <1>12, AsksMe DEF HandleChangeAccount, Continuations
  <2> QED
    BY <1>12, <2>1 DEF HandleChangeAccount, Becomes, Request, CallOfPage
<1>13. ASSUME NEW c \in Calls, DeleteAccount(c)
      PROVE  CallsOK'
  <2>1. Becomes(c, Request("deleteAccount", accountId, None, {}))
    BY <1>13, Asks DEF DeleteAccount, Continuations
  <2> QED
    BY <1>13, <2>1 DEF DeleteAccount, Becomes, Request, CallOfPage
<1>14. ASSUME NEW c \in Calls, UpdateLimits(c)
      PROVE  CallsOK'
  <2>1. Becomes(c, Request("getMe", accountId, None, {}))
    BY <1>14, AsksMe DEF UpdateLimits, Continuations
  <2> QED
    BY <1>14, <2>1 DEF UpdateLimits, Becomes, Request, CallOfPage
<1>15. CASE Unmount
  BY <1>15 DEF Unmount
<1>16. CASE Reload
  <2>1. /\ call' \in [Calls -> CallOfPage]
        /\ \A d \in Calls : call'[d] = NoCall \/ Kept(d)
    BY <1>16, Reloads
  <2>2. NoCall.what = "none" /\ NoCall.stage = "idle"
    BY DEF NoCall
  <2> QED
    BY <2>1, <2>2 DEF Kept
<1>17. CASE HandleVisibilityChange
  BY <1>17 DEF HandleVisibilityChange
<1>18. ASSUME NEW a \in Accounts, NEW f \in Files, ElsewhereUploads(a, f)
      PROVE  CallsOK'
  BY <1>18 DEF ElsewhereUploads
<1>19. ASSUME NEW a \in Accounts, ElsewhereSaves(a)
      PROVE  CallsOK'
  BY <1>19 DEF ElsewhereSaves
<1>20. ASSUME NEW f \in Files, ElsewhereDeletes(f)
      PROVE  CallsOK'
  BY <1>20 DEF ElsewhereDeletes, Drops
<1>21. CASE UNCHANGED vars
  BY <1>21 DEF vars
<1> HIDE DEF serverVars, storeVars, pageVars, pollVars, CallsOK, StoresOK
<1> QED BY <1>1, <1>2, <1>3, <1>4, <1>5, <1>6, <1>7, <1>8, <1>9, <1>10,
     <1>11, <1>12, <1>13, <1>14, <1>15, <1>16, <1>17, <1>18, <1>19, <1>20,
     <1>21
     DEF Next, Serve, Return, User

(* The bounds of the model are kept.                                       *)
LEMMA KeepsBounds ==
  ASSUME CallsOK,
         ServerOK,
         use \in Uses,
         events \in 0..MaxEvents,
         [Next]_vars
  PROVE  use' \in Uses /\ events' \in 0..MaxEvents
<1> USE DEF serverVars, storeVars, pageVars, pollVars
<1> USE DEF Occurs
<1>1. ASSUME NEW c \in Calls, Serve(c) \/ Errs(c) \/ Lost(c)
      PROVE  use' \in Uses /\ events' \in 0..MaxEvents
  <2>1. Served(c)
    BY <1>1, ServerSteps
  <2> QED
    BY <2>1 DEF Served, GoesOn, RowsGoOn
<1>2. ASSUME NEW c \in Calls, GetMeArrives(c)
      PROVE  use' \in Uses /\ events' \in 0..MaxEvents
  BY <1>2 DEF GetMeArrives
<1>3. ASSUME NEW c \in Calls, CallThrows(c)
      PROVE  use' \in Uses /\ events' \in 0..MaxEvents
  BY <1>3 DEF CallThrows
<1>4. ASSUME NEW c \in Calls, UploadReturns(c)
      PROVE  use' \in Uses /\ events' \in 0..MaxEvents
  BY <1>4 DEF UploadReturns
<1>5. ASSUME NEW c \in Calls, DeleteReturns(c)
      PROVE  use' \in Uses /\ events' \in 0..MaxEvents
  BY <1>5 DEF DeleteReturns
<1>6. ASSUME NEW c \in Calls, DeleteAccountReturns(c)
      PROVE  use' \in Uses /\ events' \in 0..MaxEvents
  BY <1>6 DEF DeleteAccountReturns
<1>7. ASSUME NEW c \in Calls, Discarded(c)
      PROVE  use' \in Uses /\ events' \in 0..MaxEvents
  BY <1>7 DEF Discarded
<1>8. ASSUME NEW c \in Calls, Poll(c)
      PROVE  use' \in Uses /\ events' \in 0..MaxEvents
  BY <1>8 DEF Poll
<1>9. ASSUME NEW c \in Calls, NEW url \in Accounts \union {None}, Mount(c, url)
      PROVE  use' \in Uses /\ events' \in 0..MaxEvents
  BY <1>9 DEF Mount
<1>10. ASSUME NEW c \in Calls, NEW f \in Files, UploadFile(c, f)
      PROVE  use' \in Uses /\ events' \in 0..MaxEvents
  BY <1>10 DEF UploadFile
<1>11. ASSUME NEW c \in Calls, NEW f \in Files, DeleteFile(c, f)
      PROVE  use' \in Uses /\ events' \in 0..MaxEvents
  BY <1>11 DEF DeleteFile
<1>12. ASSUME NEW c \in Calls, NEW a \in Accounts, HandleChangeAccount(c, a)
      PROVE  use' \in Uses /\ events' \in 0..MaxEvents
  BY <1>12 DEF HandleChangeAccount
<1>13. ASSUME NEW c \in Calls, DeleteAccount(c)
      PROVE  use' \in Uses /\ events' \in 0..MaxEvents
  BY <1>13 DEF DeleteAccount
<1>14. ASSUME NEW c \in Calls, UpdateLimits(c)
      PROVE  use' \in Uses /\ events' \in 0..MaxEvents
  BY <1>14 DEF UpdateLimits
<1>15. CASE Unmount
  BY <1>15 DEF Unmount
<1>16. CASE Reload
  BY <1>16 DEF Reload
<1>17. CASE HandleVisibilityChange
  BY <1>17 DEF HandleVisibilityChange
<1>18. ASSUME NEW a \in Accounts, NEW f \in Files, ElsewhereUploads(a, f)
      PROVE  use' \in Uses /\ events' \in 0..MaxEvents
  BY <1>18 DEF ElsewhereUploads
<1>19. ASSUME NEW a \in Accounts, ElsewhereSaves(a)
      PROVE  use' \in Uses /\ events' \in 0..MaxEvents
  BY <1>19 DEF ElsewhereSaves
<1>20. ASSUME NEW f \in Files, ElsewhereDeletes(f)
      PROVE  use' \in Uses /\ events' \in 0..MaxEvents
  BY <1>20 DEF ElsewhereDeletes, Drops
<1>21. CASE UNCHANGED vars
  BY <1>21 DEF vars
<1> HIDE DEF serverVars, storeVars, pageVars, pollVars, Occurs
<1> QED BY <1>1, <1>2, <1>3, <1>4, <1>5, <1>6, <1>7, <1>8, <1>9, <1>10,
     <1>11, <1>12, <1>13, <1>14, <1>15, <1>16, <1>17, <1>18, <1>19, <1>20,
     <1>21
     DEF Next, Serve, Return, User

(* The stores hold accounts and files.                                     *)
LEMMA KeepsStores ==
  ASSUME ServerOK,
         CallsOK,
         StoresOK,
         [Next]_vars
  PROVE  StoresOK'
<1> USE DEF serverVars, storeVars, pageVars, pollVars
<1> USE DEF CallsOK, StoresOK
<1>1. ASSUME NEW c \in Calls, Serve(c) \/ Errs(c) \/ Lost(c)
      PROVE  StoresOK'
  <2>1. Served(c)
    BY <1>1, ServerSteps
  <2> QED
    BY <2>1 DEF Served, GoesOn, RowsGoOn
<1>2. ASSUME NEW c \in Calls, GetMeArrives(c)
      PROVE  StoresOK'
  <2>1. call[c] \in CallOfPage
    OBVIOUS
  <2> QED
    BY <1>2, <2>1 DEF GetMeArrives, CallOfPage
<1>3. ASSUME NEW c \in Calls, CallThrows(c)
      PROVE  StoresOK'
  BY <1>3 DEF CallThrows
<1>4. ASSUME NEW c \in Calls, UploadReturns(c)
      PROVE  StoresOK'
  <2>1. call[c] \in CallOfPage
    OBVIOUS
  <2> QED
    BY <1>4, <2>1 DEF UploadReturns, CallOfPage
<1>5. ASSUME NEW c \in Calls, DeleteReturns(c)
      PROVE  StoresOK'
  <2>1. call[c] \in CallOfPage
    OBVIOUS
  <2> QED
    BY <1>5, <2>1 DEF DeleteReturns, CallOfPage
<1>6. ASSUME NEW c \in Calls, DeleteAccountReturns(c)
      PROVE  StoresOK'
  BY <1>6 DEF DeleteAccountReturns
<1>7. ASSUME NEW c \in Calls, Discarded(c)
      PROVE  StoresOK'
  BY <1>7 DEF Discarded
<1>8. ASSUME NEW c \in Calls, Poll(c)
      PROVE  StoresOK'
  BY <1>8 DEF Poll
<1>9. ASSUME NEW c \in Calls, NEW url \in Accounts \union {None}, Mount(c, url)
      PROVE  StoresOK'
  BY <1>9 DEF Mount
<1>10. ASSUME NEW c \in Calls, NEW f \in Files, UploadFile(c, f)
      PROVE  StoresOK'
  BY <1>10 DEF UploadFile
<1>11. ASSUME NEW c \in Calls, NEW f \in Files, DeleteFile(c, f)
      PROVE  StoresOK'
  BY <1>11 DEF DeleteFile
<1>12. ASSUME NEW c \in Calls, NEW a \in Accounts, HandleChangeAccount(c, a)
      PROVE  StoresOK'
  BY <1>12 DEF HandleChangeAccount
<1>13. ASSUME NEW c \in Calls, DeleteAccount(c)
      PROVE  StoresOK'
  BY <1>13 DEF DeleteAccount
<1>14. ASSUME NEW c \in Calls, UpdateLimits(c)
      PROVE  StoresOK'
  BY <1>14 DEF UpdateLimits
<1>15. CASE Unmount
  BY <1>15 DEF Unmount
<1>16. CASE Reload
  BY <1>16 DEF Reload
<1>17. CASE HandleVisibilityChange
  BY <1>17 DEF HandleVisibilityChange
<1>18. ASSUME NEW a \in Accounts, NEW f \in Files, ElsewhereUploads(a, f)
      PROVE  StoresOK'
  BY <1>18 DEF ElsewhereUploads
<1>19. ASSUME NEW a \in Accounts, ElsewhereSaves(a)
      PROVE  StoresOK'
  BY <1>19 DEF ElsewhereSaves
<1>20. ASSUME NEW f \in Files, ElsewhereDeletes(f)
      PROVE  StoresOK'
  BY <1>20 DEF ElsewhereDeletes, Drops
<1>21. CASE UNCHANGED vars
  BY <1>21 DEF vars
<1> HIDE DEF serverVars, storeVars, pageVars, pollVars, CallsOK, StoresOK
<1> QED BY <1>1, <1>2, <1>3, <1>4, <1>5, <1>6, <1>7, <1>8, <1>9, <1>10,
     <1>11, <1>12, <1>13, <1>14, <1>15, <1>16, <1>17, <1>18, <1>19, <1>20,
     <1>21
     DEF Next, Serve, Return, User

(* The server's rows hold accounts.                                        *)
LEMMA KeepsServer ==
  ASSUME CallsOK,
         ServerOK,
         [Next]_vars
  PROVE  ServerOK'
<1> USE DEF serverVars, storeVars, pageVars, pollVars
<1> USE DEF CallsOK, ServerOK
<1>1. ASSUME NEW c \in Calls, Serve(c) \/ Errs(c) \/ Lost(c)
      PROVE  ServerOK'
  <2>1. Served(c)
    BY <1>1, ServerSteps
  <2> QED
    BY <2>1, ServedRows DEF Served, GoesOn, RowsGoOn
<1>2. ASSUME NEW c \in Calls, GetMeArrives(c)
      PROVE  ServerOK'
  BY <1>2 DEF GetMeArrives
<1>3. ASSUME NEW c \in Calls, CallThrows(c)
      PROVE  ServerOK'
  BY <1>3 DEF CallThrows
<1>4. ASSUME NEW c \in Calls, UploadReturns(c)
      PROVE  ServerOK'
  BY <1>4 DEF UploadReturns
<1>5. ASSUME NEW c \in Calls, DeleteReturns(c)
      PROVE  ServerOK'
  BY <1>5 DEF DeleteReturns
<1>6. ASSUME NEW c \in Calls, DeleteAccountReturns(c)
      PROVE  ServerOK'
  BY <1>6 DEF DeleteAccountReturns
<1>7. ASSUME NEW c \in Calls, Discarded(c)
      PROVE  ServerOK'
  BY <1>7 DEF Discarded
<1>8. ASSUME NEW c \in Calls, Poll(c)
      PROVE  ServerOK'
  BY <1>8 DEF Poll
<1>9. ASSUME NEW c \in Calls, NEW url \in Accounts \union {None}, Mount(c, url)
      PROVE  ServerOK'
  BY <1>9 DEF Mount
<1>10. ASSUME NEW c \in Calls, NEW f \in Files, UploadFile(c, f)
      PROVE  ServerOK'
  BY <1>10 DEF UploadFile
<1>11. ASSUME NEW c \in Calls, NEW f \in Files, DeleteFile(c, f)
      PROVE  ServerOK'
  BY <1>11 DEF DeleteFile
<1>12. ASSUME NEW c \in Calls, NEW a \in Accounts, HandleChangeAccount(c, a)
      PROVE  ServerOK'
  BY <1>12 DEF HandleChangeAccount
<1>13. ASSUME NEW c \in Calls, DeleteAccount(c)
      PROVE  ServerOK'
  BY <1>13 DEF DeleteAccount
<1>14. ASSUME NEW c \in Calls, UpdateLimits(c)
      PROVE  ServerOK'
  BY <1>14 DEF UpdateLimits
<1>15. CASE Unmount
  BY <1>15 DEF Unmount
<1>16. CASE Reload
  BY <1>16 DEF Reload
<1>17. CASE HandleVisibilityChange
  BY <1>17 DEF HandleVisibilityChange
<1>18. ASSUME NEW a \in Accounts, NEW f \in Files, ElsewhereUploads(a, f)
      PROVE  ServerOK'
  BY <1>18 DEF ElsewhereUploads
<1>19. ASSUME NEW a \in Accounts, ElsewhereSaves(a)
      PROVE  ServerOK'
  BY <1>19 DEF ElsewhereSaves
<1>20. ASSUME NEW f \in Files, ElsewhereDeletes(f)
      PROVE  ServerOK'
  BY <1>20 DEF ElsewhereDeletes, Drops
<1>21. CASE UNCHANGED vars
  BY <1>21 DEF vars
<1> HIDE DEF serverVars, storeVars, pageVars, pollVars, CallsOK, ServerOK,
           AuthMiddleware
<1> QED BY <1>1, <1>2, <1>3, <1>4, <1>5, <1>6, <1>7, <1>8, <1>9, <1>10,
     <1>11, <1>12, <1>13, <1>14, <1>15, <1>16, <1>17, <1>18, <1>19, <1>20,
     <1>21
     DEF Next, Serve, Return, User

(* The page and its timers are of their types.                             *)
LEMMA KeepsPage ==
  ASSUME CallsOK,
         ServerOK,
         PageOK,
         [Next]_vars
  PROVE  PageOK'
<1> USE DEF serverVars, storeVars, pageVars, pollVars
<1> USE DEF PageOK, StopPolling, StartPolling
<1>1. ASSUME NEW c \in Calls, Serve(c) \/ Errs(c) \/ Lost(c)
      PROVE  PageOK'
  <2>1. Served(c)
    BY <1>1, ServerSteps
  <2> QED
    BY <2>1 DEF Served, GoesOn, RowsGoOn
<1>2. ASSUME NEW c \in Calls, GetMeArrives(c)
      PROVE  PageOK'
  BY <1>2 DEF GetMeArrives
<1>3. ASSUME NEW c \in Calls, CallThrows(c)
      PROVE  PageOK'
  BY <1>3 DEF CallThrows
<1>4. ASSUME NEW c \in Calls, UploadReturns(c)
      PROVE  PageOK'
  BY <1>4 DEF UploadReturns
<1>5. ASSUME NEW c \in Calls, DeleteReturns(c)
      PROVE  PageOK'
  BY <1>5 DEF DeleteReturns
<1>6. ASSUME NEW c \in Calls, DeleteAccountReturns(c)
      PROVE  PageOK'
  BY <1>6 DEF DeleteAccountReturns
<1>7. ASSUME NEW c \in Calls, Discarded(c)
      PROVE  PageOK'
  BY <1>7 DEF Discarded
<1>8. ASSUME NEW c \in Calls, Poll(c)
      PROVE  PageOK'
  BY <1>8 DEF Poll
<1>9. ASSUME NEW c \in Calls, NEW url \in Accounts \union {None}, Mount(c, url)
      PROVE  PageOK'
  BY <1>9 DEF Mount
<1>10. ASSUME NEW c \in Calls, NEW f \in Files, UploadFile(c, f)
      PROVE  PageOK'
  BY <1>10 DEF UploadFile
<1>11. ASSUME NEW c \in Calls, NEW f \in Files, DeleteFile(c, f)
      PROVE  PageOK'
  BY <1>11 DEF DeleteFile
<1>12. ASSUME NEW c \in Calls, NEW a \in Accounts, HandleChangeAccount(c, a)
      PROVE  PageOK'
  BY <1>12 DEF HandleChangeAccount
<1>13. ASSUME NEW c \in Calls, DeleteAccount(c)
      PROVE  PageOK'
  BY <1>13 DEF DeleteAccount
<1>14. ASSUME NEW c \in Calls, UpdateLimits(c)
      PROVE  PageOK'
  BY <1>14 DEF UpdateLimits
<1>15. CASE Unmount
  BY <1>15 DEF Unmount
<1>16. CASE Reload
  BY <1>16 DEF Reload
<1>17. CASE HandleVisibilityChange
  BY <1>17 DEF HandleVisibilityChange
<1>18. ASSUME NEW a \in Accounts, NEW f \in Files, ElsewhereUploads(a, f)
      PROVE  PageOK'
  BY <1>18 DEF ElsewhereUploads
<1>19. ASSUME NEW a \in Accounts, ElsewhereSaves(a)
      PROVE  PageOK'
  BY <1>19 DEF ElsewhereSaves
<1>20. ASSUME NEW f \in Files, ElsewhereDeletes(f)
      PROVE  PageOK'
  BY <1>20 DEF ElsewhereDeletes, Drops
<1>21. CASE UNCHANGED vars
  BY <1>21 DEF vars
<1> HIDE DEF serverVars, storeVars, pageVars, pollVars, PageOK, StopPolling,
           StartPolling
<1> QED BY <1>1, <1>2, <1>3, <1>4, <1>5, <1>6, <1>7, <1>8, <1>9, <1>10,
     <1>11, <1>12, <1>13, <1>14, <1>15, <1>16, <1>17, <1>18, <1>19, <1>20,
     <1>21
     DEF Next, Serve, Return, User

(* Files are listed for live accounts.                                     *)
LEMMA KeepsHolders ==
  ASSUME CallsOK,
         ServerOK,
         ListedOnce,
         UploadsNew,
         [Next]_vars
  PROVE  ListedOnce'
<1> USE DEF serverVars, storeVars, pageVars, pollVars
<1> USE DEF CallsOK, ServerOK, ListedOnce, FilesOf
<1>1. ASSUME NEW c \in Calls, Serve(c) \/ Errs(c) \/ Lost(c)
      PROVE  ListedOnce'
  <2>1. Served(c)
    BY <1>1, ServerSteps
  <2>2. Lists(c) => call[c].file \notin gone
    BY DEF Lists, UploadsNew, Pending
  <2> QED
    BY <2>1, <2>2, ServedRows
<1>2. ASSUME NEW c \in Calls, GetMeArrives(c)
      PROVE  ListedOnce'
  BY <1>2 DEF GetMeArrives
<1>3. ASSUME NEW c \in Calls, CallThrows(c)
      PROVE  ListedOnce'
  BY <1>3 DEF CallThrows
<1>4. ASSUME NEW c \in Calls, UploadReturns(c)
      PROVE  ListedOnce'
  BY <1>4 DEF UploadReturns
<1>5. ASSUME NEW c \in Calls, DeleteReturns(c)
      PROVE  ListedOnce'
  BY <1>5 DEF DeleteReturns
<1>6. ASSUME NEW c \in Calls, DeleteAccountReturns(c)
      PROVE  ListedOnce'
  BY <1>6 DEF DeleteAccountReturns
<1>7. ASSUME NEW c \in Calls, Discarded(c)
      PROVE  ListedOnce'
  BY <1>7 DEF Discarded
<1>8. ASSUME NEW c \in Calls, Poll(c)
      PROVE  ListedOnce'
  BY <1>8 DEF Poll
<1>9. ASSUME NEW c \in Calls, NEW url \in Accounts \union {None}, Mount(c, url)
      PROVE  ListedOnce'
  BY <1>9 DEF Mount
<1>10. ASSUME NEW c \in Calls, NEW f \in Files, UploadFile(c, f)
      PROVE  ListedOnce'
  BY <1>10 DEF UploadFile
<1>11. ASSUME NEW c \in Calls, NEW f \in Files, DeleteFile(c, f)
      PROVE  ListedOnce'
  BY <1>11 DEF DeleteFile
<1>12. ASSUME NEW c \in Calls, NEW a \in Accounts, HandleChangeAccount(c, a)
      PROVE  ListedOnce'
  BY <1>12 DEF HandleChangeAccount
<1>13. ASSUME NEW c \in Calls, DeleteAccount(c)
      PROVE  ListedOnce'
  BY <1>13 DEF DeleteAccount
<1>14. ASSUME NEW c \in Calls, UpdateLimits(c)
      PROVE  ListedOnce'
  BY <1>14 DEF UpdateLimits
<1>15. CASE Unmount
  BY <1>15 DEF Unmount
<1>16. CASE Reload
  BY <1>16 DEF Reload
<1>17. CASE HandleVisibilityChange
  BY <1>17 DEF HandleVisibilityChange
<1>18. ASSUME NEW a \in Accounts, NEW f \in Files, ElsewhereUploads(a, f)
      PROVE  ListedOnce'
  BY <1>18 DEF ElsewhereUploads
<1>19. ASSUME NEW a \in Accounts, ElsewhereSaves(a)
      PROVE  ListedOnce'
  BY <1>19 DEF ElsewhereSaves
<1>20. ASSUME NEW f \in Files, ElsewhereDeletes(f)
      PROVE  ListedOnce'
  BY <1>20 DEF ElsewhereDeletes, Drops
<1>21. CASE UNCHANGED vars
  BY <1>21 DEF vars
<1> HIDE DEF serverVars, storeVars, pageVars, pollVars, CallsOK, ServerOK,
           ListedOnce, FilesOf
<1> QED BY <1>1, <1>2, <1>3, <1>4, <1>5, <1>6, <1>7, <1>8, <1>9, <1>10,
     <1>11, <1>12, <1>13, <1>14, <1>15, <1>16, <1>17, <1>18, <1>19, <1>20,
     <1>21
     DEF Next, Serve, Return, User

KnownStays == Known \subseteq Known'

(* A file that was listed is listed or deleted ever after.                 *)
LEMMA StaysKnown ==
  ASSUME CallsOK,
         ServerOK,
         [Next]_vars
  PROVE  KnownStays
<1> USE DEF serverVars, storeVars, pageVars, pollVars
<1> USE DEF CallsOK, ServerOK, FilesOf
<1>1. ASSUME NEW c \in Calls, Serve(c) \/ Errs(c) \/ Lost(c)
      PROVE  KnownStays
  <2>1. Served(c)
    BY <1>1, ServerSteps
  <2> QED
    BY <2>1, ServedRows DEF Served, GoesOn, RowsGoOn, KnownStays, Known
<1>2. ASSUME NEW c \in Calls, GetMeArrives(c)
      PROVE  KnownStays
  BY <1>2 DEF GetMeArrives, KnownStays, Known
<1>3. ASSUME NEW c \in Calls, CallThrows(c)
      PROVE  KnownStays
  BY <1>3 DEF CallThrows, KnownStays, Known
<1>4. ASSUME NEW c \in Calls, UploadReturns(c)
      PROVE  KnownStays
  BY <1>4 DEF UploadReturns, KnownStays, Known
<1>5. ASSUME NEW c \in Calls, DeleteReturns(c)
      PROVE  KnownStays
  BY <1>5 DEF DeleteReturns, KnownStays, Known
<1>6. ASSUME NEW c \in Calls, DeleteAccountReturns(c)
      PROVE  KnownStays
  BY <1>6 DEF DeleteAccountReturns, KnownStays, Known
<1>7. ASSUME NEW c \in Calls, Discarded(c)
      PROVE  KnownStays
  BY <1>7 DEF Discarded, KnownStays, Known
<1>8. ASSUME NEW c \in Calls, Poll(c)
      PROVE  KnownStays
  BY <1>8 DEF Poll, KnownStays, Known
<1>9. ASSUME NEW c \in Calls, NEW url \in Accounts \union {None}, Mount(c, url)
      PROVE  KnownStays
  BY <1>9 DEF Mount, KnownStays, Known
<1>10. ASSUME NEW c \in Calls, NEW f \in Files, UploadFile(c, f)
      PROVE  KnownStays
  BY <1>10 DEF UploadFile, KnownStays, Known
<1>11. ASSUME NEW c \in Calls, NEW f \in Files, DeleteFile(c, f)
      PROVE  KnownStays
  BY <1>11 DEF DeleteFile, KnownStays, Known
<1>12. ASSUME NEW c \in Calls, NEW a \in Accounts, HandleChangeAccount(c, a)
      PROVE  KnownStays
  BY <1>12 DEF HandleChangeAccount, KnownStays, Known
<1>13. ASSUME NEW c \in Calls, DeleteAccount(c)
      PROVE  KnownStays
  BY <1>13 DEF DeleteAccount, KnownStays, Known
<1>14. ASSUME NEW c \in Calls, UpdateLimits(c)
      PROVE  KnownStays
  BY <1>14 DEF UpdateLimits, KnownStays, Known
<1>15. CASE Unmount
  BY <1>15 DEF Unmount, KnownStays, Known
<1>16. CASE Reload
  BY <1>16 DEF Reload, KnownStays, Known
<1>17. CASE HandleVisibilityChange
  BY <1>17 DEF HandleVisibilityChange, KnownStays, Known
<1>18. ASSUME NEW a \in Accounts, NEW f \in Files, ElsewhereUploads(a, f)
      PROVE  KnownStays
  BY <1>18 DEF ElsewhereUploads, KnownStays, Known
<1>19. ASSUME NEW a \in Accounts, ElsewhereSaves(a)
      PROVE  KnownStays
  BY <1>19 DEF ElsewhereSaves, KnownStays, Known
<1>20. ASSUME NEW f \in Files, ElsewhereDeletes(f)
      PROVE  KnownStays
  BY <1>20 DEF ElsewhereDeletes, Drops, KnownStays, Known
<1>21. CASE UNCHANGED vars
  BY <1>21 DEF vars, KnownStays, Known
<1> HIDE DEF serverVars, storeVars, pageVars, pollVars, CallsOK, ServerOK,
           FilesOf
<1> QED BY <1>1, <1>2, <1>3, <1>4, <1>5, <1>6, <1>7, <1>8, <1>9, <1>10,
     <1>11, <1>12, <1>13, <1>14, <1>15, <1>16, <1>17, <1>18, <1>19, <1>20,
     <1>21
     DEF Next, Serve, Return, User

(* What an upload on its way will add nobody has listed.                   *)
LEMMA KeepsUploadsNew ==
  ASSUME CallsOK,
         StoresOK,
         ServerOK,
         UploadsNew,
         [Next]_vars
  PROVE  UploadsNew'
<1> USE DEF serverVars, storeVars, pageVars, pollVars
<1> USE DEF CallsOK, StoresOK, ServerOK, UploadsNew, Pending, Occurs
<1>1. ASSUME NEW c \in Calls, Serve(c) \/ Errs(c) \/ Lost(c)
      PROVE  UploadsNew'
  <2>1. Served(c)
    BY <1>1, ServerSteps
  <2>2. /\ \A d \in Calls \ {c} : call'[d] = call[d]
        /\ call'[c].what = call[c].what /\ call'[c].file = call[c].file
        /\ call'[c].stage \in Pending => call[c].stage \in Pending /\ ~Lists(c)
    BY <2>1 DEF Served, GoesOn, Lists
  <2>3. \A f \in Files : holder[f] = None /\ f \notin gone =>
          (holder'[f] = None /\ f \notin gone') \/ (Lists(c) /\ f = call[c].file)
    BY <2>1, ServedRows
  <2>4. Lists(c) => /\ call[c].what = "uploadFile" /\ call[c].stage \in Pending
                    /\ call'[c].stage \notin Pending
    BY DEF Lists
  <2> QED
    BY <2>1, <2>2, <2>3, <2>4
<1>2. ASSUME NEW c \in Calls, GetMeArrives(c)
      PROVE  UploadsNew'
  <2>1. Becomes(c, NoCall)
    BY <1>2, IsFreed DEF GetMeArrives
  <2> QED
    BY <1>2, <2>1 DEF GetMeArrives, Becomes, NoCall, CallOfPage
<1>3. ASSUME NEW c \in Calls, CallThrows(c)
      PROVE  UploadsNew'
  <2>1. Becomes(c, NoCall)
    BY <1>3, IsFreed DEF CallThrows
  <2> QED
    BY <1>3, <2>1 DEF CallThrows, Becomes, NoCall, CallOfPage
<1>4. ASSUME NEW c \in Calls, UploadReturns(c)
      PROVE  UploadsNew'
  <2>1. Becomes(c, Request("getMe", accountId, None, {}))
    BY <1>4, AsksMe DEF UploadReturns, Continuations
  <2> QED
    BY <1>4, <2>1 DEF UploadReturns, Becomes, Request, CallOfPage
<1>5. ASSUME NEW c \in Calls, DeleteReturns(c)
      PROVE  UploadsNew'
  <2>1. Becomes(c, Request("getMe", accountId, None, {}))
    BY <1>5, AsksMe DEF DeleteReturns, Continuations
  <2> QED
    BY <1>5, <2>1 DEF DeleteReturns, Becomes, Request, CallOfPage
<1>6. ASSUME NEW c \in Calls, DeleteAccountReturns(c)
      PROVE  UploadsNew'
  <2>1. Becomes(c, Request("getMe", None, None, {"setAccountId"}))
    BY <1>6, AsksMe DEF DeleteAccountReturns, Continuations
  <2> QED
    BY <1>6, <2>1 DEF DeleteAccountReturns, Becomes, Request, CallOfPage
<1>7. ASSUME NEW c \in Calls, Discarded(c)
      PROVE  UploadsNew'
  <2>1. Becomes(c, NoCall)
    BY <1>7, IsFreed DEF Discarded
  <2> QED
    BY <1>7, <2>1 DEF Discarded, Becomes, NoCall, CallOfPage
<1>8. ASSUME NEW c \in Calls, Poll(c)
      PROVE  UploadsNew'
  <2>1. Becomes(c, Request("getMe", accountId, None, {}))
    BY <1>8, AsksMe DEF Poll, Continuations
  <2> QED
    BY <1>8, <2>1 DEF Poll, Becomes, Request, CallOfPage
<1>9. ASSUME NEW c \in Calls, NEW url \in Accounts \union {None}, Mount(c, url)
      PROVE  UploadsNew'
  <2>1. CASE accountId' = None /\ Becomes(c, Request("getMe", None, None, {"setAccountId", "startPolling"}))
    BY <1>9, <2>1 DEF Mount, Becomes, Request, CallOfPage
  <2>2. CASE accountId' # None /\ Becomes(c, Request("getMe", accountId', None, {"startPolling"}))
    BY <1>9, <2>2 DEF Mount, Becomes, Request, CallOfPage
  <2>3. accountId' \in Accounts \union {None}
    BY <1>9 DEF Mount
  <2>4. CASE accountId' = None
    BY <1>9, <2>1, <2>4, AsksMe DEF Mount, Continuations
  <2>5. CASE accountId' # None
    BY <1>9, <2>2, <2>3, <2>5, AsksMe DEF Mount, Continuations
  <2> QED
    BY <2>4, <2>5
<1>10. ASSUME NEW c \in Calls, NEW f \in Files, UploadFile(c, f)
      PROVE  UploadsNew'
  <2>1. Becomes(c, Request("uploadFile", accountId, f, {}))
    BY <1>10, Asks DEF UploadFile, Continuations
  <2> QED
    BY <1>10, <2>1 DEF UploadFile, Becomes, Request, CallOfPage
<1>11. ASSUME NEW c \in Calls, NEW f \in Files, DeleteFile(c, f)
      PROVE  UploadsNew'
  <2>1. Becomes(c, Request("deleteFile", accountId, f, {}))
    BY <1>11, Asks DEF DeleteFile, Continuations
  <2> QED
    BY <1>11, <2>1 DEF DeleteFile, Becomes, Request, CallOfPage
<1>12. ASSUME NEW c \in Calls, NEW a \in Accounts, HandleChangeAccount(c, a)
      PROVE  UploadsNew'
  <2>1. Becomes(c, Request("getMe", a, None, {"setAccountId"}))
    BY <1>12, AsksMe DEF HandleChangeAccount, Continuations
  <2> QED
    BY <1>12, <2>1 DEF HandleChangeAccount, Becomes, Request, CallOfPage
<1>13. ASSUME NEW c \in Calls, DeleteAccount(c)
      PROVE  UploadsNew'
  <2>1. Becomes(c, Request("deleteAccount", accountId, None, {}))
    BY <1>13, Asks DEF DeleteAccount, Continuations
  <2> QED
    BY <1>13, <2>1 DEF DeleteAccount, Becomes, Request, CallOfPage
<1>14. ASSUME NEW c \in Calls, UpdateLimits(c)
      PROVE  UploadsNew'
  <2>1. Becomes(c, Request("getMe", accountId, None, {}))
    BY <1>14, AsksMe DEF UpdateLimits, Continuations
  <2> QED
    BY <1>14, <2>1 DEF UpdateLimits, Becomes, Request, CallOfPage
<1>15. CASE Unmount
  BY <1>15 DEF Unmount
<1>16. CASE Reload
  <2>1. /\ call' \in [Calls -> CallOfPage]
        /\ \A d \in Calls : call'[d] = NoCall \/ Kept(d)
    BY <1>16, Reloads
  <2> QED
    BY <1>16, <2>1 DEF Reload, NoCall, Kept
<1>17. CASE HandleVisibilityChange
  BY <1>17 DEF HandleVisibilityChange
<1>18. ASSUME NEW a \in Accounts, NEW f \in Files, ElsewhereUploads(a, f)
      PROVE  UploadsNew'
  BY <1>18 DEF ElsewhereUploads
<1>19. ASSUME NEW a \in Accounts, ElsewhereSaves(a)
      PROVE  UploadsNew'
  BY <1>19 DEF ElsewhereSaves
<1>20. ASSUME NEW f \in Files, ElsewhereDeletes(f)
      PROVE  UploadsNew'
  BY <1>20 DEF ElsewhereDeletes, Drops
<1>21. CASE UNCHANGED vars
  BY <1>21 DEF vars
<1> HIDE DEF serverVars, storeVars, pageVars, pollVars, CallsOK, StoresOK,
           ServerOK, UploadsNew, Pending, Occurs
<1> QED BY <1>1, <1>2, <1>3, <1>4, <1>5, <1>6, <1>7, <1>8, <1>9, <1>10,
     <1>11, <1>12, <1>13, <1>14, <1>15, <1>16, <1>17, <1>18, <1>19, <1>20,
     <1>21
     DEF Next, Serve, Return, User

(* What the page lists, or is about to, was listed.                        *)
LEMMA KeepsOnlyKnown ==
  ASSUME CallsOK,
         StoresOK,
         ServerOK,
         UploadsNew,
         OnlyKnown,
         KnownStays,
         [Next]_vars
  PROVE  OnlyKnown'
<1> USE DEF serverVars, storeVars, pageVars, pollVars
<1> USE DEF CallsOK, StoresOK, OnlyKnown, KnownStays
<1>1. ASSUME NEW c \in Calls, Serve(c) \/ Errs(c) \/ Lost(c)
      PROVE  OnlyKnown'
  <2>1. Served(c)
    BY <1>1, ServerSteps
  <2> QED
    BY <2>1, ServedRows DEF Served, GoesOn, RowsGoOn, Known
<1>2. ASSUME NEW c \in Calls, GetMeArrives(c)
      PROVE  OnlyKnown'
  <2>1. Becomes(c, NoCall)
    BY <1>2, IsFreed DEF GetMeArrives
  <2> QED
    BY <1>2, <2>1 DEF GetMeArrives, Becomes, NoCall, CallOfPage
<1>3. ASSUME NEW c \in Calls, CallThrows(c)
      PROVE  OnlyKnown'
  <2>1. Becomes(c, NoCall)
    BY <1>3, IsFreed DEF CallThrows
  <2> QED
    BY <1>3, <2>1 DEF CallThrows, Becomes, NoCall, CallOfPage
<1>4. ASSUME NEW c \in Calls, UploadReturns(c)
      PROVE  OnlyKnown'
  <2>1. Becomes(c, Request("getMe", accountId, None, {}))
    BY <1>4, AsksMe DEF UploadReturns, Continuations
  <2> QED
    BY <1>4, <2>1 DEF UploadReturns, Becomes, Request, CallOfPage
<1>5. ASSUME NEW c \in Calls, DeleteReturns(c)
      PROVE  OnlyKnown'
  <2>1. Becomes(c, Request("getMe", accountId, None, {}))
    BY <1>5, AsksMe DEF DeleteReturns, Continuations
  <2> QED
    BY <1>5, <2>1 DEF DeleteReturns, Becomes, Request, CallOfPage
<1>6. ASSUME NEW c \in Calls, DeleteAccountReturns(c)
      PROVE  OnlyKnown'
  <2>1. Becomes(c, Request("getMe", None, None, {"setAccountId"}))
    BY <1>6, AsksMe DEF DeleteAccountReturns, Continuations
  <2> QED
    BY <1>6, <2>1 DEF DeleteAccountReturns, Becomes, Request, CallOfPage
<1>7. ASSUME NEW c \in Calls, Discarded(c)
      PROVE  OnlyKnown'
  <2>1. Becomes(c, NoCall)
    BY <1>7, IsFreed DEF Discarded
  <2> QED
    BY <1>7, <2>1 DEF Discarded, Becomes, NoCall, CallOfPage
<1>8. ASSUME NEW c \in Calls, Poll(c)
      PROVE  OnlyKnown'
  <2>1. Becomes(c, Request("getMe", accountId, None, {}))
    BY <1>8, AsksMe DEF Poll, Continuations
  <2> QED
    BY <1>8, <2>1 DEF Poll, Becomes, Request, CallOfPage
<1>9. ASSUME NEW c \in Calls, NEW url \in Accounts \union {None}, Mount(c, url)
      PROVE  OnlyKnown'
  <2>1. CASE accountId' = None /\ Becomes(c, Request("getMe", None, None, {"setAccountId", "startPolling"}))
    BY <1>9, <2>1 DEF Mount, Becomes, Request, CallOfPage
  <2>2. CASE accountId' # None /\ Becomes(c, Request("getMe", accountId', None, {"startPolling"}))
    BY <1>9, <2>2 DEF Mount, Becomes, Request, CallOfPage
  <2>3. accountId' \in Accounts \union {None}
    BY <1>9 DEF Mount
  <2>4. CASE accountId' = None
    BY <1>9, <2>1, <2>4, AsksMe DEF Mount, Continuations
  <2>5. CASE accountId' # None
    BY <1>9, <2>2, <2>3, <2>5, AsksMe DEF Mount, Continuations
  <2> QED
    BY <2>4, <2>5
<1>10. ASSUME NEW c \in Calls, NEW f \in Files, UploadFile(c, f)
      PROVE  OnlyKnown'
  <2>1. Becomes(c, Request("uploadFile", accountId, f, {}))
    BY <1>10, Asks DEF UploadFile, Continuations
  <2> QED
    BY <1>10, <2>1 DEF UploadFile, Becomes, Request, CallOfPage
<1>11. ASSUME NEW c \in Calls, NEW f \in Files, DeleteFile(c, f)
      PROVE  OnlyKnown'
  <2>1. Becomes(c, Request("deleteFile", accountId, f, {}))
    BY <1>11, Asks DEF DeleteFile, Continuations
  <2> QED
    BY <1>11, <2>1 DEF DeleteFile, Becomes, Request, CallOfPage
<1>12. ASSUME NEW c \in Calls, NEW a \in Accounts, HandleChangeAccount(c, a)
      PROVE  OnlyKnown'
  <2>1. Becomes(c, Request("getMe", a, None, {"setAccountId"}))
    BY <1>12, AsksMe DEF HandleChangeAccount, Continuations
  <2> QED
    BY <1>12, <2>1 DEF HandleChangeAccount, Becomes, Request, CallOfPage
<1>13. ASSUME NEW c \in Calls, DeleteAccount(c)
      PROVE  OnlyKnown'
  <2>1. Becomes(c, Request("deleteAccount", accountId, None, {}))
    BY <1>13, Asks DEF DeleteAccount, Continuations
  <2> QED
    BY <1>13, <2>1 DEF DeleteAccount, Becomes, Request, CallOfPage
<1>14. ASSUME NEW c \in Calls, UpdateLimits(c)
      PROVE  OnlyKnown'
  <2>1. Becomes(c, Request("getMe", accountId, None, {}))
    BY <1>14, AsksMe DEF UpdateLimits, Continuations
  <2> QED
    BY <1>14, <2>1 DEF UpdateLimits, Becomes, Request, CallOfPage
<1>15. CASE Unmount
  BY <1>15 DEF Unmount
<1>16. CASE Reload
  <2>1. /\ call' \in [Calls -> CallOfPage]
        /\ \A d \in Calls : call'[d] = NoCall \/ Kept(d)
    BY <1>16, Reloads
  <2> QED
    BY <1>16, <2>1 DEF Reload, NoCall, Kept
<1>17. CASE HandleVisibilityChange
  BY <1>17 DEF HandleVisibilityChange
<1>18. ASSUME NEW a \in Accounts, NEW f \in Files, ElsewhereUploads(a, f)
      PROVE  OnlyKnown'
  BY <1>18 DEF ElsewhereUploads
<1>19. ASSUME NEW a \in Accounts, ElsewhereSaves(a)
      PROVE  OnlyKnown'
  BY <1>19 DEF ElsewhereSaves
<1>20. ASSUME NEW f \in Files, ElsewhereDeletes(f)
      PROVE  OnlyKnown'
  BY <1>20 DEF ElsewhereDeletes, Drops
<1>21. CASE UNCHANGED vars
  BY <1>21 DEF vars
<1> HIDE DEF serverVars, storeVars, pageVars, pollVars, CallsOK, StoresOK,
           OnlyKnown, KnownStays
<1> QED BY <1>1, <1>2, <1>3, <1>4, <1>5, <1>6, <1>7, <1>8, <1>9, <1>10,
     <1>11, <1>12, <1>13, <1>14, <1>15, <1>16, <1>17, <1>18, <1>19, <1>20,
     <1>21
     DEF Next, Serve, Return, User

(* An upload the page shows is on its way.                                 *)
LEMMA KeepsUploadsCalled ==
  ASSUME ServerOK,
         CallsOK,
         StoresOK,
         UploadsCalled,
         [Next]_vars
  PROVE  UploadsCalled'
<1> USE DEF serverVars, storeVars, pageVars, pollVars
<1> USE DEF CallsOK, StoresOK, UploadsCalled, Free
<1>1. ASSUME NEW c \in Calls, Serve(c) \/ Errs(c) \/ Lost(c)
      PROVE  UploadsCalled'
  <2>1. Served(c)
    BY <1>1, ServerSteps
  <2> QED
    BY <2>1 DEF Served, GoesOn, RowsGoOn
<1>2. ASSUME NEW c \in Calls, GetMeArrives(c)
      PROVE  UploadsCalled'
  <2>1. Becomes(c, NoCall)
    BY <1>2, IsFreed DEF GetMeArrives
  <2> QED
    BY <1>2, <2>1 DEF GetMeArrives, Becomes, NoCall, CallOfPage
<1>3. ASSUME NEW c \in Calls, CallThrows(c)
      PROVE  UploadsCalled'
  <2>1. Becomes(c, NoCall)
    BY <1>3, IsFreed DEF CallThrows
  <2> QED
    BY <1>3, <2>1 DEF CallThrows, Becomes, NoCall, CallOfPage
<1>4. ASSUME NEW c \in Calls, UploadReturns(c)
      PROVE  UploadsCalled'
  <2>1. Becomes(c, Request("getMe", accountId, None, {}))
    BY <1>4, AsksMe DEF UploadReturns, Continuations
  <2> QED
    BY <1>4, <2>1 DEF UploadReturns, Becomes, Request, CallOfPage
<1>5. ASSUME NEW c \in Calls, DeleteReturns(c)
      PROVE  UploadsCalled'
  <2>1. Becomes(c, Request("getMe", accountId, None, {}))
    BY <1>5, AsksMe DEF DeleteReturns, Continuations
  <2> QED
    BY <1>5, <2>1 DEF DeleteReturns, Becomes, Request, CallOfPage
<1>6. ASSUME NEW c \in Calls, DeleteAccountReturns(c)
      PROVE  UploadsCalled'
  <2>1. Becomes(c, Request("getMe", None, None, {"setAccountId"}))
    BY <1>6, AsksMe DEF DeleteAccountReturns, Continuations
  <2> QED
    BY <1>6, <2>1 DEF DeleteAccountReturns, Becomes, Request, CallOfPage
<1>7. ASSUME NEW c \in Calls, Discarded(c)
      PROVE  UploadsCalled'
  <2>1. Becomes(c, NoCall)
    BY <1>7, IsFreed DEF Discarded
  <2> QED
    BY <1>7, <2>1 DEF Discarded, Becomes, NoCall, CallOfPage
<1>8. ASSUME NEW c \in Calls, Poll(c)
      PROVE  UploadsCalled'
  <2>1. Becomes(c, Request("getMe", accountId, None, {}))
    BY <1>8, AsksMe DEF Poll, Continuations
  <2> QED
    BY <1>8, <2>1 DEF Poll, Becomes, Request, CallOfPage
<1>9. ASSUME NEW c \in Calls, NEW url \in Accounts \union {None}, Mount(c, url)
      PROVE  UploadsCalled'
  <2>1. CASE accountId' = None /\ Becomes(c, Request("getMe", None, None, {"setAccountId", "startPolling"}))
    BY <1>9, <2>1 DEF Mount, Becomes, Request, CallOfPage
  <2>2. CASE accountId' # None /\ Becomes(c, Request("getMe", accountId', None, {"startPolling"}))
    BY <1>9, <2>2 DEF Mount, Becomes, Request, CallOfPage
  <2>3. accountId' \in Accounts \union {None}
    BY <1>9 DEF Mount
  <2>4. CASE accountId' = None
    BY <1>9, <2>1, <2>4, AsksMe DEF Mount, Continuations
  <2>5. CASE accountId' # None
    BY <1>9, <2>2, <2>3, <2>5, AsksMe DEF Mount, Continuations
  <2> QED
    BY <2>4, <2>5
<1>10. ASSUME NEW c \in Calls, NEW f \in Files, UploadFile(c, f)
      PROVE  UploadsCalled'
  <2>1. Becomes(c, Request("uploadFile", accountId, f, {}))
    BY <1>10, Asks DEF UploadFile, Continuations
  <2> QED
    BY <1>10, <2>1 DEF UploadFile, Becomes, Request, CallOfPage
<1>11. ASSUME NEW c \in Calls, NEW f \in Files, DeleteFile(c, f)
      PROVE  UploadsCalled'
  <2>1. Becomes(c, Request("deleteFile", accountId, f, {}))
    BY <1>11, Asks DEF DeleteFile, Continuations
  <2> QED
    BY <1>11, <2>1 DEF DeleteFile, Becomes, Request, CallOfPage
<1>12. ASSUME NEW c \in Calls, NEW a \in Accounts, HandleChangeAccount(c, a)
      PROVE  UploadsCalled'
  <2>1. Becomes(c, Request("getMe", a, None, {"setAccountId"}))
    BY <1>12, AsksMe DEF HandleChangeAccount, Continuations
  <2> QED
    BY <1>12, <2>1 DEF HandleChangeAccount, Becomes, Request, CallOfPage
<1>13. ASSUME NEW c \in Calls, DeleteAccount(c)
      PROVE  UploadsCalled'
  <2>1. Becomes(c, Request("deleteAccount", accountId, None, {}))
    BY <1>13, Asks DEF DeleteAccount, Continuations
  <2> QED
    BY <1>13, <2>1 DEF DeleteAccount, Becomes, Request, CallOfPage
<1>14. ASSUME NEW c \in Calls, UpdateLimits(c)
      PROVE  UploadsCalled'
  <2>1. Becomes(c, Request("getMe", accountId, None, {}))
    BY <1>14, AsksMe DEF UpdateLimits, Continuations
  <2> QED
    BY <1>14, <2>1 DEF UpdateLimits, Becomes, Request, CallOfPage
<1>15. CASE Unmount
  BY <1>15 DEF Unmount
<1>16. CASE Reload
  <2>1. /\ call' \in [Calls -> CallOfPage]
        /\ \A d \in Calls : call'[d] = NoCall \/ Kept(d)
    BY <1>16, Reloads
  <2> QED
    BY <1>16, <2>1 DEF Reload, NoCall, Kept
<1>17. CASE HandleVisibilityChange
  BY <1>17 DEF HandleVisibilityChange
<1>18. ASSUME NEW a \in Accounts, NEW f \in Files, ElsewhereUploads(a, f)
      PROVE  UploadsCalled'
  BY <1>18 DEF ElsewhereUploads
<1>19. ASSUME NEW a \in Accounts, ElsewhereSaves(a)
      PROVE  UploadsCalled'
  BY <1>19 DEF ElsewhereSaves
<1>20. ASSUME NEW f \in Files, ElsewhereDeletes(f)
      PROVE  UploadsCalled'
  BY <1>20 DEF ElsewhereDeletes, Drops
<1>21. CASE UNCHANGED vars
  BY <1>21 DEF vars
<1> HIDE DEF serverVars, storeVars, pageVars, pollVars, CallsOK, StoresOK,
           UploadsCalled, Free
<1> QED BY <1>1, <1>2, <1>3, <1>4, <1>5, <1>6, <1>7, <1>8, <1>9, <1>10,
     <1>11, <1>12, <1>13, <1>14, <1>15, <1>16, <1>17, <1>18, <1>19, <1>20,
     <1>21
     DEF Next, Serve, Return, User

(* There is one interval at most.                                          *)
LEMMA KeepsOneInterval ==
  ASSUME CallsOK,
         ServerOK,
         PageOK,
         OneInterval,
         [Next]_vars
  PROVE  OneInterval'
<1> USE DEF serverVars, storeVars, pageVars, pollVars
<1> USE DEF PageOK, OneInterval, StopPolling, StartPolling
<1>1. ASSUME NEW c \in Calls, Serve(c) \/ Errs(c) \/ Lost(c)
      PROVE  OneInterval'
  <2>1. Served(c)
    BY <1>1, ServerSteps
  <2> QED
    BY <2>1 DEF Served, GoesOn, RowsGoOn
<1>2. ASSUME NEW c \in Calls, GetMeArrives(c)
      PROVE  OneInterval'
  BY <1>2 DEF GetMeArrives
<1>3. ASSUME NEW c \in Calls, CallThrows(c)
      PROVE  OneInterval'
  BY <1>3 DEF CallThrows
<1>4. ASSUME NEW c \in Calls, UploadReturns(c)
      PROVE  OneInterval'
  BY <1>4 DEF UploadReturns
<1>5. ASSUME NEW c \in Calls, DeleteReturns(c)
      PROVE  OneInterval'
  BY <1>5 DEF DeleteReturns
<1>6. ASSUME NEW c \in Calls, DeleteAccountReturns(c)
      PROVE  OneInterval'
  BY <1>6 DEF DeleteAccountReturns
<1>7. ASSUME NEW c \in Calls, Discarded(c)
      PROVE  OneInterval'
  BY <1>7 DEF Discarded
<1>8. ASSUME NEW c \in Calls, Poll(c)
      PROVE  OneInterval'
  BY <1>8 DEF Poll
<1>9. ASSUME NEW c \in Calls, NEW url \in Accounts \union {None}, Mount(c, url)
      PROVE  OneInterval'
  BY <1>9 DEF Mount
<1>10. ASSUME NEW c \in Calls, NEW f \in Files, UploadFile(c, f)
      PROVE  OneInterval'
  BY <1>10 DEF UploadFile
<1>11. ASSUME NEW c \in Calls, NEW f \in Files, DeleteFile(c, f)
      PROVE  OneInterval'
  BY <1>11 DEF DeleteFile
<1>12. ASSUME NEW c \in Calls, NEW a \in Accounts, HandleChangeAccount(c, a)
      PROVE  OneInterval'
  BY <1>12 DEF HandleChangeAccount
<1>13. ASSUME NEW c \in Calls, DeleteAccount(c)
      PROVE  OneInterval'
  BY <1>13 DEF DeleteAccount
<1>14. ASSUME NEW c \in Calls, UpdateLimits(c)
      PROVE  OneInterval'
  BY <1>14 DEF UpdateLimits
<1>15. CASE Unmount
  BY <1>15 DEF Unmount
<1>16. CASE Reload
  BY <1>16 DEF Reload
<1>17. CASE HandleVisibilityChange
  BY <1>17 DEF HandleVisibilityChange
<1>18. ASSUME NEW a \in Accounts, NEW f \in Files, ElsewhereUploads(a, f)
      PROVE  OneInterval'
  BY <1>18 DEF ElsewhereUploads
<1>19. ASSUME NEW a \in Accounts, ElsewhereSaves(a)
      PROVE  OneInterval'
  BY <1>19 DEF ElsewhereSaves
<1>20. ASSUME NEW f \in Files, ElsewhereDeletes(f)
      PROVE  OneInterval'
  BY <1>20 DEF ElsewhereDeletes, Drops
<1>21. CASE UNCHANGED vars
  BY <1>21 DEF vars
<1> HIDE DEF serverVars, storeVars, pageVars, pollVars, PageOK, OneInterval,
           StopPolling, StartPolling
<1> QED BY <1>1, <1>2, <1>3, <1>4, <1>5, <1>6, <1>7, <1>8, <1>9, <1>10,
     <1>11, <1>12, <1>13, <1>14, <1>15, <1>16, <1>17, <1>18, <1>19, <1>20,
     <1>21
     DEF Next, Serve, Return, User

(* A page that has got its account is polled for.                          *)
LEMMA KeepsReadyPolled ==
  ASSUME ServerOK,
         CallsOK,
         StoresOK,
         PageOK,
         ReadyPolled,
         [Next]_vars
  PROVE  ReadyPolled'
<1> USE DEF serverVars, storeVars, pageVars, pollVars
<1> USE DEF CallsOK, StoresOK, PageOK, ReadyPolled, StopPolling, StartPolling,
           Occurs
<1>1. ASSUME NEW c \in Calls, Serve(c) \/ Errs(c) \/ Lost(c)
      PROVE  ReadyPolled'
  <2>1. Served(c)
    BY <1>1, ServerSteps
  <2> QED
    BY <2>1 DEF Served, GoesOn, RowsGoOn
<1>2. ASSUME NEW c \in Calls, GetMeArrives(c)
      PROVE  ReadyPolled'
  <2>1. Becomes(c, NoCall)
    BY <1>2, IsFreed DEF GetMeArrives
  <2> QED
    BY <1>2, <2>1 DEF GetMeArrives, Becomes, NoCall, CallOfPage
<1>3. ASSUME NEW c \in Calls, CallThrows(c)
      PROVE  ReadyPolled'
  <2>1. Becomes(c, NoCall)
    BY <1>3, IsFreed DEF CallThrows
  <2> QED
    BY <1>3, <2>1 DEF CallThrows, Becomes, NoCall, CallOfPage
<1>4. ASSUME NEW c \in Calls, UploadReturns(c)
      PROVE  ReadyPolled'
  <2>1. Becomes(c, Request("getMe", accountId, None, {}))
    BY <1>4, AsksMe DEF UploadReturns, Continuations
  <2> QED
    BY <1>4, <2>1 DEF UploadReturns, Becomes, Request, CallOfPage
<1>5. ASSUME NEW c \in Calls, DeleteReturns(c)
      PROVE  ReadyPolled'
  <2>1. Becomes(c, Request("getMe", accountId, None, {}))
    BY <1>5, AsksMe DEF DeleteReturns, Continuations
  <2> QED
    BY <1>5, <2>1 DEF DeleteReturns, Becomes, Request, CallOfPage
<1>6. ASSUME NEW c \in Calls, DeleteAccountReturns(c)
      PROVE  ReadyPolled'
  <2>1. Becomes(c, Request("getMe", None, None, {"setAccountId"}))
    BY <1>6, AsksMe DEF DeleteAccountReturns, Continuations
  <2> QED
    BY <1>6, <2>1 DEF DeleteAccountReturns, Becomes, Request, CallOfPage
<1>7. ASSUME NEW c \in Calls, Discarded(c)
      PROVE  ReadyPolled'
  <2>1. Becomes(c, NoCall)
    BY <1>7, IsFreed DEF Discarded
  <2> QED
    BY <1>7, <2>1 DEF Discarded, Becomes, NoCall, CallOfPage
<1>8. ASSUME NEW c \in Calls, Poll(c)
      PROVE  ReadyPolled'
  <2>1. Becomes(c, Request("getMe", accountId, None, {}))
    BY <1>8, AsksMe DEF Poll, Continuations
  <2> QED
    BY <1>8, <2>1 DEF Poll, Becomes, Request, CallOfPage
<1>9. ASSUME NEW c \in Calls, NEW url \in Accounts \union {None}, Mount(c, url)
      PROVE  ReadyPolled'
  <2>1. CASE accountId' = None /\ Becomes(c, Request("getMe", None, None, {"setAccountId", "startPolling"}))
    BY <1>9, <2>1 DEF Mount, Becomes, Request, CallOfPage
  <2>2. CASE accountId' # None /\ Becomes(c, Request("getMe", accountId', None, {"startPolling"}))
    BY <1>9, <2>2 DEF Mount, Becomes, Request, CallOfPage
  <2>3. accountId' \in Accounts \union {None}
    BY <1>9 DEF Mount
  <2>4. CASE accountId' = None
    BY <1>9, <2>1, <2>4, AsksMe DEF Mount, Continuations
  <2>5. CASE accountId' # None
    BY <1>9, <2>2, <2>3, <2>5, AsksMe DEF Mount, Continuations
  <2> QED
    BY <2>4, <2>5
<1>10. ASSUME NEW c \in Calls, NEW f \in Files, UploadFile(c, f)
      PROVE  ReadyPolled'
  <2>1. Becomes(c, Request("uploadFile", accountId, f, {}))
    BY <1>10, Asks DEF UploadFile, Continuations
  <2> QED
    BY <1>10, <2>1 DEF UploadFile, Becomes, Request, CallOfPage
<1>11. ASSUME NEW c \in Calls, NEW f \in Files, DeleteFile(c, f)
      PROVE  ReadyPolled'
  <2>1. Becomes(c, Request("deleteFile", accountId, f, {}))
    BY <1>11, Asks DEF DeleteFile, Continuations
  <2> QED
    BY <1>11, <2>1 DEF DeleteFile, Becomes, Request, CallOfPage
<1>12. ASSUME NEW c \in Calls, NEW a \in Accounts, HandleChangeAccount(c, a)
      PROVE  ReadyPolled'
  <2>1. Becomes(c, Request("getMe", a, None, {"setAccountId"}))
    BY <1>12, AsksMe DEF HandleChangeAccount, Continuations
  <2> QED
    BY <1>12, <2>1 DEF HandleChangeAccount, Becomes, Request, CallOfPage
<1>13. ASSUME NEW c \in Calls, DeleteAccount(c)
      PROVE  ReadyPolled'
  <2>1. Becomes(c, Request("deleteAccount", accountId, None, {}))
    BY <1>13, Asks DEF DeleteAccount, Continuations
  <2> QED
    BY <1>13, <2>1 DEF DeleteAccount, Becomes, Request, CallOfPage
<1>14. ASSUME NEW c \in Calls, UpdateLimits(c)
      PROVE  ReadyPolled'
  <2>1. Becomes(c, Request("getMe", accountId, None, {}))
    BY <1>14, AsksMe DEF UpdateLimits, Continuations
  <2> QED
    BY <1>14, <2>1 DEF UpdateLimits, Becomes, Request, CallOfPage
<1>15. CASE Unmount
  BY <1>15 DEF Unmount
<1>16. CASE Reload
  <2>1. /\ call' \in [Calls -> CallOfPage]
        /\ \A d \in Calls : call'[d] = NoCall \/ Kept(d)
    BY <1>16, Reloads
  <2> QED
    BY <1>16, <2>1 DEF Reload, NoCall, Kept
<1>17. CASE HandleVisibilityChange
  BY <1>17 DEF HandleVisibilityChange
<1>18. ASSUME NEW a \in Accounts, NEW f \in Files, ElsewhereUploads(a, f)
      PROVE  ReadyPolled'
  BY <1>18 DEF ElsewhereUploads
<1>19. ASSUME NEW a \in Accounts, ElsewhereSaves(a)
      PROVE  ReadyPolled'
  BY <1>19 DEF ElsewhereSaves
<1>20. ASSUME NEW f \in Files, ElsewhereDeletes(f)
      PROVE  ReadyPolled'
  BY <1>20 DEF ElsewhereDeletes, Drops
<1>21. CASE UNCHANGED vars
  BY <1>21 DEF vars
<1> HIDE DEF serverVars, storeVars, pageVars, pollVars, CallsOK, StoresOK,
           PageOK, ReadyPolled, StopPolling, StartPolling, Occurs
<1> QED BY <1>1, <1>2, <1>3, <1>4, <1>5, <1>6, <1>7, <1>8, <1>9, <1>10,
     <1>11, <1>12, <1>13, <1>14, <1>15, <1>16, <1>17, <1>18, <1>19, <1>20,
     <1>21
     DEF Next, Serve, Return, User

(* The invariant holds at the start.                                       *)
LEMMA InitInvariant == Init => IInv
<1> SUFFICES ASSUME Init PROVE IInv
  OBVIOUS
<1> USE DEF Init
<1>1. use \in Uses /\ events \in 0..MaxEvents
  OBVIOUS
<1>2. CallsOK
  BY DEF CallsOK, NoCall, CallOfPage, Continuations
<1>3. StoresOK /\ ServerOK /\ PageOK
  BY DEF StoresOK, ServerOK, PageOK
<1>4. ListedOnce /\ UploadsNew /\ OnlyKnown /\ UploadsCalled
  BY DEF ListedOnce, UploadsNew, OnlyKnown, UploadsCalled, NoCall
<1>5. OneInterval /\ ReadyPolled
  BY DEF OneInterval, ReadyPolled, NoCall
<1> QED
  BY <1>1, <1>2, <1>3, <1>4, <1>5 DEF IInv

(* Every step keeps the invariant.                                         *)
LEMMA StepInvariant == IInv /\ [Next]_vars => IInv'
<1> SUFFICES ASSUME IInv, [Next]_vars PROVE IInv'
  OBVIOUS
<1> USE DEF IInv
<1>1. use' \in Uses /\ events' \in 0..MaxEvents
  BY KeepsBounds
<1>2. CallsOK' /\ StoresOK'
  BY KeepsCalls, KeepsStores
<1>3. ServerOK' /\ PageOK'
  BY KeepsServer, KeepsPage
<1>4. ListedOnce' /\ UploadsNew'
  BY KeepsHolders, KeepsUploadsNew
<1>5. OnlyKnown'
  BY StaysKnown, KeepsOnlyKnown
<1>6. UploadsCalled' /\ OneInterval' /\ ReadyPolled'
  BY KeepsUploadsCalled, KeepsOneInterval, KeepsReadyPolled
<1> QED
  BY <1>1, <1>2, <1>3, <1>4, <1>5, <1>6

(***************************************************************************)
(* Theorems.                                                               *)
(***************************************************************************)

(* The invariant holds in every state, whatever users do, in whatever      *)
(* order requests are served and answered.                                 *)
THEOREM Invariance == Spec => []IInv
<1>1. Init => IInv
  BY InitInvariant
<1>2. IInv /\ [Next]_vars => IInv'
  BY StepInvariant
<1> QED
  BY <1>1, <1>2, PTL DEF Spec

(* The stores, the timers and the requests are of their types; what the    *)
(* page lists the server lists or has listed, no file is listed again once *)
(* it was deleted, and what is shown as uploading has a request that the   *)
(* page waits for.                                                         *)
THEOREM TypeCorrect == Spec => []StoresTypeOK
<1>1. IInv => StoresTypeOK
  BY DEF IInv, StoresTypeOK, CallsOK, CallOfPage, StoresOK, ServerOK, PageOK, ListedOnce,
         OnlyKnown, Known, UploadsCalled
<1> QED
  BY <1>1, Invariance, PTL

(* There is one interval at most and the service can stop it, and a page   *)
(* in sight that has got its account is polled for, however mounts, slow   *)
(* answers of earlier mounts and visibility changes interleave.            *)
THEOREM PollingFollows == Spec => []PollingFollowsPage
<1>1. IInv => PollingFollowsPage
  BY DEF IInv, PollingFollowsPage, OneInterval, ReadyPolled, PageOK
<1> QED
  BY <1>1, Invariance, PTL

=============================================================================
