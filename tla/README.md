# Bindle in TLA+

Bindle is a file sharing service: a Go server (`src/bindle-server`) that keeps
encrypted files in a directory or an S3 bucket and their records in SQLite, and a
Svelte client (`src/bindle-client`) that uploads files in chunks. This directory holds
TLA+ modules of the parts of it that are concurrent or that can fail halfway, the
TLC runs that check them on small instances, and proofs, checked by TLAPS, of what
matters most about them.

## The system

| Component | State | Operations | Talks to |
|---|---|---|---|
| Chunked upload handlers (`internal/handlers/chunks.go`) | `upload_sessions` rows (status, layout, expiry), `uploaded_files` rows | init, upload chunk, complete, abort | database, storage backend, quota |
| Filesystem storage (`internal/storage/storage_filesystem.go`) | map of sessions, open file and received set per session, `.part` and published files | save, open, delete a file; init, save chunk, finalize, abort an upload | disk, streaming encryption |
| S3 storage (`internal/storage/storage_s3.go`) | map of sessions, ETag per part; in the bucket: multipart uploads, parts, objects | the same | object store, spool files, streaming encryption |
| Streaming encryption (`pkg/utils/stream_crypto.go`) | a reader's bytes left, frame index and buffer | seal the next frame, open the next frame | AES-GCM |
| Upload client (`services/chunkUploadService.ts`) | chunk counter, failure, abort signal, retries left | open, upload chunks with four workers, retry, complete, abort | the handlers, over HTTP |
| File handlers (`handlers/files.go`, `account.go`, `admin.go`) | `uploaded_files` and `users` rows, objects that rows share | upload, rename, delete a file; delete an account; delete one, a user's or all files | database, storage backend |
| Download (`files.go` `GetFile`, `storage_decrypt.go`) | none | pick a reader by the row, stream | storage backend, readers |
| Legacy readers (`streaming_decryption.go`, `file_encryption.go`) | a reader's buffer | read | AES-GCM |
| Quota (`pkg/limiter`) | none of its own: sums over files and sessions of connected accounts | throttle?, used bytes | database, unlock cookie |
| Accounts (`middleware/auth.go`, `handlers/account.go`) | `users`, `account_ip_connections` | get or create, get me | database |
| Unlock cookie (`pkg/unlock`), admin key (`middleware/admin_auth.go`) | none | sign, verify | - |
| Client stores and polling (`accountService.ts`, `fileService.ts`, `syncService.ts`, stores, `+page.svelte`) | account id, account, file list, upload list; polling flag and interval | get me, upload, delete, change or delete the account, poll, start and stop polling | the handlers, over HTTP |

A request runs in a goroutine of its own. What makes the system hard is that no lock or
transaction spans a handler: a handler loads a row, calls the storage, and writes back
the row it loaded, while other requests for the same session or file do the same; the
storage's map is locked for single lookups; the state of an upload in progress is half in
the database, half in memory and half on disk, and a restart loses the middle one; and
the client retries what it got no answer for.

What makes each component correct:

- *Handlers and storage:* an object is published once and only whole, a listed file has
  its object, a completed session has its one row, an active session is usable, a session
  that is over leaves nothing behind, whatever is retried, raced or restarted.
- *Encryption:* every chunk is put where the whole file's reader looks for it; an
  undamaged object opens to its end, a damaged one fails rather than decode short or out
  of order.
- *Client:* every upload ends, leaves what the request it lost can leave and nothing
  else, and fails only for cause.
- *File rows:* an object lives exactly as long as some row points to it, and the row says
  what format it is in.
- *Quota:* the bytes an account stores in a day stay below the limit, also with
  concurrent inits.
- *Accounts:* one row per account id; connections form the closure the quota sums over.
- *Download:* a listed file is served whole, with the length it was promised with, and a
  response that was completed is the file, byte for byte.
- *Client stores:* what the page shows ends up as the server has it, and one timer at most
  asks for it.

The hazards, one by one and at their lines, are in `PROJECT.json`, with the properties
that watch them or the reason why none does.

## The modules

| Module | Models | Used by |
|---|---|---|
| `UploadStore` | what a chunked upload promises, abstractly | both backends |
| `ChunkHandlers` | `chunks.go` and the two tables it writes | both backends |
| `FilesystemStorage` | `storage_filesystem.go` under the handlers | `UploadClient` |
| `S3Storage` | `storage_s3.go` and the object store under the handlers | |
| `UploadClient` | `chunkUploadService.ts` over `FilesystemStorage` | |
| `ChunkLayout` | the arithmetic of chunks, frames and offsets | `StreamCrypto` |
| `StreamCrypto` | `stream_crypto.go`: sealing a file by chunks, damage, opening | `Download` |
| `Download` | `GetFile`, `storage_decrypt.go` and the readers of the formats before frames, over `StreamCrypto` | |
| `Quota` | `upload_limiter.go`, `auth.go`, `unlock.go`, and the rows that uploads and deletes leave in what the quota sums | |
| `ClientStores` | `accountService.ts`, `fileService.ts`, `syncService.ts`, the stores and the page's mounting, against the handlers' answers | |
| `FileStore` | `files.go`, `account.go` and the deletes of `admin.go` over shared objects | |
| `MC...` | the symmetry of a module's model values, for TLC; `MCFilesystemStorage` also divides the behaviours into those where nothing fails (`calm`) and the others | |
| `..._proofs` | theorems about the module; those about `ChunkLayout` and `Download` are in `StreamCrypto_proofs` | |
| `SumLemmas` | what the sum of a function over a finite set is | `Quota_proofs`, `StreamCrypto_proofs` |

**ChunkHandlers.** `row`, `files` and `overdue` are the two tables; `pc`, `sess` and
`chunk` say where each request in flight is. Every database statement is an action;
the places ending in `_call` are those where the handler has called the backend, whose
steps come from the module that extends this one. A handler's copy of the row is not a
variable of its own: what it writes back differs only in the status. `answered` records
what clients were told; it is read by `LoadActiveSession` because a client
knows a session id only from init's answer, and by properties. With `Faults` any
database or storage call may fail (a failed `db.Save` goes unnoticed, as in the code),
with `Restarts` the process may die at any point.

**FilesystemStorage.** `registered` is the uploads map, `open` and `received` belong to
the `fsUpload`, `disk` and `data` are the files. A request that got the pointer keeps
using the `fsUpload` after it left the map, as in the code: only `open` stops it. A chunk
is one frame written in `Pieces` writes by `io.Copy`, each a lock-free `pwrite` that
may be in flight while another request closes or renames the file; `data` holds the
nonce each piece was sealed under, so that a mix of two sealings is a frame that does not
open. Session ids are UUIDs and paths hashes of them: sessions share nothing else.

**S3Storage.** `registered` and `parts` are the server's memory; `multipart` and `bucket`
are the store's, a party of its own (its rules, that it takes a part whole, that the last
upload of a part wins and that it completes only against the ETags it holds, are external
knowledge). A call may be refused, or carried out and its answer lost. A streamed part
that failed is replayed from the spool if that holds it whole (`StreamFails`), else the
chunk fails (`NothingToReplay`).

**UploadStore.** A session is unopened, open, published, recorded or discarded; chunks
land while it is open; it is published when all have; answers must be justified by the
stage. `KeepsPromise` in both backends is `UploadStore!Spec` under a refinement mapping
that reads the stage off the disk or bucket and the landed chunks off the data there.

**UploadClient.** Composes the client with `FilesystemStorage`: the client's requests take
the place of the free ones. A client step runs from one `await` to the next. Every fetch
may lose its connection, those of init, complete and abort (`MainLost`) as those of the
chunks (`ConnectionDrops`): before the request reaches the server, or with the handler
under way or through, which goes on. `MaxDrops` bounds how often. Only chunks are retried;
a lost request of the main line ends the upload, and `lost` holds which it was. If
`Straggling` is FALSE a retry is not sent while a handler of the earlier attempt still
runs: that is the usual case, for the backoff is seconds, but nothing in the code
ensures it, and `client_restarts` drops the assumption.

**ChunkLayout, StreamCrypto.** The arithmetic as pure operators, and the readers that use
it. A frame is a record of where it lies, the index it was sealed under and which bytes
of the file it holds, and whether it is the file's own. AES-GCM is modelled by what it
gives here, where the index is all that is authenticated and all files share a key: a
frame opens if it is whole and under the index it was sealed with, whichever file that
was for. Damage is a cut, a changed frame, two frames that trade places, or a frame of
another file. `right` says whether all that was returned is the file's own and in its
place.

**FileStore.** `live`, `path`, `owner` and `reader` are the `uploaded_files` rows (a
deleted row keeps its place, as gorm's soft delete does), `blob` the objects. Every
statement and storage call of a request is an action. `use` holds the kinds of requests
and faults that occur in a behaviour, so that each property can name the ones it does
not survive. A rename is `db.Save`, which inserts a row that was deleted since it was
loaded; so is the middleware's write of LastLogin (`SaveUser`), by which a request that
had found an account brings it back after its deletion. Completes of chunked uploads appear as what they do here: publish an object
at a path of its own, then create a row for it.

**Download.** `format`, `written`, `length` and `spoiled` are the object. `reader` is the
one `GetFile` has got: a file may have no row, the row of a single upload (no version, no
chunk count) or that of a chunked one (`Rows`), and the reader follows from the row alone
(`Selected`), so that a single upload sealed in frames is given to the reader of files
sealed whole. Frames are opened by the actions of `StreamCrypto`, the legacy formats by
those here: a chunk, or the whole file, opens if what was read for it is one sealed piece.
The handler reads as far as its purpose takes (a header, a byte, then as much as it has
promised); `phase` is that purpose or how it has answered. A byte is named by its place in
what the reader returns: `taken` of them have been read, `front` are those put back before
the reader, `body` is what was sent. That the connection is closed on a body shorter than
its Content-Length is fasthttp's rule.

**Quota.** `user` and `connections` are the account tables, `session`, `file`, `owner`,
`size` the upload tables reduced to what is summed; `overdue` and `old` are the sessions
past their expiry and the files past their day. A request runs through `AuthMiddleware`
(find, create, save, connect) and then its handler; the save, of a row that is a minute
old or new, inserts an account again that was deleted since it was found; in the check, each round of the walk is two
queries and each sum one, all of them steps. Reading the database and the storage's part
in completes and aborts are reduced to whether the storage still has the session (`open`).
`use` holds which requests and conditions occur; `overlaps` and `roaming` restrict what
comes when, so that a property can say what it does not survive.

**ClientStores.** `call` holds the page's requests in flight, where each is and what is to
follow its answer (`next`). The server serves a request in steps: it looks the account up,
creates it or refuses the id, saves it (which may bring back one that was deleted
meanwhile), and then runs the handler; a deletion of an account lists its files, deletes
those one by one, and then the account. So a file can be listed for an account whose files
were listed before, and stays under it. An upload is its last request here, the one that
creates the row. A snapshot is taken when its handler runs, and answers arrive in any
order. After a reload, or when the page has lost a request, the server goes on with it and
nobody waits (`awaited`). `accountId` is also localStorage, which `setAccountId` writes
with it. `timers` are the browser's intervals, `interval` and `active` what the service
believes of them. `deleteAccount` is answered with a body that is JSON or is not, which
decides what follows. Users' actions, other devices and lost answers are bounded by
`MaxEvents`; mounting, leaving, hiding and polling are not.

## The runs

| Run | Bounds | Question |
|---|---|---|
| `fs` | 1 session, 2 chunks, 3 requests, 4 nonces, faults, restarts | Do the row, the object and the answers stay in step when calls fail and the server dies? Does the backend implement `UploadStore`? Is `IInv` an invariant? And where nothing fails, do racing chunks, completes and aborts ever spoil an active session or leave a handle or `.part` behind? |
| `client` | 2 chunks, 2 workers, 1 retry, 2 drops of any fetch, 2 writes per chunk | Does every upload end, with nothing left but what a lost request explains, and fail only for cause? |
| `client_restarts` | the same, 1 drop, faults, restarts, expiry, stragglers | Does every upload end, and is a reported success real? |
| `stream_sizes` | frames of 2 bytes, chunks of 4, sizes 1 to 9; legacy chunks of 2, 4 and 8 | Do chunks stay apart, fill the object and open as one stream; does damage show; is a stored file served, and is what was served the file? |
| `stream_splice` | 1 size of two frames | (violated) Does a frame of another file fail to open? |
| `files` | 2 rows, 1 owner, 3 requests, 3 mixes of requests | Does a listed file keep its object, and no object outlive its rows? |
| `files_direct` | 1 row, 1 request | (violated) Does a row say what format its object is in? |
| `s3_faults` | 1 session, 2 parts, 3 requests, 3 ETags, faults, restarts | As the first three of `fs`, for S3. |
| `s3_etag_race` | 1 part, 2 requests | (violated) Does the server know the ETag of the part the store holds? |
| `quota` | 2 accounts, 2 addresses, 2 uploads of 1 or 2 against a limit of 3, 2 requests, 10 mixes of requests | Does the walk find the pool, is an upload charged once, is the limit kept? |
| `quota_race` | 1 account, 2 inits | (violated) Does counting sessions keep concurrent inits below the limit? |
| `client_stores` | 2 accounts, 2 files, 2 calls in flight, 3 events, 7 mixes of events | Is there one interval at most, does it run while it should, and does the page end up with the server's list? |

*Why the bounds are enough.* Sessions touch only state of their own, so one session shows
all its races. Two chunks distinguish some from all; three requests allow a complete, an
abort and a chunk, or a chunk, its retry and a complete, at once, and every request ends
and makes room for the next. Nonces and ETags are as many as can be in use at once, less
the rarest coincidences: a request for which none is left waits, which bounds the
retries in flight and nothing else. In `stream_sizes` the sizes
cover one frame short, full and one over, one chunk short, full and one over, and a third
chunk; the theorems cover the rest. Two rows suffice for an object that is shared or not;
the third request of `files` stands for the one that acts between two steps of two
others. In `client` two drops are one more than a chunk's retries, so that an upload fails
by its chunks, and one drop can meet the main line while another meets a chunk. In `quota`
two uploads together fill the limit and one does not; two accounts and addresses make the
shortest chain that takes a second round of the walk, and each mix holds the requests that
race over one thing. In `client_stores` two calls in flight can overtake each other, and
three events are an upload, its delete and a change of the account or elsewhere; two
timers are enough to see a second. `MaxRetries` is 1 and not 5: with 2 drops a chunk can
run out of retries, and all that depends on the number is when.

*Deadlock* is not checked: a server with no requests, and a client that is done, stop.

*Fairness.* `ClientSpec` and `ClientStores` assume some. `ClientSpec`: weak fairness of the client's main line, of
each worker, and of the steps of each request that is being served. The event loop runs
every callback that is ready, and the Go scheduler every goroutine. No fairness is
assumed of connections that drop, of bodies that end early, of restarts or of the clock.
`ClientStores`: weak fairness of serving each call, of handing over each answer, and of an
interval's firing while it runs and the page is in sight. Nothing is assumed of users.

### What the runs show

The code keeps what it is built to keep: a published object is whole, one row lists it,
that row has its object, a completed session has its row, with failing calls and restarts
too, and for both backends. On the filesystem this rests on one thing: `Close` succeeds
once per session, and so admits one of several completes to the rename (`OnePublisher`);
on S3 it rests on the store completing an upload once.

The client always comes to an end. If the server neither fails nor restarts, and no request
of its main line is lost, it leaves a listed file or nothing and knows which. It does not
know if one is lost, for none of them is asked again: a lost init may leave an open session
that nobody uses, a lost complete a file that is listed although the upload was reported as
failed, or a whole upload that nobody completes, and a lost abort an open session with its
`.part` file. `CleanOutcome` says that these are all; such a session keeps its bytes
reserved until it expires.

The walk finds every account that was linked to the address when it began, and no other
that is not linked when it ends. The page's list and account always come back to the
server's while an interval runs, however stale the answers were that it got.

A completed response is the file's bytes, each once and in their order, whatever the
handler has read ahead and put back.

Four things the repository says of itself do not hold: the violation runs, which
`PROJECT.json` lists as findings with the line that says so. A row of a single upload
selects the wrong reader; a frame of another file that is put in at its own index opens,
because the index is all it is authenticated against; the ETags of a retried part can be recorded in the wrong order,
after which the session cannot be completed; and inits that are sent together all pass the
quota's check, which counting sessions was to prevent.

*Premises.* `ActiveIsUsable` and `NoLeftovers` hold without faults and restarts only; the
code has no recovery for either. The run `fs` asks them of its calm behaviours
(`CalmStaysUsable`, `CalmLeavesNothing`), in which every step is one of the module with
`Faults` and `Restarts` FALSE. `RowHasObject` of `FileStore` excludes failing lookups,
renames, and single uploads of the same content; `NoOrphans` excludes failing lookups,
other failing calls, restarts, `DeleteAllFiles`, and renames together with an owner's
delete. Each exclusion is needed: with any one of them admitted TLC finds a behaviour that
breaks the property (the hazards say which). `PublishedFileOpens` is checked with the
client and without failing writes or stragglers: a retry whose write fails halfway over a
stored chunk would break it, and so would a handler that goes on writing a chunk beside its
retry.

`FailsOnlyByDrops` is about an upload that was opened and lost neither its init nor its
complete: either loss alone fails it. `BytesInPlace` is stated of objects without a frame
of another file; `NoneSplicedIn` is that statement without the condition, and is violated.

`StoredIsServed` is about files whose row selects the reader of their format, which the
row of a single upload since there are frames does not (`RowsReadable`). Of the others it
excludes two kinds of legacy files, which are never served to their end:
those that were sealed whole, because the promised length is their object's
(`CalculateDecryptedSize`), and those sealed by chunks of another size than is configured
now. `NothingShort` excludes a legacy object of chunks that was cut, and says nothing of
whose the bytes are where a frame of another file was put in.

`QuotaKept` is what remains of the limit. It excludes checks that overlap another check, a
complete, or the deletion of an account; accounts that move between addresses, for pools
that each kept the limit may merge; connections that could not be recorded; where
sessions run out, completes, which do not look at the expiry; and, where there are sessions
at all, the deletion of accounts: `DeleteAccount` removes the connections of the account and
leaves its sessions active, and a request of the account that is under way may revive and
connect it again after another account was let through against the room. `WalkFindsPool` excludes the
deletion of accounts, `ChargedOnce` failing calls and restarts. Uploads admitted under the
unlock cookie do not count against the limit that is stated; they do in the code's sums.

`StoresTypeOK` leaves open whether a listed file's account is live: the code lets one be
listed under a deleted account. `ListConverges` is about pages in sight with an interval and
an account that is live. Two ways to be without one are the code's: polling that is started while the page
is hidden has no interval, and counts as running when the page is shown; and after
`deleteAccount` nothing starts polling again if a visibility change has stopped it, which
`PollingFollowsPage` excludes. An account without files that is deleted stays the page's
account, for the answer is not the JSON the page expects. All of these exclusions are
needed: TLC finds a violation without each.

## The proofs

TLC looks at small instances; TLAPS proves the following for every value of the constants
that meets the named assumptions (`HandlersAssumption`, `FilesystemAssumption`,
`S3Assumption`, `ClientAssumption`, `LayoutAssumption`, `StreamAssumption`,
`DownloadAssumption`, `FilesAssumption`, `QuotaAssumption`, `StoresAssumption`): finite
nonempty chunk sets, at least one write per frame, a chunk size that is a multiple of the
frame size, positive file sizes, an integer limit, at least one worker, and a `None` that is
no account, file, path or request. TLC evaluates each of them in a run.

**`FilesystemStorage_proofs`** proves `Spec => []IInv`, and from it `TypeOK`,
`PublishedIsComplete`, `OneRowPerSession`, `RowHasObject`, `CompletedIsStored` and the
refinement `Spec => KeepsPromise`. The properties are not inductive as they stand; `IInv`
adds

- `SlotsAgree`: a busy slot has a session, and a chunk, nonce and write count that fit
  its place;
- `CreatedAlone`: until init has answered, nobody else acts on the session, so that
  creating the `.part` file cuts nothing another request has written;
- `HandleOnPart`: an open handle implies that the `.part` file is where it was created,
  so that an abort never removes a file someone may still publish through the handle;
- `ReceivedIsWritten`: a chunk counts as received only with all pieces written, and a
  request past the count has seen all chunks received;
- `OnePublisher`: of the requests for a session at most one is between `Close` and its
  row, with the file closed and no row yet.

There is one lemma per group of conjuncts, one step per action in it. The refinement
proof shows for each action that it is one step of `UploadStore` or leaves the mapped
variables alone; `IInv` supplies the guards (`received = Chunks` before a publish,
`files = 0` before a record).

`ActiveIsUsable` and `NoLeftovers`, which is what `CalmStaysUsable` and `CalmLeavesNothing`
say of a calm behaviour, hold without faults and restarts and rest on a second
invariant, `SettledInv`: an active session can take chunks or a request will make it so or
mark its row (`SeenTo`); a removed `.part` file of an active session is an abort's, which
marks the row next (`RemovedByAbort`), so that a rename fails only behind an abort; and what
is open or on disk outside the map is being registered or cleared away (`LeftToSomeone`).

**`S3Storage_proofs`** proves the same of the S3 backend: `Spec => []IInv`, from it
`ObjectIsComplete` and the three properties of the rows, and `Spec => KeepsPromise`. Its
`IInv` is shorter, for the store does in one step what takes the filesystem backend
several: `OneRecorder` says that the request between the store's completion and the row
is the only one, because an upload is completed only while it is open; `SlotsAgree` that
the list a finalize goes on with has an ETag for every chunk, and the store completes
against that list alone.

**`UploadClient_proofs`** is about the client composed with the handlers and the
filesystem backend, and has two invariants.

`ClientIInv` holds whatever fails. Together with the backend's `IInv` it is inductive, and
from the two follow `ClientTypeOK`, `SucceededIsListed` and `ClientSpec => Spec`: a client's
step is a step of the backend's specification or leaves its variables alone, so that
the theorems about the backend, the refinement of `UploadStore` among them, hold of the
composition. It says that a fetch belongs to the main line or to one worker, who waits for
it as long as its handler runs (`FetchesOwned`, `FetchesServed`); that no two workers have
the same chunk and none has one the counter has not given out (`OwnChunks`); and that a
complete is answered 200 only once the file is listed (`CompletesHonestly`).

`SmoothIInv` is about an upload that dropped connections trouble, of whichever fetch, and
nothing else, which is `Smooth`: no faults, no restarts, no straggling handlers and no upload that outlasts its
session's 24 hours, the constants of `client.cfg`. `CompleteFindsAll`, `CleanOutcome`,
`FailsOnlyByDrops` and `PublishedFileOpens` are promises of that case only; the theorems say
`Smooth => (ClientSpec => []...)`, for any number of chunks, workers, retries and drops. Its
parts are `OneCarrier` (one handler at a time carries a chunk, and its worker waits for it
or backs off until it is through), `InStep` (what the main line knows of the session by
where it is, and where a failed upload has left it by the request it lost, whose handler
may still be at it: `FailedWhere`), `NoneLost` (every chunk the counter has given out has been received or is in a
worker's hands, and workers exit only after all are given out), `DropsCounted` (each retry
used up took a drop, and only a lost request or the workers' giving up ends an upload) and `FramesWhole` (a received chunk is of one sealing unless the retry
that overwrites it is under way, which a complete has waited for).

**`FileStore_proofs`** proves `Spec => []IInv`, `TypeOK`, `RowHasObject` and `NoOrphans`.
Both properties are about what concurrent deletes of rows with one object do between their
steps, and need to know what is in each request's hands: `InHand` says that a delete's path
is that of its row, `PublishedAlone` that a published object is its request's alone until
the row is there, `RemovesUnlisted` that what is about to be removed is not listed and will
not be, and `SomeoneTends` that an object that is not listed is in the hands of a request
that will list it or ask whether anybody does. The last holds because rows go before the
question is asked: of several deletes, the one whose row goes last asks after all of them.
`NothingMissed` closes the case of a delete without a path, which happens only if it deletes
nothing.

**`Quota_proofs`** proves `Spec => []IInv`, `TypeOK`, `WalkFindsPool` and `ChargedOnce`. The
walk alternates two queries while other requests connect accounts and addresses.
`WalkComplete` says that all it has asked about before the current round has led it to
everything linked to that when the walk began; at the end nothing is left to ask about, so
what it has seen is closed under the links of the beginning. `WalkSound` says that all it
has found lies in every closed set of the links there are now; links are only added, and a
set closed under more links is closed under fewer. An account that comes back by a late save adds no links. `ChargedOnce` needs that a session's
requests keep to the upload they name (`UploadsNamed`, `KindsAgree`) and is then inductive.

`QuotaKept` rests on a second invariant, `QuietInv`, which is stated for the conditions that
`QuotaKept` names (`Quiet`). That the limit is kept now says nothing of the row a check is
about to add; what does is that the sum it took is still no less than what is charged
(`Room`: what a request has been let through with fits beside it). That is so because the
check has seen everybody and missed nothing: whoever has an upload is connected to its
address, or is a deleted account that has none (`HoldersLinked`, `Emptied`), and so is
whoever is checked (`CheckersLinked`); hence the first query of a walk finds all of them and
what the first sum has counted stays counted (`WalksCover`); no other check, no complete and
no deletion of an account comes in between (`ChecksApart`), and no reservation comes back,
for what is open has an active session and a status is written back over one that is no
longer open (`SessionsAgree`). An account has one address there (`OneHome`), so that the
pool of an address is who is connected to it. Completed and reserved bytes are two queries,
and what an upload is charged may move from one to the other: the sum of the union of the
two sets is no more than the two sums, which is `SumUnion`.

**`SumLemmas`** proves what the quota and the parts need to know of a sum over a finite set:
that one element can be taken out (`SumWithout`), that a larger set has no smaller sum
(`SumMonotone`), that a union has no more than its parts (`SumUnion`). The community modules
define such a sum by a recursive function on the subsets that takes a chosen element first.
The induction over the set is done without an induction rule: of the subsets that a lemma
would fail for one is smallest (`SmallestSubset`), which follows from the library's theorem
that strict inclusion on finite sets is well-founded, and that one cannot be.

**`ClientStores_proofs`** proves `Spec => []IInv`, `StoresTypeOK`, which says also that the
page lists only what the server lists or has listed, and `PollingFollowsPage`. `OneInterval`
and `ReadyPolled` carry the second: a page that got its account has an id to poll for, as
has every answer under way that will start polling, and it is polled for unless it is out of
sight and the service has been told. `ListedOnce` and `UploadsNew` say that a deleted file
is not listed again and that two uploads on their way never bring the same file, nor one
that was deleted; `UploadsCalled` that what is shown as uploading has a request the page
waits for. A step of the server moves one request on, and touches rows only in the ways
that `ServedRows` lists.

**`StreamCrypto_proofs`** begins with the arithmetic of `ChunkLayout`: a chunk starts on the
whole file's frame grid (`ChunkOnGrid`), chunks tile the file (`ChunksTile`), both readers
agree on each frame's length (`FrameLengthsAgree`), every frame belongs to a chunk
(`EveryFrameSealed`), and the lengths the S3 backend announces its parts with add up to the
length of the file sealed at once (`PartsAddUp`), which is what a download takes it for.

It proves `Spec => []StreamInv` and from it the properties of
`StreamCrypto` but `NoneSplicedIn`. `StreamInv` says that sealing readers, stored frames and the opening
reader keep to one grid: the reader of chunk n seals frame i at i strides, frames on the
grid never overlap, so that what was received stays, and an undamaged object holds frame i
exactly where the opening reader looks for it.

The same module is about `Download`. `DownloadSpec => Spec` says that a download's
steps are steps of `StreamCrypto`, so that what is proved of frames and readers holds of
every download; `DownloadInv` adds what the handler and the legacy readers keep, and gives
`DownloadTypeOK`, `StoredIsServed` and `NothingShort`. `PiecesReturned` says that a legacy
reader has returned whole pieces from the file's beginning, `Picked` that a reader of frames or
chunks is picked only for a file sealed that way and that the promised length stands,
`WholeBeforeSent` that a file sealed whole is there before a byte of it is sent,
`CompleteWhenEnough` that a response is completed only with the promised bytes sent, and
`InHand` that what was sent and then what was put back are the reader's bytes that were
taken, in their order (`Straight`): from these the body of a completed response is the
file's, and `StreamInv` says of the reader's bytes whose they are.

*Model-checked only:* liveness (`Finishes`, `ListConverges`), because the prover does not do
fairness and ENABLED. Every other property of a passing run is a theorem, with the same
conditions.

## Not modelled

Of the client's stores, `updateFile` (a name, which nothing else depends on) and the
progress of uploads. The admin key is a stateless check, the statistics single queries, and
startup, configuration and the user interface are wiring and presentation. What the MIME
type found for a file is, and the form of account ids, are data no property is about. Rate
limiters only refuse requests, and a refused request is no step. Cryptography is an
assumption, not a model.

## Plan

Done, in this order: `ChunkLayout`, `UploadStore`, `ChunkHandlers`, `FilesystemStorage`
with its proofs and refinement, `UploadClient`, `StreamCrypto` with its proofs, `FileStore`,
`S3Storage` with its proofs and refinement, `Download` with the legacy readers, `Quota`
with accounts and the unlock cookie, `ClientStores`.

The proofs cover, in this order, the two backends and their refinements, the layout and the
streams, `FileStore`, the client over the filesystem backend, `ClientStores`, the walk and
the charges of `Quota`, `Download`, and the quota's limit.

Next: shorter proofs where several lemmas go through the same actions.
