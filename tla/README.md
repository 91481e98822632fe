# tunna in TLA+

tunna is an object store in one Go process: HTTP handlers over a blob store
(files) and a metadata store (SQLite), with API keys, multipart uploads and a
TypeScript SDK. This directory holds a TLA+ model of it, TLC instances that
check the model, and TLAPS proofs about it. Paths below are relative to the
repository; `uploads.go:245` is a line of `internal/httpapi/uploads.go` unless
a directory is given.

Run from this directory:

    tlc -config MCUploads.cfg MCServer      # any .cfg; its module is in the table below
    tlapm ServerProofs.tla

## 1. Inventory

| Part | State | Operations | What is hard about it |
|------|-------|------------|-----------------------|
| Blob store, `internal/disk` | one file per 128-bit random id | Create, Write at offset, Sync, Open, Remove | writes are not durable until fsync; the directory entry is never synced; open files outlive their unlink |
| Metadata store, `internal/sqlite` | tables buckets, objects, uploads, api_keys | one statement or one immediate transaction per call; `synchronous=FULL`, foreign keys on | what was read in one call is stale in the next |
| Object handlers, `objects.go` | the handler's local variables | putObject, getObject, deleteObject, listObjects | blob first, row last, old blob after; the reverse on delete; a GET between row and open |
| Bucket handlers, `buckets.go` | - | create, delete, patch, get, list | deleteBucket looks twice, then deletes |
| Upload handlers, `uploads.go` | a session row with its parts, one blob per session | createUpload, putUploadPart, completeUpload, deleteUpload, getUpload | parts of one blob written concurrently, resent, still in flight at complete or abort; expiry |
| API keys, `apikey.go`, `sqlite/keys.go` | one row per key | create, patch, rotate, delete, get, list; bootstrap at start | read-modify-write of whole rows across two calls |
| Authentication, `auth.go`, `httpapi.go`, `sig/` | none; one key lookup per request | the ladder of checks, HMAC over the canonical request | order of refusals, what they disclose; revocation while a request runs |
| CRC32C, `sig/combine.go` | none | combination of checksums | numeric |
| Listing, `sqlite/objects.go` | none | ListObjects, pagination | bytes and characters; pages under concurrent change |
| CORS, `cors.go` | parsed origins | ParseOrigins, Match | wildcards, default ports |
| Migrations, `sqlite/migrations.go` | user_version | migrate, applyOne | the version is read outside the transaction |
| Process, `cmd/tunna/main.go` | - | start, bootstrap key, 10 s graceful shutdown | a kill at any step |
| In-memory stores, `internal/memory` | maps under locks | as the SQLite stores | CompleteUpload in three critical sections |
| TypeScript SDK, `sdk/typescript` | one upload's progress | upload with workers, retries, abort; list page by page | lost answers, resends racing the first send |

Handlers run one goroutine per request and share nothing but the two stores.
The blob store and the metadata store know nothing of each other; the handlers
alone keep them consistent, by the order of their calls. That order is the
core of the program, so it is what is modelled first.

What makes each part correct:

- stores together: an object's row always points at an existing, durable file
  that holds the bytes its checksum says; a file belongs to one row; a file
  nobody refers to is removed; all of it across power loss and kills;
- objects: PUT, GET and DELETE are linearizable, atomic and durable;
- uploads: a part reported as received is on disk, a completed object is its
  parts in order, a session is completed or aborted once;
- buckets: nothing outlives its bucket;
- keys: stored keys keep their shape, a deleted key stays deleted, a rotated
  secret is dead;
- ladder: a request gets only what its key allowed, and learns nothing of a
  bucket it may not read, although keys and buckets change under it;
- listing: every key that was there throughout is yielded once, in order;
- SDK: an upload reported as done is an object with the source's bytes, size
  and checksum, a failed one leaves nothing, and every call ends.

`PROJECT.json` lists every component with its status, and every hazard with
the line where it bites and the properties that cover it.

## 2. Modules

| Module | Models | State |
|--------|--------|-------|
| `Params` | constants, bodies, fault names | - |
| `BlobStore` | `internal/disk/disk.go`, power loss of the file system | `link` (directory entry), `bytes` (page cache), `disk` (platter) |
| `MetaStore` | `internal/sqlite` buckets, objects, uploads | `buckets`, `objects`, `uploads` |
| `Requests` | a request in flight; steps common to handlers | `req`, `expired` |
| `ObjectHandlers`, `BucketHandlers`, `UploadHandlers` | `internal/httpapi/{objects,buckets,uploads}.go` | - |
| `Server` | all handlers, `Kill`, `Crash`, `Expire`; the invariants and the liveness property | all of the above |
| `ObjectMap` | abstract: a map from names to whole bodies | `store`, `call` |
| `ServerMap` | the refinement mapping Server -> ObjectMap | - |
| `ServerInv`, `ContentInv` | the inductive invariants of the proofs about Server: who owns a blob, what is left behind, what the files hold | - |
| `Keys` | `apikey.go`, `sqlite/keys.go`, the key lookup of `auth.go`, bootstrap in `main.go` | `keys`, `drawn`, `retired` (history), `req` |
| `Cors` | `cors.go`, and the rule of wire.md 10.1 it is compared with | - |
| `Ladder` | every route's checks in the order of the code: `auth.go`, `httpapi.go`, `httpapi/cors.go`, `respond.go` and the checks inside the handlers; `patchBucket` | `config`, `key`, `world` (a bucket, its object and session), `req` |
| `Listing` | `ListObjects` of both stores, `listObjects`, the SDK's loop over pages | `store`, `rows`, `list` |
| `Crc` | `sig/combine.go`, `wire/crc32c.ts` | - |
| `SdkUpload` | `upload` of `client.ts` and `api/uploads.ts` against the server's handlers of one session | `source`, `client`, `worker`, `parts`, `request`, `server` |
| `LadderInv`, `SdkInv` | the inductive invariants of the proofs about Ladder and SdkUpload | - |
| `MCServer`, `MCKeys`, `MCListing`, `MCLadder`, `MCSdk` | TLC instances | - |
| `ServerProofs`, `ContentProofs`, `MapProofs`, `LadderProofs`, `KeysProofs`, `ListingProofs`, `CrcProofs`, `SdkProofs` | proofs | - |

**Steps.** A handler is cut where it calls a store: `PutObjectBegin` is
everything up to `blobs.Create`, `PutObjectCommit` the transaction of
`PutObject` and what follows it up to `blobs.Remove`, and so on. `req[p].pc`
names the next call, the other fields of `req[p]` are the handler's local
variables across it. A part's body is written one byte per step, because other
handlers write to and read the same blob meanwhile, and a GET sends its file
byte by byte, for the same reason; a PUT's body is one step, because its blob is
private until its row commits. A handler's first step is its checks up to the
first call of a store and that call, which may refuse the request or fail
(`EnterUnless`).

**Data.** CRC32C together with the stored length is idealised as injective: a
checksum *is* the body it was computed from, and `CombineCRC32C` is
concatenation (`Fold`). A body is a short sequence of bytes; 0 is a hole in a
sparse file. Content types, metadata headers, ranges, timestamps and wording
are left out. Ids are random in the code and are drawn at most once here.

**Failures** are switched on by `Faults`: `kill` (the process ends, also by the
10 s deadline of a graceful shutdown), `crash` (power loss: every unsynced byte
and every unsynced directory operation is independently kept or lost), `entry`
(fsync of a file does not keep its directory entry), `stream` (a body ends
early), `corrupt` (received bytes are not those of the declared checksum),
`disk` (creating or opening a file, a write or an fsync fails), `close` (closing a
new file fails, which leaves it there under an id nobody keeps), `remove`
(unlink fails), `store` (a metadata call, reading ones included, fails without
effect), `ambiguous` (recording a part takes effect and
reports an error), `expiry`.

**Keys.** A signature is idealised as the secret it was made with. `Begin` is
the key lookup of `authenticate` and `requireAdmin`, read once per request, and
any drawn secret may be tried, old ones too. Failures of the key table, the
name of a key and the routes that only read are left out. Restart and kill are
one action (`Restart`), since it forgets all requests in flight; it writes the
bootstrap key where one is configured, and is free to do neither.

**Ladder.** A behaviour is one request. A route is the sequence of its checks
(`Authenticate`, then `Chain`); the checks between two reads of a store are one
step (`Check`), because nobody can come between them, and between two steps
`Others` may change the key's row, the bucket, its object or its session. What
is wrong with the request itself (its name, a header, a window of time) is a set
of `faults` it starts with. `held` is history: every right of wire.md 3.6 that
held at some time since the request began.

**Listing.** A key is a sequence of code points. UTF-8 sorts as code points do,
so `Below` is the order of both stores; `ByteLen` is Go's `len` and `Substr`
SQLite's, which is where they part. The keys of the earlier pages are kept
apart from those of the last one, and `throughout` and `sometime` are history.

**SdkUpload.** The client is cut at every `await`: `Send` is what a worker does
from the bytes it has read to the request it sends. A request is a record in
`parts` or `request`; it may never run, run long after the client gave it up,
or run and its answer be lost; abort may also fail, or leave the file when its
unlink fails. The server's handlers are those of
`UploadHandlers`, cut at the session lookup, the write and the record, for one
session without crashes; `Server` has the crashes, this module the client.
Checksums are real here, computed by `Crc`: a word is the set of its one bits.
`request.object` is the row that a checked complete is about to commit.

## 3. Runs

| Run | cfg | Question | Size |
|-----|-----|----------|------|
| `objects` | MCObjects | PUT, GET, DELETE of one name by 3 handlers, bodies of two lengths, power loss. `TypeOK`, `NoDanglingObject`, `ReadsOneVersion`, and `ImplementsMap` | 259,000 states |
| `uploads` | MCUploads | one session of two parts (2 and 1 bytes) against PUT, DELETE, abort, duplicate sends, kills, power loss. `ObjectIntact`, `RecordedPartsDurable`, `ImplementsMap` | 105,000 |
| `faults` | MCFaults | every fault but `entry` and `corrupt` at once, buckets created and deleted. `NoDanglingObject`, `ObjectIntact`, `RowsHaveBuckets`, `OneOwner`, `RemovalIsFinal` | 1,202,000 |
| `leaks` | MCLeaks | bodies cut short or corrupt, files that cannot be created, written or synced, sessions that expire; no kills, power loss, failing unlinks or failing metadata calls: `NoOrphan`, and under fairness `UnreferencedIsTransient` | 196,000 |
| `keys` | MCKeys | two administrators, two keys, three secrets, restarts. `KeysTypeOK`, `StoredShape`, `DeletedForGood` | 228,000 |
| `listing` | MCListing | five keys of one- and two-byte characters, prefixes of both kinds, pages of one and two keys, limits 0, absent and above the maximum. `ListingTypeOK`, `ListsEveryAsciiKey`, `PagesAscend`, `StoresAgree`, and under fairness `ListingEnds` | 176,000 |
| `ladder` | MCLadder | every route, every form of credentials, every key and world, two changes by others; every single fault; every CORS case. `LadderTypeOK`, `ExistenceHidden`, `OnlyGranted`, `CorsExact` | 844,000 |
| `sdk` | MCSdk | two parts by two workers, and three by one that reads ahead. `SdkTypeOK`, `ObjectIsSource`, `CleanAfterAbort`, `ProgressIsHonest`, `QuietOnceSettled`, and under fairness `CallSettles` | 620,000 |
| `claim_*` | Claim* | one documented claim each, which TLC refutes; section 6 | small |

**Bounds and why they are enough.** Two handlers are enough for every race of
one step against another, three for a reader caught between two writers
(`objects`). Blob ids bound the number of PUTs and sessions in a behaviour: two
give an object and its replacement, or a session and an object; three a chain of
overwrites with a reader on the first. A handler that needs a new id waits when
none is left (`BlobIdsLeft`, `UploadIdsLeft` in `Requests`, `Fresh` in `Keys`):
a bound of the instance, as are `PartSize`, `MaxParts` and `CompleteCounts`.
Parts of two bytes make a part's write interruptible and a last part short.
`leaks` has sessions of one part: what it asks is whether each way out of a
handler deals with its blob, and no handler deals with two parts.
All clients address one key: names do not interact except through blobs, and
that blobs are not shared is proved for all names (`BlobsHaveOneOwner`). The
same theorem covers two sessions at a time; the runs have one.
Symmetry over blob ids and handlers is used in the safety runs only, `leaks`
has none.

`ladder`: two changes are enough to take a right away and give it back, or to
change key and bucket; requests with a fault meet no changes, and only the keys
and worlds their checks can tell apart (`Keys`, `Worlds` in `MCLadder`), and
`MaxFaults` is one, since a refusal ends the request. A CORS header does not
depend on the route, so its cases run on two. `listing`: a page of two and a
listing of up to five keys have a first, a middle and a last page, and a last
page that is full; one listing, since listings share nothing. `sdk`: a part gets
two tries instead of three (`Tries`); checksums have eight bits, and the first
source has bytes that give each order and offset a checksum of its own.

**What clients do.** What the clients of a session may send as each part, and
the counts they complete it with, are constants per session (`PartBodies`,
`CompleteCounts`). In `uploads`, `faults` and `leaks` there is one body per part,
which may be sent again, at the same time, late, and in `faults` and `leaks` cut
short; and a session is completed with all its parts. This is what the SDK does,
which `sdk` checks. `ObjectIntact` and `RecordedPartsDurable` rest on it:
`claim_concurrent_parts` and `claim_refused_resend` have clients that send two
bodies for one part, and show what becomes of the file.

**Deadlock** is checked for the server, the keys and the listing: there is
always a request to answer or accept. A behaviour of `Ladder` is one request and
one of `SdkUpload` one call; both end.

**Fairness.** `leaks`, `listing` and `sdk` assume some. `leaks`: a handler that has
started takes another step eventually, if that step does not wait for its client
(`WF_vars(req[p] # Idle /\ ~AwaitsClient(req[p]) /\ Handle(p))`). The Go runtime
schedules every goroutine, calls of the two stores return (SQLite gives up after
`busy_timeout`), and no handler waits for another one. The server sets no
deadline for its clients (main.go:66), so a step that reads more of a body or
sends more of an answer need never come, and `UnreferencedIsTransient` excepts a
file whose writer waits for its client for ever (`Stalled`). Nobody is obliged to send
requests, to fail, or to let a session expire. `listing`: a client in its loop
asks for the next page, and is answered (`WF(Follow)`); others may write for
ever. `sdk`: the event loop runs what it can, the source is read, and a fetch
whose signal has fired ends (`WF(LocalNext)`). Nothing is assumed of the server,
the network or a fetch without a signal: client.ts:424 sets no timeout, so a call
may wait for ever for an answer. `CallSettles` says that this is the only way not
to settle (`AwaitsAnswer`): retries, read-ahead and workers that abort each other
come to an end, and no other wait is left.

**Refinement.** `ObjectMap` is the promise to clients: every call takes effect
at one instant between its arrival and its answer on a map from names to whole
bodies. `ServerMap` maps an object to what its *file* holds, not to what its row
says, so a lost byte or a write into a committed blob would be a step the
abstract map does not have. A completed upload is a put; kills and power loss
forget calls in flight and change nothing else. A call that is refused on arrival
is one that fails. A GET may still fail after its
row was read (`ReadFails`): that is the code's behaviour, see section 6.

## 4. Properties

| Property | Says |
|----------|------|
| `NoDanglingObject` | an object's row points at a file that exists |
| `ObjectIntact` | the file holds exactly the bytes the row's checksum promises, in the page cache and on the platter |
| `ReadsOneVersion` | a 200 answer carries the bytes its ETag was computed from |
| `RecordedPartsDurable` | a part the session reports as received is on the platter |
| `OneOwner`, `RemovalIsFinal` | one row per blob; who unlinks a blob is the last to do anything with it |
| `RowsHaveBuckets` | no object or session outlives its bucket |
| `NoOrphan`, `UnreferencedIsTransient` | nothing leaks; an unreferenced file is committed or unlinked, unless its client never ends the body |
| `ReceivedPartsStay` (refuted) | what a session reports as received is in its file when no request is at work on it |
| `ImplementsMap` | linearizable, atomic, durable |
| `StoredShape`, `DeletedForGood` | keys stay valid; deletion is final except for the bootstrap key |
| `ExistenceHidden` | who never had the right to read a bucket since the request began gets the same next step whether the bucket exists or not |
| `OnlyGranted` | whatever is answered past the checks of access was the caller's right at some time since the request began |
| `CorsExact` | the allow header is the one wire.md 10.1 asks for |
| `ListsEveryAsciiKey`, `PagesAscend`, `StoresAgree`, `ListingEnds` | nothing skipped, nothing twice, both stores alike, an end |
| `ObjectIsSource` | the object an upload made is the source, with its size and checksum; a call that resolved made one |
| `CleanAfterAbort` | a failed call whose abort was answered leaves no session, and a file only under an object or where its unlink failed |
| `ProgressIsHonest` | never more than there is; all of it when the call resolves |
| `QuietOnceSettled`, `CallSettles` | no request after the call has settled; every call settles that is not left waiting for an answer |
| `CancelledCallRejects` (refuted) | a call whose signal has fired settles |

Every property of a passing run has a mutant: a plausible bug, written as an operator beside the
definition it would replace (`SyncNothing`, `PartOffsetFromZero`,
`DeleteBucketUnchecked`, ...), under which TLC finds it violated.

## 5. Proofs

All proofs hold for any sets of names, blobs, sessions and
handlers and any mix of faults, under the assumptions of `Params`
(`SizeAssumption`, `BodyAssumption`, `NoneAssumption`, `WorkloadAssumption`),
`BodyIsNotNone` of `ServerMap`, `KeyAssumption` of `Keys`, `KeyspaceAssumption`
of `Listing`, `LadderAssumption` of `Ladder`, `CrcAssumption` of `Crc` and
`SdkAssumption` of `SdkUpload`, which only say what the constants are; TLC
evaluates each of them on the runs. Where a theorem needs more than that, it says
so:

| Theorem | Module | States | Needs |
|---------|--------|--------|-------|
| `TypeCorrect` | ServerProofs | `Spec => []TypeOK` | |
| `NoDanglingRow` | ServerProofs | `Spec => []NoDanglingObject` | no `entry` |
| `BlobsHaveOneOwner` | ServerProofs | `Spec => []OneOwner` | |
| `RemovalsAreFinal` | ServerProofs | `Spec => []RemovalIsFinal` | |
| `ForeignKeys` | ServerProofs | `Spec => []RowsHaveBuckets` | |
| `NothingLeaks` | ServerProofs | `Spec => []NoOrphan` | `Tidy` |
| `ObjectsIntact` | ContentProofs | `Spec => []ObjectIntact` | `SteadyClients` |
| `ReadersSeeOneVersion` | ContentProofs | `Spec => []ReadsOneVersion` | `SteadyClients` |
| `PartsAreDurable` | ContentProofs | `Spec => []RecordedPartsDurable` | `SteadyClients`, no `entry` |
| `ServerImplementsMap` | MapProofs | `Spec => ImplementsMap` | `SteadyClients`, no `entry` |
| `KeysTypeCorrect`, `ShapeKept`, `DeletionStands` | KeysProofs | `KeysTypeOK`, `StoredShape`, `DeletedForGood` | |
| `ListingTypeCorrect`, `ListingComplete`, `ListingAscends`, `ListingStoresAgree` | ListingProofs | `ListingTypeOK`, `ListsEveryAsciiKey`, `PagesAscend`, `StoresAgree` | |
| `LadderTyped` | LadderProofs | `LadderSpec => []LadderTypeOK` | |
| `AnswersAreGranted` | LadderProofs | `LadderSpec => []OnlyGranted` | |
| `ExistenceStaysHidden` | LadderProofs | `LadderSpec => []ExistenceHidden` | |
| `CorsIsExact` | LadderProofs | `LadderSpec => []CorsExact` | |
| `CombineIsCrc` | CrcProofs | `Combine(Crc(a), Crc(b), Len(b)) = Crc(a \o b)` for all bytes | |
| `SdkInvariant` | SdkProofs | `SdkSpec => []SdkInv` | |
| `SdkTypes` | SdkProofs | `SdkSpec => []SdkTypeOK` | |
| `SdkObjectIsSource` | SdkProofs | `SdkSpec => []ObjectIsSource` | |
| `SdkCleanAfterAbort` | SdkProofs | `SdkSpec => []CleanAfterAbort` | |
| `SdkProgressIsHonest` | SdkProofs | `SdkSpec => []ProgressIsHonest` | |
| `SdkQuietOnceSettled` | SdkProofs | `SdkSpec => QuietOnceSettled` | |

The conditions are real ones, and the code does not do without them:

- *no* `entry`: `"entry" \notin Faults`, an fsync of a new file keeps its
  directory entry. `claim_leaf_sync` shows the row that dangles otherwise.
- `SteadyClients`: in each session one body for each part, and no part beyond a
  count the session is completed with; another session may have other bodies and
  counts. The instances `uploads`, `faults` and `leaks` are such, and the SDK is
  such a client. A part may be
  cut short, resent, sent several times at once, late, or refused; what is *not*
  covered is a part that is sent with two bodies or arrives corrupted, since its
  bytes are written into the session's file before the server knows.
  `claim_concurrent_parts` and `claim_refused_resend` show the object that changes
  and the part that is lost, and a part too many lengthens the file (hazard list).
  The body of a PUT may be any body, cut short or corrupted.
- `Tidy`: no kill and no power loss, no failing unlink, metadata call or close of
  a new file, and no bucket is deleted. The code does not remove the file of a PUT
  whose row is refused or of a Create that fails late
  (section 6), and no sweep collects what a kill leaves.

**The argument.** `TypeOK` is not inductive: that a session's blob is an id and
not None when a handler picks it up depends on what a handler has in hand at
each step. `Typing` in `ServerInv` adds `Shape` (per step of a handler) and
`SessionShape` (per session row); `ServerProofs` begins with the typing lemmas of
the two stores and has one lemma per action.

`NoDanglingObject`, `OneOwner` and `RemovalIsFinal` share one inductive
invariant, `Inv == Typing /\ RefInv`. It says of every drawn blob who may
decide about it. `HeldAlone`: a handler that made a blob and has not committed
it, or is about to unlink it, is the only one that has it, and no row does.
`ObjectsKept`: an object's blob belongs to no other row and its directory entry
is durable. `SessionsKept`: a session's blob belongs to no other session, and
once a part is recorded its entry is durable. That last clause is needed
because complete makes an object of a blob without syncing it, relying on the
fsync of the parts. `BorrowedFromSession`: a handler in the middle of a part or
a complete has the blob of that session as long as the session is active, and
that blob is kept where the handler is about to commit. `PutIsSynced`: a PUT
commits synced blobs only. `ServerProofs` proves first what each kind of step does
to these (a move of a request, a step of the blob store, a row that changes
hands), then one lemma per action.

`NothingLeaks` adds `TidyInv`: a file that is there belongs to a row or to a
handler that holds it and will commit or unlink it, and a PUT past its bucket
check will find its bucket.

`ContentProofs` is about bytes. With steady clients every session has one
*image*, the file it will be when all its parts are written (`Image(u)`; another
session has another one, so `OneSession` says that the handlers with one blob in
hand have it from one session). A part
handler writes nothing but bytes of the image, so a file of a session is always
partial to it (`Partial`), and what a resend or a late part writes into a
completed object is what is there already (`LateParts`): this is why parts in
flight at complete do no harm. `SessionsSteady` says that a recorded part is in
the page cache and on the platter; the fsync covers all of the file, whoever
wrote it. `Ready` says per step of a handler what it has achieved (`PutReady`,
`PartReady`, ...): a PUT at its commit has its whole body on the platter, a
complete has the whole image, a GET that has opened its file finds its row's
bytes in it. `MadeAlone` keeps everybody else away from a blob in the making.
The invariant `Inv /\ FileInv` is inductive under power loss because each of
these is said of the platter where a row relies on it.

`MapProofs` shows the refinement step by step. The map's store is defined from
the files (section 3); under `Inv /\ FileInv` it is what the rows promise
(`StoreIsRows`), so only the three transactions that change an object's row
change it, and each does so as one step of the map. `Moves` lists what a call of
the map may do, `Decided` says that a handler has an outcome exactly when it is
past its last call of a store, and then each handler has a lemma: its steps
before the outcome, failures included, leave the map alone or end the call
without effect. `Kill` and `Crash` map to the map's own restart, in which
nothing but the calls in flight is lost.

`ForeignKeys` needs only `Typing`: the tables' own guards, whatever deleteBucket
saw before. In `KeysProofs` the strengthening is that a handler about to store a
patched or rotated record has one of valid shape (`HeldShape`), and that ids of
existing keys are drawn.

`ListingProofs` first proves that `Below` is a strict order and that SQLite's
test of an ASCII prefix is the exact one (`SubstrIsStarts`). The invariant of
the loop, `LoopInv`, is about its cursor: what has been yielded was there
(`Sound`) and is not above the cursor (`Behind`), what is still owed is above it
(`Ahead`), and the history variables are about the present (`HistoryOf`). A full
page moves the cursor to its last key, and a short one is all there is; a put or
a delete between two pages touches only keys that the loop does not owe.

`LadderProofs` separates order from time. About order: for each of the 22 routes,
the sequence of its checks is such that whatever is answered past the early
codes stands behind a check of a right the route needs (`AnswersAreEntitled`),
and whatever tells of a bucket stands behind a check nobody passes without a
right to read it (`ChecksAreOrdered`). About time, the invariant `LadderInv`:
what the checks already passed say of the caller goes on being so (`Passed`),
since the caller's row is read once, before all of them; and every right of a
live row in hand has held since the request began (`RightsHeld`), since the
rights of the moment always have (`Running`) and the row was read at some
moment. `Answered` ties an answer to the first check that failed. A check that
looked at a bucket that is private by now counts by the right `public` that
held then.
`ExistenceStaysHidden` then compares two worlds: their failing checks agree up
to one that fails in both (`TellingIsShielded`, `SameFirst`). `CorsIsExact` needs
of the state only that the header is settled as the request comes in; the rest
is about strings: cutting a host at the suffix of a `*.domain` entry is
putting one label in the place of its star (`PatternFacts`, `SuffixFacts`,
`HostsAgree`), and dropping default ports on both sides compares ports
(`PortsAgree`), for hosts of any length and whatever `Lower` is.

`CrcProofs` is about data, not about steps. The library's induction takes an
operator, which the provers cannot instantiate; here induction is over a *set* of
numbers (`Induction`, from the least element outside it) and recursion over
functions (`Recursion`), which they can. A step of the register is linear over
exclusive or (`Xor`), so the checksum of `a` and then `b` is that of `b` alone with
what becomes of `a`'s register under as many zero bytes; a zero bit is a matrix, its
square is the matrix of twice as many zeros, and the loop of `CombineCRC32C`
multiplies by those that the binary digits of the length select
(`AppendZerosShifts`). The width may be anything from eight bits and the polynomial
anything; nothing of CRC32C itself is used.

`SdkProofs` has one inductive invariant for an upload call, `SdkInv`, in groups that
are proved one after the other, each with a step per action. `WorkersInv` ties what
the workers do to the phase of the call: a worker throws only with the others
aborted or a part unread, which gives `QuietOnceSettled`. `ClaimsInv` follows the
part numbers: a part below `next` is done or with exactly one worker (`HeldOnce`,
`NoneLost`), and a worker that claims past the end never claims again (`Spent`), which
bounds `next`. `Ledger` is the progress: `done` is the sum of the parts done, each
counted once because a part that is with a worker is not done, and with what is in
flight it never passes the size; when all workers have returned unaborted nothing is
with a worker, so all parts are done. `SessionFate` and `CompleteFate` follow the
session through complete and abort racing each other: dropped, committed, or there.
`FileInv` says that the file holds bytes of the source and nothing else, those of
every recorded part among them, so a resend or a late part changes nothing;
`CheckedInv` that what complete checked is all of the source, since folding the rows
of all parts gives the row of the whole (`FoldIsWhole`, from `CombineIsCrc` by
induction over the parts). The proofs hold for any source, part size, concurrency and
number of tries.

The inductive invariants (`Inv`, `TidyInv`, `FileInv`, `LadderInv`, `SdkInv`) were
checked with TLC on the instances before they were proved; `MCServer`, `MCLadder` and
`MCSdk` extend their modules, so an INVARIANT line in a configuration repeats that.

**Only model-checked**: `UnreferencedIsTransient`, `ListingEnds` and `CallSettles`,
since liveness under fairness is beyond this prover. Every invariant and action
property of the passing runs, and the refinement, is a theorem.

## 6. Where documents and code differ

Shown by a run that TLC ends with a violation; `PROJECT.json` quotes the lines.

| Run | The code | The claim |
|-----|----------|-----------|
| `claim_concurrent_parts` | a part still in flight writes into the completed object | wire.md: parts may be re-sent, concurrently; ADR-0007: no row points at wrong bytes |
| `claim_leaf_sync` | the directory of a new file is never synced | ADR-0007: fsync the leaf directory |
| `claim_rotated` | a patch that overlaps a rotation restores the old secret | wire.md 4.2: the old one stops verifying at once |
| `claim_refused_resend` | a part is written over the recorded one before its checksum is compared, and stays when it is refused | wire.md: such a body is rejected; ADR-0007: no row points at wrong bytes |

Refuted by a one-line change of a passing configuration, to repeat by hand:

| Change | TLC finds | The claim |
|--------|-----------|-----------|
| `ListsEveryKey` for `ListsEveryAsciiKey` in `MCListing.cfg` | on SQLite a prefix beyond ASCII matches no longer key: `substr` counts characters, Go's `len` bytes (sqlite/objects.go:127) | wire.md 7: "Only keys that start with this string", all of them |
| `"createBucket", "deleteBucket"` added to `Ops` in `MCLeaks.cfg` | `NoOrphan`: a PUT whose row is refused, because its bucket has gone meanwhile, leaves its file (objects.go:189); so with `"store"` in `Faults` | objects.go:66: "Any failure after the blob is created removes it, so a rejected PUT leaves no orphan" |
| `CancelledCallRejects` for `CallSettles` in `MCSdk.cfg` | `uploads.create` puts the signal into its JSON body (api/uploads.ts:97) and not into its request: a cancellation waits for create to answer | SDK README and ADR-0010: a cancelled call rejects with the signal's reason |

Followed from the models, without a run of their own:

- `deleteUpload` refuses an expired session (uploads.go:316) although its comment
  says expiry is not checked there (uploads.go:300); with no sweep, nothing ever
  releases the session.
- `blobs.Create` closes the new file last (disk.go:79); if that fails, both callers
  drop the id and the file stays.
- A client that stops in the middle of a body keeps an unreferenced file for as
  long as it keeps the connection: the server has no read timeout (main.go:66).
- A fetch of the SDK has no timeout (client.ts:424), and the abort of a failed
  upload has no signal either (client.ts:275): a server that accepts it and never
  answers holds the call.
- A GET between its row and its open (objects.go:239) answers 500 after an
  overwrite; ADR-0007 promises the old bytes or the new bytes.
- `reserved` runs inside `authenticate` (httpapi.go:132), so an unknown route with
  bad credentials is a 401; its comment (httpapi.go:148) says it is answered
  before authentication.
- The ladder of ADR-0004 puts access before validation. createUpload decodes the
  body, putUploadPart the part number and completeUpload its parameters before
  access is checked. `OnlyGranted` lists these answers (`ToAnyKey`).
- `probeMethods` (httpapi.go:180) lacks PATCH: a path with a PATCH route does not
  name it in Allow.
- The signal that `uploads.create` serialises is also against
  ADR-0010's "the signal never reaches a request body".
- A part read ahead that cannot be read (client.ts:260) rejects outside the handler
  that aborts the other workers, which go on sending; `QuietOnceSettled` excepts it.
- `memory.UploadStore.CompleteUpload` is three critical sections, and its comment
  (memory/uploadstore.go:14) says that nothing in one process observes the gap. A
  concurrent abort does: it deletes the file under the object (the mutant
  `CommitUnchecked`).
- `DeleteUpload` defers Rollback before it looks at BeginTx's error
  (sqlite/uploads.go:151), so the handler panics on a nil transaction; the model
  ends the request without an answer (`Drop`).

## 7. Plan

1. Done: the server with its refinement, `Keys`, `Ladder` with `Cors`, `Listing`,
   `SdkUpload` with `Crc`, and the theorems above: every invariant and action
   property of the passing runs, and the refinement.
2. A restricted `RotatedSecretsStayDead` (no overlapping patch) for `Keys`.
3. `Migrations`: two processes that start on one file.

New runs will take the place of claim runs that are settled in the code.

## 8. Not modelled, and why

HMAC and the canonical form (formatted text; only field structure would be
checkable), `url.Parse` and the text of origins, ranges and conditional GETs (no
state), configuration parsing, migrations, tools, fixtures and tests; the SDK's
single requests, presigning and error types, its empty uploads and the resuming
of a session by hand; Windows file semantics (the adapter opens with delete
sharing to behave as on Unix); other processes working on the data directory; bit
rot; the SQLite engine itself, whose transactions are taken to be atomic and
durable as `synchronous=FULL` promises. `CreateUpload` and `PutObject` committing
and still reporting an error are not modelled (hazard list).
