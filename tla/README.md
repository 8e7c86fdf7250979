# pf-media: verification project

TLA+ models of pf-media (the media API in Go, the image processor in Node, and
what they share: PostgreSQL, an S3 bucket and a Redis stream), TLC runs that
check them on small instances, and TLAPS proofs about them. Paths below are
relative to `src/apps/`; `media.go` is `api/internal/service/media.go`,
`store.go` is `api/internal/store/postgres/store.go`, `worker.js` is
`processor/src/worker.js`.

## The system

| Part | State | Operations | What is hard |
| --- | --- | --- | --- |
| File lifecycle (`media.go`) | rows of `files`, objects under `user/<sub>/<file>/` | Presign, Complete, DeleteFile | handlers are sequences of store, bucket and queue calls without a transaction; any number of them run at once; any call may fail, a client may hang up |
| Quota (`store.go` AddQuota) | `user_quota` | AddQuota(+size), AddQuota(-size), GetQuotaUsed | check and update are two statements; members of an organisation share a row; the answer of a commit may be lost |
| Jobs (`media.go` Complete, RetryJob; `queue/redis.go`) | rows of `jobs`, stream `media:jobs` | CreateJob, Enqueue, RetryJob | the row and the entry are written apart; XADD may report an error and have happened |
| Finish handler (`media.go` FinishJob, `web/server.go`) | `jobs`, `files` | the worker's report of success or failure | two rows in two statements; errors of the failure path are ignored; late and repeated reports |
| Processor (`worker.js`, `settle.js`, `process.js`) | consumer group, objects, `media:jobs:dlq` | claimIdle, XREADGROUP, deriveVariants, finishJob, XACK | at-least-once delivery; a worker dies, is slow, or loses a reply |
| Folders (`media.go`) | `folders` | create, list, tree delete | the tree is deleted row by row while uploads go on; foreign keys; a test store without them |
| Share links (`media.go`, `web/server.go`, `password`, `sharetoken`) | `share_links` | create, list, resolve, download, delete | expiry, TTL arithmetic, password comparison, URLs nobody can take back |
| MIME sniffing (`mimeutil`, `processor/src/magic.js`) | none | MatchesUpload, sniffImageMime | two implementations that have to agree |
| Auth (`auth/auth.go`) | JWKS cache | authenticate, jwksSet | a cache behind a lock that is held over a call, key rotation, two ways to check a token |
| Configuration and process (`config`, `cmd/api/main.go`) | the settings | FromEnv, start, Shutdown | which spellings of the settings let a developer's header through; requests under way when the process ends |
| Web (`web/`) | cookies | upload action, OIDC login, organisation switch | several API calls per action; login in two tabs |
| Wiring | - | telemetry, ids, deployment | - |

A browser (or the Next server action `uploadDriveFile`) asks Presign for a URL,
PUTs the bytes to the bucket without the API, and calls Complete. Complete
checks the object, charges the quota, marks the row ready and, for an image,
makes a job, marks the row pending again and adds an entry to `media:jobs`.
A worker reads the entry, overwrites the original with a re-encoded one, adds
two derived objects and reports to the finish handler, which publishes the
variants or marks job and file as failed; then the worker acknowledges the
entry, after copying it to the dead-letter stream if it failed. A failed job
can be retried. DeleteFile removes objects, row (and, by cascade, jobs) and
gives the bytes back. DeleteFolder does so for every file of a tree, folder by
folder. A share link lets anybody who has its token, and its password if it has
one, ask for presigned URLs of a file until it expires. Every call of the API but
those of share visitors and of the worker passes the middleware of `auth`.

What makes each part correct: no byte is charged twice or given back twice, and
the quota covers what was completed (files, quota); a queued job is not lost, and
what is announced exists (jobs, processor); a tree has one owner, and a delete
takes all of it and nothing else (folders); a link is listed, bounded in time and
opened by its password only (share links); who has a valid token gets in and
withdrawn keys do not last (auth).

## Modules

| Module | Models |
| --- | --- |
| `MediaBase` | the tables, the bucket, the stream, the requests in flight, and one operator per store, bucket or queue call |
| `Jobs` | the tail of Complete and all of RetryJob: pending, XADD, and the undo when XADD fails; `Abort`, the end of a request between two calls |
| `Uploads` | Presign, the client's PUT, Complete, DeleteFile, for any number of concurrent requests |
| `Processor` | the consumer group, the workers' loops, the finish handler |
| `MediaSystem` | `SystemSpec`: `Uploads` and `Processor` together from empty tables; `PipelineSpec`: the processing alone, from the state a fault-free upload of one image per file leaves; `FairPipelineSpec`: that with fairness |
| `PgQuota` | AddQuota statement by statement, with the row lock that the upsert takes |
| `QuotaLedger` | what AddQuota promises: one atomic step between call and answer, or none |
| `Folders` | CreateFolder, Presign into a folder, DeleteFile and DeleteFolder on the tables `folders` and `files`, in PostgreSQL; beside it the answers of the in-memory store |
| `Shares` | CreateShareLink, DeleteShareLink, ResolveShare and ShareDownloadURL, with the clock, the hashing of passwords and the life of presigned URLs |
| `Auth` | FromEnv, the middleware, the cache of signing keys behind its lock, Shutdown; the identity provider is the environment |
| `UploadsProofs` | types, the quota's limit and the single refund of `Uploads` |
| `UploadsLedgerProofs` | what was paid, what is deleted and what a quota covers, in `Uploads` |
| `SystemProofs` | the same for `SystemSpec`; types and published variants of the whole system |
| `PipelineProofs` | no lost job; the properties of `PipelineSpec`; what one worker leaves behind at rest |
| `PgQuotaProofs`, `FoldersProofs`, `SharesProofs`, `AuthProofs` | the theorems about the module they are named after |
| `MCUploads`, `MCMediaSystem`, `MCPgQuota`, `MCFolders`, `MCShares`, `MCAuth` | callers, contents, amounts, settings and symmetry for TLC |

How the models correspond to the code:

- **Atomicity.** One step is one call to PostgreSQL, the bucket or Redis, with
  the Go or JavaScript code up to the next call. A request is a record in
  `req[h]`: its program counter, its caller, its file and job, and what the
  handler keeps in local variables (the size of Stat or of the row, the
  announced kind, whether the ETag matched). AddQuota is one step in `Uploads`;
  that this is sound is what `PgQuota` and `QuotaLedger` are for.
- **Errors.** `UPDATE` of a missing row changes nothing and returns ErrNotFound.
  An error the handler returns at once is `Abort`, which also stands for a dead
  API process and for a client that hangs up. Errors that are handled or
  ignored have a disjunct of their own. `Faults` says which kinds of failure a
  run lets happen: `abort` (the above), `ack` (AddQuota commits, the row is
  inserted, and the caller still sees an error), `object`, `store`, `queue`
  (calls of the bucket, PostgreSQL, Redis fail), `worker` (a worker dies or
  loses the reply of a finish request).
- **Data.** A content is its size, whether its first bytes make an image or a
  document, and whether it is as uploaded, undecodable or re-encoded; ETags
  match when contents are equal. Re-encoding may change the size. Ids are
  fresh (ULIDs). The processor's pixel and byte limits are one reason among
  others for which a content does not decode.
- **History.** `charged` and `refunds` record the bytes added and given back for
  each file; no guard reads them.
- **Delivery.** An entry is pending from XREADGROUP to XACK; it becomes `idle`
  when CLAIM_IDLE_MS have passed since it was handed out, and is then anybody's.
  With `SlowHandling` this may happen while a worker is still on it. A finish
  request is a process of its own and goes on when its worker is gone.

The three modules of the edges stand beside the core and not on top of it. Each
has its own small view of `files`, and the interface is one step wide:

- **Folders** knows of a file its owner and its folder. The bucket and quota calls
  of DeleteFile are part of the step of the store call before them; if one fails,
  the request ends by `Abort`. `stack` is the recursion of deleteFolderTree, each
  frame with the children it listed and has not visited. `alone` is history: no
  other request has changed a table since this one was taken. A request for a
  folder that somebody else deletes is taken only for ids that were handed out.
- **Shares** knows of a file its owner, status and variants; `FileMoves` and
  `DeleteFile` stand for Uploads and Processor. The hash of a password is the pair
  of the password and the cost, so a hash opens only at the cost it names.
  `granted` and `ended` are history: until when a handed-out URL works, and when a
  link that is gone was last good. `Wrap` is int64 arithmetic at a smaller width.
- **Auth** steps from one call of the provider, or wait for the lock, to the next.
  A token is the key that signed it (none if it is opaque, expired, or of another
  issuer), its claim `org_id` and what /userinfo says. `Publish`, `Retire` and
  `Revoke` are the provider's. A client that hangs up is one way a call fails.

Bounds, all named: `FileIds`, `JobIds` (rows ever made; a request that needs an
id when none is left waits), `Handlers` (requests at once), `MaxEntries`
(RetryJob starts only on a shorter stream), `MaxCrashes`, `Workers`, and the
sizes in the content sets. A worker whose earlier finish request is still being
served does not send the next one before that request ends. Upload URLs never
expire in the model. `MaxAborts` bounds how often a folder delete ends half-way,
`MaxTime` ends the clock, `MaxCost` how often the hashing cost is raised, and
`MaxLag` says how long a request of `Shares`, or an answer of the provider in
`Auth`, may take; `Batch` is 1 where the code has 100.

Definitions whose comment starts with "Slip" are not part of any specification:
each is a plausible mistake in the definition that follows it, kept to show that
the properties notice it (`mutants` in `PROJECT.json`).

## Runs

| Run | Instance | Shows |
| --- | --- | --- |
| `uploads_core` | 1 file, 2 jobs, 2 requests, images and documents of 0 to 3 bytes against a maximum of 2, all faults | one refund per file; no file is completed unpaid; the quota covers it; a deleted row or its jobs never come back |
| `uploads_ledger` | 2 members of an organisation, 2 files, 2 requests, limit 3 | the shared quota stays within its limit, and never falls below the completed bytes unless a refund exceeded its charge |
| `pg_quota` | 3 transactions, 2 subjects, +1, +2, -2, limit 3 | row lock, limit, refinement of the ledger |
| `pipeline_jobs` | 2 slow workers, 1 request, `queue`, `worker` | a queued job has an entry; published variants exist |
| `pipeline_faults` | 1 worker, 1 request, all faults but `ack` | types; a succeeded job has published |
| `pipeline_live` | 2 workers, 1 request, `worker`, fairness | queued jobs get settled, and delivered entries acknowledged unless their file is deleted |
| `system_core` | everything, 1 file, 2 jobs, 2 requests, 1 worker, no faults | a queued job has an entry; at rest files agree with a job of theirs and failures are in the DLQ |
| `folders` | 2 folders, 2 files, 2 requests, batches of 1, 1 request cut short, one subject in two organisations, fairness | one owner per tree; a delete takes the tree and nothing else, succeeds when undisturbed, and ends; what the tests' store answers PostgreSQL answers too |
| `shares` | 1 file, 1 token, 2 owners, 3 passwords (one with a blank), 2 requests, an int64 of 5 bits | links are listed and bounded in time, URLs end soon after their link, a link opens by its password and no other |
| `auth` | 6 settings, 1 key, 2 tokens, 2 requests, a cache of 1 tick, fairness | one fetch per period, withdrawn keys expire, valid tokens get in, no developer's header in production, nobody waits for ever |

The interesting cases need two or three actors on one file, or two files of one
subject, and sizes of which one fits twice and the other does not: a third
request or a second file adds no new relation between two steps of the code.
Two folders make a tree, and batches of 1 with two files make a second batch. One
token is enough because links do not meet; one file, because a link has one. In
`auth` one request holds the lock and one waits, and two ticks are twice the
period of the cache. `uploads_*`, `system_*`, `folders`, `shares` and `auth` switch
the deadlock check off: there ids run out, the clock stops, and users may stop
calling. The pipeline always has a worker that polls.

Two runs end in a counterexample, each for a disagreement between the code and
what the repository says of it:

| Run | What the code does |
| --- | --- |
| `uploads_drift` | DeleteFile refunds the announced size of a file nobody completed (`media.go` 615) |
| `system_thumbs` | an image is pending again after Complete, so Complete can be repeated (`media.go` 263, 215): if the second charge is refused, the object of the first is deleted (`media.go` 243) |

Other disagreements have no run of their own; the properties are stated so that
they hold beside them, and each shows up when its condition is taken away:

- FinishJob hides failing updates (`media.go` 697); the worker acknowledges, and
  the job stays queued for ever, against `settle.js` 9. `pipeline_jobs` with one
  worker and `Faults = {"store"}` violates `NoLostJob`.
- Reports of two workers on one entry interleave to a failed file with a succeeded
  job (`media.go` 698), which RetryJob refuses (632) although the page offers a
  retry for every failed file. `StatusAgrees` is violated by `pipeline_jobs` with
  `Faults = {"object"}`.
- The entry of a deleted file is claimed again for ever (`worker.js` 86), against
  `settle.js` 8. `EntriesAreSettled` without its last disjunct is violated by
  `pipeline_live`.
- A folder delete that meets a file somebody else deletes between GetFile and the
  DELETE stops half-way with a 404 (`media.go` 609), though a double delete is meant
  to count as a success (597), and the drive page takes this 404 for one
  (`web/app/actions.ts` 192). With "notfound" beside "ok" in its antecedent,
  `OkMeansGone` is violated by `folders`.
- A name taken in one organisation conflicts for the same subject in another one,
  in PostgreSQL alone (`migrations/004_folders.sql` 9). `TestStoreIsFaithful` without
  its exception is violated by `folders`.
- A share password that begins or ends with a blank can be set and opens nothing
  (`web/server.go` 366). `GoodLinkIsServed` without the condition on blanks is
  violated by `shares`.

What follows for the properties that hold: `NoLostJob` is checked
without failing store calls and cut-short requests, `StatusAgrees` with
handling that is faster than CLAIM_IDLE_MS, and `QuotaCoversCompleted` under
its own condition that no refund exceeded its charge. `PublishedExists` is about
the pipeline: a client may still PUT to its URL afterwards, or complete the file
again.

### Fairness

`FairPipelineSpec` assumes weak fairness of each worker's next step, of each
finish request and each API request that was taken, and of time passing for a
pending entry. The code justifies them: `main()` is an endless loop whose
awaited calls all return (`worker.js` 142), a handler is straight-line code, and
XAUTOCLAIM looks at the clock. Requests are not obliged to arrive, faults are
not obliged to happen or to stop; `MaxCrashes` bounds how often a worker dies.
`pipeline_live` assumes handling within CLAIM_IDLE_MS: without it two workers
could take an entry from each other for ever.

`EntriesAreSettled` also needs no failing store calls: with them every report of
an entry could fail.

`FoldersSpec` assumes weak fairness of the requests that were taken: a handler is
straight-line code and a loop over finite lists. Requests need not arrive. That
the ids are finite is what ends the uploads into a folder that is being deleted;
with endless uploads the loop over full batches need not end.

`AuthSpec` assumes weak fairness of the calls (the provider answers, the
connection breaks or the client hangs up, in which case the context ends the
call; `auth.go` has no time-out of its own) and strong fairness of getting past
the lock: `sync.RWMutex` does not let writers or readers starve, but the lock is
not free all the time, so weak fairness would say nothing.

## Proofs

Every theorem holds for all values of the constants that satisfy the named
assumptions: `MediaAssumption`, `JobsAssumption`, `ProcessorAssumption`,
`PgAssumption`, `FoldersAssumption`, `SharesAssumption`, `AuthAssumption`, which
type the constants, and `NoneAssumption`, which says that an absent row is not a
row. So the number of files, requests, workers, members and faults is whatever
one likes. Where a theorem has a hypothesis of its own, it is said below. The
invariants that were needed were checked by TLC on the instances of the runs
before they were proved.

`UploadsProofs`:

- `Typing`: `UploadsSpec => []TypeOK`. `TypeOK` is inductive. What makes it more
  than a list of types is `ReqTypeOK`: a request past its first call has a file,
  one that handles a job has a job.
- `QuotaLimitHolds`: `UploadsSpec => []UsedWithinLimit`. Only AddQuota writes the
  quota; CompleteCharge is guarded by the limit and DeleteRefund subtracts a
  natural number.
- `SingleRefund`, `OneRefunder`: `RefundOnce` alone is not inductive: a refund is
  made by a request that has already removed the row. The strengthening `RefundInv`
  says that such a request finds no row, no refund and no rival for its file, and
  that a file with a row has an issued id and no refund; `DeleteRow` establishes it
  because only one DELETE hits the row, and `PresignCreate` keeps it because ids
  are fresh.

`UploadsLedgerProofs`:

- `CompletesPay`: `UploadsSpec => []CompletedIsCharged`. `LedgerInv` says what a
  running Complete relies on between two calls: past CompleteCharge
  (`PastCharge`) the bytes of the row it may find were added. A row that is gone
  meanwhile does not come back, so what was charged for the id of a request was
  charged for that row.
- `DeletedForGood`: the action property `NothingOutlivesDelete`. Only
  CreatePendingFile makes a row (`OnlyPresignMakesRows`), with a fresh id, and a
  job is made or updated only while its file has a row.
- `QuotaCovers`: `UploadsSpec => []QuotaCoversCompleted`. `SpentInv`: every id
  belongs to one subject, that of the owner of its row and of every request that
  has seen it, and a quota is at least the sum of the balances (charged less
  refunded) of the ids of its subject; it is more only where `GREATEST(0, ..)` cut
  a refund short. Sums over finite sets have their own lemmas; they are proved from
  a smallest counterexample in the well-founded order of strict inclusion, since
  induction over data is out of the prover's reach.

`SystemProofs`, for `SystemSpec` with any number of workers and all faults:

- `SystemTyping`: `SystemTypeOK` with `GroupInv`: what a worker has in hand was
  delivered before, and a worker that waits for a reply waits for its own report.
- `SuccessIsPublished`: `[]SucceededIsPublished`. `MessageInv`: entries, reports and
  requests name a job of their file, or a job that is gone for good. `PublishInv`: a
  report between its two updates finds the variants listed, or no row.
- `SystemKeepsLimit`, `SystemPays`, `SystemRefundsOnce`, `SystemDeletesForGood`,
  `SystemQuotaCovers`:
  the results about `Uploads` hold with the processor beside it. The processor
  makes no row, changes no size, owner or quota, and sets `ready` or `failed` only
  for a file that has a job, which was paid for.

`PipelineProofs`:

- `NothingLost`: `SystemSpec => []NoLostJob`, if `Faults` has no `abort` and no
  `store`; with either, a job can be lost (see above). `SettledInv`: for a queued job
  a request is between row and entry, or it has an entry that is still open: not
  acknowledged, and no worker on it has got its report through. A worker whose report
  has got through may still acknowledge the entry of a job that was queued anew, but
  then the request that did so adds another.
- `PipelineIsSafe`: `PipelineSpec => [](SystemTypeOK /\ SucceededIsPublished)`, all
  faults; `PipelineLosesNothing`: `[]NoLostJob`, without `abort` and `store`. The
  states `PipelineInit` satisfy the invariants of `SystemSpec`, for finite `FileIds`
  (`SetToSeq` and the sum need that), and each of its steps is a step of
  `SystemNext`.
- `PublishedIsStored`: `PipelineSpec => []PublishedExists`, for finite `FileIds` and
  without `abort` and `object`, with which a row can stay behind whose objects are
  gone. `StoredInv`: what a worker has put, what a report under way announces and
  what a file publishes is stored, unless a delete has removed the objects of the
  file; then that delete goes on to the row.

- `FailuresAreKept`: `SystemSpec => []FailureIsKept`, if there is one worker
  (`LoneWorker`) and `Faults` has no `abort`, `queue` and `worker`, so that it loses no
  reply and no XADD is undone; the bucket and the store may fail. `LoneInv`: between
  two polls nothing of a live file is pending, and during a batch its entry alone is
  (`InHand`); a report is under way only while the worker waits
  for it (`Hand`); a job's row goes only with its file's (`JobsLast`). Then `KeptInv`:
  of a failed job the last entry that was handled (`LastOf`) is in the dead-letter
  stream, or in the hand of the worker, which is on its way there (`Failing`).
- `StatusesAgree`: `SystemSpec => []StatusAgrees`, if moreover `Faults` has no `store`.
  `AgreeInv`: a live file with a job has a request or an entry coming (`Coming`), or is
  being handled (`Handling`), or agrees with one of its jobs (`Agreed`), and a report
  between its two updates finds a row that will agree with what it wrote, unless more is
  coming (`HalfDone`). It needs that
  only images have jobs (`ImagesOnly`), and, for jobs that are settled, `SettledInv`
  from above. The run `system_core` checks both properties without faults; the
  theorems allow those above, and any number of files, jobs and requests. With two
  slow workers `StatusAgrees` is false (see Runs), so the hypothesis is not an
  artefact of the proof.

`FoldersProofs`, from the inductive invariant `FoldersInv` (`FoldersInductive`),
with aborted deletes and any number of concurrent requests:

- `FoldersTyping`; `TreesAreOwned` (`TreeHasOneOwner`) and `DeletedIsGone`
  (`OkMeansGone`) from `IdsInv`: ids are handed out once, so a folder a request has
  looked up is the one it saw or gone for good, and one a delete has removed stays
  away.
- `OnlyTheTreeIsDeleted` (the action property `OnlyTheTreeGoes`) from `TraceInv`: the
  stack of a running delete leads down from its folder, and what was listed lies
  where it was listed or is gone, because a row never moves.
- `UndisturbedDeletesSucceed` from `ForestInv` (in no set of folders has every member
  its parent) and `AloneInv`: as long as no other request changes a table, the stack
  is a path of the tree without repetition, and what was listed is what there is.
  `StoresAgree` (`TestStoreIsFaithful`) rests on the same two.

`SharesProofs`, from `SharesInv` (`SharesInductive`): `SharesTyping`;
`OwnersSeeTheirLinks` (`EveryLinkIsListed`) and `LinksEnd` (`LinksAreBounded`) from
`LinkInv`: a link, and the row about to be inserted, has the owner of its file and
ends within the maximum of its creation; `GrantsStop` (`GrantsEnd`) from `GrantInv`:
a visitor is answered at most `MaxLag` after the link was looked at, which had not
expired then; `PasswordsGuard` (`OnlyThePasswordOpens`) and `GoodLinksServe`
(`GoodLinkIsServed`) from `ServeInv`, what a visitor was let in for and what there
still is to show.

`AuthProofs`, from `AuthInv` (`AuthInductive`): `AuthTyping`; `VouchedAreLetIn`
(`VouchedIsAccepted`) from `VouchInv`; `HeadersNameNobody` (`NoDevUserInProduction`)
from `SettingsInv`: whoever was let in by a header was so by a process whose settings
allow it; `KeysAreFetchedOnce` (`FetchesAreApart`) from `LockInv`: who fetches holds
the lock, and the cache is stale; `WithdrawnKeysExpire` (`StaleKeysExpire`) from
`KeysInv`: keys on their way were listed when they were sent, those in the cache at
most `MaxLag` before they were stored; `ShutdownWaits` (the action property
`ShutdownIsPatient`).

`PgQuotaProofs`:

- `PgInvariance`: `PgInv` is inductive. A transaction past its upsert holds the
  lock of its subject, and has read what is committed.
- `CommittedLimit`: committed quotas never exceed the limit; it rests on `PgInv`,
  because the limit was checked on the value that was read.
- `PgImplementsLedger`: every step of `PgSpec` is a step of `QuotaLedger` or none.
  Commit maps to the atomic step, a rejected transaction to a refusal that the
  bytes in use justify at that instant.

Only model-checked: liveness (`QueuedIsSettled`, `EntriesAreSettled`,
`DeleteIsAnswered`, `EveryoneIsAnswered`), for which the prover would need ENABLED.
Every safety and action property of a passing run is a theorem.

## Not modelled

- Reads that change nothing: lists and views of files, folders, jobs and quota.
  What a share visitor reads is modelled, because the URLs in it outlive the read.
- MIME sniffing: a test of the first bytes without any state. The core uses its
  outcome; that `mimeutil` and `processor/src/magic.js` agree is not checked.
- HTTP decoding and status codes, the routes, and the constant token of the
  processor.
- The in-memory store beyond AddQuota and what `Folders` says of its folders.
- Upload URLs that expire, EnsureBucket, the migrations at start, telemetry, ids
  beyond being fresh, deployment, the pages of the web client and its OIDC login.
- The settings of FromEnv that do not decide who is let in are one Boolean
  (`required`): they are there and parse, or the API does not boot.
- Passwords of more than 128 bytes, which CreateShareLink refuses, and collisions
  of hashes and tokens.
- `XAUTOCLAIM` looks at a bounded part of the pending list, which matters only with
  more than fifty fresh entries in front of an idle one. `media.go` handles a nil
  queue; the API is always started with one.

## Plan

1. Done: the core (`MediaBase`, `Jobs`, `Uploads`, `Processor`, `MediaSystem`,
   `PgQuota`, `QuotaLedger`) and its first theorems.
2. Done: `Folders`, `Shares`, `Auth`.
3. Done: theorems for every safety and action property of the passing runs.
4. Left: weaker hypotheses of the theorems about one worker (Redis faults), and
   `QuotaMatchesDrive` and `ThumbnailsAppear`, which the code does not satisfy, under
   the conditions that would make them true.
