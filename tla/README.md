# TLA+ models of travel-api-fastapi

A travel back end: a FastAPI process and a photo-import worker that share a
MariaDB database and an S3/R2 object store, and an OIDC authorization server
that issues the tokens. This directory holds TLA+ modules that model the parts
with state and concurrency, TLC configurations that check them on small
instances, and proofs that TLAPS checks for every instance.

Paths below are relative to the repository's root; the code is under `src/src`.

## 1. Inventory

| Component | State | Operations | Hard behaviour |
|---|---|---|---|
| Import jobs and worker (`import_worker.py`, `services/import_processor.py`, `services/import_repository.py`) | rows of batches, assets and jobs; the MariaDB advisory lock; the worker's local list | enqueue, claim with recovery of stale jobs, discover, extract, load, process each asset, cluster, geocode, persist the manifest, complete or fail | a worker dies between any two transactions, a claim expires while its worker lives, the lock is lost with its connection, publication overlaps the end of a job |
| Import batch API (`routers/imports.py`) | none of its own | create, upload, process, edit, validate, publish, delete | handlers of several transactions; two API processes |
| Review (`services/import_cluster_assignments.py`, `services/import_review_drafts.py`, handlers of `routers/imports.py`) | role, exclusion, cluster and links of assets; clusters with a representative; drafts with a cached date | assign, unassign, reassign, create, merge, split, patch, link | no foreign key behind `cluster_id` and `representative_asset_id`; long sequences of edits interleaved with failing jobs |
| Uploads (`_upload_idempotent_file`, `lock_uploaded_asset`) | rows, objects, one lock per client file | claim, put, save, clean up; delete batch with its prefix | two stores without a common transaction, a retried client, a lock lost while idle |
| Publication (`_claim_publish_batch`, `_publish_batch`, `_release_publish_batch`) | status, reserved ids, places, reviews, media, objects | validate, claim, copy, commit, release | failure and retry with edits between, a claim or a commit without an answer, a release without a connection, a crash |
| Sessions (`services/session_auth.py`, `routers/session.py`) | login transactions and sessions in memory, one lock per session, rotating refresh tokens at the server | login, callback, refresh, logout, expiry | threads overlap (`asyncio.to_thread`); answers are refused, late or lost |
| Media, storage (`services/media.py`, `services/storage.py`, `routers/uploads.py`) | media rows, objects, references of places and reviews | upload, attach, expire at startup, clean up after a change | row and object are changed apart; a reference may come or go between two looks |
| Places, reviews (`routers/places.py`) | rows with an owner, a visibility, a mark of deletion | list, look up, create, change, delete, restore, review | two forms of one visibility rule; a review written while its place is closed |
| Friends (`routers/friends.py`) | requests, friendships stored under the sorted pair | send, accept, reject, remove | nothing is locked between the SELECTs and the INSERT of a request |
| Courses (`routers/courses.py`) | a row and its stops | create, import, export, delete | a course locks and checks its places one after the other |
| Authorization (`services/authorization.py`) | none | predicates on accounts and rows | – |
| Token verifier (`token_verifier.py`, `auth_utils.py`) | the JWKS cache and its expiry, two globals | fetch, use, clear | threads read and write both without a lock |
| Clustering, manifest (`services/import_contract.py`) | none | a greedy first-fit scan, medoid, radius; the manifest document | the scan pops photos out of the list it walks |
| Schema and migration (`connectors/__init__.py`) | the tables | create tables and columns, give unowned rows to the legacy account | a second process starts, or dies, while the first one serves |
| Map links, configuration | none | parsing of links, environment | – |

The API and the worker meet only in the database: the API inserts a job and sets
the batch `queued`; the worker claims it, sets the batch `processing`, and hands
the batch back as `ready` or `failed`; then only the API edits it, publishes it
into places, reviews and media, and sets it `published`. Handlers are `async
def` functions without an `await` inside their transactions, so one API process
runs one of them at a time; session work and one way of verifying tokens run in
threads. The deployment replaces the container of the API by stopping the old
one first (`docs/synology-deployment.md`), but the code locks rows as if several
processes ran; where it does, the models have several.

What makes each part correct is in section 4, property by property, and the
hazards behind the properties are listed, with their lines, in `PROJECT.json`.

## 2. Modules

| Module | Models | Step |
|---|---|---|
| `ImportJobs` | batches and jobs, the worker process, its lock, publication and deletion seen from the batch | one committed transaction |
| `ImportRequests` | abstract: a queue of requests with leases, which `ImportJobs` implements | – |
| `ImportReview` | the rows a reviewer edits, every route that edits them, and the worker's transactions on them | one request (it locks the batch row first and commits once) |
| `ImportUploads` | uploads of the files of a batch, against processing and deletion | one call to the database or the store |
| `ImportPublish` | publication of a reviewed batch, and the life of places and media beside it | one transaction or one call to the store |
| `Publication` | abstract: places, reviews and status appear together and once, which `ImportPublish` implements | – |
| `OidcSessions` | logins, sessions, refreshes and logouts in the threads of the API | one critical section, or one answer of the server |
| `JwksCache` | the cache of signing keys, filled, read and cleared by threads | one read or write of a global, or one fetch |
| `Friends` | friend requests and friendships | the two halves of a send; else one transaction |
| `FriendRelation` | abstract: a symmetric relation that grows by consent, which `Friends` implements | – |
| `Sharing` | extends `Friends` with startup and its migration, places, reviews, courses and who may see them | one transaction, or one row lock of a longer one |
| `Media` | uploaded media, their attachment, cleanup and expiry | one transaction or one call to the store |
| `Clustering` | the scan that makes clusters, failed runs, and the edits that move photos or the point of a cluster | one turn of a loop, or one request |
| `MC…` | the constants of the instances that TLC checks | |
| `…Proofs` | theorems and proofs about the module they extend | |

Definitions keep the names of the code where they can (`ClaimJob` for
`claim_next_job`, `Enqueue` for `enqueue_process_job`, `Detach` for
`detach_review_assets`), and `PROJECT.json` names the lines of each one.
`Mutant:` operators, beside the definitions they vary, state plausible bugs of
those lines; each checked property is violated by one of them.

**ImportJobs.** `status`, `jobStatus`, `jobBatch` are columns; `files`, `done`
and `covered` are the assets of a batch that exist, are processed, and took part
in the last clustering; `wpc`, `wjob`, `wtodo`, `wfull` are the locals of
`ImportProcessor.process`; `apc` and `abatch` keep a handler between its
transactions. `_refresh_manifest` reads the rows without a lock and updates the
manifest afterwards, so it is two steps (`ReadManifest`, `StoreManifest`): `fresh`
holds the handlers whose reading is still what the rows say, `met` the batches on
which requests of two processes have overlapped. Time is a set `stale` of running
jobs without a heartbeat. Faults: `crash` and `stop` of the worker, `error` in a stage, `lockloss`,
`apicrash`.

**ImportReview.** A request is a composition of operators from rows to rows, one
per SQL statement or helper of the code. Positions are abstracted to the sets of
photos that fit one radius, times to an order.

**ImportUploads.** A file with a `clientFileId` has a fixed key and a lock; one
without draws a random key. Faults: a failed call whose effect may or may not
have happened (`error`), a crash, the loss of the lock's connection.

**ImportPublish.** A media row is named by its unique object key, and an object
key by the place and the content of the photo, as in `_publish_asset_file`. The
handler is split into validation, claim, each copy, the transaction, and the
release. Edits are those that decide a publication; the others are in
`ImportReview`. Faults: `crash`, `commitlost` (the claim or the publication is
committed, but the connection fails), `noconnection` (the claim or the release finds
no connection, or rolls back), `cleancrash` (objects deleted, their rows not). The
claim lies outside the `try` of the handler, so a claim that fails is not released.

**OidcSessions.** A session object carries its token, the lock it hands on to
its successor, and whether its access token is still good or its lifetime over.
The authorization server is external: it rotates refresh tokens, may refuse, and
its answer may be lost.

**JwksCache.** `cache` and `expires` are the two globals; `began`, `got` and
`retried` are the locals of `_get_jwks` and `_find_jwk`. Keys are rotated by the
authorization server at any time. Signatures are the library's.

**Friends, Sharing.** A row is a record; `sending` is what a process has read
before its INSERT, `work` the open transaction of a review or a course with the
rows it holds and the snapshot of friendships it reads. A row lock is held from
the check to the commit, and whoever needs it waits. `process` keeps the startup
of each process: tables, then the migration of rows nobody owns if there are
any, then service. A deadlock of two courses is resolved by the database
(`Abandon`). `crossed` is a history variable: the pairs on which two sends, or a
send and an answer, overlapped.

**Media.** The loop of both cleanups (expiry at startup, removal after a change)
is one pair of actions: the object goes at once, the row with the commit. Media
are numbered in the order of `created_at`, and `aged` of them are older than the
time to live. Faults: `crash`, `error` (a call without effect), `lost` (a call
whose answer is lost). `broken` records rows left without their object by a
deletion that failed half-way.

**Clustering.** `remaining`, `passed`, `members`, `found` are the locals of
`cluster_points` (`passed` is what lies before `index`). Points are any set with
any distances (`Dist`), sums of distances any function to the naturals
(`Total`); the medoid is the least sum, then the least id. The edits are merge,
split, assignment (also to no cluster) and a new cluster, each with or without the
deletion of the clusters it empties, exclusion, and a PATCH of the point of a
cluster. Merge and split check the radius; the others check nothing, and `byHand`
records the photos they touched until these are checked again.

## 3. Runs

| Run | Instance | Question |
|---|---|---|
| `jobs_safety` | 2 batches (uploads with an archive; a local folder), 3 jobs, 2 workers, 2 faults | do claims stay exclusive under crashes, errors and redeployments, does review work survive, do the rows implement `ImportRequests` |
| `jobs_recovery` | 1 batch with an archive, 2 jobs, 2 workers, 2 API processes, 2 faults of any kind, fairness | what survives when two workers steal jobs from each other, what is offered before anything fails, and does every enqueued batch come back |
| `review` | 2 dated photos, one of which may be a screenshot, 2 clusters, 2 drafts, failing jobs | references, covers, roles, links, dates, merges |
| `uploads` | 3 uploads of 2 client files and 2 plain ones, a fault of each kind | rows without objects, objects without rows |
| `publish` | the same photo in 2 clusters, 1 place, 1 draft, 2 faults, any number of failures | does it implement `Publication`, is what is shown stored, is a publication final |
| `publish_two_apis` | 2 API processes, 1 cluster, 2 places, 2 faults (crash, lost answer, no connection), any number of failures | exclusion of publishers, no stale reservation, whole publication, who strands a batch |
| `sessions` | 2 sessions, 1 login, 2 requests, 3 tokens, a lost answer and a restart, fairness | replay of tokens and logins, one refresh at a time, who brings a session back that is gone, every request ends |
| `sharing` | 2 accounts (one a superadmin, the other the legacy owner), 2 processes, 2 places, 2 requests, a review, a course, 3 rows together | friendship by consent, list against lookup, ownership through migration, writes on places that close |
| `media` | 3 media of a user and a superadmin, 2 places, expiry of 1 per start, 2 faults of any kind | what is referred to is stored, what a client was told can be used, what is fresh stays, nothing leaks |
| `jwks` | 2 threads, 1 key that is published and withdrawn, a life of 2, calls of 1, a clock to 6 | how old a trusted key may be, what an undisturbed verification meets |
| `clustering` | 3 photos at any of 3 spots, uploads between failing jobs, 2 edits | does the loop compute first fit, and which photos are near the point of their cluster |

One more run, `published_reverts`, states what two messages of the code say and
finds it violated; section 5.

**Bounds.** Every counter is bounded by a constant: `MaxJobs` (two jobs of one
batch are needed for any duplicate or retry, a third for another batch),
`MaxFaults` (one fault for the failure, one for the failure of its recovery; in
`ImportUploads` and `OidcSessions` it bounds the faults of each kind),
`MaxTokens` (a login and two rotations: enough for a used token and its
successor's), `MaxMedia` and `Limit` (one start takes one of two stale rows and
leaves the next to another start), `MaxEdits` (a photo put somewhere by hand,
then a merge or split of what it is in), `MaxTime` (the life of a cache, filled a
second time, and a call on each side), `MaxRows` (`MCFewRows` keeps the rows of
all tables together, and draws a second request only beside one place). Two
workers, processes or threads are enough for a race. Two photos, two clusters and
two drafts are the least that let a merge, a split and a move meet. Three spots on
a road, of which the middle one is near both others, are the least where a first
fit depends on its order. One key is enough for `jwks`: the properties
speak of one key at a time, and the theorems of any number. Symmetry is used only over sets whose members no
definition distinguishes (and the road read backwards), never in a run with a
liveness property.

**Deadlock** is checked except where the bound is a proper end: in `uploads` a
deleted batch whose files have all been tried, in `clustering` a reviewed batch
after the last edit.

**Fairness** is assumed in two specifications. `ImportJobs!FairSpec`: a live
worker goes on and a dead one is restarted (`--restart unless-stopped` in
`docs/synology-deployment.md`), a running job without heartbeat becomes stale,
and a handler that began runs to its end. `OidcSessions!FairSpec`: a thread that
can run runs, and the server's answer or the ten-second timeout of
`_request_json` comes; and a thread does not wait for ever for a lock that is
released again and again (strong fairness of taking it; Python's locks give no
such order, but each holder is a request and clients do not send them without
end).

## 4. Properties

*Jobs.* `OneActiveJob`, `NoOrphanedBatch`, `ClaimIsExclusive` and
`ReadyIsProcessed` relate jobs, batches and the locals of workers;
`UploadReviewKept` bounds what a recovered job may delete; `SoundUntilFault` says
what `ready` promises as long as nothing has failed: complete clusters, and a
manifest that is current once no handler is at work, except on batches where
requests of two processes overlapped, for then the older reading may be stored last
(no fault is needed for that, and the model does it); `ImplementsRequests` is refinement of
`ImportRequests`; `BatchSettles` is liveness.

*Review.* `RowsAgree` collects the constraints the schema does not declare
(clusters, representatives, covers, exclusion) and `LinkInCluster` those of the
drafts; `DatesFollowPhotos` says that whoever changes the photos of a draft dates
it by the oldest, a typed date notwithstanding, in the draft that is left too; and
`MergeKeepsDrafts` that drafts leave the merged clusters before these are deleted.

*Uploads.* `RowHasObject` and `NoOrphanObject` relate the two stores.

*Publication.* `ImplementsPublication` says that places, reviews and the status
appear at once, once, through failed attempts and lost answers;
`PublishesWhole` that the step that publishes leaves each cluster that is not skipped
with its place, a merged one with the place it names now, and on it its cover and
gallery and each complete review with its photos; `PublishedIsFinal` that nothing is
taken back; `OnePublisher` and `ReservationsHold` that publishers exclude each
other and rows do not change under them; `StrandedOnlyByFault` that three faults and
no other step leave a batch `publishing` for good: the death of the process that
publishes it, a claim that was committed and whose answer is lost, and a release that
fails; `ReferencedIsStored` that no cleanup deletes
what is shown.

`PublishesWhole` says less than that everything is published, in two places. A
cluster that is switched from merge to create after a failed publication keeps the
place it was to be merged into (`Switched`): it makes no place, and its photos come
to none. And the photos of a draft that is left out are shown by nothing, although
the repository's README says that they stay with the place; section 5.

*Sessions.* `OneRefresh`, `NoReplay`, `LoginOnce`, `RequestsEnd`; and
`GoneStaysGone`: a session that is gone, by logout, expiry or refusal, comes back
only through a refresh that was already under way. The code does bring it back then,
so a logout is final for the requests that come or wait, not for one that is
already at the server.

*Token verifier.* `TrustIsBounded`: an accepted key was published less than one
life of the cache and two calls ago, although one thread may stamp its expiry on
the older set of another. `AloneIsRight`: an undisturbed verification neither
fails on a cache it has just seen filled nor refuses a key published all along.

*Friends and sharing.* `ImplementsRelation` is refinement of `FriendRelation`;
`OnePendingRequest` holds of every pair whose requests did not cross.
`ListedIsFetched` compares the two forms of the visibility rule, `ServedIsOwned`
and `OwnersStay` are about the migration (README.md of the repository: a missing
or ambiguous account "fails startup instead of assigning legacy data to the wrong
owner"), `WrittenOnOpenPlaces` about rows that close while they are being used.

*Media.* `ReferencedIsStored`, `KnownIsStored`, `FreshStays` and `NothingLeaks`:
from the side of the reader, of the client that holds an id, of the client that
has just uploaded, and of the store.

*Clustering.* `FirstFit` states without loops what the loop with its index
computes; `NearUnlessByHand` that a photo is in the radius of the point of its
cluster unless the reviewer put the photo there, or the point, by hand, and neither
a merge nor a split nor a job has checked the photo since.

## 5. Findings

`published_reverts`: a batch becomes `ready` one transaction before its job is
completed; if it is published in between, completion makes it `ready` again, and
it can be published or processed a second time.

What the modelling showed besides. Each is recorded with its hazard, and each is
why a property is stated with the exception it has.

- After a failure past the last asset a retry returns early, and the batch is
  `ready` without clusters or manifest (`import_processor.py:85`), though
  publication takes `ready` for complete. So `SoundUntilFault`.
- Linking a photo to a draft changes its role behind the rules of the other
  routes (`imports.py:1232`): a screenshot, which the role route refuses to
  show, comes to be shown in this way; and as a cover or representative that
  survived a failed run it is promoted by a split or merge. A representative that
  is linked to a draft keeps its place with the role `review`, until a merge or
  split (`imports.py:948`) makes it a cover again while it is still linked, and a
  run that processes a linked photo gives it the role of its classification. So
  `RowsAgree` demands agreement of role and exclusion only, and no property says
  that linked photos have the role `review`.
- A change of the photos of a draft puts the date of the oldest over the one the
  reviewer typed, even in the same request (`import_review_drafts.py:29`); so
  `DatesFollowPhotos` makes no exception for a typed date.
- Photos of an incomplete draft do not stay with the place: they have the role
  `review`, and a place shows covers and gallery only (`imports.py:1449`).
  `src/README.md:108-110` says: "Incomplete review drafts are validation warnings and
  are omitted from review publishing; their photos remain attached to the place".
  `PublishesWhole` speaks of covers and gallery, so that it passes does not settle
  the disagreement; with all photos of the cluster in it TLC finds it violated.
- An API process that dies while publishing leaves the batch `publishing` for
  good. So does, without a crash, a claim whose commit succeeds without an answer
  (`imports.py:1112` is outside the `try`) and a release that finds no connection
  (`imports.py:1336`). `StrandedOnlyByFault` delimits it.
- `_refresh_manifest` locks nothing between its SELECTs and its UPDATE
  (`imports.py:1662`), so of two requests in two API processes the one that read
  first may store last; nothing rebuilds the manifest then (`met`).
- A PATCH of a cluster moves its point without a check of the radius
  (`imports.py:828`), and so do assignment and reassignment (`byHand`).
- The worker never checks its advisory lock again, so two may run after its idle
  connection is dropped (the theorems on claims exclude that), and the upload lock
  of a client file is lost in the same way (`RowHasObject` is stated until then).
- Recovery of a job whose batch is in review already processes it again, and for a
  local folder with a new file deletes the reviewer's clusters and drafts
  (`UploadReviewKept` confines this to local folders).
- A session that expires during its own refresh gets a whole new lifetime; a
  refresh whose answer is lost leaves a used token in the table.
- With two API processes a name blanked between validation and the claim is
  published blank, and a cleanup can delete an object between its copy and its
  registration. A cluster switched from merge to create after a failed
  publication publishes no place, and its photos are registered and shown nowhere.
- Two accounts that ask each other at the same time, through two processes, leave
  two pending requests; after one is accepted the other can
  only be rejected, until they part.
- A cleanup that dies after deleting an object leaves a row that can be attached
  again; an update whose answer is lost leaves attached rows that nothing refers
  to. Media attached by a superadmin make a later change of the photos by the
  place's owner fail with 403. The expiry compares `created_at` of the database's
  time zone with a threshold in UTC.
- A thread that clears the key cache between another's check and its use makes
  the other fail with an `AttributeError`, answered 500 and not 401; a late
  `store` may put an older key set over a newer one.
- Two courses that lock the same places in another order deadlock, and one is
  rolled back; a friendship is read from the snapshot of the first read and may
  have ended when the course is written.

## 6. Theorems

TLAPS proves, for every value of the constants that the named `ASSUME` allows:

| Module | Theorems | Invariant behind them |
|---|---|---|
| `ImportJobsProofs` | `TypeCorrect` | `TypeOK` with `RowsOK`: which jobs and batches rows and locals may name |
| | `AtMostOneActiveJob`, `NoBatchIsOrphaned`, under every fault | `RowInv`: both at once, and that an active job belongs to a batch that exists |
| | `OneWorker`, `ClaimExcludes`, `ReviewedIsProcessed`, in executions that keep the lock (`LockKept`) | `LockInv`: a worker that is up holds the lock; `RunInv`: what a worker knows of its batch at each place |
| | `RequestsImplemented`, likewise | `JobInv`: the job a worker holds is running, unless its batch was deleted |
| | `ReviewWorkKept`, likewise | `ReviewInv`: a batch edited since it was enqueued has all its assets processed while a job of it is left, and its run returns early |
| | `SoundWithoutFaults`, under every fault | `LockInv`, `RunInv` and `SoundInv`, all up to the first fault: what a run has made of its batch at each place; `ManifestInv`: a manifest that is outdated will be stored anew by a handler that has yet to read, or whose reading is fresh, unless requests met on the batch |
| `ImportReviewProofs` | `RowsAlwaysAgree`, `LinksStayInCluster` | `ReviewInv`: `RowsAgree` and `LinkInCluster`, inductive only together: a link that left its cluster would let a merge or a deletion of a cluster leave a dangling draft, and a merge keeps links right only because both sides of each named one cluster |
| | `DraftsAreDated`, `MergesKeepDrafts` | `ReviewInv` and, for every request, `Edited`: what it leaves sound and whom it has dated since |
| `ImportUploadsProofs` | `RowsHaveObjects` until a lock is lost, `NothingIsOrphaned` without crash and error | `UploadInv`: who is past the claim of a file, what its object and row are meanwhile; `Accounted`: an object without a row is that of an upload before its end, or of a deletion |
| `ImportPublishProofs` | `PublishTypeCorrect`, `PublishersExclude`, `IdsStayReserved`, `PublicationLasts`, `FaultsStrand` | `PublishInv`: whoever copies has the batch `publishing`, whoever lost the answer of its commit has it `published` |
| | `PublicationRefined`, `PublicationIsWhole` | `NothingYet`: before the status changes there is no place and no review of the batch, so the transaction writes every one of them itself; and the reservations are those of the plan |
| | `ShownIsStored`, one process and no crash inside a cleanup (`CleanupsEnd`) | `StoredInv`: what is registered or already copied is stored |
| `AuthProofs` (sessions) | `RefreshesExclude`, `LoginsAreSingle`, `GoneSessionsStayGone`, `TokensAreNotReplayed` | `LockInv`: the session, its waiters and its refresher name one lock, and the refresher holds it; who took a login transaction; which token is unused |
| `AuthProofs` (verifier) | `JwksTypeCorrect`, `TrustBounded`, `AloneRight` | how old each set of keys is, wherever it is: fetched, stored, stamped or returned |
| `SharingProofs` | `SharingTypeCorrect`, `RelationRefined`, `OneRequest`, `ListAndLookupAgree`, `AllServedIsOwned`, `OwnersAreKept`, `WritesOnOpenPlaces` | pairs are stored sorted, and who sends on an uncrossed pair is alone; rows that are held stay as they were checked; nobody serves before the migration |
| `ClusteringProofs` | `ClusteringTypeCorrect`, `ComputesFirstFit`, `KeepsNear` | the loop invariant: every photo once, what was passed did not fit when it was looked at; medoids exist (well-founded induction on the sums) |
| `MediaProofs` | `MediaTypeCorrect`, `UsedMediaStored`, `ToldMediaStored`, `FreshUploadsStay`, `NothingIsLost` | `Accounted` and `Tidy`: every row a client knows has its object, or is one that the cleanup in hand or the next startup deletes; what a cleanup deletes nothing refers to |

The invariants of the properties are not inductive alone: `OneActiveJob`, for
one, survives a deletion only because jobs go with their batch, `OneRefresh`
only because an object hands its lock on, and `ReferencedIsStored` of `Media`
only because a row chosen for deletion is not attached before it is deleted, the
process being one. The theorems on claims
assume `LockKept`: that no step of the execution is `LoseLock`, whatever other faults
`Faults` holds; `ShownIsStored` assumes in the same way that no step is a
`CleanupCrash`. `SoundWithoutFaults` and `RowsHaveObjects` need no such assumption,
because `SoundUntilFault` and `RowHasObject` themselves speak of executions up to the
first fault, or the first lost upload lock.

A request of `ImportReview` is a composition of operators, one per SQL statement,
and its rows are wrong between two of them: a merge moves the photos, then makes
their cover, then moves the drafts, then deletes the clusters. So the proof is not
about states but about rows. `CoveredBut(r, X)` says that clusters, covers and
representatives are right in `r` but for those of the clusters `X`, and
`LinksBut(r, S)` that links are but for those of the photos `S`; each operator has
a lemma that says which exceptions it adds and which it removes, each request
composes these lemmas to rows without exceptions, and `DatedSince(p, r)` goes along
for the dates. The constants are assumed to be what they stand for, sets of
photos of a batch that is finite (for a least date to exist), and sets of located
photos that fit one radius; nothing is assumed of numbers, of who fits whom, or of
when a job fails.

Every safety invariant, action property and refinement that a run checks is stated
by a theorem, some under the assumption on faults that the table names. Model-checked
only: liveness under fairness (`BatchSettles`, `RequestsEnd`), which is out of this
prover's reach, because TLAPS has no rules for `ENABLED`. The finding of section 5 is
a counterexample and has no theorem.

Each `TypeOK` is proved, some as a part of a theorem on a property
(`RowsAlwaysAgree`, `RowsHaveObjects`, `RefreshesExclude`); the runs do not repeat
it. The verifier and the sessions, which the same requests go through, share one
module of proofs, so the definitions of `JwksCache` carry its name (`JwksInit`,
`JwksNext`, `JwksSpec`).

## 7. Not modelled

Parsing of map pages and links (`services/place_links.py`), of EXIF and images;
the layout of the manifest and of course documents; texts, categories and
coordinates; signed URLs, thumbnails made on reading, logging; the statements
that add columns and indexes; access applications, which forward one call; wire
formats of OIDC, signatures and claims of tokens; the saved state of the local S3
emulator other than as a put that fails after it took effect. None of these keeps
state that another step reads, or its state is one value written and read whole.

MariaDB is taken to run the statements of one transaction atomically where the
code locks the rows it reads (`FOR UPDATE`), in the order of their commits. Where
a handler reads without a lock (`send_friend_request`, courses, reviews, the cleanup
of `Media`) its reads and its writes are separate steps. The cleanup of
`ImportPublish` is one step, as it is in one process, and what it deletes is claimed
to be unused for one process only.

## 8. Plan

1. `Media` with two API processes, where expiry at the start of one races with
   attachment in the other, and its composition with `ImportPublish`.
2. The publication of `ImportPublish` inside `ImportJobs`, in place of its two
   transactions, so that one specification shows `published_reverts` with the
   places it would publish twice.
3. A run in which the photos of an incomplete draft must stay with the place, as the
   repository's README has it, as a finding of its own.
4. What of the claims survives the loss of the advisory lock, as theorems without an
   assumption on it: today only `OneActiveJob` and `NoOrphanedBatch` are.
