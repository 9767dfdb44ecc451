----------------------------- MODULE ImportJobs -----------------------------
(***************************************************************************)
(* The life of a photo-import batch: the API enqueues, edits, publishes    *)
(* and deletes batches (routers/imports.py), a worker process claims and   *)
(* runs their jobs (import_worker.py, services/import_processor.py), and   *)
(* both meet only in the rows of MariaDB (services/import_repository.py).  *)
(*                                                                         *)
(* One action is one committed transaction.  The handlers of one API       *)
(* process contain no await once their transaction starts, so an API       *)
(* process runs one handler at a time; a handler of several transactions   *)
(* keeps its place in apc/abatch, the worker keeps its place in wpc/wjob.  *)
(***************************************************************************)
EXTENDS Naturals

CONSTANTS
  Batch,        (* import batches                                          *)
  LocalBatch,   (* those of source_type 'local'; the others are 'upload'   *)
  File,         (* files an asset row can stand for                        *)
  Upload,       (* files that clients upload                               *)
  Archive,      (* uploaded files that are zip archives                    *)
  Members,      (* the files inside each archive                           *)
  LocalFile,    (* files a local source directory may hold                 *)
  Worker,       (* import worker processes                                 *)
  Api,          (* API processes                                           *)
  None,         (* no worker, no batch                                     *)
  MaxJobs,      (* bound: job rows ever inserted                           *)
  Faults,       (* kinds of fault the environment may inject               *)
  MaxFaults     (* bound: faults injected in a behaviour                   *)

FaultKind == {"crash", "error", "stop", "lockloss", "apicrash"}

ASSUME ConstantsAssumption ==
  /\ LocalBatch \subseteq Batch
  /\ Upload \subseteq File /\ LocalFile \subseteq File
  /\ Archive \subseteq Upload /\ Archive \cap LocalFile = {}
  /\ Members \in [Archive -> SUBSET (File \ Archive)]
  /\ None \notin Batch /\ None \notin Worker
  /\ MaxJobs \in Nat /\ MaxFaults \in Nat
  /\ Faults \subseteq FaultKind

VARIABLES
  status,     (* travel_import_batches.status, "none" before the insert    *)
  files,      (* asset rows of each batch                                  *)
  done,       (* those with processed_at set                               *)
  covered,    (* those the last _replace_clusters clustered                *)
  manifest,   (* manifest_json beside clusters and review work: absent,    *)
              (* older, or telling what the rows do                        *)
  fresh,      (* handlers whose reading of the rows is still what they say *)
  met,        (* batches on which two requests have overlapped (history)   *)
  edited,     (* review work done on the batch since it was last enqueued  *)
  jobBatch,   (* travel_import_jobs.batch_id                               *)
  jobStatus,  (* travel_import_jobs.status, "none" before the insert       *)
  njobs,      (* jobs inserted; a job's number is its created_at           *)
  stale,      (* running jobs without a heartbeat for the stale period     *)
  lock,       (* holder of the advisory lock 'travel-import-worker'        *)
  wpc,        (* where each worker process is                              *)
  wjob,       (* the job it runs, 0 if none                                *)
  wtodo,      (* unprocessed assets of the list it loaded                  *)
  wfull,      (* its requires_full_processing                              *)
  apc,        (* where each API process is                                 *)
  abatch,     (* the batch its handler works on                            *)
  faults      (* faults injected so far                                    *)

batchVars  == <<status, files, done, covered, manifest, fresh, met, edited>>
jobVars    == <<jobBatch, jobStatus, njobs, stale>>
workerVars == <<lock, wpc, wjob, wtodo, wfull>>
apiVars    == <<apc, abatch>>
vars       == <<batchVars, jobVars, workerVars, apiVars, faults>>

Job == 1..MaxJobs

BatchStatus == {"none", "draft", "queued", "processing", "ready",
                "publishing", "published", "failed", "deleted"}
JobStatus   == {"none", "queued", "running", "completed", "failed", "deleted"}

\* Worker program counters, in the order of main and process.
Working  == {"discover", "load", "process", "cluster", "geocode", "persist",
             "complete"}
WorkerPC == {"down", "idle", "failing"} \cup Working
ApiPC    == {"idle", "publishing", "refresh", "store"}

BatchesOK ==
  /\ status \in [Batch -> BatchStatus]
  /\ files \in [Batch -> SUBSET File]
  /\ done \in [Batch -> SUBSET File]
  /\ covered \in [Batch -> SUBSET File]
  /\ manifest \in [Batch -> {"none", "outdated", "current"}]
  /\ fresh \subseteq Api
  /\ met \subseteq Batch
  /\ edited \in [Batch -> BOOLEAN]

JobsOK ==
  /\ njobs \in 0..MaxJobs
  /\ jobBatch \in [Job -> Batch \cup {None}]
  /\ jobStatus \in [Job -> JobStatus]
  /\ stale \subseteq Job

WorkersOK ==
  /\ lock \in Worker \cup {None}
  /\ wpc \in [Worker -> WorkerPC]
  /\ wjob \in [Worker -> 0..MaxJobs]
  /\ wtodo \in [Worker -> SUBSET File]
  /\ wfull \in [Worker -> BOOLEAN]

ApisOK ==
  /\ apc \in [Api -> ApiPC]
  /\ abatch \in [Api -> Batch \cup {None}]

TypeOK == BatchesOK /\ JobsOK /\ WorkersOK /\ ApisOK /\ faults \in 0..MaxFaults

\* The job rows are the first njobs, a worker inside its loop body has one of
\* them, and a handler between two transactions has a batch.
InLoop(w) == wpc[w] \in Working \cup {"failing"}

RowsOK ==
  /\ \A j \in Job : IF j <= njobs THEN jobBatch[j] \in Batch /\ jobStatus[j] # "none"
                                  ELSE jobBatch[j] = None /\ jobStatus[j] = "none"
  /\ \A w \in Worker : wjob[w] <= njobs /\ (InLoop(w) => wjob[w] # 0)
  /\ \A a \in Api : apc[a] # "idle" => abatch[a] \in Batch

Init ==
  /\ status = [b \in Batch |-> "none"]
  /\ files = [b \in Batch |-> {}]
  /\ done = [b \in Batch |-> {}]
  /\ covered = [b \in Batch |-> {}]
  /\ manifest = [b \in Batch |-> "none"]
  /\ fresh = {}
  /\ met = {}
  /\ edited = [b \in Batch |-> FALSE]
  /\ njobs = 0
  /\ jobBatch = [j \in Job |-> None]
  /\ jobStatus = [j \in Job |-> "none"]
  /\ stale = {}
  /\ lock = None
  /\ wpc = [w \in Worker |-> "down"]
  /\ wjob = [w \in Worker |-> 0]
  /\ wtodo = [w \in Worker |-> {}]
  /\ wfull = [w \in Worker |-> FALSE]
  /\ apc = [a \in Api |-> "idle"]
  /\ abatch = [a \in Api |-> None]
  /\ faults = 0

-----------------------------------------------------------------------------
(* Conditions the statements of the repository test.                       *)

Exists(b)    == status[b] \notin {"none", "deleted"}
Active(j)    == jobStatus[j] \in {"queued", "running"}
\* Mutant: a running job does not count as active.
HasQueued(b) == \E j \in Job : jobBatch[j] = b /\ jobStatus[j] = "queued"
HasActive(b) == \E j \in Job : jobBatch[j] = b /\ Active(j)

\* Mutant: the allowed statuses are read as a deny list.
MutableUnlessPublished(b) == Exists(b) /\ status[b] \notin {"publishing", "published"}
\* lock_mutable_batch with its default allowed_statuses.
Mutable(b)      == status[b] \in {"draft", "failed", "ready"}
\* Mutant: uploads use the default allowed statuses.
AcceptsFilesInReview(b) == Mutable(b)
AcceptsFiles(b) == status[b] \in {"draft", "failed"}
Processable(b)  == Exists(b) /\ status[b] \notin {"ready", "publishing", "published"}

\* An UPDATE of the batch row by id, which touches nothing when it is gone.
SetStatus(b, s) == status' = [status EXCEPT ![b] = IF Exists(b) THEN s ELSE @]

\* A change of clusters or review work: the manifest stored, and every reading
\* of the rows that a handler has yet to store, are older than the rows now.
ChangeRows(b) ==
  /\ manifest' = [manifest EXCEPT ![b] = IF @ = "current" THEN "outdated" ELSE @]
  /\ fresh' = {a \in fresh : abatch[a] # b}

\* Another handler is still at work on the batch.
Meet(b) == met' = IF \E a \in Api : abatch[a] = b THEN met \cup {b} ELSE met

-----------------------------------------------------------------------------
(* The API process: one action per transaction of a handler.               *)

Idle(a) == apc[a] = "idle"

\* POST /api/imports
CreateBatch(a, b) ==
  /\ Idle(a)
  /\ status[b] = "none"
  /\ status' = [status EXCEPT ![b] = "draft"]
  /\ UNCHANGED <<files, done, covered, manifest, fresh, met, edited, jobVars, workerVars,
                 apiVars, faults>>

\* POST /{batch_id}/files, the transaction of _add_uploaded_asset.
UploadFile(a, b, f) ==
  /\ Idle(a)
  /\ b \notin LocalBatch
  /\ AcceptsFiles(b)
  /\ files' = [files EXCEPT ![b] = @ \cup {f}]
  /\ UNCHANGED <<status, done, covered, manifest, fresh, met, edited, jobVars, workerVars,
                 apiVars, faults>>

\* POST /{batch_id}/process: a batch with an active job answers with that job.
Enqueue(a, b) ==
  /\ Idle(a)
  /\ b \in LocalBatch \/ files[b] # {}
  /\ Processable(b)
  /\ ~HasActive(b)
  /\ njobs < MaxJobs
  /\ njobs' = njobs + 1
  /\ jobBatch' = [jobBatch EXCEPT ![njobs + 1] = b]
  /\ jobStatus' = [jobStatus EXCEPT ![njobs + 1] = "queued"]
  /\ status' = [status EXCEPT ![b] = "queued"]
  /\ edited' = [edited EXCEPT ![b] = FALSE]
  /\ Meet(b)
  /\ UNCHANGED <<files, done, covered, manifest, fresh, stale, workerVars, apiVars, faults>>

\* DELETE /{batch_id}: the foreign keys delete the assets, clusters and jobs.
DeleteBatch(a, b) ==
  /\ Idle(a)
  /\ Mutable(b)
  /\ status' = [status EXCEPT ![b] = "deleted"]
  /\ files' = [files EXCEPT ![b] = {}]
  /\ done' = [done EXCEPT ![b] = {}]
  /\ covered' = [covered EXCEPT ![b] = {}]
  /\ manifest' = [manifest EXCEPT ![b] = "none"]
  /\ edited' = [edited EXCEPT ![b] = FALSE]
  /\ jobStatus' = [j \in Job |-> IF jobBatch[j] = b THEN "deleted" ELSE jobStatus[j]]
  /\ stale' = {j \in stale : jobBatch[j] # b}
  /\ UNCHANGED <<fresh, met, jobBatch, njobs, workerVars, apiVars, faults>>

\* Every review mutation (assets, clusters, review drafts) commits under
\* _lock_draft_mutation and then calls _refresh_manifest, a second transaction.
EditReview(a, b) ==
  /\ Idle(a)
  /\ Mutable(b)
  /\ files[b] # {}
  /\ edited' = [edited EXCEPT ![b] = TRUE]
  /\ ChangeRows(b)
  /\ Meet(b)
  /\ apc' = [apc EXCEPT ![a] = "refresh"]
  /\ abatch' = [abatch EXCEPT ![a] = b]
  /\ UNCHANGED <<status, files, done, covered, jobVars, workerVars, faults>>

\* POST /{batch_id}/publish, first transaction: _claim_publish_batch.
ClaimPublish(a, b) ==
  /\ Idle(a)
  /\ status[b] = "ready"
  /\ status' = [status EXCEPT ![b] = "publishing"]
  /\ apc' = [apc EXCEPT ![a] = "publishing"]
  /\ abatch' = [abatch EXCEPT ![a] = b]
  /\ Meet(b)
  /\ UNCHANGED <<files, done, covered, manifest, fresh, edited, jobVars, workerVars,
                 faults>>

\* Second transaction: _publish_batch, which never looks at the status.
CommitPublish(a) ==
  /\ apc[a] = "publishing"
  /\ SetStatus(abatch[a], "published")
  /\ ChangeRows(abatch[a])
  /\ apc' = [apc EXCEPT ![a] = "refresh"]
  /\ UNCHANGED <<files, done, covered, met, edited, jobVars, workerVars, abatch, faults>>

\* Or the exception handler around it: _release_publish_batch.
ReleasePublish(a) ==
  /\ apc[a] = "publishing"
  /\ status' = [status EXCEPT ![abatch[a]] = IF @ = "publishing" THEN "ready" ELSE @]
  /\ apc' = [apc EXCEPT ![a] = "idle"]
  /\ abatch' = [abatch EXCEPT ![a] = None]
  /\ UNCHANGED <<files, done, covered, manifest, fresh, met, edited, jobVars, workerVars,
                 faults>>

\* Last transaction of an edit or a publication, _refresh_manifest: the rows are
\* read without a lock, and nothing is stored when the batch is gone.
ReadManifest(a) ==
  /\ apc[a] = "refresh"
  /\ IF Exists(abatch[a])
     THEN /\ apc' = [apc EXCEPT ![a] = "store"]
          /\ fresh' = fresh \cup {a}
          /\ UNCHANGED abatch
     ELSE /\ apc' = [apc EXCEPT ![a] = "idle"]
          /\ abatch' = [abatch EXCEPT ![a] = None]
          /\ UNCHANGED fresh
  /\ UNCHANGED <<status, files, done, covered, manifest, met, edited, jobVars,
                 workerVars, faults>>

\* Its UPDATE, whatever has happened to the rows since.
Manifest(a) ==
  IF ~Exists(abatch[a]) THEN manifest[abatch[a]]
  ELSE IF a \in fresh THEN "current" ELSE "outdated"

\* Mutant: only edits store the manifest.
StoreManifestEdits(a) ==
  /\ apc[a] = "store"
  /\ manifest' = [manifest EXCEPT ![abatch[a]] =
                    IF status[abatch[a]] = "published" THEN @ ELSE Manifest(a)]
  /\ fresh' = fresh \ {a}
  /\ apc' = [apc EXCEPT ![a] = "idle"]
  /\ abatch' = [abatch EXCEPT ![a] = None]
  /\ UNCHANGED <<status, files, done, covered, met, edited, jobVars, workerVars, faults>>

StoreManifest(a) ==
  /\ apc[a] = "store"
  /\ manifest' = [manifest EXCEPT ![abatch[a]] = Manifest(a)]
  /\ fresh' = fresh \ {a}
  /\ apc' = [apc EXCEPT ![a] = "idle"]
  /\ abatch' = [abatch EXCEPT ![a] = None]
  /\ UNCHANGED <<status, files, done, covered, met, edited, jobVars, workerVars, faults>>

-----------------------------------------------------------------------------
(* The worker process.                                                     *)

Owned(w)    == jobBatch[wjob[w]]
Goto(w, pc) == wpc' = [wpc EXCEPT ![w] = pc]

\* update_job_progress: the heartbeat that keeps a claim from going stale.
Heartbeat(w) == stale' = stale \ {wjob[w]}

\* An UPDATE of the job row by id, which touches nothing when it is gone.
SetJob(w, s) ==
  jobStatus' = [jobStatus EXCEPT ![wjob[w]] = IF @ = "deleted" THEN @ ELSE s]

\* The locals of process and of the loop body go out of scope.
ForgetJob(w) ==
  /\ wjob' = [wjob EXCEPT ![w] = 0]
  /\ wtodo' = [wtodo EXCEPT ![w] = {}]
  /\ wfull' = [wfull EXCEPT ![w] = FALSE]

Unlocked(w) == lock' = IF lock = w THEN None ELSE lock

\* Mutant: the advisory lock is not tested.
StartWorkerUnlocked(w) ==
  /\ wpc[w] = "down"
  /\ lock' = w
  /\ Goto(w, "idle")
  /\ UNCHANGED <<batchVars, jobVars, wjob, wtodo, wfull, apiVars, faults>>

\* main up to its loop: GET_LOCK('travel-import-worker', 0) or exit.
StartWorker(w) ==
  /\ wpc[w] = "down"
  /\ lock = None
  /\ lock' = w
  /\ Goto(w, "idle")
  /\ UNCHANGED <<batchVars, jobVars, wjob, wtodo, wfull, apiVars, faults>>

\* Mutant: stale claims are not recovered.
RecoveredNone == {}
\* claim_next_job: stale claims go back to the queue, the oldest queued job is
\* taken, and its batch becomes 'processing' whatever it was.
Recovered == {j \in Job : jobStatus[j] = "running" /\ j \in stale}
Queue     == {j \in Job : jobStatus[j] = "queued"} \cup Recovered

ClaimJob(w) ==
  /\ wpc[w] = "idle"
  /\ \E j \in Queue :
       /\ \A i \in Queue : j <= i
       /\ jobStatus' = [i \in Job |-> IF i = j THEN "running"
                                     ELSE IF i \in Recovered THEN "queued"
                                     ELSE jobStatus[i]]
       /\ stale' = stale \ Recovered
       /\ SetStatus(jobBatch[j], "processing")
       /\ wjob' = [wjob EXCEPT ![w] = j]
  /\ Goto(w, "discover")
  /\ UNCHANGED <<files, done, covered, manifest, fresh, met, edited, jobBatch, njobs, lock,
                 wtodo, wfull, apiVars, faults>>

\* claim_next_job finds nothing; the worker sleeps and polls again.
PollEmptyQueue(w) ==
  /\ wpc[w] = "idle"
  /\ Queue = {}
  /\ UNCHANGED vars

\* _load_batch raises when the row is gone; _discover_local_assets registers
\* what the walk of a local source finds this time in one transaction.
Discover(w) ==
  /\ wpc[w] = "discover"
  /\ Goto(w, IF Exists(Owned(w)) THEN "load" ELSE "failing")
  /\ \/ /\ Exists(Owned(w))
        /\ Owned(w) \in LocalBatch
        /\ \E found \in SUBSET LocalFile :
             files' = [files EXCEPT ![Owned(w)] = @ \cup found]
     \/ /\ ~Exists(Owned(w)) \/ Owned(w) \notin LocalBatch
        /\ UNCHANGED files
  /\ UNCHANGED <<status, done, covered, manifest, fresh, met, edited, jobVars, lock, wjob,
                 wtodo, wfull, apiVars, faults>>

\* _expand_uploaded_zips: the members one transaction at a time, then the mark.
Pending(b) == IF b \in LocalBatch THEN {} ELSE (files[b] \cap Archive) \ done[b]

ExtractMember(w) ==
  /\ wpc[w] = "load"
  /\ \E z \in Pending(Owned(w)) : \E m \in Members[z] \ files[Owned(w)] :
       files' = [files EXCEPT ![Owned(w)] = @ \cup {m}]
  /\ UNCHANGED <<status, done, covered, manifest, fresh, met, edited, jobVars, workerVars,
                 apiVars, faults>>

FinishArchive(w) ==
  /\ wpc[w] = "load"
  /\ \E z \in Pending(Owned(w)) :
       /\ Members[z] \subseteq files[Owned(w)]
       /\ done' = [done EXCEPT ![Owned(w)] = @ \cup {z}]
  /\ UNCHANGED <<status, files, covered, manifest, fresh, met, edited, jobVars, workerVars,
                 apiVars, faults>>

\* _load_assets and requires_full_processing.
LoadAssets(w) ==
  /\ wpc[w] = "load"
  /\ Pending(Owned(w)) = {}
  /\ wtodo' = [wtodo EXCEPT ![w] = files[Owned(w)] \ done[Owned(w)]]
  /\ wfull' = [wfull EXCEPT ![w] = files[Owned(w)] # done[Owned(w)]]
  /\ Goto(w, "process")
  /\ Heartbeat(w)
  /\ UNCHANGED <<batchVars, jobBatch, jobStatus, njobs, lock, wjob, apiVars, faults>>

\* One turn of the loop over the assets.
ProcessAsset(w) ==
  /\ wpc[w] = "process"
  /\ \E f \in wtodo[w] :
       /\ done' = [done EXCEPT ![Owned(w)] = @ \cup ({f} \cap files[Owned(w)])]
       /\ wtodo' = [wtodo EXCEPT ![w] = @ \ {f}]
  /\ Heartbeat(w)
  /\ UNCHANGED <<status, files, covered, manifest, fresh, met, edited, jobBatch, jobStatus,
                 njobs, lock, wpc, wjob, wfull, apiVars, faults>>

\* Mutant: the early return is dropped.
AfterAssetsAlways(w) == "cluster"
\* The early return: nothing was unprocessed when the list was loaded.
AfterAssets(w) == IF wfull[w] THEN "cluster" ELSE "complete"

FinishAssets(w) ==
  /\ wpc[w] = "process"
  /\ wtodo[w] = {}
  /\ Goto(w, AfterAssets(w))
  /\ UNCHANGED <<batchVars, jobVars, lock, wjob, wtodo, wfull, apiVars, faults>>

\* _replace_clusters: the old clusters go, and their review drafts with them.
ReplaceClusters(w) ==
  /\ wpc[w] = "cluster"
  /\ covered' = [covered EXCEPT ![Owned(w)] = done[Owned(w)] \ Archive]
  /\ ChangeRows(Owned(w))
  /\ Goto(w, "geocode")
  /\ Heartbeat(w)
  /\ UNCHANGED <<status, files, done, met, edited, jobBatch, jobStatus, njobs, lock,
                 wjob, wtodo, wfull, apiVars, faults>>

\* _reverse_geocode and _apply_geocode of every cluster.
Geocode(w) ==
  /\ wpc[w] = "geocode"
  /\ Goto(w, "persist")
  /\ Heartbeat(w)
  /\ UNCHANGED <<batchVars, jobBatch, jobStatus, njobs, lock, wjob, wtodo, wfull,
                 apiVars, faults>>

\* _persist_manifest makes the batch 'ready' while its job is still running.  (It
\* reads first too, but until its UPDATE the batch is closed to every request.)
PersistManifest(w) ==
  /\ wpc[w] = "persist"
  /\ Goto(w, IF Exists(Owned(w)) THEN "complete" ELSE "failing")
  /\ SetStatus(Owned(w), "ready")
  /\ manifest' = [manifest EXCEPT ![Owned(w)] = IF Exists(Owned(w)) THEN "current" ELSE @]
  /\ UNCHANGED <<files, done, covered, fresh, met, edited, jobVars, lock, wjob,
                 wtodo, wfull, apiVars, faults>>

\* complete_job and fail_job look at neither status they overwrite.
EndJob(w, js, bs) ==
  /\ SetJob(w, js)
  /\ SetStatus(Owned(w), bs)
  /\ Heartbeat(w)
  /\ ForgetJob(w)
  /\ Goto(w, "idle")
  /\ UNCHANGED <<files, done, covered, manifest, fresh, met, edited, jobBatch, njobs, lock,
                 apiVars, faults>>

CompleteJob(w) == wpc[w] = "complete" /\ EndJob(w, "completed", "ready")
\* Mutant: a failed job leaves its batch as it is.
FailJobOnly(w) == wpc[w] = "failing" /\ EndJob(w, "failed", status[Owned(w)])
FailJob(w)     == wpc[w] = "failing" /\ EndJob(w, "failed", "failed")

-----------------------------------------------------------------------------
(* The environment: time, faults of the worker, of its connection, of the  *)
(* API.                                                                    *)

Inject(kind) ==
  /\ kind \in Faults
  /\ faults < MaxFaults
  /\ faults' = faults + 1

\* TRAVEL_IMPORT_JOB_STALE_SECONDS pass without a heartbeat.
GoStale(j) ==
  /\ jobStatus[j] = "running"
  /\ j \notin stale
  /\ stale' = stale \cup {j}
  /\ UNCHANGED <<batchVars, jobBatch, jobStatus, njobs, workerVars, apiVars, faults>>

\* Any statement of process or complete_job may raise (storage, geocoder, SQL).
RaiseError(w) ==
  /\ Inject("error")
  /\ wpc[w] \in Working
  /\ Goto(w, "failing")
  /\ UNCHANGED <<batchVars, jobVars, lock, wjob, wtodo, wfull, apiVars>>

Exit(w) ==
  /\ Goto(w, "down")
  /\ ForgetJob(w)
  /\ Unlocked(w)
  /\ UNCHANGED <<batchVars, jobVars, apiVars>>

\* The process is killed, or claim_next_job or fail_job raises out of main.
CrashWorker(w) == Inject("crash") /\ wpc[w] # "down" /\ Exit(w)
\* SIGTERM: the loop ends once the job in hand has ended.
StopWorker(w)  == Inject("stop") /\ wpc[w] = "idle" /\ Exit(w)

\* The server closes the connection that holds the advisory lock and that the
\* worker never uses again; main does not notice.
LoseLock ==
  /\ Inject("lockloss")
  /\ lock # None
  /\ lock' = None
  /\ UNCHANGED <<batchVars, jobVars, wpc, wjob, wtodo, wfull, apiVars>>

\* The API process is killed, or its handler ends with an exception before its
\* last transaction (no connection, the answer to a commit lost).
CrashApi(a) ==
  /\ Inject("apicrash")
  /\ apc[a] # "idle"
  /\ fresh' = fresh \ {a}
  /\ apc' = [apc EXCEPT ![a] = "idle"]
  /\ abatch' = [abatch EXCEPT ![a] = None]
  /\ UNCHANGED <<status, files, done, covered, manifest, met, edited, jobVars,
                 workerVars>>

-----------------------------------------------------------------------------
ApiStep(a) ==
  \/ \E b \in Batch : CreateBatch(a, b)
  \/ \E b \in Batch, f \in Upload : UploadFile(a, b, f)
  \/ \E b \in Batch : Enqueue(a, b)
  \/ \E b \in Batch : DeleteBatch(a, b)
  \/ \E b \in Batch : EditReview(a, b)
  \/ \E b \in Batch : ClaimPublish(a, b)
  \/ CommitPublish(a)
  \/ ReleasePublish(a)
  \/ ReadManifest(a)
  \/ StoreManifest(a)

WorkerStep(w) ==
  \/ ClaimJob(w)
  \/ PollEmptyQueue(w)
  \/ Discover(w)
  \/ ExtractMember(w)
  \/ FinishArchive(w)
  \/ LoadAssets(w)
  \/ ProcessAsset(w)
  \/ FinishAssets(w)
  \/ ReplaceClusters(w)
  \/ Geocode(w)
  \/ PersistManifest(w)
  \/ CompleteJob(w)
  \/ FailJob(w)

Environment ==
  \/ \E j \in Job : GoStale(j)
  \/ \E w \in Worker : RaiseError(w)
  \/ \E w \in Worker : CrashWorker(w)
  \/ \E w \in Worker : StopWorker(w)
  \/ LoseLock
  \/ \E a \in Api : CrashApi(a)

Next ==
  \/ \E a \in Api : ApiStep(a)
  \/ \E w \in Worker : StartWorker(w)
  \/ \E w \in Worker : WorkerStep(w)
  \/ Environment

Spec == Init /\ [][Next]_vars

\* A live worker runs, a dead one is restarted (--restart unless-stopped), time
\* passes, and a handler that has started runs to its end.
Fairness ==
  /\ \A w \in Worker : WF_vars(StartWorker(w)) /\ WF_vars(WorkerStep(w))
  /\ \A j \in Job : WF_vars(GoStale(j))
  /\ \A a \in Api : WF_vars(CommitPublish(a) \/ ReleasePublish(a))
  /\ \A a \in Api : WF_vars(ReadManifest(a)) /\ WF_vars(StoreManifest(a))

FairSpec == Spec /\ Fairness

-----------------------------------------------------------------------------
(* Invariants.                                                             *)

\* A batch never has two jobs that are queued or running, however many workers
\* run and however their claims expire.
OneActiveJob ==
  \A i, j \in Job : Active(i) /\ Active(j) /\ jobBatch[i] = jobBatch[j] => i = j

\* A batch that refuses every edit because it is queued or processing has a job
\* that will still move it: no crash or expired claim strands it there.
NoOrphanedBatch ==
  \A b \in Batch : status[b] \in {"queued", "processing"} => HasActive(b)

\* At most one worker is past its start-up (as long as the lock is not lost).
SingleWorker ==
  \A v, w \in Worker : wpc[v] # "down" /\ wpc[w] # "down" => v = w

\* From the claim until the manifest is persisted, the job of a worker is
\* 'running' and its batch is closed to uploads, edits, publication and deletion.
\* (It may be 'published' under the worker's hands: see PublishedIsFinal.)
ClaimIsExclusive ==
  \A w \in Worker : wpc[w] \in Working \ {"complete"} =>
    /\ jobStatus[wjob[w]] = "running"
    /\ status[Owned(w)] \in {"processing", "published"}

\* A batch open to review, or claimed for publication, has no unprocessed asset,
\* whichever uploads raced with its processing and however often it was resumed.
ReadyIsProcessed ==
  \A b \in Batch : status[b] \in {"ready", "publishing"} => files[b] = done[b]

Offered(b) == status[b] \in {"ready", "publishing", "published"}

\* 'Ready' means that processing has completed: every asset took part in the
\* clustering and there is a manifest to export.
ReadyIsComplete ==
  \A b \in Batch : Offered(b) /\ files[b] \ Archive # {} =>
    covered[b] = files[b] \ Archive /\ manifest[b] # "none"

\* Once no handler works on an offered batch, its manifest tells what the rows do,
\* unless requests of two API processes have overlapped on the batch: then the one
\* that stores last may have read first, and nothing rebuilds the manifest.
ManifestCurrent ==
  \A b \in Batch \ met : status[b] \in {"ready", "published"} /\ manifest[b] = "outdated"
    => \E a \in Api : abatch[a] = b

\* Until a worker, its machine or a handler fails, what is offered is whole, and its
\* manifest current as far as requests did not overlap.
SoundUntilFault == faults = 0 => ReadyIsComplete /\ ManifestCurrent

-----------------------------------------------------------------------------
(* Action properties.                                                      *)

\* A step of w that deletes the clusters of its batch and their review drafts.
DiscardsReview(w) == wpc[w] = "cluster" /\ wpc'[w] = "geocode" /\ edited[Owned(w)]

\* No job discards review work that was done after the batch was last enqueued,
\* when the assets of the batch were uploaded: a recovered run finds all of them
\* processed and takes the early return.  (A local folder may have new files.)
UploadReviewKept ==
  [][\A w \in Worker : DiscardsReview(w) => Owned(w) \in LocalBatch]_vars

\* A published batch cannot be processed, published or edited again.
PublishedIsFinal ==
  [][\A b \in Batch : status[b] = "published" => status'[b] = "published"]_vars

-----------------------------------------------------------------------------
(* Liveness.                                                               *)

\* Every enqueued batch is eventually handed back to its reviewer.
BatchSettles ==
  \A b \in Batch : status[b] \in {"queued", "processing"}
                    ~> status[b] \notin {"queued", "processing"}

-----------------------------------------------------------------------------
(* The rows implement a queue of requests with leases.                     *)

RequestOf(b) ==
  IF status[b] = "deleted" THEN "gone"
  ELSE IF \E j \in Job : jobBatch[j] = b /\ jobStatus[j] = "running" THEN "leased"
  ELSE IF \E j \in Job : jobBatch[j] = b /\ jobStatus[j] = "queued" THEN "pending"
  ELSE "idle"

Requests == INSTANCE ImportRequests WITH request <- [b \in Batch |-> RequestOf(b)]

\* Refinement: jobs, claims and recoveries are such a queue (one live worker).
ImplementsRequests == Requests!Spec

=============================================================================
