-------------------------- MODULE ImportJobsProofs --------------------------
(***************************************************************************)
(* What TLAPS proves of ImportJobs for all batches, files, workers, API    *)
(* processes, faults and bounds.                                           *)
(***************************************************************************)
EXTENDS ImportJobs, TLAPS

-----------------------------------------------------------------------------
(* Updates keep the types of functions, whether or not they hit the domain. *)

LEMMA ExceptType ==
  ASSUME NEW D, NEW S, NEW f \in [D -> S], NEW x, NEW v, x \in D => v \in S
  PROVE  [f EXCEPT ![x] = v] \in [D -> S]
OBVIOUS

LEMMA SetStatusType ==
  ASSUME BatchesOK, NEW b, NEW s \in BatchStatus, SetStatus(b, s)
  PROVE  status' \in [Batch -> BatchStatus]
<1> DEFINE v == IF Exists(b) THEN s ELSE status[b]
<1>1. b \in Batch => v \in BatchStatus
  BY DEF BatchesOK
<1>2. [status EXCEPT ![b] = v] \in [Batch -> BatchStatus]
  BY <1>1, ExceptType DEF BatchesOK
<1> QED
  BY <1>2 DEF SetStatus

LEMMA ChangeRowsType ==
  ASSUME BatchesOK, NEW b, ChangeRows(b)
  PROVE  manifest' \in [Batch -> {"none", "outdated", "current"}] /\ fresh' \subseteq Api
<1> DEFINE v == IF manifest[b] = "current" THEN "outdated" ELSE manifest[b]
<1>1. b \in Batch => v \in {"none", "outdated", "current"}
  BY DEF BatchesOK
<1> QED
  BY <1>1, ExceptType DEF BatchesOK, ChangeRows

LEMMA MeetType == ASSUME BatchesOK, NEW b \in Batch, Meet(b) PROVE met' \subseteq Batch
BY DEF BatchesOK, Meet

LEMMA GotoType ==
  ASSUME WorkersOK, NEW w, NEW pc \in WorkerPC, Goto(w, pc)
  PROVE  wpc' \in [Worker -> WorkerPC]
BY ExceptType DEF WorkersOK, Goto

LEMMA SetJobType ==
  ASSUME JobsOK, NEW w, NEW s \in JobStatus, SetJob(w, s)
  PROVE  jobStatus' \in [Job -> JobStatus]
<1> DEFINE v == IF jobStatus[wjob[w]] = "deleted" THEN jobStatus[wjob[w]] ELSE s
<1>1. wjob[w] \in Job => v \in JobStatus
  BY DEF JobsOK
<1>2. [jobStatus EXCEPT ![wjob[w]] = v] \in [Job -> JobStatus]
  BY <1>1, ExceptType DEF JobsOK
<1> QED
  BY <1>2 DEF SetJob

LEMMA ForgetJobType ==
  ASSUME WorkersOK, NEW w, ForgetJob(w)
  PROVE  /\ wjob' \in [Worker -> 0..MaxJobs]
         /\ wtodo' \in [Worker -> SUBSET File]
         /\ wfull' \in [Worker -> BOOLEAN]
BY ExceptType, ConstantsAssumption DEF WorkersOK, ForgetJob

LEMMA OwnedInBatch ==
  ASSUME TypeOK, RowsOK, NEW w \in Worker, InLoop(w)
  PROVE  wjob[w] \in Job /\ wjob[w] <= njobs /\ Owned(w) \in Batch
BY ConstantsAssumption DEF TypeOK, JobsOK, WorkersOK, RowsOK, InLoop, Job, Owned

-----------------------------------------------------------------------------
(* Every state has the declared types.                                     *)

LEMMA InitTypeOK == Init => TypeOK
BY ConstantsAssumption
DEF Init, TypeOK, BatchesOK, JobsOK, WorkersOK, ApisOK, BatchStatus, JobStatus, WorkerPC,
    ApiPC, Job

LEMMA ApiTypeOK ==
  ASSUME NEW a \in Api, TypeOK, ApiStep(a)
  PROVE  TypeOK'
<1> USE ConstantsAssumption
    DEF TypeOK, BatchesOK, JobsOK, WorkersOK, ApisOK, BatchStatus, JobStatus, ApiPC, Job,
        batchVars, jobVars, workerVars, apiVars
<1>1. ASSUME NEW b \in Batch, CreateBatch(a, b) PROVE TypeOK'
  BY <1>1 DEF CreateBatch
<1>2. ASSUME NEW b \in Batch, NEW f \in Upload, UploadFile(a, b, f) PROVE TypeOK'
  <2>1. files[b] \cup {f} \in SUBSET File
    OBVIOUS
  <2>2. files' \in [Batch -> SUBSET File]
    BY <1>2, <2>1, ExceptType DEF UploadFile
  <2> QED
    BY <1>2, <2>2 DEF UploadFile
<1>3. ASSUME NEW b \in Batch, Enqueue(a, b) PROVE TypeOK'
  BY <1>3, MeetType DEF Enqueue
<1>4. ASSUME NEW b \in Batch, DeleteBatch(a, b) PROVE TypeOK'
  BY <1>4 DEF DeleteBatch
<1>5. ASSUME NEW b \in Batch, EditReview(a, b) PROVE TypeOK'
  BY <1>5, ChangeRowsType, MeetType DEF EditReview
<1>6. ASSUME NEW b \in Batch, ClaimPublish(a, b) PROVE TypeOK'
  BY <1>6, MeetType DEF ClaimPublish
<1>7. CASE CommitPublish(a)
  BY <1>7, ChangeRowsType, SetStatusType DEF CommitPublish
<1>8. CASE ReleasePublish(a)
  <2> DEFINE b == abatch[a]
             s == IF status[b] = "publishing" THEN "ready" ELSE status[b]
  <2>1. [status EXCEPT ![b] = s] \in [Batch -> BatchStatus]
    BY ExceptType
  <2> QED
    BY <1>8, <2>1 DEF ReleasePublish
<1>9. CASE ReadManifest(a)
  <2>1. /\ fresh' \subseteq Api /\ apc' \in [Api -> ApiPC]
        /\ abatch' \in [Api -> Batch \cup {None}]
    <3>1. CASE Exists(abatch[a])
      BY <1>9, <3>1 DEF ReadManifest
    <3>2. CASE ~Exists(abatch[a])
      BY <1>9, <3>2 DEF ReadManifest
    <3> QED
      BY <3>1, <3>2
  <2> QED
    BY <1>9, <2>1 DEF ReadManifest
<1>10. CASE StoreManifest(a)
  <2> DEFINE b == abatch[a]
  <2>1. b \in Batch => Manifest(a) \in {"none", "outdated", "current"}
    BY DEF Manifest
  <2>2. [manifest EXCEPT ![b] = Manifest(a)] \in [Batch -> {"none", "outdated", "current"}]
    BY <2>1, ExceptType
  <2> QED
    BY <1>10, <2>2 DEF StoreManifest
<1> QED
  BY <1>1, <1>2, <1>3, <1>4, <1>5, <1>6, <1>7, <1>8, <1>9, <1>10 DEF ApiStep

LEMMA WorkerTypeOK ==
  ASSUME NEW w \in Worker, TypeOK, RowsOK, StartWorker(w) \/ WorkerStep(w)
  PROVE  TypeOK'
<1> USE ConstantsAssumption DEF TypeOK, batchVars, jobVars, workerVars, apiVars
<1> DEFINE o == Owned(w)
<1>pc. /\ \A pc : pc \in Working => pc \in WorkerPC
       /\ {"idle", "down", "failing"} \subseteq WorkerPC
       /\ {"ready", "failed", "processing"} \subseteq BatchStatus
       /\ {"completed", "failed", "running", "queued"} \subseteq JobStatus
  BY DEF WorkerPC, BatchStatus, JobStatus
<1>wk. Working = {"discover", "load", "process", "cluster", "geocode", "persist", "complete"}
  BY DEF Working
<1>1. CASE StartWorker(w)
  BY <1>1, <1>pc, GotoType DEF StartWorker, WorkersOK, BatchesOK, JobsOK, ApisOK
<1>2. CASE ClaimJob(w)
  <2>1. PICK j \in Queue :
          /\ jobStatus' = [i \in Job |-> IF i = j THEN "running"
                                        ELSE IF i \in Recovered THEN "queued"
                                        ELSE jobStatus[i]]
          /\ stale' = stale \ Recovered
          /\ SetStatus(jobBatch[j], "processing")
          /\ wjob' = [wjob EXCEPT ![w] = j]
    BY <1>2 DEF ClaimJob
  <2>2. j \in 0..MaxJobs
    BY <2>1 DEF Queue, Recovered, Job
  <2>3. JobsOK'
    BY <1>2, <1>pc, <2>1 DEF ClaimJob, JobsOK, Job
  <2>4. WorkersOK'
    BY <1>2, <1>pc, <1>wk, <2>1, <2>2, GotoType, ExceptType DEF ClaimJob, WorkersOK
  <2>5. BatchesOK'
    BY <1>2, <1>pc, <2>1, SetStatusType DEF ClaimJob, BatchesOK
  <2> QED
    BY <1>2, <2>3, <2>4, <2>5 DEF ClaimJob, ApisOK
<1>3. CASE PollEmptyQueue(w)
  BY <1>3 DEF PollEmptyQueue, vars, WorkersOK, BatchesOK, JobsOK, ApisOK, Job
<1>4. CASE Discover(w)
  <2>1. files' \in [Batch -> SUBSET File]
    <3>1. CASE UNCHANGED files
      BY <3>1 DEF BatchesOK
    <3>2. ASSUME NEW found \in SUBSET LocalFile,
                 files' = [files EXCEPT ![o] = files[o] \cup found]
          PROVE  files' \in [Batch -> SUBSET File]
      <4>1. o \in Batch => files[o] \cup found \in SUBSET File
        BY DEF BatchesOK
      <4> QED
        BY <3>2, <4>1, ExceptType DEF BatchesOK
    <3> QED
      BY <1>4, <3>1, <3>2 DEF Discover
  <2> QED
    BY <1>4, <1>pc, <1>wk, <2>1, GotoType DEF Discover, WorkersOK, BatchesOK, JobsOK, ApisOK
<1>5. CASE ExtractMember(w)
  <2>1. PICK z \in Pending(o) : \E m \in Members[z] \ files[o] :
          files' = [files EXCEPT ![o] = files[o] \cup {m}]
    BY <1>5 DEF ExtractMember
  <2>2. PICK m \in Members[z] \ files[o] : files' = [files EXCEPT ![o] = files[o] \cup {m}]
    BY <2>1
  <2>3. o \in Batch => files[o] \cup {m} \in SUBSET File
    BY <2>1, <2>2 DEF BatchesOK, Pending
  <2> QED
    BY <1>5, <2>2, <2>3, ExceptType DEF ExtractMember, WorkersOK, BatchesOK, JobsOK, ApisOK
<1>6. CASE FinishArchive(w)
  <2>1. PICK z \in Pending(o) : done' = [done EXCEPT ![o] = done[o] \cup {z}]
    BY <1>6 DEF FinishArchive
  <2>2. o \in Batch => done[o] \cup {z} \in SUBSET File
    BY <2>1 DEF BatchesOK, Pending
  <2> QED
    BY <1>6, <2>1, <2>2, ExceptType DEF FinishArchive, WorkersOK, BatchesOK, JobsOK, ApisOK
<1>7. CASE LoadAssets(w)
  <2>1. o \in Batch
    BY <1>7, OwnedInBatch DEF LoadAssets, InLoop, Working
  <2>2. files[o] \ done[o] \in SUBSET File
    BY <2>1 DEF BatchesOK
  <2> QED
    BY <1>7, <1>pc, <1>wk, <2>2, GotoType, ExceptType
    DEF LoadAssets, WorkersOK, BatchesOK, JobsOK, ApisOK, Heartbeat
<1>8. CASE ProcessAsset(w)
  <2>1. PICK f \in wtodo[w] :
          /\ done' = [done EXCEPT ![o] = done[o] \cup ({f} \cap files[o])]
          /\ wtodo' = [wtodo EXCEPT ![w] = wtodo[w] \ {f}]
    BY <1>8 DEF ProcessAsset
  <2>2. o \in Batch => done[o] \cup ({f} \cap files[o]) \in SUBSET File
    BY DEF BatchesOK
  <2>3. done' \in [Batch -> SUBSET File] /\ wtodo' \in [Worker -> SUBSET File]
    BY <2>1, <2>2, ExceptType DEF BatchesOK, WorkersOK
  <2> QED
    BY <1>8, <2>3 DEF ProcessAsset, WorkersOK, BatchesOK, JobsOK, ApisOK, Heartbeat
<1>9. CASE FinishAssets(w)
  BY <1>9, <1>pc, <1>wk, GotoType
  DEF FinishAssets, AfterAssets, WorkersOK, BatchesOK, JobsOK, ApisOK
<1>10. CASE ReplaceClusters(w)
  <2>1. o \in Batch => done[o] \ Archive \in SUBSET File
    BY DEF BatchesOK
  <2>2. covered' \in [Batch -> SUBSET File]
    BY <1>10, <2>1, ExceptType DEF ReplaceClusters, BatchesOK
  <2> QED
    BY <1>10, <1>pc, <1>wk, <2>2, GotoType, ChangeRowsType
    DEF ReplaceClusters, WorkersOK, BatchesOK, JobsOK, ApisOK, Heartbeat
<1>11. CASE Geocode(w)
  BY <1>11, <1>pc, <1>wk, GotoType DEF Geocode, WorkersOK, BatchesOK, JobsOK, ApisOK, Heartbeat
<1>12. CASE PersistManifest(w)
  <2> DEFINE m == IF Exists(o) THEN "current" ELSE manifest[o]
  <2>1. o \in Batch => m \in {"none", "outdated", "current"}
    BY DEF BatchesOK
  <2>2. [manifest EXCEPT ![o] = m] \in [Batch -> {"none", "outdated", "current"}]
    BY <2>1, ExceptType DEF BatchesOK
  <2>3. status' \in [Batch -> BatchStatus] /\ wpc' \in [Worker -> WorkerPC]
    BY <1>12, <1>pc, <1>wk, GotoType, SetStatusType DEF PersistManifest
  <2> QED
    BY <1>12, <2>2, <2>3 DEF PersistManifest, WorkersOK, BatchesOK, JobsOK, ApisOK
<1>13. ASSUME NEW js \in {"completed", "failed"}, NEW bs \in {"ready", "failed"},
              EndJob(w, js, bs)
       PROVE  TypeOK'
  BY <1>13, <1>pc, SetJobType, SetStatusType, GotoType, ForgetJobType
  DEF EndJob, Heartbeat, WorkersOK, BatchesOK, JobsOK, ApisOK
<1> QED
  BY <1>1, <1>2, <1>3, <1>4, <1>5, <1>6, <1>7, <1>8, <1>9, <1>10, <1>11, <1>12, <1>13
  DEF WorkerStep, CompleteJob, FailJob

LEMMA EnvironmentTypeOK ==
  ASSUME TypeOK, Environment
  PROVE  TypeOK'
<1> USE ConstantsAssumption
    DEF TypeOK, BatchesOK, JobsOK, WorkersOK, ApisOK, batchVars, jobVars, workerVars, apiVars
<1>0. \A kind : Inject(kind) => faults' \in 0..MaxFaults
  BY DEF Inject
<1>pc. {"down", "failing"} \subseteq WorkerPC /\ "idle" \in ApiPC
  BY DEF WorkerPC, ApiPC
<1>1. ASSUME NEW j \in Job, GoStale(j) PROVE TypeOK'
  BY <1>1 DEF GoStale
<1>2. ASSUME NEW w \in Worker, RaiseError(w) PROVE TypeOK'
  BY <1>2, <1>0, <1>pc, GotoType DEF RaiseError
<1>3. ASSUME NEW w \in Worker, CrashWorker(w) \/ StopWorker(w) PROVE TypeOK'
  BY <1>3, <1>0, <1>pc, GotoType, ForgetJobType DEF CrashWorker, StopWorker, Exit, Unlocked
<1>4. CASE LoseLock
  BY <1>4, <1>0 DEF LoseLock
<1>5. ASSUME NEW a \in Api, CrashApi(a) PROVE TypeOK'
  BY <1>5, <1>0, <1>pc, ExceptType DEF CrashApi
<1> QED
  BY <1>1, <1>2, <1>3, <1>4, <1>5 DEF Environment

-----------------------------------------------------------------------------
(* The rows the workers and the handlers refer to are there.               *)

LEMMA InitRowsOK == Init => RowsOK
BY DEF Init, RowsOK, Job, InLoop, Working

LEMMA ApiRowsOK ==
  ASSUME NEW a \in Api, TypeOK, RowsOK, ApiStep(a)
  PROVE  RowsOK'
<1> USE ConstantsAssumption
    DEF TypeOK, JobsOK, WorkersOK, ApisOK, RowsOK, InLoop, Job, jobVars, workerVars, apiVars
<1>1. ASSUME NEW b \in Batch, CreateBatch(a, b) PROVE RowsOK'
  BY <1>1 DEF CreateBatch
<1>2. ASSUME NEW b \in Batch, NEW f \in Upload, UploadFile(a, b, f) PROVE RowsOK'
  BY <1>2 DEF UploadFile
<1>3. ASSUME NEW b \in Batch, Enqueue(a, b) PROVE RowsOK'
  BY <1>3 DEF Enqueue
<1>4. ASSUME NEW b \in Batch, DeleteBatch(a, b) PROVE RowsOK'
  BY <1>4 DEF DeleteBatch
<1>5. ASSUME NEW b \in Batch, EditReview(a, b) PROVE RowsOK'
  BY <1>5 DEF EditReview
<1>6. ASSUME NEW b \in Batch, ClaimPublish(a, b) PROVE RowsOK'
  BY <1>6 DEF ClaimPublish
<1>7. CASE CommitPublish(a)
  BY <1>7 DEF CommitPublish
<1>8. CASE ReleasePublish(a)
  BY <1>8 DEF ReleasePublish
<1>9. CASE ReadManifest(a) \/ StoreManifest(a)
  BY <1>9 DEF ReadManifest, StoreManifest
<1> QED
  BY <1>1, <1>2, <1>3, <1>4, <1>5, <1>6, <1>7, <1>8, <1>9 DEF ApiStep

LEMMA WorkerRowsOK ==
  ASSUME NEW w \in Worker, TypeOK, RowsOK, StartWorker(w) \/ WorkerStep(w)
  PROVE  RowsOK'
<1> USE ConstantsAssumption
    DEF TypeOK, JobsOK, WorkersOK, ApisOK, RowsOK, InLoop, Working, Job, Goto, jobVars,
        workerVars, apiVars
<1>1. CASE StartWorker(w)
  BY <1>1 DEF StartWorker
<1>2. CASE ClaimJob(w)
  BY <1>2 DEF ClaimJob, Queue, Recovered
<1>3. CASE PollEmptyQueue(w)
  BY <1>3 DEF PollEmptyQueue, vars
<1>4. CASE Discover(w)
  BY <1>4 DEF Discover
<1>5. CASE ExtractMember(w) \/ FinishArchive(w)
  BY <1>5 DEF ExtractMember, FinishArchive
<1>6. CASE LoadAssets(w) \/ ProcessAsset(w)
  BY <1>6 DEF LoadAssets, ProcessAsset
<1>7. CASE FinishAssets(w)
  BY <1>7 DEF FinishAssets, AfterAssets
<1>8. CASE ReplaceClusters(w) \/ Geocode(w) \/ PersistManifest(w)
  BY <1>8 DEF ReplaceClusters, Geocode, PersistManifest
<1>9. ASSUME NEW js \in {"completed", "failed"}, NEW bs, EndJob(w, js, bs), InLoop(w)
      PROVE  RowsOK'
  BY <1>9 DEF EndJob, SetJob, ForgetJob
<1> QED
  BY <1>1, <1>2, <1>3, <1>4, <1>5, <1>6, <1>7, <1>8, <1>9
  DEF WorkerStep, CompleteJob, FailJob

LEMMA EnvironmentRowsOK ==
  ASSUME TypeOK, RowsOK, Environment
  PROVE  RowsOK'
<1> USE ConstantsAssumption
    DEF TypeOK, JobsOK, WorkersOK, ApisOK, RowsOK, InLoop, Working, Job, Goto, jobVars,
        workerVars, apiVars
<1>1. ASSUME NEW j \in Job, GoStale(j) PROVE RowsOK'
  BY <1>1 DEF GoStale
<1>2. ASSUME NEW w \in Worker, RaiseError(w) PROVE RowsOK'
  BY <1>2 DEF RaiseError
<1>3. ASSUME NEW w \in Worker, CrashWorker(w) \/ StopWorker(w) PROVE RowsOK'
  <2>1. /\ wjob' = [wjob EXCEPT ![w] = 0]
        /\ wpc' = [wpc EXCEPT ![w] = "down"]
        /\ UNCHANGED <<jobVars, apiVars>>
    BY <1>3 DEF CrashWorker, StopWorker, Exit, ForgetJob
  <2>2. \A v \in Worker : wjob'[v] <= njobs /\ (InLoop(v)' => wjob'[v] # 0)
    BY <2>1
  <2> QED
    BY <2>1, <2>2
<1>4. CASE LoseLock
  BY <1>4 DEF LoseLock
<1>5. ASSUME NEW a \in Api, CrashApi(a) PROVE RowsOK'
  BY <1>5 DEF CrashApi
<1> QED
  BY <1>1, <1>2, <1>3, <1>4, <1>5 DEF Environment

\* Whatever the API, the workers and the environment do, rows and program
\* counters keep their types, no counter exceeds its bound, and no worker or
\* handler is left without its row.
THEOREM TypeCorrect == Spec => [](TypeOK /\ RowsOK)
<1>1. TypeOK /\ RowsOK /\ [Next]_vars => TypeOK' /\ RowsOK'
  <2> SUFFICES ASSUME TypeOK, RowsOK, [Next]_vars PROVE TypeOK' /\ RowsOK'
    OBVIOUS
  <2>1. CASE Next
    BY <2>1, ApiTypeOK, WorkerTypeOK, EnvironmentTypeOK, ApiRowsOK, WorkerRowsOK,
       EnvironmentRowsOK DEF Next
  <2>2. CASE UNCHANGED vars
    BY <2>2 DEF TypeOK, BatchesOK, JobsOK, WorkersOK, ApisOK, RowsOK, InLoop, vars, batchVars,
                jobVars, workerVars, apiVars
  <2> QED
    BY <2>1, <2>2
<1> QED
  BY InitTypeOK, InitRowsOK, <1>1, PTL DEF Spec

-----------------------------------------------------------------------------
(* What the rows of batches and jobs promise each other, for any number of *)
(* workers, whether or not the advisory lock holds.  Only four transactions*)
(* insert, delete, claim or end a job.  All others are quiet: they leave   *)
(* the jobs alone, hold no batch that was not held, and delete none.       *)

Held(b) == status[b] \in {"queued", "processing"}

Quiet ==
  /\ UNCHANGED <<jobBatch, jobStatus>>
  /\ \A b \in Batch : (Held(b)' => Held(b)) /\ (Exists(b) => Exists(b)')
  /\ \A b \in Batch : status'[b] = "deleted" <=> status[b] = "deleted"

\* The foreign key of the jobs: an active job has its batch.
ActiveExists == \A j \in Job : Active(j) => Exists(jobBatch[j])

RowInv == OneActiveJob /\ NoOrphanedBatch /\ ActiveExists

LEMMA SetStatusQuiet ==
  ASSUME BatchesOK, NEW b, NEW s \in BatchStatus \ {"none", "deleted", "queued", "processing"},
         SetStatus(b, s)
  PROVE  \A c \in Batch : /\ (Held(c)' => Held(c)) /\ (Exists(c) => Exists(c)')
                          /\ status'[c] = "deleted" <=> status[c] = "deleted"
<1> TAKE c \in Batch
<1>1. CASE b = c
  BY <1>1 DEF SetStatus, Exists, Held, BatchesOK
<1>2. CASE b # c
  BY <1>2 DEF SetStatus, Exists, Held, BatchesOK
<1> QED
  BY <1>1, <1>2

LEMMA ApiQuiet ==
  ASSUME NEW a \in Api, TypeOK, RowsOK, ApiStep(a),
         \A b \in Batch : ~Enqueue(a, b) /\ ~DeleteBatch(a, b)
  PROVE  Quiet
<1> USE DEF TypeOK, BatchesOK, Quiet, Held, Exists, jobVars
<1>1. ASSUME NEW b \in Batch, CreateBatch(a, b) PROVE Quiet
  BY <1>1 DEF CreateBatch
<1>2. ASSUME NEW b \in Batch, NEW f \in Upload, UploadFile(a, b, f) PROVE Quiet
  BY <1>2 DEF UploadFile
<1>3. ASSUME NEW b \in Batch, EditReview(a, b) PROVE Quiet
  BY <1>3 DEF EditReview
<1>4. ASSUME NEW b \in Batch, ClaimPublish(a, b) PROVE Quiet
  BY <1>4 DEF ClaimPublish
<1>5. CASE CommitPublish(a)
  BY <1>5, SetStatusQuiet DEF CommitPublish, BatchStatus
<1>6. CASE ReleasePublish(a)
  BY <1>6 DEF ReleasePublish
<1>7. CASE ReadManifest(a) \/ StoreManifest(a)
  BY <1>7 DEF ReadManifest, StoreManifest
<1> QED
  BY <1>1, <1>2, <1>3, <1>4, <1>5, <1>6, <1>7 DEF ApiStep

LEMMA WorkerQuiet ==
  ASSUME NEW w \in Worker, TypeOK, RowsOK, StartWorker(w) \/ WorkerStep(w),
         ~ClaimJob(w), ~CompleteJob(w), ~FailJob(w)
  PROVE  Quiet
<1> USE DEF TypeOK, BatchesOK, Quiet, Held, Exists, batchVars, jobVars
<1>1. CASE StartWorker(w) \/ PollEmptyQueue(w)
  BY <1>1 DEF StartWorker, PollEmptyQueue, vars
<1>2. CASE Discover(w) \/ ExtractMember(w) \/ FinishArchive(w)
  BY <1>2 DEF Discover, ExtractMember, FinishArchive
<1>3. CASE LoadAssets(w) \/ ProcessAsset(w) \/ FinishAssets(w)
  BY <1>3 DEF LoadAssets, ProcessAsset, FinishAssets
<1>4. CASE ReplaceClusters(w) \/ Geocode(w)
  BY <1>4 DEF ReplaceClusters, Geocode
<1>5. CASE PersistManifest(w)
  BY <1>5, SetStatusQuiet DEF PersistManifest, BatchStatus
<1> QED
  BY <1>1, <1>2, <1>3, <1>4, <1>5 DEF WorkerStep

LEMMA EnvironmentQuiet ==
  ASSUME TypeOK, Environment
  PROVE  Quiet
BY DEF Environment, GoStale, RaiseError, CrashWorker, StopWorker, Exit, LoseLock, CrashApi,
       Quiet, Held, Exists, batchVars, jobVars

LEMMA QuietKeepsRowInv ==
  ASSUME RowInv, Quiet, TypeOK, RowsOK
  PROVE  RowInv'
<1>1. \A j \in Job : Active(j)' <=> Active(j)
  BY DEF Quiet, Active
<1>2. OneActiveJob' /\ NoOrphanedBatch'
  BY <1>1 DEF RowInv, OneActiveJob, NoOrphanedBatch, Quiet, Held, HasActive
<1>3. \A j \in Job : Active(j) => jobBatch[j] \in Batch
  BY DEF TypeOK, JobsOK, RowsOK, Active
<1> QED
  BY <1>1, <1>2, <1>3 DEF RowInv, ActiveExists, Quiet

-----------------------------------------------------------------------------
(* The four transactions that are not quiet.                               *)

LEMMA EnqueueKeepsRowInv ==
  ASSUME RowInv, TypeOK, RowsOK, NEW a \in Api, NEW b \in Batch, Enqueue(a, b)
  PROVE  RowInv'
<1>1. PICK n \in Job : n = njobs + 1 /\ jobStatus[n] = "none"
  BY ConstantsAssumption DEF Enqueue, TypeOK, JobsOK, RowsOK, Job
<1>2. /\ \A j \in Job \ {n} : jobBatch'[j] = jobBatch[j] /\ (Active(j)' <=> Active(j))
      /\ jobBatch'[n] = b /\ Active(n)'
      /\ \A c \in Batch \ {b} : status'[c] = status[c]
      /\ status'[b] = "queued"
  BY <1>1 DEF Enqueue, TypeOK, BatchesOK, JobsOK, Active
<1>3. ~Active(n)
  BY <1>1 DEF Active
<1>4. OneActiveJob'
  BY <1>2, <1>1 DEF RowInv, OneActiveJob, Enqueue, HasActive
<1>5. NoOrphanedBatch'
  BY <1>1, <1>2, <1>3 DEF RowInv, NoOrphanedBatch, HasActive
<1>6. \A j \in Job : Active(j) => jobBatch[j] \in Batch
  BY DEF TypeOK, JobsOK, RowsOK, Active
<1>7. ActiveExists'
  BY <1>1, <1>2, <1>6 DEF RowInv, ActiveExists, Exists
<1> QED
  BY <1>4, <1>5, <1>7 DEF RowInv

LEMMA DeleteKeepsRowInv ==
  ASSUME RowInv, TypeOK, RowsOK, NEW a \in Api, NEW b \in Batch, DeleteBatch(a, b)
  PROVE  RowInv'
<1>1. /\ jobBatch' = jobBatch
      /\ \A j \in Job : Active(j)' <=> Active(j) /\ jobBatch[j] # b
      /\ \A c \in Batch \ {b} : status'[c] = status[c]
      /\ status'[b] = "deleted"
  BY DEF DeleteBatch, TypeOK, BatchesOK, JobsOK, Active
<1>2. OneActiveJob' /\ NoOrphanedBatch'
  BY <1>1 DEF RowInv, OneActiveJob, NoOrphanedBatch, HasActive
<1>3. \A j \in Job : Active(j) => jobBatch[j] \in Batch
  BY DEF TypeOK, JobsOK, RowsOK, Active
<1> QED
  BY <1>1, <1>2, <1>3 DEF RowInv, ActiveExists, Exists

LEMMA ClaimKeepsRowInv ==
  ASSUME RowInv, TypeOK, RowsOK, NEW w \in Worker, ClaimJob(w)
  PROVE  RowInv'
<1>1. PICK j \in Queue :
        /\ jobStatus' = [i \in Job |-> IF i = j THEN "running"
                                      ELSE IF i \in Recovered THEN "queued"
                                      ELSE jobStatus[i]]
        /\ SetStatus(jobBatch[j], "processing")
  BY DEF ClaimJob
<1>2. j \in Job /\ Active(j) /\ jobBatch' = jobBatch
  BY DEF ClaimJob, Queue, Recovered, Active
<1>3. \A i \in Job : Active(i)' <=> Active(i)
  BY <1>1, <1>2 DEF Recovered, Active
<1>4. jobBatch[j] \in Batch /\ Exists(jobBatch[j])
  BY <1>2 DEF RowInv, ActiveExists, TypeOK, JobsOK, RowsOK, Active
<1>5. /\ \A c \in Batch \ {jobBatch[j]} : status'[c] = status[c]
      /\ status'[jobBatch[j]] = "processing"
  BY <1>1, <1>4 DEF SetStatus, TypeOK, BatchesOK
<1>6. OneActiveJob' /\ NoOrphanedBatch'
  BY <1>2, <1>3, <1>5 DEF RowInv, OneActiveJob, NoOrphanedBatch, HasActive
<1>7. \A i \in Job : Active(i) => jobBatch[i] \in Batch
  BY DEF TypeOK, JobsOK, RowsOK, Active
<1> QED
  BY <1>2, <1>3, <1>5, <1>6, <1>7 DEF RowInv, ActiveExists, Exists

LEMMA EndKeepsRowInv ==
  ASSUME RowInv, TypeOK, RowsOK, NEW w \in Worker, InLoop(w),
         NEW js \in {"completed", "failed"}, NEW bs \in {"ready", "failed"}, EndJob(w, js, bs)
  PROVE  RowInv'
<1> DEFINE o == Owned(w)
<1>1. wjob[w] \in Job /\ o \in Batch
  BY OwnedInBatch
<1>2. /\ jobBatch' = jobBatch
      /\ \A j \in Job : Active(j)' <=> Active(j) /\ j # wjob[w]
  BY <1>1 DEF EndJob, SetJob, TypeOK, JobsOK, Active
<1>3. /\ \A c \in Batch \ {o} : status'[c] = status[c]
      /\ status'[o] \notin {"queued", "processing"}
      /\ \A c \in Batch : Exists(c)' <=> Exists(c)
  BY <1>1 DEF EndJob, SetStatus, Exists, TypeOK, BatchesOK
<1>4. OneActiveJob' /\ NoOrphanedBatch'
  BY <1>2, <1>3 DEF RowInv, OneActiveJob, NoOrphanedBatch, HasActive, Owned
<1>5. \A i \in Job : Active(i) => jobBatch[i] \in Batch
  BY DEF TypeOK, JobsOK, RowsOK, Active
<1> QED
  BY <1>2, <1>3, <1>4, <1>5 DEF RowInv, ActiveExists

-----------------------------------------------------------------------------
LEMMA RowInvariant == Spec => []RowInv
<1>1. Init => RowInv
  BY DEF Init, RowInv, OneActiveJob, NoOrphanedBatch, ActiveExists, Active
<1>2. ASSUME TypeOK, RowsOK, RowInv, [Next]_vars PROVE RowInv'
  <2>1. ASSUME NEW a \in Api, ApiStep(a) PROVE RowInv'
    <3>1. CASE \E b \in Batch : Enqueue(a, b) \/ DeleteBatch(a, b)
      BY <1>2, <3>1, EnqueueKeepsRowInv, DeleteKeepsRowInv
    <3>2. CASE \A b \in Batch : ~Enqueue(a, b) /\ ~DeleteBatch(a, b)
      BY <1>2, <2>1, <3>2, ApiQuiet, QuietKeepsRowInv
    <3> QED
      BY <3>1, <3>2
  <2>2. ASSUME NEW w \in Worker, StartWorker(w) \/ WorkerStep(w) PROVE RowInv'
    <3>1. CASE ClaimJob(w)
      BY <1>2, <3>1, ClaimKeepsRowInv
    <3>2. CASE CompleteJob(w) \/ FailJob(w)
      BY <1>2, <3>2, EndKeepsRowInv DEF CompleteJob, FailJob, InLoop, Working
    <3>3. CASE ~ClaimJob(w) /\ ~CompleteJob(w) /\ ~FailJob(w)
      BY <1>2, <2>2, <3>3, WorkerQuiet, QuietKeepsRowInv
    <3> QED
      BY <3>1, <3>2, <3>3
  <2>3. CASE Environment
    BY <1>2, <2>3, EnvironmentQuiet, QuietKeepsRowInv
  <2>4. CASE UNCHANGED vars
    <3>1. Quiet
      BY <2>4 DEF Quiet, Held, Exists, vars, batchVars, jobVars
    <3> QED
      BY <1>2, <3>1, QuietKeepsRowInv
  <2> QED
    BY <1>2, <2>1, <2>2, <2>3, <2>4 DEF Next
<1> QED
  BY <1>1, <1>2, TypeCorrect, PTL DEF Spec

\* However many workers run and however their claims expire, enqueue and
\* claim_next_job leave a batch with at most one queued or running job.
THEOREM AtMostOneActiveJob == Spec => []OneActiveJob
<1>1. RowInv => OneActiveJob
  BY DEF RowInv
<1> QED
  BY <1>1, RowInvariant, PTL

\* No crash, error, expired claim, lost lock or deletion leaves a batch queued or
\* processing without a job: the review of every batch can be reached again.
THEOREM NoBatchIsOrphaned == Spec => []NoOrphanedBatch
<1>1. RowInv => NoOrphanedBatch
  BY DEF RowInv
<1> QED
  BY <1>1, RowInvariant, PTL

-----------------------------------------------------------------------------
(* What the lock is for: as long as its connection stays open, one worker  *)
(* runs, its batch stays closed until it is processed, and a batch in      *)
(* review has no unprocessed asset.                                        *)

\* A live worker holds the lock. (SingleWorker is not inductive without it.)
LockInv == \A w \in Worker : wpc[w] # "down" => lock = w

\* What a worker knows of its batch at each place of the run.
RunOK(w) ==
  /\ wpc[w] \in Working \ {"complete"} =>
       /\ jobStatus[wjob[w]] = "running"
       /\ status[Owned(w)] \in {"processing", "published"}
  /\ wpc[w] = "process" => files[Owned(w)] \ done[Owned(w)] \subseteq wtodo[w]
  /\ wpc[w] \in {"cluster", "geocode", "persist", "complete"} =>
       files[Owned(w)] = done[Owned(w)]
  /\ wpc[w] = "complete" =>
       status[Owned(w)] \in {"processing", "ready", "publishing", "published", "deleted"}

BatchOK(b) ==
  /\ done[b] \subseteq files[b]
  /\ status[b] \in {"ready", "publishing"} => files[b] = done[b]

RunInv == (\A w \in Worker : RunOK(w)) /\ (\A b \in Batch : BatchOK(b))

-----------------------------------------------------------------------------
(* The lock.                                                               *)

\* The executions in which the server never closes that connection.
LockKept == [][~LoseLock]_vars

LEMMA InitLock == Init => LockInv
BY DEF Init, LockInv

LEMMA LockStep == TypeOK /\ LockInv /\ [Next]_vars /\ [~LoseLock]_vars => LockInv'
<1>1. ASSUME TypeOK, LockInv, [Next]_vars, [~LoseLock]_vars PROVE LockInv'
  <2> USE <1>1, ConstantsAssumption DEF TypeOK, WorkersOK, LockInv
  <2>1. ASSUME NEW w \in Worker, StartWorker(w) PROVE LockInv'
    BY <2>1 DEF StartWorker, Goto
  <2>2. ASSUME NEW w \in Worker, CrashWorker(w) \/ StopWorker(w) PROVE LockInv'
    <3>1. wpc' = [wpc EXCEPT ![w] = "down"] /\ lock = w /\ wpc[w] # "down"
      BY <2>2 DEF CrashWorker, StopWorker, Exit, Goto
    <3> QED
      BY <3>1
  <2>3. ASSUME NEW w \in Worker, WorkerStep(w) PROVE LockInv'
    <3>1. lock' = lock /\ wpc[w] # "down" /\ \A v \in Worker \ {w} : wpc'[v] = wpc[v]
      BY <2>3 DEF WorkerStep, ClaimJob, PollEmptyQueue, Discover, ExtractMember, FinishArchive,
         LoadAssets, ProcessAsset, FinishAssets, ReplaceClusters, Geocode, PersistManifest,
         CompleteJob, FailJob, EndJob, Goto, workerVars, vars
    <3> QED
      BY <3>1
  <2>4. ASSUME NEW w \in Worker, RaiseError(w) PROVE LockInv'
    BY <2>4 DEF RaiseError, Goto, Working
  <2>5. CASE UNCHANGED workerVars
    BY <2>5 DEF workerVars
  <2>6. ~LoseLock
    BY <1>1 DEF LoseLock, vars, workerVars
  <2>7. ASSUME NEW a \in Api, ApiStep(a) PROVE UNCHANGED workerVars
    BY <2>7 DEF ApiStep, CreateBatch, UploadFile, Enqueue, DeleteBatch, EditReview, ClaimPublish,
       CommitPublish, ReleasePublish, ReadManifest, StoreManifest, workerVars
  <2>8. ASSUME NEW j \in Job, GoStale(j) PROVE UNCHANGED workerVars
    BY <2>8 DEF GoStale
  <2>9. ASSUME NEW a \in Api, CrashApi(a) PROVE UNCHANGED workerVars
    BY <2>9 DEF CrashApi
  <2> QED
    BY <2>1, <2>2, <2>3, <2>4, <2>5, <2>6, <2>7, <2>8, <2>9 DEF Next, Environment, vars
<1> QED
  BY <1>1

LEMMA LockInvariant == Spec /\ LockKept => []LockInv
BY InitLock, LockStep, TypeCorrect, PTL DEF Spec, LockKept

\* While its connection is open, GET_LOCK admits one worker past its start-up,
\* however many are started, stopped, killed and restarted.
THEOREM OneWorker == Spec /\ LockKept => []SingleWorker
<1>1. LockInv => SingleWorker
  BY DEF LockInv, SingleWorker
<1> QED
  BY <1>1, LockInvariant, PTL

-----------------------------------------------------------------------------
(* The run of the only worker and its batch.                               *)

LEMMA ApiKeepsRun ==
  ASSUME TypeOK, RowsOK, RowInv, RunInv, NEW a \in Api, ApiStep(a)
  PROVE  RunInv'
<1>0. ASSUME NEW w \in Worker, InLoop(w)
      PROVE  wjob[w] \in Job /\ wjob[w] <= njobs /\ Owned(w) \in Batch
  BY <1>0, OwnedInBatch
<1>1. ASSUME NEW b \in Batch, CreateBatch(a, b) PROVE RunInv'
  <2>1. \A c \in Batch : BatchOK(c)'
    BY <1>1 DEF CreateBatch, RunInv, BatchOK, TypeOK, BatchesOK
  <2>2. \A w \in Worker : RunOK(w)'
    BY <1>0, <1>1 DEF CreateBatch, RunInv, RunOK, TypeOK, BatchesOK, InLoop, Working, Owned,
       jobVars, workerVars
  <2> QED
    BY <2>1, <2>2 DEF RunInv
<1>2. ASSUME NEW b \in Batch, NEW f \in Upload, UploadFile(a, b, f) PROVE RunInv'
  <2>1. \A c \in Batch : BatchOK(c)'
    BY <1>2 DEF UploadFile, AcceptsFiles, RunInv, BatchOK, TypeOK, BatchesOK
  <2>2. \A w \in Worker : RunOK(w)'
    BY <1>0, <1>2 DEF UploadFile, AcceptsFiles, RunInv, RunOK, TypeOK, BatchesOK, InLoop,
       Working, Owned, jobVars, workerVars
  <2> QED
    BY <2>1, <2>2 DEF RunInv
<1>3. ASSUME NEW b \in Batch, Enqueue(a, b) PROVE RunInv'
  <2>1. \A c \in Batch : BatchOK(c)'
    BY <1>3 DEF Enqueue, RunInv, BatchOK, TypeOK, BatchesOK
  <2>2. ASSUME NEW w \in Worker, InLoop(w)
        PROVE  jobBatch'[wjob[w]] = jobBatch[wjob[w]] /\ jobStatus'[wjob[w]] = jobStatus[wjob[w]]
    BY <1>0, <1>3, <2>2 DEF Enqueue, TypeOK, JobsOK, Job
  <2>3. ASSUME NEW w \in Worker, wpc[w] \in Working, Owned(w) = b PROVE FALSE
    <3>1. wpc[w] \in Working \ {"complete"} => HasActive(b)
      BY <1>0, <2>3 DEF RunInv, RunOK, HasActive, Active, Owned, InLoop, Working
    <3>2. wpc[w] = "complete" => Exists(b) /\ status[b] = "processing"
      BY <1>3, <2>3 DEF RunInv, RunOK, Enqueue, Processable, Exists
    <3> QED
      BY <1>3, <2>3, <3>1, <3>2 DEF RowInv, NoOrphanedBatch, Enqueue
  <2>4. \A w \in Worker : RunOK(w)'
    BY <1>0, <1>3, <2>2, <2>3 DEF Enqueue, RunInv, RunOK, TypeOK, BatchesOK, InLoop, Working,
       Owned, workerVars
  <2> QED
    BY <2>1, <2>4 DEF RunInv
<1>4. ASSUME NEW b \in Batch, DeleteBatch(a, b) PROVE RunInv'
  <2>1. \A c \in Batch : BatchOK(c)'
    BY <1>4 DEF DeleteBatch, RunInv, BatchOK, TypeOK, BatchesOK
  <2>2. ASSUME NEW w \in Worker, wpc[w] \in Working \ {"complete"} PROVE Owned(w) # b
    BY <1>4, <2>2 DEF DeleteBatch, Mutable, RunInv, RunOK
  <2>3. \A w \in Worker : RunOK(w)'
    BY <1>0, <1>4, <2>2 DEF DeleteBatch, RunInv, RunOK, TypeOK, BatchesOK, JobsOK, InLoop,
       Working, Owned, workerVars
  <2> QED
    BY <2>1, <2>3 DEF RunInv
<1>5. ASSUME NEW b \in Batch, EditReview(a, b) PROVE RunInv'
  BY <1>5 DEF EditReview, RunInv, RunOK, BatchOK, Owned, jobVars, workerVars
<1>6. ASSUME NEW b \in Batch, ClaimPublish(a, b) PROVE RunInv'
  <2>1. \A c \in Batch : BatchOK(c)'
    BY <1>6 DEF ClaimPublish, RunInv, BatchOK, TypeOK, BatchesOK
  <2>2. \A w \in Worker : RunOK(w)'
    BY <1>0, <1>6 DEF ClaimPublish, RunInv, RunOK, TypeOK, BatchesOK, InLoop, Working, Owned,
       jobVars, workerVars
  <2> QED
    BY <2>1, <2>2 DEF RunInv
<1>7. CASE CommitPublish(a)
  <2>1. \A c \in Batch : BatchOK(c)'
    BY <1>7 DEF CommitPublish, SetStatus, RunInv, BatchOK, TypeOK, BatchesOK
  <2>2. \A w \in Worker : RunOK(w)'
    BY <1>0, <1>7 DEF CommitPublish, SetStatus, Exists, RunInv, RunOK, TypeOK, BatchesOK,
       InLoop, Working, Owned, jobVars, workerVars
  <2> QED
    BY <2>1, <2>2 DEF RunInv
<1>8. CASE ReleasePublish(a)
  <2>1. \A c \in Batch : BatchOK(c)'
    BY <1>8 DEF ReleasePublish, RunInv, BatchOK, TypeOK, BatchesOK
  <2>2. \A w \in Worker : RunOK(w)'
    BY <1>0, <1>8 DEF ReleasePublish, RunInv, RunOK, TypeOK, BatchesOK, InLoop, Working, Owned,
       jobVars, workerVars
  <2> QED
    BY <2>1, <2>2 DEF RunInv
<1>9. CASE ReadManifest(a) \/ StoreManifest(a)
  BY <1>9 DEF ReadManifest, StoreManifest, RunInv, RunOK, BatchOK, Owned, jobVars, workerVars
<1> QED
  BY <1>1, <1>2, <1>3, <1>4, <1>5, <1>6, <1>7, <1>8, <1>9 DEF ApiStep

LEMMA EnvironmentKeepsRun ==
  ASSUME TypeOK, RunInv, Environment
  PROVE  RunInv'
<1> USE DEF RunInv, RunOK, BatchOK, Owned, batchVars, jobVars, workerVars
<1>1. ASSUME NEW j \in Job, GoStale(j) PROVE RunInv'
  BY <1>1 DEF GoStale
<1>2. ASSUME NEW w \in Worker, RaiseError(w) PROVE RunInv'
  BY <1>2 DEF RaiseError, Goto, Working, TypeOK, WorkersOK
<1>3. ASSUME NEW w \in Worker, CrashWorker(w) \/ StopWorker(w) PROVE RunInv'
  <2>1. /\ wpc' = [wpc EXCEPT ![w] = "down"]
        /\ \A v \in Worker \ {w} : wjob'[v] = wjob[v] /\ wtodo'[v] = wtodo[v]
        /\ UNCHANGED <<batchVars, jobVars>>
    BY <1>3 DEF CrashWorker, StopWorker, Exit, Goto, ForgetJob, TypeOK, WorkersOK
  <2> QED
    BY <2>1 DEF Working, TypeOK, WorkersOK
<1>4. CASE LoseLock
  BY <1>4 DEF LoseLock
<1>5. ASSUME NEW a \in Api, CrashApi(a) PROVE RunInv'
  BY <1>5 DEF CrashApi
<1> QED
  BY <1>1, <1>2, <1>3, <1>4, <1>5 DEF Environment

\* In a step of the only worker the others stay down, so it is enough to look at
\* its own place and at its own batch.
LEMMA WorkerKeepsRun ==
  ASSUME TypeOK, RowsOK, RowInv, RunInv, LockInv, NEW w \in Worker, StartWorker(w) \/ WorkerStep(w)
  PROVE  RunInv'
<1> USE ConstantsAssumption
<1>1. \A v \in Worker \ {w} : wpc'[v] = "down"
  <2>1. \A v \in Worker \ {w} : wpc[v] = "down"
    BY DEF LockInv, StartWorker, WorkerStep, ClaimJob, PollEmptyQueue, Discover, ExtractMember,
       FinishArchive, LoadAssets, ProcessAsset, FinishAssets, ReplaceClusters, Geocode,
       PersistManifest, CompleteJob, FailJob
  <2>2. \A v \in Worker \ {w} : wpc'[v] = wpc[v]
    BY DEF StartWorker, WorkerStep, ClaimJob, PollEmptyQueue, Discover, ExtractMember,
       FinishArchive, LoadAssets, ProcessAsset, FinishAssets, ReplaceClusters, Geocode,
       PersistManifest, CompleteJob, FailJob, EndJob, Goto, workerVars, vars, TypeOK, WorkersOK
  <2> QED
    BY <2>1, <2>2
<1>2. \A v \in Worker \ {w} : RunOK(v)'
  BY <1>1 DEF RunOK, Working
<1>3. InLoop(w) => wjob[w] \in Job /\ Owned(w) \in Batch
  BY OwnedInBatch
<1> DEFINE o == Owned(w)
<1>4. CASE StartWorker(w)
  BY <1>2, <1>4 DEF StartWorker, Goto, RunInv, RunOK, BatchOK, Working, TypeOK, WorkersOK,
     batchVars
<1>5. CASE PollEmptyQueue(w)
  BY <1>5 DEF PollEmptyQueue, vars, RunInv, RunOK, BatchOK, Owned, batchVars, jobVars, workerVars
<1>6. CASE ClaimJob(w)
  <2>1. PICK j \in Queue :
          /\ jobStatus' = [i \in Job |-> IF i = j THEN "running"
                                        ELSE IF i \in Recovered THEN "queued"
                                        ELSE jobStatus[i]]
          /\ SetStatus(jobBatch[j], "processing")
          /\ wjob' = [wjob EXCEPT ![w] = j]
    BY <1>6 DEF ClaimJob
  <2>2. j \in Job /\ Active(j)
    BY <2>1 DEF Queue, Recovered, Active
  <2>3. jobBatch[j] \in Batch /\ Exists(jobBatch[j])
    BY <2>2 DEF RowInv, ActiveExists, TypeOK, JobsOK, RowsOK, Active
  <2>4. wpc'[w] = "discover" /\ Owned(w)' = jobBatch[j] /\ jobStatus'[wjob'[w]] = "running"
    BY <1>6, <2>1, <2>2 DEF ClaimJob, Goto, Owned, TypeOK, WorkersOK
  <2>5. /\ status'[jobBatch[j]] = "processing"
        /\ \A c \in Batch \ {jobBatch[j]} : status'[c] = status[c]
    BY <2>1, <2>3 DEF SetStatus, TypeOK, BatchesOK
  <2>6. RunOK(w)'
    BY <2>4, <2>5 DEF RunOK
  <2>7. \A c \in Batch : BatchOK(c)'
    BY <1>6, <2>3, <2>5 DEF ClaimJob, RunInv, BatchOK
  <2> QED
    BY <1>2, <2>6, <2>7 DEF RunInv
<1>7. CASE Discover(w)
  <2>1. o \in Batch /\ status[o] \in {"processing", "published"}
    BY <1>3, <1>7 DEF Discover, RunInv, RunOK, InLoop, Working
  <2>2. /\ wpc'[w] = "load"
        /\ UNCHANGED <<status, done, jobVars, wjob>>
        /\ \A c \in Batch : files[c] \subseteq files'[c]
        /\ \A c \in Batch \ {o} : files'[c] = files[c]
    BY <1>7, <2>1 DEF Discover, Goto, Exists, TypeOK, BatchesOK, WorkersOK
  <2> QED
    BY <1>2, <1>7, <2>1, <2>2 DEF Discover, RunInv, RunOK, BatchOK, Owned, Working, jobVars
<1>8. CASE ExtractMember(w)
  <2>1. o \in Batch /\ status[o] \in {"processing", "published"}
    BY <1>3, <1>8 DEF ExtractMember, RunInv, RunOK, InLoop, Working
  <2>2. /\ \A c \in Batch : files[c] \subseteq files'[c]
        /\ \A c \in Batch \ {o} : files'[c] = files[c]
    BY <1>8 DEF ExtractMember, TypeOK, BatchesOK
  <2> QED
    BY <1>2, <1>8, <2>1, <2>2 DEF ExtractMember, RunInv, RunOK, BatchOK, Owned, Working, jobVars,
       workerVars
<1>9. CASE FinishArchive(w)
  <2>1. o \in Batch /\ status[o] \in {"processing", "published"}
    BY <1>3, <1>9 DEF FinishArchive, RunInv, RunOK, InLoop, Working
  <2>2. PICK z \in Pending(o) : done' = [done EXCEPT ![o] = done[o] \cup {z}]
    BY <1>9 DEF FinishArchive
  <2>3. z \in files[o]
    BY <2>2 DEF Pending
  <2>4. \A c \in Batch : BatchOK(c)'
    BY <1>9, <2>1, <2>2, <2>3 DEF FinishArchive, RunInv, BatchOK, TypeOK, BatchesOK
  <2>5. RunOK(w)'
    BY <1>9 DEF FinishArchive, RunInv, RunOK, Owned, Working, jobVars, workerVars
  <2> QED
    BY <1>2, <2>4, <2>5 DEF RunInv
<1>10. CASE LoadAssets(w)
  <2>1. /\ wpc'[w] = "process" /\ wtodo'[w] = files[o] \ done[o]
        /\ UNCHANGED <<batchVars, jobBatch, jobStatus, wjob>>
    BY <1>10 DEF LoadAssets, Goto, TypeOK, WorkersOK
  <2> QED
    BY <1>2, <1>10, <2>1 DEF LoadAssets, RunInv, RunOK, BatchOK, Owned, Working, batchVars
<1>11. CASE ProcessAsset(w)
  <2>1. o \in Batch /\ status[o] \in {"processing", "published"}
    BY <1>3, <1>11 DEF ProcessAsset, RunInv, RunOK, InLoop, Working
  <2>2. PICK f \in wtodo[w] :
          /\ done' = [done EXCEPT ![o] = done[o] \cup ({f} \cap files[o])]
          /\ wtodo' = [wtodo EXCEPT ![w] = wtodo[w] \ {f}]
    BY <1>11 DEF ProcessAsset
  <2>3. /\ done'[o] = done[o] \cup ({f} \cap files[o])
        /\ \A c \in Batch \ {o} : done'[c] = done[c]
        /\ wtodo'[w] = wtodo[w] \ {f}
    BY <2>1, <2>2 DEF TypeOK, BatchesOK, WorkersOK
  <2>4. \A c \in Batch : BatchOK(c)'
    BY <1>11, <2>1, <2>3 DEF ProcessAsset, RunInv, BatchOK
  <2>5. RunOK(w)'
    BY <1>11, <2>1, <2>3 DEF ProcessAsset, RunInv, RunOK, Owned, Working
  <2> QED
    BY <1>2, <2>4, <2>5 DEF RunInv
<1>12. CASE FinishAssets(w)
  <2>1. o \in Batch /\ files[o] = done[o] /\ status[o] \in {"processing", "published"}
    BY <1>3, <1>12 DEF FinishAssets, RunInv, RunOK, BatchOK, InLoop, Working
  <2>2. wpc'[w] \in {"cluster", "complete"}
    BY <1>12 DEF FinishAssets, AfterAssets, Goto, TypeOK, WorkersOK
  <2> QED
    BY <1>2, <1>12, <2>1, <2>2 DEF FinishAssets, RunInv, RunOK, BatchOK, Owned, Working,
       batchVars, jobVars
<1>13. CASE ReplaceClusters(w) \/ Geocode(w)
  <2>1. /\ wpc[w] \in {"cluster", "geocode"} /\ wpc'[w] \in {"geocode", "persist"}
        /\ UNCHANGED <<status, files, done, jobBatch, jobStatus, wjob>>
    BY <1>13 DEF ReplaceClusters, Geocode, Goto, TypeOK, WorkersOK, batchVars
  <2> QED
    BY <1>2, <2>1 DEF RunInv, RunOK, BatchOK, Owned, Working
<1>14. CASE PersistManifest(w)
  <2>1. o \in Batch /\ files[o] = done[o] /\ status[o] \in {"processing", "published"}
    BY <1>3, <1>14 DEF PersistManifest, RunInv, RunOK, InLoop, Working
  <2>2. /\ status'[o] = "ready" /\ \A c \in Batch \ {o} : status'[c] = status[c]
        /\ wpc'[w] = "complete"
    BY <1>14, <2>1 DEF PersistManifest, SetStatus, Exists, Goto, TypeOK, BatchesOK, WorkersOK
  <2> QED
    BY <1>2, <1>14, <2>1, <2>2 DEF PersistManifest, RunInv, RunOK, BatchOK, Owned, Working, jobVars
<1>15. ASSUME NEW js, NEW bs \in {"ready", "failed"}, EndJob(w, js, bs), InLoop(w),
              bs = "ready" => wpc[w] = "complete"
       PROVE  RunInv'
  <2>1. bs = "ready" => files[o] = done[o]
    BY <1>15 DEF RunInv, RunOK
  <2>2. \A c \in Batch \ {o} : status'[c] = status[c]
    BY <1>15 DEF EndJob, SetStatus, TypeOK, BatchesOK
  <2>3. status'[o] = bs \/ status'[o] = status[o]
    BY <1>3, <1>15 DEF EndJob, SetStatus, TypeOK, BatchesOK
  <2>4. \A c \in Batch : BatchOK(c)'
    BY <1>15, <2>1, <2>2, <2>3 DEF EndJob, RunInv, BatchOK
  <2>5. wpc'[w] = "idle"
    BY <1>15 DEF EndJob, Goto, TypeOK, WorkersOK
  <2> QED
    BY <1>2, <2>4, <2>5 DEF RunInv, RunOK, Working
<1> QED
  BY <1>4, <1>5, <1>6, <1>7, <1>8, <1>9, <1>10, <1>11, <1>12, <1>13, <1>14, <1>15
  DEF WorkerStep, CompleteJob, FailJob, InLoop, Working

LEMMA InitRun == Init => RunInv
BY DEF Init, RunInv, RunOK, BatchOK, Working

LEMMA RunStep == TypeOK /\ RowsOK /\ RowInv /\ LockInv /\ RunInv /\ [Next]_vars => RunInv'
<1> SUFFICES ASSUME TypeOK, RowsOK, RowInv, LockInv, RunInv, [Next]_vars
             PROVE  RunInv'
  OBVIOUS
<1>1. CASE UNCHANGED vars
  BY <1>1 DEF RunInv, RunOK, BatchOK, Owned, vars, batchVars, jobVars, workerVars
<1> QED
  BY <1>1, ApiKeepsRun, WorkerKeepsRun, EnvironmentKeepsRun DEF Next

LEMMA RunInvariant == Spec /\ LockKept => []RunInv
BY InitRun, RunStep, TypeCorrect, RowInvariant, LockInvariant, PTL DEF Spec

\* While a worker has a claim it has the batch to itself: upload, review, publish
\* and delete are refused, and no other job of the batch exists.
THEOREM ClaimExcludes == Spec /\ LockKept => []ClaimIsExclusive
<1>1. RunInv => ClaimIsExclusive
  BY DEF RunInv, RunOK, ClaimIsExclusive
<1> QED
  BY <1>1, RunInvariant, PTL

\* A batch that is open to review or being published has no asset the pipeline did
\* not process, whatever uploads, crashes and resumed runs came before.
THEOREM ReviewedIsProcessed == Spec /\ LockKept => []ReadyIsProcessed
<1>1. RunInv => ReadyIsProcessed
  BY DEF RunInv, BatchOK, ReadyIsProcessed
<1> QED
  BY <1>1, RunInvariant, PTL

-----------------------------------------------------------------------------
(* The rows are a queue of requests with leases.                           *)

\* The job of the only worker is running, unless its batch was deleted.
HeldJob(w) ==
  InLoop(w) => \/ jobStatus[wjob[w]] = "running"
               \/ jobStatus[wjob[w]] = "deleted" /\ status[Owned(w)] = "deleted"

JobInv == \A w \in Worker : HeldJob(w)

\* Another worker than the only one is down before and after its step.
LEMMA OthersAreDown ==
  ASSUME TypeOK, LockInv, NEW w \in Worker, WorkerStep(w), NEW v \in Worker \ {w}
  PROVE  wpc[v] = "down" /\ wpc'[v] = "down"
<1>1. wpc[w] # "down" /\ wpc'[v] = wpc[v]
  BY DEF WorkerStep, ClaimJob, PollEmptyQueue, Discover, ExtractMember, FinishArchive, LoadAssets,
     ProcessAsset, FinishAssets, ReplaceClusters, Geocode, PersistManifest, CompleteJob, FailJob,
     EndJob, Goto, workerVars, vars, TypeOK, WorkersOK
<1> QED
  BY <1>1 DEF LockInv

LEMMA QuietKeepsJobs ==
  ASSUME TypeOK, RowsOK, JobInv, Quiet, NEW w \in Worker,
         InLoop(w)' => InLoop(w) /\ wjob'[w] = wjob[w]
  PROVE  HeldJob(w)'
<1>1. InLoop(w) => wjob[w] \in Job /\ Owned(w) \in Batch
  BY OwnedInBatch
<1> QED
  BY <1>1 DEF JobInv, HeldJob, Quiet, Owned

LEMMA JobInvStep ==
  ASSUME TypeOK, RowsOK, LockInv, JobInv, [Next]_vars
  PROVE  JobInv'
<1>0. ASSUME NEW w \in Worker, InLoop(w)
      PROVE  wjob[w] \in Job /\ wjob[w] <= njobs /\ Owned(w) \in Batch
  BY <1>0, OwnedInBatch
<1>1. CASE UNCHANGED vars
  BY <1>1 DEF JobInv, HeldJob, InLoop, Owned, vars, batchVars, jobVars, workerVars
<1>2. ASSUME NEW a \in Api, NEW b \in Batch, Enqueue(a, b) PROVE JobInv'
  <2>1. ASSUME NEW i \in Job, i <= njobs
        PROVE  jobStatus'[i] = jobStatus[i] /\ jobBatch'[i] = jobBatch[i]
    BY <1>2, <2>1 DEF Enqueue, TypeOK, JobsOK, Job
  <2>2. \A c \in Batch : status[c] = "deleted" => status'[c] = "deleted"
    BY <1>2 DEF Enqueue, Processable, Exists, TypeOK, BatchesOK
  <2>3. ASSUME NEW w \in Worker PROVE HeldJob(w)'
    BY <1>0, <1>2, <2>1, <2>2 DEF Enqueue, workerVars, InLoop, Owned, JobInv, HeldJob
  <2> QED
    BY <2>3 DEF JobInv
<1>3. ASSUME NEW a \in Api, NEW b \in Batch, DeleteBatch(a, b) PROVE JobInv'
  <2>1. /\ UNCHANGED <<jobBatch, wjob, wpc>>
        /\ \A i \in Job : jobStatus'[i] = IF jobBatch[i] = b THEN "deleted" ELSE jobStatus[i]
        /\ \A c \in Batch : status'[c] = IF c = b THEN "deleted" ELSE status[c]
    BY <1>3 DEF DeleteBatch, workerVars, TypeOK, BatchesOK
  <2>2. ASSUME NEW w \in Worker PROVE HeldJob(w)'
    BY <1>0, <2>1 DEF InLoop, Owned, JobInv, HeldJob
  <2> QED
    BY <2>2 DEF JobInv
<1>4. ASSUME NEW a \in Api, ApiStep(a), \A b \in Batch : ~Enqueue(a, b) /\ ~DeleteBatch(a, b)
      PROVE  JobInv'
  <2>1. UNCHANGED workerVars
    BY <1>4 DEF ApiStep, CreateBatch, UploadFile, EditReview, ClaimPublish, CommitPublish,
       ReleasePublish, ReadManifest, StoreManifest, workerVars
  <2>2. \A w \in Worker : InLoop(w)' => InLoop(w) /\ wjob'[w] = wjob[w]
    BY <2>1 DEF workerVars, InLoop
  <2> QED
    BY <1>4, <2>2, ApiQuiet, QuietKeepsJobs DEF JobInv
<1>5. ASSUME NEW w \in Worker, StartWorker(w) PROVE JobInv'
  <2>1. Quiet
    BY <1>5, WorkerQuiet DEF StartWorker, ClaimJob, CompleteJob, FailJob
  <2>2. \A v \in Worker : InLoop(v)' => InLoop(v) /\ wjob'[v] = wjob[v]
    BY <1>5 DEF StartWorker, Goto, InLoop, Working, TypeOK, WorkersOK
  <2> QED
    BY <2>1, <2>2, QuietKeepsJobs DEF JobInv
<1>6. ASSUME NEW w \in Worker, ClaimJob(w) PROVE JobInv'
  <2>1. PICK j \in Job : wjob' = [wjob EXCEPT ![w] = j] /\ jobStatus'[j] = "running"
    BY <1>6 DEF ClaimJob, Queue, Recovered
  <2>2. HeldJob(w)'
    BY <2>1 DEF HeldJob, TypeOK, WorkersOK
  <2>3. \A v \in Worker \ {w} : ~InLoop(v)'
    BY <1>6, OthersAreDown DEF WorkerStep, InLoop, Working
  <2> QED
    BY <2>2, <2>3 DEF JobInv, HeldJob
<1>7. ASSUME NEW w \in Worker, CompleteJob(w) \/ FailJob(w) PROVE JobInv'
  <2>1. wpc'[w] = "idle"
    BY <1>7 DEF CompleteJob, FailJob, EndJob, Goto, TypeOK, WorkersOK
  <2>2. \A v \in Worker \ {w} : ~InLoop(v)'
    BY <1>7, OthersAreDown DEF WorkerStep, InLoop, Working
  <2>3. ~InLoop(w)'
    BY <2>1 DEF InLoop, Working
  <2> QED
    BY <2>2, <2>3 DEF JobInv, HeldJob
<1>8. ASSUME NEW w \in Worker, WorkerStep(w), ~ClaimJob(w), ~CompleteJob(w), ~FailJob(w)
      PROVE  JobInv'
  <2>1. \A v \in Worker \ {w} : ~InLoop(v)'
    BY <1>8, OthersAreDown DEF InLoop, Working
  <2>2. wjob' = wjob
    BY <1>8 DEF WorkerStep, PollEmptyQueue, Discover, ExtractMember, FinishArchive, LoadAssets,
       ProcessAsset, FinishAssets, ReplaceClusters, Geocode, PersistManifest, workerVars, vars
  <2>3. InLoop(w)' => InLoop(w)
    BY <1>8 DEF WorkerStep, PollEmptyQueue, Discover, ExtractMember, FinishArchive, LoadAssets,
       ProcessAsset, FinishAssets, ReplaceClusters, Geocode, PersistManifest, workerVars, vars,
       InLoop, Working
  <2>4. HeldJob(w)'
    BY <1>8, <2>2, <2>3, WorkerQuiet, QuietKeepsJobs
  <2> QED
    BY <2>1, <2>4 DEF JobInv, HeldJob
<1>9. CASE Environment
  <2>1. \A w \in Worker : InLoop(w)' => InLoop(w) /\ wjob'[w] = wjob[w]
    BY <1>9 DEF Environment, GoStale, RaiseError, CrashWorker, StopWorker, Exit, ForgetJob, LoseLock,
       CrashApi, Goto, workerVars, InLoop, Working, TypeOK, WorkersOK
  <2> QED
    BY <1>9, <2>1, EnvironmentQuiet, QuietKeepsJobs DEF JobInv
<1> QED
  BY <1>1, <1>2, <1>3, <1>4, <1>5, <1>6, <1>7, <1>8, <1>9 DEF Next

LEMMA JobInvariant == Spec /\ LockKept => []JobInv
<1>1. Init => JobInv
  BY DEF Init, JobInv, HeldJob, InLoop, Working
<1> QED
  BY <1>1, JobInvStep, TypeCorrect, LockInvariant, PTL DEF Spec

Request == [b \in Batch |-> RequestOf(b)]
Runs(b)   == \E j \in Job : jobBatch[j] = b /\ jobStatus[j] = "running"
Queues(b) == \E j \in Job : jobBatch[j] = b /\ jobStatus[j] = "queued"

\* A batch whose row and jobs answer the same questions has the same request.
LEMMA SameRequest ==
  ASSUME NEW b \in Batch, status'[b] = "deleted" <=> status[b] = "deleted",
         Runs(b)' <=> Runs(b), Queues(b)' <=> Queues(b)
  PROVE  RequestOf(b)' = RequestOf(b)
BY DEF RequestOf, Runs, Queues

LEMMA QuietStutters ==
  ASSUME Quiet
  PROVE  UNCHANGED Request
<1>1. ASSUME NEW b \in Batch PROVE RequestOf(b)' = RequestOf(b)
  BY SameRequest DEF Quiet, Runs, Queues
<1> QED
  BY <1>1 DEF Request

LEMMA EnqueueSubmits ==
  ASSUME TypeOK, RowsOK, RowInv, NEW a \in Api, NEW b \in Batch, Enqueue(a, b)
  PROVE  Requests!Submit(b)
<1>1. PICK n \in Job : n = njobs + 1 /\ jobStatus[n] = "none"
  BY ConstantsAssumption DEF Enqueue, TypeOK, JobsOK, RowsOK, Job
<1>2. /\ \A j \in Job \ {n} : jobBatch'[j] = jobBatch[j] /\ jobStatus'[j] = jobStatus[j]
      /\ jobBatch'[n] = b /\ jobStatus'[n] = "queued"
      /\ \A c \in Batch \ {b} : status'[c] = status[c]
      /\ status'[b] = "queued"
  BY <1>1 DEF Enqueue, TypeOK, BatchesOK, JobsOK
<1>3. ~HasActive(b) /\ status[b] # "deleted"
  BY DEF Enqueue, Processable, Exists
<1>4. RequestOf(b) = "idle"
  BY <1>3 DEF RequestOf, HasActive, Active
<1>5. RequestOf(b)' = "pending"
  BY <1>1, <1>2, <1>3 DEF RequestOf, HasActive, Active
<1>6. ASSUME NEW c \in Batch \ {b} PROVE RequestOf(c)' = RequestOf(c)
  BY <1>1, <1>2, SameRequest DEF Runs, Queues
<1>7. Request' = [Request EXCEPT ![b] = "pending"]
  BY <1>5, <1>6 DEF Request
<1> QED
  BY <1>4, <1>7 DEF Requests!Submit, Request

LEMMA DeleteRemoves ==
  ASSUME TypeOK, NEW a \in Api, NEW b \in Batch, DeleteBatch(a, b)
  PROVE  Requests!Remove(b)
<1>1. /\ UNCHANGED jobBatch
      /\ \A i \in Job : jobStatus'[i] = IF jobBatch[i] = b THEN "deleted" ELSE jobStatus[i]
      /\ \A c \in Batch : status'[c] = IF c = b THEN "deleted" ELSE status[c]
      /\ status[b] # "deleted"
  BY DEF DeleteBatch, Mutable, TypeOK, BatchesOK
<1>2. RequestOf(b) # "gone" /\ RequestOf(b)' = "gone"
  BY <1>1 DEF RequestOf
<1>3. ASSUME NEW c \in Batch \ {b} PROVE RequestOf(c)' = RequestOf(c)
  BY <1>1, SameRequest DEF Runs, Queues
<1>4. Request' = [Request EXCEPT ![b] = "gone"]
  BY <1>2, <1>3 DEF Request
<1> QED
  BY <1>2, <1>4 DEF Requests!Remove, Request

\* Recovery and claim are one step: expired leases end, and one is taken.
LEMMA ClaimLeases ==
  ASSUME TypeOK, RowsOK, RowInv, NEW w \in Worker, ClaimJob(w)
  PROVE  \E b \in Batch, E \in SUBSET Batch : Requests!Lease(b, E)
<1>1. PICK j \in Queue :
        /\ jobStatus' = [i \in Job |-> IF i = j THEN "running"
                                      ELSE IF i \in Recovered THEN "queued"
                                      ELSE jobStatus[i]]
        /\ SetStatus(jobBatch[j], "processing")
  BY DEF ClaimJob
<1>0. PICK b, E : b = jobBatch[j] /\ E = {jobBatch[i] : i \in Recovered}
  OBVIOUS
<1>2. j \in Job /\ Active(j) /\ jobBatch' = jobBatch
  BY DEF ClaimJob, Queue, Recovered, Active
<1>3. \A i \in Job : Active(i) => jobBatch[i] \in Batch /\ status[jobBatch[i]] # "deleted"
  BY DEF RowInv, ActiveExists, Exists, TypeOK, JobsOK, RowsOK, Active
<1>4. b \in Batch /\ Exists(b)
  BY <1>0, <1>2, <1>3 DEF RowInv, ActiveExists
<1>5. \A c \in Batch : status'[c] = IF c = b THEN "processing" ELSE status[c]
  BY <1>0, <1>1, <1>4 DEF SetStatus, TypeOK, BatchesOK
<1>6. \A i \in Recovered : i \in Job /\ Active(i) /\ jobStatus[i] = "running"
  BY DEF Recovered, Active
<1>7. E \in SUBSET Batch
  BY <1>0, <1>3, <1>6
<1>8. \A e \in E : RequestOf(e) = "leased"
  BY <1>0, <1>3, <1>6 DEF RequestOf
<1>9. RequestOf(b) = "pending" \/ b \in E
  <2>1. CASE j \in Recovered
    BY <1>0, <2>1
  <2>2. CASE j \notin Recovered
    <3>1. jobStatus[j] = "queued"
      BY <2>2 DEF Queue
    <3>2. ~Runs(b)
      BY <1>0, <1>2, <3>1 DEF Runs, RowInv, OneActiveJob, Active
    <3> QED
      BY <1>0, <1>2, <1>3, <3>1, <3>2 DEF RequestOf, Runs
  <2> QED
    BY <1>0, <2>1, <2>2
<1>10. RequestOf(b)' = "leased"
  <2>1. jobStatus'[j] = "running"
    BY <1>0, <1>1, <1>2
  <2> QED
    BY <1>0, <1>2, <1>4, <1>5, <2>1 DEF RequestOf
<1>11. ASSUME NEW x \in E, x # b PROVE RequestOf(x)' = "pending"
  <2>1. PICK i \in Recovered : x = jobBatch[i]
    BY <1>0
  <2>2. i \in Job /\ i # j /\ jobStatus'[i] = "queued"
    BY <1>0, <1>1, <1>6, <1>11, <2>1
  <2>3. ASSUME NEW k \in Job, jobBatch[k] = x, jobStatus'[k] = "running" PROVE FALSE
    <3>1. k # j
      BY <1>0, <1>11, <2>3
    <3>2. jobStatus[k] = "running" /\ k \notin Recovered
      BY <1>0, <1>1, <2>3, <3>1
    <3>3. k = i
      BY <1>0, <1>6, <2>1, <2>3, <3>2 DEF RowInv, OneActiveJob, Active
    <3> QED
      BY <3>2, <3>3
  <2>4. status'[x] # "deleted"
    BY <1>0, <1>3, <1>5, <1>6, <1>7, <2>1
  <2> QED
    BY <1>0, <1>2, <2>1, <2>2, <2>3, <2>4 DEF RequestOf
<1>12. ASSUME NEW x \in Batch, x # b, x \notin E PROVE RequestOf(x)' = RequestOf(x)
  <2>1. \A i \in Job : jobBatch[i] = x => jobStatus'[i] = jobStatus[i]
    BY <1>0, <1>1, <1>12
  <2>2. (Runs(x)' <=> Runs(x)) /\ (Queues(x)' <=> Queues(x))
    BY <1>0, <1>2, <2>1 DEF Runs, Queues
  <2>3. status'[x] = status[x]
    BY <1>0, <1>5, <1>12
  <2> QED
    BY <1>0, <2>2, <2>3, SameRequest
<1>13. Request' = [x \in Batch |-> IF x = b THEN "leased"
                                   ELSE IF x \in E THEN "pending" ELSE Request[x]]
  <2> DEFINE after(x) == IF x = b THEN "leased" ELSE IF x \in E THEN "pending" ELSE Request[x]
  <2>1. ASSUME NEW x \in Batch PROVE RequestOf(x)' = after(x)
    <3>1. CASE x = b
      BY <1>10, <3>1
    <3>2. CASE x # b /\ x \in E
      BY <1>11, <3>2
    <3>3. CASE x # b /\ x \notin E
      BY <1>12, <3>3 DEF Request
    <3> QED
      BY <3>1, <3>2, <3>3
  <2>2. Request' = [x \in Batch |-> RequestOf(x)']
    BY DEF Request
  <2> HIDE DEF after
  <2>3. Request' = [x \in Batch |-> after(x)]
    BY <1>0, <2>1, <2>2
  <2> QED
    BY <1>0, <2>3 DEF after
<1>14. (\A e \in E : Request[e] = "leased") /\ (Request[b] = "pending" \/ b \in E)
  BY <1>0, <1>4, <1>7, <1>8, <1>9 DEF Request
<1>15. Requests!Lease(b, E)
  BY <1>0, <1>13, <1>14 DEF Requests!Lease, Request
<1> QED
  BY <1>0, <1>4, <1>7, <1>15

LEMMA EndFinishes ==
  ASSUME TypeOK, RowsOK, RowInv, JobInv, NEW w \in Worker, InLoop(w),
         NEW js \in {"completed", "failed"}, NEW bs \in {"ready", "failed"}, EndJob(w, js, bs)
  PROVE  (\E b \in Batch : Requests!Finish(b)) \/ UNCHANGED Request
<1>0. PICK k \in Job, o \in Batch : k = wjob[w] /\ o = Owned(w)
  BY OwnedInBatch
<1>1. k \in Job /\ o \in Batch /\ o = jobBatch[k]
  BY <1>0 DEF Owned
<1>2. /\ jobBatch' = jobBatch
      /\ \A j \in Job \ {k} : jobStatus'[j] = jobStatus[j]
      /\ jobStatus'[k] = IF jobStatus[k] = "deleted" THEN "deleted" ELSE js
  BY <1>0 DEF EndJob, SetJob, TypeOK, JobsOK
<1>3. \A c \in Batch : status'[c] = "deleted" <=> status[c] = "deleted"
  BY <1>0 DEF EndJob, SetStatus, Exists, TypeOK, BatchesOK
<1>4. CASE jobStatus[k] = "deleted"
  <2>1. \A j \in Job : jobStatus'[j] = jobStatus[j]
    BY <1>2, <1>4
  <2>2. ASSUME NEW b \in Batch PROVE RequestOf(b)' = RequestOf(b)
    <3>1. (Runs(b)' <=> Runs(b)) /\ (Queues(b)' <=> Queues(b))
      BY <1>2, <2>1 DEF Runs, Queues
    <3> QED
      BY <1>3, <3>1, SameRequest
  <2> QED
    BY <2>2 DEF Request
<1>5. CASE jobStatus[k] = "running"
  <2>1. status[o] # "deleted"
    BY <1>1, <1>5 DEF RowInv, ActiveExists, Active, Exists
  <2>2. RequestOf(o) = "leased"
    BY <1>1, <1>5, <2>1 DEF RequestOf
  <2>3. ASSUME NEW j \in Job, jobBatch[j] = o, jobStatus'[j] \in {"queued", "running"}
        PROVE  FALSE
    <3>1. j # k
      BY <1>2, <1>5, <2>3
    <3>2. Active(j) /\ Active(k)
      BY <1>2, <1>5, <2>3, <3>1 DEF Active
    <3> QED
      BY <1>1, <2>3, <3>1, <3>2 DEF RowInv, OneActiveJob
  <2>4. RequestOf(o)' = "idle"
    <3>1. status'[o] # "deleted"
      BY <1>1, <1>3, <2>1
    <3>2. ~Runs(o)' /\ ~Queues(o)'
      BY <1>2, <2>3 DEF Runs, Queues
    <3> QED
      BY <3>1, <3>2 DEF RequestOf, Runs, Queues
  <2>5. ASSUME NEW b \in Batch \ {o} PROVE RequestOf(b)' = RequestOf(b)
    <3>1. (Runs(b)' <=> Runs(b)) /\ (Queues(b)' <=> Queues(b))
      BY <1>1, <1>2 DEF Runs, Queues
    <3> QED
      BY <1>3, <3>1, SameRequest
  <2>6. Request' = [Request EXCEPT ![o] = "idle"]
    <3>1. \A b \in Batch : RequestOf(b)' = IF b = o THEN "idle" ELSE Request[b]
      BY <2>4, <2>5 DEF Request
    <3> QED
      BY <3>1 DEF Request
  <2>7. Requests!Finish(o)
    BY <1>1, <2>2, <2>6 DEF Requests!Finish, Request
  <2> QED
    BY <1>1, <2>7
<1> QED
  BY <1>0, <1>4, <1>5 DEF JobInv, HeldJob

LEMMA RequestStep ==
  ASSUME TypeOK, RowsOK, RowInv, JobInv, [Next]_vars
  PROVE  [Requests!Next]_Request
<1>1. CASE UNCHANGED vars
  <2>1. Quiet
    BY <1>1 DEF Quiet, Held, Exists, vars, batchVars, jobVars
  <2> QED
    BY <2>1, QuietStutters
<1>2. ASSUME NEW a \in Api, ApiStep(a) PROVE [Requests!Next]_Request
  <2>1. CASE \E b \in Batch : Enqueue(a, b) \/ DeleteBatch(a, b)
    BY <2>1, EnqueueSubmits, DeleteRemoves DEF Requests!Next
  <2>2. CASE \A b \in Batch : ~Enqueue(a, b) /\ ~DeleteBatch(a, b)
    BY <1>2, <2>2, ApiQuiet, QuietStutters
  <2> QED
    BY <2>1, <2>2
<1>3. ASSUME NEW w \in Worker, StartWorker(w) \/ WorkerStep(w) PROVE [Requests!Next]_Request
  <2>1. CASE ClaimJob(w)
    BY <2>1, ClaimLeases DEF Requests!Next
  <2>2. CASE CompleteJob(w) \/ FailJob(w)
    BY <2>2, EndFinishes DEF CompleteJob, FailJob, InLoop, Working, Requests!Next
  <2>3. CASE ~ClaimJob(w) /\ ~CompleteJob(w) /\ ~FailJob(w)
    BY <1>3, <2>3, WorkerQuiet, QuietStutters
  <2> QED
    BY <2>1, <2>2, <2>3
<1>4. CASE Environment
  BY <1>4, EnvironmentQuiet, QuietStutters
<1> QED
  BY <1>1, <1>2, <1>3, <1>4 DEF Next

\* While the lock is not lost, the rows of batches and jobs are a queue of requests:
\* no request is taken twice, lost by a crash, or ended by anyone but its lease.
THEOREM RequestsImplemented == Spec /\ LockKept => ImplementsRequests
<1>1. Init => Requests!Init
  BY DEF Init, Requests!Init, RequestOf
<1>2. TypeOK /\ RowsOK /\ RowInv /\ JobInv /\ [Next]_vars => [Requests!Next]_Request
  BY RequestStep
<1> QED
  BY <1>1, <1>2, TypeCorrect, RowInvariant, JobInvariant, PTL
  DEF Spec, ImplementsRequests, Requests!Spec, Request

-----------------------------------------------------------------------------
(* What a recovered run may discard.                                       *)

Closed(b) == status[b] \in {"draft", "failed"}
Kept(b)   == b \notin LocalBatch /\ edited[b]

\* A batch that may get files has no job; one that was reviewed since it was
\* enqueued has all of its assets processed while a job of it is left; and a
\* run that finds them so returns early.
ReviewInv ==
  /\ \A b \in Batch : Closed(b) => ~HasActive(b)
  /\ \A b \in Batch : Kept(b) /\ HasActive(b) => files[b] = done[b]
  /\ \A w \in Worker : Kept(Owned(w)) => /\ wpc[w] = "process" => ~wfull[w]
                                         /\ wpc[w] # "cluster"

\* The jobs as they were, no batch closed, reviewed or filled that was not.
LEMMA ReviewFrame ==
  ASSUME TypeOK, RowsOK, RowInv, ReviewInv, Quiet,
         \A b \in Batch : Closed(b)' => Closed(b) \/ ~Exists(b),
         \A b \in Batch : HasActive(b) /\ Kept(b)' /\ (Kept(b) => files[b] = done[b])
                            => files'[b] = done'[b],
         \A w \in Worker : InLoop(w)' => InLoop(w) /\ wjob'[w] = wjob[w],
         \A w \in Worker : InLoop(w)' /\ Kept(Owned(w))' =>
                             /\ wpc'[w] = "process" => ~wfull'[w]
                             /\ wpc'[w] # "cluster"
  PROVE  ReviewInv'
<1>1. \A b \in Batch : HasActive(b)' <=> HasActive(b)
  BY DEF HasActive, Active, Quiet
<1>2. \A b \in Batch : ~Exists(b) => ~HasActive(b)
  BY DEF RowInv, ActiveExists, HasActive
<1>3. \A w \in Worker : wpc'[w] \in {"process", "cluster"} => InLoop(w)'
  BY DEF InLoop, Working
<1> QED
  BY <1>1, <1>2, <1>3 DEF ReviewInv

\* The batch a worker runs is closed to the routes that review it.
LEMMA RunIsActive ==
  ASSUME TypeOK, RowsOK, RunInv, NEW w \in Worker, wpc[w] \in Working \ {"complete"}
  PROVE  /\ wjob[w] \in Job /\ Owned(w) \in Batch
         /\ HasActive(Owned(w)) /\ status[Owned(w)] \in {"processing", "published"}
<1>1. wjob[w] \in Job /\ Owned(w) \in Batch
  BY OwnedInBatch DEF InLoop
<1> QED
  BY <1>1 DEF RunInv, RunOK, HasActive, Active, Owned

LEMMA ApiKeepsReview ==
  ASSUME TypeOK, RowsOK, RowInv, RunInv, ReviewInv, NEW a \in Api, ApiStep(a)
  PROVE  ReviewInv'
<1>0. \A w \in Worker : wpc[w] \in {"process", "cluster"} =>
        Owned(w) \in Batch /\ wjob[w] \in Job /\ HasActive(Owned(w))
        /\ status[Owned(w)] \in {"processing", "published"}
  BY RunIsActive DEF Working
<1>1. ASSUME NEW b \in Batch, Enqueue(a, b) PROVE ReviewInv'
  <2>1. PICK n \in Job : n = njobs + 1 /\ jobStatus[n] = "none"
    BY <1>1, ConstantsAssumption DEF Enqueue, TypeOK, JobsOK, RowsOK, Job
  <2>2. /\ \A j \in Job \ {n} : jobBatch'[j] = jobBatch[j] /\ jobStatus'[j] = jobStatus[j]
        /\ jobBatch'[n] = b /\ jobStatus'[n] = "queued"
        /\ \A c \in Batch \ {b} : status'[c] = status[c] /\ edited'[c] = edited[c]
        /\ status'[b] = "queued" /\ edited'[b] = FALSE
        /\ UNCHANGED <<files, done, workerVars>>
    BY <1>1, <2>1 DEF Enqueue, TypeOK, BatchesOK, JobsOK
  <2>3. \A c \in Batch \ {b} : HasActive(c)' <=> HasActive(c)
    BY <2>1, <2>2 DEF HasActive, Active
  <2>4. \A c \in Batch : Closed(c)' => ~HasActive(c)'
    BY <2>2, <2>3 DEF Closed, ReviewInv
  <2>5. \A c \in Batch : Kept(c)' /\ HasActive(c)' => files'[c] = done'[c]
    BY <2>2, <2>3 DEF Kept, ReviewInv
  <2>6. ASSUME NEW w \in Worker, wpc[w] \in {"process", "cluster"}
        PROVE  Owned(w)' = Owned(w) /\ (Kept(Owned(w))' => Kept(Owned(w)))
    <3>1. Owned(w) # b
      BY <1>0, <1>1, <2>6 DEF Enqueue
    <3>2. wjob[w] # n
      BY <1>0, <2>1, <2>6 DEF RunInv, RunOK, Working
    <3>3. Owned(w)' = Owned(w)
      BY <1>0, <2>2, <2>6, <3>2 DEF Owned, workerVars
    <3> QED
      BY <1>0, <2>2, <2>6, <3>1, <3>3 DEF Kept
  <2>7. \A w \in Worker : Kept(Owned(w))' => /\ wpc'[w] = "process" => ~wfull'[w]
                                             /\ wpc'[w] # "cluster"
    BY <2>2, <2>6 DEF ReviewInv, workerVars
  <2> QED
    BY <2>4, <2>5, <2>7 DEF ReviewInv
<1>2. ASSUME NEW b \in Batch, DeleteBatch(a, b) PROVE ReviewInv'
  <2>1. /\ UNCHANGED <<jobBatch, workerVars>>
        /\ \A i \in Job : jobStatus'[i] = IF jobBatch[i] = b THEN "deleted" ELSE jobStatus[i]
        /\ \A c \in Batch \ {b} : status'[c] = status[c] /\ edited'[c] = edited[c]
                                  /\ files'[c] = files[c] /\ done'[c] = done[c]
        /\ status'[b] = "deleted" /\ edited'[b] = FALSE
    BY <1>2 DEF DeleteBatch, TypeOK, BatchesOK
  <2>2. \A c \in Batch : HasActive(c)' => HasActive(c)
    BY <2>1 DEF HasActive, Active
  <2>3. \A c \in Batch : Kept(c)' => Kept(c) /\ c # b
    BY <2>1 DEF Kept
  <2>4. \A w \in Worker : Kept(Owned(w))' /\ wpc[w] \in {"process", "cluster"} => Kept(Owned(w))
    BY <1>0, <2>1, <2>3 DEF Owned, workerVars
  <2>5. \A c \in Batch : Closed(c)' => ~HasActive(c)'
    BY <2>1, <2>2 DEF Closed, ReviewInv
  <2>6. \A c \in Batch : Kept(c)' /\ HasActive(c)' => files'[c] = done'[c]
    BY <2>1, <2>2, <2>3 DEF ReviewInv
  <2>7. \A w \in Worker : Kept(Owned(w))' => /\ wpc'[w] = "process" => ~wfull'[w]
                                             /\ wpc'[w] # "cluster"
    BY <2>1, <2>4 DEF ReviewInv, workerVars
  <2> QED
    BY <2>5, <2>6, <2>7 DEF ReviewInv
<1>3. ASSUME \A b \in Batch : ~Enqueue(a, b) /\ ~DeleteBatch(a, b) PROVE ReviewInv'
  <2>1. Quiet
    BY <1>3, ApiQuiet
  <2>2. UNCHANGED workerVars
    BY <1>3 DEF ApiStep, CreateBatch, UploadFile, EditReview, ClaimPublish, CommitPublish,
       ReleasePublish, ReadManifest, StoreManifest, workerVars
  <2>3. \A w \in Worker : InLoop(w)' => InLoop(w) /\ wjob'[w] = wjob[w]
    BY <2>2 DEF InLoop, workerVars
  <2>4. \A b \in Batch : Closed(b)' => Closed(b) \/ ~Exists(b)
    BY <1>3 DEF ApiStep, CreateBatch, UploadFile, EditReview, ClaimPublish, CommitPublish,
       ReleasePublish, ReadManifest, StoreManifest, SetStatus, Closed, Exists, TypeOK, BatchesOK
  <2>5. ASSUME NEW b \in Batch, EditReview(a, b) PROVE ReviewInv'
    <3>1. /\ UNCHANGED <<status, files, done>>
          /\ \A c \in Batch \ {b} : edited'[c] = edited[c]
      BY <2>5 DEF EditReview, TypeOK, BatchesOK
    <3>2. HasActive(b) => files[b] = done[b]
      BY <2>5 DEF EditReview, Mutable, ReviewInv, Closed, RunInv, BatchOK
    <3>3. \A c \in Batch : HasActive(c) /\ Kept(c)' /\ (Kept(c) => files[c] = done[c])
                             => files'[c] = done'[c]
      BY <3>1, <3>2 DEF Kept
    <3>4. \A w \in Worker : wpc[w] \in {"process", "cluster"} =>
            Owned(w)' = Owned(w) /\ (Kept(Owned(w))' => Kept(Owned(w)))
      <4> SUFFICES ASSUME NEW w \in Worker, wpc[w] \in {"process", "cluster"}
                   PROVE  Owned(w)' = Owned(w) /\ (Kept(Owned(w))' => Kept(Owned(w)))
        OBVIOUS
      <4>1. Owned(w)' = Owned(w)
        BY <2>1, <2>2 DEF Quiet, Owned, workerVars
      <4>2. Owned(w) \in Batch /\ Owned(w) # b
        BY <1>0, <2>5 DEF EditReview, Mutable
      <4> QED
        BY <3>1, <4>1, <4>2 DEF Kept
    <3> QED
      BY <2>1, <2>2, <2>3, <2>4, <3>3, <3>4, ReviewFrame DEF ReviewInv, workerVars
  <2>6. ASSUME NEW b \in Batch, NEW f \in Upload, UploadFile(a, b, f) PROVE ReviewInv'
    <3>1. /\ UNCHANGED <<done, edited>>
          /\ \A c \in Batch \ {b} : files'[c] = files[c]
      BY <2>6 DEF UploadFile, TypeOK, BatchesOK
    <3>2. ~HasActive(b)
      BY <2>6 DEF UploadFile, AcceptsFiles, ReviewInv, Closed
    <3>3. \A c \in Batch : HasActive(c) /\ Kept(c)' /\ (Kept(c) => files[c] = done[c])
                             => files'[c] = done'[c]
      BY <3>1, <3>2 DEF Kept
    <3>4. \A w \in Worker : Kept(Owned(w))' <=> Kept(Owned(w))
      BY <2>1, <2>2, <3>1 DEF Kept, Quiet, Owned, workerVars
    <3> QED
      BY <2>1, <2>2, <2>3, <2>4, <3>3, <3>4, ReviewFrame DEF ReviewInv, workerVars
  <2>7. CASE UNCHANGED <<files, done, edited>>
    <3>1. \A w \in Worker : Kept(Owned(w))' <=> Kept(Owned(w))
      BY <2>1, <2>2, <2>7 DEF Kept, Quiet, Owned, workerVars
    <3>2. \A c \in Batch : HasActive(c) /\ Kept(c)' /\ (Kept(c) => files[c] = done[c])
                             => files'[c] = done'[c]
      BY <2>7 DEF Kept
    <3> QED
      BY <2>1, <2>2, <2>3, <2>4, <3>1, <3>2, ReviewFrame DEF ReviewInv, workerVars
  <2> QED
    BY <1>3, <2>5, <2>6, <2>7 DEF ApiStep, CreateBatch, ClaimPublish, CommitPublish,
       ReleasePublish, ReadManifest, StoreManifest
<1> QED
  BY <1>1, <1>2, <1>3

LEMMA WorkerKeepsReview ==
  ASSUME TypeOK, RowsOK, RowInv, LockInv, RunInv, JobInv, ReviewInv, NEW w \in Worker, WorkerStep(w)
  PROVE  ReviewInv'
<1> USE ConstantsAssumption
<1>0. \A v \in Worker \ {w} : ~InLoop(v)'
  BY OthersAreDown DEF InLoop, Working
<1>1. CASE ClaimJob(w)
  <2>1. PICK j \in Queue :
          /\ jobStatus' = [i \in Job |-> IF i = j THEN "running"
                                        ELSE IF i \in Recovered THEN "queued"
                                        ELSE jobStatus[i]]
          /\ SetStatus(jobBatch[j], "processing")
    BY <1>1 DEF ClaimJob
  <2>2. j \in Job /\ Active(j) /\ UNCHANGED <<jobBatch, files, done, edited>>
    BY <1>1, <2>1 DEF ClaimJob, Queue, Recovered, Active
  <2>3. \A i \in Job : Active(i)' <=> Active(i)
    BY <2>1, <2>2 DEF Recovered, Active
  <2>4. \A b \in Batch : HasActive(b)' <=> HasActive(b)
    BY <2>2, <2>3 DEF HasActive
  <2>5. \A b \in Batch : Closed(b)' => Closed(b)
    BY <2>1 DEF SetStatus, Closed, TypeOK, BatchesOK
  <2>6. wpc'[w] = "discover"
    BY <1>1 DEF ClaimJob, Goto, TypeOK, WorkersOK
  <2>7. \A v \in Worker : wpc'[v] \notin {"process", "cluster"}
    BY <1>0, <2>6 DEF InLoop, Working
  <2> QED
    BY <2>2, <2>4, <2>5, <2>7 DEF ReviewInv, Kept
<1>2. CASE CompleteJob(w) \/ FailJob(w)
  <2>0. PICK o \in Batch, k \in Job, s \in {"ready", "failed"}, js \in {"completed", "failed"} :
          /\ o = Owned(w) /\ k = wjob[w] /\ o = jobBatch[k] /\ SetStatus(o, s)
          /\ EndJob(w, js, s)
    BY <1>2, OwnedInBatch DEF CompleteJob, FailJob, EndJob, InLoop, Working, Owned
  <2>1. /\ UNCHANGED <<files, done, edited, jobBatch>>
        /\ \A i \in Job : jobStatus'[i] = IF i = k /\ jobStatus[k] # "deleted" THEN js ELSE jobStatus[i]
    BY <2>0 DEF EndJob, SetJob, TypeOK, JobsOK
  <2>2. \A i \in Job : Active(i)' <=> Active(i) /\ i # k
    BY <2>0, <2>1 DEF Active
  <2>3. \A b \in Batch : HasActive(b)' => HasActive(b)
    BY <2>1, <2>2 DEF HasActive
  <2>4. ~HasActive(o)'
    <3>1. CASE jobStatus[k] = "running"
      BY <2>0, <2>1, <2>2, <3>1 DEF HasActive, Active, RowInv, OneActiveJob
    <3>2. CASE status[o] = "deleted"
      <4>1. ~HasActive(o)
        BY <3>2 DEF HasActive, RowInv, ActiveExists, Exists
      <4> QED
        BY <2>3, <4>1
    <3>3. InLoop(w)
      BY <1>2 DEF CompleteJob, FailJob, InLoop, Working
    <3> QED
      BY <2>0, <3>1, <3>2, <3>3 DEF JobInv, HeldJob
  <2>5. \A b \in Batch \ {o} : status'[b] = status[b]
    BY <2>0 DEF SetStatus, TypeOK, BatchesOK
  <2>6. \A b \in Batch : Closed(b)' => ~HasActive(b)'
    BY <2>3, <2>4, <2>5 DEF Closed, ReviewInv
  <2>7. wpc'[w] = "idle"
    BY <2>0 DEF EndJob, Goto, TypeOK, WorkersOK
  <2>8. \A v \in Worker : wpc'[v] \notin {"process", "cluster"}
    BY <1>0, <2>7 DEF InLoop, Working
  <2> QED
    BY <2>1, <2>3, <2>6, <2>8 DEF ReviewInv, Kept
<1>3. ASSUME ~ClaimJob(w), ~CompleteJob(w), ~FailJob(w) PROVE ReviewInv'
  <2>1. Quiet
    BY <1>3, WorkerQuiet
  <2>2. UNCHANGED <<wjob, edited>>
    BY <1>3 DEF WorkerStep, PollEmptyQueue, Discover, ExtractMember, FinishArchive, LoadAssets,
       ProcessAsset, FinishAssets, ReplaceClusters, Geocode, PersistManifest, workerVars, batchVars,
       vars
  <2>3. InLoop(w)' => InLoop(w)
    BY <1>3 DEF WorkerStep, PollEmptyQueue, Discover, ExtractMember, FinishArchive, LoadAssets,
       ProcessAsset, FinishAssets, ReplaceClusters, Geocode, PersistManifest, workerVars, vars,
       InLoop, Working
  <2>4. \A v \in Worker : InLoop(v)' => InLoop(v) /\ wjob'[v] = wjob[v]
    BY <1>0, <2>2, <2>3
  <2>5. \A b \in Batch : Closed(b)' => Closed(b) \/ ~Exists(b)
    BY <1>3 DEF WorkerStep, PollEmptyQueue, Discover, ExtractMember, FinishArchive, LoadAssets,
       ProcessAsset, FinishAssets, ReplaceClusters, Geocode, PersistManifest, SetStatus, Closed,
       Exists, TypeOK, BatchesOK, batchVars, vars
  <2>6. \A b \in Batch : Kept(b)' <=> Kept(b)
    BY <2>2 DEF Kept
  <2>7. Owned(w)' = Owned(w)
    BY <2>1, <2>2 DEF Quiet, Owned
  <2>8. Kept(Owned(w))' <=> Kept(Owned(w))
    BY <2>2, <2>7 DEF Kept
  <2>9. ASSUME NEW b \in Batch, HasActive(b), Kept(b), files[b] = done[b]
        PROVE  files'[b] = done'[b]
    <3>1. CASE UNCHANGED <<files, done>>
      BY <2>9, <3>1
    <3>2. CASE Discover(w)
      <4>1. done' = done /\ (Owned(w) # b \/ Owned(w) \notin LocalBatch => files'[b] = files[b])
        BY <3>2 DEF Discover, TypeOK, BatchesOK
      <4> QED
        BY <2>9, <4>1 DEF Kept
    <3>3. CASE ExtractMember(w) \/ FinishArchive(w)
      <4>1. Owned(w) # b
        BY <2>9, <3>3 DEF ExtractMember, FinishArchive, Pending, Kept
      <4> QED
        BY <2>9, <3>3, <4>1 DEF ExtractMember, FinishArchive, TypeOK, BatchesOK
    <3>4. CASE ProcessAsset(w)
      <4>1. PICK f : done' = [done EXCEPT ![Owned(w)] = @ \cup ({f} \cap files[Owned(w)])]
        BY <3>4 DEF ProcessAsset
      <4>2. done'[b] = done[b]
        BY <2>9, <4>1 DEF TypeOK, BatchesOK
      <4> QED
        BY <2>9, <3>4, <4>2 DEF ProcessAsset
    <3> QED
      BY <1>3, <3>1, <3>2, <3>3, <3>4 DEF WorkerStep, PollEmptyQueue, LoadAssets, FinishAssets,
         ReplaceClusters, Geocode, PersistManifest, batchVars, vars
  <2>10. ASSUME Kept(Owned(w)), wpc'[w] \in {"process", "cluster"}
         PROVE  wpc'[w] = "process" /\ ~wfull'[w]
    <3>1. CASE LoadAssets(w)
      <4>1. Owned(w) \in Batch /\ HasActive(Owned(w))
        BY <3>1, RunIsActive DEF LoadAssets, Working
      <4>2. files[Owned(w)] = done[Owned(w)]
        BY <2>10, <4>1 DEF ReviewInv
      <4> QED
        BY <3>1, <4>2 DEF LoadAssets, Goto, TypeOK, WorkersOK
    <3>2. CASE ProcessAsset(w)
      BY <2>10, <3>2 DEF ProcessAsset, ReviewInv
    <3>3. CASE FinishAssets(w)
      BY <2>10, <3>3 DEF FinishAssets, AfterAssets, Goto, ReviewInv, TypeOK, WorkersOK
    <3>4. CASE PollEmptyQueue(w)
      BY <2>10, <3>4 DEF PollEmptyQueue, vars, workerVars
    <3> QED
      BY <1>3, <2>10, <3>1, <3>2, <3>3, <3>4 DEF WorkerStep, Discover, ExtractMember, FinishArchive,
         ReplaceClusters, Geocode, PersistManifest, Goto, workerVars, TypeOK, WorkersOK
  <2>11. \A v \in Worker : InLoop(v)' /\ Kept(Owned(v))' =>
           /\ wpc'[v] = "process" => ~wfull'[v]
           /\ wpc'[v] # "cluster"
    BY <1>0, <2>8, <2>10
  <2>12. \A b \in Batch : HasActive(b) /\ Kept(b)' /\ (Kept(b) => files[b] = done[b])
                             => files'[b] = done'[b]
    BY <2>6, <2>9
  <2> QED
    BY <2>1, <2>4, <2>5, <2>11, <2>12, ReviewFrame
<1> QED
  BY <1>1, <1>2, <1>3

LEMMA ReviewInvStep ==
  ASSUME TypeOK, RowsOK, RowInv, LockInv, RunInv, JobInv, ReviewInv, [Next]_vars
  PROVE  ReviewInv'
<1>1. ASSUME (\E w \in Worker : StartWorker(w)) \/ Environment \/ UNCHANGED vars PROVE ReviewInv'
  <2>1. UNCHANGED <<status, files, done, covered, edited, jobBatch, jobStatus>>
    BY <1>1 DEF StartWorker, Environment, GoStale, RaiseError, CrashWorker, StopWorker, Exit,
       LoseLock, CrashApi, vars, batchVars, jobVars
  <2>2. Quiet
    BY <2>1 DEF Quiet, Held, Exists
  <2>3. \A v \in Worker : wpc'[v] \in {"process", "cluster"} =>
          UNCHANGED <<wpc[v], wfull[v], wjob[v]>>
    BY <1>1 DEF StartWorker, Environment, GoStale, RaiseError, CrashWorker, StopWorker, Exit,
       ForgetJob, Goto, LoseLock, CrashApi, vars, workerVars, TypeOK, WorkersOK
  <2>4. \A b \in Batch : /\ Closed(b)' <=> Closed(b)
                         /\ HasActive(b)' <=> HasActive(b)
    BY <2>1 DEF Closed, HasActive, Active
  <2>5. \A v \in Worker : wpc'[v] \in {"process", "cluster"} => (Kept(Owned(v))' <=> Kept(Owned(v)))
    BY <2>1, <2>3 DEF Kept, Owned
  <2>6. \A b \in Batch : Kept(b)' <=> Kept(b)
    BY <2>1 DEF Kept
  <2> QED
    BY <2>1, <2>3, <2>4, <2>5, <2>6 DEF ReviewInv
<1> QED
  BY <1>1, ApiKeepsReview, WorkerKeepsReview DEF Next

\* A recovered or retried run of an uploaded batch never deletes the clusters and
\* the drafts a reviewer has worked on since the batch was enqueued.
THEOREM ReviewWorkKept == Spec /\ LockKept => UploadReviewKept
<1>1. Init => ReviewInv
  BY DEF Init, ReviewInv, Closed, Kept, HasActive, Active
<1>2. ReviewInv /\ [Next]_vars =>
        [\A w \in Worker : DiscardsReview(w) => Owned(w) \in LocalBatch]_vars
  BY DEF ReviewInv, DiscardsReview, Kept
<1>3. TypeOK /\ RowsOK /\ RowInv /\ LockInv /\ RunInv /\ JobInv /\ ReviewInv /\ [Next]_vars
        => ReviewInv'
  BY ReviewInvStep
<1> QED
  BY <1>1, <1>2, <1>3, TypeCorrect, RowInvariant, LockInvariant, RunInvariant, JobInvariant, PTL
  DEF Spec, UploadReviewKept

-----------------------------------------------------------------------------
(* What is offered while nothing fails.                                    *)

Whole(b) ==
  files[b] \subseteq Archive \/ (covered[b] = files[b] \ Archive /\ manifest[b] # "none")

\* What a run has made of its batch at each place.
RunSound(w) ==
  /\ wpc[w] # "failing"
  /\ wpc[w] \in Working \ {"complete"} => status[Owned(w)] = "processing"
  /\ wpc[w] \in {"discover", "load"} => done[Owned(w)] \subseteq Archive
  /\ wpc[w] = "process" /\ ~wfull[w] => files[Owned(w)] \subseteq Archive
  /\ wpc[w] \in {"geocode", "persist"} => covered[Owned(w)] = files[Owned(w)] \ Archive
  /\ wpc[w] = "complete" => Whole(Owned(w))

BatchSound(b) ==
  /\ status[b] # "failed"
  /\ status[b] \in {"none", "draft", "queued"} => done[b] = {}
  /\ Offered(b) => Whole(b)
  /\ ~Exists(b) => manifest[b] = "none"

JobSound(i) ==
  /\ jobStatus[i] = "running" => \E w \in Worker : InLoop(w) /\ wjob[w] = i
  /\ jobStatus[i] = "queued" => status[jobBatch[i]] = "queued"

HandlerSound(a) ==
  apc[a] = "publishing" => Offered(abatch[a]) \/ status[abatch[a]] = "deleted"

SoundInv ==
  /\ \A w \in Worker : RunSound(w)
  /\ \A b \in Batch : BatchSound(b)
  /\ \A i \in Job : JobSound(i)
  /\ \A a \in Api : HandlerSound(a)

\* What a run knows, restated for a worker whose place and batch stay.
LEMMA RunSoundFrame ==
  ASSUME NEW w \in Worker, RunSound(w), wpc'[w] = wpc[w],
         InLoop(w) => /\ Owned(w)' = Owned(w) /\ (wfull'[w] <=> wfull[w])
                      /\ status[Owned(w)] = "processing" => status'[Owned(w)] = "processing"
                      /\ done'[Owned(w)] = done[Owned(w)] /\ files'[Owned(w)] = files[Owned(w)]
                      /\ covered'[Owned(w)] = covered[Owned(w)]
                      /\ manifest[Owned(w)] # "none" => manifest'[Owned(w)] # "none"
  PROVE  RunSound(w)'
BY DEF RunSound, Whole, InLoop, Working

LEMMA ApiSound ==
  ASSUME TypeOK, RowsOK, RowInv, RunInv, SoundInv, NEW a \in Api, ApiStep(a)
  PROVE  SoundInv'
<1> USE DEF TypeOK, BatchesOK, Exists, Offered
<1>0. ASSUME NEW w \in Worker, InLoop(w)
      PROVE  /\ wjob[w] \in Job /\ wjob[w] <= njobs /\ Owned(w) \in Batch
             /\ status[Owned(w)] \notin {"none", "draft", "failed", "queued"}
             /\ status[Owned(w)] = "ready" => wpc[w] = "complete"
  BY <1>0, OwnedInBatch DEF SoundInv, RunSound, RunInv, RunOK, InLoop, Working
<1>w. UNCHANGED workerVars
  BY DEF ApiStep, CreateBatch, UploadFile, Enqueue, DeleteBatch, EditReview, ClaimPublish,
     CommitPublish, ReleasePublish, ReadManifest, StoreManifest, workerVars
<1>l. \A w \in Worker : InLoop(w)' <=> InLoop(w)
  BY <1>w DEF InLoop, workerVars
<1>1. ASSUME NEW b \in Batch, CreateBatch(a, b) PROVE SoundInv'
  <2>1. /\ status[b] = "none" /\ status'[b] = "draft"
        /\ \A c \in Batch \ {b} : status'[c] = status[c]
        /\ UNCHANGED <<files, done, covered, manifest, jobVars, apiVars>>
    BY <1>1 DEF CreateBatch
  <2>2. ASSUME NEW w \in Worker PROVE RunSound(w)'
    BY <1>0, <1>w, <2>1, RunSoundFrame DEF SoundInv, Owned, workerVars, jobVars
  <2>3. \A c \in Batch : BatchSound(c)'
    BY <2>1 DEF SoundInv, BatchSound, Whole
  <2>4. \A i \in Job : JobSound(i)'
    BY <1>w, <1>l, <2>1 DEF SoundInv, JobSound, workerVars, jobVars, RowsOK, JobsOK
  <2>5. \A x \in Api : HandlerSound(x)'
    BY <2>1 DEF SoundInv, HandlerSound, apiVars, RowsOK
  <2> QED
    BY <2>2, <2>3, <2>4, <2>5 DEF SoundInv
<1>2. ASSUME NEW b \in Batch, NEW f \in Upload, UploadFile(a, b, f) PROVE SoundInv'
  <2>1. /\ status[b] \in {"draft", "failed"}
        /\ \A c \in Batch \ {b} : files'[c] = files[c]
        /\ UNCHANGED <<status, done, covered, manifest, jobVars, apiVars>>
    BY <1>2 DEF UploadFile, AcceptsFiles
  <2>2. ASSUME NEW w \in Worker PROVE RunSound(w)'
    BY <1>0, <1>w, <2>1, RunSoundFrame DEF SoundInv, Owned, workerVars, jobVars
  <2>3. \A c \in Batch : BatchSound(c)'
    BY <2>1 DEF SoundInv, BatchSound, Whole
  <2>4. \A i \in Job : JobSound(i)'
    BY <1>w, <1>l, <2>1 DEF SoundInv, JobSound, workerVars, jobVars
  <2>5. \A x \in Api : HandlerSound(x)'
    BY <2>1 DEF SoundInv, HandlerSound, apiVars
  <2> QED
    BY <2>2, <2>3, <2>4, <2>5 DEF SoundInv
<1>3. ASSUME NEW b \in Batch, Enqueue(a, b) PROVE SoundInv'
  <2>1. PICK n \in Job : n = njobs + 1 /\ jobStatus[n] = "none"
    BY <1>3, ConstantsAssumption DEF Enqueue, JobsOK, RowsOK, Job
  <2>2. /\ \A j \in Job \ {n} : jobBatch'[j] = jobBatch[j] /\ jobStatus'[j] = jobStatus[j]
        /\ jobBatch'[n] = b /\ jobStatus'[n] = "queued"
        /\ \A c \in Batch \ {b} : status'[c] = status[c]
        /\ status'[b] = "queued"
        /\ UNCHANGED <<files, done, covered, manifest, apiVars>>
    BY <1>3, <2>1 DEF Enqueue, JobsOK
  <2>3. status[b] = "draft"
    <3>1. status[b] \notin {"queued", "processing", "failed", "ready", "publishing", "published"}
      BY <1>3 DEF Enqueue, Processable, RowInv, NoOrphanedBatch, SoundInv, BatchSound
    <3> QED
      BY <1>3, <3>1 DEF Enqueue, Processable, BatchStatus
  <2>4. ASSUME NEW w \in Worker, InLoop(w) PROVE Owned(w)' = Owned(w) /\ Owned(w) # b /\ wjob[w] # n
    <3>1. wjob[w] # n
      BY <1>0, <2>1, <2>4 DEF JobsOK
    <3> QED
      BY <1>0, <1>w, <2>2, <2>3, <2>4, <3>1 DEF Owned, workerVars
  <2>5. ASSUME NEW w \in Worker PROVE RunSound(w)'
    BY <1>0, <1>w, <2>2, <2>4, RunSoundFrame DEF SoundInv, workerVars
  <2>6. \A c \in Batch : BatchSound(c)'
    BY <2>2, <2>3 DEF SoundInv, BatchSound, Whole
  <2>7. ASSUME NEW i \in Job PROVE JobSound(i)'
    <3>1. CASE i = n
      BY <2>2, <3>1 DEF JobSound
    <3>2. CASE i # n
      <4>1. jobStatus[i] = "queued" => jobBatch[i] \in Batch \ {b}
        BY <1>3, <3>2 DEF Enqueue, HasActive, Active, RowsOK, JobsOK
      <4> QED
        BY <1>w, <1>l, <2>2, <3>2, <4>1 DEF SoundInv, JobSound, workerVars
    <3> QED
      BY <3>1, <3>2
  <2>8. \A x \in Api : HandlerSound(x)'
    BY <2>2, <2>3 DEF SoundInv, HandlerSound, apiVars, RowsOK
  <2> QED
    BY <2>5, <2>6, <2>7, <2>8 DEF SoundInv
<1>4. ASSUME NEW b \in Batch, DeleteBatch(a, b) PROVE SoundInv'
  <2>1. /\ UNCHANGED <<jobBatch, apiVars>>
        /\ \A i \in Job : jobStatus'[i] = IF jobBatch[i] = b THEN "deleted" ELSE jobStatus[i]
        /\ \A c \in Batch \ {b} : /\ status'[c] = status[c] /\ files'[c] = files[c]
                                  /\ done'[c] = done[c] /\ covered'[c] = covered[c]
                                  /\ manifest'[c] = manifest[c]
        /\ status[b] \in {"draft", "failed", "ready"}
        /\ status'[b] = "deleted" /\ files'[b] = {} /\ manifest'[b] = "none"
    BY <1>4 DEF DeleteBatch, Mutable
  <2>2. ASSUME NEW w \in Worker PROVE RunSound(w)'
    <3>1. CASE InLoop(w) /\ Owned(w) = b
      <4>1. wpc[w] = "complete"
        BY <1>0, <2>1, <3>1
      <4>2. Owned(w)' = b
        BY <1>w, <2>1, <3>1 DEF Owned, workerVars
      <4> QED
        BY <1>w, <2>1, <4>1, <4>2 DEF RunSound, Whole, workerVars
    <3>2. CASE ~(InLoop(w) /\ Owned(w) = b)
      BY <1>0, <1>w, <2>1, <3>2, RunSoundFrame DEF SoundInv, Owned, workerVars
    <3> QED
      BY <3>1, <3>2
  <2>3. \A c \in Batch : BatchSound(c)'
    BY <2>1 DEF SoundInv, BatchSound, Whole
  <2>4. \A i \in Job : JobSound(i)'
    BY <1>w, <1>l, <2>1 DEF SoundInv, JobSound, workerVars, RowsOK, JobsOK
  <2>5. \A x \in Api : HandlerSound(x)'
    BY <2>1 DEF SoundInv, HandlerSound, apiVars, RowsOK
  <2> QED
    BY <2>2, <2>3, <2>4, <2>5 DEF SoundInv
<1>5. ASSUME NEW b \in Batch, EditReview(a, b) PROVE SoundInv'
  <2>1. /\ UNCHANGED <<status, files, done, covered, jobVars>>
        /\ ChangeRows(b) /\ Exists(b) /\ apc[a] = "idle"
        /\ apc'[a] = "refresh" /\ abatch'[a] = b
        /\ \A x \in Api \ {a} : apc'[x] = apc[x] /\ abatch'[x] = abatch[x]
    BY <1>5 DEF EditReview, Mutable, Idle, ApisOK
  <2>2. /\ \A c \in Batch \ {b} : manifest'[c] = manifest[c]
        /\ manifest'[b] = "none" <=> manifest[b] = "none"
    BY <2>1 DEF ChangeRows
  <2>3. ASSUME NEW w \in Worker PROVE RunSound(w)'
    BY <1>0, <1>w, <2>1, <2>2, RunSoundFrame DEF SoundInv, Owned, workerVars, jobVars
  <2>4. \A c \in Batch : BatchSound(c)'
    BY <2>1, <2>2 DEF SoundInv, BatchSound, Whole
  <2>5. \A i \in Job : JobSound(i)'
    BY <1>w, <1>l, <2>1 DEF SoundInv, JobSound, workerVars, jobVars
  <2>6. \A x \in Api : HandlerSound(x)'
    BY <2>1 DEF SoundInv, HandlerSound
  <2> QED
    BY <2>3, <2>4, <2>5, <2>6 DEF SoundInv
<1>6. ASSUME NEW b \in Batch, ClaimPublish(a, b) PROVE SoundInv'
  <2>1. /\ UNCHANGED <<files, done, covered, manifest, jobVars>>
        /\ status[b] = "ready" /\ status'[b] = "publishing" /\ apc[a] = "idle"
        /\ \A c \in Batch \ {b} : status'[c] = status[c]
        /\ apc'[a] = "publishing" /\ abatch'[a] = b
        /\ \A x \in Api \ {a} : apc'[x] = apc[x] /\ abatch'[x] = abatch[x]
    BY <1>6 DEF ClaimPublish, Idle, ApisOK
  <2>2. ASSUME NEW w \in Worker PROVE RunSound(w)'
    BY <1>0, <1>w, <2>1, RunSoundFrame DEF SoundInv, Owned, workerVars, jobVars
  <2>3. \A c \in Batch : BatchSound(c)'
    BY <2>1 DEF SoundInv, BatchSound, Whole
  <2>4. \A i \in Job : JobSound(i)'
    BY <1>w, <1>l, <2>1 DEF SoundInv, JobSound, workerVars, jobVars, RowsOK, JobsOK
  <2>5. \A x \in Api : HandlerSound(x)'
    BY <2>1 DEF SoundInv, HandlerSound, RowsOK
  <2> QED
    BY <2>2, <2>3, <2>4, <2>5 DEF SoundInv
<1>7. CASE CommitPublish(a) \/ ReleasePublish(a)
  <2>1. PICK b \in Batch : b = abatch[a] /\ apc[a] = "publishing"
    BY <1>7 DEF CommitPublish, ReleasePublish, RowsOK
  <2>2. Offered(b) \/ status[b] = "deleted"
    BY <2>1 DEF SoundInv, HandlerSound
  <2>3. /\ UNCHANGED <<files, done, covered, jobVars>>
        /\ \A c \in Batch \ {b} : status'[c] = status[c] /\ manifest'[c] = manifest[c]
        /\ IF status[b] = "deleted" THEN status'[b] = "deleted" ELSE Offered(b)'
        /\ manifest'[b] = "none" <=> manifest[b] = "none"
        /\ \A x \in Api \ {a} : apc'[x] = apc[x] /\ abatch'[x] = abatch[x]
        /\ apc'[a] # "publishing"
    BY <1>7, <2>1, <2>2 DEF CommitPublish, ReleasePublish, SetStatus, ChangeRows, ApisOK
  <2>4. ASSUME NEW w \in Worker PROVE RunSound(w)'
    BY <1>0, <1>w, <2>2, <2>3, RunSoundFrame DEF SoundInv, Owned, workerVars, jobVars
  <2>5. \A c \in Batch : BatchSound(c)'
    BY <2>2, <2>3 DEF SoundInv, BatchSound, Whole
  <2>6. \A i \in Job : JobSound(i)'
    BY <1>w, <1>l, <2>2, <2>3 DEF SoundInv, JobSound, workerVars, jobVars, RowsOK, JobsOK
  <2>7. \A x \in Api : HandlerSound(x)'
    BY <2>2, <2>3 DEF SoundInv, HandlerSound, RowsOK
  <2> QED
    BY <2>4, <2>5, <2>6, <2>7 DEF SoundInv
<1>8. CASE ReadManifest(a) \/ StoreManifest(a)
  <2>1. PICK b \in Batch : b = abatch[a] /\ apc[a] \in {"refresh", "store"}
    BY <1>8 DEF ReadManifest, StoreManifest, RowsOK
  <2>2. /\ UNCHANGED <<status, files, done, covered, jobVars>>
        /\ \A c \in Batch \ {b} : manifest'[c] = manifest[c]
        /\ manifest'[b] = manifest[b] \/ (Exists(b) /\ manifest'[b] # "none")
        /\ \A x \in Api \ {a} : apc'[x] = apc[x] /\ abatch'[x] = abatch[x]
        /\ apc'[a] # "publishing"
    BY <1>8, <2>1 DEF ReadManifest, StoreManifest, Manifest, ApisOK
  <2>3. ASSUME NEW w \in Worker PROVE RunSound(w)'
    BY <1>0, <1>w, <2>2, RunSoundFrame DEF SoundInv, Owned, workerVars, jobVars
  <2>4. \A c \in Batch : BatchSound(c)'
    BY <2>2 DEF SoundInv, BatchSound, Whole
  <2>5. \A i \in Job : JobSound(i)'
    BY <1>w, <1>l, <2>2 DEF SoundInv, JobSound, workerVars, jobVars
  <2>6. \A x \in Api : HandlerSound(x)'
    BY <2>2 DEF SoundInv, HandlerSound
  <2> QED
    BY <2>3, <2>4, <2>5, <2>6 DEF SoundInv
<1> QED
  BY <1>1, <1>2, <1>3, <1>4, <1>5, <1>6, <1>7, <1>8 DEF ApiStep

\* A step of a run touches its own batch, and keeps it closed or offers it.
LEMMA RunStepSound ==
  ASSUME TypeOK, RowsOK, LockInv, SoundInv, NEW w \in Worker, WorkerStep(w),
         NEW o \in Batch, InLoop(w), o = Owned(w), InLoop(w)',
         UNCHANGED <<jobBatch, jobStatus, wjob, apiVars>>,
         \A c \in Batch \ {o} : /\ status'[c] = status[c] /\ files'[c] = files[c]
                                 /\ done'[c] = done[c] /\ covered'[c] = covered[c]
                                 /\ manifest'[c] = manifest[c],
         status[o] = "processing", status'[o] \in {"processing", "ready"},
         RunSound(w)', BatchSound(o)'
  PROVE  SoundInv'
<1> USE DEF Exists, Offered
<1>1. \A v \in Worker \ {w} : wpc[v] = "down" /\ wpc'[v] = "down"
  BY OthersAreDown
<1>2. \A v \in Worker : RunSound(v)'
  BY <1>1 DEF RunSound, Working
<1>3. \A c \in Batch \ {o} : BatchSound(c)'
  BY DEF SoundInv, BatchSound, Whole
<1>4. ASSUME NEW i \in Job PROVE JobSound(i)'
  <2>1. \A v \in Worker : InLoop(v) => InLoop(v)' /\ wjob'[v] = wjob[v]
    BY <1>1 DEF InLoop, Working
  <2>2. jobStatus[i] = "queued" => jobBatch[i] \in Batch \ {o}
    BY DEF SoundInv, JobSound, RowsOK, TypeOK, JobsOK
  <2> QED
    BY <2>1, <2>2 DEF SoundInv, JobSound
<1>5. \A a \in Api : HandlerSound(a)'
  BY DEF SoundInv, HandlerSound, apiVars, RowsOK
<1> QED
  BY <1>2, <1>3, <1>4, <1>5 DEF SoundInv

LEMMA WorkerSound ==
  ASSUME TypeOK, RowsOK, RowInv, LockInv, RunInv, SoundInv, NEW w \in Worker, WorkerStep(w)
  PROVE  SoundInv'
<1> USE DEF Exists, Offered
<1>1. \A v \in Worker \ {w} : wpc[v] = "down" /\ wpc'[v] = "down"
  BY OthersAreDown
<1>2. CASE PollEmptyQueue(w)
  BY <1>2 DEF PollEmptyQueue, SoundInv, RunSound, BatchSound, Whole, JobSound,
     HandlerSound, InLoop, Owned, vars, batchVars, jobVars, workerVars, apiVars
<1>3. CASE ClaimJob(w)
  <2>1. \A i \in Job : jobStatus[i] # "running"
    <3>1. \A v \in Worker : ~InLoop(v)
      BY <1>1, <1>3 DEF ClaimJob, InLoop, Working
    <3> QED
      BY <3>1 DEF SoundInv, JobSound
  <2>2. PICK j \in Job :
          /\ jobStatus[j] = "queued"
          /\ \A i \in Job \ {j} : jobStatus'[i] = jobStatus[i]
          /\ jobStatus'[j] = "running"
          /\ SetStatus(jobBatch[j], "processing")
          /\ wjob' = [wjob EXCEPT ![w] = j]
    BY <1>3, <2>1 DEF ClaimJob, Queue, Recovered
  <2>3. PICK b \in Batch : b = jobBatch[j] /\ status[b] = "queued"
    BY <2>2 DEF SoundInv, JobSound, RowsOK, TypeOK, JobsOK
  <2>4. /\ status'[b] = "processing"
        /\ \A c \in Batch \ {b} : status'[c] = status[c]
        /\ wpc'[w] = "discover" /\ wjob'[w] = j /\ Owned(w)' = b
        /\ UNCHANGED <<files, done, covered, manifest, jobBatch, apiVars>>
    BY <1>3, <2>2, <2>3 DEF ClaimJob, SetStatus, Goto, Owned, TypeOK, BatchesOK, WorkersOK
  <2>5. \A v \in Worker : RunSound(v)'
    <3>1. RunSound(w)'
      BY <2>3, <2>4 DEF RunSound, SoundInv, BatchSound, Working
    <3> QED
      BY <1>1, <3>1 DEF RunSound, Working
  <2>6. \A c \in Batch : BatchSound(c)'
    BY <2>3, <2>4 DEF SoundInv, BatchSound, Whole
  <2>7. ASSUME NEW i \in Job PROVE JobSound(i)'
    <3>1. CASE i = j
      BY <2>2, <2>4, <3>1 DEF JobSound, InLoop, Working
    <3>2. CASE i # j
      <4>1. jobStatus[i] = "queued" => jobBatch[i] \in Batch \ {b}
        BY <2>2, <2>3, <3>2 DEF RowInv, OneActiveJob, Active, RowsOK, TypeOK, JobsOK
      <4> QED
        BY <2>1, <2>2, <2>4, <3>2, <4>1 DEF SoundInv, JobSound
    <3> QED
      BY <3>1, <3>2
  <2>8. \A a \in Api : HandlerSound(a)'
    BY <2>3, <2>4 DEF SoundInv, HandlerSound, apiVars, RowsOK
  <2> QED
    BY <2>5, <2>6, <2>7, <2>8 DEF SoundInv
<1>4. ASSUME wpc[w] \in Working \ {"complete"}
      PROVE  SoundInv'
  <2>1. PICK o \in Batch : o = Owned(w)
    BY <1>4, OwnedInBatch DEF InLoop
  <2>2. /\ status[o] = "processing" /\ InLoop(w)
        /\ RunSound(w) /\ BatchSound(o) /\ RunOK(w) /\ BatchOK(o)
    BY <1>4, <2>1 DEF SoundInv, RunSound, RunInv, InLoop
  <2>3. ASSUME UNCHANGED <<jobBatch, wjob>> PROVE Owned(w)' = o
    BY <2>1, <2>3 DEF Owned
  <2>4. ASSUME status'[o] \in {"processing", "ready"}, status'[o] = "ready" => Whole(o)'
        PROVE  BatchSound(o)'
    BY <2>2, <2>4 DEF BatchSound
  <2>5. CASE Discover(w)
    <3>1. /\ wpc'[w] = "load" /\ InLoop(w)'
          /\ UNCHANGED <<status, done, covered, manifest, jobBatch, jobStatus, wjob, apiVars>>
          /\ \A c \in Batch \ {o} : files'[c] = files[c]
      BY <2>1, <2>2, <2>5 DEF Discover, Goto, InLoop, Working, jobVars, TypeOK, BatchesOK, WorkersOK
    <3>2. RunSound(w)'
      BY <2>2, <2>3, <2>5, <3>1, <2>1 DEF Discover, RunSound
    <3>3. BatchSound(o)'
      BY <2>2, <2>4, <2>5, <3>1 DEF Discover
    <3> QED
      BY <2>1, <2>2, <3>1, <3>2, <3>3, RunStepSound
  <2>6. CASE ExtractMember(w)
    <3>1. /\ wpc'[w] = "load" /\ InLoop(w)'
          /\ UNCHANGED <<status, done, covered, manifest, jobBatch, jobStatus, wjob, apiVars>>
          /\ \A c \in Batch \ {o} : files'[c] = files[c]
      BY <2>1, <2>6 DEF ExtractMember, InLoop, Working, jobVars, workerVars, TypeOK, BatchesOK
    <3>2. RunSound(w)'
      BY <2>1, <2>2, <2>3, <2>6, <3>1 DEF ExtractMember, RunSound
    <3>3. BatchSound(o)'
      BY <2>2, <2>4, <2>6, <3>1 DEF ExtractMember
    <3> QED
      BY <2>1, <2>2, <3>1, <3>2, <3>3, RunStepSound
  <2>7. CASE FinishArchive(w)
    <3>1. /\ wpc[w] = "load" /\ wpc'[w] = "load" /\ InLoop(w)'
          /\ UNCHANGED <<status, files, covered, manifest, jobBatch, jobStatus, wjob, apiVars>>
      BY <2>7 DEF FinishArchive, InLoop, Working, jobVars, workerVars
    <3>2. PICK z \in Pending(o) : done' = [done EXCEPT ![o] = done[o] \cup {z}]
      BY <2>1, <2>7 DEF FinishArchive
    <3>3. /\ \A c \in Batch \ {o} : done'[c] = done[c]
          /\ done'[o] \subseteq done[o] \cup Archive
      BY <3>2 DEF Pending, TypeOK, BatchesOK
    <3>4. RunSound(w)'
      BY <2>2, <2>1, <2>3, <3>1, <3>3 DEF RunSound
    <3>5. BatchSound(o)'
      BY <2>2, <2>4, <3>1
    <3> QED
      BY <2>1, <2>2, <3>1, <3>3, <3>4, <3>5, RunStepSound
  <2>8. CASE LoadAssets(w)
    <3>1. /\ wpc[w] = "load" /\ wpc'[w] = "process" /\ InLoop(w)'
          /\ UNCHANGED <<status, files, done, covered, manifest, jobBatch, jobStatus, wjob, apiVars>>
          /\ wfull'[w] = (files[o] # done[o])
      BY <2>1, <2>8 DEF LoadAssets, Goto, InLoop, Working, batchVars, TypeOK, WorkersOK
    <3>2. RunSound(w)'
      BY <2>1, <2>2, <2>3, <3>1 DEF RunSound
    <3>3. BatchSound(o)'
      BY <2>2, <2>4, <3>1
    <3> QED
      BY <2>1, <2>2, <3>1, <3>2, <3>3, RunStepSound
  <2>9. CASE ProcessAsset(w)
    <3>1. /\ wpc[w] = "process" /\ wpc'[w] = "process" /\ InLoop(w)'
          /\ UNCHANGED <<status, files, covered, manifest, jobBatch, jobStatus, wjob, wfull, apiVars>>
          /\ \A c \in Batch \ {o} : done'[c] = done[c]
      BY <2>1, <2>9 DEF ProcessAsset, InLoop, Working, TypeOK, BatchesOK
    <3>2. RunSound(w)'
      BY <2>1, <2>2, <2>3, <3>1 DEF RunSound
    <3>3. BatchSound(o)'
      BY <2>2, <2>4, <3>1
    <3> QED
      BY <2>1, <2>2, <3>1, <3>2, <3>3, RunStepSound
  <2>10. CASE FinishAssets(w)
    <3>1. /\ wpc[w] = "process" /\ InLoop(w)'
          /\ wpc'[w] = IF wfull[w] THEN "cluster" ELSE "complete"
          /\ UNCHANGED <<status, files, done, covered, manifest, jobBatch, jobStatus, wjob, apiVars>>
      BY <2>10 DEF FinishAssets, AfterAssets, Goto, InLoop, Working, batchVars, jobVars, TypeOK, WorkersOK
    <3>2. RunSound(w)'
      BY <2>1, <2>2, <2>3, <3>1 DEF RunSound, Whole
    <3>3. BatchSound(o)'
      BY <2>2, <2>4, <3>1
    <3> QED
      BY <2>1, <2>2, <3>1, <3>2, <3>3, RunStepSound
  <2>11. CASE ReplaceClusters(w)
    <3>1. /\ wpc[w] = "cluster" /\ wpc'[w] = "geocode" /\ InLoop(w)'
          /\ UNCHANGED <<status, files, done, jobBatch, jobStatus, wjob, apiVars>>
          /\ \A c \in Batch \ {o} : covered'[c] = covered[c] /\ manifest'[c] = manifest[c]
          /\ covered'[o] = done[o] \ Archive
      BY <2>1, <2>11 DEF ReplaceClusters, ChangeRows, Goto, InLoop, Working, TypeOK, BatchesOK, WorkersOK
    <3>2. RunSound(w)'
      BY <2>1, <2>2, <2>3, <3>1 DEF RunSound, RunOK
    <3>3. BatchSound(o)'
      BY <2>2, <2>4, <3>1
    <3> QED
      BY <2>1, <2>2, <3>1, <3>2, <3>3, RunStepSound
  <2>12. CASE Geocode(w)
    <3>1. /\ wpc[w] = "geocode" /\ wpc'[w] = "persist" /\ InLoop(w)'
          /\ UNCHANGED <<status, files, done, covered, manifest, jobBatch, jobStatus, wjob, apiVars>>
      BY <2>12 DEF Geocode, Goto, InLoop, Working, batchVars, TypeOK, WorkersOK
    <3>2. RunSound(w)'
      BY <2>1, <2>2, <2>3, <3>1 DEF RunSound
    <3>3. BatchSound(o)'
      BY <2>2, <2>4, <3>1
    <3> QED
      BY <2>1, <2>2, <3>1, <3>2, <3>3, RunStepSound
  <2>13. CASE PersistManifest(w)
    <3>1. /\ wpc[w] = "persist" /\ wpc'[w] = "complete" /\ InLoop(w)'
          /\ UNCHANGED <<files, done, covered, jobBatch, jobStatus, wjob, apiVars>>
          /\ \A c \in Batch \ {o} : status'[c] = status[c] /\ manifest'[c] = manifest[c]
          /\ status'[o] = "ready" /\ manifest'[o] = "current"
      BY <2>1, <2>2, <2>13 DEF PersistManifest, SetStatus, Goto, InLoop, Working, jobVars,
         TypeOK, BatchesOK, WorkersOK
    <3>2. RunSound(w)'
      BY <2>1, <2>2, <2>3, <3>1 DEF RunSound, Whole
    <3>3. BatchSound(o)'
      BY <2>1, <2>2, <2>3, <3>1, <3>2 DEF BatchSound, RunSound
    <3> QED
      BY <2>1, <2>2, <3>1, <3>2, <3>3, RunStepSound
  <2> QED
    BY <1>4, <2>5, <2>6, <2>7, <2>8, <2>9, <2>10, <2>11, <2>12, <2>13
    DEF WorkerStep, ClaimJob, PollEmptyQueue, CompleteJob, FailJob, Working
<1>5. CASE CompleteJob(w)
  <2>1. PICK o \in Batch : o = Owned(w)
    BY <1>5, OwnedInBatch DEF CompleteJob, InLoop, Working
  <2>2. PICK k \in Job : k = wjob[w]
    BY <1>5, OwnedInBatch DEF CompleteJob, InLoop, Working
  <2>3. /\ Whole(o) /\ BatchSound(o)
        /\ status[o] \in {"processing", "ready", "publishing", "published", "deleted"}
    BY <1>5, <2>1 DEF CompleteJob, SoundInv, RunSound, RunInv, RunOK
  <2>4. /\ status'[o] = IF status[o] = "deleted" THEN "deleted" ELSE "ready"
        /\ \A c \in Batch \ {o} : status'[c] = status[c]
        /\ jobStatus'[k] \in {"deleted", "completed"}
        /\ \A i \in Job \ {k} : jobStatus'[i] = jobStatus[i]
        /\ wpc'[w] = "idle"
        /\ UNCHANGED <<files, done, covered, manifest, jobBatch, apiVars>>
    BY <1>5, <2>1, <2>2, <2>3 DEF CompleteJob, EndJob, SetJob, SetStatus, Goto, TypeOK, BatchesOK,
       JobsOK, WorkersOK
  <2>5. \A v \in Worker : RunSound(v)'
    BY <1>1, <2>4 DEF RunSound, Working
  <2>6. \A c \in Batch : BatchSound(c)'
    BY <2>3, <2>4 DEF SoundInv, BatchSound, Whole
  <2>7. ASSUME NEW i \in Job PROVE JobSound(i)'
    <3>1. CASE i = k
      BY <2>4, <3>1 DEF JobSound
    <3>2. CASE i # k
      <4>1. jobStatus[i] # "running"
        BY <1>1, <2>2, <3>2 DEF SoundInv, JobSound, InLoop, Working
      <4>2. jobStatus[i] = "queued" => jobBatch[i] \in Batch \ {o}
        BY <2>3 DEF SoundInv, JobSound, RowsOK, TypeOK, JobsOK
      <4> QED
        BY <2>4, <3>2, <4>1, <4>2 DEF SoundInv, JobSound
    <3> QED
      BY <3>1, <3>2
  <2>8. \A a \in Api : HandlerSound(a)'
    BY <2>3, <2>4 DEF SoundInv, HandlerSound, apiVars, RowsOK
  <2> QED
    BY <2>5, <2>6, <2>7, <2>8 DEF SoundInv
<1>6. ~FailJob(w)
  BY DEF FailJob, SoundInv, RunSound
<1> QED
  BY <1>2, <1>3, <1>4, <1>5, <1>6
  DEF WorkerStep, Discover, ExtractMember, FinishArchive, LoadAssets, ProcessAsset, FinishAssets,
      ReplaceClusters, Geocode, PersistManifest, Working

LEMMA StartSound ==
  ASSUME TypeOK, SoundInv, NEW w \in Worker, StartWorker(w)
  PROVE  SoundInv'
<1>1. /\ UNCHANGED <<batchVars, jobBatch, jobStatus, wjob, wfull, apiVars>>
      /\ wpc[w] = "down" /\ wpc'[w] = "idle" /\ \A v \in Worker \ {w} : wpc'[v] = wpc[v]
  BY DEF StartWorker, Goto, jobVars, TypeOK, WorkersOK
<1>2. \A v \in Worker : RunSound(v)'
  BY <1>1 DEF SoundInv, RunSound, Whole, Owned, batchVars, Working
<1>3. \A b \in Batch : BatchSound(b)'
  BY <1>1 DEF SoundInv, BatchSound, Whole, Offered, Exists, batchVars
<1>4. \A i \in Job : JobSound(i)'
  BY <1>1 DEF SoundInv, JobSound, InLoop, Working, batchVars
<1>5. \A a \in Api : HandlerSound(a)'
  BY <1>1 DEF SoundInv, HandlerSound, Offered, batchVars, apiVars
<1> QED
  BY <1>2, <1>3, <1>4, <1>5 DEF SoundInv

LEMMA EnvironmentSound ==
  ASSUME TypeOK, Environment, faults' = 0
  PROVE  /\ faults = 0
         /\ UNCHANGED <<batchVars, jobBatch, jobStatus, workerVars, apiVars>>
<1>1. ~\E kind \in Faults : faults' = faults + 1
  BY DEF TypeOK
<1> QED
  BY <1>1 DEF Environment, GoStale, RaiseError, CrashWorker, StopWorker, LoseLock, CrashApi, Inject

-----------------------------------------------------------------------------
(* The manifest while nothing fails, of a batch on which no two requests   *)
(* have overlapped: one handler at most works on it, none while it is      *)
(* queued or processed, and whoever changed its rows will rebuild it.      *)

AtWork(b) == {a \in Api : abatch[a] = b}

\* Who makes an outdated manifest current again.
Refreshed(b) ==
  \/ \E a \in AtWork(b) : apc[a] \in {"refresh", "store"}
  \/ \E w \in Worker : wpc[w] \in {"geocode", "persist"} /\ Owned(w) = b

ManifestSound(b) ==
  /\ \A x, y \in AtWork(b) : x = y
  /\ \A x \in AtWork(b) : apc[x] # "idle" /\ (apc[x] = "store" => x \in fresh)
  /\ status[b] \in {"queued", "processing"} => AtWork(b) = {}
  /\ manifest[b] = "outdated" => Refreshed(b)

ManifestInv == \A b \in Batch \ met : ManifestSound(b)

LEMMA ApiManifest ==
  ASSUME TypeOK, RowsOK, RunInv, SoundInv, ManifestInv, NEW a \in Api, ApiStep(a)
  PROVE  ManifestInv'
<1> USE DEF TypeOK, BatchesOK, ApisOK, Exists
<1>w. UNCHANGED workerVars
  BY DEF ApiStep, CreateBatch, UploadFile, Enqueue, DeleteBatch, EditReview, ClaimPublish,
     CommitPublish, ReleasePublish, ReadManifest, StoreManifest, workerVars
<1>r. ASSUME NEW w \in Worker, wpc[w] \in {"geocode", "persist"}
      PROVE  /\ wjob[w] \in Job /\ wjob[w] <= njobs /\ Owned(w) \in Batch
             /\ status[Owned(w)] = "processing"
             /\ UNCHANGED jobBatch => Owned(w)' = Owned(w)
  BY <1>r, <1>w, OwnedInBatch DEF SoundInv, RunSound, InLoop, Working, Owned, workerVars
\* A batch whose handlers, manifest and closed statuses stay.
<1>f. ASSUME NEW c \in Batch, ManifestSound(c), UNCHANGED jobBatch,
             manifest'[c] = "outdated" => manifest[c] = "outdated",
             status'[c] \in {"queued", "processing"} => status'[c] = status[c],
             \A x \in Api : abatch'[x] = c <=> abatch[x] = c,
             \A x \in AtWork(c) : apc'[x] = apc[x] /\ (x \in fresh => x \in fresh')
      PROVE  ManifestSound(c)'
  <2>1. AtWork(c)' = AtWork(c)
    BY <1>f DEF AtWork
  <2>2. Refreshed(c) => Refreshed(c)'
    BY <1>f, <1>r, <1>w, <2>1 DEF Refreshed, workerVars
  <2> QED
    BY <1>f, <2>1, <2>2 DEF ManifestSound
<1>1. ASSUME NEW b \in Batch, CreateBatch(a, b) PROVE ManifestInv'
  BY <1>1, <1>f DEF CreateBatch, ManifestInv, jobVars, apiVars
<1>2. ASSUME NEW b \in Batch, NEW f \in Upload, UploadFile(a, b, f) PROVE ManifestInv'
  BY <1>2, <1>f DEF UploadFile, ManifestInv, jobVars, apiVars
<1>3. ASSUME NEW b \in Batch, Enqueue(a, b) PROVE ManifestInv'
  <2>1. /\ UNCHANGED <<manifest, fresh, apiVars>>
        /\ \A j \in Job : j <= njobs => jobBatch'[j] = jobBatch[j]
        /\ \A c \in Batch \ {b} : status'[c] = status[c]
        /\ met \subseteq met' /\ (b \notin met' => AtWork(b) = {})
    BY <1>3 DEF Enqueue, Meet, AtWork, JobsOK
  <2>2. ASSUME NEW c \in Batch \ met' PROVE ManifestSound(c)'
    <3>1. ManifestSound(c)
      BY <2>1 DEF ManifestInv
    <3>2. AtWork(c)' = AtWork(c)
      BY <2>1 DEF AtWork, apiVars
    <3>3. \A w \in Worker : wpc[w] \in {"geocode", "persist"} => Owned(w)' = Owned(w)
      BY <1>r, <1>w, <2>1 DEF Owned, workerVars
    <3>4. Refreshed(c) => Refreshed(c)'
      BY <1>w, <2>1, <3>2, <3>3 DEF Refreshed, workerVars, apiVars
    <3> QED
      BY <2>1, <3>1, <3>2, <3>4 DEF ManifestSound, apiVars
  <2> QED
    BY <2>2 DEF ManifestInv
<1>4. ASSUME NEW b \in Batch, DeleteBatch(a, b) PROVE ManifestInv'
  BY <1>4, <1>f DEF DeleteBatch, ManifestInv, apiVars
<1>5. ASSUME NEW b \in Batch, EditReview(a, b) PROVE ManifestInv'
  <2>1. /\ UNCHANGED <<status, jobBatch>> /\ status[b] \notin {"queued", "processing"}
        /\ \A c \in Batch \ {b} : manifest'[c] = manifest[c]
        /\ \A x \in fresh : abatch[x] # b => x \in fresh'
        /\ apc[a] = "idle" /\ apc'[a] = "refresh" /\ abatch'[a] = b
        /\ \A x \in Api \ {a} : apc'[x] = apc[x] /\ abatch'[x] = abatch[x]
        /\ met \subseteq met' /\ (b \notin met' => AtWork(b) = {})
    BY <1>5 DEF EditReview, Mutable, Idle, ChangeRows, Meet, AtWork, jobVars
  <2>2. b \notin met' => AtWork(b)' = {a}
    BY <2>1 DEF AtWork
  <2>3. b \notin met' => ManifestSound(b)'
    BY <2>1, <2>2 DEF ManifestSound, Refreshed
  <2>4. ASSUME NEW c \in Batch \ met', c # b PROVE ManifestSound(c)'
    <3>1. ManifestSound(c) /\ a \notin AtWork(c)
      BY <2>1 DEF ManifestInv, ManifestSound
    <3> QED
      BY <1>f, <2>1, <2>4, <3>1 DEF AtWork
  <2> QED
    BY <2>3, <2>4 DEF ManifestInv
<1>6. ASSUME NEW b \in Batch, ClaimPublish(a, b) PROVE ManifestInv'
  <2>1. /\ UNCHANGED <<manifest, fresh, jobBatch>>
        /\ status[b] = "ready" /\ status'[b] = "publishing"
        /\ \A c \in Batch \ {b} : status'[c] = status[c]
        /\ apc[a] = "idle" /\ apc'[a] = "publishing" /\ abatch'[a] = b
        /\ \A x \in Api \ {a} : apc'[x] = apc[x] /\ abatch'[x] = abatch[x]
        /\ met \subseteq met' /\ (b \notin met' => AtWork(b) = {})
    BY <1>6 DEF ClaimPublish, Idle, Meet, AtWork, jobVars
  <2>2. b \notin met' => AtWork(b)' = {a} /\ manifest[b] # "outdated"
    BY <1>r, <2>1 DEF AtWork, ManifestInv, ManifestSound, Refreshed
  <2>3. b \notin met' => ManifestSound(b)'
    BY <2>1, <2>2 DEF ManifestSound
  <2>4. ASSUME NEW c \in Batch \ met', c # b PROVE ManifestSound(c)'
    <3>1. ManifestSound(c) /\ a \notin AtWork(c)
      BY <2>1 DEF ManifestInv, ManifestSound
    <3> QED
      BY <1>f, <2>1, <2>4, <3>1 DEF AtWork
  <2> QED
    BY <2>3, <2>4 DEF ManifestInv
<1>7. CASE CommitPublish(a)
  <2>1. PICK b \in Batch : b = abatch[a] /\ apc[a] = "publishing"
    BY <1>7 DEF CommitPublish, RowsOK
  <2>2. /\ UNCHANGED <<met, abatch, jobBatch>>
        /\ \A c \in Batch \ {b} : status'[c] = status[c] /\ manifest'[c] = manifest[c]
        /\ status'[b] \in {"published", "none", "deleted"}
        /\ \A x \in fresh : abatch[x] # b => x \in fresh'
        /\ apc'[a] = "refresh" /\ \A x \in Api \ {a} : apc'[x] = apc[x]
    BY <1>7, <2>1 DEF CommitPublish, SetStatus, ChangeRows, jobVars
  <2>3. b \notin met => AtWork(b)' = {a}
    BY <2>1, <2>2 DEF ManifestInv, ManifestSound, AtWork
  <2>4. b \notin met => ManifestSound(b)'
    BY <2>2, <2>3 DEF ManifestSound, Refreshed
  <2>5. ASSUME NEW c \in Batch \ met, c # b PROVE ManifestSound(c)'
    BY <1>f, <2>1, <2>2, <2>5 DEF ManifestInv, AtWork
  <2> QED
    BY <2>2, <2>4, <2>5 DEF ManifestInv
<1>8. CASE ReleasePublish(a) \/ ReadManifest(a) \/ StoreManifest(a)
  <2>1. PICK b \in Batch : b = abatch[a] /\ apc[a] \in {"publishing", "refresh", "store"}
    BY <1>8 DEF ReleasePublish, ReadManifest, StoreManifest, RowsOK
  <2>2. /\ UNCHANGED <<met, jobBatch>>
        /\ \A c \in Batch \ {b} : status'[c] = status[c] /\ manifest'[c] = manifest[c]
        /\ status'[b] = status[b] \/ status'[b] = "ready"
        /\ fresh \ {a} \subseteq fresh'
        /\ \A x \in Api \ {a} : apc'[x] = apc[x] /\ abatch'[x] = abatch[x]
        /\ abatch'[a] \in {b, None}
    BY <1>8, <2>1 DEF ReleasePublish, ReadManifest, StoreManifest, jobVars
  <2>3. b \notin met => /\ AtWork(b) = {a}
                        /\ status[b] \notin {"queued", "processing"}
                        /\ manifest[b] = "outdated" => apc[a] \in {"refresh", "store"}
    BY <1>r, <2>1 DEF ManifestInv, ManifestSound, AtWork, Refreshed
  <2>4. ASSUME b \notin met PROVE ManifestSound(b)'
    <3>1. CASE apc'[a] = "store" /\ abatch'[a] = b /\ a \in fresh'
      <4>1. AtWork(b)' = {a}
        BY <2>2, <2>3, <2>4, <3>1 DEF AtWork
      <4> QED
        BY <2>2, <2>3, <2>4, <3>1, <4>1 DEF ManifestSound, Refreshed
    <3>2. CASE abatch'[a] = None /\ manifest'[b] # "outdated"
      <4>1. AtWork(b)' = {}
        BY <2>2, <2>3, <2>4, <3>2, ConstantsAssumption DEF AtWork
      <4> QED
        BY <3>2, <4>1 DEF ManifestSound
    <3>3. CASE ReleasePublish(a)
      BY <2>1, <2>3, <2>4, <3>2, <3>3 DEF ReleasePublish
    <3>4. CASE ReadManifest(a)
      BY <2>1, <3>1, <3>2, <3>4 DEF ReadManifest, SoundInv, BatchSound
    <3>5. CASE StoreManifest(a)
      <4>1. a \in fresh
        BY <2>1, <2>3, <2>4, <3>5 DEF StoreManifest, ManifestInv, ManifestSound
      <4> QED
        BY <2>1, <3>2, <3>5, <4>1 DEF StoreManifest, Manifest, SoundInv, BatchSound
    <3> QED
      BY <1>8, <3>3, <3>4, <3>5
  <2>5. ASSUME NEW c \in Batch \ met, c # b PROVE ManifestSound(c)'
    BY <1>f, <2>1, <2>2, <2>5, ConstantsAssumption DEF ManifestInv, AtWork
  <2> QED
    BY <2>2, <2>4, <2>5 DEF ManifestInv
<1> QED
  BY <1>1, <1>2, <1>3, <1>4, <1>5, <1>6, <1>7, <1>8 DEF ApiStep

LEMMA WorkerManifest ==
  ASSUME TypeOK, RowsOK, RowInv, LockInv, RunInv, SoundInv, ManifestInv,
         NEW w \in Worker, WorkerStep(w)
  PROVE  ManifestInv'
<1> USE DEF TypeOK, BatchesOK, Exists
<1>1. \A v \in Worker \ {w} : wpc[v] = "down" /\ wpc'[v] = "down"
  BY OthersAreDown
<1>2. UNCHANGED <<met, apiVars, jobBatch>>
  BY DEF WorkerStep, ClaimJob, PollEmptyQueue, Discover, ExtractMember, FinishArchive,
     LoadAssets, ProcessAsset, FinishAssets, ReplaceClusters, Geocode, PersistManifest,
     CompleteJob, FailJob, EndJob, batchVars, jobVars, vars
<1>3. \A b \in Batch : AtWork(b)' = AtWork(b)
  BY <1>2 DEF AtWork, apiVars
\* A batch that stays as it is, whoever is at work on it.
<1>4. ASSUME NEW c \in Batch, ManifestSound(c), manifest'[c] = manifest[c],
             status'[c] \in {"queued", "processing"} => status[c] \in {"queued", "processing"},
             \A x \in fresh : abatch[x] = c => x \in fresh',
             wpc[w] \in {"geocode", "persist"} /\ Owned(w) = c =>
               wpc'[w] \in {"geocode", "persist"} /\ UNCHANGED wjob
      PROVE  ManifestSound(c)'
  <2>1. Refreshed(c) => Refreshed(c)'
    BY <1>1, <1>2, <1>3, <1>4 DEF Refreshed, Owned, apiVars
  <2> QED
    BY <1>2, <1>3, <1>4, <2>1 DEF ManifestSound, AtWork, apiVars
<1>5. CASE ClaimJob(w)
  <2>1. \A i \in Job : jobStatus[i] # "running"
    BY <1>1, <1>5 DEF ClaimJob, InLoop, Working, SoundInv, JobSound
  <2>2. PICK j \in Job : jobStatus[j] = "queued" /\ SetStatus(jobBatch[j], "processing")
    BY <1>5, <2>1 DEF ClaimJob, Queue, Recovered
  <2>3. /\ status[jobBatch[j]] = "queued" /\ wpc[w] = "idle" /\ UNCHANGED <<manifest, fresh>>
        /\ \A c \in Batch : status'[c] = status[c] \/ c = jobBatch[j]
    BY <1>5, <2>2 DEF ClaimJob, SetStatus, SoundInv, JobSound
  <2> QED
    BY <1>2, <1>4, <2>3 DEF ManifestInv
<1>6. CASE ReplaceClusters(w)
  <2>1. PICK o \in Batch : o = Owned(w) /\ status[o] = "processing"
    BY <1>6, OwnedInBatch DEF ReplaceClusters, InLoop, Working, SoundInv, RunSound
  <2>2. /\ wpc[w] = "cluster" /\ wpc'[w] = "geocode" /\ UNCHANGED <<status, wjob>>
        /\ \A c \in Batch \ {o} : manifest'[c] = manifest[c]
        /\ \A x \in fresh : abatch[x] # o => x \in fresh'
    BY <1>6, <2>1 DEF ReplaceClusters, ChangeRows, Goto, WorkersOK
  <2>3. o \notin met => ManifestSound(o)'
    BY <1>2, <1>3, <2>1, <2>2 DEF ManifestInv, ManifestSound, Refreshed, Owned
  <2>4. ASSUME NEW c \in Batch \ met, c # o PROVE ManifestSound(c)'
    BY <1>4, <2>2, <2>4 DEF ManifestInv
  <2> QED
    BY <1>2, <2>3, <2>4 DEF ManifestInv
<1>7. CASE PersistManifest(w)
  <2>1. PICK o \in Batch : o = Owned(w) /\ status[o] = "processing"
    BY <1>7, OwnedInBatch DEF PersistManifest, InLoop, Working, SoundInv, RunSound
  <2>2. /\ UNCHANGED fresh /\ status'[o] = "ready" /\ manifest'[o] = "current"
        /\ \A c \in Batch \ {o} : manifest'[c] = manifest[c] /\ status'[c] = status[c]
    BY <1>7, <2>1 DEF PersistManifest, SetStatus
  <2>3. o \notin met => ManifestSound(o)'
    BY <1>3, <2>1, <2>2 DEF ManifestInv, ManifestSound
  <2>4. ASSUME NEW c \in Batch \ met, c # o PROVE ManifestSound(c)'
    BY <1>4, <2>1, <2>2, <2>4 DEF ManifestInv
  <2> QED
    BY <1>2, <2>3, <2>4 DEF ManifestInv
<1>8. CASE CompleteJob(w)
  <2>1. /\ wpc[w] = "complete" /\ UNCHANGED <<manifest, fresh>>
        /\ \A c \in Batch : status'[c] \in {status[c], "ready"}
    BY <1>8 DEF CompleteJob, EndJob, SetStatus
  <2> QED
    BY <1>2, <1>4, <2>1 DEF ManifestInv
<1>9. CASE \/ PollEmptyQueue(w) \/ Discover(w) \/ ExtractMember(w) \/ FinishArchive(w)
           \/ LoadAssets(w) \/ ProcessAsset(w) \/ FinishAssets(w) \/ Geocode(w)
  <2>1. UNCHANGED <<status, manifest, fresh, wjob>>
    BY <1>9 DEF PollEmptyQueue, Discover, ExtractMember, FinishArchive, LoadAssets, ProcessAsset,
       FinishAssets, Geocode, batchVars, workerVars, vars
  <2>2. wpc[w] \in {"geocode", "persist"} => wpc'[w] \in {"geocode", "persist"}
    BY <1>9 DEF PollEmptyQueue, Discover, ExtractMember, FinishArchive, LoadAssets, ProcessAsset,
       FinishAssets, Geocode, Goto, workerVars, vars, WorkersOK
  <2> QED
    BY <1>2, <1>4, <2>1, <2>2 DEF ManifestInv
<1>10. ~FailJob(w)
  BY DEF FailJob, SoundInv, RunSound
<1> QED
  BY <1>5, <1>6, <1>7, <1>8, <1>9, <1>10 DEF WorkerStep

LEMMA StartManifest ==
  ASSUME TypeOK, ManifestInv, NEW w \in Worker, StartWorker(w)
  PROVE  ManifestInv'
<1>1. /\ UNCHANGED <<status, manifest, fresh, met, jobBatch, wjob, apiVars>> /\ wpc[w] = "down"
      /\ \A v \in Worker \ {w} : wpc'[v] = wpc[v]
  BY DEF StartWorker, Goto, batchVars, jobVars, TypeOK, WorkersOK
<1>2. \A b \in Batch : Refreshed(b) => Refreshed(b)'
  BY <1>1 DEF Refreshed, AtWork, Owned, apiVars
<1> QED
  BY <1>1, <1>2 DEF ManifestInv, ManifestSound, AtWork, apiVars

\* Until something fails, nothing is handed to its reviewer half processed, and its
\* manifest is current or about to be, if no other request came in between.  (A lock that is lost is a failure too, so
\* the invariants of the lock and of the run hold up to then with the others.)
THEOREM SoundWithoutFaults == Spec => []SoundUntilFault
<1> DEFINE Inv == faults = 0 => LockInv /\ RunInv /\ SoundInv /\ ManifestInv
<1>1. Init => Inv
  BY InitLock, InitRun, ConstantsAssumption
  DEF Init, SoundInv, RunSound, BatchSound, Whole, JobSound, HandlerSound, ManifestInv,
      ManifestSound, AtWork, Offered, Exists, Working
<1>2. TypeOK /\ RowsOK /\ RowInv /\ Inv /\ [Next]_vars => Inv'
  <2> SUFFICES ASSUME TypeOK, RowsOK, RowInv, Inv, [Next]_vars, faults' = 0
               PROVE  LockInv' /\ RunInv' /\ SoundInv' /\ ManifestInv'
    OBVIOUS
  <2>1. faults = 0
    <3>1. ASSUME NEW a \in Api, ApiStep(a) PROVE faults' = faults
      BY <3>1 DEF ApiStep, CreateBatch, UploadFile, Enqueue, DeleteBatch, EditReview,
         ClaimPublish, CommitPublish, ReleasePublish, ReadManifest, StoreManifest
    <3>2. ASSUME NEW w \in Worker, StartWorker(w) \/ WorkerStep(w) PROVE faults' = faults
      BY <3>2 DEF StartWorker, WorkerStep, ClaimJob, PollEmptyQueue, Discover, ExtractMember,
         FinishArchive, LoadAssets, ProcessAsset, FinishAssets, ReplaceClusters, Geocode,
         PersistManifest, CompleteJob, FailJob, EndJob, workerVars, vars
    <3> QED
      BY <3>1, <3>2, EnvironmentSound DEF Next, vars
  <2>2. ~LoseLock
    BY <2>1 DEF LoseLock, Inject
  <2>3. LockInv' /\ RunInv'
    BY <2>1, <2>2, LockStep, RunStep
  <2>4. CASE Environment \/ UNCHANGED vars
    <3>1. UNCHANGED <<batchVars, jobBatch, jobStatus, workerVars, apiVars>>
      BY <2>4, EnvironmentSound DEF vars, jobVars
    <3>2. SoundInv'
      BY <2>1, <3>1 DEF SoundInv, RunSound, BatchSound, Whole, JobSound, HandlerSound, Offered,
         Exists, InLoop, Owned, batchVars, workerVars, apiVars
    <3>3. ManifestInv'
      BY <2>1, <3>1 DEF ManifestInv, ManifestSound, Refreshed, AtWork, Owned, batchVars,
         workerVars, apiVars
    <3> QED
      BY <2>3, <3>2, <3>3
  <2>5. ASSUME NEW a \in Api, ApiStep(a) PROVE SoundInv' /\ ManifestInv'
    BY <2>1, <2>5, ApiSound, ApiManifest
  <2>6. ASSUME NEW w \in Worker, StartWorker(w) PROVE SoundInv' /\ ManifestInv'
    BY <2>1, <2>6, StartSound, StartManifest
  <2>7. ASSUME NEW w \in Worker, WorkerStep(w) PROVE SoundInv' /\ ManifestInv'
    BY <2>1, <2>7, WorkerSound, WorkerManifest
  <2> QED
    BY <2>3, <2>4, <2>5, <2>6, <2>7 DEF Next
<1>3. Inv => SoundUntilFault
  <2> SUFFICES ASSUME SoundInv, ManifestInv PROVE ReadyIsComplete /\ ManifestCurrent
    BY DEF SoundUntilFault
  <2>1. ReadyIsComplete
    BY DEF SoundInv, BatchSound, Whole, ReadyIsComplete
  <2>2. ManifestCurrent
    BY DEF SoundInv, RunSound, ManifestInv, ManifestSound, Refreshed, AtWork, ManifestCurrent,
       Working
  <2> QED
    BY <2>1, <2>2
<1> QED
  BY <1>1, <1>2, <1>3, TypeCorrect, RowInvariant, PTL DEF Spec

=============================================================================
