---------------------------- MODULE ImportUploads ----------------------------
(***************************************************************************)
(* Uploading files into a batch: POST /imports/{id}/files puts an object   *)
(* into the store and then a row into travel_import_assets, and has to     *)
(* keep the two in step while other API processes upload the same file,    *)
(* start the processing or delete the batch (routers/imports.py, the       *)
(* upload lock of services/import_repository.py).                          *)
(*                                                                         *)
(* A file sent with a clientFileId has a fixed source_ref and object key,  *)
(* and may be sent again; a file without one gets a random key.  A request *)
(* is the upload of one file: the files of a form are uploaded one after   *)
(* the other, each as if its own request had passed the first check.       *)
(***************************************************************************)
EXTENDS Naturals

CONSTANTS
  Client,      (* files with a clientFileId: their source_ref and key      *)
  Plain,       (* random keys, each drawn once                             *)
  Request,     (* uploads in progress at once, of different API processes  *)
  None,        (* no request, no file                                      *)
  Faults,      (* kinds of fault the environment may inject                *)
  MaxFaults    (* bound: faults of each kind in a behaviour                *)

FaultKind == {"crash", "error", "lockloss"}

ASSUME ConstantsAssumption ==
  /\ Client \cap Plain = {}
  /\ None \notin Client \cup Plain \cup Request
  /\ Faults \subseteq FaultKind /\ MaxFaults \in Nat

VARIABLES
  batch,     (* the batch: open to files, in the worker's hands, ready, gone *)
  rows,      (* files with an asset row                                    *)
  objects,   (* keys with an object in the store                           *)
  lock,      (* holder of the advisory lock of each client file            *)
  pc,        (* where each upload is                                       *)
  file,      (* the file it uploads                                        *)
  drawn,     (* random keys drawn                                          *)
  lost,      (* uploads whose lock connection is gone                      *)
  dpc,       (* where DELETE /imports/{id} is                              *)
  faults     (* faults of each kind injected so far                        *)

requestVars == <<pc, file, lost>>
vars == <<batch, rows, objects, lock, requestVars, drawn, dpc, faults>>

Key == Client \cup Plain

TypeOK ==
  /\ batch \in {"open", "closed", "ready", "deleted"}
  /\ rows \subseteq Key
  /\ objects \subseteq Key
  /\ lock \in [Client -> Request \cup {None}]
  /\ pc \in [Request -> {"idle", "claim", "put", "save", "cleanup"}]
  /\ file \in [Request -> Key \cup {None}]
  /\ drawn \subseteq Plain
  /\ lost \subseteq Request
  /\ dpc \in {"idle", "prefix", "done"}
  /\ faults \in [FaultKind -> 0..MaxFaults]

Init ==
  /\ batch = "open"
  /\ rows = {}
  /\ objects = {}
  /\ lock = [f \in Client |-> None]
  /\ pc = [r \in Request |-> "idle"]
  /\ file = [r \in Request |-> None]
  /\ drawn = {}
  /\ lost = {}
  /\ dpc = "idle"
  /\ faults = [kind \in FaultKind |-> 0]

Fault(kind) ==
  /\ kind \in Faults /\ faults[kind] < MaxFaults
  /\ faults' = [faults EXCEPT ![kind] = @ + 1]

IsClient(r) == file[r] \in Client

Goto(r, where) == pc' = [pc EXCEPT ![r] = where] /\ UNCHANGED <<file, lost>>

\* The upload ends: RELEASE_LOCK, or the close of the connection, frees a lock
\* that this connection still holds.
Finish(r) ==
  /\ lock' = [f \in Client |-> IF lock[f] = r THEN None ELSE lock[f]]
  /\ pc' = [pc EXCEPT ![r] = "idle"]
  /\ file' = [file EXCEPT ![r] = None]
  /\ lost' = lost \ {r}

\* After an exception a client file's object is deleted; a plain file's only
\* when the batch refused the row.
AfterException(r) ==
  IF IsClient(r) THEN Goto(r, "cleanup") /\ UNCHANGED lock ELSE Finish(r)

-----------------------------------------------------------------------------
(* The request.                                                            *)

\* upload_import_files up to the end of its awaits: the batch takes files.
Start(r, f) ==
  /\ pc[r] = "idle" /\ batch = "open" /\ f \notin drawn
  /\ file' = [file EXCEPT ![r] = f]
  /\ pc' = [pc EXCEPT ![r] = IF f \in Client THEN "claim" ELSE "put"]
  /\ drawn' = drawn \cup ({f} \cap Plain)
  /\ UNCHANGED <<batch, rows, objects, lock, lost, dpc, faults>>

\* lock_uploaded_asset finds the lock taken (409), or the row there, which is
\* the answer.
Answered(r) ==
  /\ pc[r] = "claim" /\ (lock[file[r]] # None \/ file[r] \in rows)
  /\ Finish(r)
  /\ UNCHANGED <<batch, rows, objects, drawn, dpc, faults>>

\* Mutant: the row is not looked for.
ClaimAgain(r) ==
  /\ pc[r] = "claim" /\ lock[file[r]] = None
  /\ lock' = [lock EXCEPT ![file[r]] = r]
  /\ Goto(r, "put")
  /\ UNCHANGED <<batch, rows, objects, drawn, dpc, faults>>

\* lock_uploaded_asset gets the lock and finds no row.
Claim(r) ==
  /\ pc[r] = "claim" /\ lock[file[r]] = None /\ file[r] \notin rows
  /\ lock' = [lock EXCEPT ![file[r]] = r]
  /\ Goto(r, "put")
  /\ UNCHANGED <<batch, rows, objects, drawn, dpc, faults>>

\* upload_fileobj_to_key
Put(r) ==
  /\ pc[r] = "put"
  /\ objects' = objects \cup {file[r]}
  /\ Goto(r, "save")
  /\ UNCHANGED <<batch, rows, lock, drawn, dpc, faults>>

\* It fails, before or after the object is there (saving LocalStack's state
\* comes after the upload).
PutFails(r) ==
  /\ pc[r] = "put" /\ Fault("error")
  /\ objects' \in {objects, objects \cup {file[r]}}
  /\ AfterException(r)
  /\ UNCHANGED <<batch, rows, drawn, dpc>>

\* _add_uploaded_asset under the lock on the batch row, and the commit.  The
\* claim saves on the connection that holds the upload lock.
Save(r) ==
  /\ pc[r] = "save" /\ batch = "open" /\ r \notin lost
  /\ rows' = rows \cup {file[r]}
  /\ Finish(r)
  /\ UNCHANGED <<batch, objects, drawn, dpc, faults>>

\* Mutant: the refusal leaves the object.
SaveRefusedOnly(r) ==
  /\ pc[r] = "save" /\ batch # "open"
  /\ Finish(r)
  /\ UNCHANGED <<batch, rows, objects, drawn, dpc, faults>>

\* The batch has moved on or is gone: ValueError or KeyError.
SaveRefused(r) ==
  /\ pc[r] = "save" /\ batch # "open"
  /\ Goto(r, "cleanup")
  /\ UNCHANGED <<batch, rows, objects, lock, drawn, dpc, faults>>

\* The statement fails because its connection is gone, ...
SaveDisconnected(r) ==
  /\ pc[r] = "save" /\ r \in lost
  /\ Goto(r, "cleanup")
  /\ UNCHANGED <<batch, rows, objects, lock, drawn, dpc, faults>>

\* ... or for another reason, and is rolled back.
SaveFails(r) ==
  /\ pc[r] = "save" /\ Fault("error")
  /\ AfterException(r)
  /\ UNCHANGED <<batch, rows, objects, drawn, dpc>>

\* delete_object, whose own failure is swallowed.
Cleanup(r) ==
  /\ pc[r] = "cleanup"
  /\ \/ objects' = objects \ {file[r]} /\ UNCHANGED faults
     \/ Fault("error") /\ UNCHANGED objects
  /\ Finish(r)
  /\ UNCHANGED <<batch, rows, drawn, dpc>>

-----------------------------------------------------------------------------
(* The batch under it.                                                     *)

\* enqueue_process_job needs an asset; the job ends ready or failed.
Process ==
  /\ batch = "open" /\ rows # {}
  /\ batch' = "closed"
  /\ UNCHANGED <<rows, objects, lock, requestVars, drawn, dpc, faults>>

JobEnds ==
  /\ batch = "closed"
  /\ batch' \in {"open", "ready"}
  /\ UNCHANGED <<rows, objects, lock, requestVars, drawn, dpc, faults>>

\* delete_batch commits, the rows go with the batch ...
DeleteBatch ==
  /\ batch \in {"open", "ready"}
  /\ batch' = "deleted"
  /\ rows' = {}
  /\ dpc' = "prefix"
  /\ UNCHANGED <<objects, lock, requestVars, drawn, faults>>

\* ... and then remove_import_batch deletes what is stored under its prefix.
DeletePrefix ==
  /\ dpc = "prefix"
  /\ \/ objects' = {} /\ UNCHANGED faults
     \/ (Fault("error") \/ Fault("crash")) /\ UNCHANGED objects
  /\ dpc' = "done"
  /\ UNCHANGED <<batch, rows, lock, requestVars, drawn>>

-----------------------------------------------------------------------------
(* Faults.                                                                 *)

\* The API process dies; the server closes its connection.
Crash(r) ==
  /\ pc[r] # "idle" /\ Fault("crash")
  /\ Finish(r)
  /\ UNCHANGED <<batch, rows, objects, drawn, dpc>>

\* The lock connection, idle for the length of the upload, is dropped.
LoseConnection(r) ==
  /\ \E f \in Client : lock[f] = r /\ Fault("lockloss")
  /\ lock' = [f \in Client |-> IF lock[f] = r THEN None ELSE lock[f]]
  /\ lost' = lost \cup {r}
  /\ UNCHANGED <<batch, rows, objects, pc, file, drawn, dpc>>

-----------------------------------------------------------------------------
UploadStep(r) ==
  \/ Answered(r) \/ Claim(r)
  \/ Put(r) \/ PutFails(r)
  \/ Save(r) \/ SaveRefused(r) \/ SaveDisconnected(r) \/ SaveFails(r)
  \/ Cleanup(r)
  \/ Crash(r) \/ LoseConnection(r)

Next ==
  \/ \E r \in Request : UploadStep(r) \/ \E f \in Key : Start(r, f)
  \/ Process \/ JobEnds
  \/ DeleteBatch \/ DeletePrefix

Spec == Init /\ [][Next]_vars

-----------------------------------------------------------------------------
(* Properties.                                                             *)

\* As long as no upload lost its lock connection, every asset row has its object,
\* although a failed upload deletes the object at a key that other uploads of the
\* file use, too: the worker would fail on a row without an object
\* (_process_asset downloads staging_key).
RowHasObject == faults["lockloss"] = 0 => rows \subseteq objects

\* Without crashes and errors nothing is stored that no row names, once no request
\* is in progress: neither when the batch closes between the put and the row, nor
\* when it is deleted, before or after the prefix is.
NoOrphanObject ==
  /\ faults["crash"] = 0 /\ faults["error"] = 0
  /\ \A r \in Request : pc[r] = "idle"
  /\ dpc # "prefix"
  => objects \subseteq rows
=============================================================================
