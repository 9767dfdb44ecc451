------------------------- MODULE ImportUploadsProofs -------------------------
(***************************************************************************)
(* Proofs about ImportUploads, for any number of files, uploads and        *)
(* faults.  An asset row has its object until an upload loses its lock     *)
(* connection: before that, the request that deletes the object of its     *)
(* failed upload is the only one that may have put it (Exclusive).  And    *)
(* without crashes and errors an object without a row belongs to a request *)
(* or to the deletion of the batch that has not ended (Accounted).         *)
(***************************************************************************)
EXTENDS ImportUploads, TLAPS

\* Past the claim of a client file, or the draw of a random key.
Uploading(r) == pc[r] \in {"put", "save", "cleanup"}

\* The holder of a file's lock is the upload past its claim; a random key has
\* one upload.
Exclusive ==
  /\ \A r \in Request : Uploading(r) /\ IsClient(r) => lock[file[r]] = r
  /\ \A q, r \in Request :
       pc[q] # "idle" /\ pc[r] # "idle" /\ file[q] = file[r] /\ file[r] \in Plain => q = r

\* A key is drawn before it is used, only client files have a claim, and no
\* upload begins at a file that has its row.
Begun ==
  /\ rows \cap Plain \subseteq drawn
  /\ \A r \in Request :
       /\ pc[r] # "idle" => file[r] \in Key
       /\ pc[r] # "idle" /\ file[r] \in Plain => file[r] \in drawn
       /\ pc[r] = "claim" => IsClient(r)
       /\ Uploading(r) => file[r] \notin rows

\* What is stored, and when the prefix may be deleted.
Stored ==
  /\ rows \subseteq objects
  /\ batch = "deleted" => rows = {}
  /\ dpc = "prefix" => batch = "deleted"
  /\ \A r \in Request : pc[r] = "save" => file[r] \in objects \/ batch = "deleted"

UploadInv == TypeOK /\ Exclusive /\ Begun /\ Stored

-----------------------------------------------------------------------------
\* The invariant holds initially.
LEMMA InitUpload == Init => UploadInv
  BY ConstantsAssumption
  DEF Init, UploadInv, TypeOK, Exclusive, Begun, Stored, Uploading, IsClient, Key

\* What the end of a request does to the others.
LEMMA FinishFrame ==
  ASSUME UploadInv, NEW r \in Request, Finish(r)
  PROVE  /\ lock' \in [Client -> Request \cup {None}]
         /\ pc' \in [Request -> {"idle", "claim", "put", "save", "cleanup"}]
         /\ file' \in [Request -> Key \cup {None}]
         /\ lost' \subseteq Request
         /\ pc'[r] = "idle"
         /\ \A q \in Request \ {r} : pc'[q] = pc[q] /\ file'[q] = file[q]
         /\ Exclusive'
  <1>1. /\ lock' \in [Client -> Request \cup {None}]
        /\ pc' \in [Request -> {"idle", "claim", "put", "save", "cleanup"}]
        /\ file' \in [Request -> Key \cup {None}]
        /\ lost' \subseteq Request
        /\ pc'[r] = "idle"
        /\ \A q \in Request \ {r} : pc'[q] = pc[q] /\ file'[q] = file[q]
    BY DEF Finish, UploadInv, TypeOK
  <1>2. \A f \in Client : lock[f] # r => lock'[f] = lock[f]
    BY DEF Finish, UploadInv, TypeOK
  <1>3. Exclusive'
    BY <1>1, <1>2 DEF UploadInv, Exclusive, Uploading, IsClient
  <1> QED BY <1>1, <1>3

\* What a move of a request inside its upload does.
LEMMA GotoFrame ==
  ASSUME UploadInv, NEW r \in Request, NEW where, Goto(r, where)
  PROVE  /\ pc'[r] = where /\ file' = file /\ lost' = lost
         /\ \A q \in Request \ {r} : pc'[q] = pc[q]
         /\ where \in {"idle", "claim", "put", "save", "cleanup"} =>
              pc' \in [Request -> {"idle", "claim", "put", "save", "cleanup"}]
  BY DEF Goto, UploadInv, TypeOK

\* A move from one place past the claim to another keeps the locks' meaning.
LEMMA GotoExclusive ==
  ASSUME UploadInv, NEW r \in Request, NEW where, Goto(r, where),
         Uploading(r), UNCHANGED lock
  PROVE  Exclusive'
  BY GotoFrame DEF UploadInv, Exclusive, Uploading, IsClient

-----------------------------------------------------------------------------
\* Each step of an upload preserves the invariant.
LEMMA UploadStepInv ==
  ASSUME UploadInv, NEW r \in Request, UploadStep(r), faults'["lockloss"] = 0
  PROVE  UploadInv'
  <1> USE DEF UploadInv
  <1>1. CASE Answered(r)
    <2>1. Exclusive' /\ TypeOK' BY <1>1, FinishFrame DEF Answered, TypeOK
    <2>2. Begun' /\ Stored'
      BY <1>1, FinishFrame DEF Answered, Begun, Stored, Uploading, IsClient
    <2> QED BY <2>1, <2>2
  <1>2. CASE Claim(r)
    <2>1. IsClient(r) /\ lock[file[r]] = None /\ file[r] \notin rows /\ pc[r] = "claim"
      BY <1>2 DEF Claim, Begun
    <2>2. \A q \in Request : Uploading(q) /\ IsClient(q) => file[q] # file[r]
      BY <2>1, ConstantsAssumption DEF Exclusive
    <2>3. pc'[r] = "put" /\ file' = file /\ lost' = lost
      BY <1>2, GotoFrame DEF Claim
    <2>4. \A q \in Request \ {r} : pc'[q] = pc[q]
      BY <1>2, GotoFrame DEF Claim
    <2>5. lock' = [lock EXCEPT ![file[r]] = r]
      BY <1>2 DEF Claim
    <2>6. TypeOK'
      BY <1>2, <2>1, <2>5, GotoFrame DEF Claim, TypeOK, IsClient
    <2>7. Exclusive'
      <3>1. ASSUME NEW q \in Request, Uploading(q)', IsClient(q)'
            PROVE  lock'[file'[q]] = q
        <4>1. CASE q = r BY <4>1, <2>1, <2>3, <2>5 DEF TypeOK, IsClient
        <4>2. CASE q # r
          BY <4>2, <3>1, <2>2, <2>3, <2>4, <2>5 DEF TypeOK, Exclusive, Uploading, IsClient
        <4> QED BY <4>1, <4>2
      <3>2. ASSUME NEW q \in Request, NEW s \in Request, pc'[q] # "idle", pc'[s] # "idle",
                   file'[q] = file'[s], file'[s] \in Plain
            PROVE  q = s
        BY <3>2, <2>1, <2>3, <2>4 DEF Exclusive
      <3> QED BY <3>1, <3>2 DEF Exclusive
    <2>8. Begun' /\ Stored'
      BY <1>2, <2>1, <2>3, <2>4 DEF Claim, Begun, Stored, Uploading, IsClient
    <2> QED BY <2>6, <2>7, <2>8
  <1>3. CASE Put(r)
    <2>1. Uploading(r) /\ file[r] \in Key BY <1>3 DEF Put, Uploading, Begun
    <2>2. Exclusive' BY <1>3, <2>1, GotoExclusive DEF Put
    <2>3. TypeOK' BY <1>3, <2>1, GotoFrame DEF Put, TypeOK
    <2>4. Begun' /\ Stored'
      BY <1>3, <2>1, GotoFrame DEF Put, Begun, Stored, Uploading, IsClient
    <2> QED BY <2>2, <2>3, <2>4
  <1>4. CASE PutFails(r)
    <2>1. Uploading(r) /\ file[r] \in Key BY <1>4 DEF PutFails, Uploading, Begun
    <2>2. rows' = rows /\ batch' = batch /\ drawn' = drawn /\ dpc' = dpc
          /\ objects \subseteq objects' /\ objects' \subseteq Key /\ faults' \in [FaultKind -> 0..MaxFaults]
      BY <1>4, <2>1, ConstantsAssumption DEF PutFails, TypeOK, Fault
    <2>3. CASE IsClient(r)
      <3>1. Goto(r, "cleanup") /\ lock' = lock BY <1>4, <2>3 DEF PutFails, AfterException
      <3>2. Exclusive' BY <2>1, <3>1, GotoExclusive
      <3>3. TypeOK' BY <2>2, <3>1, GotoFrame DEF TypeOK
      <3>4. Begun' /\ Stored'
        BY <2>1, <2>2, <3>1, GotoFrame DEF Begun, Stored, Uploading, IsClient
      <3> QED BY <3>2, <3>3, <3>4
    <2>4. CASE ~IsClient(r)
      <3>1. Finish(r) BY <1>4, <2>4 DEF PutFails, AfterException
      <3>2. TypeOK' /\ Exclusive' BY <2>2, <3>1, FinishFrame DEF TypeOK
      <3>3. Begun' /\ Stored'
        BY <2>2, <3>1, FinishFrame DEF Begun, Stored, Uploading, IsClient
      <3> QED BY <3>2, <3>3
    <2> QED BY <2>3, <2>4
  <1>5. CASE Save(r)
    <2>1. Uploading(r) /\ file[r] \in Key /\ file[r] \in objects /\ batch = "open"
      BY <1>5 DEF Save, Uploading, Begun, Stored
    <2>2. TypeOK' /\ Exclusive' BY <1>5, <2>1, FinishFrame DEF Save, TypeOK
    <2>3. \A q \in Request \ {r} : Uploading(q) => file[q] # file[r]
      <3> SUFFICES ASSUME NEW q \in Request \ {r}, Uploading(q), file[q] = file[r]
                   PROVE  FALSE
        OBVIOUS
      <3>1. pc[q] # "idle" /\ pc[r] # "idle" BY <2>1 DEF Uploading
      <3>2. CASE file[r] \in Plain BY <3>1, <3>2 DEF Exclusive
      <3>3. CASE file[r] \in Client BY <2>1, <3>3 DEF Exclusive, IsClient
      <3> QED BY <2>1, <3>2, <3>3 DEF Key
    <2>4. Begun'
      BY <1>5, <2>1, <2>3, FinishFrame DEF Save, Begun, Uploading, IsClient
    <2>5. Stored'
      BY <1>5, <2>1, FinishFrame DEF Save, Stored
    <2> QED BY <2>2, <2>4, <2>5
  <1>6. CASE SaveRefused(r) \/ SaveDisconnected(r)
    <2>1. Uploading(r) /\ Goto(r, "cleanup")
          /\ UNCHANGED <<batch, rows, objects, lock, drawn, dpc, faults>>
      BY <1>6 DEF SaveRefused, SaveDisconnected, Uploading
    <2>2. Exclusive' BY <2>1, GotoExclusive
    <2>3. TypeOK' BY <2>1, GotoFrame DEF TypeOK
    <2>4. Begun' /\ Stored'
      BY <2>1, GotoFrame DEF Begun, Stored, Uploading, IsClient
    <2> QED BY <2>2, <2>3, <2>4
  <1>7. CASE SaveFails(r)
    <2>1. Uploading(r) BY <1>7 DEF SaveFails, Uploading
    <2>2. UNCHANGED <<batch, rows, objects, drawn, dpc>> /\ faults' \in [FaultKind -> 0..MaxFaults]
      BY <1>7, ConstantsAssumption DEF SaveFails, TypeOK, Fault
    <2>3. CASE IsClient(r)
      <3>1. Goto(r, "cleanup") /\ lock' = lock BY <1>7, <2>3 DEF SaveFails, AfterException
      <3>2. Exclusive' BY <2>1, <3>1, GotoExclusive
      <3>3. TypeOK' BY <2>2, <3>1, GotoFrame DEF TypeOK
      <3>4. Begun' /\ Stored'
        BY <2>1, <2>2, <3>1, GotoFrame DEF Begun, Stored, Uploading, IsClient
      <3> QED BY <3>2, <3>3, <3>4
    <2>4. CASE ~IsClient(r)
      <3>1. Finish(r) BY <1>7, <2>4 DEF SaveFails, AfterException
      <3>2. TypeOK' /\ Exclusive' BY <2>2, <3>1, FinishFrame DEF TypeOK
      <3>3. Begun' /\ Stored'
        BY <2>2, <3>1, FinishFrame DEF Begun, Stored, Uploading, IsClient
      <3> QED BY <3>2, <3>3
    <2> QED BY <2>3, <2>4
  <1>8. CASE Cleanup(r)
    <2>1. Uploading(r) /\ file[r] \in Key /\ file[r] \notin rows
      BY <1>8 DEF Cleanup, Uploading, Begun
    <2>2. UNCHANGED <<batch, rows, drawn, dpc>> /\ faults' \in [FaultKind -> 0..MaxFaults]
          /\ objects \ {file[r]} \subseteq objects' /\ objects' \subseteq objects
      BY <1>8, ConstantsAssumption DEF Cleanup, TypeOK, Fault
    <2>3. TypeOK' /\ Exclusive' BY <1>8, <2>2, FinishFrame DEF Cleanup, TypeOK
    <2>4. \A q \in Request \ {r} : Uploading(q) => file[q] # file[r]
      <3> SUFFICES ASSUME NEW q \in Request \ {r}, Uploading(q), file[q] = file[r]
                   PROVE  FALSE
        OBVIOUS
      <3>1. pc[q] # "idle" /\ pc[r] # "idle" BY <2>1 DEF Uploading
      <3>2. CASE file[r] \in Plain BY <3>1, <3>2 DEF Exclusive
      <3>3. CASE file[r] \in Client BY <2>1, <3>3 DEF Exclusive, IsClient
      <3> QED BY <2>1, <3>2, <3>3 DEF Key
    <2>5. Begun'
      BY <1>8, <2>2, FinishFrame DEF Cleanup, Begun, Uploading, IsClient
    <2>6. Stored'
      BY <1>8, <2>1, <2>2, <2>4, FinishFrame DEF Cleanup, Stored, Uploading
    <2> QED BY <2>3, <2>5, <2>6
  <1>9. CASE Crash(r)
    <2>1. UNCHANGED <<batch, rows, objects, drawn, dpc>> /\ faults' \in [FaultKind -> 0..MaxFaults]
      BY <1>9, ConstantsAssumption DEF Crash, TypeOK, Fault
    <2>2. TypeOK' /\ Exclusive' BY <1>9, <2>1, FinishFrame DEF Crash, TypeOK
    <2>3. Begun' /\ Stored'
      BY <1>9, <2>1, FinishFrame DEF Crash, Begun, Stored, Uploading, IsClient
    <2> QED BY <2>2, <2>3
  <1>10. CASE LoseConnection(r)
    BY <1>10 DEF LoseConnection, Fault, TypeOK, FaultKind
  <1> QED BY <1>1, <1>2, <1>3, <1>4, <1>5, <1>6, <1>7, <1>8, <1>9, <1>10 DEF UploadStep

\* The beginning of an upload: a random key it draws is new.
LEMMA StartInv ==
  ASSUME UploadInv, NEW r \in Request, NEW f \in Key, Start(r, f)
  PROVE  UploadInv'
  <1> USE DEF UploadInv
  <1>1. pc'[r] # "idle" /\ file'[r] = f /\ (f \in Client => pc'[r] = "claim")
        /\ (f \notin Client => pc'[r] = "put")
    BY DEF Start, TypeOK
  <1>2. \A q \in Request \ {r} : pc'[q] = pc[q] /\ file'[q] = file[q]
    BY DEF Start, TypeOK
  <1>3. UNCHANGED <<batch, rows, objects, lock, lost, dpc, faults>>
        /\ pc[r] = "idle" /\ f \notin drawn /\ drawn' = drawn \cup ({f} \cap Plain)
    BY DEF Start
  <1>4. TypeOK' BY DEF Start, TypeOK, Key
  <1>5. Exclusive'
    <2>1. ASSUME NEW q \in Request, Uploading(q)', IsClient(q)'
          PROVE  lock'[file'[q]] = q
      BY <1>1, <1>2, <1>3, <2>1 DEF Exclusive, Uploading, IsClient
    <2>2. ASSUME NEW q \in Request, NEW s \in Request, pc'[q] # "idle", pc'[s] # "idle",
                 file'[q] = file'[s], file'[s] \in Plain
          PROVE  q = s
      BY <1>1, <1>2, <1>3, <2>2 DEF Exclusive, Begun
    <2> QED BY <2>1, <2>2 DEF Exclusive
  <1>6. Begun'
    BY <1>1, <1>2, <1>3, ConstantsAssumption DEF Begun, Uploading, IsClient, Key
  <1>7. Stored'
    BY <1>1, <1>2, <1>3 DEF Stored
  <1> QED BY <1>4, <1>5, <1>6, <1>7

\* The steps of the batch.
LEMMA BatchStepInv ==
  ASSUME UploadInv, Process \/ JobEnds \/ DeleteBatch \/ DeletePrefix
  PROVE  UploadInv'
  <1> USE DEF UploadInv
  <1>1. UNCHANGED <<lock, requestVars, drawn>>
    BY DEF Process, JobEnds, DeleteBatch, DeletePrefix
  <1>2. Exclusive' BY <1>1 DEF Exclusive, Uploading, IsClient, requestVars
  <1>3. CASE Process \/ JobEnds
    BY <1>1, <1>2, <1>3
    DEF Process, JobEnds, TypeOK, Begun, Stored, Uploading, IsClient, requestVars
  <1>4. CASE DeleteBatch
    BY <1>1, <1>2, <1>4
    DEF DeleteBatch, TypeOK, Begun, Stored, Uploading, IsClient, requestVars
  <1>5. CASE DeletePrefix
    BY <1>1, <1>2, <1>5, ConstantsAssumption
    DEF DeletePrefix, Fault, TypeOK, Begun, Stored, Uploading, IsClient, requestVars
  <1> QED BY <1>3, <1>4, <1>5

-----------------------------------------------------------------------------
\* What holds of the types also after a lock is lost.
Typed == TypeOK /\ \A r \in Request : pc[r] # "idle" => file[r] \in Key

\* A request's end, and its moves, keep the types.
LEMMA TypedFrame ==
  ASSUME Typed, NEW r \in Request,
         Finish(r) \/ (UNCHANGED lock /\ \E where \in {"put", "save", "cleanup"} : Goto(r, where)),
         pc[r] # "idle", UNCHANGED <<batch, drawn, dpc>>, rows' \subseteq Key,
         objects' \subseteq Key, faults' \in [FaultKind -> 0..MaxFaults]
  PROVE  Typed'
  BY DEF Typed, TypeOK, Finish, Goto

\* The types, step by step.
LEMMA TypedStep ==
  ASSUME Typed, NEW r \in Request, UploadStep(r)
  PROVE  Typed'
  <1>1. CASE Answered(r) BY <1>1, TypedFrame DEF Answered, Typed, TypeOK
  <1>2. CASE Claim(r) BY <1>2 DEF Claim, Goto, Typed, TypeOK
  <1>3. CASE Put(r) BY <1>3, TypedFrame DEF Put, Typed, TypeOK
  <1>4. CASE PutFails(r)
    <2>1. faults' \in [FaultKind -> 0..MaxFaults]
      BY <1>4, ConstantsAssumption DEF PutFails, Fault, Typed, TypeOK
    <2> QED BY <1>4, <2>1, TypedFrame DEF PutFails, AfterException, Typed, TypeOK
  <1>5. CASE Save(r) BY <1>5, TypedFrame DEF Save, Typed, TypeOK
  <1>6. CASE SaveRefused(r) \/ SaveDisconnected(r)
    BY <1>6, TypedFrame DEF SaveRefused, SaveDisconnected, Typed, TypeOK
  <1>7. CASE SaveFails(r)
    <2>1. faults' \in [FaultKind -> 0..MaxFaults]
      BY <1>7, ConstantsAssumption DEF SaveFails, Fault, Typed, TypeOK
    <2> QED BY <1>7, <2>1, TypedFrame DEF SaveFails, AfterException, Typed, TypeOK
  <1>8. CASE Cleanup(r)
    <2>1. faults' \in [FaultKind -> 0..MaxFaults] /\ objects' \subseteq Key
      BY <1>8, ConstantsAssumption DEF Cleanup, Fault, Typed, TypeOK
    <2> QED BY <1>8, <2>1, TypedFrame DEF Cleanup, Typed, TypeOK
  <1>9. CASE Crash(r)
    <2>1. faults' \in [FaultKind -> 0..MaxFaults]
      BY <1>9, ConstantsAssumption DEF Crash, Fault, Typed, TypeOK
    <2> QED BY <1>9, <2>1, TypedFrame DEF Crash, Typed, TypeOK
  <1>10. CASE LoseConnection(r)
    <2>1. faults' \in [FaultKind -> 0..MaxFaults]
      BY <1>10, ConstantsAssumption DEF LoseConnection, Fault, Typed, TypeOK
    <2> QED BY <1>10, <2>1 DEF LoseConnection, Typed, TypeOK
  <1> QED BY <1>1, <1>2, <1>3, <1>4, <1>5, <1>6, <1>7, <1>8, <1>9, <1>10 DEF UploadStep

\* Faults are counted and never forgotten.
LEMMA FaultsRemembered ==
  ASSUME TypeOK, [Next]_vars
  PROVE  /\ \A kind \in FaultKind : faults'[kind] = 0 => faults[kind] = 0
         /\ \A kind : Fault(kind) /\ kind \in FaultKind => faults'[kind] # 0
  <1>1. \/ faults' = faults
        \/ \E kind \in FaultKind : faults' = [faults EXCEPT ![kind] = @ + 1]
    <2>1. ASSUME NEW kind, Fault(kind)
          PROVE  \E k \in FaultKind : faults' = [faults EXCEPT ![k] = @ + 1]
      BY <2>1, ConstantsAssumption DEF Fault
    <2>2. ASSUME NEW r \in Request, UploadStep(r)
          PROVE  faults' = faults \/ \E kind : Fault(kind)
      BY <2>2
      DEF UploadStep, Answered, Claim, Put, PutFails, Save, SaveRefused, SaveDisconnected,
          SaveFails, Cleanup, Crash, LoseConnection
    <2>3. ASSUME Process \/ JobEnds \/ DeleteBatch \/ DeletePrefix
          PROVE  faults' = faults \/ \E kind : Fault(kind)
      BY <2>3 DEF Process, JobEnds, DeleteBatch, DeletePrefix
    <2> QED BY <2>1, <2>2, <2>3 DEF Next, Start, vars
  <1>2. \A kind \in FaultKind : faults[kind] \in Nat
    BY ConstantsAssumption DEF TypeOK
  <1>3. \A kind \in FaultKind : faults'[kind] = 0 => faults[kind] = 0
    BY <1>1, <1>2 DEF TypeOK
  <1>4. ASSUME NEW kind \in FaultKind, Fault(kind) PROVE faults'[kind] # 0
    BY <1>2, <1>4 DEF Fault, TypeOK
  <1> QED BY <1>3, <1>4

\* A lost connection is not forgotten.
LEMMA LossRemembered ==
  ASSUME TypeOK, [Next]_vars, faults'["lockloss"] = 0
  PROVE  faults["lockloss"] = 0
  BY FaultsRemembered DEF FaultKind

-----------------------------------------------------------------------------
\* Whoever has an object without a row has not ended: the upload that put it, or
\* the deletion of the batch.
Accounted ==
  \A f \in objects :
    \/ f \in rows \/ dpc = "prefix"
    \/ \E r \in Request : pc[r] \in {"save", "cleanup"} /\ file[r] = f

\* An upload that ends, or goes on to its clean-up, accounts for its own object.
LEMMA AccountedFrame ==
  ASSUME Typed, Accounted, NEW r \in Request, dpc' = dpc, rows \subseteq rows',
         Finish(r) \/ Goto(r, "save") \/ Goto(r, "cleanup"),
         \A f \in objects' : f \in objects \/ (f = file[r] /\ Goto(r, "save")),
         Finish(r) /\ pc[r] \in {"save", "cleanup"} => file[r] \in rows' \/ file[r] \notin objects'
  PROVE  Accounted'
  <1> SUFFICES ASSUME NEW f \in objects', f \notin rows', dpc # "prefix"
               PROVE  \E q \in Request : pc'[q] \in {"save", "cleanup"} /\ file'[q] = f
    BY DEF Accounted
  <1>1. \A q \in Request \ {r} : pc'[q] = pc[q] /\ file'[q] = file[q]
    BY DEF Finish, Goto, Typed, TypeOK
  <1>2. Goto(r, "save") \/ Goto(r, "cleanup") => pc'[r] \in {"save", "cleanup"} /\ file'[r] = file[r]
    BY DEF Goto, Typed, TypeOK
  <1>3. CASE f \notin objects BY <1>2, <1>3
  <1>4. CASE f \in objects
    <2>1. PICK q \in Request : pc[q] \in {"save", "cleanup"} /\ file[q] = f
      BY <1>4 DEF Accounted
    <2>2. CASE q # r BY <1>1, <2>1, <2>2
    <2>3. CASE q = r BY <1>2, <2>1, <2>3
    <2> QED BY <2>2, <2>3
  <1> QED BY <1>3, <1>4

LEMMA AccountedStep ==
  ASSUME Typed, Accounted, [Next]_vars, faults'["crash"] = 0, faults'["error"] = 0
  PROVE  Accounted'
  <1>1. ~Fault("crash") /\ ~Fault("error")
    BY FaultsRemembered DEF FaultKind, Typed
  <1>2. ASSUME NEW r \in Request, UploadStep(r) PROVE Accounted'
    <2>1. CASE Answered(r) BY <2>1, AccountedFrame DEF Answered
    <2>2. CASE Claim(r)
      <3>1. \A q \in Request : pc[q] \in {"save", "cleanup"} => pc'[q] = pc[q] /\ file'[q] = file[q]
        BY <2>2 DEF Claim, Goto, Typed, TypeOK
      <3> QED BY <2>2, <3>1 DEF Claim, Accounted
    <2>3. CASE Put(r)
      <3>1. Goto(r, "save") /\ ~Finish(r)
        BY <2>3 DEF Put, Goto, Finish, Typed, TypeOK
      <3> QED BY <2>3, <3>1, AccountedFrame DEF Put
    <2>4. CASE Save(r) BY <2>4, AccountedFrame DEF Save
    <2>5. CASE SaveRefused(r) \/ SaveDisconnected(r)
      <3>1. Goto(r, "cleanup") /\ ~Finish(r)
        BY <2>5 DEF SaveRefused, SaveDisconnected, Goto, Finish, Typed, TypeOK
      <3> QED BY <2>5, <3>1, AccountedFrame DEF SaveRefused, SaveDisconnected
    <2>6. CASE Cleanup(r) BY <1>1, <2>6, AccountedFrame DEF Cleanup
    <2>7. CASE LoseConnection(r) BY <2>7 DEF LoseConnection, Accounted
    <2> QED BY <1>1, <1>2, <2>1, <2>2, <2>3, <2>4, <2>5, <2>6, <2>7
            DEF UploadStep, PutFails, SaveFails, Crash
  <1>3. ASSUME NEW r \in Request, NEW f \in Key, Start(r, f) PROVE Accounted'
    <2>1. \A q \in Request : pc[q] \in {"save", "cleanup"} => pc'[q] = pc[q] /\ file'[q] = file[q]
      BY <1>3 DEF Start, Typed, TypeOK
    <2> QED BY <1>3, <2>1 DEF Start, Accounted
  <1>4. CASE Process \/ JobEnds
    BY <1>4 DEF Process, JobEnds, Accounted, requestVars
  <1>5. CASE DeleteBatch \/ DeletePrefix
    BY <1>1, <1>5 DEF DeleteBatch, DeletePrefix, Accounted
  <1>6. CASE UNCHANGED vars BY <1>6 DEF vars, requestVars, Accounted
  <1> QED BY <1>2, <1>3, <1>4, <1>5, <1>6 DEF Next

-----------------------------------------------------------------------------
LEMMA TypedNext == Typed /\ [Next]_vars => Typed'
  <1> SUFFICES ASSUME Typed, [Next]_vars PROVE Typed' OBVIOUS
  <1>1. CASE \E r \in Request : UploadStep(r) BY <1>1, TypedStep
  <1>2. CASE \E r \in Request, f \in Key : Start(r, f)
    BY <1>2 DEF Start, Typed, TypeOK, Key
  <1>3. CASE Process \/ JobEnds \/ DeleteBatch \/ DeletePrefix
    <2>1. faults' \in [FaultKind -> 0..MaxFaults]
      BY <1>3, ConstantsAssumption
      DEF Process, JobEnds, DeleteBatch, DeletePrefix, Fault, Typed, TypeOK
    <2> QED BY <1>3, <2>1
            DEF Process, JobEnds, DeleteBatch, DeletePrefix, Typed, TypeOK, requestVars
  <1>4. CASE UNCHANGED vars BY <1>4 DEF vars, requestVars, Typed, TypeOK
  <1> QED BY <1>1, <1>2, <1>3, <1>4 DEF Next

\* No failed, repeated or concurrent upload and no deletion of the batch leaves
\* an asset row without its object, until an upload lock is lost.
THEOREM RowsHaveObjects == Spec => [](TypeOK /\ RowHasObject)
  <1> DEFINE Inv == Typed /\ (faults["lockloss"] = 0 => UploadInv)
  <1>1. Init => Inv
    BY InitUpload DEF Init, UploadInv, Typed
  <1>2. Inv /\ [Next]_vars => Inv'
    <2> SUFFICES ASSUME Inv, [Next]_vars, faults'["lockloss"] = 0 PROVE UploadInv'
      BY TypedNext
    <2>0. UploadInv BY LossRemembered DEF Typed
    <2>1. CASE \E r \in Request : UploadStep(r) BY <2>0, <2>1, UploadStepInv
    <2>2. CASE \E r \in Request, f \in Key : Start(r, f) BY <2>0, <2>2, StartInv
    <2>3. CASE Process \/ JobEnds \/ DeleteBatch \/ DeletePrefix BY <2>0, <2>3, BatchStepInv
    <2>4. CASE UNCHANGED vars
      BY <2>0, <2>4
      DEF vars, requestVars, UploadInv, TypeOK, Exclusive, Begun, Stored, Uploading, IsClient
    <2> QED BY <2>1, <2>2, <2>3, <2>4 DEF Next
  <1>3. Inv => TypeOK /\ RowHasObject
    BY DEF Typed, UploadInv, Stored, RowHasObject
  <1> QED BY <1>1, <1>2, <1>3, PTL DEF Spec

\* While no call fails and nothing crashes, nothing stays in the store that no
\* row names, though locks may be lost and the batch closed or deleted meanwhile.
THEOREM NothingIsOrphaned == Spec => []NoOrphanObject
  <1> DEFINE Inv == Typed /\ (faults["crash"] = 0 /\ faults["error"] = 0 => Accounted)
  <1>1. Init => Inv
    BY ConstantsAssumption DEF Init, Typed, TypeOK, Accounted
  <1>2. Inv /\ [Next]_vars => Inv'
    <2> SUFFICES ASSUME Inv, [Next]_vars, faults'["crash"] = 0, faults'["error"] = 0
                 PROVE  Accounted'
      BY TypedNext
    <2>1. faults["crash"] = 0 /\ faults["error"] = 0
      BY FaultsRemembered DEF Typed, FaultKind
    <2> QED BY <2>1, AccountedStep
  <1>3. Inv => NoOrphanObject
    BY DEF Accounted, NoOrphanObject
  <1> QED BY <1>1, <1>2, <1>3, PTL DEF Spec
=============================================================================
