---------------------------- MODULE MediaProofs -----------------------------
(***************************************************************************)
(* Proofs about Media: what a place or a review refers to is stored, and   *)
(* what a client was told of stays usable, for every number of accounts,   *)
(* places, media and faults.                                               *)
(*                                                                         *)
(* The argument follows an object from its put to its deletion.  Between   *)
(* the two it is accounted for: the object is there, or a deletion that is *)
(* under way (gone), or one that failed (broken), or the next startup      *)
(* (Doomed) will take the row.  A cleanup only has media in hand that      *)
(* nothing refers to, because nothing is attached while it runs, and       *)
(* startup only media that are old, because the oldest rows come first.    *)
(***************************************************************************)
EXTENDS Media, TLAPS

\* Ids are used in the order they are drawn.
IdsInOrder ==
  \A m \in Media : m > drawn => m \notin objects /\ m \notin known /\ row[m] = "none"

\* What the process has in hand at each point.
UploadInHand ==
  pc \in {"inserting", "undoing"} =>
    /\ drawn \in Media /\ current = {drawn} /\ drawn \notin known
    /\ pc = "inserting" => drawn \in objects /\ row[drawn] = "none"

ExpiryInHand ==
  pc = "expiring" => current \cup gone \subseteq FirstOf(Stale)

CleanupInHand ==
  pc \in {"cleaning", "deleting"} => \A m \in current \cup gone : row[m] = "attached"

NothingInUse ==
  pc = "deleting" => \A m \in current \cup gone : m \notin Used

NothingGone == ~Deleting => gone = {}

\* A client names what it was told.
UsedIsKnown == Used \subseteq known

\* Rows without an object that startup will delete.
Doomed == IF pc = "down" THEN FirstOf(Stale)
          ELSE IF pc = "expiring" THEN current ELSE {}

\* A row that a client was told of has its object, or something to blame.
Accounted ==
  \A m \in known : row[m] # "none" =>
    m \in objects \/ m \in broken \/ m \in gone \/ m \in Doomed

\* NothingLeaks at every point of an upload or a cleanup.
Tidy ==
  faults = 0 =>
    /\ pc # "undoing"
    /\ \A m \in Media :
         /\ m \in objects <=> (row[m] # "none" /\ m \notin gone)
                              \/ (pc = "inserting" /\ m \in current)
         /\ row[m] = "attached" <=>
              m \in Used \/ (pc \in {"cleaning", "deleting"} /\ m \in current \cup gone)

IInv ==
  /\ TypeOK /\ IdsInOrder
  /\ UploadInHand /\ ExpiryInHand /\ CleanupInHand /\ NothingInUse /\ NothingGone
  /\ UsedIsKnown /\ ReferencedIsStored /\ Accounted /\ Tidy

-----------------------------------------------------------------------------
(* The oldest rows stay the oldest when younger ones become old.           *)

LEMMA UsedMeans == \A m : m \in Used <=> Referenced(m)
<1> TAKE m
<1>1. m \in UNION {photos[p] : p \in Place} <=> \E p \in Place : m \in photos[p]
  OBVIOUS
<1>2. m \in Used <=> m \in UNION {photos[p] : p \in Place} \/ m \in told
  BY DEF Used
<1>3. Referenced(m) <=> (\E p \in Place : m \in photos[p]) \/ m \in told
  BY DEF Referenced
<1> QED
  BY <1>1, <1>2, <1>3

LEMMA OldestStay ==
  ASSUME NEW S, NEW T, S \subseteq T, T \subseteq Nat, \A t \in T \ S : \A m \in S : t > m
  PROVE  FirstOf(S) \subseteq FirstOf(T)
<1> SUFFICES ASSUME NEW m \in FirstOf(S) PROVE m \in FirstOf(T)
  OBVIOUS
<1>1. m \in S /\ Cardinality({n \in S : n < m}) < Limit
  BY DEF FirstOf
<1>2. \A n \in T : n < m => n \in S
  <2> SUFFICES ASSUME NEW n \in T, n < m, n \notin S PROVE FALSE
    OBVIOUS
  <2>1. n > m /\ n \in Nat /\ m \in Nat
    BY <1>1
  <2> QED
    BY <2>1
<1>3. {n \in S : n < m} = {n \in T : n < m}
  BY <1>2
<1> QED
  BY <1>1, <1>3 DEF FirstOf

LEMMA InitInv == Init => IInv
<1> SUFFICES ASSUME Init PROVE IInv
  OBVIOUS
<1> USE MediaAssumption DEF Init
<1>1. Used = {}
  BY DEF Used
<1>2. TypeOK
  BY DEF TypeOK, Media
<1>3. IdsInOrder
  BY DEF IdsInOrder
<1>4. UploadInHand /\ ExpiryInHand /\ CleanupInHand /\ NothingInUse /\ NothingGone
  BY DEF UploadInHand, ExpiryInHand, CleanupInHand, NothingInUse, NothingGone
<1>5. UsedIsKnown /\ ReferencedIsStored /\ Accounted /\ Tidy
  BY <1>1 DEF UsedIsKnown, ReferencedIsStored, Accounted, Tidy
<1> QED
  BY <1>2, <1>3, <1>4, <1>5 DEF IInv

LEMMA PutKeeps == IInv /\ Put => IInv'
<1> SUFFICES ASSUME IInv, Put PROVE IInv'
  OBVIOUS
<1> USE MediaAssumption DEF IInv, Put, Goto, Fault, With, uploadVars, placeVars, processVars
<1>0. Used' = Used
  BY DEF Used
<1>1. TypeOK'
  <2>1. drawn' \in 1..MaxMedia /\ aged \in 0..drawn'
    BY DEF TypeOK
  <2>2. objects' \subseteq Media /\ current' \subseteq Media /\ gone' \subseteq Media
    BY <2>1 DEF TypeOK, Media
  <2>3. faults' \in 0..MaxFaults /\ drawn' \in 0..MaxMedia
    BY <2>1 DEF TypeOK
  <2> QED
    BY <2>1, <2>2, <2>3 DEF TypeOK
<1>2. IdsInOrder'
  BY <1>0 DEF IdsInOrder, TypeOK, Media
<1>3. UploadInHand'
  BY <1>0 DEF UploadInHand, IdsInOrder, TypeOK, Media
<1>4. ExpiryInHand'
  BY <1>0 DEF ExpiryInHand
<1>5. CleanupInHand'
  BY <1>0 DEF CleanupInHand
<1>6. NothingInUse'
  BY <1>0 DEF NothingInUse
<1>7. NothingGone'
  BY <1>0 DEF NothingGone, Deleting
<1>8. UsedIsKnown'
  BY <1>0 DEF UsedIsKnown
<1>9. ReferencedIsStored'
  BY <1>0 DEF ReferencedIsStored, UsedIsKnown, TypeOK
<1>10. Accounted'
  BY <1>0 DEF Accounted, Doomed, NothingGone, Deleting, TypeOK
<1>11. Tidy'
  BY <1>0 DEF Tidy, IdsInOrder, NothingGone, Deleting, TypeOK, Media
<1> QED
  BY <1>1, <1>2, <1>3, <1>4, <1>5, <1>6, <1>7, <1>8, <1>9, <1>10, <1>11

LEMMA PutFailsKeeps == IInv /\ PutFails => IInv'
<1> SUFFICES ASSUME IInv, PutFails PROVE IInv'
  OBVIOUS
<1> USE MediaAssumption DEF IInv, PutFails, Goto, Fault, With, uploadVars, placeVars, processVars
<1>0. Used' = Used
  BY DEF Used
<1>1. TypeOK'
  <2>1. drawn' \in 1..MaxMedia /\ aged \in 0..drawn'
    BY DEF TypeOK
  <2>2. objects' \subseteq Media /\ current' \subseteq Media /\ gone' \subseteq Media
    BY <2>1 DEF TypeOK, Media
  <2>3. faults' \in 0..MaxFaults /\ drawn' \in 0..MaxMedia
    BY <2>1 DEF TypeOK
  <2> QED
    BY <2>1, <2>2, <2>3 DEF TypeOK
<1>2. IdsInOrder'
  BY <1>0 DEF IdsInOrder, TypeOK, Media
<1>3. UploadInHand'
  BY <1>0 DEF UploadInHand, TypeOK, Media
<1>4. ExpiryInHand'
  BY <1>0 DEF ExpiryInHand
<1>5. CleanupInHand'
  BY <1>0 DEF CleanupInHand
<1>6. NothingInUse'
  BY <1>0 DEF NothingInUse
<1>7. NothingGone'
  BY <1>0 DEF NothingGone, Deleting
<1>8. UsedIsKnown'
  BY <1>0 DEF UsedIsKnown
<1>9. ReferencedIsStored'
  BY <1>0 DEF ReferencedIsStored, UsedIsKnown, TypeOK
<1>10. Accounted'
  BY <1>0 DEF Accounted, Doomed, NothingGone, Deleting, TypeOK
<1>11. Tidy'
  BY <1>0 DEF Tidy, NothingGone, Deleting, TypeOK
<1> QED
  BY <1>1, <1>2, <1>3, <1>4, <1>5, <1>6, <1>7, <1>8, <1>9, <1>10, <1>11

LEMMA InsertKeeps == IInv /\ Insert => IInv'
<1> SUFFICES ASSUME IInv, Insert PROVE IInv'
  OBVIOUS
<1> USE MediaAssumption DEF IInv, Insert, Goto, Fault, With, uploadVars, placeVars, processVars
<1>0. Used' = Used
  BY DEF Used
<1>1. TypeOK'
  BY <1>0 DEF TypeOK
<1>2. IdsInOrder'
  BY <1>0 DEF IdsInOrder, UploadInHand, TypeOK, Media
<1>3. UploadInHand'
  BY <1>0 DEF UploadInHand, TypeOK, Media
<1>4. ExpiryInHand'
  BY <1>0 DEF ExpiryInHand
<1>5. CleanupInHand'
  BY <1>0 DEF CleanupInHand
<1>6. NothingInUse'
  BY <1>0 DEF NothingInUse
<1>7. NothingGone'
  BY <1>0 DEF NothingGone, Deleting
<1>8. UsedIsKnown'
  BY <1>0 DEF UsedIsKnown
<1>9. ReferencedIsStored'
  BY <1>0 DEF ReferencedIsStored, UsedIsKnown, UploadInHand, TypeOK
<1>10. Accounted'
  BY <1>0 DEF Accounted, Doomed, NothingGone, Deleting, UploadInHand, TypeOK
<1>11. Tidy'
  BY <1>0 DEF Tidy, UploadInHand, UsedIsKnown, NothingGone, Deleting, TypeOK
<1> QED
  BY <1>1, <1>2, <1>3, <1>4, <1>5, <1>6, <1>7, <1>8, <1>9, <1>10, <1>11

LEMMA InsertFailsKeeps == IInv /\ InsertFails => IInv'
<1> SUFFICES ASSUME IInv, InsertFails PROVE IInv'
  OBVIOUS
<1> USE MediaAssumption DEF IInv, InsertFails, Goto, Fault, With, uploadVars, placeVars, processVars
<1>0. Used' = Used
  BY DEF Used
<1>1. TypeOK'
  BY <1>0 DEF TypeOK
<1>2. IdsInOrder'
  BY <1>0 DEF IdsInOrder, UploadInHand, TypeOK, Media
<1>3. UploadInHand'
  BY <1>0 DEF UploadInHand, TypeOK, Media
<1>4. ExpiryInHand'
  BY <1>0 DEF ExpiryInHand
<1>5. CleanupInHand'
  BY <1>0 DEF CleanupInHand
<1>6. NothingInUse'
  BY <1>0 DEF NothingInUse
<1>7. NothingGone'
  BY <1>0 DEF NothingGone, Deleting
<1>8. UsedIsKnown'
  BY <1>0 DEF UsedIsKnown
<1>9. ReferencedIsStored'
  BY <1>0 DEF ReferencedIsStored, UsedIsKnown, UploadInHand, TypeOK
<1>10. Accounted'
  BY <1>0 DEF Accounted, Doomed, NothingGone, Deleting, UploadInHand, TypeOK
<1>11. Tidy'
  BY <1>0 DEF Tidy, NothingGone, Deleting, TypeOK
<1> QED
  BY <1>1, <1>2, <1>3, <1>4, <1>5, <1>6, <1>7, <1>8, <1>9, <1>10, <1>11

LEMMA UndoKeeps == IInv /\ Undo => IInv'
<1> SUFFICES ASSUME IInv, Undo PROVE IInv'
  OBVIOUS
<1> USE MediaAssumption DEF IInv, Undo, Goto, Fault, With, uploadVars, placeVars, processVars
<1>0. Used' = Used
  BY DEF Used
<1>1. TypeOK'
  BY <1>0 DEF TypeOK
<1>2. IdsInOrder'
  BY <1>0 DEF IdsInOrder, TypeOK, Media
<1>3. UploadInHand'
  BY <1>0 DEF UploadInHand, TypeOK, Media
<1>4. ExpiryInHand'
  BY <1>0 DEF ExpiryInHand
<1>5. CleanupInHand'
  BY <1>0 DEF CleanupInHand
<1>6. NothingInUse'
  BY <1>0 DEF NothingInUse
<1>7. NothingGone'
  BY <1>0 DEF NothingGone, Deleting
<1>8. UsedIsKnown'
  BY <1>0 DEF UsedIsKnown
<1>9. ReferencedIsStored'
  BY <1>0 DEF ReferencedIsStored, UsedIsKnown, UploadInHand, TypeOK
<1>10. Accounted'
  BY <1>0 DEF Accounted, Doomed, NothingGone, Deleting, UploadInHand, TypeOK
<1>11. Tidy'
  BY <1>0 DEF Tidy, NothingGone, Deleting, TypeOK
<1> QED
  BY <1>1, <1>2, <1>3, <1>4, <1>5, <1>6, <1>7, <1>8, <1>9, <1>10, <1>11

LEMMA LookKeeps == IInv /\ Look => IInv'
<1> SUFFICES ASSUME IInv, Look PROVE IInv'
  OBVIOUS
<1> USE MediaAssumption DEF IInv, Look, Goto, Fault, With, uploadVars, placeVars, processVars
<1>0. Used' = Used
  BY DEF Used
<1>1. TypeOK'
  BY <1>0 DEF TypeOK
<1>2. IdsInOrder'
  BY <1>0 DEF IdsInOrder, TypeOK, Media
<1>3. UploadInHand'
  BY <1>0 DEF UploadInHand, TypeOK, Media
<1>4. ExpiryInHand'
  BY <1>0 DEF ExpiryInHand
<1>5. CleanupInHand'
  BY <1>0 DEF CleanupInHand
<1>6. NothingInUse'
  BY <1>0, UsedMeans DEF NothingInUse
<1>7. NothingGone'
  BY <1>0 DEF NothingGone, Deleting
<1>8. UsedIsKnown'
  BY <1>0 DEF UsedIsKnown
<1>9. ReferencedIsStored'
  BY <1>0 DEF ReferencedIsStored, UsedIsKnown, TypeOK
<1>10. Accounted'
  BY <1>0 DEF Accounted, Doomed, NothingGone, Deleting, TypeOK
<1>11. Tidy'
  BY <1>0, UsedMeans DEF Tidy, NothingGone, Deleting, TypeOK, Rows
<1> QED
  BY <1>1, <1>2, <1>3, <1>4, <1>5, <1>6, <1>7, <1>8, <1>9, <1>10, <1>11

LEMMA StartKeeps == IInv /\ Start => IInv'
<1> SUFFICES ASSUME IInv, Start PROVE IInv'
  OBVIOUS
<1> USE MediaAssumption DEF IInv, Start, Goto, Fault, With, uploadVars, placeVars, processVars
<1>0. Used' = Used
  BY DEF Used
<1>1. TypeOK'
  <2>1. current' \subseteq Media
    BY DEF FirstOf, Stale
  <2> QED
    BY <2>1 DEF TypeOK
<1>2. IdsInOrder'
  BY <1>0 DEF IdsInOrder, TypeOK, Media
<1>3. UploadInHand'
  BY <1>0 DEF UploadInHand, TypeOK, Media
<1>4. ExpiryInHand'
  BY DEF ExpiryInHand, FirstOf, Stale
<1>5. CleanupInHand'
  BY <1>0 DEF CleanupInHand
<1>6. NothingInUse'
  BY <1>0 DEF NothingInUse
<1>7. NothingGone'
  BY <1>0 DEF NothingGone, Deleting
<1>8. UsedIsKnown'
  BY <1>0 DEF UsedIsKnown
<1>9. ReferencedIsStored'
  BY <1>0 DEF ReferencedIsStored, UsedIsKnown, TypeOK
<1>10. Accounted'
  BY <1>0 DEF Accounted, Doomed, NothingGone, Deleting, TypeOK
<1>11. Tidy'
  BY <1>0 DEF Tidy, NothingGone, Deleting, TypeOK
<1> QED
  BY <1>1, <1>2, <1>3, <1>4, <1>5, <1>6, <1>7, <1>8, <1>9, <1>10, <1>11

LEMMA CommitKeeps == IInv /\ Commit => IInv'
<1> SUFFICES ASSUME IInv, Commit PROVE IInv'
  OBVIOUS
<1> USE MediaAssumption DEF IInv, Commit, Goto, Fault, With, uploadVars, placeVars, processVars
<1>0. Used' = Used
  BY DEF Used
<1>1. TypeOK'
  BY <1>0 DEF TypeOK
<1>2. IdsInOrder'
  BY <1>0 DEF IdsInOrder, TypeOK, Media
<1>3. UploadInHand'
  BY <1>0 DEF UploadInHand, TypeOK, Media
<1>4. ExpiryInHand'
  BY <1>0 DEF ExpiryInHand
<1>5. CleanupInHand'
  BY <1>0 DEF CleanupInHand
<1>6. NothingInUse'
  BY <1>0 DEF NothingInUse
<1>7. NothingGone'
  BY <1>0 DEF NothingGone, Deleting
<1>8. UsedIsKnown'
  BY <1>0 DEF UsedIsKnown
<1>9. ReferencedIsStored'
  <2>1. \A m \in gone : m \notin Used
    BY DEF Deleting, NothingInUse, ExpiryInHand, FirstOf, Stale, ReferencedIsStored
  <2>2. \A m \in Used : m \in Media /\ row'[m] = row[m] /\ (m \in broken => m \in broken')
    BY <2>1 DEF UsedIsKnown, TypeOK
  <2> QED
    BY <1>0, <2>2 DEF ReferencedIsStored
<1>10. Accounted'
  BY <1>0 DEF Accounted, Doomed, NothingGone, Deleting, TypeOK
<1>11. Tidy'
  <2>1. \A m \in gone : m \notin Used
    BY DEF Deleting, NothingInUse, ExpiryInHand, FirstOf, Stale, ReferencedIsStored
  <2>2. pc = "expiring" => \A m \in gone : row[m] = "temporary"
    BY DEF ExpiryInHand, FirstOf, Stale
  <2>3. pc = "deleting" => \A m \in gone : row[m] = "attached"
    BY DEF CleanupInHand
  <2>4. \A m \in Media : row'[m] = IF m \in gone THEN "none" ELSE row[m]
    OBVIOUS
  <2> QED
    BY <1>0, <2>1, <2>2, <2>3, <2>4 DEF Tidy, Deleting
<1> QED
  BY <1>1, <1>2, <1>3, <1>4, <1>5, <1>6, <1>7, <1>8, <1>9, <1>10, <1>11

LEMMA CommitFailsKeeps == IInv /\ CommitFails => IInv'
<1> SUFFICES ASSUME IInv, CommitFails PROVE IInv'
  OBVIOUS
<1> USE MediaAssumption DEF IInv, CommitFails, Goto, Fault, With, uploadVars, placeVars, processVars
<1>0. Used' = Used
  BY DEF Used
<1>1. TypeOK'
  <2>1. broken' \subseteq Media
    BY DEF TypeOK, LeftBroken
  <2>2. faults' \in 0..MaxFaults
    BY DEF TypeOK
  <2> QED
    BY <2>1, <2>2 DEF TypeOK
<1>2. IdsInOrder'
  BY <1>0 DEF IdsInOrder, TypeOK, Media
<1>3. UploadInHand'
  BY <1>0 DEF UploadInHand, TypeOK, Media
<1>4. ExpiryInHand'
  BY <1>0 DEF ExpiryInHand
<1>5. CleanupInHand'
  BY <1>0 DEF CleanupInHand
<1>6. NothingInUse'
  BY <1>0 DEF NothingInUse
<1>7. NothingGone'
  BY <1>0 DEF NothingGone, Deleting
<1>8. UsedIsKnown'
  BY <1>0 DEF UsedIsKnown
<1>9. ReferencedIsStored'
  BY <1>0 DEF ReferencedIsStored, UsedIsKnown, TypeOK
<1>10. Accounted'
  BY <1>0 DEF Accounted, Doomed, LeftBroken, TypeOK
<1>11. Tidy'
  BY <1>0 DEF Tidy, NothingGone, Deleting, TypeOK
<1> QED
  BY <1>1, <1>2, <1>3, <1>4, <1>5, <1>6, <1>7, <1>8, <1>9, <1>10, <1>11

LEMMA CrashKeeps == IInv /\ Crash => IInv'
<1> SUFFICES ASSUME IInv, Crash PROVE IInv'
  OBVIOUS
<1> USE MediaAssumption DEF IInv, Crash, Goto, Fault, With, uploadVars, placeVars, processVars
<1>0. Used' = Used
  BY DEF Used
<1>1. TypeOK'
  <2>1. broken' \subseteq Media
    BY DEF TypeOK, LeftBroken
  <2>2. faults' \in 0..MaxFaults
    BY DEF TypeOK
  <2> QED
    BY <2>1, <2>2 DEF TypeOK
<1>2. IdsInOrder'
  BY <1>0 DEF IdsInOrder, TypeOK, Media
<1>3. UploadInHand'
  BY <1>0 DEF UploadInHand, TypeOK, Media
<1>4. ExpiryInHand'
  BY <1>0 DEF ExpiryInHand
<1>5. CleanupInHand'
  BY <1>0 DEF CleanupInHand
<1>6. NothingInUse'
  BY <1>0 DEF NothingInUse
<1>7. NothingGone'
  BY <1>0 DEF NothingGone, Deleting
<1>8. UsedIsKnown'
  BY <1>0 DEF UsedIsKnown
<1>9. ReferencedIsStored'
  BY <1>0 DEF ReferencedIsStored, UsedIsKnown, TypeOK
<1>10. Accounted'
  <2>1. FirstOf(Stale)' = FirstOf(Stale)
    BY DEF FirstOf, Stale
  <2>2. Doomed' = FirstOf(Stale)
    BY <2>1 DEF Doomed
  <2>3. pc # "deleting" => \A m \in gone \cup Doomed : m \in FirstOf(Stale)
    BY DEF ExpiryInHand, NothingGone, Deleting, Doomed
  <2>4. pc = "deleting" => Doomed = {} /\ broken' = broken \cup gone
    BY DEF LeftBroken, Doomed
  <2>5. broken \subseteq broken'
    OBVIOUS
  <2> QED
    BY <2>2, <2>3, <2>4, <2>5 DEF Accounted
<1>11. Tidy'
  BY <1>0 DEF Tidy, NothingGone, Deleting, TypeOK
<1> QED
  BY <1>1, <1>2, <1>3, <1>4, <1>5, <1>6, <1>7, <1>8, <1>9, <1>10, <1>11

LEMMA RedeployKeeps == IInv /\ Redeploy => IInv'
<1> SUFFICES ASSUME IInv, Redeploy PROVE IInv'
  OBVIOUS
<1> USE MediaAssumption DEF IInv, Redeploy, Goto, Fault, With, uploadVars, placeVars, processVars
<1>0. Used' = Used
  BY DEF Used
<1>1. TypeOK'
  BY <1>0 DEF TypeOK
<1>2. IdsInOrder'
  BY <1>0 DEF IdsInOrder, TypeOK, Media
<1>3. UploadInHand'
  BY <1>0 DEF UploadInHand, TypeOK, Media
<1>4. ExpiryInHand'
  BY <1>0 DEF ExpiryInHand
<1>5. CleanupInHand'
  BY <1>0 DEF CleanupInHand
<1>6. NothingInUse'
  BY <1>0 DEF NothingInUse
<1>7. NothingGone'
  BY <1>0 DEF NothingGone, Deleting
<1>8. UsedIsKnown'
  BY <1>0 DEF UsedIsKnown
<1>9. ReferencedIsStored'
  BY <1>0 DEF ReferencedIsStored, UsedIsKnown, TypeOK
<1>10. Accounted'
  BY <1>0 DEF Accounted, Doomed, NothingGone, Deleting, TypeOK
<1>11. Tidy'
  BY <1>0 DEF Tidy, NothingGone, Deleting, TypeOK
<1> QED
  BY <1>1, <1>2, <1>3, <1>4, <1>5, <1>6, <1>7, <1>8, <1>9, <1>10, <1>11

LEMMA AgeKeeps == IInv /\ Age => IInv'
<1> SUFFICES ASSUME IInv, Age PROVE IInv'
  OBVIOUS
<1> USE MediaAssumption DEF IInv, Age, Goto, Fault, With, uploadVars, placeVars, processVars
<1>0. Used' = Used
  BY DEF Used
<1>1. TypeOK'
  BY <1>0 DEF TypeOK
<1>2. IdsInOrder'
  BY <1>0 DEF IdsInOrder, TypeOK, Media
<1>3. UploadInHand'
  BY <1>0 DEF UploadInHand, TypeOK, Media
<1>4. ExpiryInHand'
  <2>1. Stale \subseteq Stale' /\ Stale' \subseteq Nat
    BY DEF Stale, TypeOK, Media
  <2>2. \A t \in Stale' \ Stale : \A m \in Stale : t > m
    BY DEF Stale, TypeOK, Media
  <2>3. FirstOf(Stale) \subseteq FirstOf(Stale')
    BY <2>1, <2>2, OldestStay
  <2>4. FirstOf(Stale') = FirstOf(Stale)'
    BY DEF FirstOf
  <2> QED
    BY <2>3, <2>4 DEF ExpiryInHand
<1>5. CleanupInHand'
  BY <1>0 DEF CleanupInHand
<1>6. NothingInUse'
  BY <1>0 DEF NothingInUse
<1>7. NothingGone'
  BY <1>0 DEF NothingGone, Deleting
<1>8. UsedIsKnown'
  BY <1>0 DEF UsedIsKnown
<1>9. ReferencedIsStored'
  BY <1>0 DEF ReferencedIsStored, UsedIsKnown, TypeOK
<1>10. Accounted'
  <2>1. Stale \subseteq Stale' /\ Stale' \subseteq Nat
    BY DEF Stale, TypeOK, Media
  <2>2. \A t \in Stale' \ Stale : \A m \in Stale : t > m
    BY DEF Stale, TypeOK, Media
  <2>3. FirstOf(Stale) \subseteq FirstOf(Stale')
    BY <2>1, <2>2, OldestStay
  <2>4. FirstOf(Stale') = FirstOf(Stale)'
    BY DEF FirstOf
  <2>5. Doomed \subseteq Doomed'
    BY <2>3, <2>4 DEF Doomed
  <2> QED
    BY <2>5 DEF Accounted
<1>11. Tidy'
  BY <1>0 DEF Tidy, NothingGone, Deleting, TypeOK
<1> QED
  BY <1>1, <1>2, <1>3, <1>4, <1>5, <1>6, <1>7, <1>8, <1>9, <1>10, <1>11

LEMMA UsedAfterName ==
  ASSUME TypeOK, NEW u \in Account, NEW xs \in SUBSET known, NEW p \in Place,
         NEW kept \in SUBSET (photos[p] \ xs), Name(u, p, xs, kept)
  PROVE  /\ Used' \subseteq Used \cup xs
         /\ Used \cup xs \subseteq Used' \cup (photos[p] \ (xs \cup kept))
<1>1. \A m : m \in Used <=> (\E q \in Place : m \in photos[q]) \/ m \in told
  BY UsedMeans DEF Referenced
<1>2. Used' = (UNION {photos'[q] : q \in Place}) \cup told'
  BY DEF Used
<1>3. told' = told /\ photos' = [photos EXCEPT ![p] = xs \cup kept]
  BY DEF Name
<1>4. photos'[p] = xs \cup kept /\ \A q \in Place : q # p => photos'[q] = photos[q]
  BY <1>3 DEF TypeOK
<1>5. \A m : m \in Used' <=> (\E q \in Place : m \in photos'[q]) \/ m \in told'
  <2> TAKE m
  <2>1. m \in UNION {photos'[q] : q \in Place} <=> \E q \in Place : m \in photos'[q]
    OBVIOUS
  <2> QED
    BY <1>2, <2>1
<1>6. \A m \in Used' : m \in Used \cup xs
  BY <1>1, <1>3, <1>4, <1>5
<1>7. \A m \in Used \cup xs : m \in Used' \cup (photos[p] \ (xs \cup kept))
  BY <1>1, <1>3, <1>4, <1>5
<1> QED
  BY <1>6, <1>7

\* What is attached while the process is idle has its object.
LEMMA IdleKnownStored == IInv => KnownIsStored
  BY DEF IInv, Accounted, NothingGone, Doomed, Deleting, KnownIsStored, Rows

\* The part of the invariant that a change of a place or a review keeps.
LEMMA AttachKeeps ==
  ASSUME IInv, pc = "idle", NEW xs \in SUBSET known, xs \subseteq Rows,
         row' = With(xs, "attached"), UNCHANGED <<uploadVars, objects, broken>>,
         Used' \subseteq Used \cup xs
  PROVE  /\ row' \in [Media -> {"none", "temporary", "attached"}]
         /\ IdsInOrder' /\ UsedIsKnown' /\ ReferencedIsStored'
         /\ \A m \in known : row'[m] # "none" => m \in objects \/ m \in broken
<1> USE DEF IInv, uploadVars
<1>1. \A m \in Media : row'[m] = IF m \in xs THEN "attached" ELSE row[m]
  BY DEF With
<1>2. row' \in [Media -> {"none", "temporary", "attached"}]
  BY DEF With, TypeOK
<1>3. \A m \in known : m \in Media /\ (row[m] # "none" => m \in objects \/ m \in broken)
  BY IdleKnownStored DEF KnownIsStored, Rows, TypeOK
<1>4. IdsInOrder'
  BY <1>1 DEF IdsInOrder
<1>5. UsedIsKnown'
  BY DEF UsedIsKnown
<1>6. \A m \in xs : row[m] # "none" /\ m \in known
  BY DEF Rows
<1>7. \A m \in Used' : row'[m] = "attached" /\ (m \in objects \/ m \in broken)
  BY <1>1, <1>3, <1>5, <1>6 DEF ReferencedIsStored, UsedIsKnown
<1>8. \A m \in known : row'[m] # "none" => m \in objects \/ m \in broken
  BY <1>1, <1>3, <1>6
<1> QED
  BY <1>2, <1>4, <1>5, <1>7, <1>8 DEF ReferencedIsStored

LEMMA TellKeeps ==
  ASSUME IInv, NEW u \in Account, NEW xs \in SUBSET known, Tell(u, xs)
  PROVE  IInv'
<1> USE DEF Tell, placeVars, uploadVars, processVars
<1>1. Used' = Used \cup xs
  BY DEF Used
<1>2. pc = "idle" /\ xs \subseteq Rows
  BY DEF Attachable
<1>3. /\ row' \in [Media -> {"none", "temporary", "attached"}]
      /\ IdsInOrder' /\ UsedIsKnown' /\ ReferencedIsStored'
      /\ \A m \in known : row'[m] # "none" => m \in objects \/ m \in broken
  BY <1>1, <1>2, AttachKeeps
<1>4. TypeOK'
  BY <1>3 DEF TypeOK, IInv
<1>5. UploadInHand' /\ ExpiryInHand' /\ CleanupInHand' /\ NothingInUse' /\ NothingGone'
  BY <1>2 DEF IInv, UploadInHand, ExpiryInHand, CleanupInHand, NothingInUse, NothingGone, Deleting
<1>6. Accounted'
  BY <1>3 DEF Accounted
<1>7. Tidy'
  <2>1. \A m \in Media : row'[m] = IF m \in xs THEN "attached" ELSE row[m]
    BY DEF With
  <2>2. \A m \in xs : row[m] # "none"
    BY <1>2 DEF Rows
  <2> QED
    BY <1>1, <1>2, <2>1, <2>2 DEF IInv, Tidy
<1> QED
  BY <1>3, <1>4, <1>5, <1>6, <1>7 DEF IInv

LEMMA NameKeeps ==
  ASSUME IInv, NEW u \in Account, NEW xs \in SUBSET known, NEW p \in Place,
         NEW kept \in SUBSET (photos[p] \ xs),
         UpdatePlace(u, p, xs, kept) \/ UpdateLost(u, p, xs, kept)
  PROVE  IInv'
<1> USE MediaAssumption DEF placeVars, uploadVars, processVars
<1>1. Name(u, p, xs, kept)
  BY DEF UpdatePlace, UpdateLost
<1>2. pc = "idle" /\ xs \subseteq Rows /\ row' = With(xs, "attached")
      /\ UNCHANGED <<uploadVars, objects, told, broken>>
  BY <1>1 DEF Name, Attachable
<1>3. TypeOK
  BY DEF IInv
<1>4. /\ Used' \subseteq Used \cup xs
      /\ Used \cup xs \subseteq Used' \cup (photos[p] \ (xs \cup kept))
  BY <1>1, <1>3, UsedAfterName
<1>5. /\ row' \in [Media -> {"none", "temporary", "attached"}]
      /\ IdsInOrder' /\ UsedIsKnown' /\ ReferencedIsStored'
      /\ \A m \in known : row'[m] # "none" => m \in objects \/ m \in broken
  BY <1>2, <1>4, AttachKeeps
<1>6. \/ /\ pc' = "cleaning" /\ current' = photos[p] \ (xs \cup kept) /\ gone' = {}
         /\ faults' = faults
      \/ UNCHANGED processVars /\ faults' = faults + 1 /\ faults < MaxFaults
  BY DEF UpdatePlace, UpdateLost, Goto, Fault
<1>7. TypeOK'
  <2>1. photos' \in [Place -> SUBSET Media]
    <3>1. photos' = [photos EXCEPT ![p] = xs \cup kept] /\ xs \cup kept \in SUBSET Media
      BY <1>1, <1>3 DEF Name, TypeOK
    <3> QED
      BY <1>3, <3>1 DEF TypeOK
  <2>2. current' \subseteq Media /\ gone' \subseteq Media
    BY <1>3, <1>6 DEF TypeOK
  <2>3. faults' \in 0..MaxFaults
    BY <1>3, <1>6 DEF TypeOK
  <2>4. pc' \in {"cleaning", "idle"}
    BY <1>2, <1>6
  <2> QED
    BY <1>2, <1>3, <1>5, <2>1, <2>2, <2>3, <2>4 DEF TypeOK
<1>8. \A m \in photos[p] : row'[m] = "attached"
  <2>1. \A m \in photos[p] : m \in Used /\ m \in Media
    BY <1>3, UsedMeans DEF Referenced, TypeOK
  <2>2. \A m \in Media : row'[m] = IF m \in xs THEN "attached" ELSE row[m]
    BY <1>2 DEF With
  <2> QED
    BY <2>1, <2>2 DEF IInv, ReferencedIsStored
<1>9. gone' = {} /\ pc' \in {"cleaning", "idle"}
      /\ (pc' = "cleaning" => current' = photos[p] \ (xs \cup kept))
  BY <1>2, <1>6 DEF IInv, NothingGone, Deleting
<1>10. UploadInHand' /\ ExpiryInHand' /\ NothingInUse' /\ NothingGone'
  BY <1>9 DEF UploadInHand, ExpiryInHand, NothingInUse, NothingGone, Deleting
<1>11. CleanupInHand'
  BY <1>8, <1>9 DEF CleanupInHand
<1>12. Accounted'
  BY <1>2, <1>5 DEF Accounted
<1>13. Tidy'
  <2> SUFFICES ASSUME faults' = 0 PROVE Tidy'
    BY DEF Tidy
  <2>1. faults = 0 /\ pc' = "cleaning"
    BY <1>3, <1>6 DEF TypeOK
  <2>2. \A m \in Media : row'[m] = IF m \in xs THEN "attached" ELSE row[m]
    BY <1>2 DEF With
  <2>3. \A m \in xs : row[m] # "none"
    BY <1>2 DEF Rows
  <2>4. \A m \in Media : m \in objects' <=> row'[m] # "none"
    BY <1>2, <2>1, <2>2, <2>3 DEF IInv, Tidy, NothingGone, Deleting
  <2>5. \A m \in Media : row[m] = "attached" => m \in Used
    BY <1>2, <2>1 DEF IInv, Tidy
  <2>6. \A m \in Media : row'[m] = "attached" => m \in Used' \/ m \in current'
    BY <1>4, <1>9, <2>1, <2>2, <2>5
  <2>7. \A m \in Media : m \in Used' \/ m \in current' => row'[m] = "attached"
    BY <1>5, <1>8, <1>9, <2>1 DEF ReferencedIsStored
  <2> QED
    BY <1>9, <2>1, <2>4, <2>6, <2>7 DEF Tidy
<1> QED
  BY <1>5, <1>7, <1>10, <1>11, <1>12, <1>13 DEF IInv

\* The loop of a cleanup has only old or unused media in hand.
LEMMA InHandUnused == IInv /\ Deleting => \A m \in current \cup gone : m \notin Used
  BY DEF IInv, Deleting, NothingInUse, ExpiryInHand, FirstOf, Stale, ReferencedIsStored

LEMMA DeleteKeeps ==
  ASSUME IInv, NEW m \in Media, DeleteOne(m) \/ DeleteFails(m)
  PROVE  IInv'
<1> USE MediaAssumption DEF placeVars, uploadVars, Fault
<1>1. /\ Deleting /\ m \in current /\ current' = current \ {m}
      /\ UNCHANGED <<pc, uploadVars, row, photos, told>>
  BY DEF DeleteOne, DeleteFails
<1>2. Used' = Used /\ m \notin Used
  BY <1>1, InHandUnused DEF Used
<1>3. \/ objects' = objects \ {m} /\ gone' = gone \cup {m} /\ UNCHANGED <<broken, faults>>
      \/ /\ objects' \in {objects, objects \ {m}} /\ broken' = broken \cup ({m} \ objects')
         /\ gone' = gone /\ faults' = faults + 1 /\ faults < MaxFaults
  BY DEF DeleteOne, DeleteFails
<1>4. current' \cup gone' \subseteq current \cup gone
  BY <1>1, <1>3
<1>5. TypeOK'
  <2>1. /\ current' \subseteq Media /\ gone' \subseteq Media
        /\ objects' \subseteq Media /\ broken' \subseteq Media
    BY <1>1, <1>3 DEF IInv, TypeOK
  <2>2. faults' \in 0..MaxFaults
    BY <1>3 DEF IInv, TypeOK
  <2> QED
    BY <1>1, <2>1, <2>2 DEF IInv, TypeOK
<1>6. IdsInOrder'
  BY <1>1, <1>3 DEF IInv, IdsInOrder
<1>7. UploadInHand' /\ NothingGone'
  BY <1>1 DEF UploadInHand, NothingGone, Deleting
<1>8. ExpiryInHand'
  <2>1. FirstOf(Stale)' = FirstOf(Stale)
    BY <1>1 DEF FirstOf, Stale
  <2> QED
    BY <1>1, <1>4, <2>1 DEF IInv, ExpiryInHand
<1>9. CleanupInHand' /\ NothingInUse'
  BY <1>1, <1>2, <1>4 DEF IInv, CleanupInHand, NothingInUse
<1>10. UsedIsKnown'
  BY <1>1, <1>2 DEF IInv, UsedIsKnown
<1>11. \A n \in Used : n \in objects => n \in objects'
  BY <1>2, <1>3
<1>12. \A n : n \in broken => n \in broken'
  BY <1>3
<1>13. ReferencedIsStored'
  BY <1>1, <1>2, <1>11, <1>12 DEF IInv, ReferencedIsStored
<1>14. Accounted'
  <2>1. \A n : n \in Doomed => n \in Doomed' \/ n = m
    BY <1>1 DEF Doomed, Deleting
  <2>2. m \in objects' \/ m \in broken' \/ m \in gone'
    BY <1>3
  <2>3. \A n : n # m => (n \in objects => n \in objects') /\ (n \in gone => n \in gone')
    BY <1>3
  <2> QED
    BY <1>1, <1>12, <2>1, <2>2, <2>3 DEF IInv, Accounted
<1>15. Tidy'
  <2> SUFFICES ASSUME faults' = 0 PROVE Tidy'
    BY DEF Tidy
  <2>1. faults = 0 /\ objects' = objects \ {m} /\ gone' = gone \cup {m}
    BY <1>3 DEF IInv, TypeOK
  <2>2. current' \cup gone' = current \cup gone
    BY <1>1, <2>1
  <2> QED
    BY <1>1, <1>2, <2>1, <2>2 DEF IInv, Tidy, Deleting
<1> QED
  BY <1>5, <1>6, <1>7, <1>8, <1>9, <1>10, <1>13, <1>14, <1>15 DEF IInv

LEMMA StepInv == IInv /\ [Next]_vars => IInv'
<1> SUFFICES ASSUME IInv, [Next]_vars PROVE IInv'
  OBVIOUS
<1>1. CASE Upload
  BY <1>1, PutKeeps, PutFailsKeeps, InsertKeeps, InsertFailsKeeps, UndoKeeps DEF Upload
<1>2. CASE Use
  BY <1>2, TellKeeps, NameKeeps DEF Use
<1>3. CASE Cleanup
  BY <1>3, LookKeeps, StartKeeps, DeleteKeeps, CommitKeeps, CommitFailsKeeps DEF Cleanup
<1>4. CASE Crash \/ Redeploy \/ Age
  BY <1>4, CrashKeeps, RedeployKeeps, AgeKeeps
<1>5. CASE UNCHANGED vars
  <2>1. Used' = Used /\ FirstOf(Stale)' = FirstOf(Stale)
    BY <1>5 DEF vars, placeVars, uploadVars, Used, FirstOf, Stale
  <2>2. Doomed' = Doomed
    BY <1>5, <2>1 DEF vars, processVars, Doomed
  <2> QED
    BY <1>5, <2>1, <2>2 DEF vars, processVars, placeVars, uploadVars, IInv, TypeOK, IdsInOrder,
       UploadInHand, ExpiryInHand, CleanupInHand, NothingInUse, NothingGone, UsedIsKnown,
       ReferencedIsStored, Accounted, Tidy, Deleting
<1> QED
  BY <1>1, <1>2, <1>3, <1>4, <1>5 DEF Next

LEMMA Invariant == Spec => []IInv
  BY InitInv, StepInv, PTL DEF Spec

-----------------------------------------------------------------------------
(* The theorems.                                                           *)

\* Every reachable state of rows, objects, references and the process is well typed.
THEOREM MediaTypeCorrect == Spec => []TypeOK
<1>1. IInv => TypeOK
  BY DEF IInv
<1> QED
  BY <1>1, Invariant, PTL

\* What a place or a review refers to is attached and stored, whatever expires,
\* is cleaned up, crashes or is lost.
THEOREM UsedMediaStored == Spec => []ReferencedIsStored
<1>1. IInv => ReferencedIsStored
  BY DEF IInv
<1> QED
  BY <1>1, Invariant, PTL

\* While the process serves, an id that was told has its object.
THEOREM ToldMediaStored == Spec => []KnownIsStored
  BY Invariant, IdleKnownStored, PTL

\* No restart, expiry or cleanup takes the row of a fresh upload.
THEOREM FreshUploadsStay == Spec => FreshStays
<1> DEFINE Stays == \A m \in known \cap Rows :
                      m > aged /\ row[m] = "temporary" => row'[m] # "none"
<1>1. IInv /\ [Next]_vars => [Stays]_vars
  <2> SUFFICES ASSUME IInv, Next, NEW m \in known, m > aged, row[m] = "temporary"
               PROVE  row'[m] # "none"
    BY DEF Rows
  <2>1. m \in Media
    BY DEF IInv, TypeOK
  <2>2. CASE Commit
    <3>1. pc = "expiring" => \A n \in gone : n <= aged
      BY DEF IInv, ExpiryInHand, FirstOf, Stale
    <3>2. pc = "deleting" => \A n \in gone : row[n] = "attached"
      BY DEF IInv, CleanupInHand
    <3>3. ~(m <= aged)
      BY <2>1 DEF IInv, TypeOK, Media
    <3>4. m \notin gone
      BY <2>2, <3>1, <3>2, <3>3 DEF Commit, Deleting
    <3> QED
      BY <2>1, <2>2, <3>4 DEF Commit, With
  <2>3. CASE Upload
    BY <2>1, <2>3 DEF Upload, Put, PutFails, Insert, InsertFails, Undo, With
  <2>4. CASE Use
    BY <2>1, <2>4 DEF Use, Tell, UpdatePlace, UpdateLost, Name, With
  <2>5. CASE Cleanup /\ ~Commit
    BY <2>1, <2>5 DEF Cleanup, Look, Start, DeleteOne, DeleteFails, CommitFails
  <2>6. CASE Crash \/ Redeploy \/ Age
    BY <2>1, <2>6 DEF Crash, Redeploy, Age
  <2> QED
    BY <2>2, <2>3, <2>4, <2>5, <2>6 DEF Next
<1>2. Spec => [][Stays]_vars
  BY <1>1, Invariant, PTL DEF Spec
<1> QED
  BY <1>2 DEF FreshStays

\* Without faults the idle process has lost sight of nothing.
THEOREM NothingIsLost == Spec => []NothingLeaks
<1>1. IInv => NothingLeaks
  <2> SUFFICES ASSUME IInv, pc = "idle", faults = 0
               PROVE  objects = Rows /\ \A m \in Media : row[m] = "attached" <=> m \in Used
    BY DEF NothingLeaks
  <2>1. gone = {} /\ objects \subseteq Media
    BY DEF IInv, NothingGone, Deleting, TypeOK
  <2>2. \A m \in Media : m \in objects <=> row[m] # "none"
    BY <2>1 DEF IInv, Tidy
  <2> QED
    BY <2>1, <2>2 DEF IInv, Tidy, Rows
<1> QED
  BY <1>1, Invariant, PTL
=============================================================================
