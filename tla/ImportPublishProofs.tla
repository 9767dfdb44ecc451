------------------------- MODULE ImportPublishProofs -------------------------
(***************************************************************************)
(* The row of the batch serialises its publishers, what they publish is    *)
(* whole and stored, and together they implement the abstract publication, *)
(* whatever the number of clusters, photos, drafts and API processes.      *)
(***************************************************************************)
EXTENDS ImportPublish, TLAPS

PublisherPC == {"idle", "validated", "copying", "failed", "cleaning"}

\* Whoever copies has the batch in 'publishing'; whoever lost the answer of its
\* commit has it in 'published'.
StatusInv ==
  /\ apc \in [Api -> PublisherPC]
  /\ \A a \in Api : /\ apc[a] = "copying" => status = "publishing"
                    /\ apc[a] = "failed" => status = "published"

PublishInv == StatusInv /\ OnePublisher /\ ReservationsHold

\* The invariant holds initially.
LEMMA InitPublish == Init => PublishInv
  BY DEF Init, PublishInv, StatusInv, OnePublisher, ReservationsHold, PublisherPC

\* What a process that moves leaves alone.
LEMMA MoveFrame ==
  ASSUME StatusInv, NEW a \in Api, NEW where \in PublisherPC, Goto(a, where)
  PROVE  /\ apc' \in [Api -> PublisherPC] /\ apc'[a] = where
         /\ \A b \in Api \ {a} : apc'[b] = apc[b]
  BY DEF StatusInv, Goto

\* What is to be published, and under which ids.
planVars == <<status, action, target, complete, place, reserved>>

\* The plan decides ReservationsHold.
LEMMA PlanFrame ==
  ASSUME ReservationsHold, UNCHANGED planVars
  PROVE  ReservationsHold'
  BY DEF ReservationsHold, planVars, Published, Merged, Reviews, Reservation

\* A step that changes neither the plan nor who publishes.
LEMMA QuietStep ==
  ASSUME PublishInv, UNCHANGED planVars, NEW a \in Api, NEW where \in PublisherPC,
         Goto(a, where), where \notin {"copying", "failed"}
  PROVE  PublishInv'
  <1>1. ReservationsHold' BY PlanFrame DEF PublishInv
  <1> QED BY <1>1, MoveFrame DEF PublishInv, StatusInv, OnePublisher, planVars

\* A step that moves no process, outside a publication.
LEMMA StillStep ==
  ASSUME PublishInv, UNCHANGED <<apc, status>>,
         status = "ready" \/ UNCHANGED planVars
  PROVE  PublishInv'
  <1>1. ReservationsHold'
    BY PlanFrame DEF PublishInv, ReservationsHold
  <1> QED BY <1>1 DEF PublishInv, StatusInv, OnePublisher

\* What the transaction of a claim reserves is what the publication will look for.
LEMMA ReserveHolds ==
  ASSUME Claimable, Reserve
  PROVE  /\ status = "ready" /\ status' = "publishing"
         /\ ReservationsHold'
  <1>1. status = "ready" /\ status' = "publishing" /\ UNCHANGED <<action, target, complete>>
    BY DEF Claimable, Reserve, clusterVars, draftVars
  <1>2. \A c \in Cluster : c \in Published => place'[c] = Reservation(c)
    BY DEF Reserve, Published
  <1>3. Published' = Published /\ Merged' = Merged /\ Reviews' = Reviews
    BY <1>1 DEF Published, Merged, Reviews
  <1>4. \A c \in Published : Reservation(c)' = place'[c]
    <2> SUFFICES ASSUME NEW c \in Published PROVE Reservation(c)' = place'[c]
      OBVIOUS
    <2>1. c \in Cluster BY DEF Published
    <2>2. CASE c \in Merged
      BY <1>1, <1>2, <1>3, <2>1, <2>2 DEF Reservation
    <2>3. CASE c \notin Merged
      BY <1>2, <1>3, <2>1, <2>3 DEF Reservation
    <2> QED BY <2>2, <2>3
  <1>5. Reviews \subseteq reserved' BY DEF Reserve
  <1> QED BY <1>1, <1>3, <1>4, <1>5 DEF ReservationsHold

\* The steps of a publication.
LEMMA PublicationStep ==
  ASSUME PublishInv, NEW a \in Api,
         Publication(a) \/ ClaimLost(a) \/ CommitLost(a)
  PROVE  PublishInv'
  <1> USE DEF PublisherPC
  <1>1. CASE Validate(a)
    BY <1>1, QuietStep DEF Validate, planVars, clusterVars, draftVars
  <1>2. CASE Claim(a) \/ ClaimLost(a)
    <2>1. /\ status = "ready" /\ status' = "publishing" /\ ReservationsHold'
          /\ Goto(a, "copying") \/ Goto(a, "idle")
      BY <1>2, ReserveHolds DEF Claim, ClaimLost, Finish
    <2>2. \A b \in Api \ {a} : apc'[b] = apc[b] /\ apc[b] \notin {"copying", "failed"}
      BY <2>1, MoveFrame DEF PublishInv, StatusInv
    <2>3. apc' \in [Api -> PublisherPC] /\ apc'[a] \in {"copying", "idle"}
      BY <2>1, MoveFrame DEF PublishInv
    <2> QED BY <2>1, <2>2, <2>3 DEF PublishInv, StatusInv, OnePublisher
  <1>3. CASE ClaimRefused(a)
    BY <1>3, QuietStep DEF ClaimRefused, Finish, planVars, clusterVars, draftVars
  <1>4. CASE \E x \in Asset : CopyObject(a, x)
    BY <1>4, StillStep DEF CopyObject, planVars, clusterVars, draftVars
  <1>5. CASE Commit(a) \/ CommitLost(a)
    <2>1. /\ apc[a] = "copying" /\ status' = "published"
          /\ Goto(a, "idle") \/ Goto(a, "failed")
      BY <1>5 DEF Commit, CommitLost, Publishable, Publish, Finish
    <2>2. \A b \in Api \ {a} : apc'[b] = apc[b] /\ apc[b] \notin {"copying", "failed"}
      BY <2>1, MoveFrame DEF PublishInv, StatusInv, OnePublisher
    <2>3. apc' \in [Api -> PublisherPC] /\ apc'[a] \in {"idle", "failed"}
      BY <2>1, MoveFrame DEF PublishInv
    <2> QED BY <2>1, <2>2, <2>3 DEF PublishInv, StatusInv, OnePublisher, ReservationsHold
  <1>6. CASE Release(a)
    <2>1. /\ apc[a] \in {"copying", "failed"} /\ Goto(a, "idle")
          /\ status' = IF status = "publishing" THEN "ready" ELSE status
      BY <1>6 DEF Release, Finish
    <2>2. \A b \in Api \ {a} : apc'[b] = apc[b]
                               /\ (apc[b] = "copying" => apc[a] # "copying")
      BY <2>1, MoveFrame DEF PublishInv, OnePublisher
    <2>3. status' # "publishing" BY <2>1
    <2>4. StatusInv' /\ OnePublisher'
      BY <2>1, <2>2, MoveFrame DEF PublishInv, StatusInv, OnePublisher
    <2> QED BY <2>3, <2>4 DEF PublishInv, ReservationsHold
  <1> QED BY <1>1, <1>2, <1>3, <1>4, <1>5, <1>6 DEF Publication

LEMMA PublishStepInv == PublishInv /\ [Next]_vars => PublishInv'
  <1> SUFFICES ASSUME PublishInv, [Next]_vars PROVE PublishInv' OBVIOUS
  <1> USE DEF PublisherPC
  <1>1. CASE UNCHANGED vars
    BY <1>1, StillStep DEF vars, planVars, clusterVars, draftVars
  <1>2. ASSUME NEW a \in Api, Edit(a) PROVE PublishInv'
    BY <1>2, StillStep DEF Edit, PatchCluster, PatchDraft, Mutable
  <1>3. ASSUME NEW a \in Api, Places(a) PROVE PublishInv'
    <2>1. CASE \E p \in Place, keys \in SUBSET media : UpdatePlace(a, p, keys)
      BY <2>1, QuietStep DEF UpdatePlace, planVars, clusterVars, draftVars
    <2>2. CASE \E p \in Place : DeletePlace(a, p) \/ RestorePlace(a, p)
      BY <2>2, StillStep DEF DeletePlace, RestorePlace, ChangePlace, planVars,
                             clusterVars, draftVars
    <2>3. CASE \E kept \in SUBSET local[a] : Cleanup(a, kept)
      BY <2>3, QuietStep DEF Cleanup, Finish, planVars, clusterVars, draftVars
    <2> QED BY <1>3, <2>1, <2>2, <2>3 DEF Places
  <1>4. ASSUME NEW a \in Api, Crash(a) \/ CleanupCrash(a) \/ ClaimFails(a) \/ ReleaseFails(a)
        PROVE  PublishInv'
    BY <1>4, QuietStep DEF Crash, CleanupCrash, ClaimFails, ReleaseFails, Finish, planVars,
                           clusterVars, draftVars
  <1> QED BY <1>1, <1>2, <1>3, <1>4, PublicationStep DEF Next

\* One request at a time publishes a batch, whatever the processes and their crashes:
\* the claim is refused while another has it, and Release only frees its own.
THEOREM PublishersExclude == Spec => []OnePublisher
  <1>1. PublishInv => OnePublisher BY DEF PublishInv
  <1> QED BY <1>1, InitPublish, PublishStepInv, PTL DEF Spec

\* And the publisher finds every id reserved.
THEOREM IdsStayReserved == Spec => []ReservationsHold
  <1>1. PublishInv => ReservationsHold BY DEF PublishInv
  <1> QED BY <1>1, InitPublish, PublishStepInv, PTL DEF Spec

\* What is published is closed to every step of every handler.
LEMMA FinalStep ==
  ASSUME PublishInv, status = "published", [Next]_vars
  PROVE  status' = "published" /\ UNCHANGED <<clusterVars, draftVars, place, review>>
  <1>1. CASE UNCHANGED vars BY <1>1 DEF vars, placeVars
  <1>2. ASSUME NEW a \in Api, Edit(a) \/ Claim(a) \/ ClaimLost(a)
                              \/ Commit(a) \/ CommitLost(a)
        PROVE  FALSE
    BY <1>2 DEF Edit, PatchCluster, PatchDraft, Mutable, Claim, ClaimLost, Claimable,
                      Commit, CommitLost, Publishable, PublishInv, StatusInv
  <1>3. ASSUME NEW a \in Api, Validate(a) \/ ClaimRefused(a) \/ Release(a)
                              \/ Crash(a) \/ CleanupCrash(a) \/ ClaimFails(a) \/ ReleaseFails(a)
        PROVE  status' = "published" /\ UNCHANGED <<clusterVars, draftVars, place, review>>
    BY <1>3 DEF Validate, ClaimRefused, Release, Crash, CleanupCrash, ClaimFails, ReleaseFails,
                placeVars
  <1>4. ASSUME NEW a \in Api, \E x \in Asset : CopyObject(a, x)
        PROVE  status' = "published" /\ UNCHANGED <<clusterVars, draftVars, place, review>>
    BY <1>4 DEF CopyObject, placeVars
  <1>5. ASSUME NEW a \in Api, Places(a)
        PROVE  status' = "published" /\ UNCHANGED <<clusterVars, draftVars, place, review>>
    BY <1>5 DEF Places, UpdatePlace, Cleanup, DeletePlace, RestorePlace, ChangePlace
  <1> QED BY <1>1, <1>2, <1>3, <1>4, <1>5 DEF Next, Publication

\* Once published, a batch keeps its status, its plan, its places and reviews.
THEOREM PublicationLasts == Spec => PublishedIsFinal
  <1>1. PublishInv /\ [Next]_vars =>
          [status = "published" => status' = "published"
             /\ UNCHANGED <<clusterVars, draftVars, place, review>>]_vars
    BY FinalStep
  <1> QED BY <1>1, InitPublish, PublishStepInv, PTL DEF Spec, PublishedIsFinal

-----------------------------------------------------------------------------
(* What strands a batch.                                                   *)

\* A process that was not publishing moves: whoever was goes on.
LEMMA BystanderStep ==
  ASSUME PublishInv, ~Stranded, status' = status, NEW a \in Api,
         NEW where \in PublisherPC, Goto(a, where), apc[a] \notin {"copying", "failed"}
  PROVE  ~Stranded'
  <1>1. CASE status = "publishing"
    <2>1. PICK b \in Api : apc[b] \in {"copying", "failed"} BY <1>1 DEF Stranded
    <2>2. apc'[b] = apc[b] BY <2>1, MoveFrame DEF PublishInv
    <2> QED BY <2>1, <2>2 DEF Stranded
  <1> QED BY <1>1 DEF Stranded

\* Three faults leave a batch in 'publishing' for good, and nothing else does: the death
\* of the process that publishes, a claim that is committed and whose answer is lost,
\* and a release that cannot reach the database.
THEOREM FaultsStrand == Spec => StrandedOnlyByFault
  <1>1. ASSUME PublishInv, [Next]_vars, ~Stranded, Stranded'
        PROVE  \E a \in Api : Crash(a) \/ ClaimLost(a) \/ ReleaseFails(a)
    <2> SUFFICES ASSUME \A a \in Api : ~Crash(a) /\ ~ClaimLost(a) /\ ~ReleaseFails(a)
                 PROVE  FALSE
      OBVIOUS
    <2> USE DEF PublisherPC
    <2>1. ~UNCHANGED <<status, apc>> BY <1>1 DEF Stranded
    <2>2. ASSUME NEW a \in Api, Validate(a) \/ ClaimRefused(a) \/ ClaimFails(a) \/ CleanupCrash(a)
                                \/ (\E p \in Place, keys \in SUBSET media : UpdatePlace(a, p, keys))
                                \/ (\E kept \in SUBSET local[a] : Cleanup(a, kept))
          PROVE  FALSE
      <3>1. /\ status' = status /\ apc[a] \notin {"copying", "failed"}
            /\ \E where \in PublisherPC : Goto(a, where)
        BY <2>2 DEF Validate, ClaimRefused, ClaimFails, CleanupCrash, UpdatePlace, Cleanup, Finish
      <3> QED BY <1>1, <3>1, BystanderStep
    <2>3. ASSUME NEW a \in Api, Claim(a) PROVE FALSE
      BY <1>1, <2>3, MoveFrame DEF Claim, PublishInv, Stranded
    <2>4. ASSUME NEW a \in Api, Commit(a) \/ CommitLost(a) \/ Release(a) PROVE FALSE
      BY <1>1, <2>4 DEF Commit, CommitLost, Release, Publish, Stranded
    <2>5. ASSUME NEW a \in Api, Edit(a) \/ (\E x \in Asset : CopyObject(a, x))
                                \/ (\E p \in Place : DeletePlace(a, p) \/ RestorePlace(a, p))
          PROVE  FALSE
      BY <2>1, <2>5 DEF Edit, PatchCluster, PatchDraft, CopyObject, DeletePlace,
                        RestorePlace, ChangePlace
    <2> QED BY <1>1, <2>1, <2>2, <2>3, <2>4, <2>5 DEF Next, Publication, Places, vars
  <1> QED BY <1>1, InitPublish, PublishStepInv, PTL DEF Spec, StrandedOnlyByFault

-----------------------------------------------------------------------------
(* The refinement of Publication.                                          *)

Made == {c \in Cluster : row[c] # "none"}
Told == {d \in Draft : review[d] # None}

\* Nothing of a batch that is not published is there.
NothingYet ==
  /\ row \in [Place -> {"none", "active", "deleted"}]
  /\ status # "published" => Made = {} /\ Told = {}

RefinementInv == PublishInv /\ NothingYet

\* The invariant holds initially, and the initial states are those of Publication.
LEMMA InitRefines == Init => RefinementInv /\ Promise!Init
  <1> SUFFICES ASSUME Init PROVE RefinementInv /\ Promise!Init OBVIOUS
  <1>1. Cluster \subseteq Place /\ Cluster \cap OldPlace = {}
    BY ConstantsAssumption DEF Place
  <1>2. Made = {} BY <1>1 DEF Init, Made
  <1>3. Told = {} BY DEF Init, Told
  <1>4. status = "ready" /\ row \in [Place -> {"none", "active", "deleted"}] BY DEF Init
  <1> QED BY <1>2, <1>3, <1>4, InitPublish
          DEF RefinementInv, NothingYet, Promise!Init, Made, Told

\* Steps that make no row of a place or a review and publish nothing.
LEMMA StutterStep ==
  ASSUME NothingYet, UNCHANGED <<row, review>>,
         status' = "published" <=> status = "published"
  PROVE  NothingYet' /\ UNCHANGED <<status = "published", Made, Told>>
  BY DEF NothingYet, Made, Told

\* The deletion of a place and its restoration: the row stays.
LEMMA PlaceStep ==
  ASSUME NothingYet, NEW a \in Api, NEW p \in Place, DeletePlace(a, p) \/ RestorePlace(a, p)
  PROVE  NothingYet' /\ UNCHANGED <<status = "published", Made, Told>>
  <1>1. PICK from \in {"active", "deleted"}, to \in {"active", "deleted"} :
          row[p] = from /\ row' = [row EXCEPT ![p] = to] /\ UNCHANGED <<status, review>>
    BY DEF DeletePlace, RestorePlace, ChangePlace
  <1>2. row' \in [Place -> {"none", "active", "deleted"}] BY <1>1 DEF NothingYet
  <1>3. \A q \in Place : row'[q] # "none" <=> row[q] # "none" BY <1>1 DEF NothingYet
  <1>4. Cluster \subseteq Place BY DEF Place
  <1>5. Made' = Made BY <1>3, <1>4 DEF Made
  <1>6. Told' = Told BY <1>1 DEF Told
  <1> QED BY <1>1, <1>2, <1>5, <1>6 DEF NothingYet

\* The publishing transaction is the one step of Publication.
LEMMA ReleaseStep ==
  ASSUME RefinementInv, NEW a \in Api, Commit(a) \/ CommitLost(a)
  PROVE  NothingYet' /\ Promise!Release
  <1>1. status = "publishing" /\ status' = "published"
    BY DEF Commit, CommitLost, Publishable, Publish, RefinementInv, PublishInv, StatusInv
  <1>2. row' \in [Place -> {"none", "active", "deleted"}]
    BY DEF Commit, CommitLost, Publish, RefinementInv, NothingYet
  <1> QED BY <1>1, <1>2 DEF NothingYet, Promise!Release

LEMMA RefinementStep ==
  ASSUME RefinementInv, [Next]_vars
  PROVE  NothingYet' /\ [Promise!Release]_<<status = "published", Made, Told>>
  <1> USE DEF RefinementInv
  <1>1. CASE UNCHANGED vars BY <1>1, StutterStep DEF vars, placeVars
  <1>2. ASSUME NEW a \in Api, Edit(a) \/ Validate(a) \/ Claim(a) \/ ClaimRefused(a)
                              \/ ClaimLost(a) \/ ClaimFails(a)
                              \/ (\E x \in Asset : CopyObject(a, x))
                              \/ Release(a) \/ ReleaseFails(a)
                              \/ Crash(a) \/ CleanupCrash(a)
        PROVE  NothingYet' /\ UNCHANGED <<status = "published", Made, Told>>
    BY <1>2, StutterStep DEF Edit, PatchCluster, PatchDraft, Validate, Claim, Claimable, Reserve,
                             ClaimRefused, ClaimLost, ClaimFails, CopyObject, Release,
                             ReleaseFails, Crash, CleanupCrash, placeVars
  <1>3. ASSUME NEW a \in Api, (\E p \in Place, keys \in SUBSET media : UpdatePlace(a, p, keys))
                              \/ (\E kept \in SUBSET local[a] : Cleanup(a, kept))
        PROVE  NothingYet' /\ UNCHANGED <<status = "published", Made, Told>>
    BY <1>3, StutterStep DEF UpdatePlace, Cleanup
  <1> QED BY <1>1, <1>2, <1>3, PlaceStep, ReleaseStep DEF Next, Publication, Places

\* The places and reviews of a batch come into being at once, once, and stay.
THEOREM PublicationRefined == Spec => ImplementsPublication
  <1>1. RefinementInv /\ [Next]_vars => RefinementInv'
    BY PublishStepInv, RefinementStep DEF RefinementInv
  <1>2. RefinementInv /\ [Next]_vars
          => [Promise!Release]_<<status = "published", Made, Told>>
    BY RefinementStep
  <1> QED BY <1>1, <1>2, InitRefines, PTL
          DEF Spec, ImplementsPublication, Promise!Spec, Made, Told

-----------------------------------------------------------------------------
(* The types of the rows, and what a whole publication rests on.           *)

\* While the batch is published every cluster that takes part has its place.
Placed == status = "publishing" => \A c \in Published : place[c] # None

TypeInv == TypeOK /\ Placed

LEMMA InitTyped == Init => TypeInv
  BY ConstantsAssumption DEF Init, TypeInv, TypeOK, Placed, OldKeys, Place, Key, Role

LEMMA KeyTyped ==
  ASSUME TypeOK, NEW x \in Asset, place[AssetCluster[x]] # None
  PROVE  KeyOf(x) \in Key
  BY ConstantsAssumption DEF TypeOK, KeyOf, Key

LEMMA AllKeysTyped ==
  ASSUME TypeOK, \A c \in Published : place[c] # None
  PROVE  /\ \A c \in Published : Keys(Assets(c)) \subseteq Key /\ Keys(Shown(c)) \subseteq Key
         /\ AllKeys \subseteq Key
  <1>1. ASSUME NEW c \in Published, NEW x \in Assets(c) PROVE KeyOf(x) \in Key
    BY KeyTyped DEF Assets
  <1>2. \A c \in Published : Keys(Assets(c)) \subseteq Key /\ Keys(Shown(c)) \subseteq Key
    BY <1>1 DEF Keys, Shown
  <1> QED BY <1>2 DEF AllKeys

LEMMA ReviewTyped ==
  ASSUME TypeOK, \A c \in Published : place[c] # None, NEW d \in Reviews
  PROVE  ReviewAfter(d) \in ReviewRow
  <1>1. DraftCluster[d] \in Published BY DEF Reviews
  <1>2. place[DraftCluster[d]] \in Place BY <1>1 DEF TypeOK, Published
  <1>3. Keys(Assets(DraftCluster[d])) \subseteq Key BY <1>1, AllKeysTyped
  <1>4. Keys(links[d] \cap Assets(DraftCluster[d])) \subseteq Key BY <1>3 DEF Keys
  <1> QED BY <1>2, <1>4 DEF ReviewAfter, ReviewRow

\* The transaction keeps the types of what it writes.
LEMMA PublishTyped ==
  ASSUME TypeOK, \A c \in Published : place[c] # None, Publish
  PROVE  /\ row' \in [Place -> {"none", "active", "deleted"}]
         /\ photos' \in [Place -> SUBSET Key]
         /\ review' \in [Draft -> ReviewRow \cup {None}]
         /\ media' \subseteq Key
  <1>1. row' \in [Place -> {"none", "active", "deleted"}] BY DEF Publish, TypeOK
  <1>2. ASSUME NEW p \in Place PROVE PhotosAfter(p) \in SUBSET Key
    <2>1. photos[p] \in SUBSET Key BY DEF TypeOK
    <2>2. \A c \in Published : Keys(Shown(c)) \subseteq Key BY AllKeysTyped
    <2> QED BY <2>1, <2>2 DEF PhotosAfter
  <1>3. photos' \in [Place -> SUBSET Key] BY <1>2 DEF Publish
  <1>4. \A d \in Reviews : ReviewAfter(d) \in ReviewRow BY ReviewTyped
  <1>5. review' \in [Draft -> ReviewRow \cup {None}] BY <1>4 DEF Publish, TypeOK
  <1>6. media' \subseteq Key BY AllKeysTyped DEF Publish, TypeOK
  <1> QED BY <1>1, <1>3, <1>5, <1>6

\* The transaction of a claim gives each cluster that takes part a place.
LEMMA ReserveTyped ==
  ASSUME TypeOK, Claimable, Reserve
  PROVE  /\ place' \in [Cluster -> Place \cup {None}]
         /\ reserved' \subseteq Draft
         /\ Placed'
  <1>1. \A c \in Cluster : c \in Published => Reservation(c) \in Place
    <2> SUFFICES ASSUME NEW c \in Cluster, c \in Published PROVE Reservation(c) \in Place
      OBVIOUS
    <2>1. CASE c \in Merged
      <3>1. target[c] \in OldPlace BY <2>1 DEF Claimable, Manageable
      <3> QED BY <2>1, <3>1 DEF Reservation, Place
    <2>2. CASE c \notin Merged BY <2>2 DEF Reservation, Place, TypeOK
    <2> QED BY <2>1, <2>2
  <1>2. place' \in [Cluster -> Place \cup {None}] BY <1>1 DEF Reserve, TypeOK
  <1>3. reserved' \subseteq Draft BY DEF Reserve, TypeOK, Reviews
  <1>4. Published' = Published BY DEF Reserve, clusterVars, Published
  <1>5. \A c \in Published : place'[c] # None
    <2> SUFFICES ASSUME NEW c \in Published PROVE place'[c] # None OBVIOUS
    <2>1. c \in Cluster BY DEF Published
    <2>2. place'[c] = Reservation(c) BY <2>1 DEF Reserve
    <2>3. None \notin Place BY ConstantsAssumption DEF Place
    <2> QED BY <1>1, <2>1, <2>2, <2>3
  <1> QED BY <1>2, <1>3, <1>4, <1>5 DEF Placed

LEMMA TypedNext ==
  ASSUME TypeInv, PublishInv, [Next]_vars
  PROVE  TypeInv'
  <1> USE ConstantsAssumption DEF TypeInv
  <1>0. ASSUME NEW kind, Fault(kind) PROVE faults' \in 0..MaxFaults
    BY <1>0 DEF Fault, TypeOK
  <1>1. CASE UNCHANGED vars
    BY <1>1 DEF vars, clusterVars, draftVars, placeVars, TypeOK, Placed, Published
  <1>2. ASSUME NEW a \in Api, NEW c \in Cluster, NEW act \in {"create", "merge", "skip"},
               NEW p \in OldPlace \cup {None}, NEW name \in BOOLEAN,
               PatchCluster(a, c, act, p, name)
        PROVE  TypeInv'
    BY <1>2 DEF PatchCluster, Mutable, draftVars, placeVars, TypeOK, Placed
  <1>3. ASSUME NEW a \in Api, NEW d \in Draft, NEW xs \in SUBSET Asset, NEW ok \in BOOLEAN,
               PatchDraft(a, d, xs, ok)
        PROVE  TypeInv'
    BY <1>3 DEF PatchDraft, Mutable, clusterVars, placeVars, TypeOK, Placed, Role
  <1>4. ASSUME NEW a \in Api, Validate(a) \/ ClaimRefused(a) \/ Release(a) PROVE TypeInv'
    BY <1>4 DEF Validate, ClaimRefused, Release, Finish, Goto, clusterVars, draftVars, placeVars,
                TypeOK, Placed, Published
  <1>5. ASSUME NEW a \in Api, Claim(a) \/ ClaimLost(a) PROVE TypeInv'
    <2>1. /\ apc' \in [Api -> {"idle", "validated", "copying", "failed", "cleaning"}]
          /\ local' \in [Api -> SUBSET Key]
          /\ faults' \in 0..MaxFaults
      BY <1>5, <1>0 DEF Claim, ClaimLost, Finish, Goto, TypeOK
    <2> QED BY <1>5, <2>1, ReserveTyped DEF Claim, ClaimLost, Reserve, clusterVars, draftVars,
                                            placeVars, TypeOK
  <1>6. ASSUME NEW a \in Api, NEW x \in Asset, CopyObject(a, x) PROVE TypeInv'
    <2>1. status = "publishing" BY <1>6 DEF CopyObject, PublishInv, StatusInv
    <2>2. KeyOf(x) \in Key BY <1>6, <2>1, KeyTyped DEF CopyObject, Placed
    <2> QED BY <1>6, <2>2 DEF CopyObject, clusterVars, draftVars, placeVars, TypeOK, Placed,
                              Published
  <1>7. ASSUME NEW a \in Api, Commit(a) \/ CommitLost(a) PROVE TypeInv'
    <2>1. Publish /\ \A c \in Published : place[c] # None
      BY <1>7 DEF Commit, CommitLost, Publishable
    <2>2. /\ apc' \in [Api -> {"idle", "validated", "copying", "failed", "cleaning"}]
          /\ local' \in [Api -> SUBSET Key]
          /\ faults' \in 0..MaxFaults
      BY <1>7, <1>0 DEF Commit, CommitLost, Finish, Goto, TypeOK
    <2> QED BY <2>1, <2>2, PublishTyped DEF Publish, clusterVars, draftVars, TypeOK, Placed
  <1>8. ASSUME NEW a \in Api, NEW p \in Place, NEW keys \in SUBSET media, UpdatePlace(a, p, keys)
        PROVE  TypeInv'
    BY <1>8 DEF UpdatePlace, Goto, clusterVars, draftVars, TypeOK, Placed, Published
  <1>9. ASSUME NEW a \in Api, NEW p \in Place, DeletePlace(a, p) \/ RestorePlace(a, p)
        PROVE  TypeInv'
    BY <1>9 DEF DeletePlace, RestorePlace, ChangePlace, clusterVars, draftVars, TypeOK, Placed,
                Published
  <1>10. ASSUME NEW a \in Api, NEW kept, Cleanup(a, kept) PROVE TypeInv'
    BY <1>10 DEF Cleanup, Finish, Goto, clusterVars, draftVars, TypeOK, Placed, Published
  <1>11. ASSUME NEW a \in Api, Crash(a) \/ CleanupCrash(a) \/ ClaimFails(a) \/ ReleaseFails(a)
         PROVE  TypeInv'
    BY <1>11, <1>0 DEF Crash, CleanupCrash, ClaimFails, ReleaseFails, Finish, Goto, clusterVars, draftVars, placeVars,
                       TypeOK, Placed, Published
  <1> QED BY <1>1, <1>2, <1>3, <1>4, <1>5, <1>6, <1>7, <1>8, <1>9, <1>10, <1>11
          DEF Next, Edit, Publication, Places

\* Rows, reservations and the locals of the handlers keep their types.
THEOREM PublishTypeCorrect == Spec => []TypeOK
  <1>1. TypeInv => TypeOK BY DEF TypeInv
  <1> QED BY <1>1, InitTyped, TypedNext, InitPublish, PublishStepInv, PTL DEF Spec

-----------------------------------------------------------------------------
(* What is published is whole.                                             *)

\* The transaction leaves no cluster without its place and its photos, and no review
\* without its row.
LEMMA CommitIsWhole ==
  ASSUME TypeInv, RefinementInv, NEW a \in Api, Commit(a) \/ CommitLost(a)
  PROVE  Whole'
  <1>1. /\ status = "publishing" /\ Publish
        /\ \A c \in Published : place[c] # None
    BY DEF Commit, CommitLost, Publishable, RefinementInv, PublishInv, StatusInv
  <1>2. UNCHANGED <<action, target, role, links, complete, place>>
    BY <1>1 DEF Publish, clusterVars, draftVars
  <1>3. /\ Published' = Published /\ Merged' = Merged /\ Reviews' = Reviews
        /\ \A c \in Cluster : Assets(c)' = Assets(c) /\ Keys(Shown(c))' = Keys(Shown(c))
    BY <1>2 DEF Published, Merged, Reviews, Assets, Shown, Keys, KeyOf
  <1>4. ASSUME NEW c \in Published PROVE row'[place[c]] # "none"
    <2>1. place[c] \in Place BY <1>1 DEF TypeInv, TypeOK, Published
    <2>2. row' = [p \in Place |-> IF row[p] = "none" /\ \E e \in Published : place[e] = p
                                  THEN "active" ELSE row[p]]
      BY <1>1 DEF Publish
    <2> QED BY <2>1, <2>2
  <1>5. ASSUME NEW c \in Published, c \in Merged PROVE place[c] = target[c]
    BY <1>1, <1>5 DEF RefinementInv, PublishInv, ReservationsHold, Reservation
  <1>6. ASSUME NEW c \in Published, ~Switched(c) PROVE Keys(Shown(c)) \subseteq photos'[place[c]]
    <2>1. place[c] \in Place BY <1>1 DEF TypeInv, TypeOK, Published
    <2>2. c \in Merged \/ row[place[c]] = "none"
      <3> SUFFICES ASSUME c \notin Merged PROVE row[place[c]] = "none" OBVIOUS
      <3>1. place[c] \in Cluster BY <1>6, <2>1 DEF Switched, Place
      <3> QED BY <1>1, <3>1 DEF RefinementInv, NothingYet, Made
    <2>3. photos'[place[c]] = PhotosAfter(place[c]) BY <1>1, <2>1 DEF Publish
    <2> QED BY <2>2, <2>3 DEF PhotosAfter
  <1>7. ASSUME NEW d \in Reviews
        PROVE  /\ review'[d] # None /\ review'[d].place = place[DraftCluster[d]]
               /\ review'[d].photos = Keys(links[d] \cap Assets(DraftCluster[d]))
    <2>1. d \in Draft /\ DraftCluster[d] \in Published BY DEF Reviews
    <2>2. review[d] = None BY <1>1, <2>1 DEF RefinementInv, NothingYet, Told
    <2>3. review'[d] = ReviewAfter(d) BY <1>1, <2>1, <2>2 DEF Publish
    <2>4. ReviewAfter(d) \in ReviewRow
      BY <1>1, <2>1, ReviewTyped DEF TypeInv
    <2> QED BY <2>3, <2>4, NoneAssumption DEF ReviewAfter
  <1>8. ASSUME NEW c \in Published'
        PROVE  /\ place'[c] # None /\ row'[place'[c]] # "none"
               /\ c \in Merged' => place'[c] = target'[c]
               /\ Switched(c)' \/ Keys(Shown(c))' \subseteq photos'[place'[c]]
    <2>1. c \in Published /\ c \in Cluster BY <1>3 DEF Published
    <2>2. Switched(c)' <=> Switched(c) BY <1>2, <1>3 DEF Switched
    <2> QED BY <1>1, <1>2, <1>3, <1>4, <1>5, <1>6, <2>1, <2>2
  <1>9. ASSUME NEW d \in Reviews'
        PROVE  /\ review'[d] # None /\ review'[d].place = place'[DraftCluster[d]]
               /\ Keys(links[d] \cap Assets(DraftCluster[d]))' \subseteq review'[d].photos
    <2>1. Keys(links[d] \cap Assets(DraftCluster[d]))' = Keys(links[d] \cap Assets(DraftCluster[d]))
      BY <1>2 DEF Keys, KeyOf, Assets
    <2> QED BY <1>2, <1>3, <1>7, <2>1
  <1> QED BY <1>8, <1>9 DEF Whole

\* However often it failed, and was edited and retried, the step that publishes a batch
\* leaves each cluster with its place, the one it is merged into if it is, and this with
\* its cover and gallery, and each complete review with its photos; switched clusters and
\* the photos of incomplete reviews excepted.
THEOREM PublicationIsWhole == Spec => PublishesWhole
  <1> DEFINE Inv == TypeInv /\ RefinementInv
  <1>1. Init => Inv BY InitTyped, InitRefines
  <1>2. Inv /\ [Next]_vars => Inv'
    BY TypedNext, PublishStepInv, RefinementStep DEF RefinementInv
  <1>3. Inv /\ [Next]_vars => [status # "published" /\ status' = "published" => Whole']_vars
    <2> SUFFICES ASSUME Inv, [Next]_vars, status # "published", status' = "published"
                 PROVE  Whole'
      OBVIOUS
    <2>1. PICK a \in Api : Commit(a) \/ CommitLost(a)
      BY DEF Next, Edit, Publication, Places, PatchCluster, PatchDraft, Validate, Claim, Reserve,
             ClaimRefused, ClaimLost, ClaimFails, CopyObject, Release, ReleaseFails, UpdatePlace,
             DeletePlace, RestorePlace, ChangePlace, Cleanup, Crash, CleanupCrash, vars
    <2> QED BY <2>1, CommitIsWhole
  <1> QED BY <1>1, <1>2, <1>3, PTL DEF Spec, PublishesWhole

-----------------------------------------------------------------------------
(* What is shown is stored, as long as one process cleans up and publishes. *)

StoredInv ==
  /\ media \subseteq objects
  /\ \A p \in Place : photos[p] \subseteq media
  /\ \A d \in Draft : review[d] # None => review[d].photos \subseteq media
  /\ \A a \in Api : apc[a] = "copying" => local[a] \subseteq objects
  /\ \A a \in Api : apc[a] \in {"idle", "validated"} => local[a] = {}

\* The transaction refers to what it registers, and registers what was copied.
LEMMA CommitStores ==
  ASSUME TypeInv, StoredInv, NEW a \in Api, Commit(a) \/ CommitLost(a)
  PROVE  /\ media' \subseteq objects'
         /\ \A p \in Place : photos'[p] \subseteq media'
         /\ \A d \in Draft : review'[d] # None => review'[d].photos \subseteq media'
  <1>1. /\ Publish /\ apc[a] = "copying" /\ AllKeys \subseteq local[a]
        /\ \A c \in Published : place[c] # None
    BY DEF Commit, CommitLost, Publishable
  <1>2. media' = media \cup AllKeys /\ objects' = objects BY <1>1 DEF Publish
  <1>3. ASSUME NEW c \in Published
        PROVE  Keys(Assets(c)) \subseteq AllKeys /\ Keys(Shown(c)) \subseteq AllKeys
    BY <1>3 DEF AllKeys, Keys, Shown
  <1>4. ASSUME NEW p \in Place PROVE photos'[p] \subseteq media'
    <2>1. photos'[p] = PhotosAfter(p) BY <1>1 DEF Publish
    <2>2. photos[p] \subseteq media BY DEF StoredInv
    <2> QED BY <1>2, <1>3, <2>1, <2>2 DEF PhotosAfter
  <1>5. ASSUME NEW d \in Draft, review'[d] # None PROVE review'[d].photos \subseteq media'
    <2>1. CASE d \in Reviews /\ review[d] = None
      <3>1. review'[d] = ReviewAfter(d) BY <1>1, <2>1 DEF Publish
      <3>2. Keys(Assets(DraftCluster[d])) \subseteq AllKeys BY <1>3, <2>1 DEF Reviews
      <3>3. ReviewAfter(d).photos \subseteq AllKeys BY <3>2 DEF ReviewAfter, Keys
      <3> QED BY <1>2, <3>1, <3>3
    <2>2. CASE ~(d \in Reviews /\ review[d] = None)
      <3>1. review'[d] = review[d] BY <1>1, <2>2 DEF Publish
      <3> QED BY <1>2, <1>5, <3>1 DEF StoredInv
    <2> QED BY <2>1, <2>2
  <1> QED BY <1>1, <1>2, <1>4, <1>5 DEF StoredInv

\* The executions in which no process dies between the deletion of an object and
\* that of its row.
CleanupsEnd == [][\A a \in Api : ~CleanupCrash(a)]_vars

LEMMA StoredNext ==
  ASSUME \A a, b \in Api : a = b,
         TypeInv, PublishInv, StoredInv, [Next]_vars, [\A a \in Api : ~CleanupCrash(a)]_vars
  PROVE  StoredInv'
  <1> USE DEF TypeInv
  <1>1. CASE UNCHANGED vars BY <1>1 DEF vars, placeVars, StoredInv
  <1>2. ASSUME NEW a \in Api, Edit(a) PROVE StoredInv'
    <2>1. UNCHANGED <<photos, review, media, objects, apc, local>>
      BY <1>2 DEF Edit, PatchCluster, PatchDraft, placeVars
    <2> QED BY <2>1 DEF StoredInv
  <1>3. ASSUME NEW a \in Api, Validate(a) \/ ClaimRefused(a) \/ ClaimLost(a) \/ ClaimFails(a)
                              \/ Release(a) \/ ReleaseFails(a) \/ Crash(a)
        PROVE  StoredInv'
    <2>1. /\ UNCHANGED <<photos, review, media, objects>>
          /\ \A b \in Api : apc'[b] # "copying"
          /\ \A b \in Api : local'[b] = {}
      BY <1>3 DEF Validate, ClaimRefused, ClaimLost, ClaimFails, Reserve, Release, ReleaseFails,
                  Crash, Finish, Goto, placeVars, TypeOK, StoredInv
    <2> QED BY <2>1 DEF StoredInv
  <1>4. ASSUME NEW a \in Api, Claim(a) PROVE StoredInv'
    <2>1. UNCHANGED <<photos, review, media, objects, local>> BY <1>4 DEF Claim, Reserve, placeVars
    <2>2. local[a] \subseteq objects BY <1>4 DEF Claim, StoredInv
    <2>3. \A b \in Api : local[b] \subseteq objects /\ apc'[b] = "copying"
      BY <1>4, <2>2 DEF Claim, Goto, TypeOK
    <2> QED BY <2>1, <2>3 DEF StoredInv
  <1>5. ASSUME NEW a \in Api, NEW x \in Asset, CopyObject(a, x) PROVE StoredInv'
    <2>1. /\ UNCHANGED <<photos, review, media, apc>>
          /\ objects' = objects \cup {KeyOf(x)} /\ local'[a] = local[a] \cup {KeyOf(x)}
          /\ apc[a] = "copying"
      BY <1>5 DEF CopyObject, placeVars, TypeOK
    <2>2. local'[a] \subseteq objects' BY <2>1 DEF StoredInv
    <2>3. \A b \in Api : local'[b] \subseteq objects' /\ apc'[b] = "copying" BY <2>1, <2>2
    <2> QED BY <2>1, <2>3 DEF StoredInv
  <1>6. ASSUME NEW a \in Api, Commit(a) \/ CommitLost(a) PROVE StoredInv'
    <2>1. \A b \in Api : apc'[b] = "failed" \/ (apc'[b] = "idle" /\ local'[b] = {})
      <3>1. CASE Commit(a) BY <3>1 DEF Commit, Finish, Goto, TypeOK
      <3>2. CASE CommitLost(a)
        <4>1. Goto(a, "failed") /\ \A b \in Api : b = a BY <3>2 DEF CommitLost
        <4>2. apc'[a] = "failed" BY <4>1, MoveFrame DEF PublisherPC, PublishInv
        <4> QED BY <4>1, <4>2
      <3> QED BY <1>6, <3>1, <3>2
    <2> QED BY <1>6, <2>1, CommitStores DEF StoredInv
  <1>7. ASSUME NEW a \in Api, NEW p \in Place, NEW keys \in SUBSET media, UpdatePlace(a, p, keys)
        PROVE  StoredInv'
    <2>1. /\ UNCHANGED <<review, media, objects>>
          /\ photos' = [photos EXCEPT ![p] = keys]
          /\ \A b \in Api : apc'[b] = "cleaning"
      BY <1>7 DEF UpdatePlace, Goto, TypeOK
    <2>2. \A q \in Place : photos'[q] \subseteq media BY <2>1 DEF StoredInv, TypeOK
    <2> QED BY <2>1, <2>2 DEF StoredInv
  <1>8. ASSUME NEW a \in Api, NEW p \in Place, DeletePlace(a, p) \/ RestorePlace(a, p)
        PROVE  StoredInv'
    BY <1>8 DEF DeletePlace, RestorePlace, ChangePlace, StoredInv
  <1>9. ASSUME NEW a \in Api, NEW kept, Cleanup(a, kept) PROVE StoredInv'
    <2>1. PICK gone : /\ gone = Unreferenced(a) \ kept
                      /\ objects' = objects \ gone /\ media' = media \ gone
      BY <1>9 DEF Cleanup
    <2>2. /\ UNCHANGED <<photos, review>>
          /\ \A b \in Api : apc'[b] = "idle" /\ local'[b] = {}
      BY <1>9 DEF Cleanup, Finish, Goto, TypeOK
    <2>3. \A k \in gone : ~Referenced(k) BY <2>1 DEF Unreferenced
    <2>4. \A p \in Place : photos[p] \subseteq media' BY <2>1, <2>3 DEF Referenced, StoredInv
    <2>5. \A d \in Draft : review[d] # None => review[d].photos \subseteq media'
      BY <2>1, <2>3 DEF Referenced, StoredInv
    <2>6. media' \subseteq objects' BY <2>1 DEF StoredInv
    <2> QED BY <2>2, <2>4, <2>5, <2>6 DEF StoredInv
  <1> QED BY <1>1, <1>2, <1>3, <1>4, <1>5, <1>6, <1>7, <1>8, <1>9
          DEF Next, Publication, Places

\* With the single process of the deployment, and no death between the deletion of
\* an object and that of its row, no cleanup takes a photo that something shows.
THEOREM ShownIsStored ==
  ASSUME \A a, b \in Api : a = b
  PROVE  Spec /\ CleanupsEnd => []ReferencedIsStored
  <1> DEFINE Inv == TypeInv /\ PublishInv /\ StoredInv
  <1>1. Init => StoredInv
    <2> SUFFICES ASSUME Init PROVE StoredInv OBVIOUS
    <2>1. /\ photos = [p \in Place |-> OldKeys(p)] /\ media = UNION {OldKeys(p) : p \in Place}
          /\ objects = media /\ review = [d \in Draft |-> None] /\ apc = [a \in Api |-> "idle"]
          /\ local = [a \in Api |-> {}]
      BY DEF Init
    <2>2. \A p \in Place : photos[p] \subseteq media BY <2>1
    <2> QED BY <2>1, <2>2 DEF StoredInv
  <1>2. Inv /\ [Next]_vars /\ [\A a \in Api : ~CleanupCrash(a)]_vars => Inv'
    BY TypedNext, PublishStepInv, StoredNext
  <1>3. Inv => ReferencedIsStored
    BY DEF StoredInv, ReferencedIsStored, Referenced
  <1> QED BY <1>1, <1>2, <1>3, InitTyped, InitPublish, PTL DEF Spec, CleanupsEnd
=============================================================================
