---------------------------- MODULE ImportPublish ----------------------------
(***************************************************************************)
(* Publication of one reviewed import batch (routers/imports.py): it is    *)
(* claimed in one transaction, its photos are copied to the object store   *)
(* one by one, and a second transaction inserts or extends the places,     *)
(* inserts the reviews and registers the media.  Places live on: their     *)
(* owners change their photos, delete and restore them (routers/places.py) *)
(* and photos nobody refers to are deleted (services/media.py).            *)
(*                                                                         *)
(* One action is one transaction or one call to the store.  A process of   *)
(* the API runs one handler at a time; its place is kept in apc.           *)
(***************************************************************************)
EXTENDS Naturals

CONSTANTS
  Cluster,       (* clusters of the batch                                  *)
  OldPlace,      (* places that exist already                              *)
  Asset,         (* photos of the batch                                    *)
  Draft,         (* review drafts of the batch                             *)
  Content,       (* contents, with names, that a photo can have            *)
  AssetCluster,  (* cluster_id of each photo                               *)
  AssetContent,  (* its sha256 and original_name                           *)
  InitRole,      (* the role processing or review gave it                  *)
  DraftCluster,  (* cluster_id of each draft                               *)
  OldContent,    (* photos the old places have                             *)
  Api,           (* processes of the API                                   *)
  None,          (* no place, no review                                    *)
  Faults,        (* kinds of fault the environment may inject              *)
  MaxFaults      (* bound: faults injected in a behaviour                  *)

Role == {"cover", "gallery", "review", "excluded"}

ASSUME ConstantsAssumption ==
  /\ AssetCluster \in [Asset -> Cluster] /\ AssetContent \in [Asset -> Content]
  /\ InitRole \in [Asset -> Role] /\ DraftCluster \in [Draft -> Cluster]
  /\ OldContent \in [OldPlace -> SUBSET Content]
  /\ Cluster \cap OldPlace = {}
  /\ None \notin Cluster \cup OldPlace
  /\ Faults \subseteq {"crash", "commitlost", "noconnection", "cleancrash"}
  /\ MaxFaults \in Nat

\* A cluster draws a place id at most once (it never loses one): the drawn id
\* is named by the cluster.  So is a review id by its draft.
Place == OldPlace \cup Cluster

\* The object key places/{place_id}/{sha256[:16]}-{original_name}.  A row of
\* travel_media is named by its unique object_key.
Key == Place \X Content

VARIABLES
  status,    (* travel_import_batches.status                               *)
  action,    (* publish_action of each cluster                             *)
  target,    (* existing_place_id                                          *)
  named,     (* whether draft_name and draft_category are filled in        *)
  place,     (* published_place_id                                         *)
  role,      (* role of each photo, "excluded" if it is excluded           *)
  links,     (* photos linked to each draft                                *)
  complete,  (* whether it has a rating and a body                         *)
  reserved,  (* drafts with a published_review_id                          *)
  row,       (* travel_places: none, active or deleted                     *)
  photos,    (* media its cover_media_id and photo_media_ids_json name     *)
  review,    (* travel_place_reviews of each draft                         *)
  media,     (* travel_media                                               *)
  objects,   (* objects in the store                                       *)
  apc,       (* where each process is                                      *)
  local,     (* keys it has copied, or the media it is to clean up         *)
  faults     (* faults injected so far                                     *)

clusterVars == <<action, target, named>>
draftVars   == <<role, links, complete>>
placeVars   == <<row, photos, review, media>>
vars == <<status, clusterVars, draftVars, place, reserved, placeVars, objects,
          apc, local, faults>>

ReviewRow == [place : Place, photos : SUBSET Key]

ASSUME NoneAssumption == None \notin ReviewRow

TypeOK ==
  /\ status \in {"ready", "publishing", "published"}
  /\ action \in [Cluster -> {"create", "merge", "skip"}]
  /\ target \in [Cluster -> OldPlace \cup {None}]
  /\ named \in [Cluster -> BOOLEAN]
  /\ place \in [Cluster -> Place \cup {None}]
  /\ role \in [Asset -> Role]
  /\ links \in [Draft -> SUBSET Asset]
  /\ complete \in [Draft -> BOOLEAN]
  /\ reserved \subseteq Draft
  /\ row \in [Place -> {"none", "active", "deleted"}]
  /\ photos \in [Place -> SUBSET Key]
  /\ review \in [Draft -> ReviewRow \cup {None}]
  /\ media \subseteq Key
  /\ objects \subseteq Key
  /\ apc \in [Api -> {"idle", "validated", "copying", "failed", "cleaning"}]
  /\ local \in [Api -> SUBSET Key]
  /\ faults \in 0..MaxFaults

OldKeys(p) == IF p \in OldPlace THEN {p} \X OldContent[p] ELSE {}

Init ==
  /\ status = "ready"
  /\ action = [c \in Cluster |-> "create"]
  /\ target = [c \in Cluster |-> None]
  /\ named \in [Cluster -> BOOLEAN]
  /\ place = [c \in Cluster |-> None]
  /\ role = InitRole
  /\ links = [d \in Draft |-> {}]
  /\ complete = [d \in Draft |-> FALSE]
  /\ reserved = {}
  /\ row = [p \in Place |-> IF p \in OldPlace THEN "active" ELSE "none"]
  /\ photos = [p \in Place |-> OldKeys(p)]
  /\ review = [d \in Draft |-> None]
  /\ media = UNION {OldKeys(p) : p \in Place}
  /\ objects = media
  /\ apc = [a \in Api |-> "idle"]
  /\ local = [a \in Api |-> {}]
  /\ faults = 0

-----------------------------------------------------------------------------
(* What a publication consists of.                                         *)

Goto(a, where) == apc' = [apc EXCEPT ![a] = where]

\* The handler ends, and its locals with it.
Finish(a) == Goto(a, "idle") /\ local' = [local EXCEPT ![a] = {}]

Published == {c \in Cluster : action[c] # "skip"}
Merged    == {c \in Cluster : action[c] = "merge"}

\* The reviews to publish: drafts without a rating or a body are left out.
Reviews == {d \in Draft : DraftCluster[d] \in Published /\ complete[d]}

\* The photos to publish, those the place will show, and their keys.
Assets(c) == {x \in Asset : AssetCluster[x] = c /\ role[x] # "excluded"}
Shown(c)  == {x \in Assets(c) : role[x] \in {"cover", "gallery"}}
KeyOf(x)  == <<place[AssetCluster[x]], AssetContent[x]>>
Keys(xs)  == {KeyOf(x) : x \in xs}
AllKeys   == UNION {Keys(Assets(c)) : c \in Published}

\* _validate_batch.  That a cluster has one cover is a matter of ImportReview.
Valid ==
  /\ status = "ready"
  /\ \A c \in Cluster :
       /\ action[c] = "create" => named[c]
       /\ action[c] = "merge" => target[c] # None

\* _require_manageable_place: the user manages every place of the model.
Manageable(p) == p \in OldPlace /\ row[p] = "active"

-----------------------------------------------------------------------------
(* Review of the batch: what decides a publication.  The rest of it, and   *)
(* the other columns of these rows, are the subject of ImportReview.       *)

\* Mutant: a batch that is being published may still be edited.
MutableUnlessPublished == status # "published"
\* lock_mutable_batch
Mutable == status = "ready"

\* PATCH /{batch_id}/clusters/{cluster_id}
PatchCluster(a, c, act, p, name) ==
  /\ apc[a] = "idle" /\ Mutable
  /\ act = "merge" => p # None /\ Manageable(p)
  /\ action' = [action EXCEPT ![c] = act]
  /\ target' = [target EXCEPT ![c] = p]
  /\ named' = [named EXCEPT ![c] = name]
  /\ UNCHANGED <<status, draftVars, place, reserved, placeVars, objects, apc,
                 local, faults>>

\* PATCH /{batch_id}/reviews/{review_id}: photos linked here leave the other
\* drafts and become photos of a review.
PatchDraft(a, d, xs, ok) ==
  /\ apc[a] = "idle" /\ Mutable
  /\ \A x \in xs : AssetCluster[x] = DraftCluster[d]
  /\ links' = [e \in Draft |-> IF e = d THEN xs ELSE links[e] \ xs]
  /\ role' = [x \in Asset |-> IF x \in xs THEN "review" ELSE role[x]]
  /\ complete' = [complete EXCEPT ![d] = ok]
  /\ UNCHANGED <<status, clusterVars, place, reserved, placeVars, objects, apc,
                 local, faults>>

-----------------------------------------------------------------------------
(* POST /{batch_id}/publish.                                               *)

\* _require_batch and _validate_batch, in transactions of their own.
Validate(a) ==
  /\ apc[a] = "idle" /\ Valid
  /\ Goto(a, "validated")
  /\ UNCHANGED <<status, clusterVars, draftVars, place, reserved, placeVars,
                 objects, local, faults>>

\* Mutant: a reservation is kept even if the cluster now merges elsewhere.
ReservedOnce(c) ==
  IF place[c] # None THEN place[c] ELSE IF c \in Merged THEN target[c] ELSE c
\* The place id _claim_publish_batch reserves for a cluster.
Reservation(c) ==
  IF c \in Merged THEN target[c] ELSE IF place[c] # None THEN place[c] ELSE c

Claimable == status = "ready" /\ \A c \in Merged : Manageable(target[c])

\* The transaction of _claim_publish_batch.
Reserve ==
  /\ place' = [c \in Cluster |-> IF c \in Published THEN Reservation(c) ELSE place[c]]
  /\ reserved' = reserved \cup Reviews
  /\ status' = "publishing"
  /\ UNCHANGED <<clusterVars, draftVars, placeVars, objects>>

\* Mutant: the claim does not look at the status it locked.
ClaimUnchecked(a) ==
  apc[a] = "validated" /\ Reserve /\ Goto(a, "copying") /\ UNCHANGED <<local, faults>>
\* _claim_publish_batch
Claim(a) ==
  /\ apc[a] = "validated" /\ Claimable
  /\ Reserve
  /\ Goto(a, "copying") /\ UNCHANGED <<local, faults>>

\* ... or its refusal, or 'already published'.
ClaimRefused(a) ==
  /\ apc[a] = "validated" /\ ~Claimable
  /\ Finish(a)
  /\ UNCHANGED <<status, clusterVars, draftVars, place, reserved, placeVars,
                 objects, faults>>

\* _publish_asset_file puts or copies one object.
CopyObject(a, x) ==
  /\ apc[a] = "copying"
  /\ AssetCluster[x] \in Published /\ role[x] # "excluded"
  /\ KeyOf(x) \notin local[a]
  /\ objects' = objects \cup {KeyOf(x)}
  /\ local' = [local EXCEPT ![a] = @ \cup {KeyOf(x)}]
  /\ UNCHANGED <<status, clusterVars, draftVars, place, reserved, placeVars,
                 apc, faults>>

\* _publish_batch raises unless every reservation is there and every place to
\* merge into is still active.
Publishable(a) ==
  /\ apc[a] = "copying" /\ AllKeys \subseteq local[a]
  /\ \A c \in Published : place[c] # None
  /\ \A c \in Merged : Manageable(place[c])
  /\ Reviews \subseteq reserved

\* The photos of a place after the publication: a new place gets them, a merge
\* adds them, and a place id that has a row already is not inserted again.
PhotosAfter(p) ==
  photos[p] \cup
    UNION {Keys(Shown(c)) : c \in {c \in Published : place[c] = p
                                     /\ (c \in Merged \/ row[p] = "none")}}

ReviewAfter(d) ==
  [place  |-> place[DraftCluster[d]],
   photos |-> Keys(links[d] \cap Assets(DraftCluster[d]))]

\* The transaction of _publish_batch.
Publish ==
  /\ row' = [p \in Place |->
               IF row[p] = "none" /\ \E c \in Published : place[c] = p
               THEN "active" ELSE row[p]]
  /\ photos' = [p \in Place |-> PhotosAfter(p)]
  /\ review' = [d \in Draft |-> IF d \in Reviews /\ review[d] = None
                                THEN ReviewAfter(d) ELSE review[d]]
  /\ media' = media \cup AllKeys
  /\ status' = "published"
  /\ UNCHANGED <<clusterVars, draftVars, place, reserved, objects>>

\* Mutant: the places are committed before the rest.
CommitInTwo(a) ==
  \/ /\ Publishable(a) /\ \E c \in Published : row[place[c]] = "none"
     /\ row' = [p \in Place |-> IF \E c \in Published : place[c] = p /\ row[p] = "none"
                               THEN "active" ELSE row[p]]
     /\ UNCHANGED <<status, clusterVars, draftVars, place, reserved, photos, review,
                    media, objects, apc, local, faults>>
  \/ /\ Publishable(a) /\ \A c \in Published : row[place[c]] # "none"
     /\ Publish /\ Finish(a) /\ UNCHANGED faults
Commit(a) == Publishable(a) /\ Publish /\ Finish(a) /\ UNCHANGED faults

\* Mutant: the release does not look at the status.
ReleaseUnchecked(a) ==
  /\ apc[a] \in {"copying", "failed"}
  /\ status' = "ready"
  /\ Finish(a)
  /\ UNCHANGED <<clusterVars, draftVars, place, reserved, placeVars, objects, faults>>

\* Mutant: only the handler ends.
ReleaseNot(a) ==
  /\ apc[a] \in {"copying", "failed"}
  /\ Finish(a)
  /\ UNCHANGED <<status, clusterVars, draftVars, place, reserved, placeVars, objects, faults>>

\* _release_publish_batch, after an exception of _publish_batch anywhere.
Release(a) ==
  /\ apc[a] \in {"copying", "failed"}
  /\ status' = IF status = "publishing" THEN "ready" ELSE status
  /\ Finish(a)
  /\ UNCHANGED <<clusterVars, draftVars, place, reserved, placeVars, objects, faults>>

-----------------------------------------------------------------------------
(* Places and their media.                                                 *)

\* PUT /places/{place_id}, its transaction: any registered media may be named.
UpdatePlace(a, p, keys) ==
  /\ apc[a] = "idle" /\ row[p] = "active" /\ keys \subseteq media
  /\ photos' = [photos EXCEPT ![p] = keys]
  /\ local' = [local EXCEPT ![a] = photos[p] \ keys]
  /\ Goto(a, "cleaning")
  /\ UNCHANGED <<status, clusterVars, draftVars, place, reserved, row, review,
                 media, objects, faults>>

\* Mutant: only the places that are not deleted count.
ReferencedByActive(k) ==
  \/ \E p \in Place : row[p] = "active" /\ k \in photos[p]
  \/ \E d \in Draft : review[d] # None /\ k \in review[d].photos
\* _is_media_referenced
Referenced(k) ==
  \/ \E p \in Place : k \in photos[p]
  \/ \E d \in Draft : review[d] # None /\ k \in review[d].photos

Unreferenced(a) == {k \in local[a] \cap media : ~Referenced(k)}

\* cleanup_unreferenced_media; an object the store fails to delete keeps its row.
Cleanup(a, kept) ==
  /\ apc[a] = "cleaning" /\ kept \subseteq Unreferenced(a)
  /\ objects' = objects \ (Unreferenced(a) \ kept)
  /\ media' = media \ (Unreferenced(a) \ kept)
  /\ Finish(a)
  /\ UNCHANGED <<status, clusterVars, draftVars, place, reserved, row, photos,
                 review, faults>>

\* DELETE /places/{place_id} and POST /places/{place_id}/restore
ChangePlace(a, p, from, to) ==
  /\ apc[a] = "idle" /\ row[p] = from
  /\ row' = [row EXCEPT ![p] = to]
  /\ UNCHANGED <<status, clusterVars, draftVars, place, reserved, photos, review,
                 media, objects, apc, local, faults>>
DeletePlace(a, p)  == ChangePlace(a, p, "active", "deleted")
RestorePlace(a, p) == ChangePlace(a, p, "deleted", "active")

-----------------------------------------------------------------------------
(* Faults.                                                                 *)

Fault(kind) == kind \in Faults /\ faults < MaxFaults /\ faults' = faults + 1

\* The process dies and comes back.
Crash(a) ==
  /\ Fault("crash") /\ apc[a] # "idle"
  /\ Finish(a)
  /\ UNCHANGED <<status, clusterVars, draftVars, place, reserved, placeVars, objects>>

\* The transaction is committed and the connection lost: commit() raises.
CommitLost(a) ==
  /\ Fault("commitlost")
  /\ Publishable(a) /\ Publish
  /\ Goto(a, "failed") /\ UNCHANGED local

\* The claim is committed and its answer lost.  It is made outside the try of the
\* handler, which ends without a release.
ClaimLost(a) ==
  /\ Fault("commitlost")
  /\ apc[a] = "validated" /\ Claimable
  /\ Reserve /\ Finish(a)

\* The claim finds no connection, or rolls back.
ClaimFails(a) ==
  /\ Fault("noconnection") /\ apc[a] = "validated"
  /\ Finish(a)
  /\ UNCHANGED <<status, clusterVars, draftVars, place, reserved, placeVars, objects>>

\* The publication has failed, and _release_publish_batch, which opens a
\* connection of its own, fails too.
ReleaseFails(a) ==
  /\ Fault("noconnection") /\ apc[a] \in {"copying", "failed"}
  /\ Finish(a)
  /\ UNCHANGED <<status, clusterVars, draftVars, place, reserved, placeVars, objects>>

\* The process dies in a cleanup, with objects deleted and their rows not.
CleanupCrash(a) ==
  /\ Fault("cleancrash") /\ apc[a] = "cleaning" /\ Unreferenced(a) # {}
  /\ objects' = objects \ Unreferenced(a)
  /\ Finish(a)
  /\ UNCHANGED <<status, clusterVars, draftVars, place, reserved, placeVars>>

-----------------------------------------------------------------------------
Edit(a) ==
  \/ \E c \in Cluster, act \in {"create", "merge", "skip"},
        p \in OldPlace \cup {None}, name \in BOOLEAN : PatchCluster(a, c, act, p, name)
  \/ \E d \in Draft, xs \in SUBSET Asset, ok \in BOOLEAN : PatchDraft(a, d, xs, ok)

Publication(a) ==
  \/ Validate(a) \/ Claim(a) \/ ClaimRefused(a)
  \/ \E x \in Asset : CopyObject(a, x)
  \/ Commit(a) \/ Release(a)

Places(a) ==
  \/ \E p \in Place : \/ \E keys \in SUBSET media : UpdatePlace(a, p, keys)
                      \/ DeletePlace(a, p) \/ RestorePlace(a, p)
  \/ \E kept \in SUBSET local[a] : Cleanup(a, kept)

Next ==
  \E a \in Api : \/ Edit(a) \/ Publication(a) \/ Places(a)
                 \/ Crash(a) \/ CleanupCrash(a)
                 \/ ClaimLost(a) \/ ClaimFails(a) \/ CommitLost(a) \/ ReleaseFails(a)

Spec == Init /\ [][Next]_vars

-----------------------------------------------------------------------------
(* Properties.                                                             *)

\* The cluster keeps the place that a failed publication was to merge it into,
\* although it is to become a place of its own now.
Switched(c) == c \notin Merged /\ place[c] \in OldPlace

\* What a publication owes the plan of the batch.
Whole ==
  /\ \A c \in Published :
       /\ place[c] # None /\ row[place[c]] # "none"
       /\ c \in Merged => place[c] = target[c]
       /\ Switched(c) \/ Keys(Shown(c)) \subseteq photos[place[c]]
  /\ \A d \in Reviews :
       /\ review[d] # None
       /\ review[d].place = place[DraftCluster[d]]
       /\ Keys(links[d] \cap Assets(DraftCluster[d])) \subseteq review[d].photos

\* The step that publishes a batch leaves each cluster that is not skipped with a
\* place, a merged one with the place it names now, that shows its cover and its
\* gallery, and each complete review on that place with its photos, whatever failed
\* and was edited on the way.  It makes no place of a cluster that is switched from
\* merge to create after a failed publication, and adds no photo there.  And the
\* photos of a review draft that is left out, unlike those of the gallery, are
\* shown by nothing: src/README.md:108-110 says that they stay with the place.
PublishesWhole ==
  [][status # "published" /\ status' = "published" => Whole']_vars

\* Every photo that a place, deleted or not, or a review refers to is
\* registered and stored, through failed publications, retries and cleanups.
ReferencedIsStored ==
  \A k \in Key : Referenced(k) => k \in media \cap objects

\* A publication whose commit succeeded is not taken back, nor done again, by
\* the handler that did not learn of it.
PublishedIsFinal ==
  [][status = "published" => status' = "published"
                             /\ UNCHANGED <<clusterVars, draftVars, place, review>>]_vars

\* Two requests never publish one batch at the same time.
OnePublisher ==
  \A a, b \in Api : apc[a] = "copying" /\ apc[b] = "copying" => a = b

\* _publish_batch never finds a reservation missing: nothing that became
\* publishable after the claim slips in.
ReservationsHold ==
  status = "publishing" =>
    /\ \A c \in Published : place[c] = Reservation(c)
    /\ Reviews \subseteq reserved

\* A batch is left 'publishing', with no request that would publish or release it,
\* only by the death of the process that was publishing it, by a claim whose
\* answer is lost, or by a release that fails: not by a failed copy, by a
\* publication whose answer is lost, by a claim that is rolled back or by a second
\* request.
Stranded == status = "publishing" /\ \A a \in Api : apc[a] \notin {"copying", "failed"}

StrandedOnlyByFault ==
  [][~Stranded /\ Stranded' =>
       \E a \in Api : Crash(a) \/ ClaimLost(a) \/ ReleaseFails(a)]_vars

\* Places, reviews and the status of the batch change together, once.
Promise == INSTANCE Publication
  WITH released <- status = "published",
       made <- {c \in Cluster : row[c] # "none"},
       told <- {d \in Draft : review[d] # None}

ImplementsPublication == Promise!Spec
=============================================================================
