---------------------------- MODULE ImportReview ----------------------------
(***************************************************************************)
(* The review of one import batch: the rows of its photos, clusters and    *)
(* review drafts, and the requests that move photos between clusters,      *)
(* choose covers, merge and split clusters and write drafts                *)
(* (routers/imports.py, services/import_cluster_assignments.py and         *)
(* services/import_review_drafts.py), with the worker's transactions on    *)
(* the same rows (services/import_processor.py).                           *)
(*                                                                         *)
(* Every request locks the row of the batch first and commits once, so it  *)
(* is one action: a sequence of SQL statements, each an operator from rows *)
(* to rows. A request that answers with an error rolls back and is no      *)
(* step. The manifest and the job rows are those of ImportJobs.            *)
(***************************************************************************)
EXTENDS FiniteSets, FiniteSetsExt, Naturals

CONSTANTS
  Asset,       (* the asset rows of the batch                              *)
  Cluster,     (* identifiers of clusters                                  *)
  Draft,       (* identifiers of review drafts                             *)
  None,        (* SQL NULL                                                 *)
  Screenshot,  (* assets that may be screenshots or archives               *)
  Duplicate,   (* assets whose bytes are those of another                  *)
  Located,     (* assets whose metadata has a position                     *)
  Fits,        (* the sets of located assets that fit one cluster radius   *)
  Captured,    (* the capture time of each asset, None if it has none      *)
  JobFails     (* whether jobs may fail or be interrupted                  *)

Typed == 0     \* a visited_at that the reviewer typed; capture times are later

ASSUME ReviewConstants ==
  /\ None \notin Asset \cup Cluster \cup Draft \cup Nat
  /\ IsFiniteSet(Asset)
  /\ Screenshot \subseteq Asset /\ Duplicate \subseteq Asset /\ Located \subseteq Asset
  /\ Fits \subseteq SUBSET Located /\ {} \notin Fits
  /\ Captured \in [Asset -> (Nat \ {0}) \cup {None}]
  /\ JobFails \in BOOLEAN

VARIABLES
  status,        (* travel_import_batches.status                           *)
  processed,     (* assets with processed_at set                           *)
  full,          (* requires_full_processing of the run                    *)
  screens,       (* assets whose classification is screenshot or archive   *)
  role,          (* travel_import_assets.role                              *)
  excluded,      (* assets with travel_import_assets.excluded set          *)
  clusterOf,     (* travel_import_assets.cluster_id                        *)
  clusters,      (* the rows of travel_import_clusters                     *)
  rep,           (* their representative_asset_id                          *)
  draftCluster,  (* travel_import_review_drafts.cluster_id, None: no row   *)
  visited,       (* their visited_at                                       *)
  link           (* travel_import_review_draft_assets.draft_id by asset    *)

jobVars  == <<status, processed, full, screens>>
rowVars  == <<role, excluded, clusterOf, clusters, rep, draftCluster, visited, link>>
vars     == <<jobVars, rowVars>>

Role == {"cover", "gallery", "review", "excluded"}

TypeOK ==
  /\ status \in {"draft", "processing", "ready", "failed"}
  /\ processed \subseteq Asset
  /\ full \in BOOLEAN
  /\ screens \subseteq Screenshot \cap processed
  /\ role \in [Asset -> Role]
  /\ excluded \subseteq Asset
  /\ clusterOf \in [Asset -> Cluster \cup {None}]
  /\ clusters \subseteq Cluster
  /\ rep \in [Cluster -> Asset \cup {None}]
  /\ draftCluster \in [Draft -> Cluster \cup {None}]
  /\ visited \in [Draft -> Nat \cup {None}]
  /\ link \in [Asset -> Draft \cup {None}]

\* A batch whose files have been uploaded.
Init ==
  /\ status = "draft"
  /\ processed = {}
  /\ full = FALSE
  /\ screens = {}
  /\ role = [a \in Asset |-> "gallery"]
  /\ excluded = {}
  /\ clusterOf = [a \in Asset |-> None]
  /\ clusters = {}
  /\ rep = [c \in Cluster |-> None]
  /\ draftCluster = [d \in Draft |-> None]
  /\ visited = [d \in Draft |-> None]
  /\ link = [a \in Asset |-> None]

-----------------------------------------------------------------------------
(* The statements of the transactions.                                     *)

Rows == [role |-> role, excluded |-> excluded, clusterOf |-> clusterOf, clusters |-> clusters,
         rep |-> rep, draftCluster |-> draftCluster, visited |-> visited, link |-> link]

Commit(r) ==
  /\ role' = r.role
  /\ excluded' = r.excluded
  /\ clusterOf' = r.clusterOf
  /\ clusters' = r.clusters
  /\ rep' = r.rep
  /\ draftCluster' = r.draftCluster
  /\ visited' = r.visited
  /\ link' = r.link

MembersIn(r, C) == {a \in Asset : r.clusterOf[a] \in C}

SetRole(r, S, x) ==
  [r EXCEPT !.role = [a \in Asset |-> IF a \in S THEN x ELSE r.role[a]],
            !.excluded = IF x = "excluded" THEN r.excluded \cup S ELSE r.excluded \ S]

Place(r, S, c) ==
  [r EXCEPT !.clusterOf = [a \in Asset |-> IF a \in S THEN c ELSE r.clusterOf[a]]]

InsertCluster(r, c) ==
  [r EXCEPT !.clusters = r.clusters \cup {c}, !.rep[c] = None]

\* DELETE of clusters: the foreign keys delete their drafts, and these their links.
DropClusters(r, C) ==
  LET gone == {d \in Draft : r.draftCluster[d] \in C}
  IN  [r EXCEPT
        !.clusters = r.clusters \ C,
        !.rep = [c \in Cluster |-> IF c \in C THEN None ELSE r.rep[c]],
        !.draftCluster = [d \in Draft |-> IF d \in gone THEN None ELSE r.draftCluster[d]],
        !.visited = [d \in Draft |-> IF d \in gone THEN None ELSE r.visited[d]],
        !.link = [a \in Asset |-> IF r.link[a] \in gone THEN None ELSE r.link[a]]]

\* Mutant: the representative is kept wherever the photo goes.
ClearMovedRepresentativesNot(r, S, keep) == r
\* _clear_moved_asset_representatives: all but the destination forget the assets.
ClearMovedRepresentatives(r, S, keep) ==
  [r EXCEPT !.rep = [c \in Cluster |-> IF r.rep[c] \in S /\ c # keep THEN None
                                       ELSE r.rep[c]]]

\* The UPDATE of one cluster (if any) by which it forgets that a represents it.
ForgetRepresentative(r, c, a) ==
  IF c # None /\ r.rep[c] = a THEN [r EXCEPT !.rep[c] = None] ELSE r

DemoteCovers(r, S) ==
  [r EXCEPT !.role = [a \in Asset |-> IF a \in S /\ r.role[a] = "cover" THEN "gallery"
                                      ELSE r.role[a]]]

\* synchronize_cluster_representative: a (or nothing) becomes the cover of c.
Synchronize(r, c, a) ==
  LET members  == MembersIn(r, {c})
      demoted  == DemoteCovers(r, members \ {a})
      promoted == IF a \in members THEN SetRole(demoted, {a}, "cover") ELSE demoted
  IN  [promoted EXCEPT !.rep[c] = a]

\* What metadata extraction has found so far.
Dates(r, d) == {Captured[a] : a \in {b \in processed : r.link[b] = d /\ Captured[b] # None}}

\* refresh_review_draft_visited_at: the oldest capture, if any photo has one.
RefreshVisited(r, D) ==
  [r EXCEPT !.visited = [d \in Draft |-> IF d \in D /\ Dates(r, d) # {} THEN Min(Dates(r, d))
                                         ELSE r.visited[d]]]

DraftsOf(r, S) == {r.link[a] : a \in S} \ {None}

\* Mutant: a destination keeps every link.
DetachUnlessMoved(r, S, keep) ==
  RefreshVisited([r EXCEPT !.link = [a \in Asset |-> IF a \in S /\ keep = None THEN None
                                                     ELSE r.link[a]]], DraftsOf(r, S))
\* detach_review_assets: a photo keeps its draft only in the draft's own cluster.
Detach(r, S, keep) ==
  LET kept(a) == keep # None /\ r.link[a] # None /\ r.draftCluster[r.link[a]] = keep
  IN  RefreshVisited([r EXCEPT !.link = [a \in Asset |-> IF a \in S /\ ~kept(a) THEN None
                                                         ELSE r.link[a]]], DraftsOf(r, S))

\* Mutant: the drafts that lose a photo to d keep their date.
RedatedOnly(r, d, S) == {d}
\* The drafts whose photos change when d gets the photos S.
Redated(r, d, S) == {d} \cup DraftsOf(r, S)

SetReviewRole(r, S)     == SetRole(r, S, "review")

\* _replace_review_draft_assets: d gets the photos S, also those of other drafts.
Link(r, d, S) ==
  LET linked == [a \in Asset |-> IF a \in S THEN d ELSE IF r.link[a] = d THEN None ELSE r.link[a]]
  IN  RefreshVisited(SetReviewRole([r EXCEPT !.link = linked], S), Redated(r, d, S))

Emptied(r, C) == {c \in C : \A a \in MembersIn(r, {c}) : r.role[a] = "excluded"}
\* delete_empty_source_clusters.
DeleteEmpty(r, C, requested) ==
  LET E == Emptied(r, C)
  IN  IF requested THEN DropClusters(Place(r, MembersIn(r, E), None), E) ELSE r

-----------------------------------------------------------------------------
(* The requests of the reviewer, all under _lock_draft_mutation.           *)

Mutable == status \in {"draft", "failed", "ready"}

Sources(S)     == {clusterOf[a] : a \in S} \ {None}
CoversAmong(S) == {a \in S : role[a] = "cover"}
\* The cover that a request brings along; None if there is none.
CoverOf(S)     == IF CoversAmong(S) = {} THEN None ELSE CHOOSE a \in S : role[a] = "cover"

\* assign_assets_to_cluster
AssignAssets(c, S, deleteEmpty) ==
  /\ Mutable
  /\ c \in clusters
  /\ Cardinality(CoversAmong(S)) <= 1
  /\ LET placed   == Place(ClearMovedRepresentatives(Rows, S, c), S, c)
         detached == Detach(placed, S, c)
         covered  == IF CoverOf(S) = None THEN detached ELSE Synchronize(detached, c, CoverOf(S))
     IN  Commit(DeleteEmpty(covered, Sources(S) \ {c}, deleteEmpty))
  /\ UNCHANGED jobVars

\* unassign_assets
UnassignAssets(S, deleteEmpty) ==
  /\ Mutable
  /\ LET placed == Place(ClearMovedRepresentatives(Rows, S, None), S, None)
     IN  Commit(DeleteEmpty(Detach(placed, S, None), Sources(S), deleteEmpty))
  /\ UNCHANGED jobVars

\* create_reassignment_cluster
ReassignToNewCluster(c, S, deleteEmpty) ==
  /\ Mutable
  /\ c \notin clusters
  /\ Cardinality(CoversAmong(S)) <= 1
  /\ S \subseteq Located \cap processed
  /\ LET inserted == InsertCluster(ClearMovedRepresentatives(Rows, S, None), c)
         detached == Detach(Place(inserted, S, c), S, c)
         covered  == Synchronize(detached, c, CoverOf(S))
     IN  Commit(DeleteEmpty(covered, Sources(S), deleteEmpty))
  /\ UNCHANGED jobVars

\* create_cluster_with_assets; a is the representativeAssetId of the request.
CreateCluster(c, S, a) ==
  /\ Mutable
  /\ c \notin clusters
  /\ Sources(S) = {}
  /\ Cardinality(CoversAmong(S)) <= 1
  /\ a # None => a \in S /\ role[a] \in {"gallery", "cover"}
  /\ Commit(Synchronize(Place(InsertCluster(Rows, c), S, c), c,
                        IF a = None THEN CoverOf(S) ELSE a))
  /\ UNCHANGED jobVars

\* patch_import_asset; x = None leaves the role and moves = FALSE the cluster.
PatchAsset(a, x, moves, c, deleteEmpty) ==
  LET source  == clusterOf[a]
      target  == IF moves THEN c ELSE source
      newRole == IF x = None THEN role[a] ELSE x
      patched == IF x = None THEN Rows ELSE SetRole(Rows, {a}, x)
      placed  == IF moves THEN ForgetRepresentative(Place(patched, {a}, c),
                                                    IF c # source THEN source ELSE None, a)
                          ELSE patched
      covered == IF newRole = "cover" /\ target # None THEN Synchronize(placed, target, a)
                 ELSE IF x # None THEN ForgetRepresentative(placed, target, a)
                 ELSE placed
      keep     == IF newRole = "review" THEN target ELSE None
      detached == IF moves \/ x \notin {None, "review"} THEN Detach(covered, {a}, keep)
                                                       ELSE covered
      removed  == source # None /\ (target # source \/ newRole = "excluded")
  IN  /\ Mutable
      /\ ~(x \notin {None, "excluded"} /\ a \in screens)
      /\ moves => c \in clusters \cup {None}
      /\ Commit(DeleteEmpty(detached, {source}, removed /\ deleteEmpty))
      /\ UNCHANGED jobVars

\* patch_import_cluster with a representativeAssetId (None clears it).
SetRepresentative(c, a) ==
  /\ Mutable
  /\ c \in clusters
  /\ a # None => clusterOf[a] = c /\ role[a] \in {"gallery", "cover"}
  /\ Commit(Synchronize(Rows, c, a))
  /\ UNCHANGED jobVars

\* validate_cluster_radius accepts the points of these assets.
OneRadius(S) == S \in Fits /\ S \subseteq processed

\* Mutant: the drafts stay with their clusters, which are deleted.
MoveDraftsNot(r, C, c) == r
\* _move_cluster_review_drafts
MoveDrafts(r, C, c) ==
  [r EXCEPT !.draftCluster = [d \in Draft |-> IF r.draftCluster[d] \in C THEN c
                                              ELSE r.draftCluster[d]]]

\* merge_import_clusters; c is the first of them in sort order.
MergeClusters(C, c) ==
  /\ Mutable
  /\ C \subseteq clusters /\ Cardinality(C) >= 2 /\ c \in C
  /\ OneRadius(MembersIn(Rows, C))
  /\ LET kept   == IF rep[c] \in MembersIn(Rows, C) THEN rep[c] ELSE None
         moved  == Synchronize(Place(Rows, MembersIn(Rows, C), c), c, kept)
     IN  Commit(DropClusters(MoveDrafts(moved, C, c), C \ {c}))
  /\ UNCHANGED jobVars

\* split_import_cluster
SplitCluster(c, S, new) ==
  LET remaining == MembersIn(Rows, {c}) \ S
      placed    == Detach(Place(InsertCluster(Rows, new), S, new), S, None)
  IN  /\ Mutable
      /\ c \in clusters /\ new \notin clusters
      /\ S \subseteq MembersIn(Rows, {c})
      /\ OneRadius(S) /\ OneRadius(remaining)
      /\ Commit(Synchronize(Synchronize(placed, new, None), c,
                            IF rep[c] \in remaining THEN rep[c] ELSE None))
      /\ UNCHANGED jobVars

\* create_import_review_draft; typed tells whether the request has a visitedAt.
CreateDraft(d, c, S, typed) ==
  /\ Mutable
  /\ c \in clusters /\ draftCluster[d] = None
  /\ S \subseteq MembersIn(Rows, {c})
  /\ Commit(Link([Rows EXCEPT !.draftCluster[d] = c,
                              !.visited[d] = IF typed THEN Typed ELSE None], d, S))
  /\ UNCHANGED jobVars

\* patch_import_review_draft with assetIds, with a visitedAt, or with both.
PatchDraft(d, S, typed) ==
  /\ Mutable
  /\ draftCluster[d] # None
  /\ S \subseteq MembersIn(Rows, {draftCluster[d]})
  /\ Commit(Link([Rows EXCEPT !.visited[d] = IF typed THEN Typed ELSE visited[d]], d, S))
  /\ UNCHANGED jobVars

TypeVisited(d) ==
  /\ Mutable
  /\ draftCluster[d] # None
  /\ Commit([Rows EXCEPT !.visited[d] = Typed])
  /\ UNCHANGED jobVars

\* delete_import_review_draft
DeleteDraft(d) ==
  /\ Mutable
  /\ draftCluster[d] # None
  /\ Commit([Rows EXCEPT !.draftCluster[d] = None, !.visited[d] = None,
                         !.link = [a \in Asset |-> IF link[a] = d THEN None ELSE link[a]]])
  /\ UNCHANGED jobVars

-----------------------------------------------------------------------------
(* The worker on the same rows (its jobs and claims are those of ImportJobs). *)

\* The batch is claimed for the first time, after a failure, or again after the
\* worker that had it died; the assets are loaded.
StartRun ==
  /\ status \in {"draft", "failed"} \cup (IF JobFails THEN {"processing"} ELSE {})
  /\ status' = "processing"
  /\ full' = (processed # Asset)
  /\ UNCHANGED <<processed, screens, rowVars>>

\* _process_asset
ProcessAsset(a) ==
  /\ status = "processing"
  /\ a \notin processed
  /\ processed' = processed \cup {a}
  /\ screens' = screens \/ (a \in Screenshot /\ screens' = screens \cup {a})
  /\ Commit(SetRole(Rows, {a}, IF a \in screens' \cup Duplicate THEN "excluded" ELSE "gallery"))
  /\ UNCHANGED <<status, full>>

\* _replace_clusters: the included photos with a position are clustered anew.
Clusterable == (Located \ screens) \ excluded

ReplaceClusters ==
  /\ status = "processing" /\ full /\ processed = Asset
  /\ full' = FALSE
  /\ \E f \in [Clusterable -> Cluster] :
       /\ \A a \in Clusterable : {b \in Clusterable : f[b] = f[a]} \in Fits
       /\ LET new    == {f[a] : a \in Clusterable}
              empty  == DropClusters(Place(Rows, Asset, None), clusters)
              placed == [empty EXCEPT !.clusters = new,
                                      !.clusterOf = [a \in Asset |-> IF a \in Clusterable
                                                                      THEN f[a] ELSE None],
                                      !.role = [a \in Asset |-> IF a \in Clusterable
                                                                 THEN "gallery" ELSE role[a]]]
          IN  Commit(placed)
  /\ UNCHANGED <<status, processed, screens>>

\* _persist_manifest; the early return comes here with the clusters it found.
FinishRun ==
  /\ status = "processing" /\ ~full /\ processed = Asset
  /\ status' = "ready"
  /\ UNCHANGED <<processed, full, screens, rowVars>>

FailRun ==
  /\ JobFails
  /\ status = "processing"
  /\ status' = "failed"
  /\ UNCHANGED <<processed, full, screens, rowVars>>

-----------------------------------------------------------------------------
Selections == (SUBSET Asset) \ {{}}

MoveAssets ==
  \/ \E c \in Cluster, S \in Selections, del \in BOOLEAN : AssignAssets(c, S, del)
  \/ \E S \in Selections, del \in BOOLEAN : UnassignAssets(S, del)
  \/ \E c \in Cluster, S \in Selections, del \in BOOLEAN : ReassignToNewCluster(c, S, del)
  \/ \E c \in Cluster, S \in Selections, a \in Asset \cup {None} : CreateCluster(c, S, a)
  \/ \E a \in Asset, x \in Role, del \in BOOLEAN : PatchAsset(a, x, FALSE, None, del)
  \/ \E a \in Asset, x \in Role \cup {None}, c \in Cluster \cup {None}, del \in BOOLEAN :
       PatchAsset(a, x, TRUE, c, del)

EditClusters ==
  \/ \E c \in Cluster, a \in Asset \cup {None} : SetRepresentative(c, a)
  \/ \E C \in SUBSET Cluster, c \in Cluster : MergeClusters(C, c)
  \/ \E c, new \in Cluster, S \in Selections : SplitCluster(c, S, new)

EditDrafts ==
  \/ \E d \in Draft, c \in Cluster, S \in SUBSET Asset, typed \in BOOLEAN :
       CreateDraft(d, c, S, typed)
  \/ \E d \in Draft, S \in SUBSET Asset, typed \in BOOLEAN : PatchDraft(d, S, typed)
  \/ \E d \in Draft : TypeVisited(d)
  \/ \E d \in Draft : DeleteDraft(d)

RunJob ==
  \/ StartRun
  \/ \E a \in Asset : ProcessAsset(a)
  \/ ReplaceClusters
  \/ FinishRun
  \/ FailRun

Next == MoveAssets \/ EditClusters \/ EditDrafts \/ RunJob

Spec == Init /\ [][Next]_vars

-----------------------------------------------------------------------------
(* Invariants.                                                             *)

\* The clusters that photos, and the drafts that links, refer to exist: there is
\* no foreign key from the photos to their cluster.
NoDanglingCluster ==
  /\ \A a \in Asset : clusterOf[a] \in clusters \cup {None}
  /\ \A d \in Draft : draftCluster[d] \in clusters \cup {None}

\* A photo belongs to a review draft of its own cluster or to none, whichever
\* request last moved the photo, its cluster or the draft.
LinkInCluster ==
  \A a \in Asset : link[a] # None =>
    draftCluster[link[a]] # None /\ draftCluster[link[a]] = clusterOf[a]

\* A photo with the role of a cover is what its cluster calls its representative,
\* so no cluster has two covers and publication finds the one that was chosen.
CoverIsRepresentative ==
  \A a \in Asset : role[a] = "cover" /\ clusterOf[a] # None => rep[clusterOf[a]] = a

\* The representative of a cluster is one of its photos, and no row that is gone
\* leaves one behind.
RepresentativeInCluster ==
  \A c \in Cluster : rep[c] # None => clusterOf[rep[c]] = c

\* The two columns that exclude a photo from publication agree.
ExclusionAgrees == \A a \in Asset : a \in excluded <=> role[a] = "excluded"

\* After any sequence of edits and of jobs that fail and are retried, the columns
\* and rows that say the same thing twice agree.
RowsAgree ==
  /\ TypeOK
  /\ NoDanglingCluster
  /\ CoverIsRepresentative
  /\ RepresentativeInCluster
  /\ ExclusionAgrees

PhotosOf(d) == {a \in Asset : link[a] = d}

\* Whatever changes the photos of a draft leaves it the date of the oldest of them,
\* whatever date the reviewer typed before or with them, also in the draft that a
\* photo leaves for another draft or cluster.  (A resumed run that reads the photos
\* of a draft later leaves the date as it is, until its photos change.)
DatesFollowPhotos ==
  [][link' # link =>
       \A d \in Draft : PhotosOf(d)' # PhotosOf(d) /\ Dates(Rows, d)' # {}
        => visited'[d] = Min(Dates(Rows, d)')]_vars

Merged == \E C \in SUBSET clusters : \E c \in C : MergeClusters(C, c)

\* Merging clusters keeps all their drafts and all the photos of these.
MergeKeepsDrafts ==
  [][~(clusters \subseteq clusters') /\ Merged =>
       /\ link' = link
       /\ \A d \in Draft : draftCluster[d] # None => draftCluster'[d] # None]_vars
=============================================================================
