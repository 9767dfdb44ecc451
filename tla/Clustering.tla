------------------------------ MODULE Clustering ------------------------------
(***************************************************************************)
(* How the photos of an import batch come into clusters: the greedy scan   *)
(* of services/import_contract.py, which the worker runs in the transaction*)
(* of _replace_clusters, and the edits of the reviewer that move photos or *)
(* the point of a cluster (routers/imports.py and                          *)
(* services/import_cluster_assignments.py).  Who may edit when, the covers,*)
(* the drafts and photos without a position are left to ImportReview.      *)
(***************************************************************************)
EXTENDS Naturals, FiniteSets

CONSTANTS
  Photo,    (* photos, named by numbers in the order of their ids          *)
  Spot,     (* points a photo can have been taken at                       *)
  Dist,     (* haversine_meters                                            *)
  Total,    (* sum, of distances: a function of lists of them by photo     *)
  Radius,   (* CLUSTER_RADIUS_METERS                                       *)
  None,     (* no cluster, no point                                        *)
  MaxEdits  (* bound: edits of the reviewer                                *)

Distance == {Dist[s][t] : s, t \in Spot}

ASSUME ClusteringAssumption ==
  /\ Photo \subseteq Nat /\ None \notin Photo /\ None \notin Spot
  /\ Dist \in [Spot -> [Spot -> Nat]] /\ \A s \in Spot : Dist[s][s] = 0
  /\ \A S \in SUBSET Photo : \A d \in [S -> Distance] : Total[d] \in Nat
  /\ Radius \in Nat /\ MaxEdits \in Nat

\* A generated cluster id is named by a photo.
Cluster == Photo

VARIABLES
  at,         (* latitude and longitude of each photo                      *)
  status,     (* travel_import_batches.status                              *)
  processed,  (* photos with a processed_at                                *)
  excluded,   (* those that are excluded                                   *)
  clusterOf,  (* cluster_id of each photo                                  *)
  center,     (* latitude and longitude of each row of clusters            *)
  remaining,  (* cluster_points: remaining,                                *)
  passed,     (* ... its elements before index,                            *)
  members,    (* ... members,                                              *)
  seed,       (* ... the first of them,                                    *)
  found,      (* ... clusters                                              *)
  byHand,     (* history: photos put where they are without a check, or    *)
              (* whose cluster had its point put somewhere                 *)
  edits       (* edits so far                                              *)

scanVars == <<remaining, passed, members, seed, found>>
rowVars  == <<excluded, clusterOf, center, byHand>>
vars == <<at, status, processed, rowVars, scanVars, edits>>

Found == [seed : Photo, members : SUBSET Photo, center : Spot]

TypeOK ==
  /\ at \in [Photo -> Spot]
  /\ status \in {"draft", "scanning", "clustered", "failed", "ready"}
  /\ processed \subseteq Photo /\ excluded \subseteq processed
  /\ clusterOf \in [Photo -> Cluster \cup {None}]
  /\ center \in [Cluster -> Spot \cup {None}]
  /\ remaining \subseteq Photo /\ passed \subseteq remaining
  /\ members \subseteq Photo /\ seed \in Photo \cup {None}
  /\ found \subseteq Found
  /\ byHand \subseteq Photo /\ edits \in 0..MaxEdits

Init ==
  /\ at \in [Photo -> Spot]
  /\ status = "draft"
  /\ processed = {} /\ excluded = {}
  /\ clusterOf = [x \in Photo |-> None]
  /\ center = [c \in Cluster |-> None]
  /\ remaining = {} /\ passed = {} /\ members = {} /\ seed = None /\ found = {}
  /\ byHand = {} /\ edits = 0

-----------------------------------------------------------------------------
(* The geometry.                                                           *)

Cost(S, m) == Total[[x \in S |-> Dist[at[m]][at[x]]]]

\* choose_medoid
Medoid(S) ==
  CHOOSE m \in S : \A x \in S \ {m} :
    Cost(S, m) < Cost(S, x) \/ (Cost(S, m) = Cost(S, x) /\ m < x)

\* All of S are in the radius of its representative: the condition of
\* cluster_points and of validate_cluster_radius.
Fits(S) == LET m == Medoid(S) IN \A x \in S : Dist[at[m]][at[x]] <= Radius

Least(x, S) == x \in S /\ \A y \in S : x <= y

-----------------------------------------------------------------------------
(* The worker.                                                             *)

\* The photos that _replace_clusters clusters.
Points == processed \ excluded

\* New photos are uploaded and the job processes them: it excludes some (the
\* screenshots and duplicates) and goes on to cluster all there are.
StartScan(X, screened) ==
  /\ status \in {"draft", "failed"} /\ X \cap processed = {}
  /\ processed' = processed \cup X
  /\ excluded' = excluded \cup screened
  /\ status' = "scanning"
  /\ remaining' = processed' \ excluded'
  /\ passed' = {} /\ members' = {} /\ seed' = None /\ found' = {}
  /\ UNCHANGED <<at, clusterOf, center, byHand, edits>>

\* members = [remaining.pop(0)]; index = 0
Seed(x) ==
  /\ status = "scanning" /\ members = {} /\ Least(x, remaining)
  /\ members' = {x} /\ seed' = x
  /\ remaining' = remaining \ {x} /\ passed' = {}
  /\ UNCHANGED <<at, status, processed, rowVars, found, edits>>

\* remaining[index], if index < len(remaining)
Candidate(x) ==
  status = "scanning" /\ members # {} /\ Least(x, remaining \ passed)

\* Mutant: the scan starts over when a photo has joined.
JoinRestarts(x) ==
  /\ Candidate(x) /\ Fits(members \cup {x})
  /\ members' = members \cup {x} /\ remaining' = remaining \ {x} /\ passed' = {}
  /\ UNCHANGED <<at, status, processed, rowVars, seed, found, edits>>
\* The candidate fits: members.append(remaining.pop(index)).
Join(x) ==
  /\ Candidate(x) /\ Fits(members \cup {x})
  /\ members' = members \cup {x} /\ remaining' = remaining \ {x}
  /\ UNCHANGED <<at, status, processed, rowVars, passed, seed, found, edits>>

\* It does not: index += 1.
Pass(x) ==
  /\ Candidate(x) /\ ~Fits(members \cup {x})
  /\ passed' = passed \cup {x}
  /\ UNCHANGED <<at, status, processed, rowVars, remaining, members, seed, found, edits>>

\* clusters.append((representative, sorted(members)))
Close ==
  /\ status = "scanning" /\ members # {} /\ remaining = passed
  /\ found' = found \cup {[seed |-> seed, members |-> members, center |-> at[Medoid(members)]]}
  /\ members' = {} /\ seed' = None
  /\ UNCHANGED <<at, status, processed, rowVars, remaining, passed, edits>>

\* The locals of cluster_points are gone.
Leave == remaining' = {} /\ passed' = {} /\ members' = {} /\ seed' = None /\ found' = {}

\* cluster_id of a photo when the rows have been replaced.
ClusterAfter(x) ==
  IF \E f \in found : x \in f.members
  THEN (CHOOSE f \in found : x \in f.members).seed ELSE None

\* The transaction of _replace_clusters commits: the old rows are deleted and
\* those found inserted.
Replace ==
  /\ status = "scanning" /\ members = {} /\ remaining = {}
  /\ clusterOf' = [x \in Photo |-> ClusterAfter(x)]
  /\ center' = [c \in Cluster |-> IF \E f \in found : f.seed = c
                                  THEN (CHOOSE f \in found : f.seed = c).center ELSE None]
  /\ byHand' = {}
  /\ status' = "clustered"
  /\ Leave
  /\ UNCHANGED <<at, processed, excluded, edits>>

\* The job ends; it may fail in the scan (which is rolled back) or after it.
Finish ==
  /\ status = "clustered" /\ status' = "ready"
  /\ UNCHANGED <<at, processed, rowVars, scanVars, edits>>

Fail ==
  /\ status \in {"scanning", "clustered"} /\ status' = "failed"
  /\ Leave
  /\ UNCHANGED <<at, processed, rowVars, edits>>

-----------------------------------------------------------------------------
(* The reviewer.                                                           *)

Edit ==
  /\ status \in {"ready", "failed"}
  /\ edits < MaxEdits /\ edits' = edits + 1
  /\ UNCHANGED <<at, status, processed, scanVars>>

Members(C) == {x \in Photo : clusterOf[x] \in C}
Rows       == {c \in Cluster : center[c] # None}

\* generate_id: the id of a new row is one of no row; which does not matter.
Fresh(new) == Least(new, Cluster \ Rows)

Move(S, c) == clusterOf' = [x \in Photo |-> IF x \in S THEN c ELSE clusterOf[x]]

\* Mutant: only the photos that are shown are validated.
MergeShown(C, c) ==
  LET S == Members(C) \ excluded
  IN  /\ Edit
      /\ C \subseteq Rows /\ Cardinality(C) >= 2 /\ c \in C
      /\ S # {} /\ Fits(S)
      /\ Move(Members(C), c)
      /\ center' = [k \in Cluster |-> IF k = c THEN at[Medoid(S)]
                                      ELSE IF k \in C THEN None ELSE center[k]]
      /\ byHand' = byHand \ Members(C)
      /\ UNCHANGED excluded
\* merge_import_clusters, into the first of C in their order.
Merge(C, c) ==
  LET S == Members(C)
  IN  /\ Edit
      /\ C \subseteq Rows /\ Cardinality(C) >= 2 /\ c \in C
      /\ S # {} /\ Fits(S)
      /\ Move(S, c)
      /\ center' = [k \in Cluster |-> IF k = c THEN at[Medoid(S)]
                                      ELSE IF k \in C THEN None ELSE center[k]]
      /\ byHand' = byHand \ S
      /\ UNCHANGED excluded

\* split_import_cluster
Split(c, S, new) ==
  LET rest == Members({c}) \ S
  IN  /\ Edit
      /\ c \in Rows /\ Fresh(new)
      /\ S \subseteq Members({c}) /\ rest # {}
      /\ Fits(S) /\ Fits(rest)
      /\ Move(S, new)
      /\ center' = [center EXCEPT ![new] = at[Medoid(S)], ![c] = at[Medoid(rest)]]
      /\ byHand' = byHand \ Members({c})
      /\ UNCHANGED excluded

\* The clusters that are left with excluded photos only when S goes to c.
Emptied(S, c) ==
  {k \in {clusterOf[x] : x \in S} \ {c, None} : Members({k}) \ S \subseteq excluded}

\* The photos of S go to c, and the clusters of gone are deleted: their photos have
\* none then.
MoveFrom(S, c, gone) ==
  clusterOf' = [x \in Photo |-> IF x \in S THEN c
                               ELSE IF clusterOf[x] \in gone THEN None ELSE clusterOf[x]]

\* assign_assets_to_cluster and patch_import_asset check no distance, and the
\* cluster keeps its point.  It may be None: the photo leaves its cluster.
Assign(S, c, gone) ==
  /\ Edit
  /\ c \in Rows \cup {None} /\ S \subseteq processed
  /\ MoveFrom(S, c, gone)
  /\ center' = [k \in Cluster |-> IF k \in gone THEN None ELSE center[k]]
  /\ byHand' = byHand \cup S
  /\ UNCHANGED excluded

\* create_reassignment_cluster: the point of the new cluster is the mean of the
\* photos' coordinates, which here may be any spot.  So may the place that the
\* reviewer names to create_cluster_with_assets, for photos without a cluster.
Reassign(S, new, mean, gone) ==
  /\ Edit
  /\ Fresh(new) /\ S \subseteq processed
  /\ MoveFrom(S, new, gone)
  /\ center' = [k \in Cluster |-> IF k = new THEN mean
                                  ELSE IF k \in gone THEN None ELSE center[k]]
  /\ byHand' = byHand \cup S
  /\ UNCHANGED excluded

\* patch_import_cluster with a latitude or a longitude: no distance is checked.
PatchPoint(c, where) ==
  /\ Edit
  /\ c \in Rows
  /\ center' = [center EXCEPT ![c] = where]
  /\ byHand' = byHand \cup Members({c})
  /\ UNCHANGED <<excluded, clusterOf>>

\* patch_import_asset with a role: excluded photos stay in their cluster.
Exclude(x) ==
  /\ Edit
  /\ x \in processed
  /\ excluded' = IF x \in excluded THEN excluded \ {x} ELSE excluded \cup {x}
  /\ UNCHANGED <<clusterOf, center, byHand>>

-----------------------------------------------------------------------------
Selections == (SUBSET Photo) \ {{}}

Scan ==
  \/ \E X \in Selections : \E screened \in SUBSET X : StartScan(X, screened)
  \/ \E x \in Photo : Seed(x) \/ Join(x) \/ Pass(x)
  \/ Close \/ Replace \/ Finish \/ Fail

Review ==
  \/ \E C \in SUBSET Cluster, c \in Cluster : Merge(C, c)
  \/ \E c, new \in Cluster, S \in Selections : Split(c, S, new)
  \/ \E S \in Selections, c \in Cluster \cup {None} :
       \E gone \in {{}, Emptied(S, c)} : Assign(S, c, gone)
  \/ \E S \in Selections, new \in Cluster, mean \in Spot :
       \E gone \in {{}, Emptied(S, new)} : Reassign(S, new, mean, gone)
  \/ \E c \in Cluster, where \in Spot : PatchPoint(c, where)
  \/ \E x \in Photo : Exclude(x)

Next == Scan \/ Review

Spec == Init /\ [][Next]_vars

-----------------------------------------------------------------------------
(* Properties.                                                             *)

Before(f) == UNION {g.members : g \in {g \in found : g.seed < f.seed}}

\* No photo is lost and none is in two clusters.
EachPhotoOnce ==
  /\ Points = remaining \cup members \cup UNION {f.members : f \in found}
  /\ remaining \cap members = {}
  /\ \A f \in found : f.members \cap (remaining \cup members) = {}
  /\ \A f, g \in found : f # g => f.members \cap g.members = {}

\* What cluster_points computes, said without its loops: a cluster starts with
\* the smallest id the clusters before it leave, and then holds exactly those
\* photos that fit together with its members of smaller ids.  (It is not the
\* best clustering: a photo that was passed is not tried again.)
FirstFit ==
  status = "scanning" =>
    /\ EachPhotoOnce
    /\ \A f \in found :
         /\ Least(f.seed, Points \ Before(f)) /\ f.seed \in f.members
         /\ \A x \in Points \ (Before(f) \cup {f.seed}) :
              x \in f.members <=> Fits({m \in f.members : m < x} \cup {x})

\* A photo is in the radius of the point of its cluster, and this row is there,
\* through all merges, splits, exclusions, deletions of emptied clusters, failed
\* runs and clusterings anew.  Two kinds of edit check nothing and are excepted,
\* until the photo is merged, split or clustered again: the reviewer put the photo
\* there by hand, or gave the point of its cluster by hand.
NearUnlessByHand ==
  \A x \in Photo \ byHand : clusterOf[x] # None =>
    /\ center[clusterOf[x]] # None
    /\ Dist[center[clusterOf[x]]][at[x]] <= Radius
=============================================================================
