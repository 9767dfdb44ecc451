-------------------------- MODULE ImportReviewProofs --------------------------
(***************************************************************************)
(* Proofs about ImportReview, for any number of photos, clusters and       *)
(* drafts.  What RowsAgree and LinkInCluster say holds of the rows between *)
(* two statements of a request but for the photos and the cluster that the *)
(* request is about: each operator from rows to rows has a lemma that says *)
(* what it repairs and what it leaves alone, and a request composes them.  *)
(***************************************************************************)
EXTENDS ImportReview, FiniteSetTheorems, WellFoundedInduction, TLAPS

RowSet ==
  [role : [Asset -> Role], excluded : SUBSET Asset,
   clusterOf : [Asset -> Cluster \cup {None}], clusters : SUBSET Cluster,
   rep : [Cluster -> Asset \cup {None}], draftCluster : [Draft -> Cluster \cup {None}],
   visited : [Draft -> Nat \cup {None}], link : [Asset -> Draft \cup {None}]]

\* The parts of the invariant, as predicates of rows.
NoneDangling(r) ==
  /\ \A a \in Asset : r.clusterOf[a] \in r.clusters \cup {None}
  /\ \A d \in Draft : r.draftCluster[d] \in r.clusters \cup {None}

\* ... except for the covers and the representatives of the clusters of X,
CoversBut(r, X) ==
  \A a \in Asset : r.role[a] = "cover" /\ r.clusterOf[a] # None /\ r.clusterOf[a] \notin X
    => r.rep[r.clusterOf[a]] = a

RepsBut(r, X) ==
  \A c \in Cluster \ X : r.rep[c] # None => r.clusterOf[r.rep[c]] = c

Excludes(r) == \A a \in Asset : a \in r.excluded <=> r.role[a] = "excluded"

CoveredBut(r, X) ==
  /\ r \in RowSet
  /\ NoneDangling(r) /\ CoversBut(r, X) /\ RepsBut(r, X) /\ Excludes(r)

\* ... except for the links of the photos S.
LinksBut(r, S) ==
  \A a \in Asset \ S : r.link[a] # None =>
    r.draftCluster[r.link[a]] # None /\ r.draftCluster[r.link[a]] = r.clusterOf[a]

Sound(r) == CoveredBut(r, {}) /\ LinksBut(r, {})

\* The dates of the drafts whose photos are others than in p.
DatedSince(p, r) ==
  \A d \in Draft :
    (\E a \in Asset : (p.link[a] = d) # (r.link[a] = d)) /\ Dates(r, d) # {}
      => r.visited[d] = Min(Dates(r, d))

\* The two rows have the same photos in the same drafts with the same dates.
SameDrafts(p, r) ==
  p.draftCluster = r.draftCluster /\ p.visited = r.visited /\ p.link = r.link

-----------------------------------------------------------------------------
(* The constants, and the oldest capture of a draft.                       *)

LEMMA Constants ==
  /\ None \notin Asset /\ None \notin Cluster /\ None \notin Draft /\ None \notin Nat
  /\ IsFiniteSet(Asset)
  /\ Captured \in [Asset -> (Nat \ {0}) \cup {None}]
  /\ Located \subseteq Asset
  /\ Role = {"cover", "gallery", "review", "excluded"}
  BY ReviewConstants DEF Role

NatLess == {p \in Nat \X Nat : p[1] < p[2]}

LEMMA LeastNumber ==
  ASSUME NEW T \in SUBSET Nat, T # {}
  PROVE  \E x \in T : \A y \in T : x <= y
  <1>1. IsWellFoundedOn(NatLess, Nat) BY NatLessThanWellFounded DEF OpToRel, NatLess
  <1>2. PICK x \in T : \A y \in T : <<y, x>> \notin NatLess BY <1>1, WFMin
  <1>3. \A y \in T : ~(y < x) BY <1>2 DEF NatLess
  <1> QED BY <1>3

\* The date of a draft with a dated photo is a capture time.
LEMMA OldestDate ==
  ASSUME processed \in SUBSET Asset, NEW r, NEW d, Dates(r, d) # {}
  PROVE  Min(Dates(r, d)) \in Nat
  <1> DEFINE T == Dates(r, d)
  <1>1. T \in SUBSET Nat
    BY Constants DEF Dates
  <1>2. T # {} OBVIOUS
  <1> HIDE DEF T
  <1>3. PICK x \in T : \A y \in T : x <= y BY <1>1, <1>2, LeastNumber
  <1>4. Min(T) \in T BY <1>3 DEF Min
  <1>5. Min(T) \in Nat BY <1>1, <1>4
  <1> QED BY <1>5 DEF T

\* A selection with at most one cover brings along that one.
LEMMA OneCover ==
  ASSUME TypeOK, NEW S \in SUBSET Asset, Cardinality(CoversAmong(S)) <= 1
  PROVE  /\ CoverOf(S) \in S \cup {None}
         /\ \A a \in S : role[a] = "cover" => a = CoverOf(S)
  <1> DEFINE T == CoversAmong(S)
  <1>1. T \in SUBSET Asset BY DEF CoversAmong
  <1>2. IsFiniteSet(T) /\ Cardinality(T) <= 1 BY <1>1, Constants, FS_Subset
  <1>3. Cardinality(T) \in Nat BY <1>2, FS_CardinalityType
  <1>4. Cardinality(T) = 0 \/ Cardinality(T) = 1 BY <1>2, <1>3
  <1>5. CASE Cardinality(T) = 0
    <2>1. T = {} BY <1>2, <1>5, FS_EmptySet
    <2> QED BY <2>1 DEF CoversAmong, CoverOf
  <1>6. CASE Cardinality(T) = 1
    <2>1. PICK x : T = {x} BY <1>2, <1>6, FS_Singleton
    <2>2. x \in S /\ role[x] = "cover" /\ \A a \in S : role[a] = "cover" => a = x
      BY <2>1 DEF CoversAmong
    <2>3. CoverOf(S) = CHOOSE a \in S : role[a] = "cover" BY <2>1 DEF CoverOf
    <2>4. CoverOf(S) = x BY <2>2, <2>3
    <2> QED BY <2>2, <2>4
  <1> QED BY <1>4, <1>5, <1>6

-----------------------------------------------------------------------------
(* What the statements change.                                             *)

LEMMA SetRoleRows ==
  ASSUME NEW r \in RowSet, NEW S \in SUBSET Asset, NEW x \in Role, NEW q, q = SetRole(r, S, x)
  PROVE  /\ q \in RowSet
         /\ q.clusterOf = r.clusterOf /\ q.clusters = r.clusters /\ q.rep = r.rep
         /\ SameDrafts(r, q)
         /\ \A a \in Asset : q.role[a] = IF a \in S THEN x ELSE r.role[a]
         /\ Excludes(r) => Excludes(q)
  BY DEF SetRole, RowSet, SameDrafts, Excludes

Placed(r, q, S, c) ==
  /\ q \in RowSet
  /\ q.role = r.role /\ q.excluded = r.excluded /\ q.clusters = r.clusters
  /\ q.rep = r.rep /\ SameDrafts(r, q)
  /\ \A a \in Asset : q.clusterOf[a] = IF a \in S THEN c ELSE r.clusterOf[a]

LEMMA PlaceRows ==
  ASSUME NEW r \in RowSet, NEW S \in SUBSET Asset, NEW c \in Cluster \cup {None},
         NEW q, q = Place(r, S, c)
  PROVE  Placed(r, q, S, c)
  BY DEF Place, RowSet, SameDrafts, Placed

LEMMA InsertClusterRows ==
  ASSUME NEW r \in RowSet, NEW c \in Cluster, NEW q, q = InsertCluster(r, c)
  PROVE  /\ q \in RowSet
         /\ q.role = r.role /\ q.excluded = r.excluded /\ q.clusterOf = r.clusterOf
         /\ q.clusters = r.clusters \cup {c} /\ SameDrafts(r, q)
         /\ \A k \in Cluster : q.rep[k] = IF k = c THEN None ELSE r.rep[k]
  BY DEF InsertCluster, RowSet, SameDrafts

LEMMA DropClustersRows ==
  ASSUME NEW r \in RowSet, NEW C \in SUBSET Cluster, NEW q, q = DropClusters(r, C)
  PROVE  /\ q \in RowSet
         /\ q.role = r.role /\ q.excluded = r.excluded /\ q.clusterOf = r.clusterOf
         /\ q.clusters = r.clusters \ C
         /\ \A k \in Cluster : q.rep[k] = IF k \in C THEN None ELSE r.rep[k]
         /\ \A d \in Draft : r.draftCluster[d] \in C => q.draftCluster[d] = None
         /\ \A d \in Draft : r.draftCluster[d] \notin C =>
              q.draftCluster[d] = r.draftCluster[d] /\ q.visited[d] = r.visited[d]
         /\ \A a \in Asset : q.link[a] = IF r.link[a] # None /\ r.draftCluster[r.link[a]] \in C
                                         THEN None ELSE r.link[a]
  BY Constants DEF DropClusters, RowSet

LEMMA ClearMovedRows ==
  ASSUME NEW r \in RowSet, NEW S \in SUBSET Asset, NEW keep,
         NEW q, q = ClearMovedRepresentatives(r, S, keep)
  PROVE  /\ q \in RowSet
         /\ q.role = r.role /\ q.excluded = r.excluded /\ q.clusterOf = r.clusterOf
         /\ q.clusters = r.clusters /\ SameDrafts(r, q)
         /\ \A k \in Cluster : q.rep[k] = IF r.rep[k] \in S /\ k # keep THEN None ELSE r.rep[k]
  BY Constants DEF ClearMovedRepresentatives, RowSet, SameDrafts

LEMMA ForgetRows ==
  ASSUME NEW r \in RowSet, NEW c \in Cluster \cup {None}, NEW a \in Asset,
         NEW q, q = ForgetRepresentative(r, c, a)
  PROVE  /\ q \in RowSet
         /\ q.role = r.role /\ q.excluded = r.excluded /\ q.clusterOf = r.clusterOf
         /\ q.clusters = r.clusters /\ SameDrafts(r, q)
         /\ \A k \in Cluster : q.rep[k] = IF k = c /\ r.rep[k] = a THEN None ELSE r.rep[k]
  BY Constants DEF ForgetRepresentative, RowSet, SameDrafts

LEMMA MoveDraftsRows ==
  ASSUME NEW r \in RowSet, NEW C \in SUBSET Cluster, NEW c \in Cluster,
         NEW q, q = MoveDrafts(r, C, c)
  PROVE  /\ q \in RowSet
         /\ q.role = r.role /\ q.excluded = r.excluded /\ q.clusterOf = r.clusterOf
         /\ q.clusters = r.clusters /\ q.rep = r.rep /\ q.visited = r.visited /\ q.link = r.link
         /\ \A d \in Draft : q.draftCluster[d] = IF r.draftCluster[d] \in C THEN c
                                                 ELSE r.draftCluster[d]
  BY Constants DEF MoveDrafts, RowSet

LEMMA RefreshRows ==
  ASSUME processed \in SUBSET Asset, NEW r \in RowSet, NEW D,
         NEW q, q = RefreshVisited(r, D)
  PROVE  /\ q \in RowSet
         /\ q.role = r.role /\ q.excluded = r.excluded /\ q.clusterOf = r.clusterOf
         /\ q.clusters = r.clusters /\ q.rep = r.rep /\ q.draftCluster = r.draftCluster
         /\ q.link = r.link
         /\ \A d \in Draft : Dates(q, d) = Dates(r, d)
         /\ \A d \in Draft : d \in D /\ Dates(r, d) # {} => q.visited[d] = Min(Dates(r, d))
  <1> DEFINE v == [d \in Draft |-> IF d \in D /\ Dates(r, d) # {} THEN Min(Dates(r, d))
                                   ELSE r.visited[d]]
  <1>1. v \in [Draft -> Nat \cup {None}] BY OldestDate DEF RowSet
  <1>2. \A d \in Draft : d \in D /\ Dates(r, d) # {} => v[d] = Min(Dates(r, d)) OBVIOUS
  <1>3. q = [r EXCEPT !.visited = v] BY DEF RefreshVisited
  <1> HIDE DEF v
  <1>4. /\ q \in RowSet
        /\ q.role = r.role /\ q.excluded = r.excluded /\ q.clusterOf = r.clusterOf
        /\ q.clusters = r.clusters /\ q.rep = r.rep /\ q.draftCluster = r.draftCluster
        /\ q.link = r.link /\ q.visited = v
    BY <1>1, <1>3 DEF RowSet
  <1>5. \A d \in Draft : Dates(q, d) = Dates(r, d) BY <1>4 DEF Dates
  <1> QED BY <1>2, <1>4, <1>5

-----------------------------------------------------------------------------
(* What the statements repair.                                             *)

Synchronized(r, q, X) ==
  /\ CoveredBut(q, X)
  /\ q.clusterOf = r.clusterOf /\ q.clusters = r.clusters /\ SameDrafts(r, q)

LEMMA SynchronizeSound ==
  ASSUME NEW r, NEW c \in Cluster, NEW a \in MembersIn(r, {c}) \cup {None},
         NEW X, CoveredBut(r, X), NEW q, q = Synchronize(r, c, a)
  PROVE  Synchronized(r, q, X \ {c})
  <1> DEFINE members == MembersIn(r, {c})
  <1>00. r \in RowSet BY DEF CoveredBut
  <1>0. members = {b \in Asset : r.clusterOf[b] = c} /\ a \in Asset \cup {None}
    BY DEF MembersIn
  <1>1. PICK p : p = DemoteCovers(r, members \ {a}) OBVIOUS
  <1>2. /\ p \in RowSet
        /\ p.excluded = r.excluded /\ p.clusterOf = r.clusterOf /\ p.clusters = r.clusters
        /\ p.rep = r.rep /\ SameDrafts(r, p)
        /\ \A b \in Asset : p.role[b] = IF b \in members \ {a} /\ r.role[b] = "cover"
                                        THEN "gallery" ELSE r.role[b]
    BY <1>00, <1>0, <1>1, Constants DEF DemoteCovers, RowSet, SameDrafts
  <1>3. Excludes(p) BY <1>2 DEF CoveredBut, Excludes
  <1>4. PICK w : w = IF a \in members THEN SetRole(p, {a}, "cover") ELSE p OBVIOUS
  <1>5. /\ w \in RowSet
        /\ w.clusterOf = r.clusterOf /\ w.clusters = r.clusters
        /\ w.rep = r.rep /\ SameDrafts(r, w) /\ Excludes(w)
        /\ \A b \in Asset : w.role[b] = IF b = a /\ b \in members THEN "cover" ELSE p.role[b]
    <2>1. CASE a \in members
      <3>1. {a} \in SUBSET Asset /\ "cover" \in Role BY <1>0, <2>1, Constants
      <3>2. w = SetRole(p, {a}, "cover") BY <1>4, <2>1
      <3>3. /\ w \in RowSet
            /\ w.clusterOf = p.clusterOf /\ w.clusters = p.clusters /\ w.rep = p.rep
            /\ SameDrafts(p, w) /\ Excludes(w)
            /\ \A b \in Asset : w.role[b] = IF b \in {a} THEN "cover" ELSE p.role[b]
        BY <1>2, <1>3, <3>1, <3>2, SetRoleRows
      <3> QED BY <1>2, <2>1, <3>3 DEF SameDrafts
    <2>2. CASE a \notin members
      BY <1>2, <1>3, <1>4, <2>2
    <2> QED BY <2>1, <2>2
  <1>6. q = [w EXCEPT !.rep[c] = a] BY <1>1, <1>4 DEF Synchronize
  <1>7. /\ q \in RowSet
        /\ q.role = w.role /\ q.excluded = w.excluded /\ q.clusterOf = r.clusterOf
        /\ q.clusters = r.clusters /\ SameDrafts(r, q)
        /\ \A k \in Cluster : q.rep[k] = IF k = c THEN a ELSE r.rep[k]
    BY <1>0, <1>5, <1>6 DEF RowSet, SameDrafts
  <1> HIDE DEF members
  <1>8. Excludes(q) BY <1>5, <1>7 DEF Excludes
  <1>9. CoversBut(q, X \ {c})
    <2> SUFFICES ASSUME NEW b \in Asset, q.role[b] = "cover", q.clusterOf[b] # None,
                        q.clusterOf[b] \notin X \ {c}
                 PROVE  q.rep[q.clusterOf[b]] = b
      BY DEF CoversBut
    <2>1. q.clusterOf[b] \in Cluster BY <1>7 DEF RowSet
    <2>2. CASE q.clusterOf[b] = c
      <3>1. b \in members BY <1>0, <1>7, <2>2
      <3>2. b = a BY <1>2, <1>5, <1>7, <3>1
      <3> QED BY <1>7, <2>1, <2>2, <3>2
    <2>3. CASE q.clusterOf[b] # c
      <3>1. b \notin members BY <1>0, <1>7, <2>3
      <3>2. r.role[b] = "cover" BY <1>2, <1>5, <1>7, <3>1
      <3> QED BY <1>7, <2>1, <2>3, <3>2 DEF CoveredBut, CoversBut
    <2> QED BY <2>2, <2>3
  <1>10. RepsBut(q, X \ {c})
    <2> SUFFICES ASSUME NEW k \in Cluster \ (X \ {c}), q.rep[k] # None
                 PROVE  q.clusterOf[q.rep[k]] = k
      BY DEF RepsBut
    <2>1. CASE k = c
      <3>1. a \in members BY <1>7, <2>1 DEF members
      <3> QED BY <1>0, <1>7, <2>1, <3>1
    <2>2. CASE k # c
      BY <1>7, <2>2 DEF CoveredBut, RepsBut
    <2> QED BY <2>1, <2>2
  <1>11. NoneDangling(q)
    BY <1>7 DEF CoveredBut, NoneDangling, SameDrafts
  <1> QED BY <1>7, <1>8, <1>9, <1>10, <1>11 DEF CoveredBut, Synchronized

\* A photo that leaves its cluster, or loses its role in it, leaves its draft.
LEMMA DetachSound ==
  ASSUME processed \in SUBSET Asset, NEW r \in RowSet, NEW S \in SUBSET Asset,
         NEW keep, \A a \in S : keep \in {None, r.clusterOf[a]},
         LinksBut(r, S), NEW q, q = Detach(r, S, keep)
  PROVE  /\ q \in RowSet
         /\ q.role = r.role /\ q.excluded = r.excluded /\ q.clusterOf = r.clusterOf
         /\ q.clusters = r.clusters /\ q.rep = r.rep /\ q.draftCluster = r.draftCluster
         /\ \A X : CoveredBut(r, X) => CoveredBut(q, X)
         /\ LinksBut(q, {})
         /\ DatedSince(r, q)
  <1> DEFINE stays(a) == keep # None /\ r.link[a] # None /\ r.draftCluster[r.link[a]] = keep
             l == [a \in Asset |-> IF a \in S /\ ~stays(a) THEN None ELSE r.link[a]]
  <1>1. l \in [Asset -> Draft \cup {None}] BY DEF RowSet
  <1>2. \A a \in Asset : l[a] = r.link[a] \/ (l[a] = None /\ a \in S) OBVIOUS
  <1>3. \A a \in S : l[a] # None =>
          r.draftCluster[l[a]] # None /\ r.draftCluster[l[a]] = r.clusterOf[a]
    OBVIOUS
  <1>4. PICK p : p = [r EXCEPT !.link = l] OBVIOUS
  <1>5. q = RefreshVisited(p, DraftsOf(r, S)) BY <1>4 DEF Detach
  <1> HIDE DEF l
  <1>6. /\ p \in RowSet
        /\ p.role = r.role /\ p.excluded = r.excluded /\ p.clusterOf = r.clusterOf
        /\ p.clusters = r.clusters /\ p.rep = r.rep /\ p.draftCluster = r.draftCluster
        /\ p.link = l
    BY <1>1, <1>4 DEF RowSet
  <1>7. /\ q \in RowSet
        /\ q.role = p.role /\ q.excluded = p.excluded /\ q.clusterOf = p.clusterOf
        /\ q.clusters = p.clusters /\ q.rep = p.rep /\ q.draftCluster = p.draftCluster
        /\ q.link = p.link
        /\ \A d \in Draft : Dates(q, d) = Dates(p, d)
        /\ \A d \in Draft : d \in DraftsOf(r, S) /\ Dates(p, d) # {} =>
             q.visited[d] = Min(Dates(p, d))
    BY <1>5, <1>6, RefreshRows
  <1>8. LinksBut(q, {})
    BY <1>2, <1>3, <1>6, <1>7 DEF LinksBut
  <1>9. DatedSince(r, q)
    <2> SUFFICES ASSUME NEW d \in Draft, Dates(q, d) # {},
                        NEW a \in Asset, (r.link[a] = d) # (q.link[a] = d)
                 PROVE  q.visited[d] = Min(Dates(q, d))
      BY DEF DatedSince
    <2>1. q.link[a] = l[a] BY <1>6, <1>7
    <2>2. r.link[a] = d /\ a \in S BY <1>2, <2>1, Constants
    <2>3. d \in DraftsOf(r, S) BY <2>2, Constants DEF DraftsOf
    <2> QED BY <1>7, <2>3
  <1>10. \A X : CoveredBut(r, X) => CoveredBut(q, X)
    BY <1>6, <1>7 DEF CoveredBut, NoneDangling, CoversBut, RepsBut, Excludes
  <1> QED BY <1>6, <1>7, <1>8, <1>9, <1>10

\* Linking photos of its cluster to a draft.
LEMMA LinkSound ==
  ASSUME processed \in SUBSET Asset, NEW r, Sound(r),
         NEW d \in Draft, r.draftCluster[d] # None,
         NEW S \in SUBSET MembersIn(r, {r.draftCluster[d]}), NEW q, q = Link(r, d, S)
  PROVE  Sound(q) /\ DatedSince(r, q)
  <1> DEFINE l == [a \in Asset |-> IF a \in S THEN d
                                   ELSE IF r.link[a] = d THEN None ELSE r.link[a]]
  <1>0. r \in RowSet /\ S \in SUBSET Asset /\ \A a \in S : r.clusterOf[a] = r.draftCluster[d]
    BY DEF Sound, CoveredBut, MembersIn
  <1>1. l \in [Asset -> Draft \cup {None}] BY <1>0 DEF RowSet
  <1>2. \A a \in Asset : l[a] = IF a \in S THEN d
                                ELSE IF r.link[a] = d THEN None ELSE r.link[a]
    OBVIOUS
  <1>3. PICK p : p = [r EXCEPT !.link = l] OBVIOUS
  <1>4. PICK w : w = SetRole(p, S, "review") OBVIOUS
  <1>5. q = RefreshVisited(w, Redated(r, d, S)) BY <1>3, <1>4 DEF Link, SetReviewRole
  <1> HIDE DEF l
  <1>6. /\ p \in RowSet
        /\ p.role = r.role /\ p.excluded = r.excluded /\ p.clusterOf = r.clusterOf
        /\ p.clusters = r.clusters /\ p.rep = r.rep /\ p.draftCluster = r.draftCluster
        /\ p.link = l
    BY <1>0, <1>1, <1>3 DEF RowSet
  <1>7. /\ w \in RowSet
        /\ w.clusterOf = p.clusterOf /\ w.clusters = p.clusters /\ w.rep = p.rep
        /\ w.draftCluster = p.draftCluster /\ w.link = p.link
        /\ \A a \in Asset : w.role[a] = IF a \in S THEN "review" ELSE p.role[a]
        /\ Excludes(w)
    <2>1. Excludes(p) BY <1>6 DEF Sound, CoveredBut, Excludes
    <2>2. "review" \in Role BY Constants
    <2>3. /\ w \in RowSet
          /\ w.clusterOf = p.clusterOf /\ w.clusters = p.clusters /\ w.rep = p.rep
          /\ SameDrafts(p, w)
          /\ \A a \in Asset : w.role[a] = IF a \in S THEN "review" ELSE p.role[a]
          /\ Excludes(p) => Excludes(w)
      BY <1>0, <1>4, <1>6, <2>2, SetRoleRows
    <2> QED BY <2>1, <2>3 DEF SameDrafts
  <1>8. /\ q \in RowSet
        /\ q.role = w.role /\ q.excluded = w.excluded /\ q.clusterOf = w.clusterOf
        /\ q.clusters = w.clusters /\ q.rep = w.rep /\ q.draftCluster = w.draftCluster
        /\ q.link = w.link
        /\ \A e \in Draft : Dates(q, e) = Dates(w, e)
        /\ \A e \in Draft : e \in Redated(r, d, S) /\ Dates(w, e) # {} =>
             q.visited[e] = Min(Dates(w, e))
    BY <1>5, <1>7, RefreshRows
  <1>9. NoneDangling(q) BY <1>6, <1>7, <1>8 DEF Sound, CoveredBut, NoneDangling
  <1>10. CoversBut(q, {}) /\ RepsBut(q, {})
    BY <1>6, <1>7, <1>8 DEF Sound, CoveredBut, CoversBut, RepsBut
  <1>11. Excludes(q) BY <1>7, <1>8 DEF Excludes
  <1>12. LinksBut(q, {})
    BY <1>0, <1>2, <1>6, <1>7, <1>8 DEF Sound, CoveredBut, LinksBut
  <1>13. DatedSince(r, q)
    <2> SUFFICES ASSUME NEW e \in Draft, Dates(q, e) # {},
                        NEW a \in Asset, (r.link[a] = e) # (q.link[a] = e)
                 PROVE  q.visited[e] = Min(Dates(q, e))
      BY DEF DatedSince
    <2>1. q.link[a] = l[a] BY <1>6, <1>7, <1>8
    <2>2. e = d \/ (r.link[a] = e /\ a \in S) BY <1>2, <2>1, Constants
    <2>3. e \in Redated(r, d, S) BY <2>2, Constants DEF Redated, DraftsOf
    <2> QED BY <1>8, <2>3
  <1> QED BY <1>8, <1>9, <1>10, <1>11, <1>12, <1>13 DEF Sound, CoveredBut

\* q has lost drafts of r, whole with their links, and has the others as they were.
LosesDrafts(r, q) ==
  \A d \in Draft :
    \/ \A a \in Asset : q.link[a] # d
    \/ (\A a \in Asset : (r.link[a] = d) <=> (q.link[a] = d)) /\ q.visited[d] = r.visited[d]

LEMMA SameDates ==
  ASSUME processed \in SUBSET Asset, NEW r, NEW q, NEW d,
         \A a \in Asset : (r.link[a] = d) <=> (q.link[a] = d)
  PROVE  Dates(r, d) = Dates(q, d)
  BY DEF Dates

LEMMA DatedLosing ==
  ASSUME processed \in SUBSET Asset, NEW p, NEW r, NEW q,
         DatedSince(p, r), LosesDrafts(r, q)
  PROVE  DatedSince(p, q)
  <1> SUFFICES ASSUME NEW d \in Draft, Dates(q, d) # {},
                      NEW b \in Asset, (p.link[b] = d) # (q.link[b] = d)
               PROVE  q.visited[d] = Min(Dates(q, d))
    BY DEF DatedSince
  <1>1. PICK a \in Asset : q.link[a] = d BY DEF Dates
  <1>2. (\A e \in Asset : (r.link[e] = d) <=> (q.link[e] = d)) /\ q.visited[d] = r.visited[d]
    BY <1>1 DEF LosesDrafts
  <1>3. Dates(r, d) = Dates(q, d) BY <1>2, SameDates
  <1>4. (p.link[b] = d) # (r.link[b] = d) BY <1>2
  <1>5. r.visited[d] = Min(Dates(r, d)) BY <1>3, <1>4 DEF DatedSince
  <1> QED BY <1>2, <1>3, <1>5

LEMMA DatedSame ==
  ASSUME processed \in SUBSET Asset, NEW p, NEW r, NEW q, DatedSince(p, r), SameDrafts(r, q)
  PROVE  DatedSince(p, q)
  <1>1. LosesDrafts(r, q) BY DEF LosesDrafts, SameDrafts
  <1> QED BY <1>1, DatedLosing

LEMMA DatedFrom ==
  ASSUME processed \in SUBSET Asset, NEW p, NEW r, NEW q, p.link = r.link, DatedSince(r, q)
  PROVE  DatedSince(p, q)
  BY DEF DatedSince

\* Clusters are deleted with their drafts when their photos have left them.
Dropped(r, q, C, E) ==
  /\ Sound(q) /\ LosesDrafts(r, q)
  /\ q.role = r.role /\ q.excluded = r.excluded /\ q.clusters = r.clusters \ C
  /\ \A a \in E : q.clusterOf[a] = None

LEMMA DropSound ==
  ASSUME NEW r, Sound(r), NEW C \in SUBSET Cluster, NEW E \in SUBSET Asset,
         \A a \in E : r.clusterOf[a] \in C \cup {None},
         \A a \in Asset : r.clusterOf[a] \in C => a \in E,
         NEW q, q = DropClusters(Place(r, E, None), C)
  PROVE  Dropped(r, q, C, E)
  <1>0. r \in RowSet BY DEF Sound, CoveredBut
  <1>1. PICK p : p = Place(r, E, None) OBVIOUS
  <1>2. /\ p \in RowSet
        /\ p.role = r.role /\ p.excluded = r.excluded /\ p.clusters = r.clusters
        /\ p.rep = r.rep /\ SameDrafts(r, p)
        /\ \A a \in Asset : p.clusterOf[a] = IF a \in E THEN None ELSE r.clusterOf[a]
    BY <1>0, <1>1 DEF Place, RowSet, SameDrafts
  <1>3. /\ q \in RowSet
        /\ q.role = p.role /\ q.excluded = p.excluded /\ q.clusterOf = p.clusterOf
        /\ q.clusters = p.clusters \ C
        /\ \A k \in Cluster : q.rep[k] = IF k \in C THEN None ELSE p.rep[k]
        /\ \A d \in Draft : p.draftCluster[d] \in C => q.draftCluster[d] = None
        /\ \A d \in Draft : p.draftCluster[d] \notin C =>
             q.draftCluster[d] = p.draftCluster[d] /\ q.visited[d] = p.visited[d]
        /\ \A a \in Asset : q.link[a] = IF p.link[a] # None /\ p.draftCluster[p.link[a]] \in C
                                        THEN None ELSE p.link[a]
    BY <1>1, <1>2, DropClustersRows
  <1>4. NoneDangling(q)
    BY <1>2, <1>3 DEF Sound, CoveredBut, NoneDangling, SameDrafts
  <1>5. CoversBut(q, {})
    <2> SUFFICES ASSUME NEW a \in Asset, q.role[a] = "cover", q.clusterOf[a] # None
                 PROVE  q.rep[q.clusterOf[a]] = a
      BY DEF CoversBut
    <2>1. a \notin E /\ q.clusterOf[a] = r.clusterOf[a] BY <1>2, <1>3
    <2>2. r.clusterOf[a] \in Cluster \ C BY <1>0, <2>1 DEF RowSet
    <2>3. r.rep[r.clusterOf[a]] = a BY <1>2, <1>3, <2>1 DEF Sound, CoveredBut, CoversBut
    <2> QED BY <1>2, <1>3, <2>1, <2>2, <2>3
  <1>6. RepsBut(q, {})
    <2> SUFFICES ASSUME NEW k \in Cluster, q.rep[k] # None
                 PROVE  q.clusterOf[q.rep[k]] = k
      BY DEF RepsBut
    <2>1. k \notin C /\ q.rep[k] = r.rep[k] BY <1>2, <1>3
    <2>2. r.rep[k] \in Asset BY <1>0, <2>1 DEF RowSet
    <2>3. r.clusterOf[r.rep[k]] = k BY <2>1 DEF Sound, CoveredBut, RepsBut
    <2>4. r.rep[k] \notin E BY <2>1, <2>3, Constants
    <2> QED BY <1>2, <1>3, <2>1, <2>2, <2>3, <2>4
  <1>7. Excludes(q) BY <1>2, <1>3 DEF Sound, CoveredBut, Excludes
  <1>8. LinksBut(q, {})
    <2> SUFFICES ASSUME NEW a \in Asset, q.link[a] # None
                 PROVE  /\ q.draftCluster[q.link[a]] # None
                        /\ q.draftCluster[q.link[a]] = q.clusterOf[a]
      BY DEF LinksBut
    <2>1. q.link[a] = r.link[a] /\ r.draftCluster[r.link[a]] \notin C
      BY <1>2, <1>3 DEF SameDrafts
    <2>2. r.link[a] \in Draft BY <1>0, <2>1 DEF RowSet
    <2>3. r.draftCluster[r.link[a]] # None /\ r.draftCluster[r.link[a]] = r.clusterOf[a]
      BY <2>1 DEF Sound, CoveredBut, LinksBut
    <2>4. a \notin E BY <2>1, <2>3
    <2> QED BY <1>2, <1>3, <2>1, <2>2, <2>3, <2>4 DEF SameDrafts
  <1>9. LosesDrafts(r, q)
    <2> SUFFICES ASSUME NEW d \in Draft
                 PROVE  \/ \A a \in Asset : q.link[a] # d
                        \/ /\ \A a \in Asset : (r.link[a] = d) <=> (q.link[a] = d)
                           /\ q.visited[d] = r.visited[d]
      BY DEF LosesDrafts
    <2>1. CASE r.draftCluster[d] \in C
      BY <1>2, <1>3, <2>1, Constants DEF SameDrafts
    <2>2. CASE r.draftCluster[d] \notin C
      BY <1>2, <1>3, <2>2, Constants DEF SameDrafts
    <2> QED BY <2>1, <2>2
  <1> QED BY <1>2, <1>3, <1>4, <1>5, <1>6, <1>7, <1>8, <1>9
       DEF Sound, CoveredBut, Dropped

LEMMA DeleteEmptySound ==
  ASSUME NEW r, Sound(r), NEW C, NEW requested, requested => C \in SUBSET Cluster,
         NEW q, q = DeleteEmpty(r, C, requested)
  PROVE  Sound(q) /\ LosesDrafts(r, q)
  <1>1. CASE ~requested
    <2>1. q = r BY <1>1 DEF DeleteEmpty
    <2> QED BY <2>1 DEF LosesDrafts
  <1>2. CASE requested
    <2>1. PICK D : D = Emptied(r, C) OBVIOUS
    <2>2. D \in SUBSET Cluster BY <1>2, <2>1 DEF Emptied
    <2>3. PICK E : E = MembersIn(r, D) OBVIOUS
    <2>4. /\ E \in SUBSET Asset
          /\ \A a \in E : r.clusterOf[a] \in D \cup {None}
          /\ \A a \in Asset : r.clusterOf[a] \in D => a \in E
      BY <2>3 DEF MembersIn
    <2>5. q = DropClusters(Place(r, E, None), D) BY <1>2, <2>1, <2>3 DEF DeleteEmpty
    <2>6. Dropped(r, q, D, E) BY <2>2, <2>4, <2>5, DropSound
    <2> QED BY <2>6 DEF Dropped
  <1> QED BY <1>1, <1>2

\* p is r after the photos S were placed in c and other clusters forgot them.
Moved(r, p, S, c) ==
  /\ p \in RowSet
  /\ p.role = r.role /\ p.excluded = r.excluded /\ SameDrafts(r, p)
  /\ r.clusters \subseteq p.clusters /\ c \in p.clusters \cup {None}
  /\ \A a \in Asset : p.clusterOf[a] = IF a \in S THEN c ELSE r.clusterOf[a]
  /\ \A k \in Cluster : p.rep[k] = IF r.rep[k] \in S /\ k # c THEN None ELSE r.rep[k]

LEMMA MovedSound ==
  ASSUME NEW r, Sound(r), NEW S \in SUBSET Asset, NEW c, NEW p, Moved(r, p, S, c)
  PROVE  /\ CoveredBut(p, {c})
         /\ LinksBut(p, S)
         /\ c = None \/ (\A a \in S : r.role[a] # "cover") => CoveredBut(p, {})
  <1>0. r \in RowSet /\ p \in RowSet BY DEF Sound, CoveredBut, Moved
  <1>1. NoneDangling(p) BY DEF Moved, Sound, CoveredBut, NoneDangling, SameDrafts
  <1>2. Excludes(p) BY DEF Moved, Sound, CoveredBut, Excludes
  <1>3. LinksBut(p, S) BY DEF Moved, Sound, LinksBut, SameDrafts
  <1>4. RepsBut(p, {})
    <2> SUFFICES ASSUME NEW k \in Cluster, p.rep[k] # None
                 PROVE  p.clusterOf[p.rep[k]] = k
      BY DEF RepsBut
    <2>1. p.rep[k] = r.rep[k] /\ (r.rep[k] \notin S \/ k = c) BY DEF Moved
    <2>2. r.rep[k] \in Asset BY <1>0, <2>1 DEF RowSet
    <2>3. r.clusterOf[r.rep[k]] = k BY <2>1 DEF Sound, CoveredBut, RepsBut
    <2> QED BY <2>1, <2>2, <2>3 DEF Moved
  <1>5. ASSUME NEW a \in Asset, p.role[a] = "cover", p.clusterOf[a] # None,
               a \notin S
        PROVE  p.rep[p.clusterOf[a]] = a
    <2>1. p.clusterOf[a] = r.clusterOf[a] /\ r.role[a] = "cover" BY <1>5 DEF Moved
    <2>2. r.clusterOf[a] \in Cluster BY <1>0, <1>5, <2>1 DEF RowSet
    <2>3. r.rep[r.clusterOf[a]] = a BY <1>5, <2>1 DEF Sound, CoveredBut, CoversBut
    <2> QED BY <1>5, <2>1, <2>2, <2>3 DEF Moved
  <1>6. \A a \in S : p.clusterOf[a] = c BY DEF Moved
  <1>7. CoversBut(p, {c}) BY <1>5, <1>6 DEF CoversBut
  <1>8. c = None \/ (\A a \in S : r.role[a] # "cover") => CoversBut(p, {})
    BY <1>5, <1>6 DEF CoversBut, Moved
  <1>9. RepsBut(p, {c}) BY <1>4 DEF RepsBut
  <1> QED BY <1>0, <1>1, <1>2, <1>3, <1>4, <1>7, <1>8, <1>9 DEF CoveredBut

LEMMA ClearPlaceMoved ==
  ASSUME NEW r, Sound(r), NEW S \in SUBSET Asset, NEW c \in r.clusters \cup {None},
         NEW q, q = Place(ClearMovedRepresentatives(r, S, c), S, c)
  PROVE  Moved(r, q, S, c)
  <1>0. r \in RowSet /\ c \in Cluster \cup {None} BY DEF Sound, CoveredBut, RowSet
  <1>1. PICK p : p = ClearMovedRepresentatives(r, S, c) OBVIOUS
  <1>2. /\ p \in RowSet
        /\ p.role = r.role /\ p.excluded = r.excluded /\ p.clusterOf = r.clusterOf
        /\ p.clusters = r.clusters /\ SameDrafts(r, p)
        /\ \A k \in Cluster : p.rep[k] = IF r.rep[k] \in S /\ k # c THEN None ELSE r.rep[k]
    BY <1>0, <1>1, Constants DEF ClearMovedRepresentatives, RowSet, SameDrafts
  <1>3. /\ q \in RowSet
        /\ q.role = p.role /\ q.excluded = p.excluded /\ q.clusters = p.clusters
        /\ q.rep = p.rep /\ SameDrafts(p, q)
        /\ \A a \in Asset : q.clusterOf[a] = IF a \in S THEN c ELSE p.clusterOf[a]
    <2>1. q = Place(p, S, c) BY <1>1
    <2> QED BY <1>0, <1>2, <2>1, PlaceRows DEF Placed
  <1> QED BY <1>2, <1>3 DEF Moved, SameDrafts

\* The clusters to be inserted represent nothing yet.
LEMMA NoneRepresented ==
  ASSUME NEW r, Sound(r), NEW c \in Cluster, c \notin r.clusters
  PROVE  r.rep[c] = None /\ \A a \in Asset : r.clusterOf[a] # c
  <1>0. r \in RowSet BY DEF Sound, CoveredBut
  <1>1. \A a \in Asset : r.clusterOf[a] # c
    BY Constants DEF Sound, CoveredBut, NoneDangling
  <1>2. ASSUME r.rep[c] # None PROVE FALSE
    <2>1. r.rep[c] \in Asset BY <1>0, <1>2 DEF RowSet
    <2>2. r.clusterOf[r.rep[c]] = c BY <1>2 DEF Sound, CoveredBut, RepsBut
    <2> QED BY <1>1, <2>1, <2>2
  <1> QED BY <1>1, <1>2

LEMMA InsertPlaceMoved ==
  ASSUME NEW r, Sound(r), NEW S \in SUBSET Asset, NEW c \in Cluster, c \notin r.clusters,
         NEW q, \/ q = Place(InsertCluster(ClearMovedRepresentatives(r, S, None), c), S, c)
                \/ /\ \A a \in S : r.clusterOf[a] = None
                   /\ q = Place(InsertCluster(r, c), S, c)
  PROVE  Moved(r, q, S, c)
  <1>0. r \in RowSet /\ r.rep[c] = None BY NoneRepresented DEF Sound, CoveredBut
  <1>1. PICK p : /\ q = Place(InsertCluster(p, c), S, c)
                 /\ \/ p = ClearMovedRepresentatives(r, S, None)
                    \/ p = r /\ \A a \in S : r.clusterOf[a] = None
    OBVIOUS
  <1>2. /\ p \in RowSet
        /\ p.role = r.role /\ p.excluded = r.excluded /\ p.clusterOf = r.clusterOf
        /\ p.clusters = r.clusters /\ SameDrafts(r, p)
        /\ \A k \in Cluster : p.rep[k] = IF r.rep[k] \in S THEN None ELSE r.rep[k]
    <2>1. CASE p = ClearMovedRepresentatives(r, S, None)
      BY <1>0, <2>1, Constants DEF ClearMovedRepresentatives, RowSet, SameDrafts
    <2>2. CASE p = r /\ \A a \in S : r.clusterOf[a] = None
      <3>1. ASSUME NEW k \in Cluster, r.rep[k] \in S PROVE FALSE
        <4>1. r.rep[k] # None BY <3>1, Constants
        <4>2. r.clusterOf[r.rep[k]] = k BY <4>1 DEF Sound, CoveredBut, RepsBut
        <4> QED BY <2>2, <3>1, <4>2, Constants
      <3> QED BY <1>0, <2>2, <3>1 DEF SameDrafts
    <2> QED BY <1>1, <2>1, <2>2
  <1>3. PICK w : w = InsertCluster(p, c) OBVIOUS
  <1>4. /\ w \in RowSet
        /\ w.role = p.role /\ w.excluded = p.excluded /\ w.clusterOf = p.clusterOf
        /\ w.clusters = p.clusters \cup {c} /\ SameDrafts(p, w)
        /\ \A k \in Cluster : w.rep[k] = IF k = c THEN None ELSE p.rep[k]
    BY <1>2, <1>3, InsertClusterRows
  <1>5. q = Place(w, S, c) BY <1>1, <1>3
  <1>6. /\ q \in RowSet
        /\ q.role = w.role /\ q.excluded = w.excluded /\ q.clusters = w.clusters
        /\ q.rep = w.rep /\ SameDrafts(w, q)
        /\ \A a \in Asset : q.clusterOf[a] = IF a \in S THEN c ELSE w.clusterOf[a]
    BY <1>4, <1>5, PlaceRows DEF Placed
  <1>7. \A k \in Cluster : q.rep[k] = IF r.rep[k] \in S /\ k # c THEN None ELSE r.rep[k]
    BY <1>0, <1>2, <1>4, <1>6, Constants
  <1> QED BY <1>2, <1>4, <1>6, <1>7 DEF Moved, SameDrafts

\* Detaching what was moved leaves the photos of S with c, covers but for c.
LEMMA MovedDetached ==
  ASSUME processed \in SUBSET Asset, NEW r, Sound(r), NEW S \in SUBSET Asset, NEW c,
         NEW p, Moved(r, p, S, c), NEW keep \in {None, c}, NEW q, q = Detach(p, S, keep)
  PROVE  /\ CoveredBut(q, {c}) /\ LinksBut(q, {}) /\ DatedSince(r, q)
         /\ S \subseteq MembersIn(q, {c})
         /\ c = None \/ (\A a \in S : r.role[a] # "cover") => CoveredBut(q, {})
  <1>1. p \in RowSet /\ \A a \in S : p.clusterOf[a] = c BY DEF Moved
  <1>2. LinksBut(p, S) BY MovedSound
  <1>3. \A a \in S : keep \in {None, p.clusterOf[a]} BY <1>1
  <1>4. /\ q \in RowSet /\ q.clusterOf = p.clusterOf
        /\ \A X : CoveredBut(p, X) => CoveredBut(q, X)
        /\ LinksBut(q, {}) /\ DatedSince(p, q)
    BY <1>1, <1>2, <1>3, DetachSound
  <1>5. CoveredBut(q, {c}) BY <1>4, MovedSound
  <1>6. c = None \/ (\A a \in S : r.role[a] # "cover") => CoveredBut(q, {})
    BY <1>4, MovedSound
  <1>7. p.link = r.link BY DEF Moved, SameDrafts
  <1>8. DatedSince(r, q) BY <1>4, <1>7, DatedFrom
  <1>9. S \subseteq MembersIn(q, {c}) BY <1>1, <1>4 DEF MembersIn
  <1> QED BY <1>4, <1>5, <1>6, <1>8, <1>9

\* The end of most requests: a cover for c, whose other photos lose that role.
LEMMA CoverSound ==
  ASSUME processed \in SUBSET Asset, NEW c \in Cluster, NEW p, NEW r,
         CoveredBut(r, {c}), LinksBut(r, {}), DatedSince(p, r),
         NEW a \in MembersIn(r, {c}) \cup {None},
         NEW q, q = Synchronize(r, c, a)
  PROVE  Sound(q) /\ DatedSince(p, q)
  <1>1. /\ CoveredBut(q, {c} \ {c})
        /\ q.clusterOf = r.clusterOf /\ SameDrafts(r, q)
    BY SynchronizeSound DEF Synchronized
  <1>2. {c} \ {c} = {} OBVIOUS
  <1>3. LinksBut(q, {}) BY <1>1 DEF LinksBut, SameDrafts
  <1> QED BY <1>1, <1>2, <1>3, DatedSame DEF Sound

LEMMA DeleteEmptyDated ==
  ASSUME processed \in SUBSET Asset, NEW p, NEW r, Sound(r), DatedSince(p, r),
         NEW C, NEW requested, requested => C \in SUBSET Cluster,
         NEW q, q = DeleteEmpty(r, C, requested)
  PROVE  Sound(q) /\ DatedSince(p, q)
  BY DeleteEmptySound, DatedLosing

-----------------------------------------------------------------------------
(* The requests.                                                           *)

ReviewInv == RowsAgree /\ LinkInCluster

\* Whichever rows a request commits, they are sound, and its drafts are dated.
Edited ==
  /\ UNCHANGED jobVars
  /\ \E q : Sound(q) /\ DatedSince(Rows, q) /\ Commit(q)

LEMMA RowsSound ==
  ASSUME ReviewInv
  PROVE  Sound(Rows) /\ processed \in SUBSET Asset /\ TypeOK
  <1>1. Rows \in RowSet BY DEF ReviewInv, RowsAgree, TypeOK, Rows, RowSet
  <1>2. NoneDangling(Rows)
    BY DEF ReviewInv, RowsAgree, NoDanglingCluster, NoneDangling, Rows
  <1>3. CoversBut(Rows, {})
    BY DEF ReviewInv, RowsAgree, CoverIsRepresentative, CoversBut, Rows
  <1>4. RepsBut(Rows, {})
    BY DEF ReviewInv, RowsAgree, RepresentativeInCluster, RepsBut, Rows
  <1>5. Excludes(Rows)
    BY DEF ReviewInv, RowsAgree, ExclusionAgrees, Excludes, Rows
  <1>6. LinksBut(Rows, {})
    BY DEF ReviewInv, LinkInCluster, LinksBut, Rows
  <1> QED
    BY <1>1, <1>2, <1>3, <1>4, <1>5, <1>6
    DEF Sound, CoveredBut, ReviewInv, RowsAgree, TypeOK

LEMMA CommitInv ==
  ASSUME NEW q, Sound(q), Commit(q),
         status' \in {"draft", "processing", "ready", "failed"}, full' \in BOOLEAN,
         processed' \in SUBSET Asset, screens' \in SUBSET (Screenshot \cap processed')
  PROVE  ReviewInv'
  <1>0. q \in RowSet BY DEF Sound, CoveredBut
  <1>1. TypeOK' BY <1>0 DEF TypeOK, Commit, RowSet
  <1>2. NoDanglingCluster'
    BY DEF Sound, CoveredBut, NoDanglingCluster, NoneDangling, Commit
  <1>3. CoverIsRepresentative'
    BY DEF Sound, CoveredBut, CoverIsRepresentative, CoversBut, Commit
  <1>4. RepresentativeInCluster'
    BY DEF Sound, CoveredBut, RepresentativeInCluster, RepsBut, Commit
  <1>5. ExclusionAgrees'
    BY DEF Sound, CoveredBut, ExclusionAgrees, Excludes, Commit
  <1>6. LinkInCluster'
    BY DEF Sound, LinkInCluster, LinksBut, Commit
  <1> QED BY <1>1, <1>2, <1>3, <1>4, <1>5, <1>6 DEF ReviewInv, RowsAgree

LEMMA SourcesAreClusters ==
  ASSUME TypeOK, NEW S \in SUBSET Asset
  PROVE  Sources(S) \in SUBSET Cluster
  BY DEF TypeOK, Sources

LEMMA AssignAssetsSound ==
  ASSUME ReviewInv, NEW c \in Cluster, NEW S \in SUBSET Asset, NEW del \in BOOLEAN,
         AssignAssets(c, S, del)
  PROVE  Edited
  <1>0. Sound(Rows) /\ processed \in SUBSET Asset /\ TypeOK BY RowsSound
  <1>1. PICK p : p = Place(ClearMovedRepresentatives(Rows, S, c), S, c) OBVIOUS
  <1>2. PICK q : q = Detach(p, S, c) OBVIOUS
  <1>3. PICK w : w = IF CoverOf(S) = None THEN q ELSE Synchronize(q, c, CoverOf(S)) OBVIOUS
  <1>4. PICK u : u = DeleteEmpty(w, Sources(S) \ {c}, del) OBVIOUS
  <1>5. /\ c \in Rows.clusters \cup {None} /\ Cardinality(CoversAmong(S)) <= 1
        /\ Commit(u) /\ UNCHANGED jobVars
    BY <1>1, <1>2, <1>3, <1>4 DEF AssignAssets, Rows
  <1>6. Moved(Rows, p, S, c) BY <1>0, <1>1, <1>5, ClearPlaceMoved
  <1>7. /\ CoveredBut(q, {c}) /\ LinksBut(q, {}) /\ DatedSince(Rows, q)
        /\ S \subseteq MembersIn(q, {c})
        /\ (\A a \in S : Rows.role[a] # "cover") => CoveredBut(q, {})
    BY <1>0, <1>2, <1>6, MovedDetached
  <1>8. Sound(w) /\ DatedSince(Rows, w)
    <2>1. CASE CoverOf(S) = None
      <3>1. \A a \in S : Rows.role[a] # "cover"
        BY <1>0, <1>5, <2>1, OneCover, Constants DEF Rows
      <3> QED BY <1>3, <1>7, <2>1, <3>1 DEF Sound
    <2>2. CASE CoverOf(S) # None
      <3>1. CoverOf(S) \in MembersIn(q, {c}) BY <1>0, <1>5, <1>7, <2>2, OneCover
      <3> QED BY <1>0, <1>3, <1>7, <2>2, <3>1, CoverSound
    <2> QED BY <2>1, <2>2
  <1>9. Sound(u) /\ DatedSince(Rows, u)
    BY <1>0, <1>4, <1>8, SourcesAreClusters, DeleteEmptyDated
  <1> QED BY <1>5, <1>9 DEF Edited

LEMMA UnassignAssetsSound ==
  ASSUME ReviewInv, NEW S \in SUBSET Asset, NEW del \in BOOLEAN, UnassignAssets(S, del)
  PROVE  Edited
  <1>0. Sound(Rows) /\ processed \in SUBSET Asset /\ TypeOK BY RowsSound
  <1>1. PICK p : p = Place(ClearMovedRepresentatives(Rows, S, None), S, None) OBVIOUS
  <1>2. PICK q : q = Detach(p, S, None) OBVIOUS
  <1>3. PICK u : u = DeleteEmpty(q, Sources(S), del) OBVIOUS
  <1>4. Commit(u) /\ UNCHANGED jobVars BY <1>1, <1>2, <1>3 DEF UnassignAssets
  <1>5. Moved(Rows, p, S, None) BY <1>0, <1>1, ClearPlaceMoved
  <1>6. CoveredBut(q, {}) /\ LinksBut(q, {}) /\ DatedSince(Rows, q)
    BY <1>0, <1>2, <1>5, MovedDetached
  <1>7. Sound(q) BY <1>6 DEF Sound
  <1>8. Sound(u) /\ DatedSince(Rows, u)
    BY <1>0, <1>3, <1>6, <1>7, SourcesAreClusters, DeleteEmptyDated
  <1> QED BY <1>4, <1>8 DEF Edited

LEMMA ReassignSound ==
  ASSUME ReviewInv, NEW c \in Cluster, NEW S \in SUBSET Asset, NEW del \in BOOLEAN,
         ReassignToNewCluster(c, S, del)
  PROVE  Edited
  <1>0. Sound(Rows) /\ processed \in SUBSET Asset /\ TypeOK BY RowsSound
  <1>1. PICK p : p = Place(InsertCluster(ClearMovedRepresentatives(Rows, S, None), c), S, c)
    OBVIOUS
  <1>2. PICK q : q = Detach(p, S, c) OBVIOUS
  <1>3. PICK w : w = Synchronize(q, c, CoverOf(S)) OBVIOUS
  <1>4. PICK u : u = DeleteEmpty(w, Sources(S), del) OBVIOUS
  <1>5. /\ c \notin Rows.clusters /\ Cardinality(CoversAmong(S)) <= 1
        /\ Commit(u) /\ UNCHANGED jobVars
    BY <1>1, <1>2, <1>3, <1>4 DEF ReassignToNewCluster, Rows
  <1>6. Moved(Rows, p, S, c) BY <1>0, <1>1, <1>5, InsertPlaceMoved
  <1>7. /\ CoveredBut(q, {c}) /\ LinksBut(q, {}) /\ DatedSince(Rows, q)
        /\ S \subseteq MembersIn(q, {c})
    BY <1>0, <1>2, <1>6, MovedDetached
  <1>8. CoverOf(S) \in MembersIn(q, {c}) \cup {None} BY <1>0, <1>5, <1>7, OneCover
  <1>9. Sound(w) /\ DatedSince(Rows, w) BY <1>0, <1>3, <1>7, <1>8, CoverSound
  <1>10. Sound(u) /\ DatedSince(Rows, u)
    BY <1>0, <1>4, <1>9, SourcesAreClusters, DeleteEmptyDated
  <1> QED BY <1>5, <1>10 DEF Edited

\* The photos of a new cluster come from no cluster, so they have no draft.
LEMMA CreateClusterSound ==
  ASSUME ReviewInv, NEW c \in Cluster, NEW S \in SUBSET Asset, NEW a \in Asset \cup {None},
         CreateCluster(c, S, a)
  PROVE  Edited
  <1>0. Sound(Rows) /\ processed \in SUBSET Asset /\ TypeOK BY RowsSound
  <1>1. PICK p : p = Place(InsertCluster(Rows, c), S, c) OBVIOUS
  <1>2. PICK x : x = IF a = None THEN CoverOf(S) ELSE a OBVIOUS
  <1>3. PICK w : w = Synchronize(p, c, x) OBVIOUS
  <1>4. /\ c \notin Rows.clusters /\ Cardinality(CoversAmong(S)) <= 1 /\ Sources(S) = {}
        /\ a # None => a \in S
        /\ Commit(w) /\ UNCHANGED jobVars
    BY <1>1, <1>2, <1>3 DEF CreateCluster, Rows
  <1>5. \A b \in S : Rows.clusterOf[b] = None BY <1>4 DEF Sources, Rows
  <1>6. Moved(Rows, p, S, c) BY <1>0, <1>1, <1>4, <1>5, InsertPlaceMoved
  <1>7. CoveredBut(p, {c}) /\ LinksBut(p, S) BY <1>0, <1>6, MovedSound
  <1>8. SameDrafts(Rows, p) BY <1>6 DEF Moved
  <1>9. \A b \in S : p.link[b] = None
    BY <1>0, <1>5, <1>8 DEF Sound, LinksBut, SameDrafts
  <1>10. LinksBut(p, {}) BY <1>7, <1>9 DEF LinksBut
  <1>11. DatedSince(Rows, p) BY <1>8 DEF DatedSince, SameDrafts
  <1>12. x \in MembersIn(p, {c}) \cup {None}
    <2>1. x \in S \cup {None} BY <1>0, <1>2, <1>4, OneCover
    <2>2. S \subseteq MembersIn(p, {c}) BY <1>6 DEF Moved, MembersIn
    <2> QED BY <2>1, <2>2
  <1>13. Sound(w) /\ DatedSince(Rows, w) BY <1>0, <1>3, <1>7, <1>10, <1>11, <1>12, CoverSound
  <1> QED BY <1>4, <1>13 DEF Edited

LEMMA SetRepresentativeSound ==
  ASSUME ReviewInv, NEW c \in Cluster, NEW a \in Asset \cup {None}, SetRepresentative(c, a)
  PROVE  Edited
  <1>0. Sound(Rows) /\ processed \in SUBSET Asset /\ TypeOK BY RowsSound
  <1>1. PICK w : w = Synchronize(Rows, c, a) OBVIOUS
  <1>2. Commit(w) /\ UNCHANGED jobVars /\ (a # None => Rows.clusterOf[a] = c)
    BY <1>1 DEF SetRepresentative, Rows
  <1>3. a \in MembersIn(Rows, {c}) \cup {None} BY <1>2 DEF MembersIn
  <1>4. CoveredBut(Rows, {c}) /\ LinksBut(Rows, {})
    BY <1>0 DEF Sound, CoveredBut, CoversBut, RepsBut
  <1>5. DatedSince(Rows, Rows) BY DEF DatedSince
  <1>6. Sound(w) /\ DatedSince(Rows, w) BY <1>0, <1>1, <1>3, <1>4, <1>5, CoverSound
  <1> QED BY <1>2, <1>6 DEF Edited

\* A photo that is patched has its new role in its new cluster, and the cluster
\* that it leaves forgets it.
LEMMA PatchedSound ==
  ASSUME NEW r, Sound(r), NEW a \in Asset, NEW x \in Role, NEW target \in r.clusters \cup {None},
         NEW p \in RowSet, p.clusters = r.clusters, SameDrafts(r, p), Excludes(p),
         \A b \in Asset : p.role[b] = IF b = a THEN x ELSE r.role[b],
         \A b \in Asset : p.clusterOf[b] = IF b = a THEN target ELSE r.clusterOf[b],
         \A k \in Cluster : p.rep[k] = IF k = r.clusterOf[a] /\ k # target /\ r.rep[k] = a
                                       THEN None ELSE r.rep[k]
  PROVE  /\ CoveredBut(p, {target}) /\ LinksBut(p, {a})
         /\ x # "cover" \/ target = None => CoveredBut(p, {})
  <1>0. r \in RowSet BY DEF Sound, CoveredBut
  <1>1. NoneDangling(p) BY DEF Sound, CoveredBut, NoneDangling, SameDrafts
  <1>2. LinksBut(p, {a}) BY DEF Sound, LinksBut, SameDrafts
  <1>3. RepsBut(p, {})
    <2> SUFFICES ASSUME NEW k \in Cluster, p.rep[k] # None
                 PROVE  p.clusterOf[p.rep[k]] = k
      BY DEF RepsBut
    <2>1. p.rep[k] = r.rep[k] OBVIOUS
    <2>2. r.rep[k] \in Asset BY <1>0, <2>1 DEF RowSet
    <2>3. r.clusterOf[r.rep[k]] = k BY <2>1 DEF Sound, CoveredBut, RepsBut
    <2> QED BY <2>1, <2>2, <2>3
  <1>4. ASSUME NEW b \in Asset, p.role[b] = "cover", p.clusterOf[b] # None, b # a
        PROVE  p.rep[p.clusterOf[b]] = b
    <2>1. p.clusterOf[b] = r.clusterOf[b] /\ r.role[b] = "cover" BY <1>4
    <2>2. r.clusterOf[b] \in Cluster BY <1>0, <1>4, <2>1 DEF RowSet
    <2>3. r.rep[r.clusterOf[b]] = b BY <1>4, <2>1 DEF Sound, CoveredBut, CoversBut
    <2> QED BY <1>4, <2>1, <2>2, <2>3
  <1>5. CoversBut(p, {target}) BY <1>4 DEF CoversBut
  <1>6. x # "cover" \/ target = None => CoversBut(p, {}) BY <1>4 DEF CoversBut
  <1>7. RepsBut(p, {target}) BY <1>3 DEF RepsBut
  <1> QED BY <1>1, <1>2, <1>3, <1>5, <1>6, <1>7 DEF CoveredBut

LEMMA PatchAssetSound ==
  ASSUME ReviewInv, NEW a \in Asset, NEW x \in Role \cup {None}, NEW moves \in BOOLEAN,
         NEW c \in Cluster \cup {None}, NEW del \in BOOLEAN, PatchAsset(a, x, moves, c, del)
  PROVE  Edited
  <1>0. Sound(Rows) /\ processed \in SUBSET Asset /\ TypeOK BY RowsSound
  <1>00. Rows \in RowSet BY <1>0 DEF Sound, CoveredBut
  <1>1. PICK source : source = clusterOf[a] OBVIOUS
  <1>2. PICK target : target = IF moves THEN c ELSE source OBVIOUS
  <1>3. PICK newRole : newRole = IF x = None THEN role[a] ELSE x OBVIOUS
  <1>4. PICK p : p = IF x = None THEN Rows ELSE SetRole(Rows, {a}, x) OBVIOUS
  <1>5. PICK q : q = IF moves THEN ForgetRepresentative(Place(p, {a}, c),
                                     IF c # source THEN source ELSE None, a)
                     ELSE p
    OBVIOUS
  <1>6. PICK w : w = IF newRole = "cover" /\ target # None THEN Synchronize(q, target, a)
                     ELSE IF x # None THEN ForgetRepresentative(q, target, a)
                     ELSE q
    OBVIOUS
  <1>7. PICK keep : keep = IF newRole = "review" THEN target ELSE None OBVIOUS
  <1>8. PICK v : v = IF moves \/ x \notin {None, "review"} THEN Detach(w, {a}, keep) ELSE w
    OBVIOUS
  <1>9. PICK removed :
          removed = (source # None /\ (target # source \/ newRole = "excluded"))
    OBVIOUS
  <1>10. PICK u : u = DeleteEmpty(v, {source}, removed /\ del) OBVIOUS
  <1>11. Commit(u) /\ UNCHANGED jobVars /\ (moves => c \in clusters \cup {None})
    BY <1>1, <1>2, <1>3, <1>4, <1>5, <1>6, <1>7, <1>8, <1>9, <1>10 DEF PatchAsset
  <1>12. /\ source \in clusters \cup {None} /\ target \in clusters \cup {None}
         /\ source \in Cluster \cup {None} /\ target \in Cluster \cup {None}
         /\ newRole \in Role
    BY <1>0, <1>1, <1>2, <1>3, <1>11 DEF ReviewInv, RowsAgree, TypeOK, NoDanglingCluster
  <1>13. /\ p \in RowSet
         /\ p.clusterOf = Rows.clusterOf /\ p.clusters = Rows.clusters /\ p.rep = Rows.rep
         /\ SameDrafts(Rows, p) /\ Excludes(p)
         /\ \A b \in Asset : p.role[b] = IF b = a THEN newRole ELSE Rows.role[b]
    <2>1. Excludes(Rows) BY <1>0 DEF Sound, CoveredBut
    <2>2. CASE x = None
      BY <1>00, <1>3, <1>4, <2>1, <2>2 DEF SameDrafts, Rows
    <2>3. CASE x # None
      <3>1. p = SetRole(Rows, {a}, newRole) BY <1>3, <1>4, <2>3
      <3>2. {a} \in SUBSET Asset OBVIOUS
      <3>3. /\ p \in RowSet
            /\ p.clusterOf = Rows.clusterOf /\ p.clusters = Rows.clusters /\ p.rep = Rows.rep
            /\ SameDrafts(Rows, p) /\ Excludes(p)
            /\ \A b \in Asset : p.role[b] = IF b \in {a} THEN newRole ELSE Rows.role[b]
        BY <1>00, <1>12, <2>1, <3>1, <3>2, SetRoleRows
      <3> QED BY <3>3
    <2> QED BY <2>2, <2>3
  <1>14. /\ q \in RowSet
         /\ q.role = p.role /\ q.excluded = p.excluded /\ q.clusters = Rows.clusters
         /\ SameDrafts(Rows, q)
         /\ \A b \in Asset : q.clusterOf[b] = IF b = a THEN target ELSE Rows.clusterOf[b]
         /\ \A k \in Cluster : q.rep[k] = IF k = source /\ k # target /\ Rows.rep[k] = a
                                          THEN None ELSE Rows.rep[k]
    <2>1. CASE moves
      <3>1. PICK y : y = Place(p, {a}, c) OBVIOUS
      <3>2. {a} \in SUBSET Asset OBVIOUS
      <3>3. /\ y \in RowSet
            /\ y.role = p.role /\ y.excluded = p.excluded /\ y.clusters = p.clusters
            /\ y.rep = p.rep /\ SameDrafts(p, y)
            /\ \A b \in Asset : y.clusterOf[b] = IF b \in {a} THEN c ELSE p.clusterOf[b]
        BY <1>13, <3>1, <3>2, PlaceRows DEF Placed
      <3>4. PICK z : z = IF c # source THEN source ELSE None OBVIOUS
      <3>5. z \in Cluster \cup {None} BY <1>12, <3>4
      <3>6. q = ForgetRepresentative(y, z, a) BY <1>5, <2>1, <3>1, <3>4
      <3>7. /\ q \in RowSet
            /\ q.role = y.role /\ q.excluded = y.excluded /\ q.clusterOf = y.clusterOf
            /\ q.clusters = y.clusters /\ SameDrafts(y, q)
            /\ \A k \in Cluster : q.rep[k] = IF k = z /\ y.rep[k] = a THEN None ELSE y.rep[k]
        BY <3>3, <3>5, <3>6, ForgetRows
      <3>8. target = c BY <1>2, <2>1
      <3>9. \A k \in Cluster : k = z <=> (k = source /\ k # target)
        BY <3>4, <3>8, Constants
      <3> QED BY <1>13, <3>3, <3>7, <3>8, <3>9 DEF SameDrafts
    <2>2. CASE ~moves
      <3>1. q = p /\ target = source /\ source = Rows.clusterOf[a]
        BY <1>1, <1>2, <1>5, <2>2 DEF Rows
      <3> QED BY <1>13, <3>1
    <2> QED BY <2>1, <2>2
  <1>15. /\ CoveredBut(q, {target}) /\ LinksBut(q, {a})
         /\ newRole # "cover" \/ target = None => CoveredBut(q, {})
    <2>1. target \in Rows.clusters \cup {None} /\ source = Rows.clusterOf[a]
      BY <1>1, <1>12 DEF Rows
    <2>2. Excludes(q) BY <1>13, <1>14 DEF Excludes
    <2>3. \A b \in Asset : q.role[b] = IF b = a THEN newRole ELSE Rows.role[b]
      BY <1>13, <1>14
    <2> QED BY <1>0, <1>12, <1>14, <2>1, <2>2, <2>3, PatchedSound
  <1>16. /\ CoveredBut(w, {}) /\ w.clusterOf = q.clusterOf /\ SameDrafts(q, w)
    <2>1. CASE newRole = "cover" /\ target # None
      <3>1. a \in MembersIn(q, {target}) \cup {None} BY <1>14 DEF MembersIn
      <3>2. w = Synchronize(q, target, a) /\ target \in Cluster BY <1>6, <1>12, <2>1
      <3>3. /\ CoveredBut(w, {target} \ {target})
            /\ w.clusterOf = q.clusterOf /\ SameDrafts(q, w)
        BY <1>15, <3>1, <3>2, SynchronizeSound DEF Synchronized
      <3>4. {target} \ {target} = {} OBVIOUS
      <3> QED BY <3>3, <3>4
    <2>2. CASE ~(newRole = "cover" /\ target # None) /\ x # None
      <3>1. w = ForgetRepresentative(q, target, a) BY <1>6, <2>2
      <3>2. /\ w \in RowSet
            /\ w.role = q.role /\ w.excluded = q.excluded /\ w.clusterOf = q.clusterOf
            /\ w.clusters = q.clusters /\ SameDrafts(q, w)
            /\ \A k \in Cluster : w.rep[k] = IF k = target /\ q.rep[k] = a THEN None
                                             ELSE q.rep[k]
        BY <1>12, <1>14, <3>1, ForgetRows
      <3>3. CoveredBut(q, {}) BY <1>15, <2>2
      <3>4. NoneDangling(w) /\ Excludes(w)
        BY <3>2, <3>3 DEF CoveredBut, NoneDangling, Excludes, SameDrafts
      <3>5. RepsBut(w, {}) BY <3>2, <3>3 DEF CoveredBut, RepsBut
      <3>6. CoversBut(w, {})
        <4> SUFFICES ASSUME NEW b \in Asset, w.role[b] = "cover", w.clusterOf[b] # None
                     PROVE  w.rep[w.clusterOf[b]] = b
          BY DEF CoversBut
        <4>1. w.clusterOf[b] \in Cluster BY <3>2 DEF RowSet
        <4>2. q.rep[w.clusterOf[b]] = b BY <3>2, <3>3 DEF CoveredBut, CoversBut
        <4>3. w.clusterOf[b] # target \/ b # a
          <5>1. CASE b = a
            <6>1. newRole = "cover" BY <1>13, <1>14, <3>2, <5>1
            <6>2. target = None BY <2>2, <6>1
            <6> QED BY <6>2
          <5> QED BY <5>1
        <4> QED BY <3>2, <4>1, <4>2, <4>3
      <3> QED BY <3>2, <3>4, <3>5, <3>6 DEF CoveredBut
    <2>3. CASE ~(newRole = "cover" /\ target # None) /\ x = None
      <3>1. w = q BY <1>6, <2>3
      <3> QED BY <1>15, <2>3, <3>1 DEF SameDrafts
    <2> QED BY <2>1, <2>2, <2>3
  <1>17. LinksBut(w, {a}) /\ w.link = Rows.link /\ w \in RowSet /\ w.clusterOf[a] = target
    BY <1>14, <1>15, <1>16 DEF LinksBut, SameDrafts, CoveredBut
  <1>18. Sound(v) /\ DatedSince(Rows, v)
    <2>1. CASE moves \/ x \notin {None, "review"}
      <3>1. v = Detach(w, {a}, keep) /\ {a} \in SUBSET Asset BY <1>8, <2>1
      <3>2. \A b \in {a} : keep \in {None, w.clusterOf[b]} BY <1>7, <1>17
      <3>3. (\A X : CoveredBut(w, X) => CoveredBut(v, X)) /\ LinksBut(v, {}) /\ DatedSince(w, v)
        BY <1>0, <1>17, <3>1, <3>2, DetachSound
      <3>4. CoveredBut(v, {}) BY <1>16, <3>3
      <3>5. DatedSince(Rows, v) BY <1>0, <1>17, <3>3, DatedFrom
      <3> QED BY <3>3, <3>4, <3>5 DEF Sound
    <2>2. CASE ~(moves \/ x \notin {None, "review"})
      <3>1. v = w /\ target = source /\ ~moves BY <1>2, <1>8, <2>2
      <3>2. w.clusterOf[a] = Rows.clusterOf[a] BY <1>1, <1>17, <3>1 DEF Rows
      <3>3. LinksBut(Rows, {}) BY <1>0 DEF Sound
      <3>4. w.draftCluster = Rows.draftCluster BY <1>14, <1>16 DEF SameDrafts
      <3>5. LinksBut(w, {}) BY <1>17, <3>2, <3>3, <3>4 DEF LinksBut
      <3>6. DatedSince(Rows, w) BY <1>17 DEF DatedSince
      <3> QED BY <1>16, <3>1, <3>5, <3>6 DEF Sound
    <2> QED BY <2>1, <2>2
  <1>19. removed /\ del => {source} \in SUBSET Cluster BY <1>9, <1>12
  <1>20. Sound(u) /\ DatedSince(Rows, u)
    BY <1>0, <1>10, <1>18, <1>19, DeleteEmptyDated
  <1> QED BY <1>11, <1>20 DEF Edited

\* The representatives of the merged clusters are wrong until these are deleted,
\* and no draft is deleted with them.
LEMMA MergeSound ==
  ASSUME ReviewInv, NEW C \in SUBSET Cluster, NEW c \in Cluster, MergeClusters(C, c)
  PROVE  /\ Edited
         /\ link' = link
         /\ \A d \in Draft : draftCluster[d] # None => draftCluster'[d] # None
  <1>0. Sound(Rows) /\ Rows \in RowSet /\ processed \in SUBSET Asset /\ TypeOK
    BY RowsSound DEF Sound, CoveredBut
  <1>1. PICK S : S = MembersIn(Rows, C) OBVIOUS
  <1>2. PICK kept : kept = IF rep[c] \in S THEN rep[c] ELSE None OBVIOUS
  <1>3. PICK p : p = Place(Rows, S, c) OBVIOUS
  <1>4. PICK q : q = Synchronize(p, c, kept) OBVIOUS
  <1>5. PICK w : w = MoveDrafts(q, C, c) OBVIOUS
  <1>6. PICK u : u = DropClusters(w, C \ {c}) OBVIOUS
  <1>7. C \subseteq Rows.clusters /\ c \in C /\ Commit(u) /\ UNCHANGED jobVars
    BY <1>1, <1>2, <1>3, <1>4, <1>5, <1>6 DEF MergeClusters, Rows
  <1>8. S \in SUBSET Asset /\ \A a \in Asset : a \in S <=> Rows.clusterOf[a] \in C
    BY <1>1 DEF MembersIn
  <1>9. /\ p \in RowSet
        /\ p.role = Rows.role /\ p.excluded = Rows.excluded /\ p.clusters = Rows.clusters
        /\ p.rep = Rows.rep /\ SameDrafts(Rows, p)
        /\ \A a \in Asset : p.clusterOf[a] = IF a \in S THEN c ELSE Rows.clusterOf[a]
    <2>1. Placed(Rows, p, S, c) BY <1>0, <1>3, <1>8, PlaceRows
    <2> QED BY <2>1 DEF Placed
  <1>10. CoveredBut(p, C)
    <2>1. NoneDangling(p) /\ Excludes(p)
      BY <1>0, <1>7, <1>9 DEF Sound, CoveredBut, NoneDangling, Excludes, SameDrafts
    <2>2. CoversBut(p, C)
      BY <1>0, <1>7, <1>8, <1>9 DEF Sound, CoveredBut, CoversBut
    <2>3. RepsBut(p, C)
      <3> SUFFICES ASSUME NEW k \in Cluster \ C, p.rep[k] # None
                   PROVE  p.clusterOf[p.rep[k]] = k
        BY DEF RepsBut
      <3>1. p.rep[k] \in Asset BY <1>9 DEF RowSet
      <3>2. Rows.clusterOf[p.rep[k]] = k BY <1>0, <1>9 DEF Sound, CoveredBut, RepsBut
      <3> QED BY <1>8, <1>9, <3>1, <3>2
    <2> QED BY <1>9, <2>1, <2>2, <2>3 DEF CoveredBut
  <1>11. kept \in MembersIn(p, {c}) \cup {None}
    BY <1>2, <1>8, <1>9 DEF MembersIn
  <1>12. /\ CoveredBut(q, C \ {c}) /\ q.clusterOf = p.clusterOf
         /\ q.clusters = p.clusters /\ SameDrafts(p, q)
    <2>1. Synchronized(p, q, C \ {c}) BY <1>4, <1>10, <1>11, SynchronizeSound
    <2> QED BY <2>1 DEF Synchronized
  <1>13. q \in RowSet BY <1>12 DEF CoveredBut
  <1>14. /\ w \in RowSet
         /\ w.role = q.role /\ w.excluded = q.excluded /\ w.clusterOf = q.clusterOf
         /\ w.clusters = q.clusters /\ w.rep = q.rep /\ w.visited = q.visited /\ w.link = q.link
         /\ \A d \in Draft : w.draftCluster[d] = IF q.draftCluster[d] \in C THEN c
                                                 ELSE q.draftCluster[d]
    BY <1>5, <1>13, MoveDraftsRows
  <1>15. C \ {c} \in SUBSET Cluster OBVIOUS
  <1>16. /\ u \in RowSet
         /\ u.role = w.role /\ u.excluded = w.excluded /\ u.clusterOf = w.clusterOf
         /\ u.clusters = w.clusters \ (C \ {c})
         /\ \A k \in Cluster : u.rep[k] = IF k \in C \ {c} THEN None ELSE w.rep[k]
         /\ \A d \in Draft : w.draftCluster[d] \in C \ {c} => u.draftCluster[d] = None
         /\ \A d \in Draft : w.draftCluster[d] \notin C \ {c} =>
              u.draftCluster[d] = w.draftCluster[d] /\ u.visited[d] = w.visited[d]
         /\ \A a \in Asset :
              u.link[a] = IF w.link[a] # None /\ w.draftCluster[w.link[a]] \in C \ {c}
                          THEN None ELSE w.link[a]
    BY <1>6, <1>14, <1>15, DropClustersRows
  <1>17. \A d \in Draft : /\ w.draftCluster[d] \notin C \ {c}
                          /\ u.draftCluster[d] = IF Rows.draftCluster[d] \in C THEN c
                                                 ELSE Rows.draftCluster[d]
    BY <1>9, <1>12, <1>14, <1>16 DEF SameDrafts
  <1>18. \A a \in Asset : u.link[a] = Rows.link[a]
    <2> SUFFICES ASSUME NEW a \in Asset PROVE u.link[a] = Rows.link[a]
      OBVIOUS
    <2>1. w.link[a] = Rows.link[a] BY <1>9, <1>12, <1>14 DEF SameDrafts
    <2>2. w.link[a] \in Draft \cup {None} BY <1>14 DEF RowSet
    <2> QED BY <1>16, <1>17, <2>1, <2>2
  <1>19. \A a \in Asset : u.clusterOf[a] = IF a \in S THEN c ELSE Rows.clusterOf[a]
    BY <1>9, <1>12, <1>14, <1>16
  <1>20. CoveredBut(u, {})
    <2>1. Excludes(u) BY <1>12, <1>14, <1>16 DEF CoveredBut, Excludes
    <2>2. \A a \in Asset : u.clusterOf[a] \notin C \ {c} BY <1>8, <1>19
    <2>3. NoneDangling(u)
      <3>1. u.clusters = Rows.clusters \ (C \ {c}) BY <1>9, <1>12, <1>14, <1>16
      <3>2. NoneDangling(Rows) BY <1>0 DEF Sound, CoveredBut
      <3> QED BY <1>7, <1>8, <1>17, <1>19, <3>1, <3>2 DEF NoneDangling
    <2>4. CoversBut(u, {})
      <3> SUFFICES ASSUME NEW a \in Asset, u.role[a] = "cover", u.clusterOf[a] # None
                   PROVE  u.rep[u.clusterOf[a]] = a
        BY DEF CoversBut
      <3>1. u.clusterOf[a] \in Cluster BY <1>16 DEF RowSet
      <3>2. q.rep[u.clusterOf[a]] = a
        BY <1>12, <1>14, <1>16, <2>2 DEF CoveredBut, CoversBut
      <3> QED BY <1>14, <1>16, <2>2, <3>1, <3>2
    <2>5. RepsBut(u, {})
      BY <1>12, <1>14, <1>16 DEF CoveredBut, RepsBut
    <2> QED BY <1>16, <2>1, <2>3, <2>4, <2>5 DEF CoveredBut
  <1>21. LinksBut(u, {})
    <2> SUFFICES ASSUME NEW a \in Asset, u.link[a] # None
                 PROVE  /\ u.draftCluster[u.link[a]] # None
                        /\ u.draftCluster[u.link[a]] = u.clusterOf[a]
      BY DEF LinksBut
    <2>1. u.link[a] = Rows.link[a] /\ u.link[a] \in Draft
      BY <1>16, <1>18 DEF RowSet
    <2>2. /\ Rows.draftCluster[u.link[a]] # None
          /\ Rows.draftCluster[u.link[a]] = Rows.clusterOf[a]
      BY <1>0, <2>1 DEF Sound, LinksBut
    <2> QED BY <1>8, <1>17, <1>19, <2>1, <2>2, Constants
  <1>22. DatedSince(Rows, u) BY <1>18 DEF DatedSince
  <1>23. link' = link
    <2>1. link' = u.link /\ Rows.link = link BY <1>7 DEF Commit, Rows
    <2>2. u.link \in [Asset -> Draft \cup {None}] /\ link \in [Asset -> Draft \cup {None}]
      BY <1>0, <1>16 DEF RowSet, TypeOK
    <2>3. u.link = link BY <1>18, <2>1, <2>2
    <2> QED BY <2>1, <2>3
  <1>24. \A d \in Draft : draftCluster[d] # None => draftCluster'[d] # None
    BY <1>7, <1>17, Constants DEF Commit, Rows
  <1> QED BY <1>7, <1>20, <1>21, <1>22, <1>23, <1>24 DEF Edited, Sound

LEMMA SplitSound ==
  ASSUME ReviewInv, NEW c \in Cluster, NEW new \in Cluster, NEW S \in SUBSET Asset,
         SplitCluster(c, S, new)
  PROVE  Edited
  <1>0. Sound(Rows) /\ Rows \in RowSet /\ processed \in SUBSET Asset /\ TypeOK
    BY RowsSound DEF Sound, CoveredBut
  <1>1. PICK remaining : remaining = MembersIn(Rows, {c}) \ S OBVIOUS
  <1>2. PICK i : i = InsertCluster(Rows, new) OBVIOUS
  <1>3. PICK p : p = Place(i, S, new) OBVIOUS
  <1>4. PICK q : q = Detach(p, S, None) OBVIOUS
  <1>5. PICK w : w = Synchronize(q, new, None) OBVIOUS
  <1>6. PICK kept : kept = IF rep[c] \in remaining THEN rep[c] ELSE None OBVIOUS
  <1>7. PICK u : u = Synchronize(w, c, kept) OBVIOUS
  <1>8. /\ c \in Rows.clusters /\ new \notin Rows.clusters /\ S \subseteq MembersIn(Rows, {c})
        /\ Commit(u) /\ UNCHANGED jobVars
    BY <1>1, <1>2, <1>3, <1>4, <1>5, <1>6, <1>7 DEF SplitCluster, Rows
  <1>9. \A a \in S : Rows.clusterOf[a] = c BY <1>8 DEF MembersIn
  <1>10. /\ i \in RowSet
         /\ i.role = Rows.role /\ i.excluded = Rows.excluded /\ i.clusterOf = Rows.clusterOf
         /\ i.clusters = Rows.clusters \cup {new} /\ SameDrafts(Rows, i)
         /\ \A k \in Cluster : i.rep[k] = IF k = new THEN None ELSE Rows.rep[k]
    BY <1>0, <1>2, InsertClusterRows
  <1>11. /\ p \in RowSet
         /\ p.role = i.role /\ p.excluded = i.excluded /\ p.clusters = i.clusters
         /\ p.rep = i.rep /\ SameDrafts(i, p)
         /\ \A a \in Asset : p.clusterOf[a] = IF a \in S THEN new ELSE i.clusterOf[a]
    <2>1. Placed(i, p, S, new) BY <1>3, <1>10, PlaceRows
    <2> QED BY <2>1 DEF Placed
  <1>12. CoveredBut(p, {c, new})
    <2>1. NoneDangling(p) /\ Excludes(p)
      BY <1>0, <1>10, <1>11 DEF Sound, CoveredBut, NoneDangling, Excludes, SameDrafts
    <2>2. CoversBut(p, {c, new})
      <3> SUFFICES ASSUME NEW a \in Asset, p.role[a] = "cover", p.clusterOf[a] # None,
                          p.clusterOf[a] \notin {c, new}
                   PROVE  p.rep[p.clusterOf[a]] = a
        BY DEF CoversBut
      <3>1. p.clusterOf[a] = Rows.clusterOf[a] /\ p.clusterOf[a] \in Cluster
        BY <1>10, <1>11 DEF RowSet
      <3>2. Rows.rep[p.clusterOf[a]] = a
        BY <1>0, <1>10, <1>11, <3>1 DEF Sound, CoveredBut, CoversBut
      <3> QED BY <1>10, <1>11, <3>1, <3>2
    <2>3. RepsBut(p, {c, new})
      <3> SUFFICES ASSUME NEW k \in Cluster \ {c, new}, p.rep[k] # None
                   PROVE  p.clusterOf[p.rep[k]] = k
        BY DEF RepsBut
      <3>1. p.rep[k] \in Asset /\ p.rep[k] = Rows.rep[k] BY <1>10, <1>11 DEF RowSet
      <3>2. Rows.clusterOf[p.rep[k]] = k BY <1>0, <3>1 DEF Sound, CoveredBut, RepsBut
      <3> QED BY <1>9, <1>10, <1>11, <3>1, <3>2
    <2> QED BY <1>11, <2>1, <2>2, <2>3 DEF CoveredBut
  <1>13. LinksBut(p, S) /\ p.link = Rows.link
    BY <1>0, <1>10, <1>11 DEF Sound, LinksBut, SameDrafts
  <1>14. \A a \in S : None \in {None, p.clusterOf[a]} OBVIOUS
  <1>15. /\ q.clusterOf = p.clusterOf /\ CoveredBut(q, {c, new})
         /\ LinksBut(q, {}) /\ DatedSince(p, q)
    <2>1. /\ q.clusterOf = p.clusterOf /\ (\A X : CoveredBut(p, X) => CoveredBut(q, X))
          /\ LinksBut(q, {}) /\ DatedSince(p, q)
      BY <1>0, <1>4, <1>11, <1>13, <1>14, DetachSound
    <2> QED BY <1>12, <2>1
  <1>16. DatedSince(Rows, q) BY <1>0, <1>13, <1>15, DatedFrom
  <1>17. None \in MembersIn(q, {new}) \cup {None} OBVIOUS
  <1>18. CoveredBut(w, {c, new} \ {new}) /\ w.clusterOf = q.clusterOf /\ SameDrafts(q, w)
    BY <1>5, <1>15, <1>17, SynchronizeSound DEF Synchronized
  <1>19. {c, new} \ {new} = {c} BY <1>8
  <1>20. CoveredBut(w, {c}) BY <1>18, <1>19
  <1>21. LinksBut(w, {}) /\ DatedSince(Rows, w)
    BY <1>0, <1>15, <1>16, <1>18, DatedSame DEF LinksBut, SameDrafts
  <1>22. kept \in MembersIn(w, {c}) \cup {None}
    <2>1. CASE rep[c] \in remaining
      <3>1. /\ kept \in Asset /\ Rows.clusterOf[kept] = c /\ kept \notin S
        BY <1>1, <1>6, <2>1 DEF MembersIn
      <3>2. w.clusterOf[kept] = c BY <1>10, <1>11, <1>15, <1>18, <3>1
      <3> QED BY <3>1, <3>2 DEF MembersIn
    <2>2. CASE rep[c] \notin remaining BY <1>6, <2>2
    <2> QED BY <2>1, <2>2
  <1>23. Sound(u) /\ DatedSince(Rows, u)
    BY <1>0, <1>7, <1>20, <1>21, <1>22, CoverSound
  <1> QED BY <1>8, <1>23 DEF Edited

\* A draft is written that no photo refers to, or written again.
Drafted(r, q, d, c) ==
  /\ Sound(q)
  /\ q.draftCluster[d] = c /\ q.link = r.link /\ q.clusterOf = r.clusterOf

LEMMA DraftRows ==
  ASSUME NEW r, Sound(r), NEW d \in Draft, NEW c \in r.clusters,
         r.draftCluster[d] \in {None, c}, NEW x \in Nat \cup {None},
         NEW q, q = [r EXCEPT !.draftCluster[d] = c, !.visited[d] = x]
  PROVE  Drafted(r, q, d, c)
  <1>0. r \in RowSet /\ c \in Cluster BY DEF Sound, CoveredBut, RowSet
  <1>1. /\ q \in RowSet
        /\ q.role = r.role /\ q.excluded = r.excluded /\ q.clusterOf = r.clusterOf
        /\ q.clusters = r.clusters /\ q.rep = r.rep /\ q.link = r.link
        /\ \A e \in Draft : q.draftCluster[e] = IF e = d THEN c ELSE r.draftCluster[e]
    BY <1>0 DEF RowSet
  <1>2. CoveredBut(q, {})
    BY <1>1 DEF Sound, CoveredBut, NoneDangling, CoversBut, RepsBut, Excludes
  <1>3. LinksBut(q, {})
    <2> SUFFICES ASSUME NEW a \in Asset, q.link[a] # None
                 PROVE  /\ q.draftCluster[q.link[a]] # None
                        /\ q.draftCluster[q.link[a]] = q.clusterOf[a]
      BY DEF LinksBut
    <2>1. q.link \in [Asset -> Draft \cup {None}] BY <1>1 DEF RowSet
    <2>2. q.link[a] \in Draft BY <2>1
    <2>3. /\ r.draftCluster[q.link[a]] # None
          /\ r.draftCluster[q.link[a]] = r.clusterOf[a]
      BY <1>1 DEF Sound, LinksBut
    <2> QED BY <1>1, <2>2, <2>3
  <1> QED BY <1>1, <1>2, <1>3 DEF Sound, Drafted

LEMMA CreateDraftSound ==
  ASSUME ReviewInv, NEW d \in Draft, NEW c \in Cluster, NEW S \in SUBSET Asset,
         NEW typed \in BOOLEAN, CreateDraft(d, c, S, typed)
  PROVE  Edited
  <1>0. Sound(Rows) /\ processed \in SUBSET Asset /\ TypeOK BY RowsSound
  <1>1. PICK x : x = IF typed THEN Typed ELSE None OBVIOUS
  <1>2. PICK p : p = [Rows EXCEPT !.draftCluster[d] = c, !.visited[d] = x] OBVIOUS
  <1>3. PICK u : u = Link(p, d, S) OBVIOUS
  <1>4. Commit(u) BY <1>1, <1>2, <1>3 DEF CreateDraft
  <1>5. /\ c \in Rows.clusters /\ Rows.draftCluster[d] = None
        /\ S \subseteq MembersIn(Rows, {c}) /\ UNCHANGED jobVars
    BY DEF CreateDraft, Rows
  <1>6. x \in Nat \cup {None} BY <1>1 DEF Typed
  <1>7. Sound(p) /\ p.draftCluster[d] = c /\ p.link = Rows.link /\ p.clusterOf = Rows.clusterOf
    <2>1. Rows.draftCluster[d] \in {None, c} BY <1>5
    <2>2. Drafted(Rows, p, d, c) BY <1>0, <1>2, <1>5, <1>6, <2>1, DraftRows
    <2> QED BY <2>2 DEF Drafted
  <1>8. S \in SUBSET MembersIn(p, {c}) BY <1>5, <1>7 DEF MembersIn
  <1>9. p.draftCluster[d] # None BY <1>7, Constants
  <1>10. Sound(u) /\ DatedSince(p, u) BY <1>0, <1>3, <1>7, <1>8, <1>9, LinkSound
  <1>11. DatedSince(Rows, u) BY <1>0, <1>7, <1>10, DatedFrom
  <1> QED BY <1>4, <1>5, <1>10, <1>11 DEF Edited

LEMMA PatchDraftSound ==
  ASSUME ReviewInv, NEW d \in Draft, NEW S \in SUBSET Asset, NEW typed \in BOOLEAN,
         PatchDraft(d, S, typed)
  PROVE  Edited
  <1>0. Sound(Rows) /\ Rows \in RowSet /\ processed \in SUBSET Asset /\ TypeOK
    BY RowsSound DEF Sound, CoveredBut
  <1>1. PICK x : x = IF typed THEN Typed ELSE visited[d] OBVIOUS
  <1>2. PICK c : c = draftCluster[d] OBVIOUS
  <1>3. PICK p : p = [Rows EXCEPT !.visited[d] = x] OBVIOUS
  <1>4. PICK u : u = Link(p, d, S) OBVIOUS
  <1>5. Commit(u) BY <1>1, <1>3, <1>4 DEF PatchDraft
  <1>6. /\ c # None /\ S \subseteq MembersIn(Rows, {c}) /\ UNCHANGED jobVars
    BY <1>2 DEF PatchDraft
  <1>7. x \in Nat \cup {None} BY <1>0, <1>1 DEF Typed, TypeOK
  <1>8. /\ p \in RowSet
        /\ p.role = Rows.role /\ p.excluded = Rows.excluded /\ p.clusterOf = Rows.clusterOf
        /\ p.clusters = Rows.clusters /\ p.rep = Rows.rep /\ p.link = Rows.link
        /\ p.draftCluster = Rows.draftCluster
    BY <1>0, <1>3, <1>7 DEF RowSet
  <1>9. Sound(p)
    BY <1>0, <1>8
    DEF Sound, CoveredBut, NoneDangling, CoversBut, RepsBut, Excludes, LinksBut
  <1>10. p.draftCluster[d] = c /\ S \in SUBSET MembersIn(p, {c})
    BY <1>2, <1>6, <1>8 DEF MembersIn, Rows
  <1>11. Sound(u) /\ DatedSince(p, u) BY <1>0, <1>4, <1>6, <1>9, <1>10, LinkSound
  <1>12. DatedSince(Rows, u) BY <1>0, <1>8, <1>11, DatedFrom
  <1> QED BY <1>5, <1>6, <1>11, <1>12 DEF Edited

LEMMA TypeVisitedSound ==
  ASSUME ReviewInv, NEW d \in Draft, TypeVisited(d)
  PROVE  Edited
  <1>0. Sound(Rows) /\ Rows \in RowSet BY RowsSound DEF Sound, CoveredBut
  <1>1. PICK p : p = [Rows EXCEPT !.visited[d] = Typed] OBVIOUS
  <1>2. Commit(p) /\ UNCHANGED jobVars BY <1>1 DEF TypeVisited
  <1>3. /\ p \in RowSet
        /\ p.role = Rows.role /\ p.excluded = Rows.excluded /\ p.clusterOf = Rows.clusterOf
        /\ p.clusters = Rows.clusters /\ p.rep = Rows.rep /\ p.link = Rows.link
        /\ p.draftCluster = Rows.draftCluster
    BY <1>0, <1>1 DEF RowSet, Typed
  <1>4. Sound(p)
    BY <1>0, <1>3
    DEF Sound, CoveredBut, NoneDangling, CoversBut, RepsBut, Excludes, LinksBut
  <1>5. DatedSince(Rows, p) BY <1>3 DEF DatedSince
  <1> QED BY <1>2, <1>4, <1>5 DEF Edited

LEMMA DeleteDraftSound ==
  ASSUME ReviewInv, NEW d \in Draft, DeleteDraft(d)
  PROVE  Edited
  <1>0. Sound(Rows) /\ Rows \in RowSet /\ processed \in SUBSET Asset
    BY RowsSound DEF Sound, CoveredBut
  <1>1. PICK l : l = [a \in Asset |-> IF link[a] = d THEN None ELSE link[a]] OBVIOUS
  <1>2. PICK p : p = [Rows EXCEPT !.draftCluster[d] = None, !.visited[d] = None, !.link = l]
    OBVIOUS
  <1>3. Commit(p) /\ UNCHANGED jobVars BY <1>1, <1>2 DEF DeleteDraft
  <1>4. /\ l \in [Asset -> Draft \cup {None}]
        /\ \A a \in Asset : l[a] = IF Rows.link[a] = d THEN None ELSE Rows.link[a]
    BY <1>0, <1>1 DEF Rows, RowSet
  <1>5. /\ p \in RowSet
        /\ p.role = Rows.role /\ p.excluded = Rows.excluded /\ p.clusterOf = Rows.clusterOf
        /\ p.clusters = Rows.clusters /\ p.rep = Rows.rep /\ p.link = l
        /\ \A e \in Draft : e # d => /\ p.draftCluster[e] = Rows.draftCluster[e]
                                     /\ p.visited[e] = Rows.visited[e]
        /\ p.draftCluster[d] = None
    BY <1>0, <1>2, <1>4 DEF RowSet
  <1>6. CoveredBut(p, {})
    BY <1>0, <1>5 DEF Sound, CoveredBut, NoneDangling, CoversBut, RepsBut, Excludes
  <1>7. LinksBut(p, {})
    <2> SUFFICES ASSUME NEW a \in Asset, p.link[a] # None
                 PROVE  /\ p.draftCluster[p.link[a]] # None
                        /\ p.draftCluster[p.link[a]] = p.clusterOf[a]
      BY DEF LinksBut
    <2>1. p.link[a] = Rows.link[a] /\ p.link[a] \in Draft \ {d}
      BY <1>4, <1>5 DEF RowSet
    <2>2. /\ Rows.draftCluster[p.link[a]] # None
          /\ Rows.draftCluster[p.link[a]] = Rows.clusterOf[a]
      BY <1>0, <2>1 DEF Sound, LinksBut
    <2> QED BY <1>5, <2>1, <2>2
  <1>8. LosesDrafts(Rows, p)
    BY <1>4, <1>5, Constants DEF LosesDrafts
  <1>9. DatedSince(Rows, Rows) BY DEF DatedSince
  <1>10. DatedSince(Rows, p) BY <1>0, <1>8, <1>9, DatedLosing
  <1> QED BY <1>3, <1>6, <1>7, <1>10 DEF Edited, Sound

-----------------------------------------------------------------------------
(* The worker, and every step.                                             *)

\* A step that leaves the rows alone.
LEMMA SameRows ==
  ASSUME ReviewInv, UNCHANGED rowVars,
         status' \in {"draft", "processing", "ready", "failed"}, full' \in BOOLEAN,
         processed' = processed, screens' = screens
  PROVE  ReviewInv'
  BY DEF ReviewInv, RowsAgree, TypeOK, NoDanglingCluster, CoverIsRepresentative,
         RepresentativeInCluster, ExclusionAgrees, LinkInCluster, rowVars, Role

LEMMA ProcessAssetSound ==
  ASSUME ReviewInv, NEW a \in Asset, ProcessAsset(a)
  PROVE  ReviewInv' /\ link' = link
  <1>0. Sound(Rows) /\ Rows \in RowSet /\ TypeOK BY RowsSound DEF Sound, CoveredBut
  <1>1. PICK x : x = IF a \in screens' \cup Duplicate THEN "excluded" ELSE "gallery" OBVIOUS
  <1>2. PICK q : q = SetRole(Rows, {a}, x) OBVIOUS
  <1>3. Commit(q) BY <1>1, <1>2 DEF ProcessAsset
  <1>4. x \in Role /\ x # "cover" /\ {a} \in SUBSET Asset BY <1>1, Constants
  <1>5. /\ q \in RowSet
        /\ q.clusterOf = Rows.clusterOf /\ q.clusters = Rows.clusters /\ q.rep = Rows.rep
        /\ SameDrafts(Rows, q)
        /\ \A b \in Asset : q.role[b] = IF b \in {a} THEN x ELSE Rows.role[b]
        /\ Excludes(Rows) => Excludes(q)
    BY <1>0, <1>2, <1>4, SetRoleRows
  <1>6. CoveredBut(q, {})
    BY <1>0, <1>4, <1>5
    DEF Sound, CoveredBut, NoneDangling, CoversBut, RepsBut, SameDrafts
  <1>7. LinksBut(q, {}) BY <1>0, <1>5 DEF Sound, LinksBut, SameDrafts
  <1>8. Sound(q) BY <1>6, <1>7 DEF Sound
  <1>9. /\ status' \in {"draft", "processing", "ready", "failed"} /\ full' \in BOOLEAN
        /\ processed' \in SUBSET Asset /\ screens' \in SUBSET (Screenshot \cap processed')
    BY <1>0 DEF ProcessAsset, TypeOK
  <1>10. ReviewInv' BY <1>3, <1>8, <1>9, CommitInv
  <1>11. link' = link BY <1>3, <1>5 DEF Commit, SameDrafts, Rows
  <1> QED BY <1>10, <1>11

\* Clusters that are found anew have no draft yet.
LEMMA ReplaceClustersSound ==
  ASSUME ReviewInv, ReplaceClusters
  PROVE  ReviewInv' /\ \A a \in Asset : link'[a] = None
  <1>0. Sound(Rows) /\ Rows \in RowSet /\ TypeOK BY RowsSound DEF Sound, CoveredBut
  <1>1. PICK f \in [Clusterable -> Cluster] :
          LET new    == {f[a] : a \in Clusterable}
              empty  == DropClusters(Place(Rows, Asset, None), clusters)
              placed == [empty EXCEPT !.clusters = new,
                                      !.clusterOf = [a \in Asset |-> IF a \in Clusterable
                                                                      THEN f[a] ELSE None],
                                      !.role = [a \in Asset |-> IF a \in Clusterable
                                                                 THEN "gallery" ELSE role[a]]]
          IN  Commit(placed)
    BY DEF ReplaceClusters
  <1>2. PICK new : new = {f[a] : a \in Clusterable} OBVIOUS
  <1>3. PICK empty : empty = DropClusters(Place(Rows, Asset, None), clusters) OBVIOUS
  <1>4. PICK cl : cl = [a \in Asset |-> IF a \in Clusterable THEN f[a] ELSE None] OBVIOUS
  <1>5. PICK ro : ro = [a \in Asset |-> IF a \in Clusterable THEN "gallery" ELSE role[a]]
    OBVIOUS
  <1>6. PICK q : q = [empty EXCEPT !.clusters = new, !.clusterOf = cl, !.role = ro] OBVIOUS
  <1>7. Commit(q) BY <1>1, <1>2, <1>3, <1>4, <1>5, <1>6
  <1>8. Clusterable \subseteq Asset BY Constants DEF Clusterable
  <1>9. new \in SUBSET Cluster BY <1>2
  <1>10. /\ cl \in [Asset -> Cluster \cup {None}]
         /\ \A a \in Asset : cl[a] \in new \cup {None}
    BY <1>2, <1>4, <1>8
  <1>11. /\ ro \in [Asset -> Role]
         /\ \A a \in Asset : ro[a] = IF a \in Clusterable THEN "gallery" ELSE role[a]
    BY <1>0, <1>5, Constants DEF TypeOK
  <1>12. \A a \in Asset : a \notin Clusterable => cl[a] = None BY <1>4
  <1>13. /\ Sound(empty)
         /\ empty.excluded = Rows.excluded /\ empty.clusters = Rows.clusters \ clusters
         /\ \A a \in Asset : empty.clusterOf[a] = None
    <2>1. clusters \in SUBSET Cluster /\ Asset \in SUBSET Asset BY <1>0 DEF TypeOK
    <2>2. \A a \in Asset : Rows.clusterOf[a] \in clusters \cup {None}
      BY DEF ReviewInv, RowsAgree, NoDanglingCluster, Rows
    <2>3. Dropped(Rows, empty, clusters, Asset) BY <1>0, <1>3, <2>1, <2>2, DropSound
    <2> QED BY <2>3 DEF Dropped
  <1>14. /\ \A a \in Asset : empty.link[a] = None
         /\ \A c \in Cluster : empty.rep[c] = None
         /\ \A d \in Draft : empty.draftCluster[d] = None
    <2>1. \A a \in Asset : empty.link[a] = None BY <1>13 DEF Sound, LinksBut
    <2>2. ASSUME NEW c \in Cluster, empty.rep[c] # None PROVE FALSE
      <3>1. empty.rep[c] \in Asset BY <1>13, <2>2 DEF Sound, CoveredBut, RowSet
      <3>2. empty.clusterOf[empty.rep[c]] = c BY <1>13, <2>2 DEF Sound, CoveredBut, RepsBut
      <3> QED BY <1>13, <3>1, <3>2, Constants
    <2>3. empty.clusters = {} BY <1>13 DEF Rows
    <2>4. \A d \in Draft : empty.draftCluster[d] = None
      BY <1>13, <2>3 DEF Sound, CoveredBut, NoneDangling
    <2> QED BY <2>1, <2>2, <2>4
  <1>15. /\ q \in RowSet
         /\ q.role = ro /\ q.excluded = Rows.excluded /\ q.clusterOf = cl /\ q.clusters = new
         /\ q.rep = empty.rep /\ SameDrafts(empty, q)
    <2>1. empty \in RowSet BY <1>13 DEF Sound, CoveredBut
    <2> QED BY <1>6, <1>9, <1>10, <1>11, <1>13, <2>1 DEF RowSet, SameDrafts
  <1>16. CoveredBut(q, {})
    <2>1. NoneDangling(q) BY <1>10, <1>14, <1>15 DEF NoneDangling, SameDrafts
    <2>2. CoversBut(q, {}) BY <1>11, <1>12, <1>15 DEF CoversBut
    <2>3. RepsBut(q, {}) BY <1>14, <1>15 DEF RepsBut
    <2>4. Excludes(q)
      BY <1>11, <1>15 DEF Excludes, Clusterable, Rows, ReviewInv, RowsAgree, ExclusionAgrees
    <2> QED BY <1>15, <2>1, <2>2, <2>3, <2>4 DEF CoveredBut
  <1>17. LinksBut(q, {}) BY <1>14, <1>15 DEF LinksBut, SameDrafts
  <1>18. /\ status' \in {"draft", "processing", "ready", "failed"} /\ full' \in BOOLEAN
         /\ processed' \in SUBSET Asset /\ screens' \in SUBSET (Screenshot \cap processed')
    BY <1>0 DEF ReplaceClusters, TypeOK
  <1>19. Sound(q) BY <1>16, <1>17 DEF Sound
  <1>20. ReviewInv' BY <1>7, <1>18, <1>19, CommitInv
  <1>21. \A a \in Asset : link'[a] = None BY <1>7, <1>14, <1>15 DEF Commit, SameDrafts
  <1> QED BY <1>20, <1>21

LEMMA EditedInv ==
  ASSUME ReviewInv, Edited
  PROVE  /\ ReviewInv'
         /\ \A d \in Draft : PhotosOf(d)' # PhotosOf(d) /\ Dates(Rows, d)' # {}
              => visited'[d] = Min(Dates(Rows, d)')
  <1>0. TypeOK BY DEF ReviewInv, RowsAgree
  <1>1. PICK q : Sound(q) /\ DatedSince(Rows, q) /\ Commit(q) BY DEF Edited
  <1>2. /\ status' \in {"draft", "processing", "ready", "failed"} /\ full' \in BOOLEAN
        /\ processed' \in SUBSET Asset /\ screens' \in SUBSET (Screenshot \cap processed')
    BY <1>0 DEF Edited, jobVars, TypeOK
  <1>3. ReviewInv' BY <1>1, <1>2, CommitInv
  <1>4. ASSUME NEW d \in Draft, PhotosOf(d)' # PhotosOf(d), Dates(Rows, d)' # {}
        PROVE  visited'[d] = Min(Dates(Rows, d)')
    <2>1. link' = q.link /\ visited' = q.visited /\ processed' = processed
      BY <1>1 DEF Commit, Edited, jobVars
    <2>2. Dates(Rows, d)' = Dates(q, d) BY <2>1 DEF Dates, Rows
    <2>3. PICK a \in Asset : (link[a] = d) # (link'[a] = d)
      BY <1>4 DEF PhotosOf
    <2>4. (Rows.link[a] = d) # (q.link[a] = d) BY <2>1, <2>3 DEF Rows
    <2>5. q.visited[d] = Min(Dates(q, d)) BY <1>1, <1>4, <2>2, <2>4 DEF DatedSince
    <2> QED BY <2>1, <2>2, <2>5
  <1> QED BY <1>3, <1>4

\* Every request.
LEMMA RequestEdits ==
  ASSUME ReviewInv, MoveAssets \/ EditClusters \/ EditDrafts
  PROVE  Edited
  <1>1. CASE MoveAssets
    <2>1. \A S \in Selections : S \in SUBSET Asset BY DEF Selections
    <2>2. ASSUME NEW c \in Cluster, NEW S \in Selections, NEW del \in BOOLEAN,
                 AssignAssets(c, S, del)
          PROVE  Edited
      BY <2>1, <2>2, AssignAssetsSound
    <2>3. ASSUME NEW S \in Selections, NEW del \in BOOLEAN, UnassignAssets(S, del)
          PROVE  Edited
      BY <2>1, <2>3, UnassignAssetsSound
    <2>4. ASSUME NEW c \in Cluster, NEW S \in Selections, NEW del \in BOOLEAN,
                 ReassignToNewCluster(c, S, del)
          PROVE  Edited
      BY <2>1, <2>4, ReassignSound
    <2>5. ASSUME NEW c \in Cluster, NEW S \in Selections, NEW a \in Asset \cup {None},
                 CreateCluster(c, S, a)
          PROVE  Edited
      BY <2>1, <2>5, CreateClusterSound
    <2>6. ASSUME NEW a \in Asset, NEW x \in Role, NEW del \in BOOLEAN,
                 PatchAsset(a, x, FALSE, None, del)
          PROVE  Edited
      <3>1. x \in Role \cup {None} /\ FALSE \in BOOLEAN /\ None \in Cluster \cup {None} OBVIOUS
      <3> QED BY <2>6, <3>1, PatchAssetSound
    <2>7. ASSUME NEW a \in Asset, NEW x \in Role \cup {None}, NEW c \in Cluster \cup {None},
                 NEW del \in BOOLEAN, PatchAsset(a, x, TRUE, c, del)
          PROVE  Edited
      <3>1. TRUE \in BOOLEAN OBVIOUS
      <3> QED BY <2>7, <3>1, PatchAssetSound
    <2> QED BY <1>1, <2>2, <2>3, <2>4, <2>5, <2>6, <2>7 DEF MoveAssets
  <1>2. CASE EditClusters
    <2>1. ASSUME NEW c \in Cluster, NEW a \in Asset \cup {None}, SetRepresentative(c, a)
          PROVE  Edited
      BY <2>1, SetRepresentativeSound
    <2>2. ASSUME NEW C \in SUBSET Cluster, NEW c \in Cluster, MergeClusters(C, c)
          PROVE  Edited
      BY <2>2, MergeSound
    <2>3. ASSUME NEW c \in Cluster, NEW new \in Cluster, NEW S \in Selections,
                 SplitCluster(c, S, new)
          PROVE  Edited
      <3>1. S \in SUBSET Asset BY DEF Selections
      <3> QED BY <2>3, <3>1, SplitSound
    <2> QED BY <1>2, <2>1, <2>2, <2>3 DEF EditClusters
  <1>3. CASE EditDrafts
    <2>1. ASSUME NEW d \in Draft, NEW c \in Cluster, NEW S \in SUBSET Asset,
                 NEW typed \in BOOLEAN, CreateDraft(d, c, S, typed)
          PROVE  Edited
      BY <2>1, CreateDraftSound
    <2>2. ASSUME NEW d \in Draft, NEW S \in SUBSET Asset, NEW typed \in BOOLEAN,
                 PatchDraft(d, S, typed)
          PROVE  Edited
      BY <2>2, PatchDraftSound
    <2>3. ASSUME NEW d \in Draft, TypeVisited(d) PROVE Edited
      BY <2>3, TypeVisitedSound
    <2>4. ASSUME NEW d \in Draft, DeleteDraft(d) PROVE Edited
      BY <2>4, DeleteDraftSound
    <2> QED BY <1>3, <2>1, <2>2, <2>3, <2>4 DEF EditDrafts
  <1> QED BY <1>1, <1>2, <1>3

\* Every step of the worker: it links no photo to a draft.
LEMMA WorkerStep ==
  ASSUME ReviewInv, RunJob
  PROVE  ReviewInv' /\ (link' = link \/ \A a \in Asset : link'[a] = None)
  <1>0. TypeOK BY DEF ReviewInv, RowsAgree
  <1>1. ASSUME StartRun \/ FinishRun \/ FailRun
        PROVE  ReviewInv' /\ link' = link
    <2>1. UNCHANGED rowVars /\ processed' = processed /\ screens' = screens
      BY <1>1 DEF StartRun, FinishRun, FailRun
    <2>2. status' \in {"draft", "processing", "ready", "failed"} /\ full' \in BOOLEAN
      BY <1>0, <1>1 DEF StartRun, FinishRun, FailRun, TypeOK
    <2>3. ReviewInv' BY <2>1, <2>2, SameRows
    <2> QED BY <2>1, <2>3 DEF rowVars
  <1>2. ASSUME NEW a \in Asset, ProcessAsset(a) PROVE ReviewInv' /\ link' = link
    BY <1>2, ProcessAssetSound
  <1>3. ASSUME ReplaceClusters PROVE ReviewInv' /\ \A a \in Asset : link'[a] = None
    BY <1>3, ReplaceClustersSound
  <1> QED BY <1>1, <1>2, <1>3 DEF RunJob

LEMMA InitReview == Init => ReviewInv
  <1> SUFFICES ASSUME Init PROVE ReviewInv
    OBVIOUS
  <1>1. TypeOK BY Constants DEF Init, TypeOK
  <1> QED
    BY <1>1, Constants
    DEF Init, ReviewInv, RowsAgree, NoDanglingCluster, CoverIsRepresentative,
        RepresentativeInCluster, ExclusionAgrees, LinkInCluster

LEMMA NextReview == ReviewInv /\ [Next]_vars => ReviewInv'
  <1> SUFFICES ASSUME ReviewInv, [Next]_vars PROVE ReviewInv'
    OBVIOUS
  <1>1. CASE MoveAssets \/ EditClusters \/ EditDrafts BY <1>1, RequestEdits, EditedInv
  <1>2. CASE RunJob BY <1>2, WorkerStep
  <1>3. CASE UNCHANGED vars
    <2>1. /\ UNCHANGED rowVars /\ status' = status /\ full' = full
          /\ processed' = processed /\ screens' = screens
      BY <1>3 DEF vars, jobVars
    <2>2. TypeOK BY DEF ReviewInv, RowsAgree
    <2>3. status' \in {"draft", "processing", "ready", "failed"} /\ full' \in BOOLEAN
      BY <2>1, <2>2 DEF TypeOK
    <2> QED BY <2>1, <2>3, SameRows
  <1> QED BY <1>1, <1>2, <1>3 DEF Next

LEMMA ReviewInvariant == Spec => []ReviewInv
  BY InitReview, NextReview, PTL DEF Spec

-----------------------------------------------------------------------------
(* The theorems.                                                           *)

\* After any sequence of requests and of jobs that fail and are retried: photos
\* and drafts are in clusters that exist, a cover is the representative of its
\* cluster and a representative one of its photos, and role and exclusion agree.
THEOREM RowsAlwaysAgree == Spec => []RowsAgree
  <1>1. ReviewInv => RowsAgree BY DEF ReviewInv
  <1> QED BY <1>1, ReviewInvariant, PTL

\* A photo is in a review draft of its own cluster or in none.
THEOREM LinksStayInCluster == Spec => []LinkInCluster
  <1>1. ReviewInv => LinkInCluster BY DEF ReviewInv
  <1> QED BY <1>1, ReviewInvariant, PTL

\* Whatever changes the photos of a draft leaves it the date of its oldest photo,
\* in the draft that it joins and in the one that it leaves.
THEOREM DraftsAreDated == Spec => DatesFollowPhotos
  <1>1. ReviewInv /\ [Next]_vars =>
          [link' # link =>
             \A d \in Draft : PhotosOf(d)' # PhotosOf(d) /\ Dates(Rows, d)' # {}
               => visited'[d] = Min(Dates(Rows, d)')]_vars
    <2> SUFFICES ASSUME ReviewInv, [Next]_vars, link' # link,
                        NEW d \in Draft, PhotosOf(d)' # PhotosOf(d), Dates(Rows, d)' # {}
                 PROVE  visited'[d] = Min(Dates(Rows, d)')
      OBVIOUS
    <2>1. CASE MoveAssets \/ EditClusters \/ EditDrafts BY <2>1, RequestEdits, EditedInv
    <2>2. CASE RunJob
      <3>1. \A a \in Asset : link'[a] = None BY <2>2, WorkerStep
      <3>2. PICK a \in processed' : link'[a] = d BY DEF Dates, Rows
      <3>3. processed' \subseteq Asset BY <2>2, WorkerStep DEF ReviewInv, RowsAgree, TypeOK
      <3> QED BY <3>1, <3>2, <3>3, Constants
    <2>3. CASE UNCHANGED vars BY <2>3 DEF vars, rowVars
    <2> QED BY <2>1, <2>2, <2>3 DEF Next
  <1> QED BY <1>1, ReviewInvariant, PTL DEF Spec, DatesFollowPhotos

\* Merging clusters deletes no draft and moves no photo out of one.
THEOREM MergesKeepDrafts == Spec => MergeKeepsDrafts
  <1>1. ReviewInv =>
          [~(clusters \subseteq clusters') /\ Merged =>
             /\ link' = link
             /\ \A d \in Draft : draftCluster[d] # None => draftCluster'[d] # None]_vars
    <2> SUFFICES ASSUME ReviewInv, Merged
                 PROVE  /\ link' = link
                        /\ \A d \in Draft : draftCluster[d] # None => draftCluster'[d] # None
      OBVIOUS
    <2>1. PICK C \in SUBSET clusters : \E c \in C : MergeClusters(C, c) BY DEF Merged
    <2>2. PICK c \in C : MergeClusters(C, c) BY <2>1
    <2>3. C \in SUBSET Cluster /\ c \in Cluster
      BY DEF ReviewInv, RowsAgree, TypeOK
    <2> QED BY <2>2, <2>3, MergeSound
  <1> QED BY <1>1, ReviewInvariant, PTL DEF MergeKeepsDrafts
=============================================================================
