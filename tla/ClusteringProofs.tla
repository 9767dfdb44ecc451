--------------------------- MODULE ClusteringProofs ---------------------------
(***************************************************************************)
(* What the clusters are, for all photos, distances and radii: the loops of*)
(* cluster_points compute the first fit, and every photo the reviewer did  *)
(* not place by hand is near the point of its cluster.                     *)
(***************************************************************************)
EXTENDS Clustering, WellFoundedInduction, TLAPS

LEMMA Constants ==
  /\ Photo \subseteq Nat /\ None \notin Photo /\ None \notin Spot
  /\ Dist \in [Spot -> [Spot -> Nat]] /\ \A s \in Spot : Dist[s][s] = 0
  /\ Radius \in Nat /\ MaxEdits \in Nat
  BY ClusteringAssumption

-----------------------------------------------------------------------------
(* The medoid is one of the photos: the least of them by cost and id.      *)

NatLess == {p \in Nat \X Nat : p[1] < p[2]}

LEMMA LeastNumber ==
  ASSUME NEW T \in SUBSET Nat, T # {}
  PROVE  \E x \in T : \A y \in T : x <= y
  <1>1. IsWellFoundedOn(NatLess, Nat) BY NatLessThanWellFounded DEF OpToRel, NatLess
  <1>2. PICK x \in T : \A y \in T : <<y, x>> \notin NatLess BY <1>1, WFMin
  <1>3. \A y \in T : ~(y < x) BY <1>2 DEF NatLess
  <1> QED BY <1>3

LEMMA CostType ==
  ASSUME at \in [Photo -> Spot], NEW S \in SUBSET Photo, NEW m \in S
  PROVE  Cost(S, m) \in Nat
  <1> DEFINE d == [x \in S |-> Dist[at[m]][at[x]]]
  <1>1. d \in [S -> Distance] BY DEF Distance
  <1> HIDE DEF d
  <1>2. Total[d] \in Nat BY <1>1, ClusteringAssumption
  <1> QED BY <1>2 DEF Cost, d

LEMMA StrictlyLess == \A i, j \in Nat : i <= j /\ i # j => i < j
  OBVIOUS

LEMMA MedoidIn ==
  ASSUME at \in [Photo -> Spot], NEW S \in SUBSET Photo, S # {}
  PROVE  Medoid(S) \in S
  <1> DEFINE costs == {Cost(S, y) : y \in S}
  <1>1. costs \in SUBSET Nat /\ costs # {}
    <2>1. \A y \in S : Cost(S, y) \in Nat BY CostType
    <2>2. \A k \in costs : k \in Nat BY <2>1
    <2>3. costs # {} OBVIOUS
    <2> QED BY <2>2, <2>3
  <1>2. PICK c \in costs : \A k \in costs : c <= k BY <1>1, LeastNumber
  <1> DEFINE cheap == {y \in S : Cost(S, y) = c}
  <1>3. cheap \in SUBSET Nat /\ cheap # {} BY <1>2, Constants
  <1>4. PICK m \in cheap : \A k \in cheap : m <= k BY <1>3, LeastNumber
  <1>5. ASSUME NEW x \in S \ {m}
        PROVE  Cost(S, m) < Cost(S, x) \/ (Cost(S, m) = Cost(S, x) /\ m < x)
    <2>1. Cost(S, m) \in Nat /\ Cost(S, x) \in Nat BY CostType
    <2>2. Cost(S, m) <= Cost(S, x) BY <1>2, <1>4
    <2>3. m \in Nat /\ x \in Nat /\ m # x BY Constants
    <2>4. CASE Cost(S, m) = Cost(S, x)
      <3>1. m <= x BY <1>4, <2>4
      <3>2. m < x BY <2>3, <3>1, StrictlyLess
      <3> QED BY <2>4, <3>2
    <2>5. CASE Cost(S, m) # Cost(S, x) BY <2>1, <2>2, <2>5, StrictlyLess
    <2> QED BY <2>4, <2>5
  <1> QED BY <1>4, <1>5 DEF Medoid

LEMMA SameGeometry ==
  ASSUME UNCHANGED at, NEW S
  PROVE  Medoid(S)' = Medoid(S) /\ Fits(S)' = Fits(S)
  <1>1. \A m : Cost(S, m)' = Cost(S, m) BY DEF Cost
  <1>2. Medoid(S)' = Medoid(S) BY <1>1 DEF Medoid
  <1> QED BY <1>2 DEF Fits

LEMMA OneFits ==
  ASSUME at \in [Photo -> Spot], NEW x \in Photo
  PROVE  Fits({x})
  <1>1. {x} \in SUBSET Photo /\ {x} # {} OBVIOUS
  <1>2. Medoid({x}) = x BY <1>1, MedoidIn
  <1>3. Dist[at[x]][at[x]] = 0 /\ Radius \in Nat BY Constants
  <1> QED BY <1>2, <1>3 DEF Fits

-----------------------------------------------------------------------------
LEMMA ClusterTypeInit == Init => TypeOK
  BY Constants DEF Init, TypeOK, Cluster

SeedInv == members # {} => seed \in members

LEMMA ClusterTypeStep == TypeOK /\ SeedInv /\ [Next]_vars => TypeOK' /\ SeedInv'
  <1> SUFFICES ASSUME TypeOK, SeedInv, [Next]_vars PROVE TypeOK' /\ SeedInv' OBVIOUS
  <1> USE Constants DEF TypeOK, SeedInv, Cluster, rowVars, scanVars
  <1>1. CASE UNCHANGED vars BY <1>1 DEF vars
  <1>2. ASSUME NEW X \in Selections, NEW screened \in SUBSET X, StartScan(X, screened)
        PROVE  TypeOK' /\ SeedInv'
    BY <1>2 DEF StartScan, Selections
  <1>3. ASSUME NEW x \in Photo, Seed(x) \/ Join(x) \/ Pass(x) PROVE TypeOK' /\ SeedInv'
    BY <1>3 DEF Seed, Join, Pass, Candidate, Least
  <1>4. CASE Close
    <2>1. members \in SUBSET Photo /\ members # {} BY <1>4 DEF Close
    <2>2. Medoid(members) \in Photo BY <2>1, MedoidIn
    <2>3. [seed |-> seed, members |-> members, center |-> at[Medoid(members)]] \in Found
      BY <1>4, <2>1, <2>2 DEF Close, Found
    <2> QED BY <1>4, <2>3 DEF Close
  <1>5. CASE Replace
    <2>1. \A x \in Photo : ClusterAfter(x) \in Photo \cup {None} BY DEF ClusterAfter, Found
    <2>2. \A c \in Photo : center'[c] \in Spot \cup {None} BY <1>5 DEF Replace, Found
    <2> QED BY <1>5, <2>1, <2>2 DEF Replace, Leave
  <1>6. CASE Finish \/ Fail BY <1>6 DEF Finish, Fail, Leave
  <1>7. ASSUME NEW C \in SUBSET Cluster, NEW c \in Cluster, Merge(C, c) PROVE TypeOK' /\ SeedInv'
    <2>1. Members(C) \in SUBSET Photo /\ Members(C) # {} BY <1>7 DEF Merge, Members
    <2>2. at[Medoid(Members(C))] \in Spot BY <2>1, MedoidIn
    <2> DEFINE point == at[Medoid(Members(C))]
    <2> HIDE DEF point
    <2>3. /\ center' = [k \in Cluster |-> IF k = c THEN point ELSE IF k \in C THEN None ELSE center[k]]
          /\ point \in Spot
      BY <1>7, <2>2 DEF Merge, point
    <2>4. center' \in [Cluster -> Spot \cup {None}] BY <2>3
    <2>5. clusterOf' \in [Photo -> Cluster \cup {None}] BY <1>7 DEF Merge, Move
    <2>6. Edit /\ UNCHANGED excluded /\ byHand' \subseteq byHand BY <1>7 DEF Merge
    <2> QED BY <2>4, <2>5, <2>6 DEF Edit
  <1>8. ASSUME NEW c \in Cluster, NEW new \in Cluster, NEW S \in Selections, Split(c, S, new)
        PROVE  TypeOK' /\ SeedInv'
    <2>1. /\ S \in SUBSET Photo /\ S # {} /\ Members({c}) \ S \in SUBSET Photo
          /\ Members({c}) \ S # {}
      BY <1>8 DEF Split, Members, Selections
    <2>2. at[Medoid(S)] \in Spot /\ at[Medoid(Members({c}) \ S)] \in Spot
      BY <2>1, MedoidIn
    <2> DEFINE p == at[Medoid(S)]  q == at[Medoid(Members({c}) \ S)]
    <2> HIDE DEF p, q
    <2>3. center' = [center EXCEPT ![new] = p, ![c] = q] /\ p \in Spot /\ q \in Spot
      BY <1>8, <2>2 DEF Split, p, q
    <2>4. center' \in [Cluster -> Spot \cup {None}] BY <2>3
    <2>5. clusterOf' \in [Photo -> Cluster \cup {None}] BY <1>8 DEF Split, Move
    <2>6. Edit /\ UNCHANGED excluded /\ byHand' \subseteq byHand BY <1>8 DEF Split
    <2> QED BY <2>4, <2>5, <2>6 DEF Edit
  <1>9. ASSUME NEW S \in Selections, NEW c \in Cluster \cup {None}, NEW gone, Assign(S, c, gone)
        PROVE  TypeOK' /\ SeedInv'
    BY <1>9 DEF Assign, Edit, MoveFrom, Selections
  <1>10. ASSUME NEW S \in Selections, NEW new \in Cluster, NEW mean \in Spot, NEW gone,
                Reassign(S, new, mean, gone)
         PROVE  TypeOK' /\ SeedInv'
    BY <1>10 DEF Reassign, Edit, MoveFrom, Selections
  <1>11. ASSUME NEW x \in Photo, Exclude(x) PROVE TypeOK' /\ SeedInv'
    BY <1>11 DEF Exclude, Edit
  <1>12. ASSUME NEW c \in Cluster, NEW where \in Spot, PatchPoint(c, where)
         PROVE  TypeOK' /\ SeedInv'
    <2>1. center' \in [Cluster -> Spot \cup {None}] BY <1>12 DEF PatchPoint
    <2>2. byHand' \subseteq Photo BY <1>12 DEF PatchPoint, Members
    <2>3. UNCHANGED <<excluded, clusterOf>> /\ Edit BY <1>12 DEF PatchPoint
    <2> QED BY <2>1, <2>2, <2>3 DEF Edit
  <1> QED BY <1>1, <1>2, <1>3, <1>4, <1>5, <1>6, <1>7, <1>8, <1>9, <1>10, <1>11, <1>12
          DEF Next, Scan, Review

\* Every state is well typed: the representative of a cluster is always found.
THEOREM ClusteringTypeCorrect == Spec => []TypeOK
  <1>1. Init => SeedInv BY DEF Init, SeedInv
  <1> QED BY <1>1, ClusterTypeInit, ClusterTypeStep, PTL DEF Spec

-----------------------------------------------------------------------------
(* The loops.                                                              *)

FitsFirst(f) ==
  /\ Least(f.seed, Points \ Before(f)) /\ f.seed \in f.members
  /\ \A x \in Points \ (Before(f) \cup {f.seed}) :
       x \in f.members <=> Fits({m \in f.members : m < x} \cup {x})

\* The inner loop: the photos it has seen, members and passed, are those of
\* smaller ids, and the first fit so far.
InnerInv ==
  members # {} =>
    /\ Least(seed, members \cup remaining)
    /\ \A x \in members \cup passed, y \in remaining \ passed : x < y
    /\ \A x \in (members \cup passed) \ {seed} :
         x \in members <=> Fits({m \in members : m < x} \cup {x})
    /\ Fits(members)

\* The outer loop: a cluster has the smallest id of what was left to it.
OuterInv ==
  \A f \in found :
    /\ FitsFirst(f)
    /\ \A y \in members \cup remaining : f.seed < y

ScanInv == status = "scanning" => EachPhotoOnce /\ InnerInv /\ OuterInv

LEMMA SeedStep ==
  ASSUME TypeOK, ScanInv, NEW x \in Photo, Seed(x)
  PROVE  ScanInv'
  <1> USE DEF Seed, rowVars
  <1>1. EachPhotoOnce' BY DEF ScanInv, EachPhotoOnce, Points, Least
  <1>2. InnerInv'
    <2>1. Least(x, remaining) /\ remaining \subseteq Nat BY Constants DEF TypeOK
    <2>2. Least(seed, members \cup remaining)' BY <2>1 DEF Least
    <2>3. \A y \in remaining' : x < y BY <2>1 DEF Least
    <2>4. Fits(members)'
      <3>1. Fits({x}) BY OneFits DEF TypeOK
      <3> QED BY <3>1, SameGeometry
    <2> QED BY <2>2, <2>3, <2>4 DEF InnerInv
  <1>3. OuterInv'
    <2>1. UNCHANGED <<found, processed, excluded, at>> OBVIOUS
    <2>2. \A f : FitsFirst(f)' <=> FitsFirst(f)
      BY <2>1, SameGeometry DEF FitsFirst, Least, Points, Before
    <2>3. (members \cup remaining)' \subseteq members \cup remaining BY DEF Least
    <2> QED BY <2>1, <2>2, <2>3 DEF ScanInv, OuterInv
  <1> QED BY <1>1, <1>2, <1>3 DEF ScanInv

LEMMA CandidateStep ==
  ASSUME TypeOK, SeedInv, ScanInv, NEW x \in Photo, Join(x) \/ Pass(x)
  PROVE  ScanInv'
  <1>1. /\ status = "scanning" /\ members # {} /\ x \in remaining \ passed
        /\ \A y \in remaining \ passed : x <= y
        /\ UNCHANGED <<at, processed, excluded, found, seed>>
        /\ EachPhotoOnce /\ InnerInv /\ OuterInv
        /\ members \cup remaining = (members \cup remaining)'
        /\ members' # {} /\ status' = status
    BY DEF Join, Pass, Candidate, Least, ScanInv, rowVars
  <1>2. members \cup remaining \subseteq Nat BY Constants DEF TypeOK
  <1>3. EachPhotoOnce'
    BY <1>1 DEF EachPhotoOnce, Points, Join, Pass
  <1>4. \A S : Fits(S)' = Fits(S) BY <1>1, SameGeometry
  <1>5. OuterInv'
    <2>1. \A f : FitsFirst(f)' <=> FitsFirst(f)
      BY <1>1, <1>4 DEF FitsFirst, Least, Points, Before
    <2> QED BY <1>1, <2>1 DEF OuterInv
  <1>6. x # seed BY <1>1 DEF EachPhotoOnce, SeedInv
  <1>7. \A y \in members \cup passed : y < x BY <1>1 DEF InnerInv
  <1>8. \A y \in (remaining \ passed) \ {x} : x < y BY <1>1, <1>2
  <1>9. \A y, z \in members \cup remaining : ~(y < z /\ z < y) BY <1>2
  <1>10. Least(seed, members \cup remaining)' BY <1>1 DEF Least, InnerInv
  <1>11. CASE Join(x)
    <2>1. members' = members \cup {x} /\ remaining' = remaining \ {x} /\ passed' = passed
          /\ Fits(members \cup {x})
      BY <1>11 DEF Join
    <2>2. \A y \in (members \cup passed)', z \in (remaining \ passed)' : y < z
      BY <1>1, <1>8, <2>1 DEF InnerInv
    <2>3. ASSUME NEW y \in (members \cup passed) \ {seed}
          PROVE  y \in members' <=> Fits({m \in members' : m < y} \cup {y})
      <3>1. y < x /\ y # x /\ ~(x < y) BY <1>1, <1>2, <1>7, <1>9 DEF TypeOK
      <3>2. {m \in members' : m < y} = {m \in members : m < y} BY <2>1, <3>1
      <3> QED BY <1>1, <2>1, <3>1, <3>2 DEF InnerInv
    <2>4. {m \in members' : m < x} \cup {x} = members \cup {x} BY <1>7, <2>1
    <2>5. \A y \in (members \cup passed)' \ {seed} :
            y \in members' <=> Fits({m \in members' : m < y} \cup {y})
      BY <2>1, <2>3, <2>4
    <2> QED BY <1>1, <1>3, <1>4, <1>5, <1>10, <2>1, <2>2, <2>5 DEF ScanInv, InnerInv
  <1>12. CASE Pass(x)
    <2>1. members' = members /\ remaining' = remaining /\ passed' = passed \cup {x}
          /\ ~Fits(members \cup {x})
      BY <1>12 DEF Pass
    <2>2. \A y \in (members \cup passed)', z \in (remaining \ passed)' : y < z
      BY <1>1, <1>8, <2>1 DEF InnerInv
    <2>3. {m \in members : m < x} \cup {x} = members \cup {x} BY <1>7
    <2>4. x \notin members BY <1>1 DEF EachPhotoOnce
    <2>5. \A y \in (members \cup passed)' \ {seed} :
            y \in members' <=> Fits({m \in members' : m < y} \cup {y})
      BY <1>1, <2>1, <2>3, <2>4 DEF InnerInv
    <2> QED BY <1>1, <1>3, <1>4, <1>5, <1>10, <2>1, <2>2, <2>5 DEF ScanInv, InnerInv
  <1> QED BY <1>11, <1>12

LEMMA CloseStep ==
  ASSUME TypeOK, SeedInv, ScanInv, Close
  PROVE  ScanInv'
  <1>0. PICK new : new = [seed |-> seed, members |-> members, center |-> at[Medoid(members)]]
    OBVIOUS
  <1>1. /\ new.seed = seed /\ new.members = members
        /\ found' = found \cup {new} /\ members' = {} /\ remaining' = remaining
        /\ remaining = passed /\ members # {} /\ status = "scanning" /\ seed \in members
        /\ UNCHANGED <<at, processed, excluded>>
        /\ EachPhotoOnce /\ InnerInv /\ OuterInv
    BY <1>0 DEF Close, ScanInv, SeedInv, rowVars
  <1>2. members \cup remaining \subseteq Nat BY Constants DEF TypeOK
  <1>3. EachPhotoOnce' BY <1>1 DEF EachPhotoOnce, Points
  <1>4. \A S : Fits(S)' = Fits(S) BY <1>1, SameGeometry
  <1>5. \A y \in remaining : seed < y
    <2>1. \A y \in remaining : seed <= y /\ seed # y
      BY <1>1 DEF InnerInv, Least, EachPhotoOnce
    <2> QED BY <1>1, <1>2, <2>1
  <1>6. \A f \in found : f.seed < seed BY <1>1 DEF OuterInv
  <1>7. \A f \in found : f.seed \in Nat BY Constants DEF TypeOK, Found
  <1>8. \A f \in found : FitsFirst(f)'
    <2> SUFFICES ASSUME NEW f \in found PROVE FitsFirst(f)' OBVIOUS
    <2>1. f.seed \in Nat /\ seed \in Nat /\ f.seed < seed BY <1>1, <1>2, <1>6, <1>7
    <2>2. ~(new.seed < f.seed) BY <1>1, <2>1
    <2>3. Before(f)' = Before(f) BY <1>1, <2>2 DEF Before
    <2>4. FitsFirst(f) BY <1>1 DEF OuterInv
    <2> QED BY <1>1, <1>4, <2>3, <2>4 DEF FitsFirst, Points
  <1>9. FitsFirst(new)'
    <2>1. ~(new.seed < new.seed) BY <1>1, <1>2
    <2>2. Before(new)' = UNION {g.members : g \in found}
      <3>1. {g \in found' : g.seed < new.seed} = found BY <1>1, <1>6, <2>1
      <3> QED BY <3>1 DEF Before
    <2>3. (Points \ Before(new))' = members \cup remaining
      BY <1>1, <2>2 DEF EachPhotoOnce, Points
    <2>4. \A x \in (members \cup remaining) \ {seed} :
            x \in members <=> Fits({m \in members : m < x} \cup {x})
      BY <1>1 DEF InnerInv
    <2>5. (Points \ (Before(new) \cup {new.seed}))' = (members \cup remaining) \ {seed}
      BY <1>1, <2>3
    <2>6. Least(seed, members \cup remaining) BY <1>1 DEF InnerInv
    <2> QED BY <1>1, <1>4, <2>3, <2>4, <2>5, <2>6 DEF FitsFirst, Least
  <1>10. OuterInv' BY <1>1, <1>5, <1>8, <1>9 DEF OuterInv
  <1> QED BY <1>1, <1>3, <1>10 DEF ScanInv, InnerInv

LEMMA ScanStep == TypeOK /\ SeedInv /\ ScanInv /\ [Next]_vars => ScanInv'
  <1> SUFFICES ASSUME TypeOK, SeedInv, ScanInv, [Next]_vars PROVE ScanInv' OBVIOUS
  <1>1. CASE UNCHANGED vars
    <2>1. \A S : Fits(S)' = Fits(S) BY <1>1, SameGeometry DEF vars
    <2> QED BY <1>1, <2>1 DEF vars, rowVars, scanVars, ScanInv, EachPhotoOnce, InnerInv, OuterInv,
                              FitsFirst, Before, Points, Least
  <1>2. ASSUME NEW X \in Selections, NEW screened \in SUBSET X, StartScan(X, screened)
        PROVE  ScanInv'
    BY <1>2 DEF StartScan, ScanInv, EachPhotoOnce, InnerInv, OuterInv, Points
  <1>3. CASE Replace \/ Finish \/ Fail BY <1>3 DEF Replace, Finish, Fail, ScanInv
  <1>4. CASE Review
    <2>1. Edit BY <1>4 DEF Review, Merge, Split, Assign, Reassign, PatchPoint, Exclude
    <2> QED BY <2>1 DEF Edit, ScanInv
  <1> QED BY <1>1, <1>2, <1>3, <1>4, SeedStep, CandidateStep, CloseStep DEF Next, Scan

ScanTypes == TypeOK /\ SeedInv

LEMMA ScanInvariant == Spec => [](ScanTypes /\ ScanInv)
  <1>1. Init => ScanTypes /\ ScanInv
    BY ClusterTypeInit DEF Init, ScanTypes, SeedInv, ScanInv
  <1>2. ScanTypes /\ ScanInv /\ [Next]_vars => (ScanTypes /\ ScanInv)'
    BY ClusterTypeStep, ScanStep DEF ScanTypes
  <1> QED BY <1>1, <1>2, PTL DEF Spec

\* The loops of cluster_points compute the first fit, whatever the distances.
THEOREM ComputesFirstFit == Spec => []FirstFit
  <1>1. ScanInv => FirstFit BY DEF ScanInv, OuterInv, FitsFirst, FirstFit
  <1> QED BY <1>1, ScanInvariant, PTL

-----------------------------------------------------------------------------
(* The rows.                                                               *)

\* No photo is in a cluster that has no row, whoever put it there.
CenterInv == \A x \in Photo : clusterOf[x] # None => center[clusterOf[x]] # None

Near(x) == Dist[center[clusterOf[x]]][at[x]] <= Radius

NearInv ==
  /\ CenterInv
  /\ \A x \in Photo \ byHand : clusterOf[x] # None => Near(x)
  /\ \A f \in found : \A x \in f.members : Dist[f.center][at[x]] <= Radius

\* All of S are near the representative of S.
LEMMA FitsNear ==
  ASSUME NEW S, Fits(S), NEW x \in S
  PROVE  Dist[at[Medoid(S)]][at[x]] <= Radius
  BY DEF Fits

LEMMA ReplaceKeepsNear ==
  ASSUME TypeOK, ScanInv, NearInv, Replace
  PROVE  NearInv'
  <1> USE DEF TypeOK, Cluster
  <1>1. ASSUME NEW f \in found
        PROVE  /\ f.seed \in Photo /\ f.center \in Spot /\ f.center # None
               /\ f.seed # None /\ f.seed \in f.members
    <2>1. f \in Found BY <1>1
    <2>2. f.seed \in Photo /\ f.center \in Spot BY <2>1 DEF Found
    <2>3. f.seed \in f.members BY <1>1 DEF Replace, ScanInv, OuterInv, FitsFirst
    <2> QED BY <2>2, <2>3, Constants
  <1>2. \A f, g \in found : f # g => f.members \cap g.members = {}
    BY DEF Replace, ScanInv, EachPhotoOnce
  <1>3. ASSUME NEW f \in found PROVE center'[f.seed] = f.center
    <2>1. \A g \in found : g.seed = f.seed => g = f BY <1>1, <1>2, <1>3
    <2> QED BY <1>1, <1>3, <2>1 DEF Replace
  <1>4. ASSUME NEW x \in Photo, clusterOf'[x] # None
        PROVE  center'[clusterOf'[x]] # None /\ Near(x)'
    <2>1. clusterOf'[x] = ClusterAfter(x) BY <1>4 DEF Replace
    <2>2. PICK f \in found : x \in f.members BY <1>4, <2>1 DEF ClusterAfter
    <2>3. clusterOf'[x] = f.seed BY <1>2, <2>1, <2>2 DEF ClusterAfter
    <2>4. at' = at BY DEF Replace
    <2> QED BY <1>1, <1>3, <2>2, <2>3, <2>4 DEF Near, NearInv
  <1>5. found' = {} BY DEF Replace, Leave
  <1> QED BY <1>4, <1>5 DEF NearInv, CenterInv

LEMMA MergeKeepsNear ==
  ASSUME TypeOK, NearInv, NEW C \in SUBSET Cluster, NEW c \in Cluster, Merge(C, c)
  PROVE  NearInv'
  <1> USE DEF TypeOK, Cluster
  <1>1. PICK S \in SUBSET Photo, p \in Spot :
          /\ S = Members(C) /\ p = at[Medoid(S)] /\ Fits(S) /\ c \in C
          /\ clusterOf' = [x \in Photo |-> IF x \in S THEN c ELSE clusterOf[x]]
          /\ center' = [k \in Cluster |-> IF k = c THEN p ELSE IF k \in C THEN None ELSE center[k]]
          /\ byHand' = byHand \ S /\ UNCHANGED <<at, found>>
    <2>1. Members(C) \in SUBSET Photo /\ Members(C) # {} BY DEF Merge, Members
    <2>2. at[Medoid(Members(C))] \in Spot BY <2>1, MedoidIn
    <2> QED BY <2>1, <2>2 DEF Merge, Edit, Move, scanVars
  <1>2. p # None BY Constants
  <1>3. ASSUME NEW x \in Photo, clusterOf'[x] # None
        PROVE  center'[clusterOf'[x]] # None /\ (x \notin byHand' => Near(x)')
    <2>1. CASE x \in S
      <3>1. Dist[p][at[x]] <= Radius BY <1>1, <2>1, FitsNear
      <3> QED BY <1>1, <1>2, <2>1, <3>1 DEF Near
    <2>2. CASE x \notin S
      <3>1. clusterOf'[x] = clusterOf[x] /\ clusterOf[x] \in Photo BY <1>1, <1>3, <2>2
      <3>2. clusterOf[x] \notin C BY <1>1, <2>2 DEF Members
      <3>3. center'[clusterOf[x]] = center[clusterOf[x]] BY <1>1, <3>1, <3>2
      <3>4. x \notin byHand' => x \notin byHand BY <1>1, <2>2
      <3> QED BY <1>1, <1>3, <3>1, <3>3, <3>4 DEF Near, NearInv, CenterInv
    <2> QED BY <2>1, <2>2
  <1> QED BY <1>1, <1>3 DEF NearInv, CenterInv

LEMMA SplitKeepsNear ==
  ASSUME TypeOK, NearInv, NEW c \in Cluster, NEW new \in Cluster, NEW S \in Selections,
         Split(c, S, new)
  PROVE  NearInv'
  <1> USE DEF TypeOK, Cluster
  <1>1. PICK R \in SUBSET Photo, p \in Spot, q \in Spot :
          /\ R = Members({c}) \ S /\ S \subseteq Members({c}) /\ S \subseteq Photo
          /\ p = at[Medoid(S)] /\ Fits(S) /\ q = at[Medoid(R)] /\ Fits(R)
          /\ c \in Rows /\ new \notin Rows
          /\ clusterOf' = [x \in Photo |-> IF x \in S THEN new ELSE clusterOf[x]]
          /\ center' = [center EXCEPT ![new] = p, ![c] = q]
          /\ byHand' = byHand \ Members({c}) /\ UNCHANGED <<at, found>>
    <2>1. /\ S \in SUBSET Photo /\ S # {} /\ Members({c}) \ S \in SUBSET Photo
          /\ Members({c}) \ S # {}
      BY DEF Split, Members, Selections
    <2>2. at[Medoid(S)] \in Spot /\ at[Medoid(Members({c}) \ S)] \in Spot
      BY <2>1, MedoidIn
    <2> QED BY <2>1, <2>2 DEF Split, Fresh, Least, Edit, Move, scanVars
  <1>2. p # None /\ q # None BY Constants
  <1>3. c # new BY <1>1
  <1>4. center'[new] = p /\ center'[c] = q BY <1>1, <1>3
  <1>5. ASSUME NEW x \in Photo, clusterOf'[x] # None
        PROVE  center'[clusterOf'[x]] # None /\ (x \notin byHand' => Near(x)')
    <2>1. CASE x \in S
      <3>1. Dist[p][at[x]] <= Radius BY <1>1, <2>1, FitsNear
      <3> QED BY <1>1, <1>2, <1>4, <2>1, <3>1 DEF Near
    <2>2. CASE x \in R
      <3>1. Dist[q][at[x]] <= Radius BY <1>1, <2>2, FitsNear
      <3>2. clusterOf'[x] = c BY <1>1, <2>2 DEF Members
      <3> QED BY <1>1, <1>2, <1>4, <3>1, <3>2 DEF Near
    <2>3. CASE x \notin S \cup R
      <3>1. clusterOf'[x] = clusterOf[x] /\ clusterOf[x] \in Photo /\ clusterOf[x] # c
        BY <1>1, <1>5, <2>3 DEF Members
      <3>2. clusterOf[x] # new BY <1>1, <1>5, <3>1 DEF Rows, NearInv, CenterInv
      <3>3. center'[clusterOf[x]] = center[clusterOf[x]] BY <1>1, <3>1, <3>2
      <3>4. x \notin byHand' => x \notin byHand BY <1>1, <2>3
      <3> QED BY <1>1, <1>5, <3>1, <3>3, <3>4 DEF Near, NearInv, CenterInv
    <2> QED BY <2>1, <2>2, <2>3
  <1> QED BY <1>1, <1>5 DEF NearInv, CenterInv

LEMMA AssignKeepsNear ==
  ASSUME TypeOK, NearInv, NEW S \in Selections, NEW c \in Cluster \cup {None},
         NEW gone \in {{}, Emptied(S, c)}, Assign(S, c, gone)
  PROVE  NearInv'
  <1> USE DEF TypeOK, Cluster
  <1>1. /\ c \in Rows \cup {None} /\ c \notin gone /\ byHand' = byHand \cup S
        /\ clusterOf' = [x \in Photo |-> IF x \in S THEN c
                                        ELSE IF clusterOf[x] \in gone THEN None ELSE clusterOf[x]]
        /\ center' = [k \in Cluster |-> IF k \in gone THEN None ELSE center[k]]
        /\ UNCHANGED <<at, found>>
    BY DEF Assign, Edit, MoveFrom, Emptied, scanVars
  <1>2. ASSUME NEW x \in Photo, clusterOf'[x] # None
        PROVE  center'[clusterOf'[x]] # None /\ (x \notin byHand' => Near(x)')
    <2>1. CASE x \in S BY <1>1, <1>2, <2>1 DEF Rows
    <2>2. CASE x \notin S
      <3>1. clusterOf'[x] = clusterOf[x] /\ clusterOf[x] \in Photo /\ clusterOf[x] \notin gone
        BY <1>1, <1>2, <2>2
      <3>2. center'[clusterOf[x]] = center[clusterOf[x]] BY <1>1, <3>1
      <3> QED BY <1>1, <1>2, <2>2, <3>1, <3>2 DEF Near, NearInv, CenterInv
    <2> QED BY <2>1, <2>2
  <1> QED BY <1>1, <1>2 DEF NearInv, CenterInv

LEMMA ReassignKeepsNear ==
  ASSUME TypeOK, NearInv, NEW S \in Selections, NEW new \in Cluster, NEW mean \in Spot,
         NEW gone \in {{}, Emptied(S, new)}, Reassign(S, new, mean, gone)
  PROVE  NearInv'
  <1> USE DEF TypeOK, Cluster
  <1>1. /\ new \notin Rows /\ byHand' = byHand \cup S
        /\ clusterOf' = [x \in Photo |-> IF x \in S THEN new
                                        ELSE IF clusterOf[x] \in gone THEN None ELSE clusterOf[x]]
        /\ center' = [k \in Cluster |-> IF k = new THEN mean
                                        ELSE IF k \in gone THEN None ELSE center[k]]
        /\ UNCHANGED <<at, found>>
    BY DEF Reassign, Fresh, Least, Edit, MoveFrom, scanVars
  <1>2. mean # None BY Constants
  <1>3. ASSUME NEW x \in Photo, clusterOf'[x] # None
        PROVE  center'[clusterOf'[x]] # None /\ (x \notin byHand' => Near(x)')
    <2>1. CASE x \in S BY <1>1, <1>2, <2>1
    <2>2. CASE x \notin S
      <3>1. clusterOf'[x] = clusterOf[x] /\ clusterOf[x] \in Photo /\ clusterOf[x] \notin gone
        BY <1>1, <1>3, <2>2
      <3>2. clusterOf[x] # new BY <1>1, <1>3, <3>1 DEF Rows, NearInv, CenterInv
      <3>3. center'[clusterOf[x]] = center[clusterOf[x]] BY <1>1, <3>1, <3>2
      <3> QED BY <1>1, <1>3, <2>2, <3>1, <3>3 DEF Near, NearInv, CenterInv
    <2> QED BY <2>1, <2>2
  <1> QED BY <1>1, <1>3 DEF NearInv, CenterInv

LEMMA PatchKeepsNear ==
  ASSUME TypeOK, NearInv, NEW c \in Cluster, NEW where \in Spot, PatchPoint(c, where)
  PROVE  NearInv'
  <1> USE DEF TypeOK, Cluster
  <1>1. /\ center' = [center EXCEPT ![c] = where]
        /\ byHand' = byHand \cup {x \in Photo : clusterOf[x] \in {c}}
        /\ UNCHANGED <<at, found, clusterOf>>
    BY DEF PatchPoint, Edit, Members, scanVars
  <1>2. where # None BY Constants
  <1> QED BY <1>1, <1>2 DEF NearInv, CenterInv, Near

LEMMA NearStep == ScanTypes /\ ScanInv /\ NearInv /\ [Next]_vars => NearInv'
  <1> SUFFICES ASSUME TypeOK, SeedInv, ScanInv, NearInv, [Next]_vars PROVE NearInv'
    BY DEF ScanTypes
  <1>1. CASE UNCHANGED <<at, clusterOf, center, byHand>> /\ found' \subseteq found
    BY <1>1 DEF NearInv, CenterInv, Near
  <1>2. CASE Close
    <2>1. /\ found' = found \cup
               {[seed |-> seed, members |-> members, center |-> at[Medoid(members)]]}
          /\ UNCHANGED <<at, clusterOf, center, byHand>> /\ Fits(members)
      BY <1>2 DEF Close, rowVars, ScanInv, InnerInv
    <2>2. \A x \in members : Dist[at[Medoid(members)]][at[x]] <= Radius BY <2>1, FitsNear
    <2> QED BY <2>1, <2>2 DEF NearInv, CenterInv, Near
  <1>3. CASE Replace BY <1>3, ReplaceKeepsNear
  <1>4. CASE Review /\ ~\E x \in Photo : Exclude(x)
    BY <1>4, MergeKeepsNear, SplitKeepsNear, AssignKeepsNear, ReassignKeepsNear, PatchKeepsNear
       DEF Review
  <1>5. ASSUME NEW x \in Photo, Exclude(x) PROVE NearInv'
    BY <1>1, <1>5 DEF Exclude, Edit, scanVars
  <1>6. CASE Finish \/ Fail \/ \E X \in Selections : \E screened \in SUBSET X :
                                  StartScan(X, screened)
    BY <1>1, <1>6 DEF Finish, Fail, StartScan, Leave, rowVars, scanVars
  <1>7. ASSUME NEW x \in Photo, Seed(x) \/ Join(x) \/ Pass(x) PROVE NearInv'
    BY <1>1, <1>7 DEF Seed, Join, Pass, rowVars
  <1>8. CASE UNCHANGED vars BY <1>1, <1>8 DEF vars, rowVars, scanVars
  <1> QED BY <1>2, <1>3, <1>4, <1>5, <1>6, <1>7, <1>8 DEF Next, Scan

\* Through every clustering and every edit, a photo is in the radius of the point of its
\* cluster, unless the reviewer placed it, or this point, by hand since they were checked.
THEOREM KeepsNear == Spec => []NearUnlessByHand
  <1>1. Init => NearInv BY DEF Init, NearInv, CenterInv
  <1>2. NearInv => NearUnlessByHand BY DEF NearInv, CenterInv, Near, NearUnlessByHand
  <1> QED BY <1>1, <1>2, NearStep, ScanInvariant, PTL DEF Spec
=============================================================================
