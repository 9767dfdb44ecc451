--------------------------- MODULE MCImportPublish ---------------------------
(* Instances of ImportPublish for TLC: one photo and two old places, or the  *)
(* same photo in two clusters, which may merge into one old place.           *)
EXTENDS ImportPublish, TLC

CONSTANTS c1, c2, p1, p2, x1, x2, d1, sea

MCTwoOldPlaces == [p \in {p1, p2} |-> {}]
MCDraftCluster == [d \in {d1} |-> c1]
MCInitRole     == [x \in {x1, x2} |-> IF x = x1 THEN "cover" ELSE "gallery"]

MCTwoClusters  == [x \in {x1, x2} |-> IF x = x1 THEN c1 ELSE c2]
MCSameContent  == [x \in {x1, x2} |-> sea]
MCNoOldContent == [p \in {p1} |-> {}]

MCOnePhotoCluster == [x \in {x1} |-> c1]
MCOnePhotoContent == [x \in {x1} |-> sea]
MCOnePhotoRole    == [x \in {x1} |-> "cover"]

MCSymmetry == Permutations(Api)
=============================================================================
