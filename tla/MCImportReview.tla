--------------------------- MODULE MCImportReview ---------------------------
(* An instance of ImportReview for TLC: two photos of one place, the later *)
(* of which may be a screenshot, and two clusters to move them to.        *)
EXTENDS ImportReview, TLC

CONSTANTS early, late

MCAsset    == {early, late}
MCLate     == {late}
MCFits     == {{early}, {late}, {early, late}}
MCCaptured == (early :> 1) @@ (late :> 2)

Symmetry == Permutations(Cluster) \cup Permutations(Draft)
=============================================================================
