----------------------------- MODULE MCClustering -----------------------------
(* An instance of Clustering for TLC: three spots on a road, of which the   *)
(* middle one is in the radius of both others.                              *)
EXTENDS Clustering, FiniteSetsExt, TLC

CONSTANTS west, middle, east

MCDist == [s \in Spot |-> [t \in Spot |-> IF s = t THEN 0
                                        ELSE IF middle \in {s, t} THEN 1 ELSE 2]]

MCTotal == [d \in UNION {[S -> Distance] : S \in SUBSET Photo} |->
              MapThenSumSet(LAMBDA x : d[x], DOMAIN d)]

\* The road read backwards.
MCMirror == {p \in Permutations(Spot) : p[middle] = middle}
=============================================================================
