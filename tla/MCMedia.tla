------------------------------ MODULE MCMedia -------------------------------
(* Instances of Media for TLC.                                              *)
EXTENDS Media, TLC

CONSTANTS u, s   (* a user and a superadmin                                *)

\* The superadmin uploads the second media.
MCOwner == [m \in Media |-> IF m = 2 THEN s ELSE u]

MCSymmetry == Permutations(Place)
=============================================================================
