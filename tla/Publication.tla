------------------------------ MODULE Publication ------------------------------
(***************************************************************************)
(* What publishing an import batch promises: its places and its reviews    *)
(* come into being together, with the batch's being published, and only    *)
(* once.  ImportPublish implements it with claims, copies, two             *)
(* transactions and retries.                                               *)
(***************************************************************************)
CONSTANTS
  Cluster,  (* clusters, each of which may become a place                  *)
  Draft     (* drafts, each of which may become a review                   *)

VARIABLES
  released, (* whether the batch is published                              *)
  made,     (* clusters for which there is a place                         *)
  told      (* drafts for which there is a review                          *)

Init == released = FALSE /\ made = {} /\ told = {}

Release ==
  /\ ~released /\ released' = TRUE
  /\ made' \in SUBSET Cluster
  /\ told' \in SUBSET Draft

Spec == Init /\ [][Release]_<<released, made, told>>
=============================================================================
