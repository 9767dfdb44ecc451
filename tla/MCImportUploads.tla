--------------------------- MODULE MCImportUploads ---------------------------
(* Instances of ImportUploads for TLC.                                      *)
EXTENDS ImportUploads, TLC

MCSymmetry == Permutations(Request) \cup Permutations(Client) \cup Permutations(Plain)
=============================================================================
