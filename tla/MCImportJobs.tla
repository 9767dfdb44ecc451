---------------------------- MODULE MCImportJobs ----------------------------
(* Instances of ImportJobs for TLC: a batch of uploads, one of which is an  *)
(* archive, and a batch of a local directory.                               *)
EXTENDS ImportJobs, TLC

CONSTANTS up, dir, photo, zip, inner

MCSymmetry   == Permutations(Worker)

MCBatch      == {up, dir}
MCUploadOnly == {up}
MCLocal      == {dir}
MCNoLocal    == {}
MCFile       == {photo, zip, inner}
MCUpload     == {photo, zip}
MCMembers    == [z \in {zip} |-> {inner}]
MCLocalFile  == {photo}
=============================================================================
