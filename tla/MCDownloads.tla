----------------------------- MODULE MCDownloads -----------------------------
(* Instances of Downloads for TLC; the .cfg files give the constants.      *)
EXTENDS Downloads, TLC

Symmetry == Permutations(Workers)
=============================================================================
