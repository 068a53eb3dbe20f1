----------------------------- MODULE MCProgress -----------------------------
(* One page and one rating beside the initial values: a repeated edit is a *)
(* no-op, and edits of the two fields are told apart.                      *)
EXTENDS Progress, TLC

MCPages == {1}
MCScores == {1}
Symmetry == Permutations(Device)
=============================================================================
