---------------------------- MODULE MCPageCache -----------------------------
(* A book of a few pages and a small cache; the last page is larger than   *)
(* the whole budget, so that it is shown but never kept.                   *)
EXTENDS PageCache

MCSize == [p \in 0 .. Count - 1 |-> IF p = Count - 1 THEN 9 ELSE 2]
=============================================================================
