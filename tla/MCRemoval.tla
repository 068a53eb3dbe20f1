------------------------------ MODULE MCRemoval ------------------------------
(* Three contents removed in batches of two: a removal of all three takes   *)
(* two batches, the second with a token read before the first was carried   *)
(* out; the collection begins with all three or without the last.           *)
EXTENDS Removal
=============================================================================
