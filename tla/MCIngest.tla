------------------------------ MODULE MCIngest ------------------------------
(* An instance of Ingest for TLC: two processes and two contents, symmetric. *)
EXTENDS Ingest, TLC

CONSTANTS a1, a2, c1, c2

Symmetric == Permutations({a1, a2}) \cup Permutations({c1, c2})
=============================================================================
