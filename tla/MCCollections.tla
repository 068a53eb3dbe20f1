---------------------------- MODULE MCCollections ----------------------------
(* Three books in answers of two: a list of one page and a bit, of exactly *)
(* one page, or of less.                                                   *)
EXTENDS Collections

=============================================================================
