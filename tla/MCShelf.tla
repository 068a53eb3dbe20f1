------------------------------ MODULE MCShelf -------------------------------
(* Three books on pages of two: the second page disappears when a book is  *)
(* read or removed elsewhere.                                              *)
EXTENDS Shelf

=============================================================================
