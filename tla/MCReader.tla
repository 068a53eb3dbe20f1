------------------------------ MODULE MCReader ------------------------------
(* A book of three pages, each one wide or taller than the screen, so that *)
(* the column may show two rows, or part of one in several steps.          *)
EXTENDS Reader

Rows(a, b, c) == 0 :> a @@ 1 :> a + b @@ 2 :> a + b + c
WideOrTall == {Rows(a, b, c) : a, b, c \in {1, 3}}
=============================================================================
