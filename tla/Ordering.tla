------------------------------ MODULE Ordering ------------------------------
(***************************************************************************)
(* Rows in the order of their numbers, and a part of a list in its order,  *)
(* as the answers of the server and the lists of the pages are made; and a *)
(* list that is kept as the positions of its members, as the table of a    *)
(* collection keeps it.                                                    *)
(***************************************************************************)
EXTENDS Integers, Sequences, SequencesExt, FiniteSets

\* The members of a finite set of numbers, from the least to the greatest.
InOrder(S) ==
    CHOOSE s \in [1 .. Cardinality(S) -> S] :
        \A i, j \in 1 .. Cardinality(S) : i < j => s[i] < s[j]

\* What a list holds at the places I, in its order.
Picked(s, I) == [k \in 1 .. Cardinality(I) |-> s[InOrder(I)[k]]]

\* What has a position, how much comes no later than one, and all of it in its order.
Members(at) == {x \in DOMAIN at : at[x] >= 0}
Rank(at, x) == Cardinality({y \in Members(at) : at[y] <= at[x]})
Ranked(at) ==
    [i \in 1 .. Cardinality(Members(at)) |-> CHOOSE x \in Members(at) : Rank(at, x) = i]

\* Where something is in a list, and the positions that are the indices of a list.
PlaceIn(s, x) == CHOOSE i \in DOMAIN s : s[i] = x
Indexed(S, s) == [x \in S |-> IF x \in ToSet(s) THEN PlaceIn(s, x) - 1 ELSE -1]

\* A list without one of its members.
Minus(s, x) == IF x \in ToSet(s) THEN RemoveAt(s, PlaceIn(s, x)) ELSE s
=============================================================================
