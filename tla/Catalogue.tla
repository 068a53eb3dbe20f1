----------------------------- MODULE Catalogue -----------------------------
(***************************************************************************)
(* What an import promises its caller: every import that was accepted ends *)
(* at most once, as imported or refused; the library gains a book exactly  *)
(* in the step that makes an import of it imported; and a book leaves the  *)
(* library only by a removal.                                              *)
(***************************************************************************)
CONSTANTS Jobs, Contents

VARIABLES
    outcome,    \* "new", "open", "imported" or "refused", of each import
    books       \* the contents the library has a book of

vars == <<outcome, books>>

Init == outcome = [i \in Jobs |-> "new"] /\ books = {}

Ends(i, from, to) == outcome[i] = from /\ outcome' = [outcome EXCEPT ![i] = to]

Accept(i) == Ends(i, "new", "open") /\ UNCHANGED books
Import(i, c) == Ends(i, "open", "imported") /\ books' = books \cup {c}
Refuse(i) == Ends(i, "open", "refused") /\ UNCHANGED books
Remove(c) == c \in books /\ books' = books \ {c} /\ UNCHANGED outcome

Next ==
    \/ \E i \in Jobs : Accept(i) \/ Refuse(i) \/ \E c \in Contents : Import(i, c)
    \/ \E c \in Contents : Remove(c)

Spec == Init /\ [][Next]_vars
=============================================================================
