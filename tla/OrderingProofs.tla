--------------------------- MODULE OrderingProofs ---------------------------
(***************************************************************************)
(* Facts about Ordering: every finite set of numbers can be put in order,  *)
(* the order holds each of its members once, and what is picked from a     *)
(* list are its entries. A set is built up by its largest member, with the *)
(* order of the naturals for the induction.                                *)
(***************************************************************************)
EXTENDS Ordering, Sequences, SequencesExt, FiniteSetTheorems, WellFoundedInduction, TLAPS

LEMMA LargestExists ==
    ASSUME NEW n \in Nat, NEW S, S \subseteq 1 .. n, S # {}
    PROVE  \E i \in S : \A j \in S : j <= i
PROOF
<1> DEFINE R == OpToRel(<, Nat)
           T == {n - i : i \in S}
<1>1. IsWellFoundedOn(R, Nat)
  BY NatLessThanWellFounded
<1> HIDE DEF R
<1>2. T \subseteq Nat /\ T # {}
  <2>1. PICK e \in S : TRUE
    OBVIOUS
  <2>2. n - e \in T
    BY <2>1
  <2>3. \A i \in S : n - i \in Nat
    OBVIOUS
  <2> QED
    BY <2>2, <2>3
<1>3. PICK x \in T : \A y \in T : ~ (<<y, x>> \in R)
  <2> HIDE DEF T
  <2> QED
    BY <1>1, <1>2, WFMin
<1>4. \A y \in Nat : y < x => <<y, x>> \in R
  BY <1>2 DEF R, OpToRel
<1>5. PICK i \in S : x = n - i
  OBVIOUS
<1>6. ASSUME NEW j \in S PROVE j <= i
  <2>1. n - j \in T /\ n - j \in Nat
    BY <1>2
  <2>2. ~(n - j < x)
    BY <1>3, <1>4, <2>1
  <2> QED
    BY <1>5, <2>2
<1> QED
  BY <1>6

\* Any numbers can be put in order: a smallest set that could not would have a last element.
Ordered(s, S) ==
    /\ s \in [1 .. Cardinality(S) -> S]
    /\ \A i, j \in 1 .. Cardinality(S) : i < j => s[i] < s[j]

LEMMA OrderExists ==
    ASSUME NEW n \in Nat, NEW S, S \subseteq 1 .. n
    PROVE  \E s : Ordered(s, S)
PROOF
<1> DEFINE Bad == {B \in SUBSET (1 .. n) : ~ \E s : Ordered(s, B)}
           Sizes == {Cardinality(B) : B \in Bad}
           R == OpToRel(<, Nat)
<1>1. \A B \in SUBSET (1 .. n) : IsFiniteSet(B) /\ Cardinality(B) \in Nat
  <2>1. IsFiniteSet(1 .. n)
    BY FS_Interval
  <2> QED
    BY <2>1, FS_Subset, FS_CardinalityType
<1>2. SUFFICES ASSUME Bad # {} PROVE FALSE
  OBVIOUS
<1>3. Sizes \subseteq Nat /\ Sizes # {}
  <2>1. PICK B \in Bad : TRUE
    BY <1>2
  <2>2. Cardinality(B) \in Sizes
    BY <2>1
  <2> QED
    BY <1>1, <2>2
<1>4. IsWellFoundedOn(R, Nat)
  BY NatLessThanWellFounded
<1>5. PICK c \in Sizes : \A d \in Sizes : ~ (<<d, c>> \in R)
  <2> HIDE DEF R, Sizes
  <2> QED
    BY <1>3, <1>4, WFMin
<1>6. \A d \in Nat : d < c => <<d, c>> \in R
  BY <1>3 DEF OpToRel
<1> HIDE DEF R
<1>7. PICK B \in Bad : c = Cardinality(B)
  OBVIOUS
<1>8. c \in Nat /\ IsFiniteSet(B) /\ B \subseteq 1 .. n
  BY <1>1, <1>7
<1>9. CASE B = {}
  <2>1. c = 0 /\ 1 .. c = {}
    BY <1>7, <1>9, FS_EmptySet
  <2>2. Ordered([i \in {} |-> i], B)
    BY <1>7, <2>1 DEF Ordered
  <2> QED
    BY <1>7, <2>2
<1>10. CASE B # {}
  <2>1. PICK m \in B : \A j \in B : j <= m
    <3> QED
      BY <1>8, <1>10, LargestExists
  <2> DEFINE A == B \ {m}
  <2>2. A \subseteq 1 .. n /\ Cardinality(A) = c - 1 /\ c - 1 \in Nat
    <3>1. A \in SUBSET (1 .. n) /\ Cardinality(A) \in Nat
      BY <1>1, <1>8
    <3>2. Cardinality(A) = Cardinality(B) - 1
      BY <1>8, <2>1, FS_RemoveElement
    <3> QED
      BY <1>7, <1>8, <3>1, <3>2
  <2>3. A \notin Bad
    <3>1. A \in Bad => c - 1 \in Sizes
      BY <2>2
    <3>2. c - 1 \notin Sizes
      <4> HIDE DEF Sizes
      <4>1. c - 1 < c
        BY <1>8
      <4>2. <<c - 1, c>> \in R
        BY <1>6, <2>2, <4>1
      <4> QED
        BY <1>5, <4>2
    <3> QED
      BY <3>1, <3>2
  <2>4. PICK t : Ordered(t, A)
    BY <2>2, <2>3
  <2>5. /\ t \in [1 .. c - 1 -> A]
        /\ \A i, j \in 1 .. c - 1 : i < j => t[i] < t[j]
    BY <2>2, <2>4 DEF Ordered
  <2> DEFINE s == [i \in 1 .. c |-> IF i < c THEN t[i] ELSE m]
  <2>6. \A i \in 1 .. c : (i < c => i \in 1 .. c - 1 /\ s[i] = t[i]) /\ (~(i < c) => i = c /\ s[i] = m)
    BY <1>8
  <2>7. \A i \in 1 .. c - 1 : t[i] \in B /\ t[i] # m /\ t[i] <= m /\ t[i] \in Int /\ m \in Int
    <3>1. \A x \in B : x \in Int
      BY <1>8
    <3>2. \A i \in 1 .. c - 1 : t[i] \in A
      BY <2>5
    <3> QED
      BY <2>1, <3>1, <3>2
  <2>8. s \in [1 .. c -> B]
    BY <2>1, <2>6, <2>7
  <2>9. ASSUME NEW i \in 1 .. c, NEW j \in 1 .. c, i < j PROVE s[i] < s[j]
    <3> HIDE DEF s
    <3>1. i < c /\ i \in 1 .. c - 1 /\ s[i] = t[i]
      BY <1>8, <2>6, <2>9
    <3>2. CASE j < c
      BY <2>5, <2>6, <2>9, <3>1, <3>2
    <3>3. CASE ~(j < c)
      BY <2>6, <2>7, <3>1, <3>3
    <3> QED
      BY <3>2, <3>3
  <2>10. Ordered(s, B)
    <3> HIDE DEF s
    <3> QED
      BY <1>7, <2>8, <2>9 DEF Ordered
  <2> QED
    BY <1>7, <2>10
<1> QED
  BY <1>9, <1>10

\* InOrder puts the members of a set in order and leaves none out.
THEOREM InOrderOrders ==
    ASSUME NEW n \in Nat, NEW S, S \subseteq 1 .. n
    PROVE  /\ Ordered(InOrder(S), S) /\ Cardinality(S) \in Nat
           /\ \A x \in S : \E i \in 1 .. Cardinality(S) : InOrder(S)[i] = x
PROOF
<1>1. IsFiniteSet(S)
  <2>1. IsFiniteSet(1 .. n)
    BY FS_Interval
  <2> QED
    BY <2>1, FS_Subset
<1>2. Ordered(InOrder(S), S) /\ Cardinality(S) \in Nat
  BY <1>1, OrderExists, FS_CardinalityType DEF InOrder, Ordered
<1>3. PICK s : s = InOrder(S)
  OBVIOUS
<1>4. PICK c \in Nat : c = Cardinality(S)
  BY <1>2
<1>5. s \in [1 .. c -> S] /\ \A i, j \in 1 .. c : i < j => s[i] < s[j]
  BY <1>2, <1>3, <1>4 DEF Ordered
<1>6. s \in Injection(1 .. c, S)
  <2>1. ASSUME NEW i \in 1 .. c, NEW j \in 1 .. c, s[i] = s[j] PROVE i = j
    <3>1. s[i] \in S /\ s[j] \in S /\ \A x \in S : x \in Int
      BY <1>5
    <3>2. PICK x \in Int : x = s[i] /\ x = s[j]
      BY <2>1, <3>1
    <3>3. (i < j => x < x) /\ (j < i => x < x)
      BY <1>5, <3>2, Zenon
    <3> QED
      BY <3>3
  <2> QED
    BY <1>5, <2>1 DEF Injection, IsInjective
<1>7. Cardinality(1 .. c) = c
  BY <1>4, FS_Interval
<1>8. s \in Surjection(1 .. c, S)
  BY <1>1, <1>4, <1>6, <1>7, FS_Injection
<1> QED
  BY <1>2, <1>3, <1>4, <1>8 DEF Surjection

\* What is picked from a list is a list of its entries at those places.
THEOREM PickedIs ==
    ASSUME NEW T, NEW s \in Seq(T), NEW I, I \subseteq DOMAIN s
    PROVE  /\ Picked(s, I) \in Seq(T)
           /\ \A k \in DOMAIN Picked(s, I) : \E i \in I : Picked(s, I)[k] = s[i]
PROOF
<1>1. Len(s) \in Nat /\ I \subseteq 1 .. Len(s) /\ \A i \in I : s[i] \in T
  OBVIOUS
<1>2. PICK o, c : o = InOrder(I) /\ c = Cardinality(I) /\ c \in Nat /\ o \in [1 .. c -> I]
  BY <1>1, InOrderOrders DEF Ordered
<1>3. Picked(s, I) = [k \in 1 .. c |-> s[o[k]]]
  BY <1>2 DEF Picked
<1>4. \A k \in 1 .. c : o[k] \in I
  BY <1>2
<1>5. \A k \in 1 .. c : Picked(s, I)[k] = s[o[k]] /\ s[o[k]] \in T
  BY <1>1, <1>3, <1>4
<1>6. Picked(s, I) \in [1 .. c -> T]
  BY <1>3, <1>5
<1> QED
  BY <1>2, <1>3, <1>4, <1>5, <1>6

\* SetToSeq lists the members of a finite set.
THEOREM SetToSeqIs ==
    ASSUME NEW S, IsFiniteSet(S)
    PROVE  SetToSeq(S) \in Seq(S) /\ (S # {} => SetToSeq(S) # <<>>)
PROOF
<1>1. Cardinality(S) \in Nat /\ ExistsBijection(1 .. Cardinality(S), S)
  BY FS_CardinalityType
<1>2. PICK f : f \in [1 .. Cardinality(S) -> S] /\ IsInjective(f)
  BY <1>1 DEF ExistsBijection, Bijection, Injection
<1>3. SetToSeq(S) \in [1 .. Cardinality(S) -> S]
  BY <1>2 DEF SetToSeq
<1>4. SetToSeq(S) \in Seq(S) /\ Len(SetToSeq(S)) = Cardinality(S)
  BY <1>1, <1>3
<1>5. S # {} => Cardinality(S) # 0
  BY FS_EmptySet
<1> QED
  BY <1>4, <1>5

-----------------------------------------------------------------------------
(* Lists and positions. A list is the order of positions when it holds what *)
(* has one, by increasing position. There is one such list, and Ranked is it. *)

PositionsOf(B) == [B -> Nat \cup {-1}]
Orders(s, at) ==
    /\ s \in Seq(DOMAIN at) /\ ToSet(s) = Members(at)
    /\ \A i, j \in 1 .. Len(s) : i < j => at[s[i]] < at[s[j]]
NoTies(at) == \A x, y \in DOMAIN at : x # y /\ at[x] >= 0 => at[x] # at[y]
Distinct(s, B) == s \in Seq(B) /\ \A i, j \in 1 .. Len(s) : s[i] = s[j] => i = j

LEMMA MembersFinite ==
    ASSUME NEW B, NEW at \in PositionsOf(B), NEW T \in SUBSET Members(at), IsFiniteSet(B)
    PROVE  IsFiniteSet(T) /\ Cardinality(T) \in Nat
PROOF
<1>1. IsFiniteSet(T)
  BY FS_Subset DEF Members, PositionsOf
<1> QED
  BY <1>1, FS_CardinalityType

\* Books at greater positions have greater ranks.
LEMMA RankGrows ==
    ASSUME NEW B, NEW at \in PositionsOf(B), NEW x \in Members(at), NEW y \in Members(at),
           IsFiniteSet(B), at[x] < at[y]
    PROVE  Rank(at, x) < Rank(at, y)
PROOF
<1> DEFINE S == {z \in Members(at) : at[z] <= at[x]}
           T == {z \in Members(at) : at[z] <= at[y]}
<1>1. x \in B /\ y \in B /\ Members(at) \subseteq B
  BY DEF Members, PositionsOf
<1>2. \A z \in B : at[z] \in Int
  BY DEF PositionsOf
<1>3. S \subseteq T /\ y \in T /\ y \notin S
  BY <1>1, <1>2
<1>4. IsFiniteSet(S) /\ IsFiniteSet(T) /\ Cardinality(S) \in Nat /\ Cardinality(T) \in Nat
  BY MembersFinite
<1>5. Cardinality(S) <= Cardinality(T) /\ (Cardinality(S) = Cardinality(T) => S = T)
  <2> HIDE DEF S, T
  <2> QED
    BY <1>3, <1>4, FS_Subset
<1>6. Cardinality(S) # Cardinality(T)
  <2> HIDE DEF S, T
  <2> QED
    BY <1>3, <1>5
<1> QED
  BY <1>4, <1>5, <1>6 DEF Rank

LEMMA RankIn ==
    ASSUME NEW B, NEW at \in PositionsOf(B), NEW x \in Members(at), IsFiniteSet(B)
    PROVE  Rank(at, x) \in 1 .. Cardinality(Members(at)) /\ Cardinality(Members(at)) \in Nat
PROOF
<1> DEFINE S == {z \in Members(at) : at[z] <= at[x]}
<1>1. x \in S
  BY DEF Members, PositionsOf
<1>2. IsFiniteSet(S) /\ Cardinality(S) \in Nat
      /\ IsFiniteSet(Members(at)) /\ Cardinality(Members(at)) \in Nat
  BY MembersFinite
<1>3. Cardinality(S) <= Cardinality(Members(at)) /\ Cardinality(S) # 0
  <2>1. S \subseteq Members(at)
    OBVIOUS
  <2> HIDE DEF S
  <2> QED
    BY <1>1, <1>2, <2>1, FS_Subset, FS_EmptySet
<1> QED
  BY <1>2, <1>3 DEF Rank

\* Positions without a clash have an order.
LEMMA RankedLists ==
    ASSUME NEW B, NEW at \in PositionsOf(B), IsFiniteSet(B), NoTies(at)
    PROVE  Orders(Ranked(at), at) /\ Len(Ranked(at)) = Cardinality(Members(at))
PROOF
<1>1. PICK M : M = Members(at)
  OBVIOUS
<1>2. IsFiniteSet(M) /\ M \subseteq B
  BY <1>1, MembersFinite DEF Members, PositionsOf
<1>3. PICK c \in Nat : c = Cardinality(M)
  BY <1>1, MembersFinite
<1> DEFINE f == [b \in M |-> Rank(at, b)]
<1>4. \A x, y \in M : (at[x] < at[y] => Rank(at, x) < Rank(at, y)) /\ Rank(at, x) \in 1 .. c
  BY <1>1, <1>3, RankGrows, RankIn
<1>5. \A x \in M : at[x] \in Nat
  BY <1>1 DEF Members, PositionsOf
<1>6. \A x, y \in M : x # y => at[x] # at[y]
  BY <1>1, <1>2, <1>5 DEF NoTies, PositionsOf
<1>7. \A x, y \in M : Rank(at, x) = Rank(at, y) => x = y
  BY <1>4, <1>5, <1>6
<1>8. f \in Injection(M, 1 .. c)
  BY <1>4, <1>7 DEF Injection, IsInjective
<1>9. IsFiniteSet(1 .. c) /\ Cardinality(1 .. c) = c
  BY FS_Interval
<1>10. f \in Surjection(M, 1 .. c)
  <2> HIDE DEF f
  <2> QED
    BY <1>3, <1>8, <1>9, FS_Injection
<1>11. \A i \in 1 .. c : \E b \in M : Rank(at, b) = i
  BY <1>10 DEF Surjection
<1>12. PICK s : s = Ranked(at)
  OBVIOUS
<1>13. s = [i \in 1 .. c |-> CHOOSE b \in M : Rank(at, b) = i]
  BY <1>1, <1>3, <1>12 DEF Ranked
<1>14. \A i \in 1 .. c : s[i] \in M /\ Rank(at, s[i]) = i
  BY <1>11, <1>13
<1>15. s \in Seq(B) /\ Len(s) = c /\ DOMAIN s = 1 .. c
  <2>1. s \in [1 .. c -> B]
    BY <1>2, <1>13, <1>14
  <2> QED
    BY <1>13, <2>1
<1>16. ToSet(s) = M
  <2>1. ASSUME NEW b \in M PROVE b \in ToSet(s)
    <3>1. Rank(at, b) \in 1 .. c
      BY <1>4
    <3>2. s[Rank(at, b)] = b
      BY <1>7, <1>14, <3>1
    <3> QED
      BY <1>15, <3>1, <3>2 DEF ToSet
  <2>2. ToSet(s) \subseteq M
    BY <1>14, <1>15 DEF ToSet
  <2> QED
    BY <2>1, <2>2
<1>17. ASSUME NEW i \in 1 .. c, NEW j \in 1 .. c, i < j PROVE at[s[i]] < at[s[j]]
  <2>1. s[i] \in M /\ s[j] \in M /\ Rank(at, s[i]) = i /\ Rank(at, s[j]) = j
    BY <1>14
  <2>2. PICK x \in M, y \in M : x = s[i] /\ y = s[j]
    BY <2>1
  <2>3. at[x] # at[y] /\ ~(at[y] < at[x])
    BY <1>4, <1>6, <1>17, <2>1, <2>2
  <2> QED
    BY <1>5, <2>2, <2>3
<1> QED
  BY <1>1, <1>3, <1>12, <1>15, <1>16, <1>17 DEF Orders, PositionsOf

\* What is in the order once.
LEMMA ListedOnce ==
    ASSUME NEW B, NEW at \in PositionsOf(B), NEW s, Orders(s, at)
    PROVE  /\ Distinct(s, B) /\ NoTies(at) /\ Len(s) \in Nat
           /\ \A i \in 1 .. Len(s) : s[i] \in Members(at) /\ s[i] \in B /\ at[s[i]] \in Nat
           /\ \A b \in Members(at) : \E i \in 1 .. Len(s) : s[i] = b
PROOF
<1>1. s \in Seq(B) /\ Len(s) \in Nat /\ DOMAIN s = 1 .. Len(s)
  BY DEF Orders, PositionsOf
<1>2. \A i \in 1 .. Len(s) : s[i] \in Members(at)
  BY <1>1 DEF Orders, ToSet, PositionsOf
<1>3. \A b \in Members(at) : \E i \in 1 .. Len(s) : s[i] = b
  BY <1>1 DEF Orders, ToSet, PositionsOf
<1>4. \A i \in 1 .. Len(s) : s[i] \in B /\ at[s[i]] \in Nat
  BY <1>2 DEF Members, PositionsOf
<1>5. ASSUME NEW i \in 1 .. Len(s), NEW j \in 1 .. Len(s), at[s[i]] = at[s[j]] PROVE i = j
  <2>1. PICK x \in Nat : x = at[s[i]] /\ x = at[s[j]]
    BY <1>4, <1>5
  <2>2. (i < j => x < x) /\ (j < i => x < x)
    BY <2>1 DEF Orders, PositionsOf
  <2> QED
    BY <1>1, <2>1, <2>2
<1>6. Distinct(s, B)
  BY <1>1, <1>5 DEF Distinct
<1>7. ASSUME NEW x \in B, NEW y \in B, at[x] >= 0, at[x] = at[y] PROVE x = y
  <2>1. x \in Members(at) /\ y \in Members(at)
    BY <1>7 DEF Members, PositionsOf
  <2>2. PICK i \in 1 .. Len(s), j \in 1 .. Len(s) : s[i] = x /\ s[j] = y
    BY <1>3, <2>1
  <2> QED
    BY <1>5, <1>7, <2>2
<1> QED
  BY <1>1, <1>2, <1>3, <1>4, <1>6, <1>7 DEF NoTies, PositionsOf

\* The first books of a list, counted.
LEMMA FirstCount ==
    ASSUME NEW B, NEW s, Distinct(s, B), NEW k \in 0 .. Len(s)
    PROVE  Cardinality({s[i] : i \in 1 .. k}) = k
PROOF
<1> DEFINE S == {s[i] : i \in 1 .. k}
           f == [i \in 1 .. k |-> s[i]]
<1>1. k \in Nat /\ Len(s) \in Nat /\ \A i \in 1 .. k : i \in 1 .. Len(s)
  BY DEF Distinct
<1>2. f \in Bijection(1 .. k, S)
  BY <1>1 DEF Distinct, Bijection, Injection, Surjection, IsInjective
<1>3. ExistsBijection(1 .. k, S)
  BY <1>2 DEF ExistsBijection
<1> QED
  BY <1>1, <1>3, FS_CountingElements

\* The order is unique, and a book's rank in it is its place.
LEMMA OrderIsRanked ==
    ASSUME NEW B, NEW at \in PositionsOf(B), NEW s, Orders(s, at)
    PROVE  /\ s = Ranked(at) /\ Len(s) = Cardinality(Members(at))
           /\ \A i \in 1 .. Len(s) : Rank(at, s[i]) = i
PROOF
<1>1. /\ Distinct(s, B) /\ Len(s) \in Nat
      /\ \A i \in 1 .. Len(s) : s[i] \in Members(at) /\ at[s[i]] \in Nat
      /\ \A b \in Members(at) : \E i \in 1 .. Len(s) : s[i] = b
  BY ListedOnce
<1>2. \A i, j \in 1 .. Len(s) : i < j => at[s[i]] < at[s[j]]
  BY DEF Orders, PositionsOf
<1>3. ASSUME NEW i \in 1 .. Len(s) PROVE Rank(at, s[i]) = i
  <2>1. {x \in Members(at) : at[x] <= at[s[i]]} = {s[k] : k \in 1 .. i}
    <3>1. ASSUME NEW x \in Members(at), at[x] <= at[s[i]] PROVE \E k \in 1 .. i : x = s[k]
      <4>1. PICK k \in 1 .. Len(s) : s[k] = x
        BY <1>1
      <4>2. at[s[k]] \in Nat /\ at[s[i]] \in Nat /\ (i < k => at[s[i]] < at[s[k]])
        BY <1>1, <1>2
      <4>3. ~(i < k)
        BY <3>1, <4>1, <4>2
      <4> QED
        BY <1>1, <4>1, <4>3
    <3>2. ASSUME NEW k \in 1 .. i PROVE s[k] \in Members(at) /\ at[s[k]] <= at[s[i]]
      <4>1. k \in 1 .. Len(s) /\ (k < i \/ k = i)
        BY <1>1
      <4>2. s[k] \in Members(at) /\ at[s[k]] \in Nat /\ at[s[i]] \in Nat
        BY <1>1, <4>1
      <4>3. k < i => at[s[k]] < at[s[i]]
        BY <1>2, <4>1
      <4> QED
        BY <4>1, <4>2, <4>3
    <3> QED
      BY <3>1, <3>2
  <2>2. i \in 0 .. Len(s)
    BY <1>1
  <2> QED
    BY <1>1, <2>1, <2>2, FirstCount DEF Rank
<1>4. Len(s) = Cardinality(Members(at))
  <2>1. Members(at) = {s[k] : k \in 1 .. Len(s)}
    BY <1>1
  <2>2. Len(s) \in 0 .. Len(s)
    BY <1>1
  <2> QED
    BY <1>1, <2>1, <2>2, FirstCount
<1>5. PICK t : t = Ranked(at)
  OBVIOUS
<1>6. t = [i \in 1 .. Len(s) |-> CHOOSE b \in Members(at) : Rank(at, b) = i]
  BY <1>4, <1>5 DEF Ranked
<1>7. ASSUME NEW i \in 1 .. Len(s) PROVE t[i] = s[i]
  <2>1. t[i] = CHOOSE b \in Members(at) : Rank(at, b) = i
    BY <1>6
  <2>2. s[i] \in Members(at) /\ Rank(at, s[i]) = i
    BY <1>1, <1>3
  <2>3. t[i] \in Members(at) /\ Rank(at, t[i]) = i
    BY <2>1, <2>2
  <2>4. PICK k \in 1 .. Len(s) : s[k] = t[i]
    BY <1>1, <2>3
  <2> QED
    BY <1>3, <2>3, <2>4
<1>8. s = t
  BY <1>1, <1>6, <1>7 DEF Distinct
<1> QED
  BY <1>3, <1>4, <1>5, <1>8

-----------------------------------------------------------------------------
(* What the edits make of a list and of its positions.                     *)

LEMMA ListIs ==
    ASSUME NEW B, NEW s, Distinct(s, B)
    PROVE  /\ Len(s) \in Nat /\ DOMAIN s = 1 .. Len(s)
           /\ \A i \in 1 .. Len(s) : s[i] \in ToSet(s) /\ s[i] \in B /\ PlaceIn(s, s[i]) = i
           /\ ToSet(s) \subseteq B
           /\ \A b \in ToSet(s) : PlaceIn(s, b) \in 1 .. Len(s) /\ s[PlaceIn(s, b)] = b
PROOF
<1>1. Len(s) \in Nat /\ DOMAIN s = 1 .. Len(s) /\ \A i \in 1 .. Len(s) : s[i] \in B
  BY DEF Distinct
<1>2. ASSUME NEW b \in ToSet(s) PROVE PlaceIn(s, b) \in 1 .. Len(s) /\ s[PlaceIn(s, b)] = b
  <2>1. \E i \in DOMAIN s : s[i] = b
    BY DEF ToSet
  <2> QED
    BY <1>1, <2>1 DEF PlaceIn
<1>3. ASSUME NEW i \in 1 .. Len(s) PROVE s[i] \in ToSet(s) /\ PlaceIn(s, s[i]) = i
  <2>1. s[i] \in ToSet(s)
    BY <1>1 DEF ToSet
  <2>2. PICK k : k = PlaceIn(s, s[i])
    OBVIOUS
  <2>3. k \in 1 .. Len(s) /\ s[k] = s[i]
    BY <1>2, <2>1, <2>2
  <2>4. k = i
    BY <2>3 DEF Distinct
  <2> QED
    BY <2>1, <2>2, <2>4
<1>4. ToSet(s) \subseteq B
  BY <1>1 DEF ToSet
<1> QED
  BY <1>1, <1>2, <1>3, <1>4

\* A list is the order of its own indices.
LEMMA IndexedLists ==
    ASSUME NEW B, NEW s, Distinct(s, B)
    PROVE  Indexed(B, s) \in PositionsOf(B) /\ Orders(s, Indexed(B, s))
PROOF
<1>1. PICK n : n = Indexed(B, s)
  OBVIOUS
<1>2. n = [b \in B |-> IF b \in ToSet(s) THEN PlaceIn(s, b) - 1 ELSE -1]
  BY <1>1 DEF Indexed
<1>3. \A b \in B : n[b] = IF b \in ToSet(s) THEN PlaceIn(s, b) - 1 ELSE -1
  BY <1>2
<1>4. \A b \in ToSet(s) : PlaceIn(s, b) \in 1 .. Len(s) /\ b \in B
  BY ListIs
<1>5. Len(s) \in Nat /\ \A i \in 1 .. Len(s) : s[i] \in ToSet(s) /\ s[i] \in B /\ PlaceIn(s, s[i]) = i
  BY ListIs
<1>6. \A b \in B : n[b] \in Nat \cup {-1}
  BY <1>3, <1>4, <1>5
<1>7. n \in PositionsOf(B)
  BY <1>2, <1>6 DEF PositionsOf
<1>8. Members(n) = ToSet(s)
  <2>1. \A b \in B : n[b] >= 0 <=> b \in ToSet(s)
    BY <1>3, <1>4, <1>5
  <2>2. DOMAIN n = B
    BY <1>2
  <2> QED
    BY <1>4, <2>1, <2>2 DEF Members
<1>9. \A i \in 1 .. Len(s) : n[s[i]] = i - 1
  BY <1>3, <1>5
<1>10. \A i, j \in 1 .. Len(s) : i < j => n[s[i]] < n[s[j]]
  BY <1>5, <1>9
<1>11. DOMAIN n = B
  BY <1>2
<1> QED
  BY <1>1, <1>7, <1>8, <1>10, <1>11 DEF Orders, Distinct

\* A list with a book taken out, place by place.
LEMMA RemovedAt ==
    ASSUME NEW T, NEW s \in Seq(T), NEW p \in 1 .. Len(s)
    PROVE  /\ RemoveAt(s, p) \in Seq(T) /\ Len(RemoveAt(s, p)) = Len(s) - 1
           /\ \A k \in 1 .. Len(s) - 1 : RemoveAt(s, p)[k] = s[IF k < p THEN k ELSE k + 1]
PROOF
<1>1. PICK u, v : u = SubSeq(s, 1, p - 1) /\ v = SubSeq(s, p + 1, Len(s))
  OBVIOUS
<1>2. u \in Seq(T) /\ Len(u) = p - 1 /\ \A k \in 1 .. p - 1 : u[k] = s[k]
  BY <1>1
<1>3. v \in Seq(T) /\ Len(v) = Len(s) - p /\ \A k \in 1 .. Len(s) - p : v[k] = s[p + k]
  BY <1>1
<1>4. PICK w : w = u \o v
  OBVIOUS
<1>5. RemoveAt(s, p) = w
  BY <1>1, <1>4 DEF RemoveAt
<1>6. w \in Seq(T) /\ Len(w) = Len(s) - 1
  <2>1. u \o v \in Seq(T) /\ Len(u \o v) = Len(u) + Len(v)
    <3>1. u \in Seq(T) /\ v \in Seq(T)
      BY <1>2, <1>3
    <3> QED
      BY <3>1
  <2> QED
    BY <1>2, <1>3, <1>4, <2>1
<1>7. ASSUME NEW k \in 1 .. Len(s) - 1 PROVE w[k] = s[IF k < p THEN k ELSE k + 1]
  <2>1. CASE k < p
    BY <1>2, <1>3, <1>4, <2>1
  <2>2. CASE ~(k < p)
    <3>1. w[k] = v[k - (p - 1)]
      BY <1>2, <1>3, <1>4, <2>2
    <3>2. k - (p - 1) \in 1 .. Len(s) - p
      BY <2>2
    <3>3. p + (k - (p - 1)) = k + 1
      OBVIOUS
    <3> QED
      BY <1>3, <2>2, <3>1, <3>2, <3>3
  <2> QED
    BY <2>1, <2>2
<1> QED
  BY <1>5, <1>6, <1>7

\* A list with a book put in, place by place.
LEMMA InsertedAt ==
    ASSUME NEW T, NEW s \in Seq(T), NEW p \in 1 .. Len(s) + 1, NEW e \in T,
           NEW t, t = InsertAt(s, p, e)
    PROVE  /\ t \in Seq(T) /\ Len(t) = Len(s) + 1
           /\ \A k \in 1 .. Len(s) + 1 : t[k] = IF k < p THEN s[k] ELSE IF k = p THEN e ELSE s[k - 1]
PROOF
<1>1. PICK u, v : u = SubSeq(s, 1, p - 1) /\ v = SubSeq(s, p, Len(s))
  OBVIOUS
<1>2. u \in Seq(T) /\ Len(u) = p - 1 /\ \A k \in 1 .. p - 1 : u[k] = s[k]
  BY <1>1
<1>3. v \in Seq(T) /\ Len(v) = Len(s) - p + 1 /\ \A k \in 1 .. Len(s) - p + 1 : v[k] = s[p + k - 1]
  BY <1>1
<1>4. PICK x : x = u \o <<e>>
  OBVIOUS
<1>5. x \in Seq(T) /\ Len(x) = p /\ x[p] = e /\ \A k \in 1 .. p - 1 : x[k] = s[k]
  BY <1>2, <1>4
<1>6. PICK w : w = x \o v
  OBVIOUS
<1>7. InsertAt(s, p, e) = w
  BY <1>1, <1>4, <1>6 DEF InsertAt
<1>8. w \in Seq(T) /\ Len(w) = Len(s) + 1
  <2>1. x \o v \in Seq(T) /\ Len(x \o v) = Len(x) + Len(v)
    <3>1. x \in Seq(T) /\ v \in Seq(T)
      BY <1>3, <1>5
    <3> QED
      BY <3>1
  <2> QED
    BY <1>3, <1>5, <1>6, <2>1
<1>9. ASSUME NEW k \in 1 .. Len(s) + 1
      PROVE w[k] = IF k < p THEN s[k] ELSE IF k = p THEN e ELSE s[k - 1]
  <2>1. CASE k <= p
    <3>1. w[k] = x[k]
      BY <1>3, <1>5, <1>6, <2>1
    <3> QED
      BY <1>5, <2>1, <3>1
  <2>2. CASE p < k
    <3>1. w[k] = v[k - p]
      BY <1>3, <1>5, <1>6, <2>2
    <3>2. k - p \in 1 .. Len(s) - p + 1 /\ p + (k - p) - 1 = k - 1
      BY <2>2
    <3> QED
      BY <1>3, <2>2, <3>1, <3>2
  <2> QED
    BY <2>1, <2>2
<1> QED
  BY <1>7, <1>8, <1>9

LEMMA MinusIs ==
    ASSUME NEW B, NEW s, Distinct(s, B), NEW b \in ToSet(s)
    PROVE  \E p \in 1 .. Len(s) :
             /\ p = PlaceIn(s, b) /\ s[p] = b
             /\ Minus(s, b) \in Seq(B) /\ Len(Minus(s, b)) = Len(s) - 1
             /\ \A k \in 1 .. Len(s) - 1 : Minus(s, b)[k] = s[IF k < p THEN k ELSE k + 1]
PROOF
<1>1. PICK p \in 1 .. Len(s) : p = PlaceIn(s, b) /\ s[p] = b
  BY ListIs
<1>2. Minus(s, b) = RemoveAt(s, p)
  BY <1>1 DEF Minus
<1>3. s \in Seq(B)
  BY DEF Distinct
<1> QED
  BY <1>1, <1>2, <1>3, RemovedAt

\* Taking a book out leaves the others in their order.
LEMMA MinusLists ==
    ASSUME NEW B, NEW at \in PositionsOf(B), NEW s, Orders(s, at), NEW b \in Members(at)
    PROVE  [at EXCEPT ![b] = -1] \in PositionsOf(B) /\ Orders(Minus(s, b), [at EXCEPT ![b] = -1])
PROOF
<1>1. /\ Distinct(s, B) /\ Len(s) \in Nat
      /\ \A i \in 1 .. Len(s) : s[i] \in Members(at)
      /\ \A x \in Members(at) : \E i \in 1 .. Len(s) : s[i] = x
  BY ListedOnce
<1>2. b \in ToSet(s) /\ b \in B
  BY DEF Orders, Members, PositionsOf
<1>3. PICK w : w = Minus(s, b)
  OBVIOUS
<1>4. PICK p \in 1 .. Len(s) :
        /\ s[p] = b
        /\ w \in Seq(B) /\ Len(w) = Len(s) - 1
        /\ \A k \in 1 .. Len(s) - 1 : w[k] = s[IF k < p THEN k ELSE k + 1]
  BY <1>1, <1>2, <1>3, MinusIs
<1>5. PICK new : new = [at EXCEPT ![b] = -1]
  OBVIOUS
<1>6. new \in PositionsOf(B) /\ new[b] = -1 /\ \A x \in B : x # b => new[x] = at[x]
  BY <1>2, <1>5 DEF PositionsOf
<1>7. Members(new) = Members(at) \ {b}
  BY <1>6 DEF Members, PositionsOf
<1>8. \A k \in 1 .. Len(w) : w[k] \in Members(at) /\ w[k] # b
  <2>1. ASSUME NEW k \in 1 .. Len(w) PROVE w[k] \in Members(at) /\ w[k] # b
    <3>1. PICK q : q = IF k < p THEN k ELSE k + 1
      OBVIOUS
    <3>2. q \in 1 .. Len(s) /\ q # p /\ w[k] = s[q]
      BY <1>1, <1>4, <3>1
    <3> QED
      BY <1>1, <1>4, <3>2 DEF Distinct
  <2> QED
    BY <2>1
<1>9. ASSUME NEW x \in Members(at), x # b PROVE \E k \in 1 .. Len(w) : w[k] = x
  <2>1. PICK i \in 1 .. Len(s) : s[i] = x
    BY <1>1
  <2>2. CASE i < p
    BY <1>1, <1>4, <2>1, <2>2
  <2>3. CASE p < i
    <3>1. i - 1 \in 1 .. Len(w) /\ ~(i - 1 < p) /\ (i - 1) + 1 = i
      BY <1>1, <1>4, <2>3
    <3> QED
      BY <1>4, <2>1, <3>1
  <2> QED
    BY <1>4, <1>9, <2>1, <2>2, <2>3
<1>10. DOMAIN w = 1 .. Len(w)
  BY <1>4
<1>11. ToSet(w) = Members(new)
  BY <1>7, <1>8, <1>9, <1>10 DEF ToSet
<1>12. ASSUME NEW i \in 1 .. Len(w), NEW j \in 1 .. Len(w), i < j PROVE new[w[i]] < new[w[j]]
  <2>1. PICK x, y : x = (IF i < p THEN i ELSE i + 1) /\ y = (IF j < p THEN j ELSE j + 1)
    OBVIOUS
  <2>2. x \in 1 .. Len(s) /\ y \in 1 .. Len(s) /\ x < y /\ w[i] = s[x] /\ w[j] = s[y]
    BY <1>1, <1>4, <1>12, <2>1
  <2>3. at[s[x]] < at[s[y]]
    BY <2>2 DEF Orders, PositionsOf
  <2>4. new[w[i]] = at[w[i]] /\ new[w[j]] = at[w[j]]
    BY <1>6, <1>8 DEF Members, PositionsOf
  <2> QED
    BY <2>2, <2>3, <2>4
<1> QED
  BY <1>3, <1>4, <1>5, <1>6, <1>11, <1>12 DEF Orders, PositionsOf

LEMMA MinusOnce ==
    ASSUME NEW B, NEW s, Distinct(s, B), NEW b \in ToSet(s)
    PROVE  Distinct(Minus(s, b), B) /\ ToSet(Minus(s, b)) = ToSet(s) \ {b}
PROOF
<1>1. PICK n : n = Indexed(B, s) /\ n \in PositionsOf(B) /\ Orders(s, n)
  BY IndexedLists
<1>2. b \in Members(n)
  BY <1>1 DEF Orders, PositionsOf
<1>3. PICK m : m = [n EXCEPT ![b] = -1] /\ m \in PositionsOf(B) /\ Orders(Minus(s, b), m)
  BY <1>1, <1>2, MinusLists
<1>4. Members(m) = Members(n) \ {b}
  BY <1>1, <1>2, <1>3 DEF Members, PositionsOf
<1>5. Distinct(Minus(s, b), B)
  BY <1>3, ListedOnce
<1>6. ToSet(Minus(s, b)) = Members(m) /\ ToSet(s) = Members(n)
  BY <1>1, <1>3 DEF Orders
<1> QED
  BY <1>4, <1>5, <1>6

\* A book put at the end of a list, after every position.
LEMMA AppendLists ==
    ASSUME NEW B, NEW at \in PositionsOf(B), NEW s, Orders(s, at), NEW b \in B, at[b] < 0,
           NEW n, n = IF s = <<>> THEN 0 ELSE at[Last(s)] + 1
    PROVE  [at EXCEPT ![b] = n] \in PositionsOf(B) /\ Orders(Append(s, b), [at EXCEPT ![b] = n])
PROOF
<1>1. /\ Distinct(s, B) /\ Len(s) \in Nat
      /\ \A i \in 1 .. Len(s) : s[i] \in Members(at) /\ s[i] \in B /\ at[s[i]] \in Nat
      /\ \A x \in Members(at) : \E i \in 1 .. Len(s) : s[i] = x
  BY ListedOnce
<1>2. s \in Seq(B) /\ \A i, j \in 1 .. Len(s) : i < j => at[s[i]] < at[s[j]]
  BY DEF Orders, PositionsOf
<1>3. n \in Nat /\ \A i \in 1 .. Len(s) : at[s[i]] < n
  <2>1. CASE s = <<>>
    BY <2>1
  <2>2. CASE s # <<>>
    <3>1. Len(s) \in 1 .. Len(s) /\ n = at[s[Len(s)]] + 1
      BY <1>2, <2>2 DEF Last
    <3>2. ASSUME NEW i \in 1 .. Len(s) PROVE at[s[i]] <= at[s[Len(s)]]
      <4>1. CASE i = Len(s)
        BY <1>1, <3>1, <4>1
      <4>2. CASE i < Len(s)
        BY <1>1, <1>2, <3>1, <4>2
      <4> QED
        BY <1>1, <4>1, <4>2
    <3> QED
      BY <1>1, <3>1, <3>2
  <2> QED
    BY <2>1, <2>2
<1>4. PICK new : new = [at EXCEPT ![b] = n]
  OBVIOUS
<1>5. new \in PositionsOf(B) /\ new[b] = n /\ \A x \in B : x # b => new[x] = at[x]
  BY <1>3, <1>4 DEF PositionsOf
<1>6. Members(new) = Members(at) \cup {b} /\ b \notin Members(at)
  BY <1>3, <1>5 DEF Members, PositionsOf
<1>7. PICK w : w = Append(s, b)
  OBVIOUS
<1>8. /\ w \in Seq(B) /\ Len(w) = Len(s) + 1 /\ w[Len(s) + 1] = b
      /\ \A i \in 1 .. Len(s) : w[i] = s[i] /\ s[i] # b
  BY <1>1, <1>2, <1>6, <1>7
<1>9. ToSet(w) = Members(new)
  <2>1. DOMAIN w = 1 .. Len(s) + 1
    BY <1>8
  <2>2. ASSUME NEW i \in 1 .. Len(s) + 1 PROVE w[i] \in Members(new)
    BY <1>1, <1>6, <1>8
  <2>3. ASSUME NEW x \in Members(new) PROVE \E i \in 1 .. Len(s) + 1 : w[i] = x
    <3>1. CASE x = b
      <4>1. Len(s) + 1 \in 1 .. Len(s) + 1
        BY <1>1
      <4> QED
        BY <1>8, <3>1, <4>1
    <3>2. CASE x # b
      <4>1. PICK i \in 1 .. Len(s) : s[i] = x
        BY <1>1, <1>6, <3>2
      <4>2. i \in 1 .. Len(s) + 1
        BY <1>1
      <4> QED
        BY <1>8, <4>1, <4>2
    <3> QED
      BY <3>1, <3>2
  <2> QED
    BY <2>1, <2>2, <2>3 DEF ToSet
<1>10. ASSUME NEW i \in 1 .. Len(w), NEW j \in 1 .. Len(w), i < j PROVE new[w[i]] < new[w[j]]
  <2>1. i \in 1 .. Len(s) /\ w[i] = s[i] /\ new[w[i]] = at[s[i]]
    BY <1>1, <1>5, <1>8, <1>10
  <2>2. CASE j \in 1 .. Len(s)
    <3>1. w[j] = s[j] /\ new[w[j]] = at[s[j]]
      BY <1>1, <1>5, <1>8, <2>2
    <3> QED
      BY <1>2, <1>10, <2>1, <2>2, <3>1
  <2>3. CASE j = Len(s) + 1
    BY <1>3, <1>5, <1>8, <2>1, <2>3
  <2> QED
    BY <1>1, <1>8, <2>2, <2>3
<1> QED
  BY <1>4, <1>5, <1>7, <1>8, <1>9, <1>10 DEF Orders, PositionsOf

\* A book taken out of a list and put before another is still there, once.
LEMMA PutBack ==
    ASSUME NEW B, NEW s, Distinct(s, B), NEW b \in B \ ToSet(s), NEW p \in 1 .. Len(s) + 1
    PROVE  Distinct(InsertAt(s, p, b), B) /\ ToSet(InsertAt(s, p, b)) = ToSet(s) \cup {b}
PROOF
<1>1. /\ s \in Seq(B) /\ Len(s) \in Nat /\ DOMAIN s = 1 .. Len(s)
      /\ \A i \in 1 .. Len(s) : s[i] \in ToSet(s) /\ s[i] # b
  BY ListIs DEF Distinct
<1>2. PICK w : w = InsertAt(s, p, b)
  OBVIOUS
<1>3. /\ w \in Seq(B) /\ Len(w) = Len(s) + 1
      /\ \A k \in 1 .. Len(s) + 1 : w[k] = IF k < p THEN s[k] ELSE IF k = p THEN b ELSE s[k - 1]
  <2>1. b \in B /\ s \in Seq(B) /\ p \in 1 .. Len(s) + 1
    BY <1>1
  <2> QED
    BY <1>2, <2>1, InsertedAt
<1>4. ASSUME NEW i \in 1 .. Len(w), NEW j \in 1 .. Len(w), w[i] = w[j] PROVE i = j
  <2>1. \A k \in 1 .. Len(w) : k = p \/ (k < p /\ k \in 1 .. Len(s) /\ w[k] = s[k])
                                    \/ (p < k /\ k - 1 \in 1 .. Len(s) /\ w[k] = s[k - 1])
    BY <1>1, <1>3
  <2>2. CASE i = p \/ j = p
    <3>1. w[p] = b
      BY <1>1, <1>3
    <3> QED
      BY <1>1, <1>4, <2>1, <2>2, <3>1
  <2>3. CASE i # p /\ j # p
    <3> DEFINE at(k) == IF k < p THEN k ELSE k - 1
    <3>1. at(i) \in 1 .. Len(s) /\ at(j) \in 1 .. Len(s) /\ w[i] = s[at(i)] /\ w[j] = s[at(j)]
      BY <2>1, <2>3
    <3>2. at(i) = at(j)
      <4> HIDE DEF at
      <4> QED
        BY <1>4, <3>1 DEF Distinct
    <3> QED
      BY <1>3, <2>3, <3>2
  <2> QED
    BY <2>2, <2>3
<1>5. ToSet(w) = ToSet(s) \cup {b}
  <2>1. DOMAIN w = 1 .. Len(s) + 1
    BY <1>3
  <2>2. ASSUME NEW k \in 1 .. Len(s) + 1 PROVE w[k] \in ToSet(s) \cup {b}
    <3>1. k < p => k \in 1 .. Len(s)
      BY <1>1
    <3>2. p < k => k - 1 \in 1 .. Len(s)
      BY <1>1
    <3>3. k < p \/ k = p \/ p < k
      BY <1>1
    <3>4. (k < p => w[k] = s[k]) /\ (k = p => w[k] = b) /\ (p < k => w[k] = s[k - 1])
      BY <1>1, <1>3
    <3> QED
      BY <1>1, <3>1, <3>2, <3>3, <3>4
  <2>3. ASSUME NEW x \in ToSet(s) PROVE \E k \in 1 .. Len(s) + 1 : w[k] = x
    <3>1. PICK i \in 1 .. Len(s) : s[i] = x
      BY <1>1 DEF ToSet
    <3>2. CASE i < p
      BY <1>1, <1>3, <3>1, <3>2
    <3>3. CASE p <= i
      <4>1. i + 1 \in 1 .. Len(s) + 1 /\ ~(i + 1 < p) /\ i + 1 # p /\ (i + 1) - 1 = i
        BY <1>1, <3>3
      <4> QED
        BY <1>3, <3>1, <4>1
    <3> QED
      BY <3>2, <3>3
  <2>4. w[p] = b /\ p \in 1 .. Len(s) + 1
    BY <1>1, <1>3
  <2> QED
    BY <2>1, <2>2, <2>3, <2>4 DEF ToSet
<1> QED
  BY <1>2, <1>3, <1>4, <1>5 DEF Distinct

-----------------------------------------------------------------------------
(* The beginning of a list. What is done to it is done to the whole.       *)

Leads(s, t) == Len(s) <= Len(t) /\ \A i \in 1 .. Len(s) : s[i] = t[i]

LEMMA LeadsIs ==
    ASSUME NEW T, NEW s \in Seq(T), NEW t \in Seq(T)
    PROVE  Leads(s, t) <=> IsPrefix(s, t)
PROOF
<1>1. CASE Len(s) <= Len(t)
  <2>1. PICK u, v : u = SubSeq(s, 1, Len(s)) /\ v = SubSeq(t, 1, Len(s))
    OBVIOUS
  <2>2. u \in Seq(T) /\ Len(u) = Len(s) /\ \A i \in 1 .. Len(s) : u[i] = s[i]
    BY <2>1
  <2>3. v \in Seq(T) /\ Len(v) = Len(s) /\ \A i \in 1 .. Len(s) : v[i] = t[i]
    BY <1>1, <2>1
  <2>4. u = v <=> \A i \in 1 .. Len(s) : u[i] = v[i]
    BY <2>2, <2>3
  <2>5. IsPrefix(s, t) <=> u = v
    BY <1>1, <2>1 DEF IsPrefix
  <2> QED
    BY <1>1, <2>2, <2>3, <2>4, <2>5 DEF Leads
<1>2. CASE ~(Len(s) <= Len(t))
  BY <1>2 DEF Leads, IsPrefix
<1> QED
  BY <1>1, <1>2

LEMMA SamePlace ==
    ASSUME NEW B, NEW s, NEW t, Distinct(s, B), Distinct(t, B), Leads(s, t), NEW b \in ToSet(s)
    PROVE  b \in ToSet(t) /\ PlaceIn(t, b) = PlaceIn(s, b)
PROOF
<1>1. PICK i \in 1 .. Len(s) : i = PlaceIn(s, b) /\ s[i] = b
  BY ListIs
<1>2. Len(s) \in Nat /\ Len(t) \in Nat
  BY ListIs
<1>3. i \in 1 .. Len(t) /\ t[i] = b
  BY <1>1, <1>2 DEF Leads
<1> QED
  BY <1>1, <1>3, ListIs

LEMMA MinusLeads ==
    ASSUME NEW B, NEW s, NEW t, Distinct(s, B), Distinct(t, B), Leads(s, t), NEW b \in ToSet(s)
    PROVE  Leads(Minus(s, b), Minus(t, b))
PROOF
<1>1. b \in ToSet(t) /\ PlaceIn(t, b) = PlaceIn(s, b)
  BY SamePlace
<1>2. PICK v, w : v = Minus(s, b) /\ w = Minus(t, b)
  OBVIOUS
<1>3. PICK p \in 1 .. Len(s) :
        /\ p = PlaceIn(s, b) /\ Len(v) = Len(s) - 1
        /\ \A k \in 1 .. Len(s) - 1 : v[k] = s[IF k < p THEN k ELSE k + 1]
  BY <1>2, MinusIs
<1>4. /\ Len(w) = Len(t) - 1
      /\ \A k \in 1 .. Len(t) - 1 : w[k] = t[IF k < p THEN k ELSE k + 1]
  BY <1>1, <1>2, <1>3, MinusIs
<1>5. Len(s) \in Nat /\ Len(t) \in Nat
  BY ListIs
<1>6. ASSUME NEW k \in 1 .. Len(v) PROVE v[k] = w[k]
  <2>1. PICK q : q = IF k < p THEN k ELSE k + 1
    OBVIOUS
  <2>2. q \in 1 .. Len(s) /\ k \in 1 .. Len(s) - 1 /\ k \in 1 .. Len(t) - 1
    BY <1>3, <1>5, <2>1 DEF Leads
  <2>3. v[k] = s[q] /\ w[k] = t[q]
    BY <1>3, <1>4, <2>1, <2>2
  <2> QED
    BY <2>2, <2>3 DEF Leads
<1> QED
  BY <1>2, <1>3, <1>4, <1>5, <1>6 DEF Leads

-----------------------------------------------------------------------------
(* Counting up, and what is done step by step.                             *)

\* A set that holds 0, and with each number below n the next, holds the numbers to n.
LEMMA CountsUp ==
    ASSUME NEW n \in Nat, NEW S, 0 \in S, \A i \in 0 .. n - 1 : i \in S => i + 1 \in S
    PROVE  \A i \in 0 .. n : i \in S
PROOF
<1> DEFINE Left == {n + 1 - i : i \in {j \in 0 .. n : j \notin S}}
<1>1. SUFFICES ASSUME Left # {}
               PROVE  FALSE
  OBVIOUS
<1>2. n + 1 \in Nat /\ Left \subseteq 1 .. n + 1
  OBVIOUS
<1>3. PICK l \in Left : \A k \in Left : k <= l
  <2> HIDE DEF Left
  <2> QED
    BY <1>1, <1>2, LargestExists
<1>4. PICK i \in 0 .. n : i \notin S /\ l = n + 1 - i
  OBVIOUS
<1>5. i # 0 /\ i - 1 \in 0 .. n - 1 /\ i - 1 + 1 = i
  BY <1>4
<1>6. i - 1 \notin S
  BY <1>4, <1>5
<1>7. n + 1 - (i - 1) \in Left
  BY <1>5, <1>6
<1>8. n + 1 - (i - 1) > l
  BY <1>4
<1>9. PICK k : k = n + 1 - (i - 1)
  OBVIOUS
<1> HIDE DEF Left
<1>10. k <= l /\ k > l /\ k \in Int /\ l \in Int
  BY <1>3, <1>4, <1>7, <1>8, <1>9
<1> QED
  BY <1>10

\* A value for each number of steps: what step[i] makes of the one before.
StepsBy(f, step, n) == \A i \in 1 .. n : f[i] = step[<<f[i - 1], i>>]

LEMMA StepsExist ==
    ASSUME NEW n \in Nat, NEW S, NEW base \in S, NEW step \in [S \X (1 .. n) -> S]
    PROVE  \E f \in [0 .. n -> S] : f[0] = base /\ StepsBy(f, step, n)
PROOF
<1> DEFINE Solved(i) == \E f \in [0 .. i -> S] : f[0] = base /\ StepsBy(f, step, i)
           T == {i \in 0 .. n : Solved(i)}
<1>1. 0 \in T
  <2>1. [i \in 0 .. 0 |-> base] \in [0 .. 0 -> S]
    OBVIOUS
  <2>2. PICK f : f = [i \in 0 .. 0 |-> base]
    OBVIOUS
  <2>3. f \in [0 .. 0 -> S] /\ f[0] = base /\ StepsBy(f, step, 0)
    BY <2>1, <2>2 DEF StepsBy
  <2>4. Solved(0)
    BY <2>3
  <2> QED
    BY <2>4
<1>2. ASSUME NEW i \in 0 .. n - 1, i \in T
      PROVE  i + 1 \in T
  <2>1. PICK f \in [0 .. i -> S] : f[0] = base /\ StepsBy(f, step, i)
    BY <1>2
  <2> DEFINE g == [j \in 0 .. i + 1 |-> IF j = i + 1 THEN step[<<f[i], i + 1>>] ELSE f[j]]
  <2>2. i + 1 \in 1 .. n /\ i \in 0 .. i /\ f[i] \in S
    OBVIOUS
  <2>3. step[<<f[i], i + 1>>] \in S
    BY <2>2
  <2>4. g \in [0 .. i + 1 -> S] /\ g[0] = base
    BY <2>1, <2>3
  <2>5. ASSUME NEW j \in 1 .. i + 1
        PROVE  g[j] = step[<<g[j - 1], j>>]
    <3>1. CASE j = i + 1
      <4>1. j - 1 = i /\ g[j - 1] = f[i] /\ g[j] = step[<<f[i], i + 1>>]
        BY <3>1
      <4> QED
        BY <3>1, <4>1
    <3>2. CASE j # i + 1
      <4>1. j \in 1 .. i /\ j - 1 \in 0 .. i /\ g[j] = f[j] /\ g[j - 1] = f[j - 1]
        BY <3>2
      <4> QED
        BY <2>1, <4>1 DEF StepsBy
    <3> QED
      BY <3>1, <3>2
  <2> HIDE DEF g
  <2>6. Solved(i + 1)
    BY <2>4, <2>5 DEF StepsBy
  <2> QED
    BY <2>6
<1>3. \A i \in 0 .. n : i \in T
  <2> HIDE DEF T
  <2> QED
    BY <1>1, <1>2, CountsUp
<1> QED
  BY <1>3

-----------------------------------------------------------------------------
(* What is left of a list without some of its members, in their order.     *)

Remains(s, o, X) ==
    /\ ToSet(s) = ToSet(o) \ X
    /\ \A i, j \in 1 .. Len(s) : i < j => PlaceIn(o, s[i]) < PlaceIn(o, s[j])

LEMMA LengthBound ==
    ASSUME NEW B, NEW s, Distinct(s, B), IsFiniteSet(B)
    PROVE  Len(s) \in Nat /\ Len(s) <= Cardinality(B)
PROOF
<1>1. Len(s) \in Nat /\ \A i \in 1 .. Len(s) : s[i] \in B
  BY DEF Distinct
<1>2. Cardinality({s[i] : i \in 1 .. Len(s)}) = Len(s)
  BY <1>1, FirstCount
<1>3. {s[i] : i \in 1 .. Len(s)} \subseteq B
  BY <1>1
<1> QED
  BY <1>1, <1>2, <1>3, FS_Subset

\* Positions taken away leave the rest in their order.
LEMMA RankedRemains ==
    ASSUME NEW B, NEW at \in PositionsOf(B), IsFiniteSet(B), NoTies(at), NEW D,
           NEW out, out = [x \in B |-> IF x \in D THEN -1 ELSE at[x]]
    PROVE  /\ out \in PositionsOf(B) /\ NoTies(out) /\ Members(out) = Members(at) \ D
           /\ Remains(Ranked(out), Ranked(at), D)
PROOF
<1>1. out \in PositionsOf(B) /\ NoTies(out) /\ Members(out) = Members(at) \ D
  BY DEF PositionsOf, NoTies, Members
<1>2. PICK s : s = Ranked(out) /\ Orders(s, out)
  BY <1>1, RankedLists
<1>3. PICK o : o = Ranked(at) /\ Orders(o, at) /\ Distinct(o, B)
  BY RankedLists, ListedOnce
<1>4. ToSet(s) = Members(out) /\ ToSet(o) = Members(at)
      /\ \A i \in 1 .. Len(s) : s[i] \in Members(out)
  BY <1>1, <1>2, <1>3, ListedOnce DEF Orders
<1>5. ASSUME NEW x \in Members(at)
      PROVE  PlaceIn(o, x) = Rank(at, x)
  <2>1. PlaceIn(o, x) \in 1 .. Len(o) /\ o[PlaceIn(o, x)] = x
    BY <1>3, <1>4, ListIs
  <2>2. \A i \in 1 .. Len(o) : Rank(at, o[i]) = i
    BY <1>3, OrderIsRanked
  <2> QED
    BY <2>1, <2>2
<1>6. ASSUME NEW i \in 1 .. Len(s), NEW j \in 1 .. Len(s), i < j
      PROVE  PlaceIn(o, s[i]) < PlaceIn(o, s[j])
  <2>1. PICK x, y : x = s[i] /\ y = s[j]
    OBVIOUS
  <2>2. out[x] < out[y] /\ x \in Members(at) \ D /\ y \in Members(at) \ D /\ x \in B /\ y \in B
    BY <1>1, <1>2, <1>4, <1>6, <2>1 DEF Orders, Members, PositionsOf
  <2>3. at[x] < at[y]
    BY <2>2
  <2>4. Rank(at, x) < Rank(at, y)
    BY <2>2, <2>3, RankGrows
  <2> QED
    BY <1>5, <2>1, <2>2, <2>4
<1> QED
  BY <1>1, <1>2, <1>3, <1>4, <1>6 DEF Remains

\* A list that has lost nobody is the list it was.
LEMMA RemainsAll ==
    ASSUME NEW B, NEW s, NEW o, Distinct(s, B), Distinct(o, B), Remains(s, o, {})
    PROVE  s = o
PROOF
<1>1. PICK at : at = Indexed(B, o) /\ at \in PositionsOf(B) /\ Orders(o, at)
  BY IndexedLists
<1>2. /\ ToSet(s) = ToSet(o) /\ ToSet(o) = Members(at) /\ s \in Seq(B) /\ DOMAIN at = B
      /\ \A i \in 1 .. Len(s) : s[i] \in ToSet(s) /\ s[i] \in B
      /\ \A b \in ToSet(o) : PlaceIn(o, b) \in Int /\ at[b] = PlaceIn(o, b) - 1 /\ b \in B
  <2>1. \A b \in ToSet(o) : PlaceIn(o, b) \in Int /\ b \in B
    BY ListIs
  <2> QED
    BY <1>1, <2>1, ListIs DEF Remains, Orders, Indexed, Distinct, PositionsOf
<1>3. ASSUME NEW i \in 1 .. Len(s), NEW j \in 1 .. Len(s), i < j
      PROVE  at[s[i]] < at[s[j]]
  <2>1. PlaceIn(o, s[i]) < PlaceIn(o, s[j])
    BY <1>3 DEF Remains
  <2>2. s[i] \in ToSet(o) /\ s[j] \in ToSet(o)
    BY <1>2
  <2> QED
    BY <1>2, <2>1, <2>2
<1>4. Orders(s, at)
  BY <1>2, <1>3 DEF Orders
<1> QED
  BY <1>1, <1>4, OrderIsRanked

\* Before the first one that is lost, nothing has moved.
LEMMA RemainsBegins ==
    ASSUME NEW B, NEW s, NEW o, NEW X, NEW p \in Nat, Distinct(s, B), Distinct(o, B), Remains(s, o, X),
           p <= Len(o), \A i \in 1 .. p : o[i] \notin X
    PROVE  p <= Len(s) /\ \A i \in 1 .. p : s[i] = o[i]
PROOF
<1>1. /\ Len(s) \in Nat /\ \A i \in 1 .. Len(s) : s[i] \in ToSet(s) /\ PlaceIn(s, s[i]) = i
      /\ \A b \in ToSet(s) : PlaceIn(s, b) \in 1 .. Len(s) /\ s[PlaceIn(s, b)] = b
  BY ListIs
<1>2. /\ Len(o) \in Nat /\ \A i \in 1 .. Len(o) : o[i] \in ToSet(o) /\ PlaceIn(o, o[i]) = i
      /\ \A b \in ToSet(o) : PlaceIn(o, b) \in 1 .. Len(o) /\ o[PlaceIn(o, b)] = b
  BY ListIs
<1> DEFINE T == {i \in 0 .. p : i <= Len(s) /\ \A j \in 1 .. i : s[j] = o[j]}
<1>3. 0 \in T
  BY <1>1
<1>4. ASSUME NEW i \in 0 .. p - 1, i \in T
      PROVE  i + 1 \in T
  <2>1. i + 1 \in 1 .. p /\ i + 1 \in 1 .. Len(o) /\ o[i + 1] \in ToSet(s)
    BY <1>2 DEF Remains
  <2>2. PICK k \in 1 .. Len(s) : s[k] = o[i + 1]
    BY <1>1, <2>1
  <2>3. \A j \in 1 .. i : s[j] = o[j] /\ j \in 1 .. Len(o) /\ j \in 1 .. Len(s)
    BY <1>1, <1>2, <1>4
  <2>4. k > i
    <3>1. ASSUME k \in 1 .. i
          PROVE  FALSE
      <4>1. o[k] = o[i + 1] /\ k \in 1 .. Len(o)
        BY <2>2, <2>3, <3>1
      <4>2. k = i + 1
        BY <1>2, <2>1, <4>1
      <4> QED
        BY <3>1, <4>2
    <3> QED
      BY <3>1
  <2>5. k = i + 1
    <3>1. ASSUME k > i + 1
          PROVE  FALSE
      <4>1. i + 1 \in 1 .. Len(s)
        BY <1>1, <3>1
      <4>2. PlaceIn(o, s[i + 1]) < PlaceIn(o, s[k])
        BY <3>1, <4>1 DEF Remains
      <4>3. PICK m : m = PlaceIn(o, s[i + 1])
        OBVIOUS
      <4>4. m \in 1 .. Len(o) /\ o[m] = s[i + 1] /\ m < i + 1
        <5>1. s[i + 1] \in ToSet(o)
          BY <1>1, <4>1 DEF Remains
        <5>2. PlaceIn(o, s[k]) = i + 1
          BY <1>2, <2>1, <2>2
        <5> QED
          BY <1>2, <4>2, <4>3, <5>1, <5>2
      <4>5. m \in 1 .. i
        BY <4>4
      <4>6. s[m] = s[i + 1] /\ m \in 1 .. Len(s)
        BY <2>3, <4>4, <4>5
      <4>7. m = i + 1
        BY <1>1, <4>1, <4>6
      <4> QED
        BY <4>5, <4>7
    <3> QED
      BY <2>4, <3>1
  <2>6. \A j \in 1 .. i + 1 : s[j] = o[j]
    BY <2>2, <2>3, <2>5
  <2> QED
    BY <2>1, <2>2, <2>5, <2>6
<1>5. \A i \in 0 .. p : i \in T
  <2> HIDE DEF T
  <2> QED
    BY <1>3, <1>4, CountsUp
<1>6. p \in T
  BY <1>5
<1> QED
  BY <1>6

\* The first one that is lost goes back to where it was.
FirstLost(s, o, X, b, p) ==
    /\ Remains(s, o, X) /\ b \in ToSet(o) /\ b \in X /\ p = PlaceIn(o, b)
    /\ \A c \in X : c \in ToSet(o) /\ c # b => p < PlaceIn(o, c)

LEMMA RemainsGrows ==
    ASSUME NEW B, NEW s, NEW o, NEW X, NEW b, NEW p, NEW t, Distinct(s, B), Distinct(o, B),
           FirstLost(s, o, X, b, p), t = InsertAt(s, p, b)
    PROVE  /\ p \in 1 .. Len(s) + 1 /\ Distinct(t, B) /\ Remains(t, o, X \ {b})
PROOF
<1>0. /\ Remains(s, o, X) /\ b \in ToSet(o) /\ b \in X /\ p = PlaceIn(o, b)
      /\ \A c \in X : c \in ToSet(o) /\ c # b => p < PlaceIn(o, c)
  BY DEF FirstLost
<1>1. /\ Len(s) \in Nat /\ \A i \in 1 .. Len(s) : s[i] \in ToSet(s)
  BY ListIs
<1>2. /\ Len(o) \in Nat /\ \A i \in 1 .. Len(o) : o[i] \in ToSet(o) /\ PlaceIn(o, o[i]) = i
      /\ \A c \in ToSet(o) : PlaceIn(o, c) \in 1 .. Len(o) /\ o[PlaceIn(o, c)] = c
  BY ListIs
<1>3. p \in 1 .. Len(o) /\ o[p] = b /\ b \in B
  BY <1>0, <1>2, ListIs
<1>4. ASSUME NEW i \in 1 .. p - 1
      PROVE  o[i] \notin X
  <2>1. i \in 1 .. Len(o) /\ i < p
    BY <1>2, <1>3
  <2>2. o[i] \in ToSet(o) /\ PlaceIn(o, o[i]) = i /\ o[i] # b
    BY <1>0, <1>2, <2>1
  <2> QED
    BY <1>0, <1>3, <2>1, <2>2
<1>5. p - 1 <= Len(s) /\ \A i \in 1 .. p - 1 : s[i] = o[i]
  <2>1. p - 1 \in Nat /\ p - 1 <= Len(o)
    BY <1>2, <1>3
  <2> QED
    BY <1>0, <1>4, <2>1, RemainsBegins
<1>6. p \in 1 .. Len(s) + 1
  BY <1>1, <1>3, <1>5
<1>7. b \notin ToSet(s)
  BY <1>0 DEF Remains
<1>8. Distinct(t, B) /\ ToSet(t) = ToSet(s) \cup {b}
  BY <1>3, <1>6, <1>7, PutBack
<1>9. /\ Len(t) = Len(s) + 1
      /\ \A k \in 1 .. Len(s) + 1 : t[k] = IF k < p THEN s[k] ELSE IF k = p THEN b ELSE s[k - 1]
  <2>1. s \in Seq(B)
    BY DEF Distinct
  <2> QED
    BY <1>3, <1>6, <2>1, InsertedAt
<1>10. ASSUME NEW k \in 1 .. Len(s)
       PROVE  /\ s[k] \in ToSet(o) /\ PlaceIn(o, s[k]) \in Int
              /\ k < p => PlaceIn(o, s[k]) = k
              /\ k >= p => PlaceIn(o, s[k]) > p
  <2>1. s[k] \in ToSet(s) /\ s[k] \in ToSet(o) /\ PlaceIn(o, s[k]) \in 1 .. Len(o)
        /\ o[PlaceIn(o, s[k])] = s[k]
    BY <1>0, <1>1, <1>2 DEF Remains
  <2>2. CASE k < p
    <3>1. k \in 1 .. p - 1 /\ k \in 1 .. Len(o)
      BY <1>2, <1>3, <2>2
    <3>2. PlaceIn(o, s[k]) = k
      BY <1>2, <1>5, <3>1
    <3> QED
      BY <1>3, <2>1, <2>2, <3>2
  <2>3. CASE k >= p
    <3>1. PICK m : m = PlaceIn(o, s[k])
      OBVIOUS
    <3>2. m # p
      BY <1>3, <1>7, <2>1, <3>1
    <3>3. ASSUME m \in 1 .. p - 1
          PROVE  FALSE
      <4>1. s[m] = o[m] /\ o[m] = s[k]
        BY <1>5, <2>1, <3>1, <3>3
      <4>2. m \in 1 .. Len(s)
        BY <1>1, <1>3, <1>5, <3>3
      <4>3. m = k
        BY <4>1, <4>2 DEF Distinct
      <4> QED
        BY <1>3, <2>3, <3>3, <4>3
    <3> QED
      BY <1>3, <2>1, <2>3, <3>1, <3>2, <3>3
  <2> QED
    BY <1>3, <2>2, <2>3
<1>11. ASSUME NEW i \in 1 .. Len(t), NEW j \in 1 .. Len(t), i < j
       PROVE  PlaceIn(o, t[i]) < PlaceIn(o, t[j])
  <2>1. CASE j < p
    <3>1. i \in 1 .. Len(s) /\ j \in 1 .. Len(s) /\ t[i] = s[i] /\ t[j] = s[j] /\ i < p
      BY <1>1, <1>3, <1>6, <1>9, <1>11, <2>1
    <3> QED
      BY <1>10, <1>11, <2>1, <3>1
  <2>2. CASE j = p
    <3>1. i \in 1 .. Len(s) /\ t[i] = s[i] /\ t[j] = b /\ i < p
      BY <1>1, <1>3, <1>6, <1>9, <1>11, <2>2
    <3> QED
      BY <1>0, <1>10, <1>11, <2>2, <3>1
  <2>3. CASE j > p
    <3>1. j - 1 \in 1 .. Len(s) /\ t[j] = s[j - 1] /\ j - 1 >= p
      BY <1>1, <1>3, <1>6, <1>9, <2>3
    <3>2. PlaceIn(o, t[j]) > p /\ PlaceIn(o, t[j]) \in Int
      BY <1>10, <3>1
    <3>3. CASE i < p
      <4>1. i \in 1 .. Len(s) /\ t[i] = s[i]
        BY <1>1, <1>3, <1>6, <1>9, <3>3
      <4>2. PlaceIn(o, t[i]) = i
        BY <1>10, <3>3, <4>1
      <4> QED
        BY <1>3, <3>2, <3>3, <4>2
    <3>4. CASE i = p
      <4>1. t[i] = b
        BY <1>1, <1>3, <1>6, <1>9, <3>4
      <4> QED
        BY <1>0, <3>2, <4>1
    <3>5. CASE i > p
      <4>1. i - 1 \in 1 .. Len(s) /\ t[i] = s[i - 1] /\ i - 1 < j - 1
        BY <1>1, <1>3, <1>6, <1>9, <1>11, <3>5
      <4>2. PlaceIn(o, s[i - 1]) < PlaceIn(o, s[j - 1])
        BY <1>0, <3>1, <4>1 DEF Remains
      <4> QED
        BY <3>1, <4>1, <4>2
    <3> QED
      BY <1>3, <3>3, <3>4, <3>5
  <2> QED
    BY <1>3, <2>1, <2>2, <2>3
<1>12. ToSet(t) = ToSet(o) \ (X \ {b})
  BY <1>0, <1>8 DEF Remains
<1> QED
  BY <1>6, <1>8, <1>11, <1>12 DEF Remains
=============================================================================
