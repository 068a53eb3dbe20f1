---------------------------- MODULE ReadingProofs ----------------------------
(***************************************************************************)
(* Theorems about Reader, for a book of any number of pages, any of them   *)
(* wide, and rows of any height: autoplay goes on while it may and         *)
(* yields when it must, spreads fit, turns lead back, and no step leaves   *)
(* or records a page that was not on screen. And about Progress, for any   *)
(* devices, edits and failures: no edit is forgotten while a book is open, *)
(* "saved" is the truth, and a save overwrites nothing of another device.  *)
(*                                                                         *)
(* Reader's invariant relates four copies of what is shown: what renders,  *)
(* the view's report of it, the context last given to autoplay, and the    *)
(* context autoplay holds. With all effects run the four agree; between    *)
(* renders and effects it says which of them may be behind, and why a      *)
(* timer set meanwhile is still for the page on screen.                    *)
(***************************************************************************)
EXTENDS Reader, Progress, OrderingProofs, TLAPS

-----------------------------------------------------------------------------
(* Spreads.                                                                *)

LEMMA Pages ==
    /\ PageNo \subseteq Nat /\ 0 \in PageNo /\ LastPage \in PageNo /\ None \notin PageNo
    /\ \A p \in PageNo : p <= LastPage /\ (p # 0 => p - 1 \in PageNo)
    /\ \A p \in PageNo : p # LastPage => p + 1 \in PageNo
    /\ \A p \in PageNo : p + 1 \in PageNo <=> p # LastPage
PROOF
  BY ReaderAssumption DEF PageNo, LastPage, None

\* What the recursion says of page p.
Goes(f, p, cover) == f[p] = (p = 0 \/ ~f[p - 1] \/ Solo(p - 1, cover))

\* The recursion has a solution for the first n pages of the book.
LEMMA BeginsTo ==
    ASSUME NEW cover \in BOOLEAN
    PROVE  \A n \in 0 .. Count : \E f \in [0 .. n - 1 -> BOOLEAN] : \A p \in 0 .. n - 1 : Goes(f, p, cover)
PROOF
<1> DEFINE Solved(n) == \E f \in [0 .. n - 1 -> BOOLEAN] : \A p \in 0 .. n - 1 : Goes(f, p, cover)
           Left == {Count + 1 - n : n \in {m \in 0 .. Count : ~Solved(m)}}
<1>1. SUFFICES ASSUME Left # {}
               PROVE  FALSE
  OBVIOUS
<1>2. Count + 1 \in Nat /\ Left \subseteq 1 .. Count + 1
  BY ReaderAssumption
<1>3. PICK l \in Left : \A k \in Left : k <= l
  <2> HIDE DEF Left
  <2> QED
    BY <1>1, <1>2, LargestExists
<1>4. PICK n \in 0 .. Count : ~Solved(n) /\ l = Count + 1 - n
  OBVIOUS
<1>5. n # 0
  <2>1. SUFFICES Solved(0)
    BY <1>4
  <2>2. 0 .. 0 - 1 = {}
    OBVIOUS
  <2>3. [p \in 0 .. 0 - 1 |-> TRUE] \in [0 .. 0 - 1 -> BOOLEAN]
    OBVIOUS
  <2> QED
    BY <2>2, <2>3
<1>6. Solved(n - 1)
  <2>1. n - 1 \in 0 .. Count
    BY <1>5, ReaderAssumption
  <2>2. Count + 1 - (n - 1) > l
    BY <1>4, ReaderAssumption
  <2>3. Count + 1 - (n - 1) \notin Left
    <3>1. \A k \in Left : k <= l /\ k \in Int /\ l \in Int
      <4> HIDE DEF Left
      <4> QED
        BY <1>2, <1>3
    <3> HIDE DEF Left
    <3> QED
      BY <2>1, <2>2, <3>1, ReaderAssumption
  <2> QED
    BY <2>1, <2>3
<1>7. PICK f \in [0 .. n - 2 -> BOOLEAN] : \A p \in 0 .. n - 2 : Goes(f, p, cover)
  <2>1. (n - 1) - 1 = n - 2
    OBVIOUS
  <2> QED
    BY <1>6, <2>1
<1>8. PICK b : b = (n - 1 = 0 \/ ~f[n - 2] \/ Solo(n - 2, cover))
  OBVIOUS
<1>9. PICK g : g = [p \in 0 .. n - 1 |-> IF p = n - 1 THEN b ELSE f[p]]
  OBVIOUS
<1>10. g \in [0 .. n - 1 -> BOOLEAN]
  <2>1. b \in BOOLEAN
    BY <1>8
  <2>2. \A p \in 0 .. n - 1 : p # n - 1 => p \in 0 .. n - 2
    OBVIOUS
  <2>3. \A p \in 0 .. n - 1 : (IF p = n - 1 THEN b ELSE f[p]) \in BOOLEAN
    BY <1>7, <2>1, <2>2
  <2> QED
    BY <1>9, <2>3
<1>11. \A p \in 0 .. n - 1 : Goes(g, p, cover)
  <2>1. TAKE p \in 0 .. n - 1
  <2>2. CASE p = n - 1
    <3>1. g[p] = b
      BY <1>9, <2>2
    <3>2. p # 0 => g[p - 1] = f[n - 2]
      BY <1>9, <2>2
    <3>3. p - 1 = n - 2
      BY <2>2
    <3> QED
      BY <1>8, <2>2, <3>1, <3>2, <3>3 DEF Goes
  <2>3. CASE p # n - 1
    <3>1. p \in 0 .. n - 2 /\ g[p] = f[p]
      BY <1>9, <2>3
    <3>2. p # 0 => g[p - 1] = f[p - 1]
      BY <1>9, <2>3
    <3> QED
      BY <1>7, <3>1, <3>2 DEF Goes
  <2> QED
    BY <2>2, <2>3
<1> QED
  BY <1>4, <1>10, <1>11

LEMMA BeginsIs ==
    ASSUME NEW cover \in BOOLEAN
    PROVE  /\ Begins(cover) \in [PageNo -> BOOLEAN]
           /\ \A p \in PageNo : Begins(cover)[p] <=> p = 0 \/ ~Begins(cover)[p - 1] \/ Solo(p - 1, cover)
PROOF
<1>1. Count \in 0 .. Count /\ PageNo = 0 .. Count - 1
  BY ReaderAssumption DEF PageNo
<1>2. PICK f \in [PageNo -> BOOLEAN] : \A p \in PageNo : Goes(f, p, cover)
  BY <1>1, BeginsTo
<1>3. f = [p \in PageNo |-> p = 0 \/ ~f[p - 1] \/ Solo(p - 1, cover)]
  BY <1>2 DEF Goes
<1>4. PICK g : g = Begins(cover)
  OBVIOUS
<1>5. g = [p \in PageNo |-> p = 0 \/ ~g[p - 1] \/ Solo(p - 1, cover)]
  BY <1>3, <1>4 DEF Begins
<1>6. g \in [PageNo -> BOOLEAN] /\ \A p \in PageNo : g[p] <=> p = 0 \/ ~g[p - 1] \/ Solo(p - 1, cover)
  BY <1>5
<1> QED
  BY <1>4, <1>6

First(p, cover) == IF Begins(cover)[p] THEN p ELSE p - 1

\* A page's group begins with it or just before it, and holds two pages unless one is alone.
LEMMA GroupIs ==
    ASSUME NEW cover \in BOOLEAN, NEW p \in PageNo, NEW f, f = First(p, cover)
    PROVE  /\ f \in PageNo /\ Begins(cover)[f] /\ (f = p \/ f + 1 = p)
           /\ \/ Solo(f, cover) /\ Group(p, cover) = {f} /\ f = p
              \/ ~Solo(f, cover) /\ f + 1 \in PageNo /\ Group(p, cover) = {f, f + 1}
           /\ p \in Group(p, cover) /\ Group(p, cover) \subseteq PageNo
PROOF
<1>1. PICK B : /\ B = Begins(cover) /\ B \in [PageNo -> BOOLEAN]
               /\ \A q \in PageNo : B[q] <=> q = 0 \/ ~B[q - 1] \/ Solo(q - 1, cover)
  BY BeginsIs
<1>2. f = IF B[p] THEN p ELSE p - 1
  BY <1>1 DEF First
<1>3. /\ f \in PageNo /\ B[f] /\ (f = p \/ f + 1 = p)
      /\ f # p => ~Solo(f, cover)
  <2>1. CASE B[p]
    BY <1>2, <2>1
  <2>2. CASE ~B[p]
    <3>1. p # 0 /\ B[p - 1] /\ ~Solo(p - 1, cover)
      BY <1>1, <2>2
    <3> QED
      BY <1>2, <2>2, <3>1, Pages
  <2> QED
    BY <2>1, <2>2
<1>4. Group(p, cover) = IF Solo(f, cover) THEN {f} ELSE {f, f + 1}
  BY <1>1, <1>2 DEF Group
<1>5. ~Solo(f, cover) => f + 1 \in PageNo
  BY <1>3, Pages DEF Solo
<1> QED
  BY <1>1, <1>3, <1>4, <1>5

\* Every page of a group has that group.
LEMMA GroupsAgree ==
    ASSUME NEW cover \in BOOLEAN, NEW p \in PageNo, NEW q \in Group(p, cover)
    PROVE  q \in PageNo /\ Group(q, cover) = Group(p, cover)
PROOF
<1>1. PICK f : f = First(p, cover)
  OBVIOUS
<1>2. /\ f \in PageNo /\ Begins(cover)[f]
      /\ \/ Solo(f, cover) /\ Group(p, cover) = {f}
         \/ ~Solo(f, cover) /\ f + 1 \in PageNo /\ Group(p, cover) = {f, f + 1}
  BY <1>1, GroupIs
<1>3. q \in PageNo /\ (q = f \/ (q = f + 1 /\ ~Solo(f, cover)))
  BY <1>2
<1>4. First(q, cover) = f
  <2>1. CASE q = f
    BY <1>2, <2>1 DEF First
  <2>2. CASE q = f + 1 /\ ~Solo(f, cover)
    <3>1. q # 0 /\ q - 1 = f
      BY <1>2, <2>2, Pages
    <3>2. ~Begins(cover)[q]
      BY <1>2, <1>3, <2>2, <3>1, BeginsIs
    <3> QED
      BY <3>1, <3>2 DEF First
  <2> QED
    BY <1>3, <2>1, <2>2
<1> QED
  BY <1>2, <1>3, <1>4 DEF Group, First

LEMMA SpreadsFitLemma == SpreadsFit
PROOF
<1>1. SUFFICES ASSUME NEW cover \in BOOLEAN, NEW p \in PageNo, NEW g, g = Group(p, cover)
               PROVE  /\ p \in g /\ \A q \in g : Group(q, cover) = g
                      /\ \/ /\ g \in {{p - 1, p}, {p, p + 1}} /\ g \cap Wide = {}
                            /\ ~(cover /\ 0 \in g)
                         \/ /\ g = {p}
                            /\ p \in Wide \cup {LastPage} \/ (cover /\ p = 0) \/ p + 1 \in Wide
  BY DEF SpreadsFit
<1>2. PICK f : f = First(p, cover)
  OBVIOUS
<1>3. /\ f \in PageNo /\ f \in Int /\ p \in Int /\ (f = p \/ f + 1 = p)
      /\ \/ Solo(f, cover) /\ g = {f} /\ f = p
         \/ ~Solo(f, cover) /\ f + 1 \in PageNo /\ g = {f, f + 1}
      /\ p \in g
  BY <1>1, <1>2, GroupIs, Pages
<1>4. ASSUME ~Solo(f, cover), g = {f, f + 1}
      PROVE  /\ g \in {{p - 1, p}, {p, p + 1}} /\ g \cap Wide = {}
             /\ ~(cover /\ 0 \in g)
  <2>1. f \notin Wide /\ f + 1 \notin Wide /\ ~(cover /\ f = 0) /\ f + 1 # 0
    BY <1>3, <1>4, Pages DEF Solo
  <2>2. g = {p, p + 1} \/ g = {p - 1, p}
    <3>1. f + 1 = p => f = p - 1
      BY <1>3
    <3> QED
      BY <1>3, <1>4, <3>1
  <2> QED
    BY <1>4, <2>1, <2>2
<1>5. ASSUME Solo(f, cover), f = p
      PROVE  p \in Wide \cup {LastPage} \/ (cover /\ p = 0) \/ p + 1 \in Wide
  BY <1>5 DEF Solo
<1> QED
  BY <1>1, <1>3, <1>4, <1>5, GroupsAgree

-----------------------------------------------------------------------------
(* The column.                                                             *)

\* Rows follow one another from the top, and the column is never past its end.
LEMMA Rows ==
    ASSUME bottom \in Layouts
    PROVE  /\ \A p \in PageNo : bottom[p] \in Nat /\ Above(p) \in Nat /\ Above(p) < bottom[p]
           /\ Above(0) = 0
           /\ \A p \in PageNo : p # LastPage => Above(p + 1) = bottom[p]
           /\ Maximum \in Nat /\ (\A t \in Nat : Clamped(t) \in 0 .. Maximum)
           /\ \A t \in 0 .. Maximum : t < bottom[LastPage]
           /\ \A t \in 0 .. Maximum : t >= Maximum => bottom[LastPage] <= t + Viewport
PROOF
<1>1. PICK b : b = bottom
  OBVIOUS
<1>2. /\ b \in [PageNo -> Nat] /\ b[0] > 0
      /\ \A p \in PageNo : p # 0 => b[p] > b[p - 1]
  BY <1>1, ReaderAssumption
<1>3. \A p \in PageNo : b[p] \in Nat /\ (p # 0 => b[p - 1] \in Nat)
  BY <1>2, Pages
<1>4. \A p \in PageNo : Above(p) = IF p = 0 THEN 0 ELSE b[p - 1]
  BY <1>1 DEF Above
<1>5. \A p \in PageNo : Above(p) \in Nat /\ Above(p) < b[p]
  BY <1>2, <1>3, <1>4
<1>6. \A p \in PageNo : p # LastPage => Above(p + 1) = b[p]
  <2>1. TAKE p \in PageNo
  <2>2. p \in Nat /\ p + 1 # 0 /\ (p + 1) - 1 = p
    BY Pages
  <2> QED
    BY <1>4, <2>2, Pages
<1>7. PICK e, m, v : e = b[LastPage] /\ v = Viewport /\ m = IF e > v THEN e - v ELSE 0
  OBVIOUS
<1>8. e \in Nat /\ e > 0 /\ v \in Nat \ {0} /\ Maximum = m
  BY <1>1, <1>3, <1>5, <1>7, Pages, ReaderAssumption DEF Maximum
<1>9. m \in Nat /\ (\A t \in 0 .. m : t < e) /\ \A t \in 0 .. m : t >= m => e <= t + v
  BY <1>7, <1>8
<1>10. \A t \in Nat : Clamped(t) \in 0 .. m
  BY <1>8, <1>9 DEF Clamped
<1>11. Above(0) = 0
  BY DEF Above
<1> QED
  BY <1>1, <1>3, <1>5, <1>6, <1>7, <1>8, <1>9, <1>10, <1>11

\* The page being read is one of those on screen, and at the end so is the last.
LEMMA ActiveIs ==
    ASSUME bottom \in Layouts, NEW t \in 0 .. Maximum
    PROVE  /\ ActiveAt(t) \in OnScreen(t) /\ OnScreen(t) \subseteq PageNo
           /\ t >= Maximum => LastPage \in OnScreen(t)
PROOF
<1>1. PICK S, a : S = {p \in PageNo : Above(p) <= t + Lead} /\ a = ActiveAt(t)
  OBVIOUS
<1>2. /\ t \in Nat /\ Lead \in Nat /\ Viewport \in Nat /\ Lead < Viewport
      /\ t < bottom[LastPage] /\ Maximum \in Nat
      /\ (t >= Maximum => bottom[LastPage] <= t + Viewport)
  BY Rows, ReaderAssumption
<1>3. 0 \in S /\ S \subseteq PageNo
  BY <1>1, <1>2, Rows, Pages
<1>4. \E x \in S : \A y \in S : x >= y
  <2>1. S \subseteq 0 .. LastPage /\ LastPage \in Nat
    BY <1>3, Pages
  <2>2. PICK T : T = {s + 1 : s \in S}
    OBVIOUS
  <2>3. T # {} /\ T \subseteq 1 .. LastPage + 1 /\ LastPage + 1 \in Nat
    BY <1>3, <2>1, <2>2
  <2>4. PICK l \in T : \A k \in T : k <= l
    BY <2>3, LargestExists
  <2>5. PICK x \in S : l = x + 1
    BY <2>2
  <2>6. \A y \in S : y + 1 <= x + 1 /\ y \in Int /\ x \in Int
    BY <2>1, <2>2, <2>4, <2>5
  <2> QED
    BY <2>6
<1>5. a \in S /\ \A y \in S : a >= y
  BY <1>1, <1>4 DEF ActiveAt, GreatestOf
<1>6. a \in PageNo /\ Above(a) \in Nat /\ bottom[a] \in Nat /\ Above(a) <= t + Lead
  BY <1>1, <1>3, <1>5, Rows
<1>7. Above(a) < t + Viewport
  BY <1>2, <1>6
<1>8. bottom[a] > t
  <2>1. CASE a = LastPage
    BY <1>2, <1>6, <2>1
  <2>2. CASE a # LastPage
    <3>1. a + 1 \in PageNo /\ a \in Int /\ ~(a >= a + 1)
      BY <1>6, <2>2, Pages
    <3>2. a + 1 \notin S
      BY <1>5, <3>1
    <3>3. Above(a + 1) = bottom[a]
      BY <1>6, <2>2, Rows
    <3> QED
      BY <1>1, <1>2, <1>6, <3>1, <3>2, <3>3
  <2> QED
    BY <2>1, <2>2
<1>9. a \in OnScreen(t)
  BY <1>6, <1>7, <1>8 DEF OnScreen
<1>10. ASSUME t >= Maximum
       PROVE  LastPage \in OnScreen(t)
  <2>1. /\ bottom[LastPage] <= t + Viewport /\ bottom[LastPage] \in Nat
        /\ Above(LastPage) \in Nat /\ Above(LastPage) < bottom[LastPage]
    BY <1>2, <1>10, Rows, Pages
  <2> QED
    BY <1>2, <2>1, Pages DEF OnScreen
<1>11. OnScreen(t) \subseteq PageNo
  BY DEF OnScreen
<1> QED
  BY <1>1, <1>9, <1>10, <1>11

\* The column that keeps its layout and its offset shows the same.
LEMMA SameColumn ==
    ASSUME UNCHANGED bottom
    PROVE  /\ \A p : Above(p)' = Above(p)
           /\ \A t : OnScreen(t)' = OnScreen(t) /\ ActiveAt(t)' = ActiveAt(t)
           /\ Maximum' = Maximum /\ Wide' = Wide
PROOF
<1>1. \A p : Above(p)' = Above(p)
  BY DEF Above
<1> QED
  BY <1>1 DEF OnScreen, ActiveAt, Maximum, Wide, Above

-----------------------------------------------------------------------------
(* What is displayed, and where turns lead.                                *)

LEMMA DisplayedIs ==
    ASSUME coverSolo \in BOOLEAN, NEW p \in PageNo
    PROVE  /\ p \in Displayed(p) /\ Displayed(p) \subseteq PageNo
           /\ \A q \in Displayed(p) : Displayed(q) = Displayed(p)
           /\ LeastOf(Displayed(p)) \in Displayed(p)
           /\ \A q \in Displayed(p) : LeastOf(Displayed(p)) <= q
           /\ GreatestOf(Displayed(p)) \in Displayed(p)
           /\ \A q \in Displayed(p) : q <= GreatestOf(Displayed(p))
PROOF
<1>1. CASE mode = "spread"
  <2>1. PICK f, S : f = First(p, coverSolo) /\ S = Displayed(p)
    OBVIOUS
  <2>2. S = Group(p, coverSolo)
    BY <1>1, <2>1 DEF Displayed
  <2>3. f \in PageNo /\ p \in S /\ S \subseteq PageNo /\ (S = {f} \/ S = {f, f + 1})
    BY <2>1, <2>2, GroupIs
  <2>4. \A q \in S : Displayed(q) = S
    BY <1>1, <2>2, GroupsAgree DEF Displayed
  <2>5. f \in Int
    BY <2>3, Pages
  <2>6. \E x \in S : \A y \in S : x <= y
    BY <2>3, <2>5
  <2>7. \E x \in S : \A y \in S : x >= y
    <3>1. CASE S = {f}
      BY <2>5, <3>1
    <3>2. CASE S = {f, f + 1}
      <4>1. f + 1 >= f /\ f + 1 >= f + 1
        BY <2>5
      <4> QED
        BY <3>2, <4>1
    <3> QED
      BY <2>3, <3>1, <3>2
  <2>8. LeastOf(S) \in S /\ \A y \in S : LeastOf(S) <= y
    BY <2>6 DEF LeastOf
  <2>9. GreatestOf(S) \in S /\ \A y \in S : GreatestOf(S) >= y
    BY <2>7 DEF GreatestOf
  <2>10. \A y \in S : y <= GreatestOf(S)
    BY <2>3, <2>9, Pages
  <2> QED
    BY <2>1, <2>3, <2>4, <2>8, <2>9, <2>10
<1>2. CASE mode # "spread"
  <2>1. \A q : Displayed(q) = {q}
    BY <1>2 DEF Displayed
  <2>2. p \in Int
    BY Pages
  <2>3. LeastOf({p}) = p /\ GreatestOf({p}) = p
    BY <2>2 DEF LeastOf, GreatestOf
  <2>4. \A q \in {p} : LeastOf({p}) <= q /\ q <= GreatestOf({p})
    BY <2>2, <2>3
  <2> QED
    BY <2>1, <2>3, <2>4
<1> QED
  BY <1>1, <1>2

LEMMA TurnsAre ==
    ASSUME coverSolo \in BOOLEAN, NEW p \in PageNo
    PROVE  /\ NextOf(p) \in PageNo \cup {None} /\ PreviousOf(p) \in PageNo \cup {None}
           /\ NextOf(p) # None => Displayed(NextOf(p)) # Displayed(p) /\ NextOf(p) # p
PROOF
<1>1. PICK g, l : g = GreatestOf(Displayed(p)) + 1 /\ l = LeastOf(Displayed(p)) - 1
  OBVIOUS
<1>2. NextOf(p) = IF g \in PageNo THEN g ELSE None
  BY <1>1 DEF NextOf
<1>3. PreviousOf(p) = IF l \in PageNo THEN LeastOf(Displayed(l)) ELSE None
  BY <1>1 DEF PreviousOf
<1>4. l \in PageNo => LeastOf(Displayed(l)) \in PageNo
  BY DisplayedIs
<1>5. g \notin Displayed(p)
  <2>1. PICK S, m : S = Displayed(p) /\ m = GreatestOf(S) /\ g = m + 1
    BY <1>1
  <2>2. m \in Nat /\ \A q \in S : q <= m
    BY <2>1, DisplayedIs, Pages
  <2>3. ~(g <= m)
    BY <2>1, <2>2
  <2> QED
    BY <2>1, <2>2, <2>3
<1>6. g \in PageNo => g \in Displayed(g)
  BY DisplayedIs
<1> QED
  BY <1>2, <1>3, <1>4, <1>5, <1>6, DisplayedIs

LEMMA TurnsReturnLemma ==
    ASSUME coverSolo \in BOOLEAN, page \in PageNo
    PROVE  TurnsReturn
PROOF
<1>1. SUFFICES ASSUME mode = "spread", NextOf(page) # None
               PROVE  PreviousOf(NextOf(page)) = LeastOf(Displayed(page))
  BY DEF TurnsReturn
<1>2. PICK S, m, q : S = Displayed(page) /\ m = GreatestOf(S) /\ q = m + 1
  OBVIOUS
<1>3. q \in PageNo /\ NextOf(page) = q
  BY <1>1, <1>2 DEF NextOf
<1>4. m \in S /\ S \subseteq PageNo /\ (\A x \in S : x <= m) /\ Displayed(m) = S
  BY <1>2, DisplayedIs
<1>5. PICK f : f = First(page, coverSolo)
  OBVIOUS
<1>6. /\ f \in PageNo /\ Begins(coverSolo)[f]
      /\ \/ Solo(f, coverSolo) /\ S = {f}
         \/ ~Solo(f, coverSolo) /\ f + 1 \in PageNo /\ S = {f, f + 1}
  <2>1. S = Group(page, coverSolo)
    BY <1>1, <1>2 DEF Displayed
  <2> QED
    BY <1>5, <2>1, GroupIs
<1>7. Begins(coverSolo)[q]
  <2>1. q - 1 = m /\ q # 0
    BY <1>2, <1>4, Pages
  <2>2. CASE S = {f} /\ Solo(f, coverSolo)
    BY <1>3, <1>4, <2>1, <2>2, BeginsIs
  <2>3. CASE ~Solo(f, coverSolo) /\ f + 1 \in PageNo /\ S = {f, f + 1}
    <3>1. m = f + 1 /\ (f + 1) - 1 = f /\ f + 1 # 0
      BY <1>4, <1>6, <2>3, Pages
    <3>2. ~Begins(coverSolo)[f + 1]
      BY <1>6, <2>3, <3>1, BeginsIs
    <3> QED
      BY <1>3, <2>1, <3>1, <3>2, BeginsIs
  <2> QED
    BY <1>6, <2>2, <2>3
<1>8. LeastOf(Displayed(q)) = q
  <2>1. First(q, coverSolo) = q
    BY <1>7 DEF First
  <2>2. PICK D : D = Displayed(q) /\ (D = {q} \/ D = {q, q + 1})
    BY <1>1, <1>3, <2>1, GroupIs DEF Displayed
  <2>3. LeastOf(D) \in D /\ LeastOf(D) <= q /\ q \in Int
    BY <1>3, <2>2, DisplayedIs, Pages
  <2> QED
    BY <2>2, <2>3
<1>9. q - 1 = m /\ m \in PageNo
  BY <1>2, <1>4, Pages
<1> QED
  BY <1>2, <1>3, <1>4, <1>8, <1>9 DEF PreviousOf

-----------------------------------------------------------------------------
(* The invariant.                                                          *)

Statuses == {"saved", "saving", "error"}
IsContext(c) ==
    /\ c = [key |-> c.key, ready |-> c.ready, atEnd |-> c.atEnd, visible |-> c.visible,
            blocked |-> c.blocked]
    /\ c.ready \in BOOLEAN /\ c.atEnd \in BOOLEAN /\ c.visible \in BOOLEAN /\ c.blocked \in BOOLEAN

Types ==
    /\ page \in PageNo /\ bottom \in Layouts /\ top \in 0 .. Maximum /\ mode \in Mode
    /\ advances \in {0, 1} /\ active \in BOOLEAN /\ image \in Images /\ status \in Statuses
    /\ coverSolo \in BOOLEAN /\ rtl \in BOOLEAN /\ settings \in BOOLEAN /\ visible \in BOOLEAN
    /\ startRequested \in BOOLEAN /\ effects \in BOOLEAN

RecordOK == /\ recorded = [page |-> recorded.page, completed |-> recorded.completed]
            /\ recorded.page \in PageNo \cup {None} /\ recorded.completed \in BOOLEAN

\* What a report says of the stage it was made of.
ViewOK ==
    /\ view = [stage |-> view.stage, position |-> view.position, page |-> view.page,
               ready |-> view.ready, activeReady |-> view.activeReady, failed |-> view.failed,
               atEnd |-> view.atEnd, completed |-> view.completed]
    /\ view.ready \in BOOLEAN /\ view.activeReady \in BOOLEAN /\ view.failed \in BOOLEAN
    /\ view.atEnd \in BOOLEAN /\ view.completed \in BOOLEAN
    /\ view.completed => view.ready
    /\ view.stage = Stage => view.page \in PageNo
    /\ mode = "scroll" /\ view.stage = Stage =>
         /\ view.page \in view.position[2]
         /\ view.completed => LastPage \in view.position[2]
    /\ mode # "scroll" /\ view.stage = Stage =>
         /\ view.position = Stage /\ view.page \in Displayed(page)
         /\ view.completed => LastPage \in Displayed(page)

\* Where the column is; its view's report may be of where it was before.
Place == <<"scroll", OnScreen(top), advances>>
Stale == mode = "scroll" /\ view.stage = Stage /\ view.position # Place
Fresh == view.stage = Stage /\ ~Stale /\ view.ready => image = "ready"

\* While autoplay is on the column moves only by its steps, so that its report knows the end.
EndKnown == mode = "scroll" /\ view.stage = Stage /\ ~Stale /\ (player.playing \/ startRequested) =>
                view.atEnd = (top >= Maximum)

\* In the column all that is on screen is ready only if the page being read is.
ActiveOK == mode = "scroll" /\ image = "ready" => active

Settled == ~effects => view = Report /\ given = Context

\* The player knows the context it was last given, but that the timer has used it up.
PlayerOK ==
    /\ player = [playing |-> player.playing, armed |-> player.armed, context |-> player.context]
    /\ player.playing \in BOOLEAN /\ player.armed \in BOOLEAN /\ playing = player.playing
    /\ IsContext(given)
    /\ player.context = given \/ (player.playing /\ player.context = [given EXCEPT !.ready = FALSE])
    /\ player.playing => ~Halting(player.context) /\ visible
    /\ player.armed <=> player.playing /\ player.context.ready
    /\ startRequested => effects /\ ~settings

\* A timer that is set is for the page on screen.
OnTime ==
    player.armed => /\ view.stage = Stage /\ view.ready /\ ~Stale
                    /\ given.key = view.position /\ given.atEnd = AtEnd

\* A timer that has fired is set again once the effects have run: the key has to change.
Pending ==
    player.context # given =>
        effects /\ ((Stale /\ given.key = view.position) \/ Context.key # given.key)

\* And the old report of a column that has moved on changes nothing but to stop it.
StaleOK ==
    Stale => /\ effects
             /\ \/ ~player.playing /\ ~startRequested
                \/ /\ player.playing /\ ~player.context.ready
                   /\ Context = [given EXCEPT !.blocked = Context.blocked]

IInv == /\ Types /\ RecordOK /\ ViewOK /\ Fresh /\ EndKnown /\ ActiveOK /\ Settled /\ PlayerOK
        /\ OnTime /\ Pending /\ StaleOK /\ ShownIsRecorded

\* What is shown after a step that leaves the book as it is.
LEMMA GroupsThen ==
    ASSUME UNCHANGED bottom
    PROVE  \A p, c : Group(p, c)' = Group(p, c)
PROOF
<1>1. \A p, c : Solo(p, c)' = Solo(p, c)
  BY SameColumn DEF Solo
<1>2. \A c : Begins(c)' = Begins(c)
  BY SameColumn DEF Begins, Solo
<1> QED
  BY <1>1, <1>2 DEF Group

OnStage(p, m, c) == IF m = "spread" THEN Group(p, c) ELSE {p}
StageIn(p, m, c) == IF m = "scroll" THEN <<m>> ELSE <<m, OnStage(p, m, c)>>

LEMMA StageThen ==
    ASSUME UNCHANGED bottom, NEW p, p = page', NEW c, c = coverSolo', NEW m, m = mode'
    PROVE  /\ Displayed(page)' = OnStage(p, m, c)
           /\ Stage' = StageIn(p, m, c)
           /\ mode = m /\ coverSolo = c => \A q : StageOf(q, m) = StageIn(q, m, c)
PROOF
<1>1. Displayed(page)' = OnStage(p, m, c)
  BY GroupsThen DEF Displayed, OnStage
<1>2. Stage' = StageIn(p, m, c)
  BY <1>1 DEF Stage, StageOf, StageIn
<1>3. mode = m /\ coverSolo = c => \A q : StageOf(q, m) = StageIn(q, m, c)
  BY DEF StageOf, StageIn, Displayed, OnStage
<1> QED
  BY <1>1, <1>2, <1>3

LEMMA StageNow ==
    Stage = StageIn(page, mode, coverSolo) /\ Displayed(page) = OnStage(page, mode, coverSolo)
PROOF BY DEF Stage, StageOf, StageIn, Displayed, OnStage

\* Stages tell modes and what is displayed apart.
LEMMA StagesDiffer ==
    ASSUME NEW p, NEW m, NEW c, NEW q, NEW n, NEW d, StageIn(p, m, c) = StageIn(q, n, d)
    PROVE  m = n /\ (m # "scroll" => OnStage(p, m, c) = OnStage(q, n, d))
PROOF
<1>1. StageIn(p, m, c)[1] = m /\ StageIn(q, n, d)[1] = n
  BY DEF StageIn
<1>2. m # "scroll" => StageIn(p, m, c)[2] = OnStage(p, m, c)
  BY DEF StageIn
<1>3. n # "scroll" => StageIn(q, n, d)[2] = OnStage(q, n, d)
  BY DEF StageIn
<1> QED
  BY <1>1, <1>2, <1>3

-----------------------------------------------------------------------------
(* Commands.                                                               *)

LEMMA ReportIs ==
    /\ Report.stage = Stage /\ Report.ready = (image = "ready") /\ Report.failed = (image = "failed")
    /\ mode = "scroll" => /\ Report.position = Place /\ Report.page = ActiveAt(top)
                          /\ Report.activeReady = active /\ Report.atEnd = (top >= Maximum)
                          /\ Report.completed = (image = "ready" /\ top >= Maximum)
    /\ mode # "scroll" => /\ Report.position = Stage /\ Report.page = page
                          /\ Report.activeReady = (image = "ready")
                          /\ Report.atEnd = (NextOf(page) = None)
                          /\ Report.completed = (image = "ready" /\ LastPage \in Displayed(page))
    /\ Report = [stage |-> Report.stage, position |-> Report.position, page |-> Report.page,
                 ready |-> Report.ready, activeReady |-> Report.activeReady,
                 failed |-> Report.failed, atEnd |-> Report.atEnd, completed |-> Report.completed]
    /\ Report.ready \in BOOLEAN /\ Report.failed \in BOOLEAN /\ Report.atEnd \in BOOLEAN
    /\ Report.completed \in BOOLEAN /\ (Report.completed => Report.ready)
PROOF
<1>1. PICK ends, pos, a, e, p :
        /\ ends = IF mode = "scroll" THEN top >= Maximum ELSE LastPage \in Displayed(page)
        /\ pos = Position /\ a = IF mode = "scroll" THEN active ELSE image = "ready"
        /\ e = IF mode = "scroll" THEN top >= Maximum ELSE NextOf(page) = None
        /\ p = IF mode = "scroll" THEN ActiveAt(top) ELSE page
  OBVIOUS
<1>2. Report = [stage |-> Stage, position |-> pos, page |-> p, ready |-> image = "ready",
                activeReady |-> a, failed |-> image = "failed", atEnd |-> e,
                completed |-> image = "ready" /\ ends]
  BY <1>1 DEF Report
<1>3. /\ mode = "scroll" => pos = Place
      /\ mode # "scroll" => pos = Stage
  BY <1>1 DEF Position, Place
<1>4. /\ Report.stage = Stage /\ Report.position = pos /\ Report.page = p
      /\ Report.ready = (image = "ready") /\ Report.activeReady = a
      /\ Report.failed = (image = "failed") /\ Report.atEnd = e
      /\ Report.completed = (image = "ready" /\ ends)
  BY <1>2
<1>5. ends \in BOOLEAN /\ e \in BOOLEAN
  <2>1. /\ (top >= Maximum) \in BOOLEAN /\ (LastPage \in Displayed(page)) \in BOOLEAN
        /\ (NextOf(page) = None) \in BOOLEAN
    OBVIOUS
  <2>2. CASE mode = "scroll"
    <3>1. ends = (top >= Maximum) /\ e = (top >= Maximum)
      BY <1>1, <2>2
    <3> QED
      BY <2>1, <3>1
  <2>3. CASE mode # "scroll"
    <3>1. ends = (LastPage \in Displayed(page)) /\ e = (NextOf(page) = None)
      BY <1>1, <2>3
    <3> QED
      BY <2>1, <3>1
  <2> QED
    BY <2>2, <2>3
<1> QED
  BY <1>1, <1>2, <1>3, <1>4, <1>5

\* With the effects of all renders run, the report and the context are those of the screen.
LEMMA AtRest ==
    ASSUME IInv, ~effects
    PROVE  /\ view = Report /\ given = Context /\ player.context = given /\ ~Stale /\ ~startRequested
           /\ view.stage = Stage /\ (view.ready <=> image = "ready")
           /\ mode = "scroll" => view.position = Place /\ view.page = ActiveAt(top)
           /\ mode # "scroll" => view.position = Stage /\ view.page = page
PROOF
<1>1. view = Report /\ given = Context
  BY DEF IInv, Settled
<1>2. player.context = given /\ ~Stale /\ ~startRequested
  BY DEF IInv, Pending, StaleOK, PlayerOK
<1> QED
  BY <1>1, <1>2, ReportIs

LEMMA StopKeeps ==
    ASSUME IInv, Command, Stops, UNCHANGED <<advances, status, startRequested>>,
           page' \in PageNo, top' \in 0 .. Maximum, mode' \in Mode, image' \in Images, active' \in BOOLEAN,
           coverSolo' \in BOOLEAN, rtl' \in BOOLEAN, settings' \in BOOLEAN, visible' \in BOOLEAN,
           Stage' = Stage /\ (mode = "scroll" => OnScreen(top)' = OnScreen(top))
             => image' = image \/ image = "failed",
           mode' = "scroll" /\ image' = "ready" => active'
    PROVE  IInv'
PROOF
<1>1. ~effects /\ effects' = TRUE /\ UNCHANGED <<bottom, view, given, recorded>>
  BY DEF Command
<1>2. /\ view = Report /\ given = Context /\ player.context = given /\ ~startRequested
      /\ view.stage = Stage /\ (view.ready <=> image = "ready")
      /\ mode = "scroll" => view.position = Place /\ view.page = ActiveAt(top)
      /\ mode # "scroll" => view.position = Stage /\ view.page = page
  BY <1>1, AtRest
<1>3. PICK p, m, c, o, s : p = page' /\ m = mode' /\ c = coverSolo' /\ o = OnScreen(top)' /\ s = Stage'
  OBVIOUS
<1>4. s = StageIn(p, m, c) /\ Displayed(page)' = OnStage(p, m, c)
  BY <1>1, <1>3, StageThen
<1>5. s = Stage => m = mode /\ (m # "scroll" => Displayed(page)' = Displayed(page))
  <2>1. PICK q, n, d : q = page /\ n = mode /\ d = coverSolo
    OBVIOUS
  <2>2. Stage = StageIn(q, n, d) /\ Displayed(page) = OnStage(q, n, d)
    BY <2>1, StageNow
  <2>3. ASSUME s = Stage
        PROVE  m = n /\ (m # "scroll" => OnStage(p, m, c) = OnStage(q, n, d))
    <3>1. StageIn(p, m, c) = StageIn(q, n, d)
      BY <1>4, <2>2, <2>3
    <3> QED
      BY <3>1, StagesDiffer
  <2> QED
    BY <1>4, <2>1, <2>2, <2>3
<1>6. Types' /\ RecordOK' /\ ActiveOK'
  <2>1. bottom' \in Layouts /\ Maximum' = Maximum
    BY <1>1, SameColumn DEF IInv, Types
  <2> QED
    BY <1>1, <2>1 DEF IInv, Types, RecordOK, ActiveOK
<1>7. ViewOK'
  <2>1. view.stage = s => view.page \in PageNo
    BY <1>2, ActiveIs DEF IInv, Types
  <2>2. m = "scroll" /\ view.stage = s =>
           /\ view.page \in view.position[2]
           /\ view.completed => LastPage \in view.position[2]
    BY <1>2, <1>5 DEF IInv, ViewOK
  <2>3. m # "scroll" /\ view.stage = s =>
           /\ view.position = s /\ view.page \in Displayed(page)'
           /\ view.completed => LastPage \in Displayed(page)'
    <3>1. ASSUME m # "scroll", view.stage = s
          PROVE  m = mode /\ Displayed(page)' = Displayed(page) /\ view.position = s /\ view.page = page
      BY <1>2, <1>5, <3>1
    <3>2. page \in Displayed(page)
      BY DisplayedIs DEF IInv, Types
    <3>3. mode # "scroll" => (view.completed => LastPage \in Displayed(page))
      BY <1>2, ReportIs
    <3> QED
      BY <3>1, <3>2, <3>3
  <2>4. view' = view
    BY <1>1
  <2>5. ViewOK
    BY DEF IInv
  <2> QED
    BY <1>3, <2>1, <2>2, <2>3, <2>4, <2>5 DEF ViewOK
<1>8. Fresh'
  <2>1. SUFFICES ASSUME view.stage = s, ~Stale', view.ready
                 PROVE  image' = "ready"
    BY <1>1, <1>3 DEF Fresh
  <2>2. s = Stage /\ m = mode
    BY <1>2, <1>5, <2>1
  <2>3. ASSUME mode = "scroll"
        PROVE  o = OnScreen(top)
    <3>1. view.position = Place /\ view.position = Place'
      BY <1>1, <1>2, <1>3, <2>1, <2>2, <2>3 DEF Stale
    <3>2. Place[2] = OnScreen(top) /\ Place'[2] = o
      BY <1>3 DEF Place
    <3> QED
      BY <3>1, <3>2
  <2> QED
    BY <1>2, <1>3, <2>1, <2>2, <2>3
<1>9. PICK a : a = player' /\ a = Paused(player)
  BY DEF Stops
<1>10. a = [player EXCEPT !.armed = FALSE, !.playing = FALSE]
  BY <1>9 DEF Paused
<1>11. /\ a = [playing |-> FALSE, armed |-> FALSE, context |-> player.context]
       /\ a.playing = FALSE /\ a.armed = FALSE /\ a.context = given
  BY <1>2, <1>10 DEF IInv, PlayerOK
<1>12. playing' = FALSE
  BY DEF Stops
<1>13. PlayerOK'
  BY <1>1, <1>2, <1>9, <1>11, <1>12 DEF IInv, PlayerOK, IsContext
<1>14. OnTime' /\ Pending' /\ EndKnown'
  BY <1>1, <1>2, <1>9, <1>11 DEF OnTime, Pending, EndKnown
<1>15. StaleOK' /\ Settled' /\ ShownIsRecorded'
  BY <1>1, <1>2, <1>9, <1>11 DEF StaleOK, Settled, ShownIsRecorded
<1> QED
  BY <1>6, <1>7, <1>8, <1>13, <1>14, <1>15 DEF IInv

\* What the context is made of.
LEMMA ContextIs ==
    /\ Current = IF view.stage = Stage THEN view ELSE NoView
    /\ Context.key = IF view.stage = Stage THEN view.position ELSE Stage
    /\ Context.ready = Current.ready /\ Context.atEnd = AtEnd /\ Context.visible = visible
    /\ Context.blocked = (Current.failed \/ settings \/ status = "error")
    /\ Context = [key |-> Context.key, ready |-> Context.ready, atEnd |-> Context.atEnd,
                  visible |-> Context.visible, blocked |-> Context.blocked]
    /\ NoView.ready = FALSE /\ NoView.activeReady = FALSE /\ NoView.atEnd = FALSE /\ NoView.failed = FALSE
PROOF
<1>1. /\ NoView.ready = FALSE /\ NoView.activeReady = FALSE /\ NoView.atEnd = FALSE
      /\ NoView.failed = FALSE /\ NoView.stage = <<>>
  BY DEF NoView
<1>2. <<>> # Stage
  <2>1. Len(Stage) # 0
    BY DEF Stage, StageOf
  <2> QED
    BY <2>1
<1>3. Current = IF view.stage = Stage THEN view ELSE NoView
  BY DEF Current
<1>4. Current.stage = Stage <=> view.stage = Stage
  BY <1>1, <1>2, <1>3
<1>5. Context = [key |-> IF Current.stage = Stage THEN Current.position ELSE Stage,
                 ready |-> Current.ready, atEnd |-> AtEnd, visible |-> visible,
                 blocked |-> Current.failed \/ settings \/ status = "error"]
  BY DEF Context
<1>6. Context.key = IF view.stage = Stage THEN view.position ELSE Stage
  BY <1>3, <1>4, <1>5
<1>7. /\ Context.ready = Current.ready /\ Context.atEnd = AtEnd /\ Context.visible = visible
      /\ Context.blocked = (Current.failed \/ settings \/ status = "error")
  BY <1>5
<1> QED
  BY <1>1, <1>3, <1>5, <1>6, <1>7

\* What does not change what is shown does not change the rest of it either.
LEMMA SameScreen ==
    ASSUME UNCHANGED <<page, mode, coverSolo, bottom, top, advances, view>>
    PROVE  /\ Displayed(page)' = Displayed(page) /\ Stage' = Stage /\ Place' = Place
           /\ (Stale' <=> Stale) /\ Current' = Current /\ AtEnd' = AtEnd
           /\ OnScreen(top)' = OnScreen(top) /\ ActiveAt(top)' = ActiveAt(top) /\ Maximum' = Maximum
           /\ Context'.key = Context.key /\ Context'.ready = Context.ready
           /\ Context'.atEnd = Context.atEnd /\ Context'.visible = visible'
           /\ Context'.blocked = (Current.failed \/ settings' \/ status' = "error")
           /\ Context' = [key |-> Context.key, ready |-> Context.ready, atEnd |-> Context.atEnd,
                          visible |-> visible', blocked |-> Context'.blocked]
PROOF
<1>1. PICK p, m, c : p = page' /\ c = coverSolo' /\ m = mode'
  OBVIOUS
<1>2. Displayed(page)' = Displayed(page) /\ Stage' = Stage
  BY <1>1, StageThen, StageNow
<1>3. NextOf(page)' = NextOf(page)
  BY <1>2 DEF NextOf
<1>4. /\ Current' = Current /\ Place' = Place /\ OnScreen(top)' = OnScreen(top)
      /\ ActiveAt(top)' = ActiveAt(top) /\ Maximum' = Maximum
  BY <1>2, SameColumn DEF Current, Place, NoView
<1>5. (Stale' <=> Stale) /\ AtEnd' = AtEnd
  BY <1>2, <1>3, <1>4 DEF Stale, AtEnd
<1>6. Context' = [key |-> IF Current.stage = Stage THEN Current.position ELSE Stage,
                  ready |-> Current.ready, atEnd |-> AtEnd, visible |-> visible',
                  blocked |-> Current.failed \/ settings' \/ status' = "error"]
  BY <1>2, <1>4, <1>5 DEF Context
<1>7. Context = [key |-> IF Current.stage = Stage THEN Current.position ELSE Stage,
                 ready |-> Current.ready, atEnd |-> AtEnd, visible |-> visible,
                 blocked |-> Current.failed \/ settings \/ status = "error"]
  BY DEF Context
<1>8. PICK d, e : d = Context' /\ e = Context
  OBVIOUS
<1>9. /\ d.key = e.key /\ d.ready = e.ready /\ d.atEnd = e.atEnd /\ d.visible = visible'
      /\ d.blocked = (Current.failed \/ settings' \/ status' = "error")
      /\ d = [key |-> e.key, ready |-> e.ready, atEnd |-> e.atEnd, visible |-> visible',
              blocked |-> d.blocked]
  BY <1>6, <1>7, <1>8
<1> QED
  BY <1>2, <1>4, <1>5, <1>8, <1>9

\* With nothing changed that they are made of, the report and the context are the same.
LEMMA SameReport ==
    ASSUME UNCHANGED <<page, mode, coverSolo, bottom, top, advances, view, image, active, settings,
                       visible, status>>
    PROVE  Report' = Report /\ Context' = Context
PROOF
<1>1. Displayed(page)' = Displayed(page) /\ Stage' = Stage
  BY SameScreen
<1>2. NextOf(page)' = NextOf(page)
  BY <1>1 DEF NextOf
<1>3. Report' = Report
  <2>1. Position' = Position
    BY <1>1, SameScreen DEF Position
  <2>2. ActiveAt(top)' = ActiveAt(top) /\ Maximum' = Maximum
    BY SameScreen
  <2> QED
    BY <1>1, <1>2, <2>1, <2>2 DEF Report
<1>4. PICK d, e : d = Context' /\ e = Context
  OBVIOUS
<1>5. /\ d.blocked = (Current.failed \/ settings \/ status = "error")
      /\ d = [key |-> e.key, ready |-> e.ready, atEnd |-> e.atEnd,
              visible |-> visible, blocked |-> d.blocked]
  BY <1>4, SameScreen
<1>6. /\ e.blocked = (Current.failed \/ settings \/ status = "error")
      /\ e.visible = visible
      /\ e = [key |-> e.key, ready |-> e.ready, atEnd |-> e.atEnd,
              visible |-> e.visible, blocked |-> e.blocked]
  BY <1>4, ContextIs
<1>7. d.blocked = e.blocked
  BY <1>5, <1>6
<1>8. d = e
  BY <1>5, <1>6, <1>7
<1> QED
  BY <1>3, <1>4, <1>8

\* Commands that leave what is shown.
LEMMA RestKeeps ==
    ASSUME IInv, Command, UNCHANGED <<page, mode, coverSolo, top, advances, image, active, status>>,
           rtl' \in BOOLEAN, settings' \in BOOLEAN, visible' \in BOOLEAN, startRequested' \in BOOLEAN,
           visible => visible', startRequested' => ~settings',
           player' = player \/ player' = Paused(player) \/ player' = Begun(player),
           playing' = player'.playing
    PROVE  IInv'
PROOF
<1>1. ~effects /\ effects' = TRUE /\ UNCHANGED <<bottom, view, given, recorded>>
  BY DEF Command
<1>2. /\ view = Report /\ given = Context /\ player.context = given /\ ~Stale
      /\ view.stage = Stage /\ (view.ready <=> image = "ready")
  BY <1>1, AtRest
<1>3. /\ Displayed(page)' = Displayed(page) /\ Stage' = Stage /\ Place' = Place /\ ~Stale'
      /\ AtEnd' = AtEnd /\ Maximum' = Maximum
  BY <1>1, <1>2, SameScreen
<1>4. Types' /\ RecordOK' /\ ActiveOK'
  BY <1>1, <1>3 DEF IInv, Types, RecordOK, ActiveOK
<1>5. ViewOK' /\ Fresh' /\ EndKnown'
  <2>1. mode = "scroll" => view.atEnd = (top >= Maximum)
    BY <1>2, ReportIs
  <2> QED
    BY <1>1, <1>3, <1>2, <2>1 DEF IInv, ViewOK, Fresh, EndKnown
<1>6. PICK a : a = player'
  OBVIOUS
<1>7. /\ player = [playing |-> player.playing, armed |-> player.armed, context |-> player.context]
      /\ player.playing \in BOOLEAN /\ player.armed \in BOOLEAN
      /\ player.playing => ~Halting(given) /\ visible
      /\ player.armed <=> player.playing /\ given.ready
      /\ IsContext(given)
  BY <1>2 DEF IInv, PlayerOK
<1>8. given.visible = visible /\ given.ready \in BOOLEAN
  BY <1>2, <1>7, ContextIs DEF IsContext
<1>9. /\ a = [playing |-> a.playing, armed |-> a.armed, context |-> given]
      /\ a.playing \in BOOLEAN /\ a.armed \in BOOLEAN /\ a.context = given
      /\ a.playing => ~Halting(given) /\ visible
      /\ a.armed <=> a.playing /\ given.ready
  <2>1. CASE a = player
    BY <1>2, <1>7, <2>1
  <2>2. CASE a = Paused(player)
    <3>1. a = [playing |-> FALSE, armed |-> FALSE, context |-> given]
      BY <1>2, <1>7, <2>2 DEF Paused
    <3> QED
      BY <3>1
  <2>3. CASE a = Begun(player)
    <3>1. CASE Halting(given)
      BY <1>2, <1>7, <2>3, <3>1 DEF Begun
    <3>2. CASE ~Halting(given)
      <4>1. a = [playing |-> TRUE, armed |-> given.ready, context |-> given]
        BY <1>2, <1>7, <1>8, <2>3, <3>2 DEF Begun, Scheduled
      <4>2. visible
        BY <1>8, <3>2, <1>7 DEF Halting
      <4> QED
        BY <1>8, <3>2, <4>1, <4>2
    <3> QED
      BY <3>1, <3>2
  <2> QED
    BY <1>6, <2>1, <2>2, <2>3
<1>10. PlayerOK'
  BY <1>1, <1>6, <1>7, <1>9 DEF PlayerOK, IsContext
<1>11. OnTime'
  <2>1. given.ready => view.ready
    BY <1>2, ContextIs
  <2>2. given.key = view.position /\ given.atEnd = AtEnd
    BY <1>2, ContextIs
  <2> QED
    BY <1>1, <1>2, <1>3, <1>6, <1>9, <2>1, <2>2 DEF OnTime
<1>12. Pending' /\ StaleOK' /\ Settled' /\ ShownIsRecorded'
  BY <1>1, <1>3, <1>6, <1>9 DEF Pending, StaleOK, Settled, ShownIsRecorded
<1> QED
  BY <1>4, <1>5, <1>10, <1>11, <1>12 DEF IInv

\* What comes from outside: the decoder's result, and the status of the save queue.
LEMMA OutsideKeeps ==
    ASSUME IInv, effects' = TRUE,
           UNCHANGED <<page, mode, coverSolo, rtl, bottom, top, advances, view, settings, visible,
                       startRequested, playing, player, given, recorded>>,
           image' = image \/ (image = "loading" /\ image' \in Images), status' \in Statuses,
           active' \in BOOLEAN, mode = "scroll" /\ image' = "ready" => active'
    PROVE  IInv'
PROOF
<1>1. /\ Displayed(page)' = Displayed(page) /\ Stage' = Stage /\ Place' = Place
      /\ (Stale' <=> Stale) /\ AtEnd' = AtEnd /\ Context'.key = Context.key /\ Maximum' = Maximum
  BY SameScreen
<1>2. Types' /\ RecordOK' /\ ViewOK' /\ ActiveOK'
  BY <1>1 DEF IInv, Types, RecordOK, ViewOK, ActiveOK, Images
<1>3. Fresh' /\ EndKnown'
  BY <1>1 DEF IInv, Fresh, EndKnown
<1>4. PlayerOK' /\ OnTime' /\ Pending'
  BY <1>1 DEF IInv, PlayerOK, IsContext, OnTime, Pending
<1>5. StaleOK'
  <2>1. SUFFICES ASSUME Stale, player.playing, ~player.context.ready,
                        Context = [given EXCEPT !.blocked = Context.blocked]
                 PROVE  Context' = [given EXCEPT !.blocked = Context'.blocked]
    BY <1>1 DEF IInv, StaleOK
  <2>2. PICK d, e : d = Context' /\ e = Context
    OBVIOUS
  <2>3. /\ d = [key |-> e.key, ready |-> e.ready, atEnd |-> e.atEnd, visible |-> visible,
                blocked |-> d.blocked]
        /\ e.visible = visible
    BY <2>2, SameScreen, ContextIs
  <2>4. /\ e = [given EXCEPT !.blocked = e.blocked]
        /\ given = [key |-> given.key, ready |-> given.ready, atEnd |-> given.atEnd,
                    visible |-> given.visible, blocked |-> given.blocked]
    BY <2>1, <2>2 DEF IInv, PlayerOK, IsContext
  <2>5. e.key = given.key /\ e.ready = given.ready /\ e.atEnd = given.atEnd /\ e.visible = given.visible
    BY <2>4
  <2>6. d = [given EXCEPT !.blocked = d.blocked]
    BY <2>3, <2>4, <2>5
  <2> QED
    BY <2>2, <2>6
<1>6. Settled' /\ ShownIsRecorded'
  BY DEF Settled, ShownIsRecorded
<1> QED
  BY <1>2, <1>3, <1>4, <1>5, <1>6 DEF IInv

-----------------------------------------------------------------------------
(* The effects of a render.                                                *)

\* What of the player's state does not depend on the screen.
PlayerIn(a, g) ==
    /\ a = [playing |-> a.playing, armed |-> a.armed, context |-> a.context]
    /\ a.playing \in BOOLEAN /\ a.armed \in BOOLEAN
    /\ a.context = g \/ (a.playing /\ a.context = [g EXCEPT !.ready = FALSE])
    /\ a.playing => ~Halting(a.context)
    /\ a.armed <=> a.playing /\ a.context.ready

LEMMA UpdatedKeeps ==
    ASSUME NEW a, NEW g, NEW x, IsContext(g), IsContext(x), PlayerIn(a, g),
           NEW b, b = IF x = g THEN a ELSE Updated(a, x)
    PROVE  /\ PlayerIn(b, x)
           /\ x = g => b = a
           /\ x # g => b.context = x /\ (Halting(x) => ~b.playing) /\ (b.playing => a.playing)
PROOF
<1>1. CASE x = g
  BY <1>1
<1>2. CASE x # g
  <2>1. PICK c : c = [a EXCEPT !.context = x]
    OBVIOUS
  <2>2. c = [playing |-> a.playing, armed |-> a.armed, context |-> x]
    BY <2>1 DEF PlayerIn
  <2>3. b = IF Halting(x) THEN Paused(c) ELSE IF x # a.context THEN Scheduled(c) ELSE c
    BY <1>2, <2>1 DEF Updated
  <2>4. CASE Halting(x)
    <3>1. b = [playing |-> FALSE, armed |-> FALSE, context |-> x]
      BY <2>2, <2>3, <2>4 DEF Paused
    <3>2. b.playing = FALSE /\ b.armed = FALSE /\ b.context = x
      BY <3>1
    <3>3. b = [playing |-> b.playing, armed |-> b.armed, context |-> b.context]
      BY <3>1, <3>2
    <3> QED
      BY <1>2, <2>4, <3>2, <3>3 DEF PlayerIn
  <2>5. CASE ~Halting(x) /\ x # a.context
    <3>1. b = [playing |-> a.playing, armed |-> a.playing /\ x.ready, context |-> x]
      BY <2>2, <2>3, <2>5 DEF Scheduled
    <3> QED
      BY <1>2, <2>5, <3>1 DEF PlayerIn, IsContext
  <2>6. CASE ~Halting(x) /\ x = a.context
    <3>1. b = a
      BY <2>2, <2>3, <2>6 DEF PlayerIn
    <3> QED
      BY <1>2, <2>6, <3>1 DEF PlayerIn
  <2> QED
    BY <2>4, <2>5, <2>6
<1> QED
  BY <1>1, <1>2

LEMMA StartedKeeps ==
    ASSUME NEW a, NEW x, IsContext(x), PlayerIn(a, x), NEW b, b = Scheduled(Begun(a))
    PROVE  /\ PlayerIn(b, x) /\ b.context = a.context
           /\ b.playing => a.playing \/ ~Halting(a.context)
PROOF
<1>1. a.context.ready \in BOOLEAN
  BY DEF PlayerIn, IsContext
<1>2. CASE Halting(a.context)
  <2>1. b = [playing |-> a.playing, armed |-> a.playing /\ a.context.ready, context |-> a.context]
    BY <1>2 DEF Begun, Scheduled, PlayerIn
  <2> QED
    BY <1>1, <1>2, <2>1 DEF PlayerIn
<1>3. CASE ~Halting(a.context)
  <2>1. PICK c : c = Begun(a)
    OBVIOUS
  <2>2. c = [playing |-> TRUE, armed |-> a.context.ready, context |-> a.context]
    BY <1>1, <1>3, <2>1 DEF Begun, Scheduled, PlayerIn
  <2>3. b = [c EXCEPT !.armed = c.playing /\ c.context.ready]
    BY <2>1 DEF Scheduled
  <2>4. b = [playing |-> TRUE, armed |-> a.context.ready, context |-> a.context]
    BY <1>1, <2>2, <2>3
  <2>5. b.playing = TRUE /\ b.armed = a.context.ready /\ b.context = a.context
    BY <2>4
  <2>6. b = [playing |-> b.playing, armed |-> b.armed, context |-> b.context]
    BY <2>4, <2>5
  <2> QED
    BY <1>1, <1>3, <2>5, <2>6 DEF PlayerIn
<1> QED
  BY <1>2, <1>3

LEMMA ContextType ==
    ASSUME IInv
    PROVE  IsContext(Context)
PROOF
<1>1. PICK x : x = Context
  OBVIOUS
<1>2. Current.ready \in BOOLEAN /\ Current.atEnd \in BOOLEAN
  BY ContextIs DEF IInv, ViewOK
<1>3. AtEnd \in BOOLEAN
  BY <1>2 DEF AtEnd
<1>4. x.ready \in BOOLEAN /\ x.atEnd \in BOOLEAN /\ x.visible \in BOOLEAN /\ x.blocked \in BOOLEAN
  BY <1>1, <1>2, <1>3, ContextIs DEF IInv, Types
<1>5. x = [key |-> x.key, ready |-> x.ready, atEnd |-> x.atEnd, visible |-> x.visible,
           blocked |-> x.blocked]
  BY <1>1, ContextIs
<1> QED
  BY <1>1, <1>4, <1>5 DEF IsContext

\* What the effects give the player: it may be told to start only when the settings are closed.
LEMMA PlayerAfterEffects ==
    ASSUME IInv, Effects, NEW x, x = Context, NEW a, a = player, NEW b, b = player'
    PROVE  /\ PlayerIn(b, x) /\ playing' = b.playing
           /\ x = given => b.context = a.context
           /\ x # given => b.context = x
           /\ b.playing => a.playing \/ (startRequested /\ ~Halting(x))
           /\ x # given /\ Halting(x) => ~b.playing
           /\ startRequested' = FALSE
PROOF
<1>1. PICK u : u = IF x = given THEN a ELSE Updated(a, x)
  OBVIOUS
<1>2. b = (IF startRequested /\ ~settings THEN Scheduled(Begun(u)) ELSE u) /\ playing' = b.playing
  BY <1>1 DEF Effects
<1>3. PlayerIn(a, given) /\ IsContext(given) /\ IsContext(x)
  BY ContextType DEF IInv, PlayerOK, PlayerIn
<1>4. /\ PlayerIn(u, x)
      /\ x = given => u = a
      /\ x # given => u.context = x /\ (Halting(x) => ~u.playing) /\ (u.playing => a.playing)
  BY <1>1, <1>3, UpdatedKeeps
<1>5. startRequested' = FALSE
  <2>1. startRequested' = (startRequested /\ settings)
    BY DEF Effects
  <2> QED
    BY <2>1 DEF IInv, PlayerOK
<1>6. CASE startRequested /\ ~settings
  <2>1. PlayerIn(b, x) /\ b.context = u.context /\ (b.playing => u.playing \/ ~Halting(u.context))
    BY <1>2, <1>3, <1>4, <1>6, StartedKeeps
  <2>2. x = given => (~Halting(u.context) => ~Halting(x))
    <3>1. u.context.atEnd = x.atEnd /\ u.context.visible = x.visible /\ u.context.blocked = x.blocked
      <4>1. x = [key |-> x.key, ready |-> x.ready, atEnd |-> x.atEnd, visible |-> x.visible,
                 blocked |-> x.blocked]
        BY <1>3 DEF IsContext
      <4>2. u.context = x \/ u.context = [x EXCEPT !.ready = FALSE]
        BY <1>4 DEF PlayerIn
      <4> QED
        BY <4>1, <4>2
    <3> QED
      BY <3>1 DEF Halting
  <2> QED
    BY <1>2, <1>4, <1>5, <1>6, <2>1, <2>2
<1>7. CASE ~(startRequested /\ ~settings)
  BY <1>2, <1>4, <1>5, <1>7
<1> QED
  BY <1>6, <1>7

\* A timer set by the effects is for what is on screen.
LEMMA EffectsOnTime ==
    ASSUME IInv, Effects
    PROVE  player'.armed => ~Stale /\ Context.ready
PROOF
<1>1. PICK x, a, b : x = Context /\ a = player /\ b = player'
  OBVIOUS
<1>2. SUFFICES ASSUME b.armed
               PROVE  ~Stale /\ x.ready
  BY <1>1
<1>3. /\ PlayerIn(b, x)
      /\ x = given => b.context = a.context
      /\ x # given => b.context = x
      /\ b.playing => a.playing \/ (startRequested /\ ~Halting(x))
      /\ x # given /\ Halting(x) => ~b.playing
  BY <1>1, PlayerAfterEffects
<1>4. b.playing /\ b.context.ready
  BY <1>2, <1>3 DEF PlayerIn
<1>5. IsContext(x) /\ IsContext(given)
  BY <1>1, ContextType DEF IInv, PlayerOK
<1>6. b.context = x /\ x.ready
  <2>1. [x EXCEPT !.ready = FALSE].ready = FALSE
    BY <1>5 DEF IsContext
  <2> QED
    BY <1>3, <1>4, <2>1 DEF PlayerIn
<1>7. ASSUME Stale
      PROVE  FALSE
  <2>1. /\ a.playing /\ ~a.context.ready /\ x = [given EXCEPT !.blocked = x.blocked]
    BY <1>1, <1>3, <1>4, <1>7 DEF IInv, StaleOK
  <2>2. x # given
    BY <1>3, <1>4, <2>1
  <2>3. ~Halting(x)
    BY <1>3, <1>4, <2>2
  <2>4. x.blocked = FALSE
    BY <1>5, <2>3 DEF Halting, IsContext
  <2>5. given = [key |-> given.key, ready |-> given.ready, atEnd |-> given.atEnd,
                 visible |-> given.visible, blocked |-> given.blocked]
    BY <1>5 DEF IsContext
  <2>6. given.blocked = TRUE
    BY <1>5, <2>1, <2>2, <2>4, <2>5 DEF IsContext
  <2>7. ~Halting(a.context) /\ (a.context = given \/ a.context = [given EXCEPT !.ready = FALSE])
    BY <1>1, <2>1 DEF IInv, PlayerOK
  <2>8. a.context.blocked = given.blocked
    BY <2>5, <2>7
  <2> QED
    BY <2>6, <2>7, <2>8 DEF Halting
<1> QED
  BY <1>6, <1>7

LEMMA EffectsKeep ==
    ASSUME IInv, Effects
    PROVE  IInv'
PROOF
<1>1. PICK r, x, b : r = Report /\ x = Context /\ b = player'
  OBVIOUS
<1>2. /\ effects /\ view' = r /\ given' = x
      /\ UNCHANGED <<mode, coverSolo, rtl, bottom, top, advances, image, active, settings, visible,
                     status, steps>>
  BY <1>1 DEF Effects
<1>3. /\ page' = IF mode = "scroll" /\ r # view THEN r.page ELSE page
      /\ effects' = (r # view)
  BY <1>1, <1>2 DEF Effects
<1>4. /\ r.stage = Stage /\ r.ready = (image = "ready") /\ r.failed = (image = "failed")
      /\ mode = "scroll" => /\ r.position = Place /\ r.page = ActiveAt(top)
                            /\ r.activeReady = active /\ r.atEnd = (top >= Maximum)
                            /\ r.completed = (image = "ready" /\ top >= Maximum)
      /\ mode # "scroll" => /\ r.position = Stage /\ r.page = page
                            /\ r.activeReady = (image = "ready")
                            /\ r.atEnd = (NextOf(page) = None)
                            /\ r.completed = (image = "ready" /\ LastPage \in Displayed(page))
      /\ r = [stage |-> r.stage, position |-> r.position, page |-> r.page,
              ready |-> r.ready, activeReady |-> r.activeReady, failed |-> r.failed,
              atEnd |-> r.atEnd, completed |-> r.completed]
      /\ r.ready \in BOOLEAN /\ r.failed \in BOOLEAN /\ r.atEnd \in BOOLEAN
      /\ r.completed \in BOOLEAN /\ (r.completed => r.ready)
  BY <1>1, ReportIs
<1>4a. r.activeReady \in BOOLEAN
  BY <1>4 DEF IInv, Types
<1>5. /\ page' \in PageNo /\ ActiveAt(top) \in OnScreen(top) /\ ActiveAt(top) \in PageNo
      /\ top >= Maximum => LastPage \in OnScreen(top)
  <2>1. /\ ActiveAt(top) \in OnScreen(top) /\ OnScreen(top) \subseteq PageNo
        /\ top >= Maximum => LastPage \in OnScreen(top)
    BY ActiveIs DEF IInv, Types
  <2> QED
    BY <1>3, <1>4, <2>1 DEF IInv, Types
<1>6. Types'
  <2>1. effects' \in BOOLEAN
    BY <1>3
  <2>2. startRequested' \in BOOLEAN
    BY PlayerAfterEffects
  <2> QED
    BY <1>2, <1>5, <2>1, <2>2, SameColumn DEF IInv, Types
<1>7. PICK p, m, c : p = page' /\ m = mode' /\ c = coverSolo'
  OBVIOUS
<1>8. Stage' = Stage /\ (mode # "scroll" => Displayed(page)' = Displayed(page))
  <2>1. Stage' = StageIn(p, m, c) /\ Displayed(page)' = OnStage(p, m, c)
    BY <1>2, <1>7, StageThen
  <2>2. Stage = StageIn(page, m, c) /\ Displayed(page) = OnStage(page, m, c)
    BY <1>2, <1>7, StageNow
  <2> QED
    BY <1>2, <1>3, <1>7, <2>1, <2>2 DEF StageIn
<1>9. /\ Place' = Place /\ Place[2] = OnScreen(top) /\ ActiveAt(top)' = ActiveAt(top)
      /\ Maximum' = Maximum
  BY <1>2, SameColumn DEF Place
<1>10. ~Stale'
  BY <1>2, <1>4, <1>9 DEF Stale
<1>11. RecordOK'
  <2>1. CASE Current.activeReady /\ visible
    <3>1. Current = view /\ view.stage = Stage
      BY <2>1, ContextIs
    <3>2. recorded' = [page |-> view.page, completed |-> recorded.completed \/ view.completed]
      BY <2>1, <3>1 DEF Effects
    <3>3. view.page \in PageNo
      BY <3>1 DEF IInv, ViewOK
    <3> QED
      BY <3>2, <3>3 DEF RecordOK
  <2>2. CASE ~(Current.activeReady /\ visible)
    <3>1. recorded' = recorded
      BY <2>2 DEF Effects
    <3> QED
      BY <3>1 DEF IInv, RecordOK
  <2> QED
    BY <2>1, <2>2
<1>12. ViewOK'
  <2>1. r.page \in PageNo
    BY <1>4, <1>5 DEF IInv, Types
  <2>2. mode = "scroll" => /\ r.page \in r.position[2]
                           /\ r.completed => LastPage \in r.position[2]
    BY <1>4, <1>5, <1>9
  <2>3. mode # "scroll" => /\ r.position = Stage /\ r.page \in Displayed(page)
                           /\ r.completed => LastPage \in Displayed(page)
    <3>1. page \in Displayed(page)
      BY DisplayedIs DEF IInv, Types
    <3> QED
      BY <1>4, <3>1
  <2> QED
    BY <1>2, <1>4, <1>4a, <1>8, <2>1, <2>2, <2>3 DEF ViewOK
<1>13. Fresh' /\ EndKnown' /\ ActiveOK'
  BY <1>2, <1>4, <1>9 DEF Fresh, EndKnown, IInv, ActiveOK
<1>14. /\ PlayerIn(b, x) /\ playing' = b.playing /\ startRequested' = FALSE
       /\ x = given => b.context = player.context
       /\ x # given => b.context = x
  BY <1>1, PlayerAfterEffects
<1>15. IsContext(x) /\ x.visible = visible
  BY <1>1, ContextType, ContextIs
<1>16. PlayerOK'
  <2>1. b.playing => visible
    <3>1. x = [key |-> x.key, ready |-> x.ready, atEnd |-> x.atEnd, visible |-> x.visible,
               blocked |-> x.blocked]
      BY <1>15 DEF IsContext
    <3>2. b.context.visible = x.visible
      BY <1>14, <3>1 DEF PlayerIn
    <3> QED
      BY <1>14, <1>15, <3>2 DEF PlayerIn, Halting
  <2> QED
    BY <1>1, <1>2, <1>14, <1>15, <2>1 DEF PlayerOK, PlayerIn, IsContext
<1>17. OnTime'
  <2>1. SUFFICES ASSUME b.armed
                 PROVE  r.ready /\ x.key = r.position /\ x.atEnd = AtEnd'
    BY <1>1, <1>2, <1>4, <1>8, <1>10 DEF OnTime
  <2>2. ~Stale /\ x.ready
    BY <1>1, <2>1, EffectsOnTime
  <2>3. Current = view /\ view.stage = Stage /\ view.ready /\ x.key = view.position /\ x.atEnd = AtEnd
    BY <1>1, <2>2, ContextIs
  <2>4. r.ready
    BY <1>4, <2>2, <2>3 DEF IInv, Fresh
  <2>5. view.position = r.position
    BY <1>4, <2>2, <2>3 DEF IInv, ViewOK, Stale
  <2>6. AtEnd' = AtEnd
    <3>1. CASE mode # "scroll"
      <4>1. NextOf(page)' = NextOf(page)
        BY <1>2, <1>8, <3>1 DEF NextOf
      <4> QED
        BY <1>2, <3>1, <4>1 DEF AtEnd
    <3>2. CASE mode = "scroll"
      <4>1. Current' = r
        BY <1>2, <1>4, <1>8 DEF Current
      <4>2. AtEnd' = r.atEnd
        BY <1>2, <3>2, <4>1 DEF AtEnd
      <4>3. AtEnd = view.atEnd
        BY <2>3, <3>2 DEF AtEnd
      <4>4. view.atEnd = (top >= Maximum)
        <5>1. player.playing \/ startRequested
          BY <1>1, <2>1, PlayerAfterEffects DEF PlayerIn
        <5> QED
          BY <2>2, <2>3, <3>2, <5>1 DEF IInv, EndKnown
      <4> QED
        BY <1>4, <3>2, <4>2, <4>3, <4>4
    <3> QED
      BY <3>1, <3>2
  <2> QED
    BY <2>3, <2>4, <2>5, <2>6
<1>18. Pending'
  <2>1. SUFFICES ASSUME b.context # x
                 PROVE  effects' /\ Context'.key # x.key
    BY <1>1, <1>2 DEF Pending
  <2>2. x = given /\ player.context # given
    BY <1>14, <2>1
  <2>3. Stale /\ given.key = view.position
    BY <1>1, <2>2 DEF IInv, Pending
  <2>4. r.position # view.position /\ mode = "scroll" /\ r.position = Place
    BY <1>4, <2>3 DEF Stale
  <2>5. r # view
    BY <2>4
  <2>6. Context'.key = r.position
    <3>1. Current' = r
      BY <1>2, <1>4, <1>8 DEF Current
    <3>2. Context'.key = IF Current'.stage = Stage' THEN Current'.position ELSE Stage'
      BY DEF Context
    <3> QED
      BY <1>4, <1>8, <3>1, <3>2
  <2> QED
    BY <1>3, <2>2, <2>3, <2>4, <2>5, <2>6
<1>19. StaleOK'
  BY <1>10 DEF StaleOK
<1>20. Settled'
  <2>1. SUFFICES ASSUME ~effects'
                 PROVE  view' = Report' /\ given' = Context'
    BY DEF Settled
  <2>2. UNCHANGED <<page, view>>
    BY <1>2, <1>3, <2>1
  <2>3. Report' = Report /\ Context' = Context
    BY <1>2, <2>2, SameReport
  <2> QED
    BY <1>1, <1>2, <2>3
<1>21. ShownIsRecorded'
  <2>1. SUFFICES ASSUME ~effects', visible
                 PROVE  IF mode = "scroll"
                        THEN /\ active => recorded'.page = ActiveAt(top)
                             /\ image = "ready" /\ top = Maximum => recorded'.completed
                        ELSE image = "ready" =>
                                 recorded'.page = page' /\ (LastPage \in Displayed(page)' => recorded'.completed)
    BY <1>2, <1>9 DEF ShownIsRecorded
  <2>2. view = r /\ page' = page
    BY <1>3, <2>1
  <2>3. Current = r
    BY <1>4, <2>2, ContextIs
  <2>4. r.activeReady => recorded' = [page |-> r.page, completed |-> recorded.completed \/ r.completed]
    BY <1>4, <2>1, <2>3 DEF Effects
  <2>5. r.activeReady => recorded'.page = r.page /\ (r.completed => recorded'.completed)
    <3>1. r.activeReady => /\ recorded'.page = r.page
                           /\ recorded'.completed = (recorded.completed \/ r.completed)
      BY <2>4
    <3> QED
      BY <3>1
  <2>6. CASE mode = "scroll"
    <3>1. image = "ready" => active
      BY <2>6 DEF IInv, ActiveOK
    <3>2. Maximum \in Nat /\ (top = Maximum => top >= Maximum)
      BY Rows DEF IInv, Types
    <3> QED
      BY <1>4, <2>5, <2>6, <3>1, <3>2
  <2>7. CASE mode # "scroll"
    BY <1>4, <1>8, <2>2, <2>5, <2>7
  <2> QED
    BY <2>6, <2>7
<1> QED
  BY <1>6, <1>11, <1>12, <1>13, <1>16, <1>17, <1>18, <1>19, <1>20, <1>21 DEF IInv

-----------------------------------------------------------------------------
(* The timer.                                                              *)

\* A timer that is set finds the page of its context on screen, and more to come.
LEMMA TimerFinds ==
    ASSUME IInv, player.armed
    PROVE  /\ player = [playing |-> TRUE, armed |-> TRUE, context |-> given]
           /\ given = [key |-> view.position, ready |-> TRUE, atEnd |-> FALSE, visible |-> TRUE,
                       blocked |-> FALSE]
           /\ ~Halting(given) /\ visible /\ image = "ready" /\ ~AtEnd
           /\ view.stage = Stage /\ view.ready /\ ~Stale /\ playing = TRUE
PROOF
<1>1. player.playing /\ player.context.ready /\ player.playing = TRUE /\ player.armed = TRUE
  BY DEF IInv, PlayerOK
<1>2. /\ given = [key |-> given.key, ready |-> given.ready, atEnd |-> given.atEnd,
                  visible |-> given.visible, blocked |-> given.blocked]
      /\ given.ready \in BOOLEAN /\ given.atEnd \in BOOLEAN /\ given.visible \in BOOLEAN
      /\ given.blocked \in BOOLEAN
  BY DEF IInv, PlayerOK, IsContext
<1>3. player.context = given /\ given.ready = TRUE
  <2>1. [given EXCEPT !.ready = FALSE].ready = FALSE
    BY <1>2
  <2>2. player.context = given
    BY <1>1, <2>1 DEF IInv, PlayerOK
  <2> QED
    BY <1>1, <1>2, <2>2
<1>4. ~Halting(given) /\ visible
  BY <1>1, <1>3 DEF IInv, PlayerOK
<1>5. given.atEnd = FALSE /\ given.visible = TRUE /\ given.blocked = FALSE
  BY <1>2, <1>4 DEF Halting
<1>6. view.stage = Stage /\ view.ready /\ ~Stale /\ given.key = view.position /\ ~AtEnd
  BY <1>5 DEF IInv, OnTime
<1>7. image = "ready"
  BY <1>6 DEF IInv, Fresh
<1>8. player = [playing |-> TRUE, armed |-> TRUE, context |-> given]
  BY <1>1, <1>3 DEF IInv, PlayerOK
<1>9. given = [key |-> view.position, ready |-> TRUE, atEnd |-> FALSE, visible |-> TRUE,
               blocked |-> FALSE]
  BY <1>2, <1>3, <1>5, <1>6
<1>10. playing = TRUE
  BY <1>1 DEF IInv, PlayerOK
<1> QED
  BY <1>4, <1>6, <1>7, <1>8, <1>9, <1>10

\* What is found on screen after a move has the right shape; the same screen looks the same.
LEMMA FoundIs ==
    ASSUME image \in Images, active \in BOOLEAN, NEW p, NEW t, Found(p, t)
    PROVE  /\ image' \in Images /\ active' \in BOOLEAN
           /\ mode = "scroll" /\ image' = "ready" => active'
           /\ mode = "scroll" /\ OnScreen(t) = OnScreen(top) => image' = image
           /\ mode # "scroll" /\ StageOf(p, mode) = Stage => image' = image
PROOF
<1>1. CASE mode = "scroll"
  BY <1>1 DEF Found, Together
<1>2. CASE mode # "scroll"
  BY <1>2 DEF Found, Images
<1> QED
  BY <1>1, <1>2

LEMMA TimerKeeps ==
    ASSUME IInv, TimerFires
    PROVE  IInv'
PROOF
<1>1. /\ player = [playing |-> TRUE, armed |-> TRUE, context |-> given]
      /\ given = [key |-> view.position, ready |-> TRUE, atEnd |-> FALSE, visible |-> TRUE,
                  blocked |-> FALSE]
      /\ ~Halting(given) /\ visible /\ image = "ready" /\ ~AtEnd
      /\ view.stage = Stage /\ view.ready /\ ~Stale /\ playing = TRUE
  BY TimerFinds DEF TimerFires
<1>2. player.playing /\ player.context = given /\ given.ready
  BY <1>1
<1>3. /\ player' = [player EXCEPT !.armed = FALSE, !.context.ready = FALSE]
      /\ mode = "scroll" =>
           /\ top' = Clamped(top + Step) /\ advances' = 1 - advances
           /\ page' = page
      /\ mode # "scroll" =>
           /\ page' = (IF NextOf(page) = None THEN page ELSE NextOf(page))
           /\ top' = top /\ advances' = advances
      /\ Found(page', top') /\ effects' = TRUE
      /\ UNCHANGED <<mode, coverSolo, rtl, bottom, view, settings, visible, status, startRequested,
                     playing, given, recorded, steps>>
  BY <1>1, <1>2 DEF TimerFires
<1>4. PICK a, x : a = player' /\ x = [given EXCEPT !.ready = FALSE]
  OBVIOUS
<1>5. x = [key |-> view.position, ready |-> FALSE, atEnd |-> FALSE, visible |-> TRUE,
           blocked |-> FALSE]
  BY <1>1, <1>4
<1>6. a = [playing |-> TRUE, armed |-> FALSE, context |-> x]
  BY <1>1, <1>3, <1>4
<1>7. /\ a = [playing |-> a.playing, armed |-> a.armed, context |-> a.context]
      /\ a.playing = TRUE /\ a.armed = FALSE /\ a.context = x /\ x.ready = FALSE
      /\ ~x.atEnd /\ x.visible /\ ~x.blocked
  BY <1>5, <1>6
<1>8. image' \in Images /\ active' \in BOOLEAN /\ ActiveOK'
  <2>1. PICK p, t : p = page' /\ t = top'
    OBVIOUS
  <2>2. Found(p, t)
    BY <1>3, <2>1
  <2> QED
    BY <1>3, <2>2, FoundIs DEF IInv, Types, ActiveOK
<1>9. top' \in 0 .. Maximum' /\ bottom' \in Layouts /\ advances' \in {0, 1}
  <2>1. Maximum' = Maximum /\ Maximum \in Nat
    BY <1>3, SameColumn, Rows DEF IInv, Types
  <2>2. Clamped(top + Step) \in 0 .. Maximum
    <3>1. top + Step \in Nat
      BY <2>1, ReaderAssumption DEF IInv, Types
    <3> QED
      BY <3>1, Rows DEF IInv, Types
  <2> QED
    BY <1>3, <2>1, <2>2 DEF IInv, Types
<1>10. PlayerOK'
  <2>1. ~Halting(x)
    BY <1>7 DEF Halting
  <2> QED
    BY <1>1, <1>3, <1>4, <1>7, <2>1 DEF IInv, PlayerOK, IsContext
<1>11. OnTime' /\ RecordOK' /\ Settled' /\ ShownIsRecorded'
  BY <1>3, <1>4, <1>7 DEF OnTime, IInv, RecordOK, Settled, ShownIsRecorded
<1>12. PICK p, m, c : p = page' /\ m = mode' /\ c = coverSolo'
  OBVIOUS
<1>13. Stage' = StageIn(p, m, c) /\ Displayed(page)' = OnStage(p, m, c)
  BY <1>3, <1>12, StageThen
<1>14. Stage = StageIn(page, m, c) /\ Displayed(page) = OnStage(page, m, c)
  BY <1>3, <1>12, StageNow
<1>15. ASSUME mode # "scroll"
       PROVE  IInv'
  <2>1. NextOf(page) # None
    BY <1>1, <1>15 DEF AtEnd
  <2>2. p = NextOf(page) /\ p \in PageNo /\ Displayed(p) # Displayed(page)
    BY <1>3, <1>12, <1>15, <2>1, TurnsAre DEF IInv, Types
  <2>3. Displayed(p) = OnStage(p, m, c)
    BY <1>3, <1>12 DEF Displayed, OnStage
  <2>4. Stage' # Stage
    <3>1. PICK q : q = page
      OBVIOUS
    <3>2. OnStage(p, m, c) # OnStage(q, m, c) /\ m # "scroll"
      BY <1>3, <1>12, <1>14, <1>15, <2>2, <2>3, <3>1
    <3>3. StageIn(p, m, c) # StageIn(q, m, c)
      BY <3>2, StagesDiffer
    <3> QED
      BY <1>13, <1>14, <3>1, <3>3
  <2>5. view.stage # Stage' /\ mode' # "scroll"
    BY <1>1, <1>3, <1>15, <2>4
  <2>6. Types'
    BY <1>3, <1>8, <1>9, <1>12, <2>2 DEF IInv, Types
  <2>7. ViewOK' /\ Fresh' /\ StaleOK' /\ EndKnown'
    BY <1>3, <2>5 DEF IInv, ViewOK, Fresh, StaleOK, Stale, EndKnown
  <2>8. Pending'
    <3>1. Context'.key = Stage'
      <4>1. Context'.key = IF view'.stage = Stage' THEN view'.position ELSE Stage'
        <5>1. Current' = IF view'.stage = Stage' THEN view' ELSE NoView
          BY DEF Current, NoView
        <5>2. Context'.key = IF Current'.stage = Stage' THEN Current'.position ELSE Stage'
          BY DEF Context
        <5>3. Current' = NoView
          BY <1>3, <2>5, <5>1
        <5>4. NoView.stage = <<>> /\ Len(Stage') # 0
          BY <1>13 DEF NoView, StageIn
        <5>5. Current'.stage # Stage'
          BY <5>3, <5>4
        <5> QED
          BY <1>3, <2>5, <5>2, <5>5
      <4> QED
        BY <1>3, <2>5, <4>1
    <3>2. given.key = Stage
      BY <1>1, <1>15 DEF IInv, ViewOK
    <3> QED
      BY <1>3, <2>4, <3>1, <3>2 DEF Pending
  <2> QED
    BY <1>8, <1>10, <1>11, <2>6, <2>7, <2>8 DEF IInv
<1>16. ASSUME mode = "scroll"
       PROVE  IInv'
  <2>1. page' = page /\ Stage' = Stage
    BY <1>3, <1>12, <1>13, <1>14, <1>16
  <2>2. view.position = Place
    BY <1>1, <1>16 DEF Stale
  <2>3. Place' # Place
    <3>1. Place[3] = advances /\ Place'[3] = advances'
      BY DEF Place
    <3>2. advances' # advances
      BY <1>3, <1>16 DEF IInv, Types
    <3> QED
      BY <3>1, <3>2
  <2>4. Stale'
    BY <1>1, <1>3, <1>16, <2>1, <2>2, <2>3 DEF Stale
  <2>5. Types'
    BY <1>3, <1>8, <1>9, <2>1 DEF IInv, Types
  <2>6. ViewOK'
    BY <1>3, <1>16, <2>1 DEF IInv, ViewOK
  <2>7. Fresh' /\ EndKnown'
    BY <2>4 DEF Fresh, EndKnown
  <2>8. PICK d : d = Context'
    OBVIOUS
  <2>9. Current' = view
    BY <1>1, <1>3, <2>1 DEF Current
  <2>10. d = [key |-> view.position, ready |-> view.ready, atEnd |-> view.atEnd,
              visible |-> visible, blocked |-> d.blocked]
    <3>1. AtEnd' = view.atEnd
      BY <1>3, <1>16, <2>9 DEF AtEnd
    <3>2. d = [key |-> IF Current'.stage = Stage' THEN Current'.position ELSE Stage',
               ready |-> Current'.ready, atEnd |-> AtEnd', visible |-> visible',
               blocked |-> Current'.failed \/ settings' \/ status' = "error"]
      BY <2>8 DEF Context
    <3>3. /\ d.key = view.position /\ d.ready = view.ready /\ d.atEnd = view.atEnd
          /\ d.visible = visible
      BY <1>1, <1>3, <2>1, <2>9, <3>1, <3>2
    <3>4. d = [key |-> d.key, ready |-> d.ready, atEnd |-> d.atEnd, visible |-> d.visible,
               blocked |-> d.blocked]
      BY <3>2
    <3> QED
      BY <3>3, <3>4
  <2>11. view.ready = TRUE /\ view.atEnd = FALSE /\ visible = TRUE
    <3>1. AtEnd = view.atEnd
      BY <1>1, <1>16 DEF AtEnd, Current
    <3>2. view.ready \in BOOLEAN /\ view.atEnd \in BOOLEAN /\ visible \in BOOLEAN
      BY DEF IInv, ViewOK, Types
    <3> QED
      BY <1>1, <3>1, <3>2
  <2>12. d = [given EXCEPT !.blocked = d.blocked]
    <3>1. given = [key |-> given.key, ready |-> given.ready, atEnd |-> given.atEnd,
                   visible |-> given.visible, blocked |-> given.blocked]
      BY DEF IInv, PlayerOK, IsContext
    <3>2. /\ d.key = given.key /\ d.ready = given.ready /\ d.atEnd = given.atEnd
          /\ d.visible = given.visible
      <4>1. /\ d.key = view.position /\ d.ready = view.ready /\ d.atEnd = view.atEnd
            /\ d.visible = visible
        BY <2>10
      <4>2. /\ given.key = view.position /\ given.ready = TRUE /\ given.atEnd = FALSE
            /\ given.visible = TRUE
        BY <1>1
      <4> QED
        BY <2>11, <4>1, <4>2
    <3>3. d = [key |-> given.key, ready |-> given.ready, atEnd |-> given.atEnd,
               visible |-> given.visible, blocked |-> d.blocked]
      BY <2>10, <3>2
    <3> QED
      BY <3>1, <3>3
  <2>13. StaleOK'
    BY <1>3, <1>4, <1>7, <2>8, <2>12 DEF StaleOK
  <2>14. Pending'
    <3>1. given.key = view.position
      BY <1>1
    <3> QED
      BY <1>3, <2>4, <3>1 DEF Pending
  <2> QED
    BY <1>8, <1>10, <1>11, <2>5, <2>6, <2>7, <2>13, <2>14 DEF IInv
<1> QED
  BY <1>15, <1>16

-----------------------------------------------------------------------------
(* Every step keeps the invariant.                                         *)

LEMMA MoveKeeps ==
    ASSUME IInv, Command, UNCHANGED settings, NEW q \in PageNo \cup {None}, MoveTo(q)
    PROVE  IInv'
PROOF
<1>1. /\ Stops /\ UNCHANGED <<mode, coverSolo, rtl, advances, visible, status, startRequested>>
      /\ page' = IF q = None THEN page ELSE q
      /\ top' = IF q # None /\ mode = "scroll" THEN Clamped(Above(q)) ELSE top
      /\ Found(page', top')
  BY DEF MoveTo
<1>2. PICK p, m, c, t : p = page' /\ m = mode' /\ c = coverSolo' /\ t = top'
  OBVIOUS
<1>3. /\ image' \in Images /\ active' \in BOOLEAN
      /\ mode = "scroll" /\ image' = "ready" => active'
      /\ mode = "scroll" /\ OnScreen(t) = OnScreen(top) => image' = image
      /\ mode # "scroll" /\ StageOf(p, mode) = Stage => image' = image
  <2>1. Found(p, t)
    BY <1>1, <1>2
  <2> QED
    BY <2>1, FoundIs DEF IInv, Types
<1>4. page' \in PageNo /\ top' \in 0 .. Maximum
  BY <1>1, Rows DEF IInv, Types
<1>5. Stage' = StageIn(p, m, c) /\ StageOf(p, mode) = StageIn(p, m, c) /\ OnScreen(top)' = OnScreen(t)
  <2>1. OnScreen(top)' = OnScreen(t)
    BY <1>2 DEF Command, OnScreen, Above
  <2> QED
    BY <1>1, <1>2, <2>1, StageThen DEF Command
<1>6. ASSUME Stage' = Stage, mode = "scroll" => OnScreen(top)' = OnScreen(top)
      PROVE  image' = image
  BY <1>3, <1>5, <1>6
<1> QED
  BY <1>1, <1>3, <1>4, <1>6, StopKeeps DEF IInv, Types

LEMMA ScrollKeeps ==
    ASSUME IInv, NEW t \in 0 .. Maximum, Scroll(t)
    PROVE  IInv'
PROOF
<1>1. /\ Command /\ Stops /\ mode = "scroll" /\ t # top /\ top' = t /\ Found(page, t)
      /\ UNCHANGED <<page, mode, coverSolo, rtl, advances, settings, visible, status, startRequested>>
  BY DEF Scroll
<1>2. /\ image' \in Images /\ active' \in BOOLEAN
      /\ mode = "scroll" /\ image' = "ready" => active'
      /\ mode = "scroll" /\ OnScreen(t) = OnScreen(top) => image' = image
  BY <1>1, FoundIs DEF IInv, Types
<1>3. OnScreen(top)' = OnScreen(t)
  BY <1>1 DEF Command, OnScreen, Above
<1> QED
  BY <1>1, <1>2, <1>3, StopKeeps DEF IInv, Types

LEMMA SetModeKeeps ==
    ASSUME IInv, NEW m \in Mode, SetMode(m)
    PROVE  IInv'
PROOF
<1>1. /\ Command /\ Stops /\ m # mode /\ mode' = m /\ image' = "loading" /\ active' = FALSE
      /\ top' = IF m = "scroll" THEN Clamped(Above(page)) ELSE 0
      /\ UNCHANGED <<page, coverSolo, rtl, advances, settings, visible, status, startRequested>>
  BY DEF SetMode
<1>2. Stage' # Stage
  <2>1. Stage'[1] = mode' /\ Stage[1] = mode
    BY DEF Stage, StageOf
  <2> QED
    BY <1>1, <2>1
<1>3. image' \in Images /\ image' # "ready"
  BY <1>1 DEF Images
<1>4. top' \in 0 .. Maximum
  BY <1>1, Rows DEF IInv, Types
<1> QED
  BY <1>1, <1>2, <1>3, <1>4, StopKeeps DEF IInv, Types

LEMMA SetCoverSoloKeeps ==
    ASSUME IInv, SetCoverSolo
    PROVE  IInv'
PROOF
<1>1. /\ Command /\ Stops /\ mode = "spread" /\ coverSolo' = ~coverSolo
      /\ image' = IF Group(page, ~coverSolo) # Group(page, coverSolo) THEN "loading" ELSE image
      /\ UNCHANGED <<page, mode, rtl, top, advances, active, settings, visible, status, startRequested>>
  BY DEF SetCoverSolo
<1>2. PICK p, m, c : p = page' /\ m = mode' /\ c = coverSolo'
  OBVIOUS
<1>3. PICK q, n, d : q = page /\ n = mode /\ d = coverSolo
  OBVIOUS
<1>4. Stage' = StageIn(p, m, c) /\ Stage = StageIn(q, n, d)
  BY <1>1, <1>2, <1>3, StageThen, StageNow DEF Command
<1>5. ASSUME Stage' = Stage
      PROVE  image' = image
  <2>1. OnStage(p, m, c) = OnStage(q, n, d)
    BY <1>1, <1>2, <1>4, <1>5, StagesDiffer
  <2>2. Group(page, ~coverSolo) = Group(page, coverSolo)
    BY <1>1, <1>2, <1>3, <2>1 DEF OnStage
  <2> QED
    BY <1>1, <2>2
<1>6. image' \in Images /\ coverSolo' \in BOOLEAN
  BY <1>1 DEF IInv, Types, Images
<1> QED
  BY <1>1, <1>5, <1>6, StopKeeps DEF IInv, Types

LEMMA DestinationIs ==
    ASSUME IInv
    PROVE  /\ \A left : Side(left) \in PageNo \cup {None}
           /\ \A key \in Keys : Destination(key) \in PageNo \cup {None}
PROOF
<1>1. NextOf(page) \in PageNo \cup {None} /\ PreviousOf(page) \in PageNo \cup {None}
  BY TurnsAre DEF IInv, Types
<1>2. \A left : Side(left) \in PageNo \cup {None}
  BY <1>1 DEF Side
<1>3. ASSUME NEW key \in Keys
      PROVE  Destination(key) \in PageNo \cup {None}
  <2>1. CASE key = "left" \/ key = "right"
    BY <1>2, <2>1 DEF Destination
  <2>2. CASE key = "next" \/ key = "previous"
    BY <1>1, <2>2 DEF Destination
  <2>3. CASE key = "first" \/ key = "last"
    BY <2>3, Pages DEF Destination
  <2> QED
    BY <2>1, <2>2, <2>3 DEF Keys
<1> QED
  BY <1>2, <1>3

LEMMA PauseKeeps ==
    ASSUME IInv, Escape \/ ToggleSettings \/ RetryImage \/ (ToggleVisible /\ visible)
    PROVE  IInv'
PROOF
<1>1. mode = "scroll" /\ image = "ready" => active
  BY DEF IInv, ActiveOK
<1>2. CASE Escape
  BY <1>1, <1>2, StopKeeps DEF Escape, IInv, Types
<1>3. CASE ToggleSettings
  BY <1>1, <1>3, StopKeeps DEF ToggleSettings, IInv, Types
<1>4. CASE RetryImage
  <2>1. image' \in Images /\ image' # "ready"
    BY <1>4 DEF RetryImage, Images
  <2> QED
    BY <1>4, <2>1, StopKeeps DEF RetryImage, IInv, Types
<1>5. CASE ToggleVisible /\ visible
  BY <1>1, <1>5, StopKeeps DEF ToggleVisible, IInv, Types
<1> QED
  BY <1>2, <1>3, <1>4, <1>5

LEMMA PlayKeeps ==
    ASSUME IInv, TogglePlayback \/ PlayEvery \/ SetDirection \/ (ToggleVisible /\ ~visible)
    PROVE  IInv'
PROOF
<1>1. startRequested = FALSE /\ playing = player.playing
  <2>1. ~effects
    BY DEF TogglePlayback, PlayEvery, SetDirection, ToggleVisible, Command
  <2> QED
    BY <2>1, AtRest DEF IInv, Types, PlayerOK
<1>2. CASE TogglePlayback
  BY <1>1, <1>2, RestKeeps DEF TogglePlayback, IInv, Types
<1>3. CASE PlayEvery
  BY <1>1, <1>3, RestKeeps DEF PlayEvery, IInv, Types
<1>4. CASE SetDirection
  BY <1>1, <1>4, RestKeeps DEF SetDirection, IInv, Types
<1>5. CASE ToggleVisible /\ ~visible
  BY <1>1, <1>5, RestKeeps DEF ToggleVisible, IInv, Types
<1> QED
  BY <1>2, <1>3, <1>4, <1>5

LEMMA UserKeeps ==
    ASSUME IInv, User
    PROVE  IInv'
PROOF
<1>1. ASSUME NEW p \in PageNo, Scrub(p) \/ SelectPage(p)
      PROVE  IInv'
  BY <1>1, MoveKeeps DEF Scrub, SelectPage
<1>2. ASSUME NEW t \in 0 .. Maximum, Scroll(t)
      PROVE  IInv'
  BY <1>2, ScrollKeeps
<1>3. ASSUME NEW key \in Keys, Press(key)
      PROVE  IInv'
  BY <1>3, DestinationIs, MoveKeeps DEF Press
<1>4. ASSUME NEW left \in BOOLEAN, Swipe(left) \/ Tap(left)
      PROVE  IInv'
  BY <1>4, DestinationIs, MoveKeeps DEF Swipe, Tap
<1>5. ASSUME NEW m \in Mode, SetMode(m)
      PROVE  IInv'
  BY <1>5, SetModeKeeps
<1>6. ASSUME SetCoverSolo
      PROVE  IInv'
  BY <1>6, SetCoverSoloKeeps
<1> QED
  BY <1>1, <1>2, <1>3, <1>4, <1>5, <1>6, PauseKeeps, PlayKeeps DEF User

LEMMA OutsideStepsKeep ==
    ASSUME IInv, ImageSettles \/ StatusChanges
    PROVE  IInv'
PROOF
<1>1. CASE ImageSettles
  <2>1. /\ image' = image \/ (image = "loading" /\ image' \in Images)
        /\ status' \in Statuses /\ active' \in BOOLEAN
        /\ mode = "scroll" /\ image' = "ready" => active'
    BY <1>1 DEF ImageSettles, Together, IInv, Types
  <2> QED
    BY <1>1, <2>1, OutsideKeeps DEF ImageSettles
<1>2. CASE StatusChanges
  <2>1. status' \in Statuses /\ (mode = "scroll" /\ image = "ready" => active) /\ active \in BOOLEAN
    BY <1>2 DEF StatusChanges, Statuses, IInv, Types, ActiveOK
  <2> QED
    BY <1>2, <2>1, OutsideKeeps DEF StatusChanges
<1> QED
  BY <1>1, <1>2

LEMMA StutterKeeps ==
    ASSUME IInv, UNCHANGED vars
    PROVE  IInv'
PROOF
<1>1. /\ Displayed(page)' = Displayed(page) /\ Stage' = Stage /\ Place' = Place /\ (Stale' <=> Stale)
      /\ AtEnd' = AtEnd /\ Report' = Report /\ Context' = Context /\ Maximum' = Maximum
      /\ ActiveAt(top)' = ActiveAt(top)
  BY SameScreen, SameReport DEF vars
<1>2. Types' /\ RecordOK' /\ ViewOK' /\ Fresh' /\ EndKnown' /\ ActiveOK'
  BY <1>1 DEF vars, IInv, Types, RecordOK, ViewOK, Fresh, EndKnown, ActiveOK
<1>3. Settled' /\ Pending' /\ StaleOK'
  BY <1>1 DEF vars, IInv, Settled, Pending, StaleOK
<1>4. PlayerOK' /\ OnTime' /\ ShownIsRecorded'
  BY <1>1 DEF vars, IInv, PlayerOK, IsContext, OnTime, ShownIsRecorded
<1> QED
  BY <1>2, <1>3, <1>4 DEF IInv

LEMMA InitInv == Init => IInv
PROOF
<1>1. SUFFICES ASSUME Init
               PROVE  IInv
  OBVIOUS
<1>2. NoView.stage # Stage /\ Len(Stage) # 0
  <2>1. Len(Stage) # 0 /\ NoView.stage = <<>>
    BY DEF Stage, StageOf, NoView
  <2> QED
    BY <2>1
<1>3. Types
  <2>1. bottom \in Layouts /\ page \in PageNo
    BY <1>1 DEF Init
  <2>2. 0 \in 0 .. Maximum /\ Clamped(Above(page)) \in 0 .. Maximum
    BY <2>1, Rows
  <2> QED
    BY <1>1, <2>2 DEF Init, Types, Images, Statuses
<1>4. RecordOK /\ Settled /\ ShownIsRecorded
  BY <1>1 DEF Init, RecordOK, Settled, ShownIsRecorded
<1>5. view.stage # Stage /\ ~Stale /\ effects
  BY <1>1, <1>2 DEF Init, Stale
<1>6. ViewOK
  <2>1. view = NoView
    BY <1>1 DEF Init
  <2>2. /\ view = [stage |-> view.stage, position |-> view.position, page |-> view.page,
                   ready |-> view.ready, activeReady |-> view.activeReady, failed |-> view.failed,
                   atEnd |-> view.atEnd, completed |-> view.completed]
        /\ view.ready \in BOOLEAN /\ view.activeReady \in BOOLEAN /\ view.failed \in BOOLEAN
        /\ view.atEnd \in BOOLEAN /\ view.completed \in BOOLEAN /\ (view.completed => view.ready)
    BY <2>1 DEF NoView
  <2> QED
    BY <1>5, <2>2 DEF ViewOK
<1>7. Fresh /\ StaleOK /\ EndKnown /\ ActiveOK
  BY <1>1, <1>5 DEF Init, Fresh, StaleOK, EndKnown, ActiveOK
<1>8. PlayerOK
  BY <1>1 DEF Init, PlayerOK, IsContext
<1>9. OnTime /\ Pending
  BY <1>1 DEF Init, OnTime, Pending
<1> QED
  BY <1>3, <1>4, <1>6, <1>7, <1>8, <1>9 DEF IInv

\* The invariant holds at every step of the reader, of a book of any number of pages.
THEOREM ReaderInv == Spec => []IInv
PROOF
<1>1. IInv /\ [Next]_vars => IInv'
  BY EffectsKeep, TimerKeeps, OutsideStepsKeep, UserKeeps, StutterKeeps DEF Next
<1> QED
  BY InitInv, <1>1, PTL DEF Spec

-----------------------------------------------------------------------------
(* What the runs check.                                                    *)

\* Autoplay never hangs, and yields to what stops it (reading.ts, ScrollView.tsx, Reader.tsx).
THEOREM AutoplayTheorem == Spec => []Autoplay
PROOF
<1>1. IInv => Autoplay
  <2>1. SUFFICES ASSUME IInv, ~effects, player.playing
                 PROVE  /\ player.armed \/ image = "loading"
                        /\ visible /\ ~settings /\ status # "error" /\ image # "failed"
                        /\ IF mode = "scroll" THEN top < Maximum ELSE NextOf(page) # None
    BY DEF Autoplay, PlayingGoesOn, AutoplayYields
  <2>2. view = Report /\ given = Context /\ player.context = given /\ view.stage = Stage
    BY <2>1, AtRest
  <2>3. ~Halting(given) /\ visible /\ (player.armed <=> given.ready)
    BY <2>1, <2>2 DEF IInv, PlayerOK
  <2>4. /\ Current = Report /\ given.ready = Report.ready /\ given.atEnd = AtEnd
        /\ given.blocked = (Report.failed \/ settings \/ status = "error")
    BY <2>2, ContextIs
  <2>5. image # "failed" /\ ~settings /\ status # "error"
    BY <2>3, <2>4, ReportIs DEF Halting
  <2>6. image = "ready" => player.armed
    BY <2>3, <2>4, ReportIs
  <2>7. AtEnd = IF mode = "scroll" THEN Report.atEnd ELSE NextOf(page) = None
    BY <2>4 DEF AtEnd
  <2>8. /\ mode = "scroll" => ~(top >= Maximum)
        /\ mode # "scroll" => NextOf(page) # None
    BY <2>3, <2>4, <2>7, ReportIs DEF Halting
  <2>9. Maximum \in Nat /\ top \in Nat
    BY <2>1, Rows DEF IInv, Types
  <2>10. IF mode = "scroll" THEN top < Maximum ELSE NextOf(page) # None
    BY <2>8, <2>9
  <2> QED
    BY <2>1, <2>3, <2>5, <2>6, <2>10 DEF IInv, Types, Images
<1> QED
  BY ReaderInv, <1>1, PTL

\* Spreads are sound, turns lead back, and what is shown is on record (reading.ts, Reader.tsx).
THEOREM ShownPagesTheorem == Spec => []ShownPages
PROOF
<1>1. IInv => ShownPages
  <2>1. SUFFICES ASSUME IInv
                 PROVE  ShownPages
    OBVIOUS
  <2>2. TypeOK
    BY <2>1 DEF IInv, Types, RecordOK, PlayerOK, TypeOK, Images, Statuses
  <2>3. TurnsReturn
    BY <2>1, TurnsReturnLemma DEF IInv, Types
  <2> QED
    BY <2>1, <2>2, <2>3, SpreadsFitLemma DEF ShownPages, IInv
<1> QED
  BY ReaderInv, <1>1, PTL

\* Autoplay leaves, and the record takes, only what was on screen (reading.ts, ScrollView.tsx, Reader.tsx).
THEOREM StepsFollowTheScreenTheorem == Spec => StepsFollowTheScreen
PROOF
<1>1. IInv /\ [Next]_vars =>
        [(TimerFires /\ <<page', top'>> # <<page, top>>) => (image = "ready" /\ visible)]_vars
  BY TimerFinds DEF TimerFires
<1>2. ASSUME IInv, [Next]_vars
      PROVE  [recorded' # recorded =>
                LET shown == IF mode = "scroll" THEN view.position[2] ELSE Displayed(page)
                IN  /\ Current.activeReady /\ recorded'.page \in shown
                    /\ recorded'.completed => \/ recorded.completed
                                              \/ Current.ready /\ LastPage \in shown]_vars
  <2>1. SUFFICES ASSUME recorded' # recorded, NEW shown,
                        shown = IF mode = "scroll" THEN view.position[2] ELSE Displayed(page)
                 PROVE  /\ Current.activeReady /\ recorded'.page \in shown
                        /\ recorded'.completed => \/ recorded.completed
                                                  \/ Current.ready /\ LastPage \in shown
    OBVIOUS
  <2>2. Effects
    BY <1>2, <2>1 DEF Next, vars, TimerFires, ImageSettles, StatusChanges, User, Command, Scrub,
       SelectPage, Scroll, Press, Swipe, Tap, Escape, SetDirection, TogglePlayback, PlayEvery,
       ToggleSettings, SetMode, SetCoverSolo, RetryImage, ToggleVisible
  <2>3. /\ Current.activeReady /\ visible
        /\ recorded' = [page |-> Current.page, completed |-> recorded.completed \/ Current.completed]
    BY <2>1, <2>2 DEF Effects
  <2>4. Current = view /\ view.stage = Stage
    BY <2>3, ContextIs
  <2>5. view.page \in shown /\ (view.completed => view.ready /\ LastPage \in shown)
    BY <1>2, <2>1, <2>4 DEF IInv, ViewOK
  <2> QED
    BY <2>3, <2>4, <2>5
<1> QED
  BY ReaderInv, <1>1, <1>2, PTL DEF Spec, StepsFollowTheScreen, AutoplayShowsEachPage, RecordsWhatWasShown

-----------------------------------------------------------------------------
(* The queue of personal edits. It has at most one request under way, and  *)
(* the invariant says what that request stands for: a front part of the    *)
(* queue, which stays its front part while edits are pushed behind it, and *)
(* which is stored once the server has committed. A state received is the  *)
(* row as it was at its revision, so a save the server accepts was made    *)
(* from the row it replaces, by the edits it carries.                      *)

\* From a to b, only the fields that the edits of E are for have changed.
Touches(a, b, E) ==
    /\ b.rating # a.rating => \E e \in E : e.field = "rating"
    /\ <<b.page, b.completed>> # <<a.page, a.completed>> => \E e \in E : e.field = "page"

\* The first n edits of a queue.
Covered(q, n) == ToSet(SubSeq(q, 1, n))

\* With the row at r and its revision at v, a state received is the row as it was at its revision.
Seen(s, r, v) ==
    /\ s = [state |-> s.state, rev |-> s.rev] /\ s.state \in Personal /\ s.rev \in 0 .. v
    /\ s.rev = v => s.state = r

\* A save under way, were it accepted now, changes only what its edits are for.
Safe(m, r, v) ==
    /\ m.body \in Personal /\ m.rev \in 0 .. v /\ m.edits \subseteq Edit
    /\ m.rev = v => Touches(r, m.body, m.edits)

\* The shapes of a request, and what it carries, beside a queue q.
Loads == {"open", "retry", "reload"}
Asks(c) == /\ c.kind \in Loads /\ c.phase = "sent"
           /\ c = [kind |-> c.kind, phase |-> "sent", count |-> c.count]
Answers(c, r, v) ==
    /\ c.kind \in Loads \cup {"save"} /\ c.phase = "answered"
    /\ c = [kind |-> c.kind, phase |-> "answered", count |-> c.count, got |-> c.got]
    /\ Seen(c.got, r, v)
Saves(c, q, r, v) ==
    /\ c.kind = "save" /\ c.phase \in {"sent", "committed", "refused"}
    /\ c = [kind |-> "save", phase |-> c.phase, count |-> c.count, rev |-> c.rev,
            body |-> c.body, edits |-> c.edits]
    /\ c.edits = Covered(q, c.count) /\ c.edits \subseteq Edit
    /\ c.phase = "sent" => Safe(c, r, v)
Calls(c, q, r, v) == c = Idle \/ Asks(c) \/ Answers(c, r, v) \/ Saves(c, q, r, v)

\* How many of the edits of q a request stands for, and which of them are stored.
Covers(c, q, kept) ==
    /\ c.kind \in {"save", "reload"} => c.count \in 0 .. Len(q)
    /\ c.kind = "save" => c.count # 0
    /\ c.kind = "save" /\ c.phase \in {"committed", "answered"} => Covered(q, c.count) \subseteq kept

\* What the stage of the view says of its request and its queue.
Places(d) ==
    /\ stage[d] \in {"closed", "failed"} => call[d] = Idle
    /\ stage[d] = "loading" => call[d].kind = "open"
    /\ stage[d] = "open" => call[d].kind # "open"
    /\ stage[d] # "open" => pending[d] = <<>> /\ deferred[d] = <<>> /\ owed[d] = {}
    /\ stage[d] = "open" /\ call[d] = Idle /\ ~broken[d] => pending[d] = <<>>
    /\ stage[d] = "open" /\ saveStatus[d] = "saved" => pending[d] = <<>>

DeviceOK(d) == /\ Calls(call[d], pending[d], row, revision) /\ Covers(call[d], pending[d], stored)
             /\ Places(d) /\ Seen(srv[d], row, revision)
             /\ owed[d] \subseteq stored \cup Held(d)

QueueTypes ==
    /\ row \in Personal /\ revision \in Nat /\ stored \subseteq Edit
    /\ stage \in [Device -> {"closed", "loading", "failed", "open"}]
    /\ srv \in [Device -> [state : Personal, rev : Nat]]
    /\ pending \in [Device -> Seq(Edit)] /\ deferred \in [Device -> Seq(Edit)]
    /\ \A d \in Device : Len(deferred[d]) <= 1
    /\ call = [d \in Device |-> call[d]]
    /\ broken \in [Device -> BOOLEAN] /\ saveStatus \in [Device -> {"saved", "saving", "error"}]
    /\ nav \in [Device -> {"here", "asked", "allowed"}]
    /\ owed \in [Device -> SUBSET Edit]
    /\ stamp \in 0 .. MaxEdits

LateOK == \A m \in late : Safe(m, row, revision)

QueueInv == QueueTypes /\ LateOK /\ \A d \in Device : DeviceOK(d)

-----------------------------------------------------------------------------
(* The state that edits make.                                              *)

LEMMA ApplyType ==
    ASSUME NEW s \in Personal, NEW e \in Edit
    PROVE  Apply(s, e) \in Personal /\ Touches(s, Apply(s, e), {e})
PROOF
<1>1. s = [page |-> s.page, completed |-> s.completed, rating |-> s.rating]
  BY DEF Personal
<1>2. CASE e.field = "rating"
  <2>1. e.value \in Score
    BY <1>2 DEF Edit
  <2>2. Apply(s, e) = [page |-> s.page, completed |-> s.completed, rating |-> e.value]
    BY <1>1, <1>2 DEF Apply
  <2> QED
    BY <1>2, <2>1, <2>2 DEF Touches, Personal
<1>3. CASE e.field # "rating"
  <2>1. e.value \in StopAt /\ e.final \in BOOLEAN /\ e.field = "page"
    BY <1>3 DEF Edit
  <2>2. Apply(s, e) = [page |-> e.value, completed |-> s.completed \/ e.final, rating |-> s.rating]
    BY <1>1, <1>3 DEF Apply
  <2> QED
    BY <2>1, <2>2 DEF Touches, Personal
<1> QED
  BY <1>2, <1>3

LEMMA TouchesMore ==
    ASSUME NEW a \in Personal, NEW b \in Personal, NEW c \in Personal, NEW E, NEW F, NEW G,
           Touches(a, b, E), Touches(b, c, F), E \subseteq G, F \subseteq G
    PROVE  Touches(a, c, G)
PROOF BY DEF Touches

\* All of the edits together: a state of the book, changed in what they are for.
LEMMA ApplyAllIs ==
    ASSUME NEW s \in Personal, NEW edits \in Seq(Edit)
    PROVE  ApplyAll(s, edits) \in Personal /\ Touches(s, ApplyAll(s, edits), ToSet(edits))
PROOF
<1> DEFINE n == Len(edits)
           step == [x \in Personal \X (1 .. n) |-> Apply(x[1], edits[x[2]])]
<1>1. n \in Nat /\ \A i \in 1 .. n : edits[i] \in Edit /\ edits[i] \in ToSet(edits)
  BY DEF ToSet
<1>2. step \in [Personal \X (1 .. n) -> Personal]
  BY <1>1, ApplyType
<1>3. \A t \in Personal : \A i \in 1 .. n : step[<<t, i>>] = Apply(t, edits[i])
  OBVIOUS
<1>4. PICK f \in [0 .. n -> Personal] : f[0] = s /\ StepsBy(f, step, n)
  <2> HIDE DEF step, n
  <2> QED
    BY <1>1, <1>2, StepsExist
<1>5. ASSUME NEW i \in 0 .. n
      PROVE  f[i] = IF i = 0 THEN s ELSE Apply(f[i - 1], edits[i])
  <2> HIDE DEF step
  <2>1. i # 0 => i \in 1 .. n /\ i - 1 \in 0 .. n /\ f[i - 1] \in Personal
    BY <1>1
  <2> QED
    BY <1>3, <1>4, <2>1 DEF StepsBy
<1>6. f = [i \in 0 .. n |-> IF i = 0 THEN s ELSE Apply(f[i - 1], edits[i])]
  BY <1>5
<1>7. PICK g : /\ g = [i \in 0 .. n |-> IF i = 0 THEN s ELSE Apply(g[i - 1], edits[i])]
               /\ ApplyAll(s, edits) = g[n]
  BY <1>6 DEF ApplyAll
<1> DEFINE T == {i \in 0 .. n : g[i] \in Personal /\ Touches(s, g[i], ToSet(edits))}
<1>8. 0 \in T
  BY <1>1, <1>7 DEF Touches
<1>9. ASSUME NEW i \in 0 .. n - 1, i \in T
      PROVE  i + 1 \in T
  <2>1. i + 1 \in 1 .. n /\ i + 1 # 0 /\ i + 1 - 1 = i /\ i + 1 \in 0 .. n
    BY <1>1
  <2>2. g[i + 1] = Apply(g[i], edits[i + 1])
    BY <1>7, <2>1
  <2>3. g[i] \in Personal /\ Touches(s, g[i], ToSet(edits))
    BY <1>9
  <2>4. edits[i + 1] \in Edit /\ edits[i + 1] \in ToSet(edits)
    BY <1>1, <2>1
  <2>5. Apply(g[i], edits[i + 1]) \in Personal
        /\ Touches(g[i], Apply(g[i], edits[i + 1]), {edits[i + 1]})
    BY <2>3, <2>4, ApplyType
  <2>6. Touches(s, Apply(g[i], edits[i + 1]), ToSet(edits))
    BY <2>3, <2>4, <2>5, TouchesMore
  <2> QED
    BY <2>1, <2>2, <2>5, <2>6
<1>10. \A i \in 0 .. n : i \in T
  <2> HIDE DEF T, n
  <2> QED
    BY <1>1, <1>8, <1>9, CountsUp
<1>11. n \in T
  BY <1>1, <1>10
<1> QED
  BY <1>7, <1>11

\* What is pushed onto a queue goes after what is there.
Extends(q, p, E) == /\ q \in Seq(Edit) /\ Len(p) <= Len(q)
                    /\ \A i \in 1 .. Len(p) : q[i] = p[i]
                    /\ ToSet(q) \subseteq ToSet(p) \cup E

LEMMA PushIs ==
    ASSUME NEW s, NEW p \in Seq(Edit), NEW q, NEW E, NEW e \in Edit, Extends(q, p, E), e \in E
    PROVE  Push(s, q, e) \in Seq(Edit) /\ Extends(Push(s, q, e), p, E)
PROOF
<1>1. q \in Seq(Edit) /\ Len(q) \in Nat /\ Len(p) \in Nat
  BY DEF Extends
<1>2. PICK r : r = Append(q, e)
  OBVIOUS
<1>3. r \in Seq(Edit) /\ Len(r) = Len(q) + 1 /\ \A i \in 1 .. Len(q) : r[i] = q[i]
  BY <1>1, <1>2
<1>4. r[Len(q) + 1] = e
  BY <1>1, <1>2
<1>5. ASSUME NEW x \in ToSet(r)
      PROVE  x \in ToSet(q) \cup {e}
  <2>1. PICK i \in 1 .. Len(r) : x = r[i]
    BY <1>3 DEF ToSet
  <2>2. CASE i = Len(q) + 1
    BY <1>4, <2>1, <2>2
  <2>3. CASE i # Len(q) + 1
    <3>1. i \in 1 .. Len(q) /\ x = q[i]
      BY <1>1, <1>3, <2>1, <2>3
    <3> QED
      BY <1>1, <3>1 DEF ToSet
  <2> QED
    BY <2>2, <2>3
<1>6. ToSet(r) \subseteq ToSet(p) \cup E
  BY <1>5 DEF Extends
<1>7. Len(p) <= Len(r) /\ \A i \in 1 .. Len(p) : r[i] = p[i]
  BY <1>1, <1>3 DEF Extends
<1>8. Extends(r, p, E)
  BY <1>3, <1>6, <1>7 DEF Extends
<1>9. Push(s, q, e) = q \/ Push(s, q, e) = r
  BY <1>2 DEF Push
<1> QED
  BY <1>1, <1>3, <1>8, <1>9

LEMMA PushedIs ==
    ASSUME NEW s, NEW queue \in Seq(Edit), NEW edits \in Seq(Edit)
    PROVE  Extends(Pushed(s, queue, edits), queue, ToSet(edits))
PROOF
<1> DEFINE n == Len(edits)
           Queues == {q \in Seq(Edit) : Extends(q, queue, ToSet(edits))}
           step == [x \in Queues \X (1 .. n) |-> Push(s, x[1], edits[x[2]])]
<1>1. n \in Nat /\ \A i \in 1 .. n : edits[i] \in Edit /\ edits[i] \in ToSet(edits)
  BY DEF ToSet
<1>2. queue \in Queues
  BY DEF Extends
<1>3. \A q \in Queues : \A i \in 1 .. n : Push(s, q, edits[i]) \in Queues
  BY <1>1, PushIs
<1>4. step \in [Queues \X (1 .. n) -> Queues]
  <2> HIDE DEF Queues
  <2> QED
    BY <1>3
<1>5. \A q \in Queues : \A i \in 1 .. n : step[<<q, i>>] = Push(s, q, edits[i])
  <2> HIDE DEF Queues
  <2> QED
    OBVIOUS
<1>6. PICK f \in [0 .. n -> Queues] : f[0] = queue /\ StepsBy(f, step, n)
  <2> HIDE DEF step, n, Queues
  <2> QED
    BY <1>1, <1>2, <1>4, StepsExist
<1> HIDE DEF step, Queues
<1>7. ASSUME NEW i \in 0 .. n
      PROVE  f[i] = IF i = 0 THEN queue ELSE Push(s, f[i - 1], edits[i])
  <2>1. i # 0 => i \in 1 .. n /\ i - 1 \in 0 .. n /\ f[i - 1] \in Queues
    BY <1>1
  <2> QED
    BY <1>5, <1>6, <2>1 DEF StepsBy
<1>8. f = [i \in 0 .. n |-> IF i = 0 THEN queue ELSE Push(s, f[i - 1], edits[i])]
  BY <1>7
<1>9. PICK g : /\ g = [i \in 0 .. n |-> IF i = 0 THEN queue ELSE Push(s, g[i - 1], edits[i])]
               /\ Pushed(s, queue, edits) = g[n]
  BY <1>8 DEF Pushed
<1> DEFINE T == {i \in 0 .. n : g[i] \in Queues}
<1>10. 0 \in T
  BY <1>1, <1>2, <1>9
<1>11. ASSUME NEW i \in 0 .. n - 1, i \in T
       PROVE  i + 1 \in T
  <2>1. i + 1 \in 1 .. n /\ i + 1 # 0 /\ i + 1 - 1 = i /\ i + 1 \in 0 .. n
    BY <1>1
  <2>2. g[i + 1] = Push(s, g[i], edits[i + 1])
    BY <1>9, <2>1
  <2> QED
    BY <1>3, <1>11, <2>1, <2>2
<1>12. \A i \in 0 .. n : i \in T
  <2> HIDE DEF T, n
  <2> QED
    BY <1>1, <1>10, <1>11, CountsUp
<1>13. g[n] \in Queues
  BY <1>1, <1>12
<1> QED
  BY <1>9, <1>13 DEF Queues

-----------------------------------------------------------------------------
(* What a write of the row, and a longer queue, leave true.                *)

\* The row is as it was, or has a new revision.
Moves(r, v, r2, v2) == r2 \in Personal /\ ((r2 = r /\ v2 = v) \/ v2 = v + 1)

LEMMA SeenLasts ==
    ASSUME NEW s, NEW r, NEW v \in Nat, NEW r2, NEW v2, Moves(r, v, r2, v2), Seen(s, r, v)
    PROVE  Seen(s, r2, v2)
PROOF BY DEF Seen, Moves

LEMMA SafeLasts ==
    ASSUME NEW m, NEW r, NEW v \in Nat, NEW r2, NEW v2, Moves(r, v, r2, v2), Safe(m, r, v)
    PROVE  Safe(m, r2, v2)
PROOF BY DEF Safe, Moves

LEMMA CallsLast ==
    ASSUME NEW c, NEW q, NEW r, NEW v \in Nat, NEW r2, NEW v2, Moves(r, v, r2, v2), Calls(c, q, r, v)
    PROVE  Calls(c, q, r2, v2)
PROOF
<1>1. ASSUME Answers(c, r, v)
      PROVE  Answers(c, r2, v2)
  BY <1>1, SeenLasts DEF Answers
<1>2. ASSUME Saves(c, q, r, v)
      PROVE  Saves(c, q, r2, v2)
  BY <1>2, SafeLasts DEF Saves
<1> QED
  BY <1>1, <1>2 DEF Calls

LEMMA CoveredIs ==
    ASSUME NEW q \in Seq(Edit), NEW n \in 0 .. Len(q)
    PROVE  /\ Covered(q, n) = {q[i] : i \in 1 .. n} /\ Covered(q, n) \subseteq ToSet(q)
           /\ Covered(q, n) \subseteq Edit
PROOF
<1>1. Len(q) \in Nat /\ ToSet(q) = {q[i] : i \in 1 .. Len(q)} /\ \A i \in 1 .. n : q[i] \in Edit
  BY DEF ToSet
<1>2. PICK s : s = SubSeq(q, 1, n)
  OBVIOUS
<1>3. s \in Seq(Edit) /\ Len(s) = n /\ \A i \in 1 .. n : s[i] = q[i]
  BY <1>1, <1>2
<1>4. DOMAIN s = 1 .. n
  BY <1>3
<1>5. Covered(q, n) = {q[i] : i \in 1 .. n}
  BY <1>2, <1>3, <1>4 DEF Covered, ToSet
<1> QED
  BY <1>1, <1>5

LEMMA CoveredAll ==
    ASSUME NEW q \in Seq(Edit)
    PROVE  Covered(q, Len(q)) = ToSet(q)
PROOF
<1>1. Len(q) \in 0 .. Len(q) /\ ToSet(q) = {q[i] : i \in 1 .. Len(q)}
  BY DEF ToSet
<1> QED
  BY <1>1, CoveredIs

LEMMA CoveredRest ==
    ASSUME NEW q \in Seq(Edit), NEW n \in 0 .. Len(q), NEW s, s = SubSeq(q, n + 1, Len(q))
    PROVE  s \in Seq(Edit) /\ ToSet(q) \subseteq Covered(q, n) \cup ToSet(s)
PROOF
<1>1. Len(q) \in Nat /\ ToSet(q) = {q[i] : i \in 1 .. Len(q)} /\ \A i \in 1 .. Len(q) : q[i] \in Edit
  BY DEF ToSet
<1>2. s \in Seq(Edit) /\ Len(s) = Len(q) - n /\ \A i \in 1 .. Len(q) - n : s[i] = q[n + i]
  BY <1>1
<1>3. ASSUME NEW i \in 1 .. Len(q), i \notin 1 .. n
      PROVE  q[i] \in ToSet(s)
  <2>1. i - n \in 1 .. Len(q) - n /\ n + (i - n) = i
    BY <1>1, <1>3
  <2>2. s[i - n] = q[i]
    BY <1>2, <2>1
  <2>3. i - n \in DOMAIN s
    BY <1>2, <2>1
  <2> QED
    BY <2>2, <2>3 DEF ToSet
<1>4. Covered(q, n) = {q[i] : i \in 1 .. n}
  BY CoveredIs
<1> QED
  BY <1>1, <1>2, <1>3, <1>4

LEMMA CoveredGrows ==
    ASSUME NEW p \in Seq(Edit), NEW q, NEW E, NEW n \in 0 .. Len(p), Extends(q, p, E)
    PROVE  Covered(q, n) = Covered(p, n) /\ ToSet(p) \subseteq ToSet(q)
PROOF
<1>1. q \in Seq(Edit) /\ n \in 0 .. Len(q) /\ Len(p) \in 0 .. Len(q) /\ \A i \in 1 .. Len(p) : q[i] = p[i]
  BY DEF Extends
<1>2. Covered(q, n) = {q[i] : i \in 1 .. n} /\ Covered(p, n) = {p[i] : i \in 1 .. n}
  BY <1>1, CoveredIs
<1>3. Covered(q, Len(p)) = {q[i] : i \in 1 .. Len(p)} /\ Covered(q, Len(p)) \subseteq ToSet(q)
  BY <1>1, CoveredIs
<1>4. ToSet(p) = {p[i] : i \in 1 .. Len(p)}
  BY DEF ToSet
<1> QED
  BY <1>1, <1>2, <1>3, <1>4

\* A request goes on standing for the edits it stood for while others are pushed.
LEMMA CallsGrow ==
    ASSUME NEW c, NEW p \in Seq(Edit), NEW q, NEW E, NEW r, NEW v, NEW kept, Extends(q, p, E),
           Calls(c, p, r, v), Covers(c, p, kept)
    PROVE  Calls(c, q, r, v) /\ Covers(c, q, kept)
PROOF
<1>1. Len(p) \in Nat /\ Len(q) \in Nat /\ Len(p) <= Len(q)
  BY DEF Extends
<1>2. c.kind \in {"save", "reload"} => c.count \in 0 .. Len(p) /\ c.count \in 0 .. Len(q)
  BY <1>1 DEF Covers
<1>3. c.kind = "save" => Covered(q, c.count) = Covered(p, c.count)
  BY <1>2, CoveredGrows
<1>4. Covers(c, q, kept)
  BY <1>2, <1>3 DEF Covers
<1>5. Saves(c, p, r, v) => Saves(c, q, r, v)
  BY <1>3 DEF Saves
<1> QED
  BY <1>4, <1>5 DEF Calls

\* A turn of drain() asks for what its edits make of the state last seen.
LEMMA DrainIs ==
    ASSUME NEW s, NEW r, NEW v \in Nat, NEW q \in Seq(Edit), NEW n \in 1 .. Len(q), NEW t, NEW c,
           NEW kept, Seen(s, r, v), t = SubSeq(q, 1, n), c = Drain(s, t)
    PROVE  /\ Calls(c, q, r, v) /\ Covers(c, q, kept) /\ c # Idle
           /\ c.kind = "save" /\ c.phase = "sent" /\ c.edits = Covered(q, n) /\ Safe(c, r, v)
PROOF
<1>1. t \in Seq(Edit) /\ Len(t) = n /\ t # <<>>
  OBVIOUS
<1>2. PICK b : b = ApplyAll(s.state, t)
  OBVIOUS
<1>3. ToSet(t) = Covered(q, n) /\ Covered(q, n) \subseteq Edit
  <2>1. n \in 0 .. Len(q)
    OBVIOUS
  <2> QED
    BY <2>1, CoveredIs DEF Covered
<1>4. b \in Personal /\ Touches(s.state, b, Covered(q, n))
  BY <1>1, <1>2, <1>3, ApplyAllIs DEF Seen
<1>5. c = [kind |-> "save", phase |-> "sent", count |-> n, rev |-> s.rev, body |-> b,
           edits |-> Covered(q, n)]
  BY <1>1, <1>2, <1>3 DEF Drain
<1>6. /\ c.kind = "save" /\ c.phase = "sent" /\ c.count = n /\ c.rev = s.rev /\ c.body = b
      /\ c.edits = Covered(q, n)
  BY <1>5
<1>7. Safe(c, r, v)
  BY <1>3, <1>4, <1>6 DEF Safe, Seen
<1>8. Saves(c, q, r, v)
  BY <1>3, <1>5, <1>6, <1>7 DEF Saves
<1>9. c # Idle
  BY <1>6 DEF Idle
<1>10. Covers(c, q, kept)
  BY <1>6 DEF Covers
<1> QED
  BY <1>6, <1>7, <1>8, <1>9, <1>10 DEF Calls

LEMMA DrainNone ==
    ASSUME NEW s, NEW r, NEW v, NEW q, NEW kept
    PROVE  /\ Drain(s, <<>>) = Idle /\ Idle.kind = "none"
           /\ Calls(Idle, q, r, v) /\ Covers(Idle, q, kept)
PROOF BY DEF Drain, Idle, Calls, Covers

-----------------------------------------------------------------------------
(* The steps.                                                              *)

\* The view of d is untouched.
SameView(d) ==
    /\ stage'[d] = stage[d] /\ srv'[d] = srv[d] /\ pending'[d] = pending[d]
    /\ deferred'[d] = deferred[d] /\ call'[d] = call[d] /\ broken'[d] = broken[d]
    /\ saveStatus'[d] = saveStatus[d] /\ owed'[d] = owed[d]

\* The row moves on and nothing stored is taken back.
RowMoves == Moves(row, revision, row', revision') /\ stored \subseteq stored'

LEMMA StillMoves ==
    ASSUME QueueInv, UNCHANGED <<row, revision, stored>>
    PROVE  RowMoves
PROOF BY DEF QueueInv, QueueTypes, RowMoves, Moves

LEMMA OthersKeep ==
    ASSUME QueueInv, RowMoves, NEW d \in Device, SameView(d)
    PROVE  DeviceOK(d)'
PROOF
<1>1. revision \in Nat /\ DeviceOK(d)
  BY DEF QueueInv, QueueTypes
<1>2. Calls(call'[d], pending'[d], row', revision')
  BY <1>1, CallsLast DEF RowMoves, SameView, DeviceOK
<1>3. Seen(srv'[d], row', revision')
  BY <1>1, SeenLasts DEF RowMoves, SameView, DeviceOK
<1>4. Covers(call'[d], pending'[d], stored')
  BY <1>1 DEF Covers, RowMoves, SameView, DeviceOK
<1>5. Places(d)'
  BY <1>1 DEF Places, SameView, DeviceOK
<1>6. owed'[d] \subseteq stored' \cup Held(d)'
  BY <1>1 DEF Held, RowMoves, SameView, DeviceOK
<1> QED
  BY <1>2, <1>3, <1>4, <1>5, <1>6 DEF DeviceOK

\* A step of the view of d alone.
LEMMA OneView ==
    ASSUME QueueInv, RowMoves, NEW d \in Device, \A e \in Device \ {d} : SameView(e), DeviceOK(d)'
    PROVE  \A e \in Device : DeviceOK(e)'
PROOF BY OthersKeep

LEMMA LateKeep ==
    ASSUME QueueInv, RowMoves, \A m \in late' : m \in late \/ Safe(m, row', revision')
    PROVE  LateOK'
PROOF
<1>1. revision \in Nat /\ \A m \in late : Safe(m, row, revision)
  BY DEF QueueInv, QueueTypes, LateOK
<1> QED
  BY <1>1, SafeLasts DEF RowMoves, LateOK

\* An answer carries the row.
LEMMA RowSeen ==
    ASSUME QueueInv
    PROVE  Seen([state |-> row, rev |-> revision], row, revision)
PROOF BY DEF QueueInv, QueueTypes, Seen

LEMMA ServerReadKeeps ==
    ASSUME QueueInv, NEW d \in Device, ServerRead(d)
    PROVE  QueueInv'
PROOF
<1>1. RowMoves
  BY StillMoves DEF ServerRead, server
<1>2. QueueTypes'
  BY DEF QueueInv, QueueTypes, ServerRead, server
<1>3. LateOK'
  BY <1>1, LateKeep DEF ServerRead, server
<1>4. \A e \in Device \ {d} : SameView(e)
  BY DEF QueueInv, QueueTypes, ServerRead, SameView
<1>5. DeviceOK(d)'
  <2>1. PICK c : c = call[d]
    OBVIOUS
  <2>2. PICK g : g = [state |-> row, rev |-> revision]
    OBVIOUS
  <2>3. PICK b : b = [kind |-> c.kind, phase |-> "answered", count |-> c.count, got |-> g]
    OBVIOUS
  <2>4. call'[d] = b
    BY <2>1, <2>2, <2>3 DEF QueueInv, QueueTypes, ServerRead
  <2>5. /\ c.kind \in Loads \/ (c.kind = "save" /\ c.phase = "committed")
        /\ c.kind \in Loads \cup {"save"}
    BY <2>1 DEF ServerRead, Loads
  <2>6. b.kind = c.kind /\ b.phase = "answered" /\ b.count = c.count /\ b.got = g
    BY <2>3
  <2>7. Answers(b, row, revision)
    BY <2>2, <2>3, <2>5, <2>6, RowSeen DEF Answers
  <2>8. DeviceOK(d)
    BY DEF QueueInv
  <2>9. Calls(call'[d], pending'[d], row', revision')
    BY <2>4, <2>7 DEF Calls, ServerRead, server
  <2>10. Covers(b, pending[d], stored)
    <3>1. Covers(c, pending[d], stored)
      BY <2>1, <2>8 DEF DeviceOK
    <3> QED
      BY <2>5, <2>6, <3>1 DEF Covers, Loads
  <2>11. b # Idle /\ c # Idle
    BY <2>5, <2>6 DEF Idle, Loads
  <2>12. Places(d)'
    BY <2>1, <2>4, <2>6, <2>8, <2>11 DEF Places, DeviceOK, ServerRead
  <2> QED
    BY <2>4, <2>8, <2>9, <2>10, <2>12 DEF DeviceOK, ServerRead, server, Held
<1> QED
  BY <1>1, <1>2, <1>3, <1>4, <1>5, OneView DEF QueueInv

\* What a commit writes changes only what its edits are for.
LEMMA CommitIs ==
    ASSUME QueueInv, NEW m, Safe(m, row, revision), Accepts(m.rev), Commit(m.body, m.edits)
    PROVE  RowMoves /\ WritesOwn /\ stored' = stored \cup m.edits /\ stored' \subseteq Edit
           /\ row' \in Personal /\ revision' \in Nat
PROOF
<1>1. Touches(row, row', m.edits) /\ wrote' = m.edits
  BY DEF Safe, Accepts, Commit
<1>2. WritesOwn
  BY <1>1 DEF Touches, WritesOwn
<1> QED
  BY <1>2 DEF QueueInv, QueueTypes, Safe, Commit, RowMoves, Moves

LEMMA ServerSaveKeeps ==
    ASSUME QueueInv, NEW d \in Device, ServerSave(d)
    PROVE  QueueInv' /\ WritesOwn
PROOF
<1>1. PICK c : c = call[d]
  OBVIOUS
<1>2. /\ c.kind = "save" /\ c.phase = "sent"
      /\ Calls(c, pending[d], row, revision) /\ Covers(c, pending[d], stored)
  BY <1>1 DEF ServerSave, QueueInv, DeviceOK
<1>3. Saves(c, pending[d], row, revision) /\ Safe(c, row, revision)
  BY <1>2 DEF Calls, Asks, Answers, Saves, Idle, Loads
<1>4. \A e \in Device \ {d} : SameView(e)
  BY DEF QueueInv, QueueTypes, ServerSave, SameView
<1>5. PICK phase \in {"committed", "refused"} : phase = IF Accepts(c.rev) THEN "committed" ELSE "refused"
  OBVIOUS
<1>6. PICK b : b = [kind |-> "save", phase |-> phase, count |-> c.count, rev |-> c.rev,
                    body |-> c.body, edits |-> c.edits]
  OBVIOUS
<1>7. /\ b.kind = "save" /\ b.phase = phase /\ b.count = c.count /\ b.rev = c.rev
      /\ b.body = c.body /\ b.edits = c.edits
  BY <1>6
<1>8. call'[d] = b
  <2>1. [c EXCEPT !.phase = phase] = b
    BY <1>3, <1>6 DEF Saves
  <2>2. call'[d] = [c EXCEPT !.phase = phase]
    BY <1>1, <1>5 DEF QueueInv, QueueTypes, ServerSave
  <2> QED
    BY <2>1, <2>2
<1>9. /\ RowMoves /\ WritesOwn /\ stored' \subseteq Edit /\ row' \in Personal /\ revision' \in Nat
      /\ phase = "committed" => c.edits \subseteq stored'
  <2>1. CASE Accepts(c.rev)
    <3>1. Commit(c.body, c.edits)
      BY <1>1, <2>1 DEF ServerSave
    <3> QED
      BY <1>3, <2>1, <3>1, CommitIs
  <2>2. CASE ~Accepts(c.rev)
    <3>1. UNCHANGED <<row, revision, stored, wrote>> /\ phase = "refused"
      BY <1>1, <1>5, <2>2 DEF ServerSave
    <3>2. RowMoves
      BY <3>1, StillMoves
    <3> QED
      BY <3>1, <3>2 DEF WritesOwn, QueueInv, QueueTypes
  <2> QED
    BY <2>1, <2>2
<1>10. QueueTypes'
  <2>1. call' = [e \in Device |-> call'[e]]
    BY DEF QueueInv, QueueTypes, ServerSave
  <2> QED
    BY <1>9, <2>1 DEF QueueInv, QueueTypes, ServerSave
<1>11. LateOK'
  BY <1>9, LateKeep DEF ServerSave
<1>12. DeviceOK(d)'
  <2>1. DeviceOK(d) /\ revision \in Nat
    BY DEF QueueInv, QueueTypes
  <2>2. Saves(b, pending[d], row', revision')
    BY <1>3, <1>5, <1>6, <1>7 DEF Saves
  <2>3. Covers(b, pending[d], stored')
    BY <1>2, <1>3, <1>7, <1>9 DEF Covers, Saves
  <2>4. b # Idle /\ c # Idle
    BY <1>2, <1>7 DEF Idle
  <2>5. Places(d)'
    BY <1>1, <1>2, <1>7, <1>8, <2>1, <2>4 DEF Places, DeviceOK, ServerSave
  <2>6. Seen(srv'[d], row', revision')
    BY <1>9, <2>1, SeenLasts DEF DeviceOK, ServerSave, RowMoves
  <2> QED
    BY <1>8, <1>9, <2>1, <2>2, <2>3, <2>5, <2>6 DEF DeviceOK, ServerSave, Held, Calls, RowMoves
<1> QED
  BY <1>4, <1>9, <1>10, <1>11, <1>12, OneView DEF QueueInv

LEMMA LateSaveKeeps ==
    ASSUME QueueInv, LateSave
    PROVE  QueueInv' /\ WritesOwn
PROOF
<1>1. PICK m \in late : /\ late' = late \ {m}
                        /\ IF Accepts(m.rev) THEN Commit(m.body, m.edits)
                           ELSE UNCHANGED <<row, revision, stored, wrote>>
                        /\ UNCHANGED <<stage, srv, pending, deferred, call, broken, saveStatus, nav,
                                       stamp, failures, opens, owed>>
  BY DEF LateSave
<1>2. Safe(m, row, revision)
  BY DEF QueueInv, LateOK
<1>3. /\ RowMoves /\ WritesOwn /\ stored' \subseteq Edit /\ row' \in Personal /\ revision' \in Nat
  <2>1. CASE Accepts(m.rev)
    BY <1>1, <1>2, <2>1, CommitIs
  <2>2. CASE ~Accepts(m.rev)
    <3>1. UNCHANGED <<row, revision, stored, wrote>>
      BY <1>1, <2>2
    <3>2. RowMoves
      BY <3>1, StillMoves
    <3> QED
      BY <3>1, <3>2 DEF WritesOwn, QueueInv, QueueTypes
  <2> QED
    BY <2>1, <2>2
<1>4. QueueTypes'
  BY <1>1, <1>3 DEF QueueInv, QueueTypes
<1>5. LateOK'
  BY <1>1, <1>3, LateKeep
<1>6. \A e \in Device : SameView(e)
  BY <1>1 DEF SameView
<1>7. \A e \in Device : DeviceOK(e)'
  BY <1>3, <1>6, OthersKeep
<1> QED
  BY <1>3, <1>4, <1>5, <1>7 DEF QueueInv

\* A request just sent, which is not a save, covers as many edits as the queue has.
LEMMA LoadIs ==
    ASSUME NEW kind \in Loads, NEW q \in Seq(Edit), NEW n \in 0 .. Len(q), NEW c, c = Load(kind, n),
           NEW r, NEW v, NEW kept
    PROVE  Calls(c, q, r, v) /\ Covers(c, q, kept) /\ c # Idle /\ c.kind = kind
PROOF
<1>1. c.kind = kind /\ c.phase = "sent" /\ c.count = n /\ c = [kind |-> kind, phase |-> "sent", count |-> n]
  BY DEF Load
<1>2. Asks(c)
  BY <1>1 DEF Asks
<1>3. c # Idle
  BY <1>1 DEF Idle, Loads
<1>4. Covers(c, q, kept)
  BY <1>1 DEF Covers, Loads
<1> QED
  BY <1>1, <1>2, <1>3, <1>4 DEF Calls

LEMMA OpenKeeps ==
    ASSUME QueueInv, NEW d \in Device, Open(d)
    PROVE  QueueInv'
PROOF
<1>1. RowMoves
  BY StillMoves DEF Open, server
<1>2. QueueTypes'
  BY DEF QueueInv, QueueTypes, Open, server
<1>3. LateOK'
  BY <1>1, LateKeep DEF Open, server
<1>4. \A e \in Device \ {d} : SameView(e)
  BY DEF QueueInv, QueueTypes, Open, SameView
<1>5. DeviceOK(d)'
  <2>1. PICK c : c = Load("open", 0)
    OBVIOUS
  <2>2. call'[d] = c /\ stage'[d] = "loading"
    BY <2>1 DEF QueueInv, QueueTypes, Open
  <2>3. DeviceOK(d) /\ pending[d] \in Seq(Edit) /\ 0 \in 0 .. Len(pending[d])
    BY DEF QueueInv, QueueTypes
  <2>4. /\ Calls(c, pending[d], row, revision) /\ Covers(c, pending[d], stored)
        /\ c # Idle /\ c.kind = "open"
    BY <2>1, <2>3, LoadIs DEF Loads
  <2>5. Places(d)'
    BY <2>2, <2>3, <2>4 DEF Places, DeviceOK, Open
  <2> QED
    BY <2>2, <2>3, <2>4, <2>5 DEF DeviceOK, Open, server, Held
<1> QED
  BY <1>1, <1>2, <1>3, <1>4, <1>5, OneView DEF QueueInv

\* An answer that has come.
LEMMA AnswerSeen ==
    ASSUME QueueInv, NEW d \in Device, call[d] # Idle, call[d].phase = "answered"
    PROVE  /\ Seen(call[d].got, row, revision) /\ call[d].got \in [state : Personal, rev : Nat]
           /\ stage[d] \in {"loading", "open"} /\ (call[d].kind # "open" => stage[d] = "open")
PROOF
<1>1. DeviceOK(d) /\ revision \in Nat /\ stage[d] \in {"closed", "loading", "failed", "open"}
  BY DEF QueueInv, QueueTypes
<1>2. Answers(call[d], row, revision)
  BY <1>1 DEF DeviceOK, Calls, Asks, Saves
<1> QED
  BY <1>1, <1>2 DEF Answers, Seen, DeviceOK, Places

LEMMA OpenedKeeps ==
    ASSUME QueueInv, NEW d \in Device, Opened(d)
    PROVE  QueueInv'
PROOF
<1>1. RowMoves
  BY StillMoves DEF Opened, server
<1>2. call[d] # Idle /\ DeviceOK(d)
  BY DEF Opened, Idle, QueueInv
<1>3. Seen(call[d].got, row, revision) /\ call[d].got \in [state : Personal, rev : Nat]
  BY <1>2, AnswerSeen DEF Opened
<1>4. QueueTypes'
  BY <1>3 DEF QueueInv, QueueTypes, Opened, server
<1>5. LateOK'
  BY <1>1, LateKeep DEF Opened, server
<1>6. \A e \in Device \ {d} : SameView(e)
  BY DEF QueueInv, QueueTypes, Opened, SameView
<1>7. DeviceOK(d)'
  <2>1. /\ call'[d] = Idle /\ stage'[d] = "open" /\ srv'[d] = call[d].got /\ owed'[d] = {}
        /\ pending'[d] = pending[d] /\ deferred'[d] = deferred[d]
    BY DEF QueueInv, QueueTypes, Opened
  <2>2. pending[d] = <<>>
    BY <1>2 DEF DeviceOK, Places, Opened
  <2>3. Places(d)'
    BY <2>1, <2>2, DrainNone DEF Places
  <2> QED
    BY <1>3, <2>1, <2>3, DrainNone DEF DeviceOK, Opened, server, Held
<1> QED
  BY <1>1, <1>4, <1>5, <1>6, <1>7, OneView DEF QueueInv

LEMMA TurnPageKeeps ==
    ASSUME QueueInv, NEW d \in Device, TurnPage(d)
    PROVE  QueueInv'
PROOF
<1>1. RowMoves
  BY StillMoves DEF TurnPage, server
<1>2. PICK p \in StopAt :
        /\ owed' = [owed EXCEPT ![d] = (@ \ ToSet(deferred[d])) \cup {NewEdit(d, "page", p, FALSE)}]
        /\ deferred' = [deferred EXCEPT ![d] = <<NewEdit(d, "page", p, FALSE)>>]
  BY DEF TurnPage
<1>3. PICK e : e = NewEdit(d, "page", p, FALSE)
  OBVIOUS
<1>4. stamp + 1 \in 1 .. MaxEdits
  BY ProgressAssumption DEF TurnPage, QueueInv, QueueTypes
<1>5. e \in Edit
  BY <1>3, <1>4 DEF NewEdit, Edit
<1>6. QueueTypes'
  <2>1. deferred' \in [Device -> Seq(Edit)] /\ \A x \in Device : Len(deferred'[x]) <= 1
    <3>1. PICK q : q = <<e>>
      OBVIOUS
    <3>2. q \in Seq(Edit) /\ Len(q) = 1
      BY <1>5, <3>1
    <3>3. deferred' = [deferred EXCEPT ![d] = q]
      BY <1>2, <1>3, <3>1
    <3>4. deferred \in [Device -> Seq(Edit)] /\ \A x \in Device : Len(deferred[x]) <= 1
      BY DEF QueueInv, QueueTypes
    <3>5. \A x \in Device : deferred'[x] = IF x = d THEN q ELSE deferred[x]
      BY <3>3, <3>4
    <3>6. deferred' \in [Device -> Seq(Edit)]
      BY <3>2, <3>3, <3>4
    <3>7. ASSUME NEW x \in Device
          PROVE  Len(deferred'[x]) <= 1
      <4>1. x = d => deferred'[x] = q
        BY <3>5
      <4>2. x # d => deferred'[x] = deferred[x]
        BY <3>5
      <4>3. Len(deferred[x]) <= 1 /\ Len(q) <= 1
        BY <3>2, <3>4
      <4> QED
        BY <4>1, <4>2, <4>3
    <3> QED
      BY <3>6, <3>7
  <2>2. owed' \in [Device -> SUBSET Edit]
    BY <1>2, <1>3, <1>5 DEF QueueInv, QueueTypes
  <2>3. stamp' \in 0 .. MaxEdits
    BY <1>4 DEF TurnPage
  <2>4. UNCHANGED <<row, revision, stored, stage, srv, pending, call, broken, saveStatus, nav>>
    BY DEF TurnPage, server
  <2> QED
    BY <2>1, <2>2, <2>3, <2>4 DEF QueueInv, QueueTypes
<1>7. LateOK'
  BY <1>1, LateKeep DEF TurnPage, server
<1>8. \A x \in Device \ {d} : SameView(x)
  BY <1>2 DEF QueueInv, QueueTypes, TurnPage, SameView
<1>9. DeviceOK(d)'
  <2>1. DeviceOK(d) /\ stage[d] = "open" /\ call'[d] = call[d]
    BY DEF QueueInv, TurnPage
  <2>2. owed'[d] = (owed[d] \ ToSet(deferred[d])) \cup {e} /\ deferred'[d] = <<e>>
    BY <1>2, <1>3 DEF QueueInv, QueueTypes
  <2>3. e \in ToSet(<<e>>)
    BY DEF ToSet
  <2>4. Places(d)'
    BY <2>1 DEF Places, DeviceOK, TurnPage
  <2>5. owed'[d] \subseteq stored \cup Held(d)'
    BY <2>1, <2>2, <2>3 DEF DeviceOK, Held, TurnPage
  <2> QED
    BY <2>1, <2>4, <2>5 DEF DeviceOK, TurnPage, server
<1> QED
  BY <1>1, <1>6, <1>7, <1>8, <1>9, OneView DEF QueueInv

\* commitDeferred and apply, in a step that leaves the rest of the view as it is.
LEMMA SubmitKeeps ==
    ASSUME QueueInv, NEW d \in Device, NEW edits \in Seq(Edit), Submit(d, edits), stage[d] = "open",
           UNCHANGED <<server, stage, srv, broken>>, stamp' \in 0 .. MaxEdits,
           nav' \in [Device -> {"here", "asked", "allowed"}]
    PROVE  QueueInv'
PROOF
<1> DEFINE types == /\ stage \in [Device -> {"closed", "loading", "failed", "open"}]
                    /\ pending \in [Device -> Seq(Edit)] /\ deferred \in [Device -> Seq(Edit)]
                    /\ call = [x \in Device |-> call[x]]
                    /\ saveStatus \in [Device -> {"saved", "saving", "error"}]
                    /\ owed \in [Device -> SUBSET Edit]
<1>1. RowMoves
  BY StillMoves DEF server
<1>2. types /\ revision \in Nat /\ DeviceOK(d)
  BY DEF QueueInv, QueueTypes
<1>3. PICK p : p = pending[d]
  OBVIOUS
<1>4. PICK q : q = Pushed(srv[d].state, p, edits)
  OBVIOUS
<1>5. PICK c : c = IF Len(q) > Len(p) /\ call[d] = Idle /\ ~broken[d]
                   THEN Drain(srv[d], SubSeq(q, 1, Len(p) + 1)) ELSE call[d]
  OBVIOUS
<1>6. p \in Seq(Edit) /\ Extends(q, p, ToSet(edits))
  BY <1>2, <1>3, <1>4, PushedIs
<1>7. /\ q \in Seq(Edit) /\ Len(p) \in Nat /\ Len(q) \in Nat /\ Len(p) <= Len(q)
      /\ ToSet(p) \subseteq ToSet(q)
  <2>1. Len(p) \in 0 .. Len(p)
    BY <1>6
  <2>2. ToSet(p) \subseteq ToSet(q)
    BY <1>6, <2>1, CoveredGrows
  <2> QED
    BY <1>6, <2>2 DEF Extends
<1>8. ToSet(edits) \subseteq Edit
  BY DEF ToSet
<1>9. /\ pending' = [pending EXCEPT ![d] = q] /\ deferred' = [deferred EXCEPT ![d] = <<>>]
      /\ owed' = [owed EXCEPT ![d] = (@ \ ToSet(deferred[d])) \cup {e \in ToSet(edits) : e \in ToSet(q)}]
      /\ saveStatus' = [saveStatus EXCEPT ![d] = IF Len(q) = Len(p) THEN @
                                                 ELSE IF broken[d] THEN "error" ELSE "saving"]
  BY <1>3, <1>4 DEF Submit
<1>10. call' = [call EXCEPT ![d] = c]
  BY <1>3, <1>4, <1>5 DEF Submit
<1>11. /\ pending'[d] = q /\ deferred'[d] = <<>> /\ call'[d] = c
       /\ owed'[d] = (owed[d] \ ToSet(deferred[d])) \cup {e \in ToSet(edits) : e \in ToSet(q)}
       /\ saveStatus'[d] = IF Len(q) = Len(p) THEN saveStatus[d]
                           ELSE IF broken[d] THEN "error" ELSE "saving"
  BY <1>2, <1>9, <1>10
<1>12. QueueTypes'
  <2>1. pending' \in [Device -> Seq(Edit)]
    BY <1>2, <1>7, <1>9
  <2>2. deferred' \in [Device -> Seq(Edit)] /\ \A x \in Device : Len(deferred'[x]) <= 1
    <3>1. \A x \in Device : Len(deferred[x]) <= 1
      BY DEF QueueInv, QueueTypes
    <3> QED
      BY <1>2, <1>9, <3>1
  <2>3. owed' \in [Device -> SUBSET Edit]
    BY <1>2, <1>8, <1>9
  <2>4. saveStatus' \in [Device -> {"saved", "saving", "error"}]
    BY <1>2, <1>9
  <2>5. call' = [x \in Device |-> call'[x]]
    BY <1>2, <1>10
  <2> QED
    BY <2>1, <2>2, <2>3, <2>4, <2>5 DEF QueueInv, QueueTypes, server
<1>13. LateOK'
  BY <1>1, LateKeep DEF server
<1>14. \A x \in Device \ {d} : SameView(x)
  BY <1>2, <1>9, <1>10 DEF SameView
<1>15. DeviceOK(d)'
  <2>1. Calls(c, q, row, revision) /\ Covers(c, q, stored) /\ c.kind # "open" /\ (Len(q) > Len(p) => c # Idle \/ broken[d])
    <3>1. CASE Len(q) > Len(p) /\ call[d] = Idle /\ ~broken[d]
      <4>1. PICK n : n = Len(p) + 1
        OBVIOUS
      <4>2. PICK t : t = SubSeq(q, 1, n)
        OBVIOUS
      <4>3. PICK s : s = srv[d]
        OBVIOUS
      <4>4. n \in 1 .. Len(q) /\ c = Drain(s, t)
        BY <1>5, <1>7, <3>1, <4>1, <4>2, <4>3
      <4>5. Seen(s, row, revision)
        BY <1>2, <4>3 DEF DeviceOK
      <4>6. revision \in Nat /\ q \in Seq(Edit)
        BY <1>2, <1>7
      <4>7. Calls(c, q, row, revision) /\ Covers(c, q, stored) /\ c # Idle /\ c.kind = "save"
        BY <4>2, <4>4, <4>5, <4>6, DrainIs
      <4> QED
        BY <4>7
    <3>2. CASE ~(Len(q) > Len(p) /\ call[d] = Idle /\ ~broken[d])
      <4>1. c = call[d]
        BY <1>5, <3>2
      <4>2. Calls(c, p, row, revision) /\ Covers(c, p, stored) /\ c.kind # "open"
        BY <1>2, <1>3, <4>1 DEF DeviceOK, Places
      <4>3. Calls(c, q, row, revision) /\ Covers(c, q, stored)
        BY <1>6, <4>2, CallsGrow
      <4> QED
        BY <3>2, <4>1, <4>2, <4>3
    <3> QED
      BY <3>1, <3>2
  <2>2. Len(q) = Len(p) => (p = <<>> => q = <<>>)
    BY <1>6, <1>7
  <2>3. c = Idle /\ ~broken[d] => q = <<>>
    <3>1. SUFFICES ASSUME c = Idle, ~broken[d]
                   PROVE  q = <<>>
      OBVIOUS
    <3>2. Len(q) = Len(p) /\ call[d] = Idle
      BY <1>5, <1>7, <2>1, <3>1
    <3>3. p = <<>>
      BY <1>2, <1>3, <3>1, <3>2 DEF DeviceOK, Places
    <3> QED
      BY <2>2, <3>2, <3>3
  <2>4. saveStatus'[d] = "saved" => q = <<>>
    <3>1. SUFFICES ASSUME saveStatus'[d] = "saved"
                   PROVE  q = <<>>
      OBVIOUS
    <3>2. Len(q) = Len(p) /\ saveStatus[d] = "saved"
      BY <1>11, <3>1
    <3>3. p = <<>>
      BY <1>2, <1>3, <3>2 DEF DeviceOK, Places
    <3> QED
      BY <2>2, <3>2, <3>3
  <2>5. Places(d)'
    BY <1>11, <2>1, <2>3, <2>4 DEF Places
  <2>6. owed'[d] \subseteq stored \cup Held(d)'
    BY <1>2, <1>3, <1>7, <1>11 DEF DeviceOK, Held
  <2> QED
    BY <1>2, <1>11, <2>1, <2>5, <2>6 DEF DeviceOK, server
<1> QED
  BY <1>1, <1>12, <1>13, <1>14, <1>15, OneView DEF QueueInv

\* The edit of a page turned or a rating given is well formed, and so is it after the one that waits.
LEMMA EditIs ==
    ASSUME QueueInv, NEW d \in Device, stamp < MaxEdits,
           NEW field, NEW value, NEW final, NEW e, e = NewEdit(d, field, value, final),
           \/ field = "rating" /\ value \in Score /\ final = FALSE
           \/ field = "page" /\ value \in StopAt /\ final \in BOOLEAN
    PROVE  Append(deferred[d], e) \in Seq(Edit)
PROOF
<1>1. stamp + 1 \in 1 .. MaxEdits /\ deferred[d] \in Seq(Edit)
  BY ProgressAssumption DEF QueueInv, QueueTypes
<1>2. e \in Edit
  BY <1>1 DEF NewEdit, Edit
<1> QED
  BY <1>1, <1>2

LEMMA EditNowKeeps ==
    ASSUME QueueInv, NEW d \in Device, EditNow(d)
    PROVE  QueueInv'
PROOF
<1>1. PICK edits \in Seq(Edit) : Submit(d, edits)
  <2>1. stamp < MaxEdits
    BY DEF EditNow
  <2>2. CASE \E s \in Score : Submit(d, Append(deferred[d], NewEdit(d, "rating", s, FALSE)))
    <3>1. PICK s \in Score : Submit(d, Append(deferred[d], NewEdit(d, "rating", s, FALSE)))
      BY <2>2
    <3>2. PICK field, final, e : field = "rating" /\ final = FALSE /\ e = NewEdit(d, field, s, final)
      OBVIOUS
    <3>3. Append(deferred[d], e) \in Seq(Edit)
      BY <2>1, <3>2, EditIs
    <3> QED
      BY <3>1, <3>2, <3>3
  <2>3. CASE \E p \in StopAt : Submit(d, Append(deferred[d], NewEdit(d, "page", p, TRUE)))
    <3>1. PICK p \in StopAt : Submit(d, Append(deferred[d], NewEdit(d, "page", p, TRUE)))
      BY <2>3
    <3>2. PICK field, final, e : field = "page" /\ final = TRUE /\ e = NewEdit(d, field, p, final)
      OBVIOUS
    <3>3. Append(deferred[d], e) \in Seq(Edit)
      BY <2>1, <3>2, EditIs
    <3> QED
      BY <3>1, <3>2, <3>3
  <2> QED
    BY <2>2, <2>3 DEF EditNow
<1>2. /\ stage[d] = "open" /\ UNCHANGED <<server, stage, srv, broken>> /\ stamp' \in 0 .. MaxEdits
      /\ nav' \in [Device -> {"here", "asked", "allowed"}]
  BY ProgressAssumption DEF EditNow, QueueInv, QueueTypes
<1> QED
  BY <1>1, <1>2, SubmitKeeps

LEMMA CommitDeferredKeeps ==
    ASSUME QueueInv, NEW d \in Device, CommitDeferred(d)
    PROVE  QueueInv'
PROOF
<1>1. /\ stage[d] = "open" /\ UNCHANGED <<server, stage, srv, broken>> /\ stamp' \in 0 .. MaxEdits
      /\ nav' \in [Device -> {"here", "asked", "allowed"}]
  BY DEF CommitDeferred, QueueInv, QueueTypes
<1>2. deferred[d] \in Seq(Edit) /\ Submit(d, deferred[d])
  BY DEF CommitDeferred, QueueInv, QueueTypes
<1> QED
  BY <1>1, <1>2, SubmitKeeps

LEMMA LeaveKeeps ==
    ASSUME QueueInv, NEW d \in Device, Leave(d)
    PROVE  QueueInv'
PROOF
<1>1. /\ stage[d] = "open" /\ UNCHANGED <<server, stage, srv, broken>> /\ stamp' \in 0 .. MaxEdits
      /\ nav' \in [Device -> {"here", "asked", "allowed"}]
  BY DEF Leave, QueueInv, QueueTypes
<1>2. deferred[d] \in Seq(Edit) /\ Submit(d, deferred[d])
  BY DEF Leave, QueueInv, QueueTypes
<1> QED
  BY <1>1, <1>2, SubmitKeeps

\* The queue goes on with what is left, the answer being what the server has now or had.
LEMMA ContinueKeeps ==
    ASSUME QueueInv, NEW d \in Device, NEW queue \in Seq(Edit), Continue(d, queue), call[d] # Idle,
           call[d].phase = "answered", call[d].kind # "open",
           UNCHANGED <<server, stage, deferred, nav, stamp>>,
           owed' \in [Device -> SUBSET Edit], \A e \in Device \ {d} : owed'[e] = owed[e],
           owed'[d] \subseteq stored \cup ToSet(queue) \cup ToSet(deferred[d])
    PROVE  QueueInv'
PROOF
<1>1. RowMoves
  BY StillMoves DEF server
<1>2. PICK g : g = call[d].got
  OBVIOUS
<1>3. Seen(g, row, revision) /\ g \in [state : Personal, rev : Nat] /\ stage[d] = "open"
  BY <1>2, AnswerSeen
<1>4. srv' = [srv EXCEPT ![d] = g] /\ srv \in [Device -> [state : Personal, rev : Nat]]
  BY <1>2 DEF Continue, QueueInv, QueueTypes
<1>5. srv'[d] = g
  BY <1>4
<1>6. PICK c : c = Drain(g, queue)
  OBVIOUS
<1>7. call' = [call EXCEPT ![d] = c] /\ call = [x \in Device |-> call[x]]
  BY <1>5, <1>6 DEF Continue, QueueInv, QueueTypes
<1>8. QueueTypes'
  <2>1. srv' \in [Device -> [state : Personal, rev : Nat]]
    BY <1>3, <1>4
  <2>2. call' = [x \in Device |-> call'[x]]
    BY <1>7
  <2>3. /\ pending' \in [Device -> Seq(Edit)] /\ broken' \in [Device -> BOOLEAN]
        /\ saveStatus' \in [Device -> {"saved", "saving", "error"}]
    BY DEF Continue, QueueInv, QueueTypes
  <2> QED
    BY <2>1, <2>2, <2>3 DEF QueueInv, QueueTypes, server
<1>9. LateOK'
  BY <1>1, LateKeep DEF server
<1>10. \A e \in Device \ {d} : SameView(e)
  BY <1>4, <1>7 DEF QueueInv, QueueTypes, Continue, SameView
<1>11. DeviceOK(d)'
  <2>1. /\ call'[d] = c /\ pending'[d] = queue /\ broken'[d] = FALSE /\ stage'[d] = "open"
        /\ deferred'[d] = deferred[d]
        /\ saveStatus'[d] = IF queue = <<>> THEN "saved" ELSE "saving"
    BY <1>3, <1>7 DEF QueueInv, QueueTypes, Continue
  <2>2. /\ Calls(c, queue, row, revision) /\ Covers(c, queue, stored) /\ c.kind # "open"
        /\ (c = Idle => queue = <<>>)
    <3>1. CASE queue = <<>>
      <4>1. c = Idle
        BY <1>6, <3>1, DrainNone
      <4> QED
        BY <3>1, <4>1, DrainNone
    <3>2. CASE queue # <<>>
      <4>1. PICK n : n = Len(queue)
        OBVIOUS
      <4>2. n \in 1 .. Len(queue) /\ queue = SubSeq(queue, 1, n)
        BY <3>2, <4>1
      <4>3. revision \in Nat
        BY DEF QueueInv, QueueTypes
      <4>4. Calls(c, queue, row, revision) /\ Covers(c, queue, stored) /\ c # Idle /\ c.kind = "save"
        BY <1>3, <1>6, <4>2, <4>3, DrainIs
      <4> QED
        BY <4>4
    <3> QED
      BY <3>1, <3>2
  <2>3. Places(d)'
    BY <2>1, <2>2 DEF Places
  <2> QED
    BY <1>3, <1>5, <2>1, <2>2, <2>3 DEF DeviceOK, Held, server
<1> QED
  BY <1>1, <1>8, <1>9, <1>10, <1>11, OneView DEF QueueInv

LEMMA SavedKeeps ==
    ASSUME QueueInv, NEW d \in Device, Saved(d)
    PROVE  QueueInv'
PROOF
<1>1. PICK p, c, q : p = pending[d] /\ c = call[d] /\ q = SubSeq(p, c.count + 1, Len(p))
  OBVIOUS
<1>2. /\ c.kind = "save" /\ c.phase = "answered" /\ Continue(d, q)
      /\ UNCHANGED <<server, stage, deferred, nav, stamp, owed>>
  BY <1>1 DEF Saved, Uncovered
<1>3. c # Idle
  BY <1>2 DEF Idle
<1>4. /\ p \in Seq(Edit) /\ Covers(c, p, stored) /\ owed[d] \subseteq stored \cup Held(d)
      /\ owed \in [Device -> SUBSET Edit]
  BY <1>1 DEF QueueInv, QueueTypes, DeviceOK
<1>5. c.count \in 0 .. Len(p) /\ Covered(p, c.count) \subseteq stored
  BY <1>2, <1>4 DEF Covers
<1>6. q \in Seq(Edit) /\ ToSet(p) \subseteq Covered(p, c.count) \cup ToSet(q)
  BY <1>1, <1>4, <1>5, CoveredRest
<1>7. owed'[d] \subseteq stored \cup ToSet(q) \cup ToSet(deferred[d])
  BY <1>1, <1>2, <1>4, <1>5, <1>6 DEF Held
<1> QED
  BY <1>1, <1>2, <1>3, <1>4, <1>6, <1>7, ContinueKeeps

LEMMA RetriedKeeps ==
    ASSUME QueueInv, NEW d \in Device, Retried(d)
    PROVE  QueueInv'
PROOF
<1>1. PICK p, c : p = pending[d] /\ c = call[d]
  OBVIOUS
<1>2. /\ c.kind = "retry" /\ c.phase = "answered" /\ Continue(d, p)
      /\ UNCHANGED <<server, stage, deferred, nav, stamp, owed>>
  BY <1>1 DEF Retried
<1>3. c # Idle
  BY <1>2 DEF Idle
<1>4. /\ p \in Seq(Edit) /\ owed[d] \subseteq stored \cup Held(d) /\ owed \in [Device -> SUBSET Edit]
  BY <1>1 DEF QueueInv, QueueTypes, DeviceOK
<1>5. owed'[d] \subseteq stored \cup ToSet(p) \cup ToSet(deferred[d])
  BY <1>1, <1>2, <1>4 DEF Held
<1> QED
  BY <1>1, <1>2, <1>3, <1>4, <1>5, ContinueKeeps

LEMMA ReloadedKeeps ==
    ASSUME QueueInv, NEW d \in Device, Reloaded(d)
    PROVE  QueueInv'
PROOF
<1>1. PICK p, c, q : p = pending[d] /\ c = call[d] /\ q = SubSeq(p, c.count + 1, Len(p))
  OBVIOUS
<1>2. /\ c.kind = "reload" /\ c.phase = "answered" /\ Continue(d, q)
      /\ owed' = [owed EXCEPT ![d] = @ \ Covered(p, c.count)]
      /\ UNCHANGED <<server, stage, deferred, nav, stamp>>
  BY <1>1 DEF Reloaded, Uncovered, Covered
<1>3. c # Idle
  BY <1>2 DEF Idle
<1>4. /\ p \in Seq(Edit) /\ Covers(c, p, stored) /\ owed[d] \subseteq stored \cup Held(d)
      /\ owed \in [Device -> SUBSET Edit]
  BY <1>1 DEF QueueInv, QueueTypes, DeviceOK
<1>5. c.count \in 0 .. Len(p)
  BY <1>2, <1>4 DEF Covers
<1>6. q \in Seq(Edit) /\ ToSet(p) \subseteq Covered(p, c.count) \cup ToSet(q)
  BY <1>1, <1>4, <1>5, CoveredRest
<1>7. owed' \in [Device -> SUBSET Edit] /\ \A e \in Device \ {d} : owed'[e] = owed[e]
  BY <1>2, <1>4
<1>8. owed'[d] = owed[d] \ Covered(p, c.count)
  BY <1>2, <1>4
<1>9. owed'[d] \subseteq stored \cup ToSet(q) \cup ToSet(deferred[d])
  BY <1>1, <1>4, <1>6, <1>8 DEF Held
<1> QED
  BY <1>1, <1>2, <1>3, <1>6, <1>7, <1>9, ContinueKeeps

\* A request that is given up leaves on the wire only a save that is safe.
LEMMA AbandonedIs ==
    ASSUME NEW c, NEW q, NEW r, NEW v, Calls(c, q, r, v)
    PROVE  \A m \in Abandoned(c) : Safe(m, r, v)
PROOF
<1>1. SUFFICES ASSUME c.kind = "save", c.phase = "sent"
               PROVE  \A m \in Abandoned(c) : Safe(m, r, v)
  BY DEF Abandoned
<1>2. Safe(c, r, v)
  BY <1>1 DEF Calls, Idle, Asks, Answers, Saves, Loads
<1>3. PICK m : m = [body |-> c.body, rev |-> c.rev, edits |-> c.edits]
  OBVIOUS
<1>4. m.body = c.body /\ m.rev = c.rev /\ m.edits = c.edits
  BY <1>3
<1>5. Safe(m, r, v)
  BY <1>2, <1>4 DEF Safe
<1> QED
  BY <1>1, <1>3, <1>5 DEF Abandoned

LEMMA FailKeeps ==
    ASSUME QueueInv, NEW d \in Device, Fail(d), call[d] # Idle,
           \A m \in late' : m \in late \/ m \in Abandoned(call[d])
    PROVE  QueueInv' /\ UNCHANGED row
PROOF
<1>1. RowMoves
  BY StillMoves DEF Fail
<1>2. DeviceOK(d) /\ stage[d] \in {"closed", "loading", "failed", "open"}
  BY DEF QueueInv, QueueTypes
<1>3. LateOK'
  <2>1. \A m \in Abandoned(call[d]) : Safe(m, row, revision)
    BY <1>2, AbandonedIs DEF DeviceOK
  <2> QED
    BY <1>1, <2>1, LateKeep DEF Fail
<1>4. QueueTypes'
  BY DEF QueueInv, QueueTypes, Fail
<1>5. \A e \in Device \ {d} : SameView(e)
  BY DEF QueueInv, QueueTypes, Fail, SameView
<1>6. DeviceOK(d)'
  <2>1. /\ call'[d] = Idle /\ broken'[d] = (call[d].kind # "open")
        /\ stage'[d] = (IF call[d].kind = "open" THEN "failed" ELSE stage[d])
        /\ saveStatus'[d] = (IF call[d].kind = "open" THEN saveStatus[d] ELSE "error")
    BY DEF QueueInv, QueueTypes, Fail
  <2>2. UNCHANGED <<row, revision, srv, pending, deferred, owed, stored>>
    BY DEF Fail
  <2>3. Places(d)'
    BY <1>2, <2>1, <2>2, DrainNone DEF Places, DeviceOK
  <2> QED
    BY <1>2, <2>1, <2>2, <2>3, DrainNone DEF DeviceOK, Held
<1> QED
  BY <1>1, <1>3, <1>4, <1>5, <1>6, OneView DEF QueueInv, Fail

\* "Retry saving" and "Discard" both send a load; it covers nothing, or the whole queue.
LEMMA AsksAgain ==
    ASSUME QueueInv, NEW d \in Device, NEW kind \in {"retry", "reload"}, NEW n \in 0 .. Len(pending[d]),
           stage[d] = "open", call' = [call EXCEPT ![d] = Load(kind, n)],
           UNCHANGED <<server, stage, srv, pending, deferred, broken, saveStatus, nav, stamp, owed>>
    PROVE  QueueInv'
PROOF
<1>1. RowMoves
  BY StillMoves DEF server
<1>2. PICK c : c = Load(kind, n)
  OBVIOUS
<1>3. call' = [call EXCEPT ![d] = c] /\ call = [x \in Device |-> call[x]]
  BY <1>2 DEF QueueInv, QueueTypes
<1>4. QueueTypes'
  <2>1. call' = [x \in Device |-> call'[x]]
    BY <1>3
  <2> QED
    BY <2>1 DEF QueueInv, QueueTypes, server
<1>5. LateOK'
  BY <1>1, LateKeep DEF server
<1>6. \A e \in Device \ {d} : SameView(e)
  BY <1>3 DEF SameView
<1>7. DeviceOK(d)'
  <2>1. DeviceOK(d) /\ pending[d] \in Seq(Edit) /\ kind \in Loads /\ call'[d] = c
    BY <1>3 DEF QueueInv, QueueTypes, Loads
  <2>2. /\ Calls(c, pending[d], row, revision) /\ Covers(c, pending[d], stored)
        /\ c # Idle /\ c.kind = kind
    BY <1>2, <2>1, LoadIs
  <2>3. Places(d)'
    BY <2>1, <2>2 DEF Places, DeviceOK
  <2> QED
    BY <2>1, <2>2, <2>3 DEF DeviceOK, server, Held
<1> QED
  BY <1>1, <1>4, <1>5, <1>6, <1>7, OneView DEF QueueInv

LEMMA AgainKeeps ==
    ASSUME QueueInv, NEW d \in Device, Again(d)
    PROVE  QueueInv'
PROOF
<1>1. PICK kind, n : kind = "retry" /\ n = 0
  OBVIOUS
<1>2. kind \in {"retry", "reload"} /\ n \in 0 .. Len(pending[d])
  BY <1>1 DEF QueueInv, QueueTypes
<1>3. /\ stage[d] = "open" /\ call' = [call EXCEPT ![d] = Load(kind, n)]
      /\ UNCHANGED <<server, stage, srv, pending, deferred, broken, saveStatus, nav, stamp, owed>>
  BY <1>1 DEF Again
<1> QED
  BY <1>2, <1>3, AsksAgain

LEMMA DiscardKeeps ==
    ASSUME QueueInv, NEW d \in Device, Discard(d)
    PROVE  QueueInv'
PROOF
<1>1. PICK kind, n : kind = "reload" /\ n = Len(pending[d])
  OBVIOUS
<1>2. kind \in {"retry", "reload"} /\ n \in 0 .. Len(pending[d])
  BY <1>1 DEF QueueInv, QueueTypes
<1>3. /\ stage[d] = "open" /\ call' = [call EXCEPT ![d] = Load(kind, n)]
      /\ UNCHANGED <<server, stage, srv, pending, deferred, broken, saveStatus, nav, stamp, owed>>
  BY <1>1 DEF Discard
<1> QED
  BY <1>2, <1>3, AsksAgain

\* The route's own steps leave the queues as they are.
LEMMA RouteKeeps ==
    ASSUME QueueInv, NEW d \in Device, Return(d) \/ GuardAnswers(d)
    PROVE  QueueInv'
PROOF
<1>1. /\ UNCHANGED <<row, revision, late, stored, stage, srv, pending, deferred, call, broken,
                     saveStatus, stamp, owed>>
      /\ nav' \in [Device -> {"here", "asked", "allowed"}]
  BY DEF QueueInv, QueueTypes, Return, GuardAnswers, server
<1>2. RowMoves
  BY <1>1, StillMoves
<1>3. QueueTypes'
  BY <1>1 DEF QueueInv, QueueTypes
<1>4. LateOK'
  BY <1>1, <1>2, LateKeep
<1>5. \A e \in Device : DeviceOK(e)'
  BY <1>1, <1>2, OthersKeep DEF SameView
<1> QED
  BY <1>3, <1>4, <1>5 DEF QueueInv

\* What cleanup leaves on the wire: the save it found under way, or the one its flush began,
\* which has all the edits that a view with nothing running and nothing failed still held.
LEMMA CleanupSends ==
    ASSUME QueueInv, NEW d \in Device, Cleanup(d)
    PROVE  /\ \A m \in late' : m \in late \/ Safe(m, row, revision)
           /\ stage[d] = "open" /\ call[d] = Idle /\ ~broken[d] => Dropped(d) = {}
PROOF
<1>1. PICK s, p : s = srv[d] /\ p = pending[d]
  OBVIOUS
<1>2. PICK q : q = Pushed(s.state, p, deferred[d])
  OBVIOUS
<1>3. PICK c : c = IF Len(q) > Len(p) /\ call[d] = Idle /\ ~broken[d] THEN Drain(s, q) ELSE call[d]
  OBVIOUS
<1>4. late' = late \cup Abandoned(c)
  BY <1>1, <1>2, <1>3 DEF Cleanup
<1>5. /\ p \in Seq(Edit) /\ deferred[d] \in Seq(Edit) /\ revision \in Nat /\ DeviceOK(d)
      /\ Seen(s, row, revision) /\ Calls(call[d], p, row, revision)
  BY <1>1 DEF QueueInv, QueueTypes, DeviceOK
<1>6. Extends(q, p, ToSet(deferred[d]))
  BY <1>2, <1>5, PushedIs
<1>7. q \in Seq(Edit) /\ Len(q) \in Nat /\ Len(p) \in Nat
  BY <1>5, <1>6 DEF Extends
<1>8. Len(q) > Len(p) => /\ Calls(Drain(s, q), q, row, revision) /\ Drain(s, q).kind = "save"
                         /\ Drain(s, q).phase = "sent" /\ Drain(s, q).edits = ToSet(q)
  <2>1. SUFFICES ASSUME Len(q) > Len(p)
                 PROVE  /\ Calls(Drain(s, q), q, row, revision) /\ Drain(s, q).kind = "save"
                        /\ Drain(s, q).phase = "sent" /\ Drain(s, q).edits = ToSet(q)
    OBVIOUS
  <2>2. PICK n, b : n = Len(q) /\ b = Drain(s, q)
    OBVIOUS
  <2>3. n \in 1 .. Len(q) /\ q = SubSeq(q, 1, n)
    BY <1>7, <2>1, <2>2
  <2>4. b = Drain(s, q) /\ revision \in Nat /\ q \in Seq(Edit) /\ Seen(s, row, revision)
    BY <1>5, <1>7, <2>2
  <2>5. Calls(b, q, row, revision) /\ b.kind = "save" /\ b.phase = "sent" /\ b.edits = Covered(q, n)
    BY <2>3, <2>4, DrainIs
  <2> QED
    BY <1>7, <2>2, <2>5, CoveredAll
<1>9. ASSUME NEW m \in late'
      PROVE  m \in late \/ Safe(m, row, revision)
  <2>1. Calls(c, p, row, revision) \/ Calls(c, q, row, revision)
    BY <1>3, <1>5, <1>8
  <2>2. \A x \in Abandoned(c) : Safe(x, row, revision)
    BY <2>1, AbandonedIs
  <2> QED
    BY <1>4, <2>2
<1>10. ASSUME stage[d] = "open", call[d] = Idle, ~broken[d]
       PROVE  Dropped(d) = {}
  <2>1. p = <<>> /\ Len(p) = 0
    BY <1>1, <1>5, <1>10 DEF DeviceOK, Places
  <2>2. CASE Len(q) = 0
    <3>1. ToSet(q) = {}
      BY <1>7, <2>2 DEF ToSet
    <3> QED
      BY <1>1, <1>2, <3>1 DEF Dropped
  <2>3. CASE Len(q) # 0
    <3>1. c = Drain(s, q) /\ c.kind = "save" /\ c.phase = "sent" /\ c.edits = ToSet(q)
      BY <1>3, <1>7, <1>8, <1>10, <2>1, <2>3
    <3>2. PICK m : m = [body |-> c.body, rev |-> c.rev, edits |-> c.edits]
      OBVIOUS
    <3>3. m \in late' /\ m.edits = ToSet(q)
      BY <1>4, <3>1, <3>2 DEF Abandoned
    <3>4. ToSet(q) \subseteq UNION {x.edits : x \in late'}
      BY <3>3
    <3> QED
      BY <1>1, <1>2, <3>4 DEF Dropped
  <2> QED
    BY <2>2, <2>3
<1> QED
  BY <1>9, <1>10

LEMMA CleanupKeeps ==
    ASSUME QueueInv, NEW d \in Device, Cleanup(d), UNCHANGED <<row, revision, stored, srv, saveStatus, stamp>>
    PROVE  QueueInv' /\ ClosesIdle
PROOF
<1>1. RowMoves
  BY StillMoves
<1>2. LateOK'
  BY <1>1, CleanupSends, LateKeep
<1>3. /\ stage' = [stage EXCEPT ![d] = "closed"] /\ pending' = [pending EXCEPT ![d] = <<>>]
      /\ deferred' = [deferred EXCEPT ![d] = <<>>] /\ call' = [call EXCEPT ![d] = Idle]
      /\ broken' = [broken EXCEPT ![d] = FALSE] /\ nav' = [nav EXCEPT ![d] = "here"]
      /\ owed' = [owed EXCEPT ![d] = {}]
  BY DEF Cleanup
<1>4. QueueTypes'
  <2>1. deferred' \in [Device -> Seq(Edit)] /\ pending' \in [Device -> Seq(Edit)]
    BY <1>3 DEF QueueInv, QueueTypes
  <2>2. ASSUME NEW x \in Device
        PROVE  Len(deferred'[x]) <= 1
    <3>1. Len(deferred[x]) <= 1 /\ deferred \in [Device -> Seq(Edit)]
      BY DEF QueueInv, QueueTypes
    <3>2. x # d => deferred'[x] = deferred[x]
      BY <1>3, <3>1
    <3>3. x = d => deferred'[x] = <<>>
      BY <1>3, <3>1
    <3> QED
      BY <3>1, <3>2, <3>3
  <2>3. call' = [x \in Device |-> call'[x]]
    BY <1>3 DEF QueueInv, QueueTypes
  <2> QED
    BY <1>3, <2>1, <2>2, <2>3 DEF QueueInv, QueueTypes
<1>5. \A e \in Device \ {d} : SameView(e)
  BY <1>3 DEF QueueInv, QueueTypes, SameView
<1>6. DeviceOK(d)'
  <2>1. /\ stage'[d] = "closed" /\ pending'[d] = <<>> /\ deferred'[d] = <<>> /\ call'[d] = Idle
        /\ owed'[d] = {}
    BY <1>3 DEF QueueInv, QueueTypes
  <2>2. Seen(srv[d], row, revision)
    BY DEF QueueInv, DeviceOK
  <2>3. Places(d)'
    BY <2>1, DrainNone DEF Places
  <2> QED
    BY <2>1, <2>2, <2>3, DrainNone DEF DeviceOK
<1>7. ClosesIdle
  <2>1. SUFFICES ASSUME NEW e \in Device, stage[e] = "open", stage'[e] = "closed", call[e] = Idle, ~broken[e]
                 PROVE  Dropped(e) = {}
    BY DEF ClosesIdle
  <2>2. e = d
    BY <1>3, <2>1 DEF QueueInv, QueueTypes
  <2> QED
    BY <2>1, <2>2, CleanupSends
<1> QED
  BY <1>1, <1>2, <1>4, <1>5, <1>6, <1>7, OneView DEF QueueInv

\* A step that writes no row and closes no open view.
LEMMA Harmless ==
    ASSUME UNCHANGED row \/ WritesOwn, \A d \in Device : stage[d] = "open" => stage'[d] # "closed"
    PROVE  WritesOwn /\ ClosesIdle
PROOF BY DEF WritesOwn, ClosesIdle

Keeping == QueueInv' /\ WritesOwn /\ ClosesIdle

LEMMA NetworkKeeps ==
    ASSUME QueueInv, Network \/ LateSave
    PROVE  Keeping
PROOF
<1>1. CASE LateSave
  <2>1. UNCHANGED stage
    BY <1>1 DEF LateSave
  <2> QED
    BY <1>1, <2>1, LateSaveKeeps, Harmless DEF Keeping
<1>2. ASSUME NEW d \in Device, ServerRead(d)
      PROVE  Keeping
  <2>1. UNCHANGED <<stage, row>>
    BY <1>2 DEF ServerRead, server
  <2> QED
    BY <1>2, <2>1, ServerReadKeeps, Harmless DEF Keeping
<1>3. ASSUME NEW d \in Device, ServerSave(d)
      PROVE  Keeping
  <2>1. UNCHANGED stage
    BY <1>3 DEF ServerSave
  <2> QED
    BY <1>3, <2>1, ServerSaveKeeps, Harmless DEF Keeping
<1>4. ASSUME NEW d \in Device, NetworkFailure(d)
      PROVE  Keeping
  <2>1. /\ Fail(d) /\ call[d] # Idle /\ \A m \in late' : m \in late \/ m \in Abandoned(call[d])
    BY <1>4 DEF NetworkFailure
  <2>2. \A e \in Device : stage[e] = "open" => stage'[e] # "closed"
    BY <2>1 DEF Fail, QueueInv, QueueTypes
  <2> QED
    BY <2>1, <2>2, FailKeeps, Harmless DEF Keeping
<1> QED
  BY <1>1, <1>2, <1>3, <1>4 DEF Network

LEMMA QueueStepsKeep ==
    ASSUME QueueInv, Queue
    PROVE  Keeping
PROOF
<1>1. PICK d \in Device : Opened(d) \/ Saved(d) \/ Retried(d) \/ Reloaded(d) \/ Refused(d) \/ CommitDeferred(d)
  BY DEF Queue
<1>2. CASE Opened(d)
  <2>1. UNCHANGED row /\ \A e \in Device : stage[e] = "open" => stage'[e] # "closed"
    BY <1>2 DEF Opened, server, QueueInv, QueueTypes
  <2> QED
    BY <1>2, <2>1, OpenedKeeps, Harmless DEF Keeping
<1>3. CASE Saved(d) \/ Retried(d) \/ Reloaded(d) \/ CommitDeferred(d)
  <2>1. UNCHANGED <<stage, row>>
    BY <1>3 DEF Saved, Retried, Reloaded, CommitDeferred, server
  <2> QED
    BY <1>3, <2>1, SavedKeeps, RetriedKeeps, ReloadedKeeps, CommitDeferredKeeps, Harmless DEF Keeping
<1>4. CASE Refused(d)
  <2>1. Fail(d) /\ call[d] # Idle /\ UNCHANGED late
    BY <1>4 DEF Refused, Idle
  <2>2. \A e \in Device : stage[e] = "open" => stage'[e] # "closed"
    BY <2>1 DEF Fail, QueueInv, QueueTypes
  <2> QED
    BY <2>1, <2>2, FailKeeps, Harmless DEF Keeping
<1> QED
  BY <1>1, <1>2, <1>3, <1>4

LEMMA ClosingKeeps ==
    ASSUME QueueInv, NEW d \in Device, Unmount(d) \/ Abandon(d) \/ Lock(d)
    PROVE  Keeping
PROOF
<1>1. Cleanup(d) /\ UNCHANGED <<row, revision, stored, srv, saveStatus, stamp>>
  BY DEF Unmount, Abandon, Lock
<1>2. WritesOwn
  BY <1>1 DEF WritesOwn
<1> QED
  BY <1>1, <1>2, CleanupKeeps DEF Keeping

LEMMA BrowsingKeeps ==
    ASSUME QueueInv, Browsing
    PROVE  Keeping
PROOF
<1>1. PICK d \in Device : \/ Open(d) \/ TurnPage(d) \/ EditNow(d) \/ Again(d) \/ Discard(d)
                          \/ Leave(d) \/ Return(d) \/ Abandon(d)
  BY DEF Browsing
<1>2. CASE Open(d)
  <2>1. UNCHANGED row /\ \A e \in Device : stage[e] = "open" => stage'[e] # "closed"
    BY <1>2 DEF Open, server, QueueInv, QueueTypes
  <2> QED
    BY <1>2, <2>1, OpenKeeps, Harmless DEF Keeping
<1>3. CASE TurnPage(d) \/ EditNow(d) \/ Leave(d)
  <2>1. UNCHANGED <<stage, row>>
    BY <1>3 DEF TurnPage, EditNow, Leave, server
  <2> QED
    BY <1>3, <2>1, TurnPageKeeps, EditNowKeeps, LeaveKeeps, Harmless DEF Keeping
<1>4. CASE Again(d) \/ Discard(d) \/ Return(d)
  <2>1. UNCHANGED <<stage, row>>
    BY <1>4 DEF Again, Discard, Return, server
  <2> QED
    BY <1>4, <2>1, AgainKeeps, DiscardKeeps, RouteKeeps, Harmless DEF Keeping
<1>5. CASE Abandon(d)
  BY <1>5, ClosingKeeps
<1> QED
  BY <1>1, <1>2, <1>3, <1>4, <1>5

LEMMA ShellKeeps ==
    ASSUME QueueInv, Shell
    PROVE  Keeping
PROOF
<1>1. PICK d \in Device : GuardAnswers(d) \/ Unmount(d) \/ Lock(d)
  BY DEF Shell
<1>2. CASE GuardAnswers(d)
  <2>1. UNCHANGED <<stage, row>>
    BY <1>2 DEF GuardAnswers, server
  <2> QED
    BY <1>2, <2>1, RouteKeeps, Harmless DEF Keeping
<1> QED
  BY <1>1, <1>2, ClosingKeeps

LEMMA NothingKeeps ==
    ASSUME QueueInv, UNCHANGED progressVars
    PROVE  Keeping
PROOF
<1>1. UNCHANGED <<row, revision, late, stage, srv, pending, deferred, call, broken, saveStatus, nav,
                  stamp, owed, stored>>
  BY DEF progressVars
<1>2. RowMoves
  BY <1>1, StillMoves
<1>3. QueueTypes'
  BY <1>1 DEF QueueInv, QueueTypes
<1>4. LateOK'
  BY <1>1, <1>2, LateKeep
<1>5. \A e \in Device : DeviceOK(e)'
  BY <1>1, <1>2, OthersKeep DEF SameView
<1> QED
  BY <1>1, <1>3, <1>4, <1>5, Harmless DEF QueueInv, Keeping

LEMMA ProgressKeeps ==
    ASSUME QueueInv, [ProgressNext]_progressVars
    PROVE  Keeping
PROOF BY NetworkKeeps, QueueStepsKeep, BrowsingKeeps, ShellKeeps, NothingKeeps DEF ProgressNext

LEMMA ProgressBegins == ProgressInit => QueueInv
PROOF
<1>1. SUFFICES ASSUME ProgressInit
               PROVE  QueueInv
  OBVIOUS
<1>2. row = [page |-> 0, completed |-> FALSE, rating |-> 0] /\ row \in Personal
  BY <1>1 DEF ProgressInit, Personal
<1>3. QueueTypes
  BY <1>1, <1>2, ProgressAssumption DEF ProgressInit, QueueTypes
<1>4. LateOK
  BY <1>1 DEF ProgressInit, LateOK
<1>5. ASSUME NEW d \in Device
      PROVE  DeviceOK(d)
  <2>1. /\ stage[d] = "closed" /\ pending[d] = <<>> /\ deferred[d] = <<>> /\ call[d] = Idle
        /\ owed[d] = {}
    BY <1>1 DEF ProgressInit
  <2>2. srv[d] = [state |-> row, rev |-> 0] /\ revision = 0
    BY <1>1 DEF ProgressInit
  <2>3. Seen(srv[d], row, revision)
    BY <1>2, <2>2 DEF Seen
  <2>4. Places(d)
    BY <2>1, DrainNone DEF Places
  <2> QED
    BY <2>1, <2>3, <2>4, DrainNone DEF DeviceOK
<1> QED
  BY <1>3, <1>4, <1>5 DEF QueueInv

\* The queue's invariant says that no edit is forgotten and that "saved" is the truth.
LEMMA EditsFollow == QueueInv => EditsKept
PROOF
<1>1. SUFFICES ASSUME QueueInv
               PROVE  EditsKept
  OBVIOUS
<1>2. ASSUME NEW d \in Device
      PROVE  call[d].kind \in {"none", "open", "save", "retry", "reload"}
  <2>1. Calls(call[d], pending[d], row, revision)
    BY <1>1 DEF QueueInv, DeviceOK
  <2> QED
    BY <2>1 DEF Calls, Idle, Asks, Answers, Saves, Loads
<1>3. \A m \in late : m.body \in Personal /\ m.rev \in Nat /\ m.edits \subseteq Edit
  BY <1>1 DEF QueueInv, QueueTypes, LateOK, Safe
<1>4. ProgressTypeOK
  BY <1>1, <1>2, <1>3 DEF QueueInv, QueueTypes, ProgressTypeOK
<1>5. NoEditForgotten
  BY <1>1 DEF QueueInv, DeviceOK, NoEditForgotten
<1>6. SavedMeansStored
  <2>1. SUFFICES ASSUME NEW d \in Device, stage[d] = "open", saveStatus[d] = "saved", deferred[d] = <<>>
                 PROVE  owed[d] \subseteq stored
    BY DEF SavedMeansStored
  <2>2. pending[d] = <<>> /\ owed[d] \subseteq stored \cup Held(d)
    BY <1>1, <2>1 DEF QueueInv, DeviceOK, Places
  <2>3. Held(d) = {}
    BY <2>1, <2>2 DEF Held, ToSet
  <2> QED
    BY <2>2, <2>3
<1> QED
  BY <1>4, <1>5, <1>6 DEF EditsKept

-----------------------------------------------------------------------------
\* The queue's invariant, in every state, for any devices, pages, scores and bounds.
THEOREM QueueAlways == ProgressSpec => []QueueInv
PROOF
<1>1. QueueInv /\ [ProgressNext]_progressVars => QueueInv'
  BY ProgressKeeps DEF Keeping
<1> QED
  BY ProgressBegins, <1>1, PTL DEF ProgressSpec

\* While a book is open every edit its view accepted and did not supersede is stored or in the
\* queue, and a view that shows "saved" with nothing delayed has had each of them stored.
THEOREM EditsKeptTheorem == ProgressSpec => []EditsKept
PROOF BY QueueAlways, EditsFollow, PTL

\* And every step of the spec keeps that so: a save, however late, changes only the fields its
\* edits are for, and a view that could send what it holds does so before it closes.
THEOREM KeepsEditsTheorem == ProgressSpec => KeepsEdits
PROOF
<1>1. QueueInv /\ [ProgressNext]_progressVars => QueueInv' /\ WritesOwn /\ ClosesIdle
  BY ProgressKeeps DEF Keeping
<1>2. QueueInv' => EditsKept'
  BY EditsFollow, PTL
<1>3. QueueInv /\ [ProgressNext]_progressVars => [EditsKept' /\ WritesOwn /\ ClosesIdle]_progressVars
  BY <1>1, <1>2
<1> QED
  BY QueueAlways, <1>3, PTL DEF ProgressSpec, KeepsEdits
=============================================================================
