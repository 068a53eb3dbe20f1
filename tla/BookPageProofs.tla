--------------------------- MODULE BookPageProofs ---------------------------
(***************************************************************************)
(* Theorems about Navigation and about BookPage, for any number of books,  *)
(* titles, tags and sources, and any number of moves, saves, locks and     *)
(* reloads: no page goes before its saves; the address, the page and the   *)
(* trail agree; the metadata file is replaced only as agreed; what the     *)
(* user does is done to what they saw; and what they typed stays.          *)
(***************************************************************************)
EXTENDS BookPage, OrderingProofs, TLAPS

\* What a leaving page could go by without waiting: a question about a move that still
\* counts was asked of the page on screen.
Fields == {"kind", "route", "pos", "live", "here"}
AskOK(a) ==
    /\ Fields \subseteq DOMAIN a /\ a.live \in BOOLEAN /\ a.here \in BOOLEAN
    /\ a.kind = "move" /\ a.live => a.here
AsksOK == \A a \in asks : AskOK(a)
LeaveInv == AsksOK /\ reloads \in Nat /\ locks \in Nat

\* What every step keeps, what a step that changes the page on screen shows, and what one
\* that signs out shows.
MoveWaits ==
    auth = "ready" /\ auth' = "ready" /\ active' # active /\ reloads' = reloads /\ ~bounced'
      => saving = "none"
SignOutWaits ==
    auth = "ready" /\ auth' = "locked" /\ locks' = locks
      => saving = "none" \/ \E a \in asks \ asks' : ~a.here
Leaves == MoveWaits /\ SignOutWaits

LEMMA SupersededOK ==
    ASSUME NEW a, AskOK(a)
    PROVE  AskOK([a EXCEPT !.live = a.live /\ a.kind = "signout"])
PROOF
<1> DEFINE b == [a EXCEPT !.live = a.live /\ a.kind = "signout"]
<1>1. DOMAIN b = DOMAIN a /\ b.kind = a.kind /\ b.here = a.here
  BY DEF AskOK, Fields
<1>2. b.live = (a.live /\ a.kind = "signout")
  BY DEF AskOK, Fields
<1>3. b.live \in BOOLEAN /\ ~(b.kind = "move" /\ b.live)
  BY <1>1, <1>2
<1> QED
  BY <1>1, <1>3 DEF AskOK

LEMMA LockedOK ==
    ASSUME NEW a, AskOK(a)
    PROVE  AskOK([a EXCEPT !.here = FALSE, !.live = a.live /\ a.kind = "signout"])
PROOF
<1> DEFINE b == [a EXCEPT !.here = FALSE, !.live = a.live /\ a.kind = "signout"]
<1>1. DOMAIN b = DOMAIN a /\ b.kind = a.kind /\ b.here = FALSE
  BY DEF AskOK, Fields
<1>2. b.live = (a.live /\ a.kind = "signout")
  BY DEF AskOK, Fields
<1>3. b.live \in BOOLEAN /\ ~(b.kind = "move" /\ b.live)
  BY <1>1, <1>2
<1> QED
  BY <1>1, <1>3 DEF AskOK

LEMMA AllSuperseded == ASSUME AsksOK PROVE \A a \in Superseded : AskOK(a)
PROOF BY SupersededOK DEF AsksOK, Superseded

\* A page that a move is accepted from, or stays on.
LEMMA AcceptedKeeps ==
    ASSUME NEW r, NEW pos, NEW rest, \A a \in rest : AskOK(a), Accepted(r, pos, rest)
    PROVE  AsksOK'
PROOF BY DEF Accepted, AsksOK

LEMMA RefusedKeeps ==
    ASSUME NEW pos, NEW rest, \A a \in rest : AskOK(a), Refused(pos, rest)
    PROVE  AsksOK' /\ active' = active
PROOF BY DEF Refused, AsksOK

\* The browser's part: links, Back and Forward, and reloads.
LEMMA MovingLeaves == ASSUME LeaveInv, Moving PROVE LeaveInv' /\ Leaves
PROOF
<1>1. ASSUME NEW r \in Route, Click(r) PROVE LeaveInv' /\ Leaves
  BY <1>1 DEF Click, User, Still, session, LeaveInv, AsksOK, Leaves, MoveWaits, SignOutWaits
<1>2. ASSUME NEW d \in {-1, 1}, BackOrForward(d) PROVE LeaveInv' /\ Leaves
  BY <1>2 DEF BackOrForward, User, Still, session, LeaveInv, AsksOK, Leaves, MoveWaits, SignOutWaits
<1>3. CASE Gone
  <2>1. CASE Restart /\ bounced' = TRUE
    BY <1>3, <2>1 DEF Gone, Restart, counts, LeaveInv, AsksOK, Leaves, MoveWaits, SignOutWaits
  <2>2. CASE Still
    BY <1>3, <2>2 DEF Gone, Still, session, counts, LeaveInv, AsksOK, Leaves, MoveWaits, SignOutWaits
  <2> QED
    BY <1>3, <2>1, <2>2 DEF Gone
<1>4. CASE Reload
  BY <1>4 DEF Reload, Restart, LeaveInv, AsksOK, Leaves, MoveWaits, SignOutWaits
<1> QED
  BY <1>1, <1>2, <1>3, <1>4 DEF Moving

\* The handler asks the guard, which answers at once or when the saves are over.
LEMMA ChangeLeaves == ASSUME LeaveInv, Change PROVE LeaveInv' /\ Leaves
PROOF
<1>1. reloads' = reloads /\ locks' = locks /\ auth' = auth
  BY DEF Change, session, counts
<1>2. \A a \in Superseded : AskOK(a)
  BY AllSuperseded DEF LeaveInv
<1>3. CASE Address = active
  BY <1>1, <1>2, <1>3 DEF Change, LeaveInv, AsksOK, Leaves, MoveWaits, SignOutWaits
<1>4. CASE Address # active
  <2> DEFINE pos == IF entries[index].pos = None THEN position + 1 ELSE entries[index].pos
             ask == [kind |-> "move", route |-> Address, pos |-> pos, live |-> TRUE, here |-> TRUE]
  <2>1. CASE Waits
    <3>1. asks' = Superseded \cup {ask} /\ active' = active
      BY <1>4, <2>1 DEF Change
    <3>2. AskOK(ask)
      BY DEF AskOK, Fields
    <3> QED
      BY <1>1, <1>2, <3>1, <3>2 DEF LeaveInv, AsksOK, Leaves, MoveWaits, SignOutWaits
  <2>2. CASE ~Waits /\ Consents
    <3>1. Accepted(Address, pos, Superseded)
      BY <1>4, <2>2 DEF Change
    <3>2. auth = "ready" => saving = "none"
      BY <2>2 DEF Consents, Guarded
    <3> QED
      BY <1>1, <1>2, <3>1, <3>2, AcceptedKeeps DEF LeaveInv, Leaves, MoveWaits, SignOutWaits
  <2>3. CASE ~Waits /\ ~Consents
    <3>1. Refused(pos, Superseded)
      BY <1>4, <2>3 DEF Change
    <3> QED
      BY <1>1, <1>2, <3>1, RefusedKeeps DEF LeaveInv, Leaves, MoveWaits, SignOutWaits
  <2> QED
    BY <2>1, <2>2, <2>3
<1> QED
  BY <1>3, <1>4

LEMMA AnswerLeaves ==
    ASSUME LeaveInv, NEW a \in asks, MoveAnswered(a) PROVE LeaveInv' /\ Leaves
PROOF
<1>1. reloads' = reloads /\ locks' = locks /\ auth' = auth
  BY DEF MoveAnswered, session, counts
<1>2. \A b \in asks \ {a} : AskOK(b)
  BY DEF LeaveInv, AsksOK
<1>3. CASE ~a.live
  BY <1>1, <1>2, <1>3 DEF MoveAnswered, LeaveInv, AsksOK, Leaves, MoveWaits, SignOutWaits
<1>4. CASE a.live /\ Granted(a)
  <2>1. Accepted(a.route, a.pos, asks \ {a})
    BY <1>4 DEF MoveAnswered
  <2>2. saving = "none"
    BY <1>4 DEF MoveAnswered, Granted, LeaveInv, AsksOK, AskOK
  <2> QED
    BY <1>1, <1>2, <2>1, <2>2, AcceptedKeeps DEF LeaveInv, Leaves, MoveWaits, SignOutWaits
<1>5. CASE a.live /\ ~Granted(a)
  <2>1. Refused(a.pos, asks \ {a})
    BY <1>5 DEF MoveAnswered
  <2> QED
    BY <1>1, <1>2, <2>1, RefusedKeeps DEF LeaveInv, Leaves, MoveWaits, SignOutWaits
<1> QED
  BY <1>3, <1>4, <1>5

LEMMA GuardingLeaves == ASSUME LeaveInv, Guarding PROVE LeaveInv' /\ Leaves
PROOF
<1>1. ASSUME NEW a \in asks, SignOutAnswered(a) PROVE LeaveInv' /\ Leaves
  <2>1. active' = active /\ reloads' = reloads /\ locks' = locks /\ asks' = asks \ {a}
    BY <1>1 DEF SignOutAnswered, SignedOut, Outside, counts
  <2>2. a.here \in BOOLEAN
    BY <1>1 DEF LeaveInv, AsksOK, AskOK
  <2>3. ASSUME auth = "ready", auth' = "locked", a.here PROVE saving = "none"
    BY <1>1, <2>3 DEF SignOutAnswered, Granted, session
  <2> QED
    BY <1>1, <2>1, <2>2, <2>3 DEF LeaveInv, AsksOK, Leaves, MoveWaits, SignOutWaits
<1> QED
  BY <1>1, ChangeLeaves, AnswerLeaves DEF Guarding

\* Work on the page leaves the place alone.
LEMMA PagingLeaves == ASSUME LeaveInv, Paging PROVE LeaveInv' /\ Leaves
PROOF BY DEF Paging, Draft, Resolved, Edit, SaveEnds, Working, session, LeaveInv, AsksOK, Leaves,
         MoveWaits, SignOutWaits

\* So does the session, which takes the questions along.
LEMMA SessionsLeave == ASSUME LeaveInv, Sessions PROVE LeaveInv' /\ Leaves
PROOF
<1>1. active' = active
  BY DEF Sessions, Checked, Entered, Locked, SignOut, SignOutEnds, Outside
<1>2. reloads' = reloads
  BY DEF Sessions, Checked, Entered, Locked, SignOut, SignOutEnds, User, counts
<1> DEFINE waits == auth = "ready" /\ auth' = "locked" => saving = "none"
<1>3. ASSUME asks' = asks, locks' = locks, waits PROVE LeaveInv' /\ Leaves
  BY <1>1, <1>2, <1>3 DEF LeaveInv, AsksOK, Leaves, MoveWaits, SignOutWaits
<1>4. CASE Locked
  <2>1. AsksOK'
    BY <1>4, LockedOK DEF Locked, LeaveInv, AsksOK
  <2>2. locks' = locks + 1
    BY <1>4 DEF Locked
  <2> QED
    BY <1>1, <1>2, <2>1, <2>2 DEF LeaveInv, Leaves, MoveWaits, SignOutWaits, MoveWaits, SignOutWaits
<1>5. CASE SignOut
  <2> DEFINE ask == [kind |-> "signout", route |-> active, pos |-> None,
                     live |-> ~signingOut, here |-> TRUE]
  <2>1. asks' = asks \/ asks' = asks \cup {ask}
    BY <1>5 DEF SignOut, SignedOut
  <2>2. AskOK(ask)
    BY DEF AskOK, Fields
  <2>3. waits /\ locks' = locks
    BY <1>5 DEF SignOut, SignedOut, Consents, Guarded, session, User
  <2> QED
    BY <1>1, <1>2, <2>1, <2>2, <2>3 DEF LeaveInv, AsksOK, Leaves, MoveWaits, SignOutWaits
<1>6. ASSUME (\E ok \in BOOLEAN : Checked(ok)) \/ Entered \/ SignOutEnds
      PROVE  asks' = asks /\ locks' = locks /\ waits
  BY <1>6 DEF Checked, Entered, SignOutEnds, counts
<1> QED
  BY <1>3, <1>4, <1>5, <1>6 DEF Sessions

LEMMA NextLeaves == ASSUME LeaveInv, Next PROVE LeaveInv' /\ Leaves
PROOF BY MovingLeaves, GuardingLeaves, PagingLeaves, SessionsLeave DEF Next

LEMMA StandingLeaves == ASSUME LeaveInv, UNCHANGED <<active, asks, reloads, auth, locks>>
    PROVE  LeaveInv' /\ Leaves
PROOF BY DEF LeaveInv, AsksOK, Leaves, MoveWaits, SignOutWaits

LEMMA InitLeaves == Init => LeaveInv
PROOF BY DEF Init, LeaveInv, AsksOK

\* In the App no page is left while its saves are under way or have failed, by a move
\* within a session or by a sign-out asked for in it, however often it moves, is reloaded
\* or locked (App.tsx, logout()).
THEOREM SavesFirstTheorem == Spec => SavesFirst
PROOF
<1>1. Init => LeaveInv
  BY InitLeaves
<1>2. LeaveInv /\ [Next]_vars => LeaveInv'
  BY NextLeaves, StandingLeaves DEF vars, session, counts
<1>3. LeaveInv /\ [Next]_vars => [Leaves]_vars
  BY NextLeaves
<1> QED
  BY <1>1, <1>2, <1>3, PTL DEF Spec, SavesFirst, Leaves, MoveWaits, SignOutWaits

\* The same of the App with a book's page in full: nothing its editor, its dialogs or its
\* requests do takes the page away.
THEOREM BookPageSavesFirst == BookPageSpec => SavesFirst
PROOF
<1>1. BookPageInit => LeaveInv
  BY InitLeaves DEF BookPageInit
<1>2. BookPageNext => Next \/ UNCHANGED <<active, asks, reloads, auth, locks>>
  BY DEF BookPageNext, Moves, Works, Stands, session, counts
<1>3. LeaveInv /\ [BookPageNext]_bookPageVars => LeaveInv'
  BY <1>2, NextLeaves, StandingLeaves DEF bookPageVars, vars, session, counts
<1>4. LeaveInv /\ [BookPageNext]_bookPageVars => [Leaves]_vars
  BY <1>2, NextLeaves, StandingLeaves DEF bookPageVars
<1> QED
  BY <1>1, <1>3, <1>4, PTL DEF BookPageSpec, SavesFirst, Leaves, MoveWaits, SignOutWaits
-----------------------------------------------------------------------------
(* The place is one.                                                       *)

\* The types, with the shapes the properties don't ask for.
Entry == [route : Route, pos : Nat \cup {None}]
Ask == [kind : {"move", "signout"}, route : Route, pos : Nat \cup {None}, live : BOOLEAN,
        here : BOOLEAN]
PlaceTypes ==
    /\ entries \in Seq(Entry) /\ index \in DOMAIN entries /\ events \in Nat /\ going \in Seq(Int)
    /\ active \in Route /\ position \in Nat /\ trail \in Seq(Route)
    /\ asks \subseteq Ask /\ \A a \in asks : a.kind = "move" => a.pos \in Nat
    /\ draft \in BOOLEAN /\ saving \in {"none", "pending", "failed"}
    /\ auth \in {"checking", "ready", "locked"} /\ signingOut \in BOOLEAN
    /\ moves \in Nat /\ changes \in Nat /\ locks \in Nat /\ reloads \in Nat
    /\ bounced \in BOOLEAN

LEMMA Routes ==
    /\ Library \in Route /\ <<"settings", 0>> \in Route
    /\ \A r \in Route : r[1] = "read" => Page(r[2]) \in Route /\ Page(r[2]) # r
    /\ \A r \in Route : r[1] = "library" <=> r = Library
PROOF BY DEF Route, Library, Page, Reading

\* The trail leads from the library, and only a book's page may come twice in a row.
TrailOK(tr) ==
    /\ tr \in Seq(Route) /\ Len(tr) > 0 /\ tr[1] = Library
    /\ \A i \in 1 .. Len(tr) - 1 : tr[i] = tr[i + 1] => tr[i][1] = "book"

LEMMA TrailCut ==
    ASSUME NEW tr, TrailOK(tr), NEW k \in 1 .. Len(tr)
    PROVE  TrailOK(SubSeq(tr, 1, k)) /\ Last(SubSeq(tr, 1, k)) = tr[k]
PROOF
<1> DEFINE s == SubSeq(tr, 1, k)
<1>1. s \in Seq(Route) /\ Len(s) = k /\ \A i \in 1 .. k : s[i] = tr[i]
  BY DEF TrailOK
<1> HIDE DEF s
<1>2. s[1] = Library
  BY <1>1 DEF TrailOK
<1>3. ASSUME NEW i \in 1 .. Len(s) - 1, s[i] = s[i + 1] PROVE s[i][1] = "book"
  BY <1>1, <1>3 DEF TrailOK
<1>4. TrailOK(s)
  BY <1>1, <1>2, <1>3 DEF TrailOK
<1>5. Last(s) = tr[k]
  BY <1>1 DEF Last
<1> QED
  BY <1>4, <1>5 DEF s

LEMMA TrailFurther ==
    ASSUME NEW tr, TrailOK(tr), NEW r \in Route, Last(tr) = r => r[1] = "book"
    PROVE  TrailOK(Append(tr, r)) /\ Last(Append(tr, r)) = r
PROOF
<1> DEFINE s == Append(tr, r)
<1>1. /\ s \in Seq(Route) /\ Len(s) = Len(tr) + 1 /\ s[Len(tr) + 1] = r
      /\ \A i \in 1 .. Len(tr) : s[i] = tr[i]
  BY DEF TrailOK
<1> HIDE DEF s
<1>2. s[1] = Library
  BY <1>1 DEF TrailOK
<1>3. ASSUME NEW i \in 1 .. Len(s) - 1, s[i] = s[i + 1] PROVE s[i][1] = "book"
  BY <1>1, <1>3 DEF TrailOK, Last
<1>4. TrailOK(s)
  BY <1>1, <1>2, <1>3 DEF TrailOK
<1>5. Last(s) = r
  BY <1>1 DEF Last
<1> QED
  BY <1>4, <1>5 DEF s

LEMMA TrailAdvances ==
    ASSUME NEW tr, TrailOK(tr), NEW r \in Route
    PROVE  TrailOK(AdvanceTrail(tr, r)) /\ Last(AdvanceTrail(tr, r)) = r
PROOF
<1> DEFINE on == {i \in DOMAIN tr : tr[i] = r}
           last == Last(tr)
           parents == Front(tr)
           its == Page(last[2])
<1>1. tr \in Seq(Route) /\ DOMAIN tr = 1 .. Len(tr) /\ Len(tr) \in Nat /\ Len(tr) > 0 /\ last \in Route
  BY DEF TrailOK, Last
<1>2. CASE on # {}
  <2>1. PICK k \in on : \A j \in on : j <= k
    BY <1>1, <1>2, LargestExists
  <2> DEFINE m == CHOOSE i \in on : \A j \in on : j <= i
  <2>2. m \in on
    BY <2>1
  <2>3. AdvanceTrail(tr, r) = SubSeq(tr, 1, m)
    BY <1>2 DEF AdvanceTrail
  <2> HIDE DEF m
  <2>4. m \in 1 .. Len(tr) /\ tr[m] = r
    BY <1>1, <2>2
  <2> QED
    BY <2>3, <2>4, TrailCut
<1>3. CASE on = {}
  <2>1. \A i \in 1 .. Len(tr) : tr[i] # r
    BY <1>1, <1>3
  <2>2. CASE last[1] = "read"
    <3>1. Len(tr) > 1
      BY <1>1, <2>2 DEF TrailOK, Last, Library
    <3>2. parents = SubSeq(tr, 1, Len(tr) - 1) /\ Len(tr) - 1 \in 1 .. Len(tr)
      BY <1>1, <3>1 DEF Front
    <3>3. TrailOK(parents) /\ Last(parents) = tr[Len(tr) - 1] /\ Last(parents) # r
      BY <2>1, <3>2, TrailCut
    <3>4. Len(parents) = Len(tr) - 1
      BY <1>1, <3>1, <3>2
    <3>5. its \in Route /\ its # last
      BY <1>1, <2>2, Routes
    <3>6. CASE r = its
      <4>1. AdvanceTrail(tr, r) = Append(parents, r)
        BY <1>3, <2>2, <3>6 DEF AdvanceTrail
      <4> QED
        BY <3>3, <4>1, TrailFurther
    <3>7. CASE r # its /\ r[1] = "read"
      <4>1. CASE parents # <<>> /\ Last(parents) = its
        <5>1. AdvanceTrail(tr, r) = Append(Append(Front(parents), Page(r[2])), r)
          BY <1>3, <2>2, <3>7, <4>1 DEF AdvanceTrail
        <5>2. Len(parents) > 1
          BY <3>3, <4>1 DEF TrailOK, Last, Library, Page
        <5>3. /\ Front(parents) = SubSeq(parents, 1, Len(parents) - 1)
              /\ Len(parents) - 1 \in 1 .. Len(parents)
          BY <1>1, <3>4, <5>2 DEF Front
        <5>4. TrailOK(Front(parents))
          BY <3>3, <5>3, TrailCut
        <5>5. Page(r[2]) \in Route /\ Page(r[2])[1] = "book" /\ Page(r[2]) # r
          BY <3>7, Routes DEF Page
        <5> DEFINE front == Append(Front(parents), Page(r[2]))
        <5>6. TrailOK(front) /\ Last(front) = Page(r[2])
          BY <5>4, <5>5, TrailFurther
        <5> HIDE DEF front
        <5>7. TrailOK(Append(front, r)) /\ Last(Append(front, r)) = r
          BY <5>5, <5>6, TrailFurther
        <5> QED
          BY <5>1, <5>7 DEF front
      <4>2. CASE ~(parents # <<>> /\ Last(parents) = its)
        <5>1. AdvanceTrail(tr, r) = Append(parents, r)
          BY <1>3, <2>2, <3>7, <4>2 DEF AdvanceTrail
        <5> QED
          BY <3>3, <5>1, TrailFurther
      <4> QED
        BY <4>1, <4>2
    <3>8. CASE r # its /\ r[1] # "read"
      <4>1. AdvanceTrail(tr, r) = Append(tr, r) /\ Last(tr) # r
        BY <1>1, <1>3, <2>1, <2>2, <3>8 DEF AdvanceTrail, Last
      <4> QED
        BY <4>1, TrailFurther
    <3> QED
      BY <3>6, <3>7, <3>8
  <2>3. CASE last[1] # "read"
    <3>1. AdvanceTrail(tr, r) = Append(tr, r) /\ Last(tr) # r
      BY <1>1, <1>3, <2>1, <2>3 DEF AdvanceTrail, Last
    <3> QED
      BY <3>1, TrailFurther
  <2> QED
    BY <2>2, <2>3
<1> QED
  BY <1>2, <1>3

LEMMA TrailBegins ==
    ASSUME NEW r \in Route PROVE TrailOK(DefaultTrail(r)) /\ Last(DefaultTrail(r)) = r
PROOF
<1>1. CASE r = Library
  BY <1>1, Routes DEF DefaultTrail, TrailOK, Last
<1>2. CASE r # Library /\ r[1] = "read"
  <2>1. Page(r[2]) \in Route /\ Page(r[2]) # r /\ Page(r[2]) # Library
    BY <1>2, Routes DEF Page, Library
  <2> DEFINE s == <<Library, Page(r[2]), r>>
  <2>2. s \in Seq(Route) /\ Len(s) = 3 /\ s[1] = Library /\ s[2] = Page(r[2]) /\ s[3] = r
    BY <2>1, Routes
  <2>3. DefaultTrail(r) = s
    BY <1>2 DEF DefaultTrail
  <2> HIDE DEF s
  <2>4. \A i \in 1 .. Len(s) - 1 : s[i] # s[i + 1]
    <3>1. \A i \in 1 .. Len(s) - 1 : i = 1 \/ i = 2
      BY <2>2
    <3> QED
      BY <2>1, <2>2, <3>1, 1 + 1 = 2, 2 + 1 = 3
  <2>5. TrailOK(s) /\ Last(s) = r
    BY <2>2, <2>4 DEF TrailOK, Last
  <2> QED
    BY <2>3, <2>5
<1>3. CASE r # Library /\ r[1] # "read"
  <2> DEFINE s == <<Library, r>>
  <2>1. s \in Seq(Route) /\ Len(s) = 2 /\ s[1] = Library /\ s[2] = r
    BY Routes
  <2>2. DefaultTrail(r) = s
    BY <1>3 DEF DefaultTrail
  <2> HIDE DEF s
  <2>3. \A i \in 1 .. Len(s) - 1 : s[i] # s[i + 1]
    <3>1. \A i \in 1 .. Len(s) - 1 : i = 1
      BY <2>1
    <3> QED
      BY <1>3, <2>1, <3>1, 1 + 1 = 2
  <2>4. TrailOK(s) /\ Last(s) = r
    BY <2>1, <2>3 DEF TrailOK, Last
  <2> QED
    BY <2>2, <2>4
<1> QED
  BY <1>1, <1>2, <1>3

\* Two neighbours of the history are two routes: a move by one entry is told to the App.
Apart == \A i \in DOMAIN entries : i + 1 \in DOMAIN entries => entries[i].route # entries[i + 1].route

\* Taking turns, there is one thing under way: an event not handled, the one question that
\* is still open, about the address, or a history.go() on its way to the page's own entry.
\* When nothing is, the address is the page's.
Live == {a \in asks : a.kind = "move" /\ a.live}
InTurn ==
    /\ events \in {0, 1} /\ (events = 1 => going = <<>>)
    /\ ~bounced
    /\ \A a, b \in Live : a = b
    /\ going # <<>> => going = <<position + 1 - index>> /\ Address # active /\ Live = {}
    /\ events = 0 => /\ \A a \in Live : a.route = Address /\ a.pos = index - 1 /\ Address # active
                     /\ going = <<>> /\ Live = {} => Address = active
PlaceInv ==
    /\ PlaceTypes /\ numbered \in BOOLEAN /\ calm \in BOOLEAN /\ Apart
    /\ TrailOK(trail) /\ Last(trail) = active
    /\ numbered => Numbered
    /\ numbered /\ calm /\ locks = 0 => InTurn

Histories == numbered' = (numbered /\ Numbered') /\ calm' = (calm /\ TakesTurns)

LEMMA HistoriesGrow ==
    ASSUME PlaceInv, Histories
    PROVE  /\ numbered' \in BOOLEAN /\ calm' \in BOOLEAN
           /\ numbered' => numbered /\ Numbered /\ Numbered'
           /\ calm' => calm /\ TakesTurns
PROOF
<1>1. numbered \in BOOLEAN /\ calm \in BOOLEAN
  BY DEF PlaceInv
<1>2. Numbered' \in BOOLEAN /\ TakesTurns \in BOOLEAN
  BY DEF Numbered, TakesTurns
<1> QED
  BY <1>1, <1>2 DEF Histories, PlaceInv

LEMMA PlaceStands ==
    ASSUME PlaceInv, Histories,
           UNCHANGED <<entries, index, events, going, active, position, trail, bounced>>,
           PlaceTypes', locks' = 0 => locks = 0 /\ Live' = Live
    PROVE  PlaceInv'
PROOF
<1>1. Apart' /\ TrailOK(trail') /\ Last(trail') = active'
  BY DEF PlaceInv, Apart
<1>2. numbered' => Numbered'
  BY HistoriesGrow
<1>3. numbered' /\ calm' /\ locks' = 0 => InTurn'
  <2>1. numbered' /\ calm' /\ locks' = 0 => InTurn /\ Live' = Live
    BY HistoriesGrow DEF PlaceInv
  <2>2. Address' = Address
    BY DEF Address
  <2> QED
    BY <2>1, <2>2 DEF InTurn
<1> QED
  BY <1>1, <1>2, <1>3, HistoriesGrow DEF PlaceInv

\* The user moves.
LEMMA Pushed ==
    ASSUME PlaceInv, NEW r \in Route, Push(r)
    PROVE  /\ entries' \in Seq(Entry) /\ index' \in DOMAIN entries' /\ Apart'
           /\ events' = events + 1 /\ index' # index
PROOF
<1> DEFINE old == SubSeq(entries, 1, index)
           new == [route |-> r, pos |-> None]
<1>1. entries \in Seq(Entry) /\ index \in 1 .. Len(entries) /\ events \in Nat
  BY DEF PlaceInv, PlaceTypes
<1>2. old \in Seq(Entry) /\ Len(old) = index /\ \A i \in 1 .. index : old[i] = entries[i]
  BY <1>1
<1>3. new \in Entry /\ new.route = r
  BY DEF Entry
<1>4. entries' = Append(old, new) /\ index' = index + 1 /\ events' = events + 1 /\ r # entries[index].route
  BY DEF Push, Address
<1> HIDE DEF old, new
<1>5. /\ entries' \in Seq(Entry) /\ Len(entries') = index + 1 /\ entries'[index + 1] = new
      /\ \A i \in 1 .. index : entries'[i] = entries[i]
  BY <1>1, <1>2, <1>3, <1>4
<1>6. ASSUME NEW i \in DOMAIN entries', i + 1 \in DOMAIN entries'
      PROVE  entries'[i].route # entries'[i + 1].route
  <2>1. i \in 1 .. index
    BY <1>1, <1>5, <1>6
  <2>2. CASE i = index
    BY <1>3, <1>4, <1>5, <2>1, <2>2
  <2>3. CASE i # index
    <3>1. i \in 1 .. Len(entries) /\ i + 1 \in 1 .. Len(entries) /\ i + 1 \in 1 .. index
      BY <1>1, <2>1, <2>3
    <3> QED
      BY <1>1, <1>5, <2>1, <3>1 DEF PlaceInv, Apart
  <2> QED
    BY <2>2, <2>3
<1> QED
  BY <1>1, <1>4, <1>5, <1>6 DEF Apart

LEMMA ClickPlaces == ASSUME PlaceInv, Histories, NEW r \in Route, Click(r) PROVE PlaceInv'
PROOF
<1>1. Push(r) /\ going' = going
  BY DEF Click, Push
<1>2. UNCHANGED <<active, position, trail, asks, draft, saving, auth, signingOut, bounced>>
  BY DEF Click, Still, page, session
<1>3. moves' = moves + 1 /\ UNCHANGED <<changes, locks, reloads>>
  BY DEF Click, User
<1>4. PlaceTypes' /\ Apart'
  BY <1>1, <1>2, <1>3, Pushed DEF PlaceInv, PlaceTypes
<1>5. numbered' /\ calm' /\ locks' = 0 => InTurn'
  <2>1. SUFFICES ASSUME numbered', calm', locks' = 0 PROVE InTurn'
    OBVIOUS
  <2>2. InTurn /\ TakesTurns
    BY <1>3, <2>1, HistoriesGrow DEF PlaceInv
  <2>3. events' = events + 1 /\ index' # index /\ events \in Nat /\ moves' # moves
    BY <1>1, <1>3, Pushed DEF PlaceInv, PlaceTypes
  <2>4. events = 0 /\ going = <<>>
    BY <2>2, <2>3 DEF TakesTurns
  <2>5. Live' = Live
    BY <1>2 DEF Live
  <2> QED
    BY <1>1, <1>2, <2>2, <2>3, <2>4, <2>5 DEF InTurn
<1>6. numbered' => Numbered'
  BY HistoriesGrow
<1> QED
  BY <1>2, <1>4, <1>5, <1>6, HistoriesGrow DEF PlaceInv

LEMMA BackPlaces == ASSUME PlaceInv, Histories, NEW d \in {-1, 1}, BackOrForward(d) PROVE PlaceInv'
PROOF
<1>1. /\ index + d \in DOMAIN entries /\ index' = index + d /\ UNCHANGED <<entries, going>>
      /\ events' = IF entries[index + d].route = Address THEN events ELSE events + 1
  BY DEF BackOrForward, Traverse
<1>2. UNCHANGED <<active, position, trail, asks, draft, saving, auth, signingOut, bounced>>
  BY DEF BackOrForward, Still, page, session
<1>3. moves' = moves + 1 /\ UNCHANGED <<changes, locks, reloads>>
  BY DEF BackOrForward, User
<1>4. entries \in Seq(Entry) /\ index \in DOMAIN entries /\ DOMAIN entries = 1 .. Len(entries) /\ events \in Nat
  BY DEF PlaceInv, PlaceTypes
<1>5. entries[index + d].route # Address
  <2>1. CASE d = 1
    BY <1>1, <1>4, <2>1 DEF PlaceInv, Apart, Address
  <2>2. CASE d = -1
    <3>1. index - 1 \in DOMAIN entries /\ (index - 1) + 1 = index
      BY <1>1, <1>4, <2>2
    <3>2. entries[index - 1].route # entries[index].route
      BY <1>4, <3>1 DEF PlaceInv, Apart
    <3>3. index + d = index - 1
      BY <1>4, <2>2
    <3> QED
      BY <3>2, <3>3 DEF Address
  <2> QED
    BY <2>1, <2>2
<1>6. events' = events + 1 /\ index' # index
  BY <1>1, <1>4, <1>5
<1>7. PlaceTypes' /\ Apart'
  <2>1. events' \in Nat /\ index' \in DOMAIN entries'
    BY <1>1, <1>4, <1>6
  <2> QED
    BY <1>1, <1>2, <1>3, <2>1 DEF PlaceInv, PlaceTypes, Apart
<1>8. numbered' /\ calm' /\ locks' = 0 => InTurn'
  <2>1. SUFFICES ASSUME numbered', calm', locks' = 0 PROVE InTurn'
    OBVIOUS
  <2>2. InTurn /\ TakesTurns
    BY <1>3, <2>1, HistoriesGrow DEF PlaceInv
  <2>3. moves' # moves
    BY <1>3 DEF PlaceInv, PlaceTypes
  <2>4. events = 0 /\ going = <<>>
    BY <1>4, <1>6, <2>2, <2>3 DEF TakesTurns
  <2>5. Live' = Live
    BY <1>2 DEF Live
  <2> QED
    BY <1>1, <1>2, <1>6, <2>2, <2>4, <2>5 DEF InTurn
<1>9. numbered' => Numbered'
  BY HistoriesGrow
<1> QED
  BY <1>2, <1>7, <1>8, <1>9, HistoriesGrow DEF PlaceInv

\* A new document.
LEMMA RestartPlaces ==
    ASSUME PlaceInv, Histories, Restart, UNCHANGED <<moves, changes, locks>>, reloads' \in Nat,
           bounced' \in BOOLEAN, numbered' /\ calm' /\ locks' = 0 => ~bounced'
    PROVE  PlaceInv'
PROOF
<1>1. entries \in Seq(Entry) /\ index \in 1 .. Len(entries) /\ index' = index
  BY DEF PlaceInv, PlaceTypes, Restart
<1> DEFINE first == [entries[index] EXCEPT !.pos = 0]
<1>2. entries[index] \in Entry /\ first \in Entry /\ first.route = entries[index].route
  <2>1. entries[index] \in Entry
    BY <1>1
  <2> QED
    BY <2>1 DEF Entry
<1>3. entries' = [entries EXCEPT ![index] = first]
  BY DEF Restart
<1> HIDE DEF first
<1>4. /\ entries' \in Seq(Entry) /\ Len(entries') = Len(entries)
      /\ \A i \in 1 .. Len(entries) : entries'[i].route = entries[i].route
  BY <1>1, <1>2, <1>3
<1>5. Address' = Address /\ Address \in Route
  BY <1>1, <1>2, <1>4 DEF Address, Entry
<1>6. /\ active' = Address /\ events' = 0 /\ going' = <<>> /\ asks' = {} /\ position' = 0
      /\ saving' = "none" /\ draft' = FALSE /\ auth' = "checking" /\ signingOut' = FALSE
  BY DEF Restart
<1>7. TrailOK(trail') /\ Last(trail') = active'
  BY <1>5, TrailBegins DEF Restart, PlaceInv
<1>8. PlaceTypes'
  <2>1. index' \in DOMAIN entries' /\ going' \in Seq(Int) /\ active' \in Route /\ trail' \in Seq(Route)
    BY <1>1, <1>4, <1>5, <1>6, <1>7 DEF TrailOK
  <2>2. UNCHANGED <<moves, changes, locks>> /\ {moves, changes, locks} \subseteq Nat
    BY DEF PlaceInv, PlaceTypes
  <2> QED
    BY <1>4, <1>6, <2>1, <2>2 DEF PlaceTypes
<1>9. Apart'
  BY <1>1, <1>4 DEF PlaceInv, Apart
<1>10. numbered' /\ calm' /\ locks' = 0 => InTurn'
  BY <1>5, <1>6 DEF InTurn, Live
<1>11. numbered' => Numbered'
  BY HistoriesGrow
<1> QED
  BY <1>7, <1>8, <1>9, <1>10, <1>11, HistoriesGrow DEF PlaceInv

LEMMA GonePlaces == ASSUME PlaceInv, Histories, Gone PROVE PlaceInv'
PROOF
<1>1. /\ entries \in Seq(Entry) /\ index \in DOMAIN entries /\ DOMAIN entries = 1 .. Len(entries)
      /\ events \in Nat /\ position \in Nat /\ going \in Seq(Int) /\ going # <<>>
  BY DEF PlaceInv, PlaceTypes, Gone
<1>2. UNCHANGED <<moves, changes, locks, reloads>>
  BY DEF Gone, counts
<1>3. numbered' => Numbered'
  BY HistoriesGrow
\* On its way to the page's own entry, and to no other.
<1>4. ASSUME numbered', calm', locks' = 0
      PROVE  /\ InTurn /\ TakesTurns /\ Head(going) = position + 1 - index /\ Tail(going) = <<>>
             /\ position + 1 \in DOMAIN entries /\ entries[position + 1].route = active
             /\ Address # active /\ Head(going) # 0 /\ events = 0
  <2>1. InTurn /\ TakesTurns /\ Numbered
    BY <1>2, <1>4, HistoriesGrow DEF PlaceInv
  <2>2. going = <<position + 1 - index>> /\ Address # active /\ events = 0
    BY <1>1, <2>1 DEF InTurn
  <2>3. Head(going) = position + 1 - index /\ Tail(going) = <<>>
    BY <2>2
  <2>4. Head(going) # 0
    <3>1. SUFFICES ASSUME Head(going) = 0 PROVE FALSE
      OBVIOUS
    <3>2. position + 1 = index
      BY <1>1, <2>3, <3>1
    <3> QED
      BY <2>1, <2>2, <3>2 DEF Numbered, Address
  <2> QED
    BY <2>1, <2>2, <2>3, <2>4 DEF Numbered
<1>5. CASE Restart /\ bounced' = TRUE /\ Head(going) = 0
  <2>1. ~(numbered' /\ calm' /\ locks' = 0)
    BY <1>4, <1>5
  <2>2. reloads' \in Nat
    BY <1>2 DEF PlaceInv, PlaceTypes
  <2> QED
    BY <1>2, <1>5, <2>1, <2>2, RestartPlaces
<1>6. CASE Still /\ UNCHANGED <<entries, index, events>> /\ going' = Tail(going) /\ Head(going) = 0
  <2>1. ~(numbered' /\ calm' /\ locks' = 0)
    BY <1>4, <1>6
  <2>2. going' \in Seq(Int)
    BY <1>1, <1>6
  <2> QED
    BY <1>2, <1>3, <1>6, <2>1, <2>2, HistoriesGrow DEF Still, page, session, PlaceInv, PlaceTypes, Apart
<1>7. CASE /\ Head(going) # 0 /\ Still /\ going' = Tail(going)
           /\ IF index + Head(going) \in DOMAIN entries
              THEN Traverse(Head(going)) ELSE UNCHANGED <<entries, index, events>>
  <2>1. UNCHANGED <<active, position, trail, asks, draft, saving, auth, signingOut, bounced>>
    BY <1>7 DEF Still, page, session
  <2>2. going' \in Seq(Int) /\ entries' = entries /\ index' \in DOMAIN entries' /\ events' \in Nat
    BY <1>1, <1>7 DEF Traverse
  <2>3. PlaceTypes' /\ Apart'
    BY <1>2, <2>1, <2>2 DEF PlaceInv, PlaceTypes, Apart
  <2>4. numbered' /\ calm' /\ locks' = 0 => InTurn'
    <3>1. SUFFICES ASSUME numbered', calm', locks' = 0 PROVE InTurn'
      OBVIOUS
    <3>2. index + Head(going) = position + 1
      BY <1>1, <1>4, <3>1
    <3>3. index' = position + 1 /\ events' = 1
      BY <1>4, <1>7, <3>1, <3>2 DEF Traverse
    <3>4. Live' = Live
      BY <2>1 DEF Live
    <3> QED
      BY <1>4, <1>7, <2>1, <3>1, <3>3, <3>4 DEF InTurn
  <2> QED
    BY <1>3, <2>1, <2>3, <2>4, HistoriesGrow DEF PlaceInv
<1> QED
  BY <1>5, <1>6, <1>7 DEF Gone

\* What becomes of the questions when another is asked.
LEMMA SupersededAsks ==
    ASSUME PlaceTypes
    PROVE  /\ Superseded \subseteq Ask
           /\ \A a \in Superseded : a.kind = "move" => a.pos \in Nat /\ ~a.live
PROOF
<1>1. ASSUME NEW a \in asks
      PROVE  LET b == [a EXCEPT !.live = a.live /\ a.kind = "signout"]
             IN  b \in Ask /\ (b.kind = "move" => b.pos \in Nat /\ ~b.live)
  <2>1. a \in Ask /\ (a.kind = "move" => a.pos \in Nat)
    BY DEF PlaceTypes
  <2>2. (a.live /\ a.kind = "signout") \in BOOLEAN
    OBVIOUS
  <2> QED
    BY <2>1, <2>2 DEF Ask
<1> QED
  BY <1>1 DEF Superseded

LEMMA LockedAsks ==
    ASSUME PlaceTypes, NEW a \in asks
    PROVE  LET b == [a EXCEPT !.here = FALSE, !.live = a.live /\ a.kind = "signout"]
           IN  b \in Ask /\ (b.kind = "move" => b.pos \in Nat)
PROOF
<1>1. a \in Ask /\ (a.kind = "move" => a.pos \in Nat)
  BY DEF PlaceTypes
<1>2. (a.live /\ a.kind = "signout") \in BOOLEAN
  OBVIOUS
<1> QED
  BY <1>1, <1>2 DEF Ask

\* The page is left, or stays.
LEMMA AcceptedPlaces ==
    ASSUME PlaceInv, NEW r \in Route, NEW pos \in Nat, NEW rest, Accepted(r, pos, rest),
           rest \subseteq Ask, \A a \in rest : a.kind = "move" => a.pos \in Nat
    PROVE  /\ active' = r /\ position' = pos /\ asks' = rest /\ going' = going
           /\ active' \in Route /\ position' \in Nat /\ trail' \in Seq(Route) /\ going' \in Seq(Int)
           /\ asks' \subseteq Ask /\ \A a \in asks' : a.kind = "move" => a.pos \in Nat
           /\ draft' \in BOOLEAN /\ saving' \in {"none", "pending", "failed"}
           /\ TrailOK(trail') /\ Last(trail') = active'
PROOF
<1>1. trail' = AdvanceTrail(trail, r) /\ TrailOK(trail)
  BY DEF Accepted, PlaceInv
<1>2. TrailOK(trail') /\ Last(trail') = r
  BY <1>1, TrailAdvances
<1> QED
  BY <1>2 DEF Accepted, Left, TrailOK, PlaceInv, PlaceTypes

LEMMA RefusedPlaces ==
    ASSUME PlaceInv, NEW pos \in Nat, NEW rest, Refused(pos, rest),
           rest \subseteq Ask, \A a \in rest : a.kind = "move" => a.pos \in Nat
    PROVE  /\ active' = active /\ position' = position /\ asks' = rest
           /\ going' = Append(going, position - pos)
           /\ active' \in Route /\ position' \in Nat /\ trail' \in Seq(Route) /\ going' \in Seq(Int)
           /\ asks' \subseteq Ask /\ \A a \in asks' : a.kind = "move" => a.pos \in Nat
           /\ draft' \in BOOLEAN /\ saving' \in {"none", "pending", "failed"}
           /\ TrailOK(trail') /\ Last(trail') = active'
PROOF
<1>1. going \in Seq(Int) /\ position - pos \in Int
  BY DEF PlaceInv, PlaceTypes
<1>2. going' = Append(going, position - pos) /\ going' \in Seq(Int)
  BY <1>1 DEF Refused
<1> QED
  BY <1>2 DEF Refused, page, TrailOK, PlaceInv, PlaceTypes

\* The hashchange handler.
LEMMA ChangePlaces == ASSUME PlaceInv, Histories, Change PROVE PlaceInv'
PROOF
<1> DEFINE pos == IF entries[index].pos = None THEN position + 1 ELSE entries[index].pos
           new == [entries[index] EXCEPT !.pos = pos]
           ask == [kind |-> "move", route |-> Address, pos |-> pos, live |-> TRUE, here |-> TRUE]
<1>1. /\ entries \in Seq(Entry) /\ index \in 1 .. Len(entries) /\ index' = index
      /\ events \in Nat /\ events > 0 /\ events' = events - 1 /\ position \in Nat
  BY DEF Change, PlaceInv, PlaceTypes
<1>2. UNCHANGED <<auth, signingOut, moves, changes, locks, reloads, bounced>>
  BY DEF Change, session, counts
<1>3. /\ Superseded \subseteq Ask
      /\ \A a \in Superseded : a.kind = "move" => a.pos \in Nat /\ ~a.live
  BY SupersededAsks DEF PlaceInv
<1>4. numbered' => Numbered'
  BY HistoriesGrow
<1>5. numbered' /\ calm' /\ locks' = 0 => InTurn /\ events' = 0 /\ going = <<>>
  BY <1>1, <1>2, HistoriesGrow DEF PlaceInv, InTurn
<1>6. entries[index] \in Entry /\ Address = entries[index].route /\ Address \in Route
  <2>1. entries[index] \in Entry
    BY <1>1
  <2> QED
    BY <2>1 DEF Entry, Address
<1>7. pos \in Nat /\ new \in Entry /\ new.route = Address /\ new.pos = pos
  BY <1>1, <1>6 DEF Entry, None
<1>8. CASE Address = active
  <2>1. asks' = Superseded /\ UNCHANGED <<entries, going, active, position, trail, draft, saving>>
    BY <1>8 DEF Change, page
  <2>2. PlaceTypes' /\ Apart'
    BY <1>1, <1>2, <1>3, <2>1 DEF PlaceInv, PlaceTypes, Apart
  <2>3. Live' = {} /\ Address' = active'
    BY <1>1, <1>3, <1>8, <2>1 DEF Live, Address
  <2>4. numbered' /\ calm' /\ locks' = 0 => InTurn'
    BY <1>2, <1>5, <2>1, <2>3 DEF InTurn
  <2> QED
    BY <1>4, <2>1, <2>2, <2>4, HistoriesGrow DEF PlaceInv
<1>9. CASE Address # active
  <2>1. entries' = [entries EXCEPT ![index] = new]
    BY <1>9 DEF Change
  <2>2. \/ Waits /\ asks' = Superseded \cup {ask} /\ UNCHANGED <<going, active, position, trail, draft, saving>>
        \/ Accepted(Address, pos, Superseded)
        \/ Refused(pos, Superseded)
    BY <1>9 DEF Change, page
  <2> HIDE DEF pos, new
  <2>3. /\ entries' \in Seq(Entry) /\ Len(entries') = Len(entries)
        /\ entries'[index] = new
        /\ \A i \in 1 .. Len(entries) : entries'[i].route = entries[i].route
    BY <1>1, <1>6, <1>7, <2>1
  <2>4. Apart' /\ Address' = Address
    BY <1>1, <1>6, <1>7, <2>3 DEF PlaceInv, Apart, Address
  <2>5. numbered' => pos = index - 1
    <3>1. numbered' => entries'[index].pos \in {None, index - 1}
      BY <1>1, <1>4, <2>3 DEF Numbered
    <3> QED
      BY <1>7, <2>3, <3>1 DEF None
  <2>6. index' \in DOMAIN entries' /\ events' \in Nat
    BY <1>1, <2>3
  <2>7. CASE Waits /\ asks' = Superseded \cup {ask} /\ UNCHANGED <<going, active, position, trail, draft, saving>>
    <3>1. ask \in Ask /\ ask.kind = "move" /\ ask.live /\ ask.route = Address /\ ask.pos = pos
      BY <1>6, <1>7 DEF Ask
    <3> HIDE DEF ask
    <3>2. PlaceTypes'
      BY <1>2, <1>3, <1>7, <2>3, <2>6, <2>7, <3>1 DEF PlaceInv, PlaceTypes
    <3>3. Live' = {ask}
      BY <1>3, <2>7, <3>1 DEF Live
    <3>4. numbered' /\ calm' /\ locks' = 0 => InTurn'
      BY <1>1, <1>2, <1>5, <1>9, <2>4, <2>5, <2>7, <3>1, <3>3 DEF InTurn
    <3> QED
      BY <1>4, <2>4, <2>7, <3>2, <3>4, HistoriesGrow DEF PlaceInv
  <2>8. CASE Accepted(Address, pos, Superseded)
    <3>1. /\ active' = Address /\ asks' = Superseded /\ going' = going
          /\ active' \in Route /\ position' \in Nat /\ trail' \in Seq(Route) /\ going' \in Seq(Int)
          /\ asks' \subseteq Ask /\ \A a \in asks' : a.kind = "move" => a.pos \in Nat
          /\ draft' \in BOOLEAN /\ saving' \in {"none", "pending", "failed"}
          /\ TrailOK(trail') /\ Last(trail') = active'
      BY <1>3, <1>6, <1>7, <2>8, AcceptedPlaces
    <3>2. PlaceTypes'
      BY <1>2, <2>3, <2>6, <3>1 DEF PlaceInv, PlaceTypes
    <3>3. Live' = {}
      BY <1>3, <3>1 DEF Live
    <3>4. numbered' /\ calm' /\ locks' = 0 => InTurn'
      BY <1>2, <1>5, <2>4, <3>1, <3>3 DEF InTurn
    <3> QED
      BY <1>4, <2>4, <3>1, <3>2, <3>4, HistoriesGrow DEF PlaceInv
  <2>9. CASE Refused(pos, Superseded)
    <3>1. /\ active' = active /\ position' = position /\ asks' = Superseded
          /\ going' = Append(going, position - pos)
          /\ active' \in Route /\ position' \in Nat /\ trail' \in Seq(Route) /\ going' \in Seq(Int)
          /\ asks' \subseteq Ask /\ \A a \in asks' : a.kind = "move" => a.pos \in Nat
          /\ draft' \in BOOLEAN /\ saving' \in {"none", "pending", "failed"}
          /\ TrailOK(trail') /\ Last(trail') = active'
      BY <1>3, <1>7, <2>9, RefusedPlaces
    <3>2. PlaceTypes'
      BY <1>2, <2>3, <2>6, <3>1 DEF PlaceInv, PlaceTypes
    <3>3. Live' = {}
      BY <1>3, <3>1 DEF Live
    <3>4. ASSUME numbered', calm', locks' = 0 PROVE InTurn'
      <4>1. position - pos = position + 1 - index
        BY <1>1, <2>5, <3>4
      <4>2. going' = <<position + 1 - index>>
        BY <1>5, <3>1, <3>4, <4>1
      <4>3. position' = position /\ index' = index /\ events' = 0 /\ ~bounced' /\ Address' # active'
        BY <1>1, <1>2, <1>5, <1>9, <2>4, <3>1, <3>4 DEF InTurn
      <4>4. going' = <<position' + 1 - index'>> /\ going' # <<>>
        BY <4>2, <4>3
      <4> QED
        BY <3>3, <4>3, <4>4 DEF InTurn
    <3> QED
      BY <1>4, <2>4, <3>1, <3>2, <3>4, HistoriesGrow DEF PlaceInv
  <2> QED
    BY <2>2, <2>7, <2>8, <2>9
<1> QED
  BY <1>8, <1>9

\* The guard's answer to a move, after the saves it waited for.
LEMMA MoveAnsweredPlaces ==
    ASSUME PlaceInv, Histories, NEW a \in asks, MoveAnswered(a) PROVE PlaceInv'
PROOF
<1> DEFINE rest == asks \ {a}
<1>1. UNCHANGED <<entries, index, events, auth, signingOut, moves, changes, locks, reloads, bounced>>
  BY DEF MoveAnswered, session, counts
<1>2. /\ a \in Ask /\ a.kind = "move" /\ a.pos \in Nat /\ a.route \in Route
      /\ rest \subseteq Ask /\ \A b \in rest : b.kind = "move" => b.pos \in Nat
  BY DEF MoveAnswered, PlaceInv, PlaceTypes, Ask
<1>3. numbered' => Numbered'
  BY HistoriesGrow
<1>4. Address' = Address /\ Apart'
  BY <1>1 DEF Address, PlaceInv, Apart
<1>5. /\ numbered' /\ calm' /\ locks' = 0 => InTurn /\ TakesTurns
      /\ index \in Nat /\ position \in Nat /\ going \in Seq(Int)
  BY <1>1, HistoriesGrow DEF PlaceInv, PlaceTypes
<1>6. CASE ~a.live
  <2>1. asks' = rest /\ UNCHANGED <<going, active, position, trail, draft, saving>>
    BY <1>6 DEF MoveAnswered, page
  <2>2. PlaceTypes'
    BY <1>1, <1>2, <2>1 DEF PlaceInv, PlaceTypes
  <2>3. Live' = Live
    BY <1>6, <2>1 DEF Live
  <2> QED
    BY <1>1, <2>1, <2>2, <2>3, PlaceStands
\* The one question still open: it is about the address, unless a move has been told to the
\* App since, and then the answer changes nothing that move depends on.
<1>7. ASSUME a.live, asks' = rest, numbered', calm', locks' = 0
      PROVE  /\ a \in Live /\ Live' = {} /\ going = <<>>
             /\ \/ events = 0 /\ a.route = Address /\ a.pos = index - 1 /\ Address # active
                \/ events = 1 /\ UNCHANGED <<going, active>>
  <2>1. InTurn /\ TakesTurns /\ a \in Live
    BY <1>2, <1>5, <1>7 DEF Live
  <2>2. Live' = {}
    BY <1>7, <2>1 DEF Live, InTurn
  <2>3. going = <<>>
    BY <2>1 DEF InTurn
  <2>4. events = 0 \/ events = 1
    BY <2>1 DEF InTurn
  <2>5. CASE events = 0
    BY <2>1, <2>2, <2>3, <2>5 DEF InTurn
  <2>6. CASE events = 1
    <3>1. ~(events' < events) /\ events # 0
      BY <1>1, <2>6
    <3> QED
      BY <2>1, <2>2, <2>3, <2>6, <3>1 DEF TakesTurns
  <2> QED
    BY <2>4, <2>5, <2>6
<1>8. CASE a.live /\ Accepted(a.route, a.pos, rest)
  <2>1. /\ active' = a.route /\ asks' = rest /\ going' = going
        /\ active' \in Route /\ position' \in Nat /\ trail' \in Seq(Route) /\ going' \in Seq(Int)
        /\ asks' \subseteq Ask /\ \A b \in asks' : b.kind = "move" => b.pos \in Nat
        /\ draft' \in BOOLEAN /\ saving' \in {"none", "pending", "failed"}
        /\ TrailOK(trail') /\ Last(trail') = active'
    BY <1>2, <1>8, AcceptedPlaces
  <2>2. PlaceTypes'
    BY <1>1, <2>1 DEF PlaceInv, PlaceTypes
  <2>3. ASSUME numbered', calm', locks' = 0 PROVE InTurn'
    <3>1. InTurn /\ Live' = {} /\ going = <<>>
      BY <1>5, <1>7, <1>8, <2>1, <2>3
    <3>2. events = 0 => Address' = active'
      BY <1>4, <1>7, <1>8, <2>1, <2>3
    <3> QED
      BY <1>1, <2>1, <3>1, <3>2 DEF InTurn
  <2> QED
    BY <1>3, <1>4, <2>1, <2>2, <2>3, HistoriesGrow DEF PlaceInv
<1>9. CASE a.live /\ Refused(a.pos, rest)
  <2>1. /\ active' = active /\ position' = position /\ asks' = rest
        /\ going' = Append(going, position - a.pos)
        /\ active' \in Route /\ position' \in Nat /\ trail' \in Seq(Route) /\ going' \in Seq(Int)
        /\ asks' \subseteq Ask /\ \A b \in asks' : b.kind = "move" => b.pos \in Nat
        /\ draft' \in BOOLEAN /\ saving' \in {"none", "pending", "failed"}
        /\ TrailOK(trail') /\ Last(trail') = active'
    BY <1>2, <1>9, RefusedPlaces
  <2>2. PlaceTypes'
    BY <1>1, <2>1 DEF PlaceInv, PlaceTypes
  <2>3. ASSUME numbered', calm', locks' = 0 PROVE InTurn'
    <3>1. InTurn /\ Live' = {} /\ going = <<>>
      BY <1>5, <1>7, <1>9, <2>1, <2>3
    <3>2. going' = <<position - a.pos>>
      BY <2>1, <3>1
    <3>3. going' # going
      BY <3>1, <3>2
    <3>4. events = 0 /\ a.pos = index - 1 /\ Address # active
      BY <1>7, <1>9, <2>1, <2>3, <3>3
    <3>5. going' = <<position + 1 - index>>
      BY <1>5, <3>2, <3>4
    <3> QED
      BY <1>1, <1>4, <2>1, <3>1, <3>4, <3>5 DEF InTurn
  <2> QED
    BY <1>3, <1>4, <2>1, <2>2, <2>3, HistoriesGrow DEF PlaceInv
<1> QED
  BY <1>6, <1>8, <1>9 DEF MoveAnswered

\* Signing out, work on the page and the session leave the place alone; a lock ends what was
\* asked for.
LEMMA SignOutPlaces ==
    ASSUME PlaceInv, Histories, SignOut \/ \E a \in asks : SignOutAnswered(a) PROVE PlaceInv'
PROOF
<1> DEFINE ask == [kind |-> "signout", route |-> active, pos |-> None, live |-> ~signingOut,
                   here |-> TRUE]
<1>1. UNCHANGED <<entries, index, events, going, active, position, trail, bounced, locks>>
  BY DEF SignOut, SignOutAnswered, Outside, browser, User, counts
<1>2. ask \in Ask /\ ask.kind = "signout"
  BY DEF Ask, PlaceInv, PlaceTypes
<1> HIDE DEF ask
<1>3. \/ asks' = asks
      \/ asks' = asks \cup {ask}
      \/ \E a \in asks : a.kind = "signout" /\ asks' = asks \ {a}
  BY DEF SignOut, SignOutAnswered, SignedOut, ask
<1>4. Live' = Live /\ asks' \subseteq Ask /\ \A a \in asks' : a.kind = "move" => a.pos \in Nat
  BY <1>2, <1>3 DEF Live, PlaceInv, PlaceTypes
<1>5. /\ draft' \in BOOLEAN /\ saving' \in {"none", "pending", "failed"}
      /\ auth' \in {"checking", "ready", "locked"} /\ signingOut' \in BOOLEAN
  BY DEF SignOut, SignOutAnswered, SignedOut, Left, page, session, PlaceInv, PlaceTypes
<1>6. UNCHANGED <<changes, reloads>> /\ (moves' = moves \/ moves' = moves + 1)
  BY DEF SignOut, SignOutAnswered, User, counts
<1>7. PlaceTypes'
  BY <1>1, <1>4, <1>5, <1>6 DEF PlaceInv, PlaceTypes
<1> QED
  BY <1>1, <1>4, <1>7, PlaceStands

LEMMA PagingPlaces == ASSUME PlaceInv, Histories, Paging PROVE PlaceInv'
PROOF
<1>1. UNCHANGED <<entries, index, events, going, active, position, trail, bounced, asks, locks,
                  auth, signingOut, moves, reloads>>
  BY DEF Paging, Draft, Resolved, Edit, SaveEnds, Working, browser, session
<1>2. /\ draft' \in BOOLEAN /\ saving' \in {"none", "pending", "failed"}
      /\ changes' = changes \/ changes' = changes + 1
  BY DEF Paging, Draft, Resolved, Edit, SaveEnds, PlaceInv, PlaceTypes
<1>3. PlaceTypes' /\ Live' = Live
  BY <1>1, <1>2 DEF PlaceInv, PlaceTypes, Live
<1> QED
  BY <1>1, <1>3, PlaceStands

LEMMA SessionPlaces ==
    ASSUME PlaceInv, Histories,
           (\E ok \in BOOLEAN : Checked(ok)) \/ Entered \/ Locked \/ SignOutEnds
    PROVE  PlaceInv'
PROOF
<1>1. UNCHANGED <<entries, index, events, going, active, position, trail, bounced, moves, changes, reloads>>
  BY DEF Checked, Entered, Locked, SignOutEnds, Outside, browser, counts
<1>2. auth' \in {"checking", "ready", "locked"} /\ signingOut' \in BOOLEAN
  BY DEF Checked, Entered, Locked, SignOutEnds, PlaceInv, PlaceTypes
<1>3. CASE Locked
  <2>1. \A a \in asks' : a \in Ask /\ (a.kind = "move" => a.pos \in Nat)
    BY <1>3, LockedAsks DEF Locked, PlaceInv
  <2>2. draft' \in BOOLEAN /\ saving' \in {"none", "pending", "failed"} /\ locks' = locks + 1
    BY <1>3 DEF Locked, Left
  <2>3. PlaceTypes' /\ locks' # 0
    BY <1>1, <1>2, <2>1, <2>2 DEF PlaceInv, PlaceTypes
  <2> QED
    BY <1>1, <2>3, PlaceStands
<1>4. CASE asks' = asks /\ UNCHANGED <<draft, saving, locks>>
  <2>1. PlaceTypes' /\ Live' = Live
    BY <1>1, <1>2, <1>4 DEF PlaceInv, PlaceTypes, Live
  <2> QED
    BY <1>1, <1>4, <2>1, PlaceStands
<1> QED
  BY <1>3, <1>4 DEF Checked, Entered, SignOutEnds, page, counts

LEMMA NextPlaces == ASSUME PlaceInv, Next PROVE PlaceInv'
PROOF
<1>1. Histories
  BY DEF Next, Histories
<1>2. CASE Moving
  <2>1. CASE Reload
    <3>1. UNCHANGED <<moves, changes, locks, bounced>> /\ reloads' = reloads + 1 /\ Restart
      BY <2>1 DEF Reload
    <3>2. reloads' \in Nat /\ bounced' \in BOOLEAN
      BY <3>1 DEF PlaceInv, PlaceTypes
    <3>3. numbered' /\ calm' /\ locks' = 0 => ~bounced'
      BY <1>1, <3>1, HistoriesGrow DEF PlaceInv, InTurn
    <3> QED
      BY <1>1, <3>1, <3>2, <3>3, RestartPlaces
  <2> QED
    BY <1>1, <1>2, <2>1, ClickPlaces, BackPlaces, GonePlaces DEF Moving
<1>3. CASE Guarding
  BY <1>1, <1>3, ChangePlaces, MoveAnsweredPlaces, SignOutPlaces DEF Guarding
<1>4. CASE Paging
  BY <1>1, <1>4, PagingPlaces
<1>5. CASE Sessions
  BY <1>1, <1>5, SignOutPlaces, SessionPlaces DEF Sessions
<1> QED
  BY <1>2, <1>3, <1>4, <1>5 DEF Next

LEMMA InitPlaces == Init => PlaceInv
PROOF
<1> SUFFICES ASSUME Init PROVE PlaceInv
  OBVIOUS
<1> DEFINE first == [route |-> Library, pos |-> 0]
<1>1. first \in Entry /\ first.route = Library /\ first.pos = 0
  BY Routes DEF Entry
<1> HIDE DEF first
<1>2. entries = <<first>> /\ index = 1 /\ position = 0 /\ active = Library
  BY DEF Init, first
<1>3. entries \in Seq(Entry) /\ DOMAIN entries = {1} /\ entries[1] = first
  BY <1>1, <1>2
<1>4. PlaceTypes
  <2>1. going = <<>> /\ going \in Seq(Int) /\ trail = <<Library>> /\ trail \in Seq(Route)
    BY Routes DEF Init
  <2>2. index \in DOMAIN entries /\ active \in Route
    BY <1>2, <1>3, Routes
  <2>3. /\ asks = {} /\ draft = FALSE /\ saving = "none" /\ auth = "checking" /\ signingOut = FALSE
        /\ events = 0 /\ position = 0 /\ moves = 0 /\ changes = 0 /\ locks = 0 /\ reloads = 0 /\ bounced = FALSE
    BY DEF Init
  <2> QED
    BY <1>3, <2>1, <2>2, <2>3 DEF PlaceTypes
<1>5. Apart
  BY <1>3 DEF Apart
<1>6. TrailOK(trail) /\ Last(trail) = active
  BY Routes DEF Init, TrailOK, Last
<1>7. Numbered
  BY <1>1, <1>2, <1>3 DEF Numbered
<1>8. InTurn
  BY <1>1, <1>2, <1>3 DEF Init, InTurn, Live, Address
<1> QED
  BY <1>4, <1>5, <1>6, <1>7, <1>8 DEF PlaceInv, Init

LEMMA PlaceFollows == PlaceInv => PlaceIsOne
PROOF
<1> SUFFICES ASSUME PlaceInv PROVE PlaceIsOne
  OBVIOUS
<1>1. TypeOK
  <2>1. \A i \in DOMAIN entries : entries[i] \in Entry
    BY DEF PlaceInv, PlaceTypes
  <2> QED
    BY <2>1 DEF TypeOK, PlaceInv, PlaceTypes, Entry, Ask
<1>2. AddressIsRoute
  BY DEF PlaceInv, AddressIsRoute, Quiet, InTurn, Live
<1>3. TrailLeads
  <2>1. TrailOK(trail) /\ Last(trail) = active
    BY DEF PlaceInv
  <2>2. ASSUME active[1] \notin {"library", "book"} PROVE Target # active
    <3>1. CASE Len(trail) > 1
      <4>1. /\ Len(trail) - 1 \in 1 .. Len(trail) - 1 /\ (Len(trail) - 1) + 1 = Len(trail)
            /\ trail[Len(trail)] = active
        BY <2>1, <3>1 DEF TrailOK, Last
      <4>2. trail[Len(trail) - 1] # active
        BY <2>1, <2>2, <4>1 DEF TrailOK
      <4> QED
        BY <3>1, <4>2 DEF Target
    <3>2. CASE ~(Len(trail) > 1)
      <4>1. trail \in Seq(Route) /\ Len(trail) \in Nat /\ Len(trail) > 0 /\ trail[1] = Library
        BY <2>1 DEF TrailOK
      <4>2. Len(trail) = 1
        <5>1. \A n \in Nat : n > 0 /\ ~(n > 1) => n = 1
          OBVIOUS
        <5> QED
          BY <3>2, <4>1, <5>1
      <4>3. active = Library
        BY <2>1, <4>1, <4>2 DEF Last
      <4> QED
        BY <2>2, <4>3 DEF Library
    <3> QED
      BY <3>1, <3>2
  <2> QED
    BY <2>1, <2>2 DEF TrailLeads, TrailOK
<1> QED
  BY <1>1, <1>2, <1>3 DEF PlaceIsOne

LEMMA PlaceKept == ASSUME PlaceInv, UNCHANGED vars PROVE PlaceInv'
PROOF
<1>1. UNCHANGED <<entries, index, events, going, active, position, trail, asks, draft, saving, auth,
                  signingOut, moves, changes, locks, reloads, bounced, numbered, calm>>
  BY DEF vars, browser, page, session, counts
<1>2. PlaceTypes' /\ Apart' /\ Live' = Live /\ Address' = Address /\ (Numbered <=> Numbered')
  BY <1>1 DEF PlaceInv, PlaceTypes, Apart, Live, Address, Numbered
<1>3. InTurn => InTurn'
  BY <1>1, <1>2 DEF InTurn
<1> QED
  BY <1>1, <1>2, <1>3 DEF PlaceInv

\* Whatever the user, the guard and the session do, for any number of books and moves: the
\* address is that of the page on screen once all is settled, unless the browser overtook the
\* App, a reload confused the numbers or a lock forgot a question, and the trail leads from the
\* library to the page, past no dead Back button but a book's own (App.tsx, routes.ts).
THEOREM PlaceIsOneTheorem == Spec => []PlaceIsOne
PROOF
<1>1. PlaceInv /\ UNCHANGED vars => PlaceInv'
  BY PlaceKept
<1>2. PlaceInv /\ [Next]_vars => PlaceInv'
  BY <1>1, NextPlaces
<1> QED
  BY <1>2, InitPlaces, PlaceFollows, PTL DEF Spec
-----------------------------------------------------------------------------
(* The metadata file.                                                      *)

\* A sync that is about to replace the file has found it missing or as last agreed, and it
\* is still so unless another program has written it since.
FileInv == sync.kind = "publish" /\ ~raced => file \in {M!None, base}
Kept == sync.kind = "publish" /\ file' # file /\ ~raced' => file \in {M!None, base}

filed == <<sync, file, base, raced>>

LEMMA FileStays == ASSUME FileInv, UNCHANGED filed PROVE FileInv' /\ Kept
PROOF BY DEF FileInv, Kept, filed

\* What is not a sync's own step, and doesn't touch the file.
LEMMA FileFree ==
    ASSUME sync.kind # "publish", sync'.kind # "publish" PROVE FileInv' /\ Kept
PROOF BY DEF FileInv, Kept

LEMMA BeginsKeeps ==
    ASSUME M!SyncBegins, UNCHANGED raced PROVE FileInv' /\ Kept
PROOF
<1>1. sync.kind # "publish"
  BY DEF M!SyncBegins, M!Free, M!Idle
<1>2. CASE file = meta
  BY <1>1, <1>2, FileFree DEF M!SyncBegins, M!Records, M!Idle
<1>3. CASE file # meta /\ M!Agreed
  BY <1>1, <1>3 DEF M!SyncBegins, M!Agreed, FileInv, Kept
<1>4. CASE file # meta /\ ~M!Agreed
  BY <1>1, <1>4, FileFree DEF M!SyncBegins
<1> QED
  BY <1>2, <1>3, <1>4

LEMMA ServingKeeps == ASSUME FileInv, M!Serving PROVE FileInv' /\ Kept
PROOF
<1>1. PICK k \in tasks : \/ M!Served(k) \/ M!SyncServed(k) \/ M!SyncAnswered(k)
                         \/ M!ReadServed(k) \/ M!Fails(k)
  BY DEF M!Serving
<1>2. CASE M!Served(k)
  <2>1. sync.kind # "publish" /\ UNCHANGED sync
    BY <1>2 DEF M!Served, M!Accepts, M!Resolved, M!Free, M!Idle, M!sidecar
  <2> QED
    BY <2>1, FileFree
<1>3. CASE M!SyncServed(k)
  BY <1>3, BeginsKeeps DEF M!SyncServed, M!Elsewhere
<1>4. CASE M!SyncAnswered(k) \/ M!ReadServed(k) \/ M!Fails(k)
  BY <1>4, FileStays DEF M!SyncAnswered, M!ReadServed, M!Fails, M!Elsewhere, M!sidecar, filed
<1> QED
  BY <1>1, <1>2, <1>3, <1>4

LEMMA AnsweringKeeps == ASSUME FileInv, M!Answering PROVE FileInv' /\ Kept
PROOF
<1>1. UNCHANGED filed
  BY DEF M!Answering, M!SaveAnswered, M!ReadAnswered, M!SourceAnswered, M!ReviewAnswered,
         M!Forgotten, M!Ours, M!sidecar, filed
<1> QED
  BY <1>1, FileStays

LEMMA EditingKeeps ==
    ASSUME FileInv, M!Editing \/ M!ReviewLoads \/ M!LoadFails \/ M!Loaded PROVE FileInv' /\ Kept
PROOF
<1>1. ASSUME M!Editing PROVE UNCHANGED filed
  <2>1. M!Idly \/ M!Act
    BY <1>1 DEF M!Editing, M!Open, M!Close, M!Discard, M!KeepEditing, M!ReloadLatest, M!Save,
                M!TypeTitle, M!Pick, M!TakeOut, M!Commit, M!Typing
  <2> QED
    BY <2>1 DEF M!Idly, M!Act, M!sidecar, filed
<1>2. ASSUME M!ReviewLoads \/ M!LoadFails \/ M!Loaded PROVE UNCHANGED filed
  BY <1>2 DEF M!ReviewLoads, M!LoadFails, M!Loaded, M!Ours, M!sidecar, M!counters, filed
<1> QED
  BY <1>1, <1>2, FileStays

LEMMA DecidingKeeps == ASSUME FileInv, M!DecidingOn PROVE FileInv' /\ Kept
PROOF
<1>1. M!Idly \/ M!Act
  BY DEF M!DecidingOn, M!CloseReview, M!RefreshReview, M!UpdateFromSource, M!RunAutomatic,
         M!Complete, M!Choose, M!Tick, M!Resolve, M!Decides
<1>2. UNCHANGED filed
  BY <1>1 DEF M!Idly, M!Act, M!sidecar, filed
<1> QED
  BY <1>2, FileStays

LEMMA AroundKeeps == ASSUME FileInv, M!Around PROVE FileInv' /\ Kept
PROOF
<1>1. CASE M!OtherEdits \/ M!OtherObserves
  BY <1>1, FileStays DEF M!OtherEdits, M!OtherObserves, M!sidecar, filed
<1>2. CASE M!OtherSyncs
  BY <1>2, BeginsKeeps DEF M!OtherSyncs
<1>3. CASE M!OtherWrites
  BY <1>3 DEF M!OtherWrites, FileInv, Kept
<1>4. CASE M!Syncing /\ M!Publish
  <2>1. sync'.kind # "publish"
    BY <1>4 DEF M!Publish
  <2>2. UNCHANGED <<base, raced>>
    BY <1>4 DEF M!Syncing, M!Publish
  <2> QED
    BY <2>1, <2>2 DEF FileInv, Kept
<1>5. CASE M!Syncing /\ M!Record
  BY <1>5, FileFree DEF M!Record, M!Records, M!Idle
<1>6. CASE M!BrokenOff
  BY <1>6 DEF M!BrokenOff, M!Idle, FileInv, Kept
<1> QED
  BY <1>1, <1>2, <1>3, <1>4, <1>5, <1>6 DEF M!Around, M!Syncing

\* Whatever other programs, devices and the page do, and wherever a sync is cut off, a sync
\* replaces a file only when it is missing or as last agreed (_sync_one()), but for what is
\* written after it looked.
THEOREM FileKeptTheorem == BookPageSpec => FileKept
PROOF
<1>1. BookPageInit => FileInv
  BY DEF BookPageInit, M!Start, M!Idle, FileInv
<1>2. FileInv /\ [BookPageNext]_bookPageVars => FileInv' /\ Kept
  <2>1. ASSUME FileInv, UNCHANGED bookPageVars PROVE FileInv' /\ Kept
    BY <2>1, FileStays DEF bookPageVars, M!metadataVars, M!sidecar, filed
  <2>2. ASSUME FileInv, Moves PROVE FileInv' /\ Kept
    BY <2>2, FileStays DEF Moves, M!Mounted, M!sidecar, filed
  <2>3. ASSUME FileInv, Works PROVE FileInv' /\ Kept
    BY <2>3, ServingKeeps, AnsweringKeeps, EditingKeeps, DecidingKeeps, AroundKeeps
    DEF Works, M!Works
  <2> QED
    BY <2>1, <2>2, <2>3 DEF BookPageNext
<1> QED
  BY <1>1, <1>2, PTL DEF BookPageSpec, FileKept, Kept
-----------------------------------------------------------------------------
(* What the user did is done to what the page showed.                      *)
(* A copy of the metadata carries the revision it was made at.  SeenInv    *)
(* says that every copy under way - on the page, in a request, in its      *)
(* answer - is of a revision that was, and is the metadata itself when     *)
(* that revision still stands: this is what makes it enough for the server *)
(* to compare revisions.  And a request has one task, of its own number.   *)

\* Metadata m, of revision r, where the library has metadata "is" at revision "now".
AsOf(r, m, now, is) == r \in Nat /\ r <= now /\ (r = now => m = is)

Kinds == {"save", "source", "candidate", "automatic", "complete", "resolve"}
TaskFields == {"kind", "step", "live", "done", "ok", "arg", "value", "no"}
LoadFields == {"kind", "preview", "conflict", "seen"}

\* What a request was sent with.
ArgOK(k, now, is) ==
    /\ k.kind \in {"save", "source"} => AsOf(k.arg.rev, k.arg.seen, now, is)
    /\ k.kind \in {"candidate", "complete"} => AsOf(k.arg.token.rev, k.arg.seen, now, is)
    /\ k.kind = "candidate" => k.arg.offered = k.arg.token.cand[k.arg.link]
    /\ k.kind = "complete" => k.arg.offered = k.arg.token.cand
    /\ k.kind = "resolve" => AsOf(k.arg.conflict.rev, k.arg.seen, now, is)
\* Its answer holds a copy.
HasCopy(k) ==
    k.done /\ \/ k.step = k.kind /\ k.ok = "yes"
              \/ k.step \in {"refresh", "again"}
TaskOK(k, now, is, next) ==
    /\ DOMAIN k = TaskFields /\ k.kind \in Kinds
    /\ k.step = k.kind \/ k.kind = "save"
    /\ k.no \in Nat /\ k.no < next
    /\ ArgOK(k, now, is)
    /\ HasCopy(k) => AsOf(k.value.rev, k.value.meta, now, is)
TasksOK(ts, now, is, next) ==
    /\ \A k \in ts : TaskOK(k, now, is, next)
    /\ \A j, k \in ts : j.no = k.no => j = k

BookOK(b, now, is) == b # M!None => AsOf(b.rev, b.meta, now, is)
PreviewOK(p, now, is) ==
    p # M!None => AsOf(p.token.rev, p.meta, now, is) /\ p.token.cand = p.cand
ConflictOK(c, now, is) == c # M!None => AsOf(c.rev, c.meta, now, is)
LoadingOK(l, now, is) ==
    l.kind = "load" => /\ LoadFields \subseteq DOMAIN l
                       /\ PreviewOK(l.preview, now, is) /\ ConflictOK(l.conflict, now, is)

\* The copies of the page and of the conflict, and the requests.
CopiesOK ==
    /\ BookOK(book, rev, meta) /\ PreviewOK(preview, rev, meta)
    /\ LoadingOK(loading, rev, meta)
    /\ ConflictOK(conflict, rev, meta) /\ ConflictOK(pending, rev, meta)
SeenInv ==
    /\ rev \in Nat /\ acts \in Nat
    /\ CopiesOK
    /\ TasksOK(tasks, rev, meta, acts)

\* What ActsOnWhatWasSeen says of a step.
AsSeen ==
    \A k \in tasks : CarriedOut(k) =>
        LET of == k.arg
        IN  /\ k.kind # "automatic" => meta = of.seen
            /\ k.kind = "candidate" => cand[of.link] = of.offered
            /\ k.kind = "complete" => cand = of.offered /\ of.ticked = M!Issues
            /\ k.kind = "resolve" => file = of.conflict.file /\ pending = of.conflict

\* The metadata stands, or has a new revision.
Advances == UNCHANGED <<meta, rev>> \/ rev' = rev + 1

LEMMA WritesAdvance == ASSUME NEW new, M!Writes(new) PROVE Advances
PROOF BY DEF M!Writes, Advances

\* A copy of a revision stays one, whatever is written after it.
LEMMA AsOfStays ==
    ASSUME NEW now \in Nat, NEW is, NEW later, NEW will, (later = now /\ will = is) \/ later = now + 1,
           NEW r, NEW m, AsOf(r, m, now, is)
    PROVE  AsOf(r, m, later, will)
PROOF BY DEF AsOf

LEMMA CopiesStay ==
    ASSUME NEW now \in Nat, NEW is, NEW later, NEW will, (later = now /\ will = is) \/ later = now + 1
    PROVE  /\ \A b : BookOK(b, now, is) => BookOK(b, later, will)
           /\ \A p : PreviewOK(p, now, is) => PreviewOK(p, later, will)
           /\ \A c : ConflictOK(c, now, is) => ConflictOK(c, later, will)
           /\ \A l : LoadingOK(l, now, is) => LoadingOK(l, later, will)
PROOF
<1>1. \A r, m : AsOf(r, m, now, is) => AsOf(r, m, later, will)
  BY AsOfStays
<1>2. \A p : PreviewOK(p, now, is) => PreviewOK(p, later, will)
  BY <1>1 DEF PreviewOK
<1>3. \A c : ConflictOK(c, now, is) => ConflictOK(c, later, will)
  BY <1>1 DEF ConflictOK
<1>4. \A b : BookOK(b, now, is) => BookOK(b, later, will)
  BY <1>1 DEF BookOK
<1>5. \A l : LoadingOK(l, now, is) => LoadingOK(l, later, will)
  BY <1>2, <1>3 DEF LoadingOK
<1> QED
  BY <1>2, <1>3, <1>4, <1>5

LEMMA TaskStays ==
    ASSUME NEW now \in Nat, NEW is, NEW later, NEW will, (later = now /\ will = is) \/ later = now + 1,
           NEW next \in Nat, NEW after \in Nat, next <= after,
           NEW k, TaskOK(k, now, is, next)
    PROVE  TaskOK(k, later, will, after)
PROOF
<1>1. \A r, m : AsOf(r, m, now, is) => AsOf(r, m, later, will)
  BY AsOfStays
<1>2. ArgOK(k, later, will)
  BY <1>1 DEF TaskOK, ArgOK
<1>3. k.no < after
  BY DEF TaskOK
<1> QED
  BY <1>1, <1>2, <1>3 DEF TaskOK

-----------------------------------------------------------------------------
(* The forms in which the requests change.                                 *)

\* A step that answers nobody: it leaves, drops or forgets tasks, or takes one further
\* that was answered before.
Unanswered == \A j \in tasks' : j.done /\ j.ok = "yes" =>
             \E i \in tasks : i.no = j.no /\ (i.done \/ i.step # i.kind)

LEMMA QuietSeen == ASSUME SeenInv, Unanswered PROVE AsSeen
PROOF
<1>1. ASSUME NEW k \in tasks, CarriedOut(k) PROVE FALSE
  <2>1. PICK j \in tasks' : j.no = k.no /\ j.done /\ j.ok = "yes"
    BY <1>1 DEF CarriedOut
  <2>2. PICK i \in tasks : i.no = j.no /\ (i.done \/ i.step # i.kind)
    BY <2>1 DEF Unanswered
  <2>3. i = k
    BY <2>1, <2>2 DEF SeenInv, TasksOK
  <2> QED
    BY <1>1, <2>2, <2>3 DEF CarriedOut
<1> QED
  BY <1>1 DEF AsSeen

\* No tasks but those there were.
LEMMA FewerTasks ==
    ASSUME SeenInv, Advances, acts' \in Nat, acts <= acts', tasks' \subseteq tasks
    PROVE  TasksOK(tasks', rev', meta', acts') /\ AsSeen
PROOF
<1>1. \A k \in tasks' : TaskOK(k, rev', meta', acts')
  BY TaskStays DEF SeenInv, TasksOK, Advances
<1>2. Unanswered
  <2>1. ASSUME NEW j \in tasks', j.done PROVE \E i \in tasks : i.no = j.no /\ i.done
    BY <2>1
  <2> QED
    BY <2>1 DEF Unanswered
<1> QED
  BY <1>1, <1>2, QuietSeen DEF SeenInv, TasksOK

\* One task becomes another of the same number.
LEMMA TaskReplaced ==
    ASSUME SeenInv, Advances, acts' \in Nat, acts <= acts', NEW k \in tasks, NEW n,
           M!Becomes(k, n), n.no = k.no, TaskOK(n, rev', meta', acts')
    PROVE  /\ TasksOK(tasks', rev', meta', acts')
           /\ (n.done /\ n.ok = "yes" => k.done \/ k.step # k.kind) => AsSeen
PROOF
<1>1. tasks' = (tasks \ {k}) \cup {n}
  BY DEF M!Becomes
<1>2. \A j \in tasks \ {k} : TaskOK(j, rev', meta', acts')
  BY TaskStays DEF SeenInv, TasksOK, Advances
<1>3. \A i, j \in tasks' : i.no = j.no => i = j
  BY <1>1 DEF SeenInv, TasksOK
<1>4. (n.done /\ n.ok = "yes" => k.done \/ k.step # k.kind) => Unanswered
  <2>1. ASSUME n.done /\ n.ok = "yes" => k.done \/ k.step # k.kind,
               NEW j \in tasks', j.done /\ j.ok = "yes"
        PROVE  \E i \in tasks : i.no = j.no /\ (i.done \/ i.step # i.kind)
    BY <1>1, <2>1
  <2> QED
    BY <2>1 DEF Unanswered
<1> QED
  BY <1>1, <1>2, <1>3, <1>4, QuietSeen DEF TasksOK

\* The user sends a request.
LEMMA TaskSent ==
    ASSUME SeenInv, UNCHANGED <<meta, rev>>, acts' = acts + 1, NEW kind \in Kinds, NEW arg,
           M!Sends(M!Task(kind, arg)), ArgOK(M!Task(kind, arg), rev, meta)
    PROVE  TasksOK(tasks', rev', meta', acts') /\ AsSeen
PROOF
<1> DEFINE n == M!Task(kind, arg)
<1>1. tasks' = tasks \cup {n} /\ acts \in Nat /\ rev \in Nat
  BY DEF M!Sends, SeenInv
<1>2. /\ DOMAIN n = TaskFields /\ n.kind = kind /\ n.step = kind /\ n.no = acts /\ ~n.done
  BY DEF M!Task, TaskFields
<1> HIDE DEF n
<1>3. \A k \in tasks : TaskOK(k, rev', meta', acts') /\ k.no # n.no
  <2>1. ASSUME NEW k \in tasks PROVE TaskOK(k, rev, meta, acts)
    BY DEF SeenInv, TasksOK
  <2>2. ASSUME NEW k \in tasks PROVE TaskOK(k, rev', meta', acts')
    BY <1>1, <2>1, TaskStays
  <2>3. ASSUME NEW k \in tasks PROVE k.no # acts
    BY <1>1, <2>1 DEF TaskOK
  <2> QED
    BY <1>2, <2>2, <2>3
<1>4. TaskOK(n, rev', meta', acts')
  BY <1>1, <1>2 DEF TaskOK, HasCopy, n
<1>5. Unanswered
  BY <1>1, <1>2 DEF Unanswered
<1> QED
  BY <1>1, <1>3, <1>4, <1>5, QuietSeen DEF SeenInv, TasksOK

\* The requests stay as they are.
LEMMA SameTasks ==
    ASSUME SeenInv, Advances, acts' \in Nat, acts <= acts', tasks' = tasks
    PROVE  TasksOK(tasks', rev', meta', acts') /\ AsSeen
PROOF BY FewerTasks

\* Whether a request's page is still there changes nothing in it.
LEMMA TasksLeft ==
    ASSUME SeenInv, UNCHANGED <<meta, rev, acts>>, NEW Later,
           \A k \in tasks : Later[k] = k \/ \E l : Later[k] = [k EXCEPT !.live = l],
           tasks' = {Later[k] : k \in tasks}
    PROVE  TasksOK(tasks', rev', meta', acts') /\ AsSeen
PROOF
<1>1. ASSUME NEW k \in tasks
      PROVE  /\ TaskOK(Later[k], rev, meta, acts) /\ Later[k].no = k.no
             /\ Later[k].done = k.done
  <2>1. TaskOK(k, rev, meta, acts)
    BY DEF SeenInv, TasksOK
  <2>2. ASSUME NEW l PROVE LET n == [k EXCEPT !.live = l] IN
          TaskOK(n, rev, meta, acts) /\ n.no = k.no /\ n.done = k.done
    BY <2>1 DEF TaskOK, TaskFields, ArgOK, HasCopy
  <2> QED
    BY <2>1, <2>2
<1>2. Unanswered
  BY <1>1 DEF Unanswered
<1> QED
  BY <1>1, <1>2, QuietSeen DEF SeenInv, TasksOK

\* A task that goes on as the same request.
LEMMA TaskGoesOn ==
    ASSUME NEW now, NEW is, NEW next, NEW k, TaskOK(k, now, is, next),
           NEW n, DOMAIN n = TaskFields, n.kind = k.kind, n.no = k.no, n.arg = k.arg,
           n.step = n.kind \/ n.kind = "save",
           HasCopy(n) => AsOf(n.value.rev, n.value.meta, now, is)
    PROVE  TaskOK(n, now, is, next)
PROOF BY DEF TaskOK, ArgOK

\* Each copy is the one there was, or one that was made well.
LEMMA CopiesKept ==
    ASSUME SeenInv, Advances,
           book' = book \/ BookOK(book', rev', meta'),
           preview' = preview \/ PreviewOK(preview', rev', meta'),
           loading' = loading \/ LoadingOK(loading', rev', meta'),
           conflict' = conflict \/ ConflictOK(conflict', rev', meta'),
           pending' = pending \/ ConflictOK(pending', rev', meta')
    PROVE  rev' \in Nat /\ CopiesOK'
PROOF
<1>1. rev \in Nat /\ ((rev' = rev /\ meta' = meta) \/ rev' = rev + 1)
  BY DEF SeenInv, Advances
<1>2. /\ \A b : BookOK(b, rev, meta) => BookOK(b, rev', meta')
      /\ \A p : PreviewOK(p, rev, meta) => PreviewOK(p, rev', meta')
      /\ \A c : ConflictOK(c, rev, meta) => ConflictOK(c, rev', meta')
      /\ \A l : LoadingOK(l, rev, meta) => LoadingOK(l, rev', meta')
  <2> DEFINE later == rev'
             will == meta'
  <2>1. (later = rev /\ will = meta) \/ later = rev + 1
    BY <1>1
  <2> HIDE DEF later, will
  <2>2. /\ \A b : BookOK(b, rev, meta) => BookOK(b, later, will)
        /\ \A p : PreviewOK(p, rev, meta) => PreviewOK(p, later, will)
        /\ \A c : ConflictOK(c, rev, meta) => ConflictOK(c, later, will)
        /\ \A l : LoadingOK(l, rev, meta) => LoadingOK(l, later, will)
    BY <1>1, <2>1, CopiesStay
  <2> QED
    BY <2>2 DEF later, will
<1>3. BookOK(book', rev', meta') /\ PreviewOK(preview', rev', meta')
  BY <1>2 DEF SeenInv, CopiesOK
<1>4. LoadingOK(loading', rev', meta')
  BY <1>2 DEF SeenInv, CopiesOK
<1>5. ConflictOK(conflict', rev', meta') /\ ConflictOK(pending', rev', meta')
  BY <1>2 DEF SeenInv, CopiesOK
<1>6. rev' \in Nat
  BY <1>1
<1> QED
  BY <1>3, <1>4, <1>5, <1>6 DEF CopiesOK

\* A request is carried out: nobody else's is.
LEMMA OneCarriedOut ==
    ASSUME SeenInv, NEW k \in tasks, NEW n, M!Becomes(k, n), n.no = k.no
    PROVE  \A i \in tasks : CarriedOut(i) => i = k
PROOF BY DEF M!Becomes, CarriedOut, SeenInv, TasksOK

-----------------------------------------------------------------------------
(* The steps.                                                              *)

\* The server accepts a request only from who has seen what it is about.
LEMMA AcceptsSeen ==
    ASSUME SeenInv, NEW k \in tasks, M!Accepts(k), k.step = k.kind, ~k.done
    PROVE  /\ Advances
           /\ pending' = pending \/ pending' = M!None
           /\ k.kind # "automatic" => meta = k.arg.seen
           /\ k.kind = "candidate" => cand[k.arg.link] = k.arg.offered
           /\ k.kind = "complete" => cand = k.arg.offered /\ k.arg.ticked = M!Issues
           /\ k.kind = "resolve" => file = k.arg.conflict.file /\ pending = k.arg.conflict
PROOF
<1>1. ArgOK(k, rev, meta) /\ k.kind \in Kinds
  BY DEF SeenInv, TasksOK, TaskOK
<1>2. CASE k.kind = "save"
  <2>1. M!Expected(k) /\ M!Edited(k.arg.form.title, M!ToSet(k.arg.form.tags)) /\ UNCHANGED pending
    BY <1>2 DEF M!Accepts, M!sidecar
  <2>2. Advances
    BY <2>1, WritesAdvance DEF M!Edited
  <2> QED
    BY <1>1, <1>2, <2>1, <2>2 DEF M!Expected, ArgOK, AsOf
<1>3. CASE k.kind = "source"
  <2>1. M!Expected(k) /\ UNCHANGED pending
    BY <1>3 DEF M!Accepts, M!sidecar
  <2>2. Advances
    BY <1>3, WritesAdvance DEF M!Accepts, M!Observed
  <2> QED
    BY <1>1, <1>3, <2>1, <2>2 DEF M!Expected, ArgOK, AsOf
<1>4. ASSUME M!TokenHolds(k.arg.token)
      PROVE  k.arg.token.rev = rev /\ k.arg.token.cand = cand
  BY <1>4 DEF M!TokenHolds, M!Preview
<1>5. CASE k.kind = "candidate"
  <2>1. M!TokenHolds(k.arg.token) /\ M!Decided(k.arg.link, k.arg.choice) /\ UNCHANGED pending
    BY <1>5 DEF M!Accepts, M!sidecar
  <2>2. Advances
    BY <2>1, WritesAdvance DEF M!Decided
  <2> QED
    BY <1>1, <1>4, <1>5, <2>1, <2>2 DEF ArgOK, AsOf
<1>6. CASE k.kind = "automatic"
  BY <1>6 DEF M!Accepts, M!Checked, M!sidecar, Advances
<1>7. CASE k.kind = "complete"
  <2>1. M!TokenHolds(k.arg.token) /\ M!Completed(k.arg.ticked) /\ UNCHANGED pending
    BY <1>7 DEF M!Accepts, M!sidecar
  <2> QED
    BY <1>1, <1>4, <1>7, <2>1 DEF ArgOK, AsOf, M!Completed, Advances
<1>8. CASE k.kind = "resolve"
  <2>1. M!Resolved(k.arg.conflict, k.arg.taken)
    BY <1>8 DEF M!Accepts
  <2>2. Advances
    BY <2>1, WritesAdvance DEF M!Resolved
  <2> QED
    BY <1>1, <1>8, <2>1, <2>2 DEF M!Resolved, ArgOK, AsOf
<1> QED
  BY <1>1, <1>2, <1>3, <1>5, <1>6, <1>7, <1>8 DEF Kinds

LEMMA ServedSeen == ASSUME SeenInv, NEW k \in tasks, M!Served(k) PROVE SeenInv' /\ AsSeen
PROOF
<1>1. acts' = acts /\ acts \in Nat /\ rev \in Nat /\ UNCHANGED <<book, preview, loading, conflict>>
  BY DEF M!Served, M!Elsewhere, M!review, M!counters, SeenInv
<1>2. TaskOK(k, rev, meta, acts)
  BY DEF SeenInv, TasksOK
<1>3. CASE M!Accepts(k) /\ M!Becomes(k, [M!Answers(k, "yes") EXCEPT !.value = M!Copy'])
  <2> DEFINE n == [M!Answers(k, "yes") EXCEPT !.value = M!Copy']
  <2>1. M!Becomes(k, n)
    BY <1>3
  <2>2. /\ DOMAIN n = TaskFields /\ n.kind = k.kind /\ n.no = k.no /\ n.arg = k.arg
        /\ n.step = k.step /\ n.value = M!Copy'
    BY <1>2 DEF TaskOK, TaskFields, M!Answers
  <2> HIDE DEF n
  <2>3. /\ Advances /\ (pending' = pending \/ pending' = M!None)
        /\ k.kind # "automatic" => meta = k.arg.seen
        /\ k.kind = "candidate" => cand[k.arg.link] = k.arg.offered
        /\ k.kind = "complete" => cand = k.arg.offered /\ k.arg.ticked = M!Issues
        /\ k.kind = "resolve" => file = k.arg.conflict.file /\ pending = k.arg.conflict
    BY <1>3, AcceptsSeen DEF M!Served
  <2>4. rev' \in Nat /\ CopiesOK'
    BY <1>1, <2>3, CopiesKept DEF ConflictOK
  <2>5. AsOf(M!Copy'.rev, M!Copy'.meta, rev', meta')
    BY <2>4 DEF M!Copy, AsOf
  <2>6. TaskOK(k, rev', meta', acts')
    <3>1. (rev' = rev /\ meta' = meta) \/ rev' = rev + 1
      BY <2>3 DEF Advances
    <3> QED
      BY <1>1, <1>2, <3>1, TaskStays
  <2>7. TaskOK(n, rev', meta', acts')
    BY <2>2, <2>5, <2>6, TaskGoesOn DEF TaskOK
  <2>8. TasksOK(tasks', rev', meta', acts')
    BY <1>1, <2>1, <2>2, <2>3, <2>7, TaskReplaced
  <2>9. AsSeen
    BY <2>1, <2>2, <2>3, OneCarriedOut DEF AsSeen
  <2> QED
    BY <1>1, <2>4, <2>8, <2>9 DEF SeenInv
<1>4. CASE /\ UNCHANGED <<M!library, M!sidecar>>
           /\ M!Becomes(k, M!Answers(k, "conflict"))
  <2> DEFINE n == M!Answers(k, "conflict")
  <2>1. M!Becomes(k, n) /\ Advances /\ UNCHANGED pending
    BY <1>4 DEF Advances, M!library, M!sidecar
  <2>2. /\ DOMAIN n = TaskFields /\ n.kind = k.kind /\ n.no = k.no /\ n.arg = k.arg
        /\ n.step = k.step /\ n.ok = "conflict"
    BY <1>2 DEF TaskOK, TaskFields, M!Answers
  <2> HIDE DEF n
  <2>3. rev' = rev /\ meta' = meta /\ k.step = k.kind /\ k.kind \in Kinds
    BY <1>2, <1>4 DEF M!library, M!Served, TaskOK
  <2>4. TaskOK(n, rev', meta', acts')
    BY <1>1, <1>2, <2>2, <2>3, TaskGoesOn DEF HasCopy, Kinds
  <2>5. TasksOK(tasks', rev', meta', acts') /\ AsSeen
    BY <1>1, <2>1, <2>2, <2>4, TaskReplaced
  <2> QED
    BY <1>1, <2>1, <2>5, CopiesKept DEF SeenInv
<1> QED
  BY <1>3, <1>4 DEF M!Served

\* A request goes on, and nobody is answered by it.
LEMMA GoesOnQuietly ==
    ASSUME SeenInv, UNCHANGED <<meta, rev, acts>>, NEW k \in tasks, NEW n, M!Becomes(k, n),
           DOMAIN n = TaskFields, n.kind = k.kind, n.no = k.no, n.arg = k.arg,
           n.step = n.kind \/ n.kind = "save",
           HasCopy(n) => AsOf(n.value.rev, n.value.meta, rev, meta),
           n.done /\ n.ok = "yes" => k.done \/ k.step # k.kind
    PROVE  TasksOK(tasks', rev', meta', acts') /\ AsSeen
PROOF
<1>1. TaskOK(n, rev', meta', acts')
  BY TaskGoesOn DEF SeenInv, TasksOK
<1>2. Advances /\ acts' \in Nat /\ acts <= acts'
  BY DEF Advances, SeenInv
<1> QED
  BY <1>1, <1>2, TaskReplaced

LEMMA FollowedSeen ==
    ASSUME SeenInv, NEW k \in tasks, M!SyncServed(k) \/ M!SyncAnswered(k) \/ M!ReadServed(k)
    PROVE  SeenInv' /\ AsSeen
PROOF
<1>1. /\ UNCHANGED <<meta, rev, acts>> /\ UNCHANGED <<book, preview, loading, conflict>>
      /\ acts \in Nat /\ rev \in Nat
  BY DEF M!SyncServed, M!SyncAnswered, M!ReadServed, M!Elsewhere, M!review, M!counters, M!library,
         SeenInv
<1>2. /\ DOMAIN k = TaskFields /\ k.kind \in Kinds
      /\ k.step = k.kind \/ k.kind = "save"
  BY DEF SeenInv, TasksOK, TaskOK
<1>3. pending' = pending \/ ConflictOK(pending', rev', meta')
  <2>1. CASE M!SyncServed(k)
    BY <1>1, <2>1 DEF M!SyncServed, M!SyncBegins, M!Records, ConflictOK, AsOf
  <2> QED
    BY <2>1 DEF M!SyncAnswered, M!ReadServed, M!sidecar
<1>4. TasksOK(tasks', rev', meta', acts') /\ AsSeen
  <2>1. CASE M!SyncServed(k)
    <3> DEFINE n == [k EXCEPT !.done = TRUE]
    <3>1. M!Becomes(k, n) /\ k.step = "sync" /\ k.kind = "save"
      BY <1>2, <2>1 DEF M!SyncServed, Kinds
    <3>2. DOMAIN n = TaskFields /\ n.kind = k.kind /\ n.no = k.no /\ n.arg = k.arg /\ n.step = "sync"
      BY <1>2, <3>1 DEF TaskFields
    <3> HIDE DEF n
    <3> QED
      BY <1>1, <3>1, <3>2, GoesOnQuietly DEF HasCopy
  <2>2. CASE M!SyncAnswered(k)
    <3> DEFINE n == [k EXCEPT !.step = "refresh", !.done = FALSE]
    <3>1. M!Becomes(k, n) /\ k.step = "sync" /\ k.kind = "save"
      BY <1>2, <2>2 DEF M!SyncAnswered, Kinds
    <3>2. DOMAIN n = TaskFields /\ n.kind = k.kind /\ n.no = k.no /\ n.arg = k.arg /\ ~n.done
      BY <1>2 DEF TaskFields
    <3> HIDE DEF n
    <3> QED
      BY <1>1, <3>1, <3>2, GoesOnQuietly DEF HasCopy
  <2>3. CASE M!ReadServed(k)
    <3> DEFINE n == [M!Answers(k, "yes") EXCEPT !.value = M!Copy]
    <3>1. M!Becomes(k, n) /\ k.step \in {"refresh", "again"} /\ k.kind = "save"
      BY <1>2, <2>3 DEF M!ReadServed, Kinds
    <3>2. /\ DOMAIN n = TaskFields /\ n.kind = k.kind /\ n.no = k.no /\ n.arg = k.arg
          /\ n.value = M!Copy
      BY <1>2 DEF TaskFields, M!Answers
    <3>3. AsOf(n.value.rev, n.value.meta, rev, meta)
      BY <1>1, <3>2 DEF M!Copy, AsOf
    <3> HIDE DEF n
    <3> QED
      BY <1>1, <3>1, <3>2, <3>3, GoesOnQuietly
  <2> QED
    BY <2>1, <2>2, <2>3
<1>5. Advances
  BY <1>1 DEF Advances
<1> QED
  BY <1>1, <1>3, <1>4, <1>5, CopiesKept DEF SeenInv

LEMMA FailsSeen == ASSUME SeenInv, NEW k \in tasks, M!Fails(k) PROVE SeenInv' /\ AsSeen
PROOF
<1>1. /\ UNCHANGED <<meta, rev, acts>> /\ UNCHANGED <<book, preview, loading, conflict, pending>>
      /\ acts \in Nat /\ rev \in Nat
  BY DEF M!Fails, M!review, M!library, M!sidecar, SeenInv
<1>2. /\ DOMAIN k = TaskFields /\ k.kind \in Kinds
      /\ k.step = k.kind \/ k.kind = "save"
  BY DEF SeenInv, TasksOK, TaskOK
<1>3. Advances
  BY <1>1 DEF Advances
<1>4. CASE k.step = k.kind
  <2> DEFINE n == M!Answers(k, "no")
  <2>1. M!Becomes(k, n)
    BY <1>4 DEF M!Fails
  <2>2. /\ DOMAIN n = TaskFields /\ n.kind = k.kind /\ n.no = k.no /\ n.arg = k.arg
        /\ n.step = n.kind /\ n.ok = "no"
    BY <1>2, <1>4 DEF TaskFields, M!Answers
  <2> HIDE DEF n
  <2>3. TasksOK(tasks', rev', meta', acts') /\ AsSeen
    BY <1>1, <1>2, <2>1, <2>2, GoesOnQuietly DEF HasCopy, Kinds
  <2> QED
    BY <1>1, <1>3, <2>3, CopiesKept DEF SeenInv
<1>5. CASE k.step # k.kind
  <2>1. tasks' \subseteq tasks
    BY <1>5 DEF M!Fails, M!Ends
  <2> QED
    BY <1>1, <1>3, <2>1, FewerTasks, CopiesKept DEF SeenInv
<1> QED
  BY <1>4, <1>5

\* An answer is shown, and nothing of the library changes with it.
LEMMA AnswersSeen == ASSUME SeenInv, M!Answering PROVE SeenInv' /\ AsSeen
PROOF
<1> PICK k \in tasks : \/ M!SaveAnswered(k) \/ M!ReadAnswered(k) \/ M!SourceAnswered(k)
                       \/ M!ReviewAnswered(k) \/ M!Forgotten(k)
  BY DEF M!Answering
<1>1. /\ UNCHANGED <<meta, rev, acts>> /\ UNCHANGED <<preview, conflict, pending>>
      /\ acts \in Nat /\ rev \in Nat
  BY DEF M!SaveAnswered, M!ReadAnswered, M!SourceAnswered, M!ReviewAnswered, M!Forgotten,
         M!Ours, M!Shown, M!Untouched, M!counters, M!library, M!sidecar, SeenInv
<1>2. /\ DOMAIN k = TaskFields /\ k.kind \in Kinds
      /\ k.step = k.kind \/ k.kind = "save"
      /\ HasCopy(k) => AsOf(k.value.rev, k.value.meta, rev, meta)
  BY DEF SeenInv, TasksOK, TaskOK
<1>3. Advances
  BY <1>1 DEF Advances
<1>4. LoadingOK(M!Fresh, rev', meta')
  BY DEF LoadingOK, M!Fresh, PreviewOK, ConflictOK, LoadFields
<1>5. ASSUME book' = book /\ loading' = loading PROVE rev' \in Nat /\ CopiesOK'
  BY <1>1, <1>3, <1>5, CopiesKept
<1>6. ASSUME HasCopy(k), NEW again, M!Shows(k.value, again) PROVE rev' \in Nat /\ CopiesOK'
  <2>1. book' = k.value /\ (loading' = M!Fresh \/ loading' = loading)
    BY <1>6 DEF M!Shows
  <2>2. BookOK(book', rev', meta')
    BY <1>1, <1>2, <1>6, <2>1 DEF BookOK
  <2> QED
    BY <1>1, <1>3, <1>4, <2>1, <2>2, CopiesKept
<1>7. ASSUME M!Ends(k) PROVE TasksOK(tasks', rev', meta', acts') /\ AsSeen
  <2>1. tasks' \subseteq tasks
    BY <1>7 DEF M!Ends
  <2> QED
    BY <1>1, <1>3, <2>1, FewerTasks
<1>8. CASE M!SaveAnswered(k) /\ M!Stored(k)
  <2> DEFINE n == [k EXCEPT !.step = "sync", !.done = FALSE, !.value = M!None]
  <2>1. M!Becomes(k, n) /\ k.kind = "save"
    BY <1>8 DEF M!SaveAnswered, M!Stored
  <2>2. DOMAIN n = TaskFields /\ n.kind = k.kind /\ n.no = k.no /\ n.arg = k.arg /\ ~n.done
    BY <1>2 DEF TaskFields
  <2> HIDE DEF n
  <2>3. TasksOK(tasks', rev', meta', acts') /\ AsSeen
    BY <1>1, <2>1, <2>2, GoesOnQuietly DEF HasCopy
  <2>4. HasCopy(k) /\ M!Shows(k.value, FALSE)
    BY <1>8 DEF M!SaveAnswered, M!Stored, M!Update, HasCopy
  <2> QED
    BY <1>1, <1>6, <2>3, <2>4 DEF SeenInv
<1>9. CASE M!SaveAnswered(k) /\ M!NotStored(k)
  <2> DEFINE n == [k EXCEPT !.step = "again", !.done = FALSE, !.ok = "no"]
  <2>1. (M!Becomes(k, n) /\ k.kind = "save") \/ M!Ends(k)
    BY <1>9 DEF M!SaveAnswered, M!NotStored
  <2>2. DOMAIN n = TaskFields /\ n.kind = k.kind /\ n.no = k.no /\ n.arg = k.arg /\ ~n.done
    BY <1>2 DEF TaskFields
  <2> HIDE DEF n
  <2>3. TasksOK(tasks', rev', meta', acts') /\ AsSeen
    BY <1>1, <1>7, <2>1, <2>2, GoesOnQuietly DEF HasCopy
  <2>4. book' = book /\ loading' = loading
    BY <1>9 DEF M!NotStored, M!Stays
  <2> QED
    BY <1>1, <1>5, <2>3, <2>4 DEF SeenInv
<1>10. CASE M!ReadAnswered(k)
  <2>1. HasCopy(k) /\ M!Shows(k.value, FALSE) /\ M!Ends(k)
    BY <1>10 DEF M!ReadAnswered, M!Update, HasCopy
  <2> QED
    BY <1>1, <1>6, <1>7, <2>1 DEF SeenInv
<1>11. CASE M!SourceAnswered(k) /\ k.ok = "yes"
  <2> DEFINE arg == [link |-> k.arg.link + 1, rev |-> k.value.rev, seen |-> k.value.meta]
             n == [k EXCEPT !.done = FALSE, !.ok = "no", !.value = M!None, !.arg = arg]
  <2>1. k.kind = "source" /\ HasCopy(k) /\ M!Shows(k.value, FALSE)
    BY <1>2, <1>11 DEF M!SourceAnswered, M!Update, HasCopy
  <2>2. rev' \in Nat /\ CopiesOK'
    BY <1>6, <2>1
  <2>3. arg.rev = k.value.rev /\ arg.seen = k.value.meta
    OBVIOUS
  <2> HIDE DEF arg
  <2>4. /\ DOMAIN n = TaskFields /\ n.kind = k.kind /\ n.no = k.no /\ n.arg = arg /\ ~n.done
        /\ n.step = k.step
    BY <1>2 DEF TaskFields
  <2>5. M!Becomes(k, n) \/ M!Ends(k)
    BY <1>11 DEF M!SourceAnswered, arg
  <2> HIDE DEF n
  <2>6. TaskOK(n, rev', meta', acts')
    <3>1. k.no \in Nat /\ k.no < acts
      BY DEF SeenInv, TasksOK, TaskOK
    <3>2. ArgOK(n, rev', meta')
      BY <1>1, <1>2, <2>1, <2>3, <2>4 DEF ArgOK
    <3> QED
      BY <1>1, <1>2, <2>4, <3>1, <3>2 DEF TaskOK, HasCopy
  <2>7. ASSUME M!Becomes(k, n) PROVE TasksOK(tasks', rev', meta', acts') /\ AsSeen
    BY <1>1, <1>3, <2>4, <2>6, <2>7, TaskReplaced
  <2> QED
    BY <1>1, <1>7, <2>2, <2>5, <2>7 DEF SeenInv
<1>12. CASE M!SourceAnswered(k) /\ k.ok # "yes"
  <2>1. M!Ends(k) /\ book' = book /\ loading' = loading
    BY <1>12 DEF M!SourceAnswered, M!Stays
  <2> QED
    BY <1>1, <1>5, <1>7, <2>1 DEF SeenInv
<1>13. CASE M!ReviewAnswered(k)
  <2>1. M!Ends(k)
    BY <1>13 DEF M!ReviewAnswered
  <2>2. CASE k.ok = "yes"
    <3>1. k.step = k.kind /\ HasCopy(k) /\ M!Shows(k.value, k.live = "here")
      BY <1>2, <1>13, <2>2 DEF M!ReviewAnswered, M!Deciding, HasCopy
    <3> QED
      BY <1>1, <1>6, <1>7, <2>1, <3>1 DEF SeenInv
  <2>3. CASE k.ok # "yes"
    <3>1. book' = book /\ loading' = loading
      BY <1>13, <2>3 DEF M!ReviewAnswered, M!Stays
    <3> QED
      BY <1>1, <1>5, <1>7, <2>1, <3>1 DEF SeenInv
  <2> QED
    BY <2>2, <2>3
<1>14. CASE M!Forgotten(k)
  <2>1. M!Ends(k) /\ book' = book /\ loading' = loading
    BY <1>14 DEF M!Forgotten, M!Stays
  <2> QED
    BY <1>1, <1>5, <1>7, <2>1 DEF SeenInv
<1> QED
  BY <1>8, <1>9, <1>10, <1>11, <1>12, <1>13, <1>14 DEF M!SaveAnswered

\* What is loaded for the review is the library's, of now.
LEMMA LoadsSeen == ASSUME SeenInv, M!ReviewLoads \/ M!LoadFails \/ M!Loaded PROVE SeenInv' /\ AsSeen
PROOF
<1>1. /\ UNCHANGED <<meta, rev, acts, tasks, pending>>
      /\ acts \in Nat /\ rev \in Nat
  BY DEF M!ReviewLoads, M!LoadFails, M!Loaded, M!Ours, M!counters, M!library, M!sidecar, SeenInv
<1>2. Advances
  BY <1>1 DEF Advances
<1>3. TasksOK(tasks', rev', meta', acts') /\ AsSeen
  BY <1>1, <1>2, SameTasks
<1>4. CASE M!ReviewLoads
  <2>1. book' = book
    BY <1>4 DEF M!ReviewLoads
  <2>2. PreviewOK(M!Preview, rev, meta) /\ ConflictOK(pending, rev, meta)
    BY <1>1 DEF M!Preview, PreviewOK, AsOf, SeenInv, CopiesOK
  <2>3. ASSUME NEW l, LoadingOK(l, rev, meta), l.kind = "load", M!Loads(l)
        PROVE  rev' \in Nat /\ CopiesOK'
    <3>1. /\ loading' = l \/ loading' = M!Idle
          /\ preview' = preview \/ preview' = l.preview
          /\ conflict' = conflict \/ conflict' = l.conflict
      BY <2>3 DEF M!Loads, M!Shown
    <3>2. PreviewOK(l.preview, rev', meta') /\ ConflictOK(l.conflict, rev', meta')
      BY <1>1, <2>3 DEF LoadingOK
    <3>3. LoadingOK(loading', rev', meta')
      BY <1>1, <2>3, <3>1 DEF LoadingOK, M!Idle
    <3> QED
      BY <1>1, <1>2, <2>1, <3>1, <3>2, <3>3, CopiesKept
  <2>4. /\ loading.kind = "load" /\ LoadFields \subseteq DOMAIN loading
        /\ PreviewOK(loading.preview, rev, meta) /\ ConflictOK(loading.conflict, rev, meta)
    BY <1>4 DEF M!ReviewLoads, SeenInv, CopiesOK, LoadingOK
  <2>5. CASE M!Loads([loading EXCEPT !.preview = M!Preview])
    <3> DEFINE l == [loading EXCEPT !.preview = M!Preview]
    <3>1. /\ DOMAIN l = DOMAIN loading /\ l.kind = "load" /\ l.preview = M!Preview
          /\ l.conflict = loading.conflict
      BY <2>4 DEF LoadFields
    <3>2. M!Loads(l)
      BY <2>5
    <3> HIDE DEF l
    <3>3. LoadingOK(l, rev, meta)
      BY <2>2, <2>4, <3>1 DEF LoadingOK
    <3> QED
      BY <1>3, <1>1, <2>3, <3>1, <3>2, <3>3 DEF SeenInv
  <2>6. CASE M!Loads([loading EXCEPT !.conflict = pending, !.seen = TRUE])
    <3> DEFINE l == [loading EXCEPT !.conflict = pending, !.seen = TRUE]
    <3>1. /\ DOMAIN l = DOMAIN loading /\ l.kind = "load" /\ l.preview = loading.preview
          /\ l.conflict = pending
      BY <2>4 DEF LoadFields
    <3>2. M!Loads(l)
      BY <2>6
    <3> HIDE DEF l
    <3>3. LoadingOK(l, rev, meta)
      BY <2>2, <2>4, <3>1 DEF LoadingOK
    <3> QED
      BY <1>3, <1>1, <2>3, <3>1, <3>2, <3>3 DEF SeenInv
  <2> QED
    BY <1>4, <2>5, <2>6 DEF M!ReviewLoads
<1>5. CASE M!LoadFails
  <2>1. LoadingOK(M!Idle, rev', meta')
    BY DEF LoadingOK, M!Idle
  <2>2. CopiesOK'
    BY <1>2, <1>1, <1>5, <2>1, CopiesKept DEF M!LoadFails, M!Shown
  <2> QED
    BY <1>1, <1>3, <2>2 DEF SeenInv
<1>6. CASE M!Loaded
  <2>1. BookOK(M!Copy, rev', meta')
    BY <1>1 DEF BookOK, M!Copy, AsOf
  <2>2. CopiesOK'
    BY <1>1, <1>2, <1>6, <2>1, CopiesKept DEF M!Loaded, M!review
  <2> QED
    BY <1>1, <1>3, <2>2 DEF SeenInv
<1> QED
  BY <1>4, <1>5, <1>6

\* The editor sends what it shows, under the revision that it shows.
LEMMA EditsSeen == ASSUME SeenInv, M!Editing PROVE SeenInv' /\ AsSeen
PROOF
<1>1. /\ UNCHANGED <<meta, rev, pending, book>> /\ rev \in Nat /\ acts \in Nat
      /\ acts' = acts \/ (acts' = acts + 1 /\ book # M!None)
  <2>1. M!Idly \/ M!Act
    BY DEF M!Editing, M!Open, M!Close, M!Discard, M!KeepEditing, M!ReloadLatest, M!Save,
           M!TypeTitle, M!Pick, M!TakeOut, M!Commit, M!Typing
  <2> QED
    BY <2>1 DEF M!Idly, M!Act, M!OnPage, M!counters, M!library, M!sidecar, SeenInv
<1>2. Advances
  BY <1>1 DEF Advances
<1>3. ASSUME UNCHANGED M!review \/ (UNCHANGED <<preview, conflict>> /\ loading' \in {M!Fresh, M!Idle})
      PROVE  CopiesOK'
  <2>1. LoadingOK(M!Fresh, rev', meta') /\ LoadingOK(M!Idle, rev', meta')
    BY DEF LoadingOK, M!Fresh, M!Idle, PreviewOK, ConflictOK, LoadFields
  <2> QED
    BY <1>1, <1>2, <1>3, <2>1, CopiesKept DEF M!review
<1>4. CASE M!Save
  <2> DEFINE arg == [rev |-> book.rev, form |-> form, seen |-> book.meta]
  <2>1. M!Sends(M!Task("save", arg)) /\ acts' = acts + 1 /\ book # M!None /\ UNCHANGED M!review
    BY <1>4 DEF M!Save, M!Act, M!OnPage
  <2>2. ArgOK(M!Task("save", arg), rev, meta)
    BY <2>1 DEF ArgOK, M!Task, SeenInv, CopiesOK, BookOK
  <2> HIDE DEF arg
  <2>3. TasksOK(tasks', rev', meta', acts') /\ AsSeen
    BY <1>1, <2>1, <2>2, TaskSent DEF Kinds
  <2> QED
    BY <1>1, <1>3, <2>1, <2>3 DEF SeenInv
<1>5. ASSUME tasks' = tasks, CopiesOK' PROVE SeenInv' /\ AsSeen
  <2>1. acts' \in Nat /\ acts <= acts'
    BY <1>1
  <2> QED
    BY <1>1, <1>2, <1>5, <2>1, SameTasks DEF SeenInv
<1>6. CASE \E which \in {"metadata", "review"} : M!Open(which)
  BY <1>3, <1>5, <1>6 DEF M!Open, M!Untouched, M!Shown
<1>7. CASE M!Close \/ M!Discard \/ M!KeepEditing \/ M!ReloadLatest
  BY <1>3, <1>5, <1>7 DEF M!Close, M!Discard, M!KeepEditing, M!ReloadLatest, M!Closes
<1>8. CASE \E title \in M!Title : M!TypeTitle(title)
  BY <1>3, <1>5, <1>8 DEF M!TypeTitle, M!Typing
<1>9. CASE \E i \in 1 .. Tags : M!Pick(i) \/ M!TakeOut(i)
  BY <1>3, <1>5, <1>9 DEF M!Pick, M!TakeOut, M!Typing
<1>10. CASE \E tag \in M!Tag : M!Commit(tag)
  BY <1>3, <1>5, <1>10 DEF M!Commit, M!Typing
<1> QED
  BY <1>4, <1>6, <1>7, <1>8, <1>9, <1>10 DEF M!Editing

\* So does the review.
LEMMA DecidesSeen == ASSUME SeenInv, M!DecidingOn PROVE SeenInv' /\ AsSeen
PROOF
<1>1. /\ UNCHANGED <<meta, rev, pending, book>> /\ rev \in Nat /\ acts \in Nat
      /\ acts' = acts \/ acts' = acts + 1
  <2>1. M!Idly \/ M!Act
    BY DEF M!DecidingOn, M!CloseReview, M!RefreshReview, M!UpdateFromSource, M!RunAutomatic,
           M!Complete, M!Choose, M!Tick, M!Resolve, M!Decides
  <2> QED
    BY <2>1 DEF M!Idly, M!Act, M!counters, M!library, M!sidecar, SeenInv
<1>2. Advances
  BY <1>1 DEF Advances
<1>3. ASSUME UNCHANGED <<preview, conflict>> \/ (preview' = M!None /\ conflict' = M!None),
             loading' = loading \/ loading' \in {M!Fresh, M!Idle}
      PROVE  CopiesOK'
  <2>1. LoadingOK(M!Fresh, rev', meta') /\ LoadingOK(M!Idle, rev', meta')
    BY DEF LoadingOK, M!Fresh, M!Idle, PreviewOK, ConflictOK, LoadFields
  <2>2. PreviewOK(M!None, rev', meta') /\ ConflictOK(M!None, rev', meta')
    BY DEF PreviewOK, ConflictOK
  <2> QED
    BY <1>1, <1>2, <1>3, <2>1, <2>2, CopiesKept
<1>4. ASSUME NEW kind \in Kinds, NEW arg, M!Sends(M!Task(kind, arg)), acts' = acts + 1,
             UNCHANGED <<preview, conflict, loading>>, ArgOK(M!Task(kind, arg), rev, meta)
      PROVE  SeenInv' /\ AsSeen
  BY <1>1, <1>3, <1>4, TaskSent DEF SeenInv
<1>5. ASSUME NEW kind \in Kinds, NEW arg, M!Decides(kind, arg), ArgOK(M!Task(kind, arg), rev, meta)
      PROVE  SeenInv' /\ AsSeen
  BY <1>4, <1>5 DEF M!Decides, M!Act, M!Shown
<1>6. CASE M!UpdateFromSource
  <2> DEFINE arg == [link |-> 1, rev |-> book.rev, seen |-> book.meta]
  <2>1. /\ M!Sends(M!Task("source", arg)) /\ acts' = acts + 1 /\ book # M!None
        /\ UNCHANGED <<preview, conflict, loading>>
    BY <1>6 DEF M!UpdateFromSource, M!Act, M!OnPage, M!review
  <2>2. ArgOK(M!Task("source", arg), rev, meta)
    BY <2>1 DEF ArgOK, M!Task, SeenInv, CopiesOK, BookOK
  <2> HIDE DEF arg
  <2> QED
    BY <1>4, <2>1, <2>2 DEF Kinds
<1>7. preview # M!None => AsOf(preview.token.rev, preview.meta, rev, meta) /\ preview.token.cand = preview.cand
  BY DEF SeenInv, CopiesOK, PreviewOK
<1>8. CASE M!RunAutomatic
  <2> DEFINE arg == [token |-> preview.token]
  <2>1. ArgOK(M!Task("automatic", arg), rev, meta)
    BY DEF ArgOK, M!Task
  <2> QED
    BY <1>5, <1>8, <2>1 DEF M!RunAutomatic, Kinds
<1>9. CASE M!Complete
  <2> DEFINE arg == [token |-> preview.token, ticked |-> accepted, seen |-> preview.meta,
                     offered |-> preview.cand]
  <2>1. M!Decides("complete", arg) /\ preview # M!None
    BY <1>9 DEF M!Complete, M!Previewed
  <2>2. ArgOK(M!Task("complete", arg), rev, meta)
    BY <1>7, <2>1 DEF ArgOK, M!Task
  <2> HIDE DEF arg
  <2> QED
    BY <1>5, <2>1, <2>2 DEF Kinds
<1>10. ASSUME NEW l \in M!Source, NEW choice \in {"candidate", "current", "skip"}, M!Choose(l, choice)
       PROVE  SeenInv' /\ AsSeen
  <2> DEFINE arg == [token |-> preview.token, link |-> l, choice |-> choice,
                     seen |-> preview.meta, offered |-> preview.cand[l]]
  <2>1. M!Decides("candidate", arg) /\ preview # M!None
    BY <1>10 DEF M!Choose, M!Previewed
  <2>2. ArgOK(M!Task("candidate", arg), rev, meta)
    BY <1>7, <2>1 DEF ArgOK, M!Task
  <2> HIDE DEF arg
  <2> QED
    BY <1>5, <2>1, <2>2 DEF Kinds
<1>11. ASSUME NEW taken, M!Resolve(taken) PROVE SeenInv' /\ AsSeen
  <2> DEFINE arg == [conflict |-> conflict, taken |-> taken, seen |-> conflict.meta]
  <2>1. M!Decides("resolve", arg) /\ conflict # M!None
    BY <1>11 DEF M!Resolve
  <2>2. ArgOK(M!Task("resolve", arg), rev, meta)
    BY <2>1 DEF ArgOK, M!Task, SeenInv, CopiesOK, ConflictOK
  <2> HIDE DEF arg
  <2> QED
    BY <1>5, <2>1, <2>2 DEF Kinds
<1>12. ASSUME tasks' = tasks, CopiesOK' PROVE SeenInv' /\ AsSeen
  <2>1. acts' \in Nat /\ acts <= acts'
    BY <1>1
  <2> QED
    BY <1>1, <1>2, <1>12, <2>1, SameTasks DEF SeenInv
<1>13. CASE M!RefreshReview
  BY <1>3, <1>12, <1>13 DEF M!RefreshReview, M!Shown
<1>14. ASSUME NEW issue \in {"title_missing", "source_unverified"}, M!Tick(issue)
       PROVE  SeenInv' /\ AsSeen
  BY <1>3, <1>12, <1>14 DEF M!Tick
<1>15. CASE M!CloseReview
  <2> DEFINE later == [k \in tasks |-> IF k.kind = "source" /\ k.live = "here"
                                       THEN [k EXCEPT !.live = "away"] ELSE k]
  <2>1. tasks' = {later[k] : k \in tasks} /\ acts' = acts
    BY <1>15 DEF M!CloseReview, M!Idly, M!counters
  <2>2. \A k \in tasks : later[k] = k \/ \E l : later[k] = [k EXCEPT !.live = l]
    OBVIOUS
  <2> HIDE DEF later
  <2>3. TasksOK(tasks', rev', meta', acts') /\ AsSeen
    BY <1>1, <2>1, <2>2, TasksLeft
  <2>4. CopiesOK'
    BY <1>3, <1>15 DEF M!CloseReview
  <2> QED
    BY <1>1, <2>1, <2>3, <2>4 DEF SeenInv
<1> QED
  BY <1>6, <1>8, <1>9, <1>10, <1>11, <1>13, <1>14, <1>15 DEF M!DecidingOn

\* Others write revisions of their own.
LEMMA AroundSeen == ASSUME SeenInv, M!Around PROVE SeenInv' /\ AsSeen
PROOF
<1>1. UNCHANGED <<acts, book, preview, loading, conflict>> /\ acts \in Nat /\ rev \in Nat
  BY DEF M!Around, M!OtherEdits, M!OtherObserves, M!OtherSyncs, M!OtherWrites, M!Other, M!Syncing,
         M!BrokenOff, M!review, M!counters, SeenInv
<1>2. tasks' \subseteq tasks
  BY DEF M!Around, M!OtherEdits, M!OtherObserves, M!OtherSyncs, M!OtherWrites, M!Other, M!Syncing,
         M!BrokenOff
<1>3. Advances /\ (pending' = pending \/ ConflictOK(pending', rev', meta'))
  <2>1. CASE M!OtherEdits
    <3>1. Advances
      BY <2>1, WritesAdvance DEF M!OtherEdits, M!Edited
    <3> QED
      BY <2>1, <3>1 DEF M!OtherEdits, M!sidecar
  <2>2. CASE M!OtherObserves
    <3>1. Advances
      BY <2>2, WritesAdvance DEF M!OtherObserves, M!Observed
    <3> QED
      BY <2>2, <3>1 DEF M!OtherObserves, M!sidecar
  <2>3. CASE M!OtherSyncs
    <3>1. UNCHANGED <<meta, rev>>
      BY <2>3 DEF M!OtherSyncs, M!library
    <3>2. pending' = pending \/ ConflictOK(pending', rev', meta')
      BY <1>1, <2>3, <3>1 DEF M!OtherSyncs, M!SyncBegins, M!Records, ConflictOK, AsOf
    <3> QED
      BY <3>1, <3>2 DEF Advances
  <2>4. CASE M!OtherWrites \/ M!BrokenOff
    BY <2>4 DEF M!OtherWrites, M!BrokenOff, M!library, Advances
  <2>5. CASE M!Syncing
    BY <2>5 DEF M!Syncing, M!Publish, M!Record, M!Records, M!library, Advances, ConflictOK
  <2> QED
    BY <2>1, <2>2, <2>3, <2>4, <2>5 DEF M!Around
<1> QED
  BY <1>1, <1>2, <1>3, FewerTasks, CopiesKept DEF SeenInv

\* A move takes the page away, and leaves its requests.
LEMMA MovesSeen == ASSUME SeenInv, Moves PROVE SeenInv' /\ AsSeen
PROOF
<1> DEFINE where == Where(active', auth')
<1>1. M!Mounted(where)
  BY DEF Moves
<1> HIDE DEF where
<1>2. UNCHANGED <<meta, rev, acts, pending>> /\ acts \in Nat /\ rev \in Nat
  BY <1>1 DEF M!Mounted, M!library, M!sidecar, M!counters, SeenInv
<1>3. Advances
  BY <1>2 DEF Advances
<1>4. CASE where = at
  <2>1. UNCHANGED <<book, preview, loading, conflict, tasks>>
    BY <1>1, <1>4 DEF M!Mounted, M!review
  <2> QED
    BY <1>2, <1>3, <2>1, SameTasks, CopiesKept DEF SeenInv
<1>5. CASE where # at
  <2>1. /\ book' = book \/ book' = M!None
        /\ preview' = M!None /\ conflict' = M!None /\ loading' = M!Idle
    BY <1>1, <1>5 DEF M!Mounted
  <2>2. /\ BookOK(M!None, rev', meta') /\ PreviewOK(M!None, rev', meta')
        /\ ConflictOK(M!None, rev', meta') /\ LoadingOK(M!Idle, rev', meta')
    BY DEF BookOK, PreviewOK, ConflictOK, LoadingOK, M!Idle
  <2>3. CopiesOK'
    BY <1>2, <1>3, <2>1, <2>2, CopiesKept
  <2> DEFINE later == [k \in tasks |-> [k EXCEPT !.live = IF where = "away" \/ k.live = "gone"
                                                          THEN "gone" ELSE "away"]]
  <2>4. tasks' = {later[k] : k \in tasks}
    BY <1>1, <1>5 DEF M!Mounted
  <2>5. \A k \in tasks : later[k] = k \/ \E l : later[k] = [k EXCEPT !.live = l]
    OBVIOUS
  <2> HIDE DEF later
  <2>6. TasksOK(tasks', rev', meta', acts') /\ AsSeen
    BY <1>2, <2>4, <2>5, TasksLeft
  <2> QED
    BY <1>2, <2>3, <2>6 DEF SeenInv
<1> QED
  BY <1>4, <1>5

LEMMA WorksSeen == ASSUME SeenInv, M!Works PROVE SeenInv' /\ AsSeen
PROOF
<1>1. CASE M!Serving
  BY <1>1, ServedSeen, FollowedSeen, FailsSeen DEF M!Serving
<1>2. CASE M!Answering
  BY <1>2, AnswersSeen
<1>3. CASE M!ReviewLoads \/ M!LoadFails \/ M!Loaded
  BY <1>3, LoadsSeen
<1>4. CASE M!Editing \/ M!DecidingOn
  BY <1>4, EditsSeen, DecidesSeen
<1>5. CASE M!Around
  BY <1>5, AroundSeen
<1> QED
  BY <1>1, <1>2, <1>3, <1>4, <1>5 DEF M!Works

LEMMA InitSeen == BookPageInit => SeenInv
PROOF BY DEF BookPageInit, M!Start, SeenInv, CopiesOK, BookOK, PreviewOK, ConflictOK, LoadingOK, M!Idle,
             TasksOK

LEMMA SeenKeptStill == ASSUME SeenInv, UNCHANGED bookPageVars PROVE SeenInv'
PROOF
<1>1. UNCHANGED <<meta, rev, acts, tasks, book, preview, loading, conflict, pending>>
  BY DEF bookPageVars, M!metadataVars, M!library, M!sidecar, M!review, M!counters
<1>2. TasksOK(tasks', rev', meta', acts')
  BY <1>1 DEF SeenInv
<1>3. CopiesOK'
  BY <1>1 DEF SeenInv, CopiesOK
<1> QED
  BY <1>1, <1>2, <1>3 DEF SeenInv

\* What the user did is done to what the page showed when they did it - metadata edited, a
\* candidate decided, issues accepted, a conflict settled - whatever other devices, checks
\* and programs did in between, and in whatever order the answers came: the library takes a
\* request only under the revision and the review it was made for (write_metadata(),
\* _checked(), SidecarSync.resolve()).
THEOREM ActsOnWhatWasSeenTheorem == BookPageSpec => ActsOnWhatWasSeen
PROOF
<1>1. SeenInv /\ [BookPageNext]_bookPageVars => SeenInv' /\ [AsSeen]_bookPageVars
  BY SeenKeptStill, MovesSeen, WorksSeen DEF BookPageNext, Works
<1> QED
  BY <1>1, InitSeen, PTL DEF BookPageSpec, ActsOnWhatWasSeen, AsSeen

-----------------------------------------------------------------------------
(* What is typed stays.                                                    *)
(* The guard knows of a draft exactly when the form was changed, and a     *)
(* closed editor has none: what replaces the form of a closed editor drops *)
(* nothing, and what replaces that of an open one is named by DraftStays.  *)

Mirror == at = "detail" /\ book # M!None /\ dialog # "metadata" => form = M!FormOf(book.meta)
DraftInv ==
    /\ at = Where(active, auth)
    /\ at # "away" => (draft <=> M!Dirty)
    /\ auth # "ready" => ~draft
    /\ Mirror

\* What DraftStays says of a step.
Drops ==
    typed /\ M!Dirty /\ ~typed' =>
        \/ asking /\ dialog' = "none"
        \/ conflicted /\ ~conflicted' /\ ~failed'
        \/ \E k \in tasks : k.kind = "save" /\ k.live = "here" /\ k.done /\ k.ok = "yes"
        \/ reloads' # reloads \/ bounced' \/ auth' # "ready"
        \/ \E a \in asks : a.live

\* The form is left alone with what it is compared with, or it mirrors the book.
LEMMA FormLeft ==
    ASSUME Mirror, UNCHANGED <<at, book, form, typed>>, dialog' = dialog \/ dialog # "metadata"
    PROVE  Mirror' /\ Drops
PROOF
<1>1. Mirror'
  BY DEF Mirror
<1> QED
  BY <1>1 DEF Drops

\* A copy that came in.
LEMMA UpdateMirrors ==
    ASSUME Mirror, UNCHANGED <<at, dialog>>, NEW v, book' = v,
           IF at = "detail" THEN M!Mirrored(v.meta) ELSE M!SameForm
    PROVE  Mirror' /\ Drops
PROOF
<1>1. CASE at = "detail" /\ dialog # "metadata"
  <2>1. form' = M!FormOf(book'.meta)
    BY <1>1 DEF M!Mirrored, M!NewForm
  <2>2. ~M!Dirty
    BY <1>1 DEF Mirror, M!Dirty, M!Changed
  <2> QED
    BY <2>1, <2>2 DEF Mirror, Drops
<1>2. CASE at # "detail" \/ dialog = "metadata"
  <2>1. typed' = typed
    BY <1>2 DEF M!Mirrored, M!SameForm
  <2> QED
    BY <1>2, <2>1 DEF Mirror, Drops
<1> QED
  BY <1>1, <1>2

LEMMA AnsweringMirrors == ASSUME Mirror, M!Answering PROVE Mirror' /\ Drops /\ at' = at
PROOF
<1> PICK k \in tasks : \/ M!SaveAnswered(k) \/ M!ReadAnswered(k) \/ M!SourceAnswered(k)
                       \/ M!ReviewAnswered(k) \/ M!Forgotten(k)
  BY DEF M!Answering
<1>1. UNCHANGED <<at, dialog>>
  BY DEF M!SaveAnswered, M!ReadAnswered, M!SourceAnswered, M!ReviewAnswered, M!Forgotten, M!Ours
<1>2. ASSUME M!Stays PROVE Mirror' /\ Drops
  BY <1>1, <1>2, FormLeft DEF M!Stays, M!SameForm
<1>3. ASSUME M!Update(k.value) PROVE Mirror' /\ Drops
  BY <1>1, <1>3, UpdateMirrors DEF M!Update, M!Shows
<1>4. CASE M!SaveAnswered(k) /\ M!Stored(k)
  <2>1. CASE k.live = "here"
    <3>1. k.kind = "save" /\ k.done /\ k.ok = "yes" /\ book' = k.value /\ form' = M!FormOf(k.value.meta)
      BY <1>4, <2>1 DEF M!SaveAnswered, M!Stored, M!Shows, M!NewForm
    <3>2. Drops
      BY <2>1, <3>1 DEF Drops
    <3> QED
      BY <1>1, <3>1, <3>2 DEF Mirror
  <2>2. CASE k.live # "here"
    BY <1>1, <1>3, <1>4, <2>2 DEF M!Stored
  <2> QED
    BY <2>1, <2>2
<1>5. CASE M!SaveAnswered(k) /\ M!NotStored(k)
  BY <1>1, <1>2, <1>5 DEF M!NotStored
<1>6. CASE M!ReadAnswered(k)
  BY <1>1, <1>3, <1>6 DEF M!ReadAnswered
<1>7. CASE M!SourceAnswered(k)
  BY <1>1, <1>2, <1>3, <1>7 DEF M!SourceAnswered
<1>8. CASE M!ReviewAnswered(k)
  <2>1. CASE k.ok = "yes"
    BY <1>1, <1>8, <2>1, UpdateMirrors DEF M!ReviewAnswered, M!Shows
  <2>2. CASE k.ok # "yes"
    BY <1>1, <1>2, <1>8, <2>2 DEF M!ReviewAnswered
  <2> QED
    BY <2>1, <2>2
<1>9. CASE M!Forgotten(k)
  BY <1>1, <1>2, <1>9 DEF M!Forgotten
<1> QED
  BY <1>1, <1>4, <1>5, <1>6, <1>7, <1>8, <1>9 DEF M!SaveAnswered

LEMMA EditingMirrors == ASSUME Mirror, M!Editing PROVE Mirror' /\ Drops /\ at' = at
PROOF
<1>1. UNCHANGED <<at, book>>
  <2>1. M!Idly \/ M!Act
    BY DEF M!Editing, M!Open, M!Close, M!Discard, M!KeepEditing, M!ReloadLatest, M!Save,
           M!TypeTitle, M!Pick, M!TakeOut, M!Commit, M!Typing
  <2> QED
    BY <2>1 DEF M!Idly, M!Act
<1>2. CASE \E which \in {"metadata", "review"} : M!Open(which)
  <2>1. dialog = "none" /\ UNCHANGED <<form, typed>>
    BY <1>2 DEF M!Open, M!editor
  <2> QED
    BY <1>1, <2>1, FormLeft
<1>3. ASSUME M!Closes PROVE Mirror'
  BY <1>1, <1>3 DEF M!Closes, M!NewForm, Mirror
<1>4. CASE M!Close
  <2>1. CASE M!Changed
    BY <1>1, <1>4, <2>1, FormLeft DEF M!Close
  <2>2. CASE ~M!Changed
    <3>1. ~M!Dirty
      BY <2>2 DEF M!Dirty
    <3> QED
      BY <1>1, <1>3, <1>4, <2>2, <3>1 DEF M!Close, Drops
  <2> QED
    BY <2>1, <2>2
<1>5. CASE M!Discard
  <2>1. asking /\ dialog' = "none"
    BY <1>5 DEF M!Discard, M!Closes
  <2> QED
    BY <1>1, <1>3, <1>5, <2>1 DEF M!Discard, Drops
<1>6. CASE M!KeepEditing
  BY <1>1, <1>6, FormLeft DEF M!KeepEditing
<1>7. CASE M!ReloadLatest
  <2>1. conflicted /\ ~conflicted' /\ ~failed' /\ dialog' = "metadata"
    BY <1>7 DEF M!ReloadLatest
  <2> QED
    BY <1>1, <2>1 DEF Mirror, Drops
<1>8. ASSUME NEW f, NEW which, M!Typing(f, which) PROVE Mirror' /\ Drops
  BY <1>8 DEF M!Typing, Mirror, Drops
<1>9. CASE M!Save
  BY <1>1, <1>9, FormLeft DEF M!Save
<1>10. ASSUME NEW i, M!Pick(i) PROVE Mirror' /\ Drops
  BY <1>1, <1>10, FormLeft DEF M!Pick
<1> QED
  BY <1>1, <1>2, <1>4, <1>5, <1>6, <1>7, <1>8, <1>9, <1>10
  DEF M!Editing, M!TypeTitle, M!TakeOut, M!Commit

LEMMA WorksMirrors == ASSUME Mirror, M!Works PROVE Mirror' /\ Drops /\ at' = at
PROOF
<1>1. CASE M!Serving
  <2>1. UNCHANGED <<at, book, form, typed, dialog>>
    BY <1>1 DEF M!Serving, M!Served, M!SyncServed, M!SyncAnswered, M!ReadServed, M!Fails,
                M!Elsewhere, M!editor
  <2> QED
    BY <2>1, FormLeft
<1>2. CASE M!Answering
  BY <1>2, AnsweringMirrors
<1>3. CASE M!ReviewLoads \/ M!LoadFails
  <2>1. UNCHANGED <<at, book, form, typed, dialog>>
    BY <1>3 DEF M!ReviewLoads, M!LoadFails, M!Ours, M!editor
  <2> QED
    BY <2>1, FormLeft
<1>4. CASE M!Editing
  BY <1>4, EditingMirrors
<1>5. CASE M!DecidingOn
  <2>1. UNCHANGED <<at, book>>
    <3>1. M!Idly \/ M!Act
      BY <1>5 DEF M!DecidingOn, M!CloseReview, M!RefreshReview, M!UpdateFromSource, M!RunAutomatic,
                  M!Complete, M!Choose, M!Tick, M!Resolve, M!Decides
    <3> QED
      BY <3>1 DEF M!Idly, M!Act
  <2>2. UNCHANGED <<form, typed>> /\ (dialog' = dialog \/ dialog = "review")
    BY <1>5 DEF M!DecidingOn, M!CloseReview, M!RefreshReview, M!UpdateFromSource, M!RunAutomatic,
                M!Complete, M!Choose, M!Tick, M!Resolve, M!Decides, M!Reviewing, M!editor
  <2> QED
    BY <2>1, <2>2, FormLeft
<1>6. CASE M!Around
  <2>1. UNCHANGED <<at, book, form, typed, dialog>>
    BY <1>6 DEF M!Around, M!OtherEdits, M!OtherObserves, M!OtherSyncs, M!OtherWrites, M!Other,
                M!Syncing, M!BrokenOff, M!editor
  <2> QED
    BY <2>1, FormLeft
<1>7. CASE M!Loaded
  <2>1. at' = at /\ book' = M!Copy /\ ~M!Dirty /\ M!Copy.meta = meta
    BY <1>7 DEF M!Loaded, M!Dirty, M!Copy
  <2>2. Mirror'
    BY <1>7, <2>1 DEF M!Loaded, M!NewForm, Mirror
  <2> QED
    BY <2>1, <2>2 DEF Drops
<1> QED
  BY <1>1, <1>2, <1>3, <1>4, <1>5, <1>6, <1>7 DEF M!Works

\* A draft goes with its page, and a page that is left when its guard answered at once had none.
LEMMA NextDrops ==
    ASSUME Next, auth # "ready" => ~draft
    PROVE  /\ auth' # "ready" => ~draft'
           /\ active' # active \/ auth' # auth => ~draft'
           /\ draft /\ active' # active =>
                auth' # "ready" \/ \E a \in asks : a.live
PROOF
<1>1. CASE Restart
  BY <1>1 DEF Restart
<1>2. CASE Still
  BY <1>2 DEF Still, page, session
<1>3. CASE Moving
  BY <1>1, <1>2, <1>3 DEF Moving, Click, BackOrForward, Gone, Reload
<1>4. ASSUME NEW r, NEW pos, NEW oths, Accepted(r, pos, oths) PROVE ~draft'
  BY <1>4 DEF Accepted, Left
<1>5. CASE Change
  <2>1. CASE UNCHANGED <<active, page>>
    BY <1>5, <2>1 DEF Change, session, page
  <2>2. CASE active' # active \/ ~UNCHANGED page
    <3>1. Consents /\ \E pos : Accepted(Address, pos, Superseded)
      BY <1>5, <2>2 DEF Change, Refused
    <3>2. ~draft' /\ ~draft
      BY <1>4, <3>1 DEF Consents, Guarded
    <3> QED
      BY <3>2
  <2> QED
    BY <2>1, <2>2
<1>6. ASSUME NEW a \in asks, MoveAnswered(a) PROVE
         /\ auth' # "ready" => ~draft'
         /\ active' # active \/ auth' # auth => ~draft'
         /\ active' # active => a.live
  BY <1>4, <1>6 DEF MoveAnswered, Refused, session, page
<1>7. ASSUME NEW a \in asks, SignOutAnswered(a) PROVE
         /\ auth' # "ready" => ~draft'
         /\ active' = active /\ (auth' # auth => ~draft')
  BY <1>7 DEF SignOutAnswered, SignedOut, Left, Outside, session, page
<1>8. CASE Paging
  BY <1>8 DEF Paging, Draft, Resolved, Edit, SaveEnds, Working, session
<1>9. CASE Sessions
  <2>1. active' = active
    BY <1>9 DEF Sessions, Checked, Entered, Locked, SignOut, SignOutEnds, Outside
  <2>2. CASE (\E ok \in BOOLEAN : Checked(ok)) \/ Entered \/ SignOutEnds
    BY <2>1, <2>2 DEF Checked, Entered, SignOutEnds, page
  <2>3. CASE Locked
    BY <2>1, <2>3 DEF Locked, Left
  <2>4. CASE SignOut
    BY <2>1, <2>4 DEF SignOut, SignedOut, Left, session, page
  <2> QED
    BY <1>9, <2>2, <2>3, <2>4 DEF Sessions
<1> QED
  BY <1>3, <1>5, <1>6, <1>7, <1>8, <1>9 DEF Next, Guarding

LEMMA MovesDrop == ASSUME DraftInv, Moves PROVE DraftInv' /\ Drops
PROOF
<1> DEFINE where == Where(active', auth')
<1>1. M!Mounted(where) /\ Next /\ ((at # "away" /\ at' = at) => draft' = draft) /\ at' = where
  BY DEF Moves, M!Mounted
<1>2. /\ auth' # "ready" => ~draft'
      /\ active' # active \/ auth' # auth => ~draft'
      /\ draft /\ active' # active =>
           auth' # "ready" \/ \E a \in asks : a.live
  BY <1>1, NextDrops DEF DraftInv
<1>3. where # at => active' # active \/ auth' # auth
  BY DEF DraftInv
<1> HIDE DEF where
<1>4. CASE where = at
  <2>1. UNCHANGED <<at, book, form, typed, dialog>>
    BY <1>1, <1>4 DEF M!Mounted, M!editor
  <2>2. Mirror' /\ Drops
    BY <2>1, FormLeft DEF DraftInv
  <2>3. M!Dirty' <=> M!Dirty
    BY <2>1 DEF M!Dirty, M!Changed
  <2>4. at' # "away" => (draft' <=> M!Dirty')
    BY <1>1, <2>1, <2>3 DEF DraftInv
  <2> QED
    BY <1>1, <1>2, <2>2, <2>4 DEF DraftInv, where
<1>5. CASE where # at
  <2>1. ~draft'
    BY <1>2, <1>3, <1>5
  <2>2. form' = M!FormOf(IF where = "detail" /\ book' # M!None THEN book.meta ELSE M!Nothing)
    BY <1>1, <1>5 DEF M!Mounted, M!NewForm
  <2>3. book' = book \/ book' = M!None
    BY <1>1, <1>5 DEF M!Mounted
  <2>4. at' = "detail" /\ book' # M!None => form' = M!FormOf(book'.meta)
    BY <1>1, <2>2, <2>3
  <2>5. Mirror' /\ ~M!Dirty'
    BY <2>4 DEF Mirror, M!Dirty, M!Changed
  <2>6. Drops
    <3>1. ASSUME M!Dirty PROVE draft /\ auth = "ready"
      BY <3>1 DEF DraftInv, M!Dirty
    <3> QED
      BY <1>2, <1>3, <1>5, <3>1 DEF Drops
  <2> QED
    BY <1>1, <1>2, <2>1, <2>5, <2>6 DEF DraftInv, where
<1> QED
  BY <1>4, <1>5

LEMMA WorksDrop == ASSUME DraftInv, Works PROVE DraftInv' /\ Drops
PROOF
<1>1. /\ M!Works /\ draft' = (IF at = "away" THEN draft ELSE M!Dirty')
      /\ UNCHANGED <<active, auth>>
  BY DEF Works, Stands, session
<1>2. Mirror' /\ Drops /\ at' = at
  BY <1>1, WorksMirrors DEF DraftInv
<1>3. at' # "away" => (draft' <=> M!Dirty')
  BY <1>1, <1>2
<1>4. auth' # "ready" => ~draft'
  BY <1>1 DEF DraftInv, Where
<1>5. at' = Where(active', auth')
  BY <1>1, <1>2 DEF DraftInv
<1> QED
  BY <1>2, <1>3, <1>4, <1>5 DEF DraftInv

LEMMA DraftKeptStill == ASSUME DraftInv, UNCHANGED bookPageVars PROVE DraftInv'
PROOF
<1>1. UNCHANGED <<at, book, form, typed, dialog, active, auth, draft>>
  BY DEF bookPageVars, vars, page, session, M!metadataVars, M!editor
<1>2. M!Dirty' <=> M!Dirty
  BY <1>1 DEF M!Dirty, M!Changed
<1> QED
  BY <1>1, <1>2 DEF DraftInv, Mirror

\* What was typed into the editor goes only when the user said so, when it was stored, or
\* with its page, which its guard lets go at once only when nothing is unsaved (Detail.tsx,
\* closeMetadata() and its mirroring of the book; App.tsx, the guard): neither an answer, a
\* newer version of the book, nor another dialog takes it.
THEOREM DraftStaysTheorem == BookPageSpec => DraftStays
PROOF
<1>1. BookPageInit => DraftInv
  BY DEF BookPageInit, Init, M!Start, DraftInv, Mirror, Where
<1>2. DraftInv /\ [BookPageNext]_bookPageVars => DraftInv' /\ [Drops]_bookPageVars
  BY DraftKeptStill, MovesDrop, WorksDrop DEF BookPageNext
<1> QED
  BY <1>1, <1>2, PTL DEF BookPageSpec, DraftStays, Drops

-----------------------------------------------------------------------------
(* What the metadata, the form and the requests hold.  The tags of a form  *)
(* are a list that is made of a set and edited place by place; what comes  *)
(* back from a request, a conflict or a sync is metadata as the library    *)
(* has it.                                                                 *)

Metas == [title : M!Title, tags : SUBSET M!Tag, guarded : BOOLEAN]
Forms == [title : M!Title, tags : Seq(M!Tag)]
Decisions == {"none", "open", "skipped", "selected"}
Sides == {"candidate", "current", "skip"}
Cands == [M!Source -> [title : M!Title, decision : Decisions]]

LibraryFits == meta \in Metas /\ rev \in Nat /\ event \in Nat /\ confirmed \in BOOLEAN /\ cand \in Cands
FileFits ==
    /\ file # M!None => file \in Metas
    /\ pending # M!None => pending.file \in Metas
    /\ sync.kind \in {"idle", "publish", "record"}
    /\ sync.kind # "idle" => sync.content \in Metas
BookFits == book # M!None => book.meta \in Metas
EditorFits ==
    /\ form \in Forms /\ asking \in BOOLEAN /\ conflicted \in BOOLEAN /\ failed \in BOOLEAN
    /\ typed \in BOOLEAN
PageFits ==
    /\ at \in {"detail", "reader", "away"} /\ dialog \in {"none", "metadata", "review"}
    /\ refused \in BOOLEAN
TaskFits(k) ==
    /\ k.live \in {"here", "away", "gone"} /\ k.done \in BOOLEAN
    /\ k.kind = "save" => k.arg.form \in Forms
    /\ k.kind = "candidate" => k.arg.link \in M!Source /\ k.arg.choice \in Sides
    /\ k.kind = "resolve" => k.arg.conflict # M!None
    /\ HasCopy(k) => k.value.meta \in Metas
TasksFit(ts) == \A k \in ts : TaskFits(k)
TypesInv == LibraryFits /\ FileFits /\ BookFits /\ EditorFits /\ PageFits /\ TasksFit(tasks)

LEMMA MetaIs ==
    /\ \A m \in Metas : m.title \in M!Title /\ m.tags \subseteq M!Tag /\ m.guarded \in BOOLEAN /\ m # M!None
    /\ M!Nothing \in Metas /\ 0 \in M!Title
PROOF
<1>1. 0 \in M!Title
  BY BookPageAssumption DEF M!Title
<1>2. M!Nothing \in Metas
  BY <1>1 DEF M!Nothing, Metas
<1>3. ASSUME NEW m \in Metas
      PROVE  m.title \in M!Title /\ m.tags \subseteq M!Tag /\ m.guarded \in BOOLEAN /\ m # M!None
  <2>1. m.title \in M!Title /\ m.tags \subseteq M!Tag /\ m.guarded \in BOOLEAN
    BY DEF Metas
  <2>2. DOMAIN m # DOMAIN M!None
    <3>1. "title" \in DOMAIN m /\ "title" \notin DOMAIN M!None
      BY DEF Metas, M!None
    <3> QED
      BY <3>1
  <2> QED
    BY <2>1, <2>2
<1> QED
  BY <1>1, <1>2, <1>3

\* The form of metadata lists each of its tags (formOf()).
LEMMA FormOfFits == ASSUME NEW m \in Metas PROVE M!FormOf(m) \in Forms
PROOF
<1>1. m.title \in M!Title /\ m.tags \subseteq 1 .. Tags /\ Tags \in Nat
  BY MetaIs, BookPageAssumption DEF M!Tag
<1>2. Ordered(InOrder(m.tags), m.tags) /\ Cardinality(m.tags) \in Nat
  BY <1>1, InOrderOrders
<1>3. M!InOrder(m.tags) = InOrder(m.tags)
  BY DEF M!InOrder, InOrder, M!Cardinality, Cardinality
<1>4. InOrder(m.tags) \in Seq(M!Tag)
  BY <1>1, <1>2 DEF Ordered, M!Tag
<1> QED
  BY <1>1, <1>3, <1>4 DEF M!FormOf, Forms

LEMMA FormIs ==
    ASSUME NEW f \in Forms PROVE f.title \in M!Title /\ f.tags \in Seq(M!Tag) /\ M!ToSet(f.tags) \subseteq M!Tag
PROOF BY DEF Forms, M!ToSet

\* What is put, taken out or typed leaves a form.
LEMMA FormEdits ==
    ASSUME NEW f \in Forms
    PROVE  /\ \A t \in M!Title : [f EXCEPT !.title = t] \in Forms
           /\ \A s \in Seq(M!Tag) : [f EXCEPT !.tags = s] \in Forms
PROOF BY DEF Forms

LEMMA SameOperators ==
    /\ \A S : M!InOrder(S) = InOrder(S)
    /\ \A s, I : M!Picked(s, I) = Picked(s, I)
    /\ \A s, i : M!RemoveAt(s, i) = RemoveAt(s, i)
PROOF
<1>1. \A S : M!InOrder(S) = InOrder(S)
  BY DEF M!InOrder, InOrder, M!Cardinality, Cardinality
<1>2. \A S : M!Cardinality(S) = Cardinality(S)
  BY DEF M!Cardinality, Cardinality
<1>3. \A s, I : M!Picked(s, I) = Picked(s, I)
  BY <1>1, <1>2 DEF M!Picked, Picked
<1> QED
  BY <1>1, <1>3 DEF M!RemoveAt, RemoveAt

-----------------------------------------------------------------------------
(* What the server writes is metadata.                                     *)

LEMMA AutomaticFits == ASSUME confirmed \in BOOLEAN, M!Automatic PROVE confirmed' \in BOOLEAN
PROOF BY DEF M!Automatic

LEMMA EditedFits ==
    ASSUME LibraryFits, NEW title \in M!Title, NEW tags \in SUBSET M!Tag, M!Edited(title, tags)
    PROVE  LibraryFits'
PROOF
<1>1. PICK g : g = (meta.guarded \/ title # meta.title) /\ g \in BOOLEAN
  OBVIOUS
<1>2. PICK new : new = [title |-> title, tags |-> tags, guarded |-> g]
  OBVIOUS
<1>3. new \in Metas
  BY <1>1, <1>2 DEF Metas
<1>4. M!Writes(new) /\ cand' = cand /\ \/ UNCHANGED <<event, confirmed>>
                                       \/ event' = event + 1 /\ M!Automatic
  BY <1>1, <1>2 DEF M!Edited
<1>5. confirmed' \in BOOLEAN
  BY <1>4, AutomaticFits DEF LibraryFits
<1> QED
  BY <1>3, <1>4, <1>5 DEF LibraryFits, M!Writes

LEMMA CandFits ==
    ASSUME NEW c \in Cands, NEW l, NEW v, l \in M!Source => v \in [title : M!Title, decision : Decisions]
    PROVE  [c EXCEPT ![l] = v] \in Cands
PROOF BY DEF Cands

LEMMA ObservedFits ==
    ASSUME LibraryFits, NEW l, NEW title \in M!Title, M!Observed(l, title)
    PROVE  LibraryFits'
PROOF
<1>1. l \in M!Source => cand[l].decision \in Decisions
  BY DEF LibraryFits, Cands
<1>2. PICK d : d = (IF cand[l].decision # "none" /\ cand[l].title = title THEN cand[l].decision ELSE "open")
  OBVIOUS
<1>3. l \in M!Source => [title |-> title, decision |-> d] \in [title : M!Title, decision : Decisions]
  BY <1>1, <1>2 DEF Decisions
<1>4. cand' = [cand EXCEPT ![l] = [title |-> title, decision |-> d]]
  BY <1>2 DEF M!Observed
<1>5. cand' \in Cands
  BY <1>3, <1>4, CandFits DEF LibraryFits
<1>6. PICK new : M!Writes(new) /\ (new = meta \/ new = [meta EXCEPT !.title = title])
  BY DEF M!Observed
<1>7. new \in Metas
  BY <1>6 DEF LibraryFits, Metas
<1>8. event' = event + 1 /\ confirmed' \in BOOLEAN
  BY AutomaticFits DEF M!Observed, LibraryFits
<1> QED
  BY <1>5, <1>6, <1>7, <1>8 DEF LibraryFits, M!Writes

LEMMA DecidedFits ==
    ASSUME LibraryFits, NEW l \in M!Source, NEW choice \in Sides, M!Decided(l, choice)
    PROVE  LibraryFits'
PROOF
<1>1. cand[l].title \in M!Title /\ cand[l].decision \in Decisions
  BY DEF LibraryFits, Cands
<1>2. PICK new : /\ M!Writes(new)
                 /\ \/ new = [meta EXCEPT !.title = cand[l].title, !.guarded = TRUE]
                    \/ new = [meta EXCEPT !.guarded = TRUE]
                    \/ new = meta
  BY DEF M!Decided, Sides
<1>3. new \in Metas
  BY <1>1, <1>2 DEF LibraryFits, Metas
<1>4. PICK d \in Decisions : cand' = [cand EXCEPT ![l].decision = d]
  BY DEF M!Decided, Decisions
<1>5. cand' \in Cands
  BY <1>4 DEF LibraryFits, Cands
<1>6. event' = event + 1 /\ confirmed' \in BOOLEAN
  BY AutomaticFits DEF M!Decided, LibraryFits
<1> QED
  BY <1>2, <1>3, <1>5, <1>6 DEF LibraryFits, M!Writes

LEMMA ReviewedFits ==
    ASSUME LibraryFits, M!Checked \/ \E ticked : M!Completed(ticked) PROVE LibraryFits'
PROOF
<1>1. CASE M!Checked
  <2>1. confirmed' \in BOOLEAN /\ (event' = event \/ event' = event + 1)
    BY <1>1, AutomaticFits DEF M!Checked, LibraryFits
  <2> QED
    BY <1>1, <2>1 DEF M!Checked, LibraryFits
<1>2. CASE \E ticked : M!Completed(ticked)
  BY <1>2 DEF M!Completed, LibraryFits
<1> QED
  BY <1>1, <1>2

LEMMA ResolvedFits ==
    ASSUME LibraryFits, FileFits, NEW c, c # M!None, NEW taken, M!Resolved(c, taken)
    PROVE  LibraryFits' /\ FileFits'
PROOF
<1>1. pending = c /\ c.file = file /\ file \in Metas
  BY DEF M!Resolved, FileFits
<1>2. PICK g : g = (meta.guarded \/ c.file.title # meta.title) /\ g \in BOOLEAN
  OBVIOUS
<1>3. PICK t, u : M!Writes([title |-> t.title, tags |-> u.tags, guarded |-> g])
                  /\ t \in {c.file, meta} /\ u \in {c.file, meta}
  BY <1>2 DEF M!Resolved
<1>4. [title |-> t.title, tags |-> u.tags, guarded |-> g] \in Metas
  BY <1>1, <1>2, <1>3 DEF Metas, LibraryFits
<1>5. confirmed' \in BOOLEAN /\ UNCHANGED <<event, cand>>
  BY DEF M!Resolved, LibraryFits
<1>6. LibraryFits'
  BY <1>3, <1>4, <1>5 DEF LibraryFits, M!Writes
<1>7. UNCHANGED <<file, sync>> /\ pending' = M!None
  BY DEF M!Resolved
<1> QED
  BY <1>6, <1>7 DEF FileFits

LEMMA BeginsFits == ASSUME LibraryFits, FileFits, M!SyncBegins PROVE FileFits'
PROOF
<1>1. file' = file /\ meta \in Metas
  BY DEF M!SyncBegins, LibraryFits
<1>2. CASE M!Records(file)
  BY <1>1, <1>2 DEF M!Records, M!Idle, FileFits
<1>3. CASE sync' = [kind |-> "publish", content |-> meta] /\ UNCHANGED <<base, pending>>
  BY <1>1, <1>3 DEF FileFits
<1>4. CASE /\ pending' = [kind |-> "conflict", rev |-> rev, meta |-> meta, file |-> file]
           /\ UNCHANGED <<base, sync>> /\ ~M!Agreed
  <2>1. file \in Metas
    BY <1>4 DEF M!Agreed, FileFits
  <2>2. pending'.file \in Metas
    BY <1>4, <2>1
  <2> QED
    BY <1>1, <1>4, <2>2 DEF FileFits
<1> QED
  BY <1>2, <1>3, <1>4 DEF M!SyncBegins

\* What a request is when it is sent, goes on or is answered; and the requests after a step.
LEMMA TaskFitsOn ==
    ASSUME NEW k, TaskFits(k), NEW n, n.kind = k.kind, n.arg = k.arg, n.live = k.live,
           n.done \in BOOLEAN, HasCopy(n) => n.value.meta \in Metas
    PROVE  TaskFits(n)
PROOF BY DEF TaskFits

LEMMA TasksFitOn ==
    ASSUME TasksFit(tasks), NEW k \in tasks, NEW n, M!Becomes(k, n), TaskFits(n)
    PROVE  TasksFit(tasks')
PROOF BY DEF TasksFit, M!Becomes

LEMMA TasksFitLess == ASSUME TasksFit(tasks), tasks' \subseteq tasks PROVE TasksFit(tasks')
PROOF BY DEF TasksFit

LEMMA TaskFitsSent ==
    ASSUME TasksFit(tasks), NEW kind, NEW arg, M!Sends(M!Task(kind, arg)),
           kind = "save" => arg.form \in Forms,
           kind = "candidate" => arg.link \in M!Source /\ arg.choice \in Sides,
           kind = "resolve" => arg.conflict # M!None
    PROVE  TasksFit(tasks')
PROOF
<1> DEFINE n == M!Task(kind, arg)
<1>1. n.kind = kind /\ n.arg = arg /\ n.live = "here" /\ n.done = FALSE
  BY DEF M!Task
<1>2. tasks' = tasks \cup {n}
  BY DEF M!Sends
<1> HIDE DEF n
<1>3. TaskFits(n)
  BY <1>1 DEF TaskFits, HasCopy
<1> QED
  BY <1>2, <1>3 DEF TasksFit

LEMMA TasksFitLeft ==
    ASSUME TasksFit(tasks), \A k \in tasks : DOMAIN k = TaskFields, NEW Later,
           \A k \in tasks : Later[k] = k \/ \E l \in {"here", "away", "gone"} : Later[k] = [k EXCEPT !.live = l],
           tasks' = {Later[k] : k \in tasks}
    PROVE  TasksFit(tasks')
PROOF
<1>1. ASSUME NEW k \in tasks PROVE TaskFits(Later[k])
  <2>1. TaskFits(k) /\ DOMAIN k = TaskFields
    BY DEF TasksFit
  <2>2. ASSUME NEW l \in {"here", "away", "gone"} PROVE TaskFits([k EXCEPT !.live = l])
    BY <2>1 DEF TaskFits, TaskFields, HasCopy
  <2> QED
    BY <2>1, <2>2
<1> QED
  BY <1>1 DEF TasksFit

-----------------------------------------------------------------------------
(* The steps keep the types.                                               *)

LEMMA FileSame == ASSUME FileFits, UNCHANGED <<file, pending, sync>> PROVE FileFits'
PROOF BY DEF FileFits

LEMMA LibrarySame == ASSUME LibraryFits, UNCHANGED <<meta, rev, event, confirmed, cand>> PROVE LibraryFits'
PROOF BY DEF LibraryFits

LEMMA CopyFits == ASSUME LibraryFits PROVE M!Copy.meta \in Metas
PROOF BY DEF LibraryFits, M!Copy

LEMMA AcceptsFits ==
    ASSUME LibraryFits, FileFits, NEW k, TaskFits(k), k.kind \in Kinds, M!Accepts(k)
    PROVE  LibraryFits' /\ FileFits'
PROOF
<1>1. CASE k.kind = "resolve"
  BY <1>1, ResolvedFits DEF M!Accepts, TaskFits
<1>2. CASE k.kind # "resolve"
  <2>1. FileFits'
    BY <1>2, FileSame DEF M!Accepts, M!sidecar
  <2>2. CASE k.kind = "save"
    <3>1. M!Edited(k.arg.form.title, M!ToSet(k.arg.form.tags)) /\ k.arg.form \in Forms
      BY <2>2 DEF M!Accepts, TaskFits
    <3>2. k.arg.form.title \in M!Title /\ M!ToSet(k.arg.form.tags) \in SUBSET M!Tag
      BY <3>1, FormIs
    <3> QED
      BY <2>1, <3>1, <3>2, EditedFits
  <2>3. CASE k.kind = "source"
    BY <2>1, <2>3, ObservedFits DEF M!Accepts, TaskFits
  <2>4. CASE k.kind = "candidate"
    BY <2>1, <2>4, DecidedFits DEF M!Accepts, TaskFits
  <2>5. CASE k.kind \in {"automatic", "complete"}
    <3>1. M!Checked \/ M!Completed(k.arg.ticked)
      BY <2>5 DEF M!Accepts
    <3> QED
      BY <2>1, <3>1, ReviewedFits
  <2> QED
    BY <1>2, <2>2, <2>3, <2>4, <2>5 DEF Kinds
<1> QED
  BY <1>1, <1>2

LEMMA ServingFits == ASSUME TypesInv, SeenInv, M!Serving PROVE TypesInv'
PROOF
<1> PICK k \in tasks : M!Served(k) \/ M!SyncServed(k) \/ M!SyncAnswered(k) \/ M!ReadServed(k) \/ M!Fails(k)
  BY DEF M!Serving
<1>1. UNCHANGED <<at, book, form, typed, asking, conflicted, failed, dialog, refused>>
  BY DEF M!Served, M!SyncServed, M!SyncAnswered, M!ReadServed, M!Fails, M!Elsewhere, M!editor, M!review
<1>2. BookFits' /\ EditorFits' /\ PageFits'
  BY <1>1 DEF TypesInv, BookFits, EditorFits, PageFits
<1>3. TaskFits(k) /\ DOMAIN k = TaskFields /\ k.kind \in Kinds /\ (k.step = k.kind \/ k.kind = "save")
  BY DEF TypesInv, TasksFit, SeenInv, TasksOK, TaskOK
<1>4. LibraryFits /\ FileFits
  BY DEF TypesInv
<1>5. ASSUME NEW n, M!Becomes(k, n), n.kind = k.kind, n.arg = k.arg, n.live = k.live,
             n.done \in BOOLEAN, HasCopy(n) => n.value.meta \in Metas
      PROVE  TasksFit(tasks')
  BY <1>3, <1>5, TaskFitsOn, TasksFitOn DEF TypesInv
<1>6. CASE M!Served(k) /\ M!Accepts(k)
  <2> DEFINE n == [M!Answers(k, "yes") EXCEPT !.value = M!Copy']
  <2>1. LibraryFits' /\ FileFits'
    BY <1>3, <1>4, <1>6, AcceptsFits
  <2>2. CASE M!Becomes(k, n)
    <3>1. n.kind = k.kind /\ n.arg = k.arg /\ n.live = k.live /\ n.done = TRUE /\ n.value = M!Copy'
      BY <1>3 DEF TaskFields, M!Answers
    <3>2. M!Copy'.meta = meta'
      BY DEF M!Copy
    <3>3. n.value.meta \in Metas
      BY <2>1, <3>1, <3>2 DEF LibraryFits
    <3> HIDE DEF n
    <3> QED
      BY <1>2, <1>5, <2>1, <2>2, <3>1, <3>3 DEF TypesInv
  <2>3. CASE M!Becomes(k, M!Answers(k, "conflict"))
    <3> DEFINE c == M!Answers(k, "conflict")
    <3>1. /\ c.kind = k.kind /\ c.arg = k.arg /\ c.live = k.live /\ c.done = TRUE /\ c.ok = "conflict"
          /\ c.step = k.kind
      BY <1>3, <1>6 DEF TaskFields, M!Answers, M!Served
    <3> HIDE DEF c
    <3>2. M!Becomes(k, c)
      BY <2>3 DEF c
    <3>3. ~HasCopy(c)
      BY <1>3, <3>1 DEF HasCopy, Kinds
    <3> QED
      BY <1>2, <1>5, <2>1, <3>1, <3>2, <3>3 DEF TypesInv
  <2> QED
    BY <1>6, <2>2, <2>3 DEF M!Served
<1>7. CASE M!Served(k) /\ ~M!Accepts(k)
  <2> DEFINE c == M!Answers(k, "conflict")
  <2>1. M!Becomes(k, c) /\ UNCHANGED <<M!library, M!sidecar>> /\ k.step = k.kind
    BY <1>7 DEF M!Served
  <2>2. /\ c.kind = k.kind /\ c.arg = k.arg /\ c.live = k.live /\ c.done = TRUE /\ c.ok = "conflict"
        /\ c.step = k.kind
    BY <1>3, <2>1 DEF TaskFields, M!Answers
  <2> HIDE DEF c
  <2>3. ~HasCopy(c)
    BY <1>3, <2>2 DEF HasCopy, Kinds
  <2>4. LibraryFits' /\ FileFits'
    BY <1>4, <2>1, LibrarySame, FileSame DEF M!library, M!sidecar
  <2> QED
    BY <1>2, <1>5, <2>1, <2>2, <2>3, <2>4 DEF TypesInv
<1>8. CASE M!SyncServed(k)
  <2> DEFINE n == [k EXCEPT !.done = TRUE]
  <2>1. M!Becomes(k, n) /\ M!SyncBegins /\ k.step = "sync" /\ UNCHANGED M!library
    BY <1>8 DEF M!SyncServed
  <2>2. n.kind = k.kind /\ n.arg = k.arg /\ n.live = k.live /\ n.done = TRUE /\ n.step = "sync"
    BY <1>3, <2>1 DEF TaskFields
  <2> HIDE DEF n
  <2>3. ~HasCopy(n)
    BY <1>3, <2>2 DEF HasCopy, Kinds
  <2>4. LibraryFits' /\ FileFits'
    BY <1>4, <2>1, LibrarySame, BeginsFits DEF M!library
  <2> QED
    BY <1>2, <1>5, <2>1, <2>2, <2>3, <2>4 DEF TypesInv
<1>9. ASSUME UNCHANGED <<M!library, M!sidecar>> PROVE LibraryFits' /\ FileFits'
  BY <1>4, <1>9, LibrarySame, FileSame DEF M!library, M!sidecar
<1>10. CASE M!SyncAnswered(k)
  <2> DEFINE n == [k EXCEPT !.step = "refresh", !.done = FALSE]
  <2>1. M!Becomes(k, n) /\ UNCHANGED <<M!library, M!sidecar>>
    BY <1>10 DEF M!SyncAnswered
  <2>2. n.kind = k.kind /\ n.arg = k.arg /\ n.live = k.live /\ n.done = FALSE
    BY <1>3 DEF TaskFields
  <2> HIDE DEF n
  <2> QED
    BY <1>2, <1>5, <1>9, <2>1, <2>2 DEF TypesInv, HasCopy
<1>11. CASE M!ReadServed(k)
  <2> DEFINE n == [M!Answers(k, "yes") EXCEPT !.value = M!Copy]
  <2>1. M!Becomes(k, n) /\ UNCHANGED <<M!library, M!sidecar>>
    BY <1>11 DEF M!ReadServed
  <2>2. n.kind = k.kind /\ n.arg = k.arg /\ n.live = k.live /\ n.done = TRUE /\ n.value = M!Copy
    BY <1>3 DEF TaskFields, M!Answers
  <2>3. n.value.meta \in Metas
    BY <1>4, <2>2, CopyFits
  <2> HIDE DEF n
  <2> QED
    BY <1>2, <1>5, <1>9, <2>1, <2>2, <2>3 DEF TypesInv
<1>12. CASE M!Fails(k)
  <2>1. LibraryFits' /\ FileFits'
    BY <1>9, <1>12 DEF M!Fails
  <2>2. CASE k.step = k.kind
    <3> DEFINE n == M!Answers(k, "no")
    <3>1. M!Becomes(k, n)
      BY <1>12, <2>2 DEF M!Fails
    <3>2. n.kind = k.kind /\ n.arg = k.arg /\ n.live = k.live /\ n.done = TRUE /\ n.ok = "no" /\ n.step = k.kind
      BY <1>3, <2>2 DEF TaskFields, M!Answers
    <3> HIDE DEF n
    <3>3. ~HasCopy(n)
      BY <1>3, <3>2 DEF HasCopy, Kinds
    <3> QED
      BY <1>2, <1>5, <2>1, <3>1, <3>2, <3>3 DEF TypesInv
  <2>3. CASE k.step # k.kind
    <3>1. tasks' \subseteq tasks
      BY <1>12, <2>3 DEF M!Fails, M!Ends
    <3> QED
      BY <1>2, <2>1, <3>1, TasksFitLess DEF TypesInv
  <2> QED
    BY <2>2, <2>3
<1> QED
  BY <1>6, <1>7, <1>8, <1>10, <1>11, <1>12

\* A copy that comes in, and the form that may mirror it.
LEMMA NewFormFits ==
    ASSUME NEW m \in Metas, M!NewForm(m) PROVE form' \in Forms /\ typed' \in BOOLEAN
PROOF BY FormOfFits DEF M!NewForm

LEMMA MirroredFits ==
    ASSUME EditorFits, NEW m \in Metas, M!Mirrored(m) \/ M!NewForm(m) \/ M!SameForm
    PROVE  form' \in Forms /\ typed' \in BOOLEAN
PROOF BY NewFormFits DEF M!Mirrored, M!SameForm, EditorFits

LEMMA UpdateFits ==
    ASSUME EditorFits, NEW v, v.meta \in Metas,
           M!Update(v) \/ (M!SameForm /\ book' = v)
    PROVE  BookFits' /\ form' \in Forms /\ typed' \in BOOLEAN
PROOF
<1>1. book' = v /\ \/ M!Mirrored(v.meta)
                   \/ M!SameForm
  BY DEF M!Update, M!Shows
<1> QED
  BY <1>1, MirroredFits DEF BookFits

LEMMA AnsweringFits == ASSUME TypesInv, SeenInv, M!Answering PROVE TypesInv'
PROOF
<1> PICK k \in tasks : \/ M!SaveAnswered(k) \/ M!ReadAnswered(k) \/ M!SourceAnswered(k)
                       \/ M!ReviewAnswered(k) \/ M!Forgotten(k)
  BY DEF M!Answering
<1>1. TaskFits(k) /\ DOMAIN k = TaskFields /\ k.kind \in Kinds /\ (k.step = k.kind \/ k.kind = "save")
  BY DEF TypesInv, TasksFit, SeenInv, TasksOK, TaskOK
<1>2. LibraryFits' /\ FileFits'
  BY LibrarySame, FileSame
  DEF TypesInv, M!SaveAnswered, M!ReadAnswered, M!SourceAnswered, M!ReviewAnswered, M!Forgotten, M!Ours,
      M!library, M!sidecar
<1>3. UNCHANGED <<at, dialog, asking>>
  BY DEF M!SaveAnswered, M!ReadAnswered, M!SourceAnswered, M!ReviewAnswered, M!Forgotten, M!Ours
<1>4. refused' \in BOOLEAN /\ failed' \in BOOLEAN /\ conflicted' \in BOOLEAN
  <2>1. refused' \in BOOLEAN
    BY DEF TypesInv, PageFits, M!SaveAnswered, M!ReadAnswered, M!SourceAnswered, M!ReviewAnswered,
           M!Forgotten, M!Untouched
  <2>2. failed' \in BOOLEAN
    BY DEF TypesInv, EditorFits, M!SaveAnswered, M!Stored, M!NotStored, M!ReadAnswered, M!SourceAnswered,
           M!ReviewAnswered, M!Forgotten
  <2>3. conflicted' \in BOOLEAN
    BY DEF TypesInv, EditorFits, M!SaveAnswered, M!Stored, M!NotStored, M!ReadAnswered, M!SourceAnswered,
           M!ReviewAnswered, M!Forgotten
  <2> QED
    BY <2>1, <2>2, <2>3
<1>5. ASSUME BookFits', form' \in Forms, typed' \in BOOLEAN, TasksFit(tasks') PROVE TypesInv'
  <2>1. PageFits' /\ EditorFits'
    BY <1>3, <1>4, <1>5 DEF TypesInv, PageFits, EditorFits
  <2> QED
    BY <1>2, <1>5, <2>1 DEF TypesInv
<1>6. ASSUME NEW n, M!Becomes(k, n), n.kind = k.kind, n.arg = k.arg, n.live = k.live, n.done = FALSE
      PROVE  TasksFit(tasks')
  <2>1. n.done \in BOOLEAN /\ ~HasCopy(n)
    BY <1>6 DEF HasCopy
  <2> QED
    BY <1>1, <1>6, <2>1, TaskFitsOn, TasksFitOn DEF TypesInv
<1>7. ASSUME M!Ends(k) PROVE TasksFit(tasks')
  BY <1>7, TasksFitLess DEF M!Ends, TypesInv
<1>8. ASSUME M!Stays PROVE BookFits' /\ form' \in Forms /\ typed' \in BOOLEAN
  BY <1>8 DEF M!Stays, M!SameForm, TypesInv, BookFits, EditorFits
<1>9. HasCopy(k) => k.value.meta \in Metas
  BY <1>1 DEF TaskFits
<1>10. CASE M!SaveAnswered(k) /\ M!Stored(k)
  <2> DEFINE n == [k EXCEPT !.step = "sync", !.done = FALSE, !.value = M!None]
  <2>1. M!Becomes(k, n)
    BY <1>10 DEF M!Stored
  <2>2. n.kind = k.kind /\ n.arg = k.arg /\ n.live = k.live /\ n.done = FALSE
    BY <1>1 DEF TaskFields
  <2> HIDE DEF n
  <2>3. k.value.meta \in Metas
    BY <1>9, <1>10 DEF M!SaveAnswered, M!Stored, HasCopy
  <2>4. M!Update(k.value) \/ (book' = k.value /\ M!NewForm(k.value.meta))
    BY <1>10 DEF M!Stored, M!Shows
  <2>5. BookFits' /\ form' \in Forms /\ typed' \in BOOLEAN
    BY <2>3, <2>4, UpdateFits, NewFormFits DEF TypesInv, BookFits
  <2> QED
    BY <1>5, <1>6, <2>1, <2>2, <2>5
<1>11. CASE M!SaveAnswered(k) /\ M!NotStored(k)
  <2> DEFINE n == [k EXCEPT !.step = "again", !.done = FALSE, !.ok = "no"]
  <2>1. M!Stays /\ (M!Becomes(k, n) \/ M!Ends(k))
    BY <1>11 DEF M!NotStored
  <2>2. n.kind = k.kind /\ n.arg = k.arg /\ n.live = k.live /\ n.done = FALSE
    BY <1>1 DEF TaskFields
  <2> HIDE DEF n
  <2> QED
    BY <1>5, <1>6, <1>7, <1>8, <2>1, <2>2
<1>12. CASE M!ReadAnswered(k)
  <2>1. HasCopy(k) /\ M!Update(k.value) /\ M!Ends(k)
    BY <1>12 DEF M!ReadAnswered, HasCopy
  <2> QED
    BY <1>5, <1>7, <1>9, <2>1, UpdateFits DEF TypesInv
<1>13. CASE M!SourceAnswered(k) /\ k.ok = "yes"
  <2> DEFINE arg == [link |-> k.arg.link + 1, rev |-> k.value.rev, seen |-> k.value.meta]
             n == [k EXCEPT !.done = FALSE, !.ok = "no", !.value = M!None, !.arg = arg]
  <2>1. k.kind = "source" /\ HasCopy(k) /\ M!Update(k.value)
    BY <1>1, <1>13 DEF M!SourceAnswered, HasCopy
  <2>2. BookFits' /\ form' \in Forms /\ typed' \in BOOLEAN
    BY <1>9, <2>1, UpdateFits DEF TypesInv
  <2>3. CASE k.arg.link < Sources
    <3>1. n.kind = "source" /\ n.live = k.live /\ n.done = FALSE
      BY <1>1, <2>1 DEF TaskFields
    <3>2. M!Becomes(k, n)
      BY <1>13, <2>3 DEF M!SourceAnswered
    <3> HIDE DEF n
    <3>3. TaskFits(n)
      BY <1>1, <3>1 DEF TaskFits, HasCopy
    <3> QED
      BY <1>5, <2>2, <3>2, <3>3, TasksFitOn DEF TypesInv
  <2>4. CASE ~(k.arg.link < Sources)
    BY <1>5, <1>7, <1>13, <2>2, <2>4 DEF M!SourceAnswered
  <2> QED
    BY <2>3, <2>4
<1>14. CASE M!SourceAnswered(k) /\ k.ok # "yes"
  BY <1>5, <1>7, <1>8, <1>14 DEF M!SourceAnswered
<1>15. CASE M!ReviewAnswered(k) /\ k.ok = "yes"
  <2>1. k.step = k.kind /\ HasCopy(k)
    BY <1>1, <1>15 DEF M!ReviewAnswered, M!Deciding, HasCopy
  <2>2. book' = k.value /\ (M!Mirrored(k.value.meta) \/ M!SameForm) /\ M!Ends(k)
    BY <1>15 DEF M!ReviewAnswered, M!Shows
  <2>3. BookFits' /\ form' \in Forms /\ typed' \in BOOLEAN
    BY <1>9, <2>1, <2>2, MirroredFits DEF TypesInv, BookFits
  <2> QED
    BY <1>5, <1>7, <2>2, <2>3
<1>16. CASE M!ReviewAnswered(k) /\ k.ok # "yes"
  BY <1>5, <1>7, <1>8, <1>16 DEF M!ReviewAnswered
<1>17. CASE M!Forgotten(k)
  BY <1>5, <1>7, <1>8, <1>17 DEF M!Forgotten
<1> QED
  BY <1>10, <1>11, <1>12, <1>13, <1>14, <1>15, <1>16, <1>17 DEF M!SaveAnswered

LEMMA LoadsFit == ASSUME TypesInv, M!ReviewLoads \/ M!LoadFails \/ M!Loaded PROVE TypesInv'
PROOF
<1>1. LibraryFits' /\ FileFits' /\ UNCHANGED <<at, dialog, tasks, asking, conflicted, failed>>
  BY LibrarySame, FileSame
  DEF TypesInv, M!ReviewLoads, M!LoadFails, M!Loaded, M!Ours, M!library, M!sidecar, M!editor
<1>2. refused' \in BOOLEAN
  BY DEF TypesInv, PageFits, M!ReviewLoads, M!LoadFails, M!Loaded, M!review
<1>3. BookFits' /\ form' \in Forms /\ typed' \in BOOLEAN
  <2>1. CASE M!Loaded
    <3>1. book' = M!Copy /\ (M!NewForm(meta) \/ M!SameForm) /\ meta \in Metas
      BY <2>1 DEF M!Loaded, TypesInv, LibraryFits
    <3>2. form' \in Forms /\ typed' \in BOOLEAN
      BY <3>1, MirroredFits DEF TypesInv
    <3> QED
      BY <3>1, <3>2 DEF BookFits, M!Copy
  <2>2. CASE M!ReviewLoads \/ M!LoadFails
    BY <2>2 DEF TypesInv, BookFits, EditorFits, M!ReviewLoads, M!LoadFails, M!editor
  <2> QED
    BY <2>1, <2>2
<1> QED
  BY <1>1, <1>2, <1>3 DEF TypesInv, PageFits, EditorFits, TasksFit

\* A tag taken out, and one put in the place of another or at the end, each once.
LEMMA TakenOutFits ==
    ASSUME NEW s \in Seq(M!Tag), NEW i \in DOMAIN s PROVE M!RemoveAt(s, i) \in Seq(M!Tag)
PROOF
<1>1. i \in 1 .. Len(s)
  OBVIOUS
<1> QED
  BY <1>1, RemovedAt, SameOperators

LEMMA CommittedFits ==
    ASSUME form \in Forms, NEW tag \in M!Tag, M!Commit(tag) PROVE form' \in Forms
PROOF
<1>1. form.tags \in Seq(M!Tag)
  BY FormIs
<1> DEFINE after == Len(form.tags) + 1
           place == IF tagging = M!None THEN after ELSE tagging.place
           put == IF place = after THEN Append(form.tags, tag) ELSE [form.tags EXCEPT ![place] = tag]
           first == {i \in DOMAIN put : \A j \in 1 .. i - 1 : put[j] # put[i]}
<1>2. form' = [form EXCEPT !.tags = M!Picked(put, first)]
  BY DEF M!Commit, M!Typing
<1>3. put \in Seq(M!Tag)
  <2>1. CASE place = after
    BY <1>1, <2>1
  <2>2. CASE place # after
    <3> HIDE DEF place
    <3>1. put = [i \in 1 .. Len(form.tags) |-> IF i = place THEN tag ELSE form.tags[i]]
      BY <1>1, <2>2
    <3>2. \A i \in 1 .. Len(form.tags) : form.tags[i] \in M!Tag
      BY <1>1
    <3> HIDE DEF put
    <3> QED
      BY <1>1, <3>1, <3>2
  <2> QED
    BY <2>1, <2>2
<1> HIDE DEF put
<1>4. first \subseteq DOMAIN put
  OBVIOUS
<1> HIDE DEF first
<1>5. M!Picked(put, first) \in Seq(M!Tag)
  BY <1>3, <1>4, PickedIs, SameOperators
<1> QED
  BY <1>2, <1>5, FormEdits

LEMMA EditingFits == ASSUME TypesInv, M!Editing PROVE TypesInv'
PROOF
<1>1. LibraryFits' /\ FileFits' /\ UNCHANGED <<at, book>>
  <2>1. M!Idly \/ M!Act
    BY DEF M!Editing, M!Open, M!Close, M!Discard, M!KeepEditing, M!ReloadLatest, M!Save,
           M!TypeTitle, M!Pick, M!TakeOut, M!Commit, M!Typing
  <2> QED
    BY <2>1, LibrarySame, FileSame DEF M!Idly, M!Act, TypesInv, M!library, M!sidecar
<1>2. ASSUME EditorFits', PageFits', TasksFit(tasks') PROVE TypesInv'
  <2>1. BookFits'
    BY <1>1 DEF TypesInv, BookFits
  <2> QED
    BY <1>1, <1>2, <2>1 DEF TypesInv
<1>3. CASE \E which \in {"metadata", "review"} : M!Open(which)
  <2>1. EditorFits' /\ PageFits' /\ tasks' = tasks
    BY <1>1, <1>3 DEF M!Open, M!editor, M!Untouched, TypesInv, EditorFits, PageFits
  <2> QED
    BY <1>2, <2>1 DEF TypesInv
<1>4. ASSUME M!Closes, book # M!None PROVE EditorFits' /\ PageFits' /\ tasks' = tasks
  <2>1. form' \in Forms /\ typed' \in BOOLEAN
    BY <1>4, NewFormFits DEF M!Closes, TypesInv, BookFits
  <2> QED
    BY <1>1, <1>4, <2>1 DEF M!Closes, EditorFits, PageFits, TypesInv, M!review
<1>5. CASE M!Close
  <2>1. book # M!None
    BY <1>5 DEF M!Close, M!Idly, M!OnPage
  <2>2. CASE M!Changed
    <3>1. EditorFits' /\ PageFits' /\ tasks' = tasks
      BY <1>1, <1>5, <2>2 DEF M!Close, M!review, TypesInv, EditorFits, PageFits
    <3> QED
      BY <1>2, <3>1 DEF TypesInv
  <2>3. CASE ~M!Changed
    BY <1>2, <1>4, <1>5, <2>1, <2>3 DEF M!Close, TypesInv
  <2> QED
    BY <2>2, <2>3
<1>6. CASE M!Discard
  <2>1. book # M!None /\ M!Closes
    BY <1>6 DEF M!Discard, M!Idly, M!OnPage
  <2> QED
    BY <1>2, <1>4, <2>1 DEF TypesInv
<1>7. CASE M!KeepEditing
  <2>1. EditorFits' /\ PageFits' /\ tasks' = tasks
    BY <1>1, <1>7 DEF M!KeepEditing, M!review, TypesInv, EditorFits, PageFits
  <2> QED
    BY <1>2, <2>1 DEF TypesInv
<1>8. CASE M!ReloadLatest
  <2>1. book # M!None /\ M!NewForm(book.meta)
    BY <1>8 DEF M!ReloadLatest, M!Idly, M!OnPage
  <2>2. form' \in Forms /\ typed' \in BOOLEAN
    BY <2>1, NewFormFits DEF TypesInv, BookFits
  <2>3. EditorFits' /\ PageFits' /\ tasks' = tasks
    BY <1>1, <1>8, <2>2 DEF M!ReloadLatest, M!review, TypesInv, EditorFits, PageFits
  <2> QED
    BY <1>2, <2>3 DEF TypesInv
<1>9. ASSUME NEW f \in Forms, NEW which, M!Typing(f, which) PROVE TypesInv'
  <2>1. EditorFits' /\ PageFits' /\ tasks' = tasks
    BY <1>1, <1>9 DEF M!Typing, M!review, TypesInv, EditorFits, PageFits
  <2> QED
    BY <1>2, <2>1 DEF TypesInv
<1>10. CASE M!Save
  <2> DEFINE arg == [rev |-> book.rev, form |-> form, seen |-> book.meta]
  <2>1. M!Sends(M!Task("save", arg)) /\ arg.form = form
    BY <1>10 DEF M!Save
  <2> HIDE DEF arg
  <2>2. TasksFit(tasks')
    BY <2>1, TaskFitsSent DEF TypesInv, EditorFits
  <2>3. EditorFits' /\ PageFits'
    BY <1>1, <1>10 DEF M!Save, M!review, TypesInv, EditorFits, PageFits
  <2> QED
    BY <1>2, <2>2, <2>3
<1>11. form \in Forms /\ form.tags \in Seq(M!Tag)
  BY FormIs DEF TypesInv, EditorFits
<1>12. ASSUME NEW title \in M!Title, M!TypeTitle(title) PROVE TypesInv'
  BY <1>9, <1>11, <1>12, FormEdits DEF M!TypeTitle
<1>13. ASSUME NEW i, M!Pick(i) PROVE TypesInv'
  <2>1. EditorFits' /\ PageFits' /\ tasks' = tasks
    BY <1>1, <1>13 DEF M!Pick, M!review, TypesInv, EditorFits, PageFits
  <2> QED
    BY <1>2, <2>1 DEF TypesInv
<1>14. ASSUME NEW i, M!TakeOut(i) PROVE TypesInv'
  <2>1. PICK f, which : f = [form EXCEPT !.tags = M!RemoveAt(form.tags, i)] /\ M!Typing(f, which)
    BY <1>14 DEF M!TakeOut
  <2>2. M!RemoveAt(form.tags, i) \in Seq(M!Tag)
    BY <1>11, <1>14, TakenOutFits DEF M!TakeOut
  <2> QED
    BY <1>9, <1>11, <2>1, <2>2, FormEdits
<1>15. ASSUME NEW tag \in M!Tag, M!Commit(tag) PROVE TypesInv'
  <2>1. form' \in Forms
    BY <1>11, <1>15, CommittedFits
  <2>2. PICK f, which : M!Typing(f, which) /\ f = form'
    BY <1>15 DEF M!Commit, M!Typing
  <2> QED
    BY <1>9, <2>1, <2>2
<1> QED
  BY <1>3, <1>5, <1>6, <1>7, <1>8, <1>10, <1>12, <1>13, <1>14, <1>15 DEF M!Editing

LEMMA DecidingFits == ASSUME TypesInv, SeenInv, M!DecidingOn PROVE TypesInv'
PROOF
<1>1. LibraryFits' /\ FileFits' /\ UNCHANGED <<at, book>>
  <2>1. M!Idly \/ M!Act
    BY DEF M!DecidingOn, M!CloseReview, M!RefreshReview, M!UpdateFromSource, M!RunAutomatic,
           M!Complete, M!Choose, M!Tick, M!Resolve, M!Decides
  <2> QED
    BY <2>1, LibrarySame, FileSame DEF M!Idly, M!Act, TypesInv, M!library, M!sidecar
<1>2. EditorFits' /\ BookFits' /\ dialog' \in {"none", "metadata", "review"} /\ refused' \in BOOLEAN
  <2>1. UNCHANGED M!editor /\ dialog' \in {dialog, "none"} /\ refused' \in {refused, FALSE}
    BY DEF M!DecidingOn, M!CloseReview, M!RefreshReview, M!UpdateFromSource, M!RunAutomatic,
           M!Complete, M!Choose, M!Tick, M!Resolve, M!Decides, M!review
  <2> QED
    BY <1>1, <2>1 DEF M!editor, TypesInv, EditorFits, BookFits, PageFits
<1>3. ASSUME TasksFit(tasks') PROVE TypesInv'
  BY <1>1, <1>2, <1>3 DEF TypesInv, PageFits
<1>4. CASE M!CloseReview
  <2> DEFINE later == [k \in tasks |-> IF k.kind = "source" /\ k.live = "here"
                                       THEN [k EXCEPT !.live = "away"] ELSE k]
  <2>1. tasks' = {later[k] : k \in tasks}
    BY <1>4 DEF M!CloseReview
  <2>2. \A k \in tasks : later[k] = k \/ \E l \in {"here", "away", "gone"} : later[k] = [k EXCEPT !.live = l]
    OBVIOUS
  <2>3. \A k \in tasks : DOMAIN k = TaskFields
    BY DEF SeenInv, TasksOK, TaskOK
  <2> HIDE DEF later
  <2> QED
    BY <1>3, <2>1, <2>2, <2>3, TasksFitLeft DEF TypesInv
<1>5. ASSUME tasks' = tasks PROVE TypesInv'
  BY <1>3, <1>5 DEF TypesInv
<1>6. CASE M!RefreshReview \/ \E issue \in {"title_missing", "source_unverified"} : M!Tick(issue)
  BY <1>5, <1>6 DEF M!RefreshReview, M!Tick
<1>7. CASE M!UpdateFromSource
  <2>1. PICK arg : M!Sends(M!Task("source", arg))
    BY <1>7 DEF M!UpdateFromSource
  <2> QED
    BY <1>3, <2>1, TaskFitsSent DEF TypesInv
<1>8. CASE M!RunAutomatic
  <2>1. PICK arg : M!Sends(M!Task("automatic", arg))
    BY <1>8 DEF M!RunAutomatic, M!Decides
  <2> QED
    BY <1>3, <2>1, TaskFitsSent DEF TypesInv
<1>9. CASE M!Complete
  <2>1. PICK arg : M!Sends(M!Task("complete", arg))
    BY <1>9 DEF M!Complete, M!Decides
  <2> QED
    BY <1>3, <2>1, TaskFitsSent DEF TypesInv
<1>10. ASSUME NEW l \in M!Source, NEW choice \in {"candidate", "current", "skip"}, M!Choose(l, choice)
       PROVE  TypesInv'
  <2> DEFINE arg == [token |-> preview.token, link |-> l, choice |-> choice,
                     seen |-> preview.meta, offered |-> preview.cand[l]]
  <2>1. M!Sends(M!Task("candidate", arg)) /\ arg.link = l /\ arg.choice = choice
    BY <1>10 DEF M!Choose, M!Decides
  <2> HIDE DEF arg
  <2>2. choice \in Sides
    BY DEF Sides
  <2> QED
    BY <1>3, <2>1, <2>2, TaskFitsSent DEF TypesInv
<1>11. ASSUME NEW taken, M!Resolve(taken) PROVE TypesInv'
  <2> DEFINE arg == [conflict |-> conflict, taken |-> taken, seen |-> conflict.meta]
  <2>1. M!Sends(M!Task("resolve", arg)) /\ arg.conflict = conflict /\ conflict # M!None
    BY <1>11 DEF M!Resolve, M!Decides
  <2> HIDE DEF arg
  <2> QED
    BY <1>3, <2>1, TaskFitsSent DEF TypesInv
<1> QED
  BY <1>4, <1>6, <1>7, <1>8, <1>9, <1>10, <1>11 DEF M!DecidingOn

LEMMA AroundFits == ASSUME TypesInv, M!Around PROVE TypesInv'
PROOF
<1>1. UNCHANGED <<at, book, form, asking, conflicted, failed, typed, dialog, refused>> /\ tasks' \subseteq tasks
  BY DEF M!Around, M!OtherEdits, M!OtherObserves, M!OtherSyncs, M!OtherWrites, M!Other, M!Syncing,
         M!BrokenOff, M!editor, M!review
<1>2. BookFits' /\ EditorFits' /\ PageFits' /\ TasksFit(tasks')
  BY <1>1, TasksFitLess DEF TypesInv, BookFits, EditorFits, PageFits
<1>3. LibraryFits /\ FileFits
  BY DEF TypesInv
<1>4. LibraryFits' /\ FileFits'
  <2>1. CASE M!OtherEdits
    <3>1. PICK title \in M!Title, tags \in {{}, M!Tag} : M!Edited(title, tags)
      BY <2>1 DEF M!OtherEdits
    <3>2. LibraryFits'
      BY <1>3, <3>1, EditedFits
    <3> QED
      BY <1>3, <2>1, <3>2, FileSame DEF M!OtherEdits, M!sidecar
  <2>2. CASE M!OtherObserves
    <3>1. LibraryFits'
      BY <1>3, <2>2, ObservedFits DEF M!OtherObserves
    <3> QED
      BY <1>3, <2>2, <3>1, FileSame DEF M!OtherObserves, M!sidecar
  <2>3. CASE M!OtherSyncs
    BY <1>3, <2>3, LibrarySame, BeginsFits DEF M!OtherSyncs, M!library
  <2>4. CASE M!OtherWrites
    <3>1. LibraryFits' /\ UNCHANGED <<pending, sync>>
      BY <1>3, <2>4, LibrarySame DEF M!OtherWrites, M!library
    <3>2. file' \in Metas
      BY <1>3, <2>4 DEF M!OtherWrites, LibraryFits, Metas
    <3> QED
      BY <1>3, <3>1, <3>2 DEF FileFits
  <2>5. CASE M!Syncing
    <3>1. LibraryFits'
      BY <1>3, <2>5, LibrarySame DEF M!Syncing, M!library
    <3>2. CASE M!Publish
      BY <1>3, <3>1, <3>2 DEF M!Publish, FileFits
    <3>3. CASE M!Record
      BY <1>3, <3>1, <3>3 DEF M!Record, M!Records, M!Idle, FileFits
    <3> QED
      BY <2>5, <3>2, <3>3 DEF M!Syncing
  <2>6. CASE M!BrokenOff
    <3>1. LibraryFits' /\ UNCHANGED <<file, pending>> /\ sync' = M!Idle
      BY <1>3, <2>6, LibrarySame DEF M!BrokenOff, M!library
    <3> QED
      BY <1>3, <3>1 DEF FileFits, M!Idle
  <2> QED
    BY <2>1, <2>2, <2>3, <2>4, <2>5, <2>6 DEF M!Around
<1> QED
  BY <1>2, <1>4 DEF TypesInv

LEMMA WorksFit == ASSUME TypesInv, SeenInv, M!Works PROVE TypesInv'
PROOF BY ServingFits, AnsweringFits, LoadsFit, EditingFits, DecidingFits, AroundFits DEF M!Works

\* A page that is left, and one that comes.
LEMMA MovesFit == ASSUME TypesInv, SeenInv, Moves PROVE TypesInv'
PROOF
<1> DEFINE where == Where(active', auth')
<1>1. M!Mounted(where) /\ where \in {"detail", "reader", "away"}
  BY DEF Moves, Where
<1> HIDE DEF where
<1>2. LibraryFits' /\ FileFits' /\ at' = where
  BY <1>1, LibrarySame, FileSame DEF M!Mounted, M!library, M!sidecar, TypesInv
<1>3. CASE where = at
  <2>1. UNCHANGED <<book, form, asking, conflicted, failed, typed, dialog, refused, tasks>>
    BY <1>1, <1>3 DEF M!Mounted, M!editor, M!review
  <2> QED
    BY <1>1, <1>2, <2>1 DEF TypesInv, BookFits, EditorFits, PageFits
<1>4. CASE where # at
  <2>1. book' = book \/ book' = M!None
    BY <1>1, <1>4 DEF M!Mounted
  <2>2. BookFits' /\ (book' # M!None => book.meta \in Metas)
    BY <2>1 DEF TypesInv, BookFits
  <2>3. PICK m : M!NewForm(m) /\ (m = M!Nothing \/ (book' # M!None /\ m = book.meta))
    BY <1>1, <1>4 DEF M!Mounted
  <2>4. form' \in Forms /\ typed' \in BOOLEAN
    BY <2>2, <2>3, NewFormFits, MetaIs
  <2>5. asking' = FALSE /\ conflicted' = FALSE /\ failed' = FALSE /\ refused' = FALSE /\ dialog' = "none"
    BY <1>1, <1>4 DEF M!Mounted
  <2> DEFINE later == [k \in tasks |-> [k EXCEPT !.live = IF where = "away" \/ k.live = "gone"
                                                          THEN "gone" ELSE "away"]]
  <2>6. tasks' = {later[k] : k \in tasks}
    BY <1>1, <1>4 DEF M!Mounted
  <2>7. \A k \in tasks : later[k] = k \/ \E l \in {"here", "away", "gone"} : later[k] = [k EXCEPT !.live = l]
    OBVIOUS
  <2>8. \A k \in tasks : DOMAIN k = TaskFields
    BY DEF SeenInv, TasksOK, TaskOK
  <2> HIDE DEF later
  <2>9. TasksFit(tasks')
    BY <2>6, <2>7, <2>8, TasksFitLeft DEF TypesInv
  <2> QED
    BY <1>1, <1>2, <2>2, <2>4, <2>5, <2>9 DEF TypesInv, EditorFits, PageFits
<1> QED
  BY <1>3, <1>4

LEMMA StartFits == M!Start => TypesInv
PROOF
<1> SUFFICES ASSUME M!Start PROVE TypesInv
  OBVIOUS
<1>1. 1 \in M!Title /\ 1 \in M!Tag
  BY BookPageAssumption DEF M!Title, M!Tag
<1>2. meta \in Metas
  BY <1>1 DEF M!Start, Metas
<1>3. cand \in Cands
  <2>1. M!NoCandidate \in [title : M!Title, decision : Decisions]
    BY MetaIs DEF M!NoCandidate, Decisions
  <2> QED
    BY <2>1 DEF M!Start, Cands
<1>4. form \in Forms
  BY FormOfFits, MetaIs DEF M!Start
<1>5. file = M!None /\ pending = M!None /\ book = M!None /\ tasks = {} /\ sync.kind = "idle"
  BY DEF M!Start, M!Idle
<1>6. LibraryFits /\ FileFits /\ BookFits /\ TasksFit(tasks)
  BY <1>2, <1>3, <1>5 DEF M!Start, LibraryFits, FileFits, BookFits, TasksFit
<1>7. EditorFits /\ PageFits
  BY <1>4 DEF M!Start, EditorFits, PageFits
<1> QED
  BY <1>6, <1>7 DEF TypesInv

LEMMA TypesStand == ASSUME TypesInv, UNCHANGED bookPageVars PROVE TypesInv'
PROOF
<1>1. /\ UNCHANGED <<meta, rev, event, confirmed, cand, file, pending, sync>>
      /\ UNCHANGED <<at, book, form, asking, conflicted, failed, typed, dialog, refused, tasks>>
  BY DEF bookPageVars, M!metadataVars, M!library, M!sidecar, M!editor, M!review
<1>2. LibraryFits' /\ FileFits'
  BY <1>1, LibrarySame, FileSame DEF TypesInv
<1> QED
  BY <1>1, <1>2 DEF TypesInv, BookFits, EditorFits, PageFits

LEMMA TypesFollow == TypesInv => M!MetadataTypeOK
PROOF
<1> SUFFICES ASSUME TypesInv PROVE M!MetadataTypeOK
  OBVIOUS
<1>1. meta.title \in M!Title /\ meta.tags \subseteq M!Tag
  BY MetaIs DEF TypesInv, LibraryFits
<1>2. form.title \in M!Title /\ M!ToSet(form.tags) \subseteq M!Tag
  BY FormIs DEF TypesInv, EditorFits
<1>3. \A k \in tasks : k.live \in {"here", "away", "gone"} /\ k.done \in BOOLEAN
  BY DEF TypesInv, TasksFit, TaskFits
<1>4. {confirmed, asking, conflicted, failed, refused, typed} \subseteq BOOLEAN
  BY DEF TypesInv, LibraryFits, EditorFits, PageFits
<1> QED
  BY <1>1, <1>2, <1>3, <1>4 DEF M!MetadataTypeOK, TypesInv, LibraryFits, FileFits, PageFits

-----------------------------------------------------------------------------
(* All together.                                                           *)

\* The invariants hold of the page together.
PageInv == PlaceInv /\ DraftInv /\ SeenInv /\ TypesInv

LEMMA InitPages == BookPageInit => PageInv
PROOF
<1>1. BookPageInit => PlaceInv /\ DraftInv
  BY InitPlaces DEF BookPageInit, Init, M!Start, DraftInv, Mirror, Where
<1>2. BookPageInit => SeenInv
  BY InitSeen
<1>3. BookPageInit => TypesInv
  BY StartFits DEF BookPageInit
<1> QED
  BY <1>1, <1>2, <1>3 DEF PageInv

\* Work on the page leaves the place alone.
LEMMA WorksPlace == ASSUME PlaceInv, Works PROVE PlaceInv'
PROOF
<1>1. UNCHANGED <<entries, index, events, going, active, position, trail, asks, saving, auth,
                  signingOut, moves, changes, locks, reloads, bounced, numbered, calm>>
  BY DEF Works, Stands, browser, session, counts
<1>2. draft' \in BOOLEAN
  BY DEF Works, M!Dirty, PlaceInv, PlaceTypes
<1>3. PlaceTypes' /\ Apart' /\ Live' = Live /\ Address' = Address /\ (Numbered <=> Numbered')
  BY <1>1, <1>2 DEF PlaceInv, PlaceTypes, Apart, Live, Address, Numbered
<1>4. InTurn => InTurn'
  BY <1>1, <1>3 DEF InTurn
<1> QED
  BY <1>1, <1>3, <1>4 DEF PlaceInv

LEMMA NextPages == ASSUME PageInv, BookPageNext PROVE PageInv'
PROOF
<1>1. CASE Moves
  BY <1>1, NextPlaces, MovesDrop, MovesSeen, MovesFit DEF Moves, PageInv
<1>2. CASE Works
  BY <1>2, WorksPlace, WorksDrop, WorksSeen, WorksFit DEF Works, PageInv
<1> QED
  BY <1>1, <1>2 DEF BookPageNext

LEMMA PagesStand == ASSUME PageInv, UNCHANGED bookPageVars PROVE PageInv'
PROOF
<1>1. PlaceInv'
  BY PlaceKept DEF PageInv, bookPageVars
<1> QED
  BY <1>1, DraftKeptStill, SeenKeptStill, TypesStand DEF PageInv

\* With a book's page in full the place is still one, the page that is mounted is the one
\* that the route on screen calls for (App.tsx, BookView.tsx), and what the library, the
\* form and the requests hold is of its type - the tags that a form makes of a set and edits
\* by place, a candidate's title, the file that a conflict was settled for: nothing an
\* editor, a dialog, an answer or another device does takes the user elsewhere.
THEOREM PageIsPlaceTheorem == BookPageSpec => []PageIsPlace
PROOF
<1>1. PageInv => PageIsPlace
  BY PlaceFollows, TypesFollow DEF PageInv, DraftInv, PageIsPlace
<1>2. PageInv /\ [BookPageNext]_bookPageVars => PageInv'
  BY NextPages, PagesStand
<1> QED
  BY <1>1, <1>2, InitPages, PTL DEF BookPageSpec
=============================================================================
