--------------------------- MODULE PageCacheProofs ---------------------------
(***************************************************************************)
(* Theorems about PageCache, for a book and a cache of any size and any    *)
(* number of turns and faults: whoever waits for a page waits for one live *)
(* download of it, the reader's come first, a quiet reader shows its page  *)
(* or an error, and a download under way is not begun again.               *)
(*                                                                         *)
(* The operations of Pages are functions of its state; the lemmas about    *)
(* them say what of a sound state each keeps and changes. The invariant    *)
(* then ties the state of Pages to what the requesters wait for.           *)
(***************************************************************************)
EXTENDS PageCache, OrderingProofs, SequenceTheorems, TLAPS

-----------------------------------------------------------------------------
(* The states of Pages.                                                    *)

TaskSet == [page : PageNo, background : BOOLEAN, started : BOOLEAN, aborted : BOOLEAN,
            expiring : BOOLEAN, waiters : SUBSET Requester]
CacheSet == [tasks : Seq(TaskSet), replaced : Seq(TaskSet), cache : Seq(PageNo),
             marks : [PageNo -> {"none", "done", "failed"}]]

HasTask(c, p) == \E i \in DOMAIN c.tasks : c.tasks[i].page = p
WaitsAt(c, r, p) == \E i \in DOMAIN c.tasks : r \in c.tasks[i].waiters /\ c.tasks[i].page = p

\* A task without a waiter has started; one that reader or image slot wait for is no warm-up.
TaskOK(t) ==
    /\ t.aborted \/ t.expiring => t.started /\ t.waiters = {}
    /\ t.background => t.waiters \subseteq {"warm"}
Single(c) == \A i, j \in DOMAIN c.tasks : c.tasks[i].page = c.tasks[j].page => i = j
Once(c) == \A r \in Requester : \A p, q \in PageNo : WaitsAt(c, r, p) /\ WaitsAt(c, r, q) => p = q
OneWarm(c) ==
    \A i, j \in Started(c) : c.tasks[i].background /\ c.tasks[j].background => i = j
Sound(c) ==
    /\ c \in CacheSet /\ Single(c) /\ Once(c) /\ OneWarm(c) /\ Active(c) <= 2
    /\ \A i \in DOMAIN c.tasks : TaskOK(c.tasks[i])

\* pump() has left nothing of the reader's to start.
Served(c) ==
    (\E i \in DOMAIN c.tasks : ~c.tasks[i].started /\ ~c.tasks[i].background) => Active(c) = 2

\* A download of p under way in c is under way in d, and no other was begun besides.
Loading(c, p) == \E i \in Started(c) : c.tasks[i].page = p /\ ~c.tasks[i].aborted
Replaced(c, p) == {i \in DOMAIN c.replaced : c.replaced[i].page = p}
Carries(c, d, p) ==
    Loading(c, p) => Loading(d, p) /\ Cardinality(Replaced(d, p)) <= Cardinality(Replaced(c, p))

\* What starting tasks leaves as it is.
Alike(c, d) ==
    /\ d.cache = c.cache
    /\ \A r \in Requester, p \in PageNo : WaitsAt(d, r, p) <=> WaitsAt(c, r, p)
    /\ \A p \in PageNo : /\ HasTask(d, p) <=> HasTask(c, p)
                         /\ ~HasTask(c, p) => d.marks[p] = c.marks[p]
                         /\ Carries(c, d, p)

LEMMA StartedFinite ==
    ASSUME NEW c \in CacheSet
    PROVE  /\ Started(c) \subseteq DOMAIN c.tasks /\ DOMAIN c.tasks = 1 .. Len(c.tasks)
           /\ IsFiniteSet(Started(c)) /\ Cardinality(Started(c)) \in Nat
           /\ Len(c.replaced) \in Nat /\ Len(c.tasks) \in Nat
           /\ Active(c) = Cardinality(Started(c)) + Len(c.replaced) /\ Active(c) \in Nat
PROOF
<1>1. /\ c.tasks \in Seq(TaskSet) /\ c.replaced \in Seq(TaskSet)
      /\ DOMAIN c.tasks = 1 .. Len(c.tasks) /\ Len(c.tasks) \in Nat /\ Len(c.replaced) \in Nat
  BY DEF CacheSet
<1>2. Started(c) \subseteq DOMAIN c.tasks
  BY DEF Started
<1>3. IsFiniteSet(1 .. Len(c.tasks))
  BY <1>1, FS_Interval
<1>4. IsFiniteSet(Started(c))
  BY <1>1, <1>2, <1>3, FS_Subset
<1>5. Cardinality(Started(c)) \in Nat
  BY <1>4, FS_CardinalityType
<1> QED
  BY <1>1, <1>2, <1>4, <1>5 DEF Active

LEMMA ReplacedFinite ==
    ASSUME NEW c \in CacheSet, NEW p
    PROVE  IsFiniteSet(Replaced(c, p)) /\ Cardinality(Replaced(c, p)) \in Nat
PROOF
<1>1. Replaced(c, p) \subseteq 1 .. Len(c.replaced) /\ Len(c.replaced) \in Nat
  BY DEF Replaced, CacheSet
<1>2. IsFiniteSet(1 .. Len(c.replaced))
  BY <1>1, FS_Interval
<1> QED
  BY <1>1, <1>2, FS_Subset, FS_CardinalityType

\* The least of some places of a sequence.
LEMMA LeastExists ==
    ASSUME NEW n \in Nat, NEW I, I \subseteq 1 .. n, I # {}
    PROVE  Min(I) \in I /\ \A j \in I : Min(I) <= j
PROOF
<1> DEFINE J == {n + 1 - i : i \in I}
<1>1. J \subseteq 1 .. n /\ J # {}
  <2>1. \A i \in I : n + 1 - i \in 1 .. n
    OBVIOUS
  <2> QED
    BY <2>1
<1>2. PICK m \in J : \A k \in J : k <= m
  <2> HIDE DEF J
  <2> QED
    BY <1>1, LargestExists
<1>3. PICK i \in I : m = n + 1 - i
  BY <1>2
<1>4. \A j \in I : i <= j
  <2>1. TAKE j \in I
  <2>2. n + 1 - j \in J
    OBVIOUS
  <2>3. i \in 1 .. n /\ j \in 1 .. n
    OBVIOUS
  <2>4. n + 1 - j <= n + 1 - i
    <3> HIDE DEF J
    <3> QED
      BY <1>2, <1>3, <2>2
  <2> QED
    BY <2>3, <2>4
<1> QED
  BY <1>3, <1>4 DEF Min

\* The task of a page, or none.
LEMMA AtIs ==
    ASSUME NEW c \in CacheSet, NEW p
    PROVE  \/ At(c, p) = 0 /\ ~HasTask(c, p)
           \/ At(c, p) \in DOMAIN c.tasks /\ c.tasks[At(c, p)].page = p /\ At(c, p) # 0
PROOF
<1> DEFINE I == {i \in 1 .. Len(c.tasks) : c.tasks[i].page = p}
<1>1. DOMAIN c.tasks = 1 .. Len(c.tasks) /\ Len(c.tasks) \in Nat
  BY StartedFinite
<1>2. At(c, p) = IF I # {} THEN Min(I) ELSE 0
  BY DEF At, SelectInSeq
<1>3. CASE I = {}
  BY <1>1, <1>2, <1>3 DEF HasTask
<1>4. CASE I # {}
  <2>1. Min(I) \in I
    <3> HIDE DEF I
    <3>1. I \subseteq 1 .. Len(c.tasks)
      BY DEF I
    <3> QED
      BY <1>1, <1>4, <3>1, LeastExists
  <2> QED
    BY <1>1, <1>2, <1>4, <2>1
<1> QED
  BY <1>3, <1>4

-----------------------------------------------------------------------------
(* Starting tasks.                                                         *)

LEMMA NextIs ==
    ASSUME NEW c \in CacheSet
    PROVE  /\ NextTask(c) # 0 =>
                /\ NextTask(c) \in DOMAIN c.tasks /\ ~c.tasks[NextTask(c)].started
                /\ c.tasks[NextTask(c)].background => \A k \in Started(c) : ~c.tasks[k].background
           /\ NextTask(c) = 0 =>
                \A k \in DOMAIN c.tasks : c.tasks[k].started \/ c.tasks[k].background
PROOF
<1> DEFINE R == {i \in 1 .. Len(c.tasks) : ~c.tasks[i].started /\ ~c.tasks[i].background}
           A == {i \in 1 .. Len(c.tasks) : ~c.tasks[i].started}
           first(I) == IF I # {} THEN Min(I) ELSE 0
           warm == \E i \in Started(c) : c.tasks[i].background
<1>1. DOMAIN c.tasks = 1 .. Len(c.tasks) /\ Len(c.tasks) \in Nat
  BY StartedFinite
<1>2. NextTask(c) = IF first(R) # 0 THEN first(R) ELSE IF warm THEN 0 ELSE first(A)
  BY DEF NextTask, SelectInSeq
<1>3. R \subseteq 1 .. Len(c.tasks) /\ A \subseteq 1 .. Len(c.tasks) /\ R \subseteq A
  OBVIOUS
<1>4. (R # {} => first(R) \in R) /\ (A # {} => first(A) \in A)
  <2> HIDE DEF R, A
  <2> QED
    BY <1>1, <1>3, LeastExists
<1>5. R # {} => first(R) # 0
  BY <1>3, <1>4
<1>6. CASE R # {}
  <2>1. NextTask(c) = first(R) /\ first(R) \in R
    BY <1>2, <1>4, <1>5, <1>6
  <2> QED
    BY <1>1, <1>5, <1>6, <2>1
<1>7. CASE R = {} /\ (warm \/ A = {})
  <2>1. NextTask(c) = 0
    BY <1>2, <1>7
  <2> QED
    BY <1>1, <1>7, <2>1
<1>8. CASE R = {} /\ ~warm /\ A # {}
  <2>1. NextTask(c) = first(A) /\ first(A) \in A
    BY <1>2, <1>4, <1>8
  <2>2. \A k \in DOMAIN c.tasks : c.tasks[k].started \/ c.tasks[k].background
    BY <1>1, <1>8
  <2> QED
    BY <1>1, <1>8, <2>1, <2>2
<1> QED
  BY <1>6, <1>7, <1>8

LEMMA StartKeeps ==
    ASSUME NEW c, Sound(c), NEW d, d = Start(c)
    PROVE  /\ Sound(d) /\ Alike(c, d)
           /\ \/ d = c /\ Served(c)
              \/ Active(c) < 2 /\ Active(d) = Active(c) + 1
PROOF
<1>1. c \in CacheSet /\ \A p : Loading(c, p) => Loading(c, p)
  BY DEF Sound
<1>2. PICK i : i = NextTask(c)
  OBVIOUS
<1>3. CASE Active(c) >= 2 \/ i = 0
  <2>1. d = c
    BY <1>2, <1>3 DEF Start
  <2>2. Alike(c, c)
    <3>1. \A p : Cardinality(Replaced(c, p)) \in Nat
      BY <1>1, ReplacedFinite
    <3> QED
      BY <3>1 DEF Alike, Carries
  <2>3. Served(c)
    <3>1. CASE Active(c) >= 2
      BY <1>1, <3>1, StartedFinite DEF Sound, Served
    <3>2. CASE i = 0
      BY <1>1, <1>2, <3>2, NextIs DEF Served
    <3> QED
      BY <1>3, <3>1, <3>2
  <2> QED
    BY <2>1, <2>2, <2>3
<1>4. CASE Active(c) < 2 /\ i # 0
  <2>1. /\ i \in DOMAIN c.tasks /\ ~c.tasks[i].started
        /\ c.tasks[i].background => \A k \in Started(c) : ~c.tasks[k].background
    BY <1>1, <1>2, <1>4, NextIs
  <2>2. PICK t : t = [c.tasks[i] EXCEPT !.started = TRUE]
    OBVIOUS
  <2>3. c.tasks[i] \in TaskSet /\ c.tasks \in Seq(TaskSet) /\ c.marks \in [PageNo -> {"none", "done", "failed"}]
    BY <1>1, <2>1 DEF CacheSet
  <2>4. /\ t \in TaskSet /\ t.started /\ t.page = c.tasks[i].page /\ t.waiters = c.tasks[i].waiters
        /\ t.background = c.tasks[i].background /\ t.aborted = c.tasks[i].aborted
        /\ t.expiring = c.tasks[i].expiring
    BY <2>2, <2>3 DEF TaskSet
  <2>5. d = [c EXCEPT !.tasks = [c.tasks EXCEPT ![i] = t],
                      !.marks = [c.marks EXCEPT ![t.page] = "none"]]
    BY <1>1, <1>2, <1>4, <2>1, <2>2, <2>3, <2>4, StartedFinite DEF Start, CacheSet
  <2>6. /\ d.tasks = [c.tasks EXCEPT ![i] = t] /\ d.marks = [c.marks EXCEPT ![t.page] = "none"]
        /\ d.cache = c.cache /\ d.replaced = c.replaced /\ DOMAIN d.tasks = DOMAIN c.tasks
        /\ d.tasks[i] = t /\ \A k \in DOMAIN c.tasks : k # i => d.tasks[k] = c.tasks[k]
    BY <1>1, <2>1, <2>3, <2>5 DEF CacheSet
  <2>7. d \in CacheSet
    <3>1. [c.tasks EXCEPT ![i] = t] \in Seq(TaskSet)
      BY <2>1, <2>3, <2>4
    <3>2. [c.marks EXCEPT ![t.page] = "none"] \in [PageNo -> {"none", "done", "failed"}]
      BY <2>3
    <3> QED
      BY <1>1, <2>5, <3>1, <3>2 DEF CacheSet
  <2>8. Started(d) = Started(c) \cup {i} /\ i \notin Started(c)
    BY <2>1, <2>4, <2>6 DEF Started
  <2>9. Active(d) = Active(c) + 1
    <3>1. /\ IsFiniteSet(Started(c)) /\ Cardinality(Started(c)) \in Nat /\ Len(c.replaced) \in Nat
          /\ Active(c) = Cardinality(Started(c)) + Len(c.replaced)
          /\ Active(d) = Cardinality(Started(d)) + Len(d.replaced)
      BY <1>1, <2>7, StartedFinite
    <3>2. Cardinality(Started(d)) = Cardinality(Started(c)) + 1
      BY <2>8, <3>1, FS_AddElement
    <3> QED
      BY <2>6, <3>1, <3>2
  <2>10. \A k \in DOMAIN c.tasks :
            /\ d.tasks[k].page = c.tasks[k].page /\ d.tasks[k].waiters = c.tasks[k].waiters
            /\ d.tasks[k].background = c.tasks[k].background
            /\ d.tasks[k].aborted = c.tasks[k].aborted /\ d.tasks[k].expiring = c.tasks[k].expiring
    BY <2>4, <2>6
  <2>11. \A r, p : WaitsAt(d, r, p) <=> WaitsAt(c, r, p)
    BY <2>6, <2>10 DEF WaitsAt
  <2>12. Single(d) /\ Once(d)
    BY <2>6, <2>10, <2>11 DEF Sound, Single, Once
  <2>13. OneWarm(d)
    BY <2>1, <2>6, <2>8, <2>10, StartedFinite, <1>1 DEF Sound, OneWarm
  <2>14. \A k \in DOMAIN d.tasks : TaskOK(d.tasks[k])
    BY <2>4, <2>6 DEF Sound, TaskOK
  <2>15. Sound(d)
    <3>1. Active(c) + 1 <= 2
      BY <1>1, <1>4, StartedFinite
    <3> QED
      BY <2>7, <2>9, <2>12, <2>13, <2>14, <3>1 DEF Sound
  <2>16. \A p : Carries(c, d, p)
    <3>1. TAKE p
    <3>2. Replaced(d, p) = Replaced(c, p) /\ Cardinality(Replaced(c, p)) \in Nat
      <4>1. Replaced(d, p) = Replaced(c, p)
        BY <2>6 DEF Replaced
      <4> QED
        BY <1>1, <4>1, ReplacedFinite
    <3>3. Loading(c, p) => Loading(d, p)
      BY <1>1, <2>8, <2>10, StartedFinite DEF Loading
    <3> QED
      BY <3>2, <3>3 DEF Carries
  <2>17. \A p \in PageNo : /\ HasTask(d, p) <=> HasTask(c, p)
                           /\ ~HasTask(c, p) => d.marks[p] = c.marks[p]
    BY <2>1, <2>3, <2>4, <2>6, <2>10 DEF HasTask
  <2> QED
    BY <1>4, <2>6, <2>9, <2>11, <2>15, <2>16, <2>17 DEF Alike
<1> QED
  BY <1>1, <1>3, <1>4, StartedFinite

LEMMA CarriesThrough ==
    ASSUME NEW c \in CacheSet, NEW d \in CacheSet, NEW e \in CacheSet, NEW p,
           Carries(c, d, p), Carries(d, e, p)
    PROVE  Carries(c, e, p)
PROOF
<1>1. PICK x, y, z : /\ x = Cardinality(Replaced(c, p)) /\ y = Cardinality(Replaced(d, p))
                     /\ z = Cardinality(Replaced(e, p)) /\ x \in Nat /\ y \in Nat /\ z \in Nat
  BY ReplacedFinite
<1>2. Loading(c, p) => Loading(d, p) /\ y <= x
  BY <1>1 DEF Carries
<1>3. Loading(d, p) => Loading(e, p) /\ z <= y
  BY <1>1 DEF Carries
<1>4. Loading(c, p) => z <= x
  BY <1>1, <1>2, <1>3
<1> QED
  BY <1>1, <1>2, <1>3, <1>4 DEF Carries

\* One state is like another through a third.
LEMMA AlikeThrough ==
    ASSUME NEW c \in CacheSet, NEW d \in CacheSet, NEW e \in CacheSet, Alike(c, d), Alike(d, e)
    PROVE  Alike(c, e)
PROOF
<1>1. \A p \in PageNo : Carries(c, e, p)
  BY CarriesThrough DEF Alike
<1> QED
  BY <1>1 DEF Alike

LEMMA PumpKeeps ==
    ASSUME NEW c, Sound(c), NEW d, d = Pump(c)
    PROVE  Sound(d) /\ Served(d) /\ Alike(c, d)
PROOF
<1>1. PICK b : b = Start(c) /\ d = Start(b)
  BY DEF Pump
<1>2. /\ Sound(b) /\ Alike(c, b)
      /\ \/ b = c /\ Served(c)
         \/ Active(c) < 2 /\ Active(b) = Active(c) + 1
  BY <1>1, StartKeeps
<1>3. /\ Sound(d) /\ Alike(b, d)
      /\ \/ d = b /\ Served(b)
         \/ Active(b) < 2 /\ Active(d) = Active(b) + 1
  BY <1>1, <1>2, StartKeeps
<1>4. Alike(c, d)
  BY <1>2, <1>3, AlikeThrough DEF Sound
<1>5. Served(d)
  <2>1. CASE d = b /\ Served(b)
    BY <2>1
  <2>2. CASE Active(b) < 2 /\ Active(d) = Active(b) + 1
    <3>1. Active(c) \in Nat /\ Active(b) \in Nat /\ Active(d) \in Nat /\ Active(d) <= 2
      BY <1>2, <1>3, StartedFinite DEF Sound
    <3>2. CASE b = c /\ Served(c)
      \* Nothing was left to start, or both downloads were taken.
      <4>1. d = Start(c) /\ d = c
        BY <1>1, <3>2
      <4> QED
        BY <3>2, <4>1
    <3>3. CASE Active(c) < 2 /\ Active(b) = Active(c) + 1
      <4>1. Active(d) = 2
        BY <2>2, <3>1, <3>3
      <4> QED
        BY <4>1 DEF Served
    <3> QED
      BY <1>2, <3>2, <3>3
  <2> QED
    BY <1>3, <2>1, <2>2
<1> QED
  BY <1>3, <1>4, <1>5

-----------------------------------------------------------------------------
(* Requests.                                                               *)

LEMMA JoinKeeps ==
    ASSUME NEW c, Sound(c), NEW r \in Requester, NEW p \in PageNo, NEW bg \in BOOLEAN,
           bg => r = "warm", \A q \in PageNo : ~WaitsAt(c, r, q),
           NEW d, d = Join(c, r, p, bg)
    PROVE  /\ Sound(d) /\ d.cache = c.cache /\ d.marks = c.marks
           /\ \A q \in Requester, x \in PageNo :
                WaitsAt(d, q, x) <=> WaitsAt(c, q, x) \/ (q = r /\ x = p)
           /\ \A x \in PageNo : Carries(c, d, x)
PROOF
<1>1. /\ c \in CacheSet /\ c.tasks \in Seq(TaskSet) /\ c.replaced \in Seq(TaskSet)
      /\ DOMAIN c.tasks = 1 .. Len(c.tasks) /\ Len(c.tasks) \in Nat
      /\ Started(c) \subseteq DOMAIN c.tasks
  BY StartedFinite DEF Sound, CacheSet
<1>2. PICK i : i = At(c, p)
  OBVIOUS
<1>3. PICK t, n : /\ t = (IF i # 0 /\ ~c.tasks[i].aborted THEN c.tasks[i] ELSE Task(p, bg))
                  /\ n = [t EXCEPT !.waiters = @ \cup {r}, !.expiring = FALSE,
                                   !.background = @ /\ bg]
  OBVIOUS
<1>4. d = IF i = 0 THEN [c EXCEPT !.tasks = Append(c.tasks, n)]
          ELSE [c EXCEPT !.tasks = [c.tasks EXCEPT ![i] = n],
                         !.replaced = IF ~c.tasks[i].aborted THEN c.replaced
                                      ELSE Append(c.replaced, c.tasks[i])]
  BY <1>1, <1>2, <1>3 DEF Join, CacheSet
<1>5. \/ i = 0 /\ ~HasTask(c, p)
      \/ i \in DOMAIN c.tasks /\ c.tasks[i].page = p /\ i # 0
  BY <1>1, <1>2, AtIs
<1>6. t \in TaskSet /\ t.page = p /\ ~t.aborted /\ (t.background => t.waiters \subseteq {"warm"})
  <2>1. CASE i # 0 /\ ~c.tasks[i].aborted
    <3>1. t = c.tasks[i] /\ i \in DOMAIN c.tasks
      BY <1>3, <1>5, <2>1
    <3>2. c.tasks[i] \in TaskSet /\ TaskOK(c.tasks[i])
      BY <1>1, <3>1 DEF Sound
    <3> QED
      BY <1>5, <2>1, <3>1, <3>2 DEF TaskOK
  <2>2. CASE ~(i # 0 /\ ~c.tasks[i].aborted)
    <3>1. t = Task(p, bg)
      BY <1>3, <2>2
    <3> QED
      BY <3>1 DEF Task, TaskSet
  <2> QED
    BY <2>1, <2>2
<1>7. /\ n \in TaskSet /\ n.page = p /\ ~n.aborted /\ ~n.expiring /\ n.started = t.started
      /\ n.waiters = t.waiters \cup {r}
      /\ n.background = (t.background /\ bg)
  BY <1>3, <1>6 DEF TaskSet
<1>8. TaskOK(n)
  BY <1>6, <1>7 DEF TaskOK
\* What remains, given where every one waits.
<1>9. ASSUME \A q \in Requester, x \in PageNo :
                WaitsAt(d, q, x) <=> WaitsAt(c, q, x) \/ (q = r /\ x = p)
      PROVE  Once(d)
  BY <1>9 DEF Sound, Once
<1>10. CASE i = 0
  <2>1. /\ d.tasks = Append(c.tasks, n) /\ d.replaced = c.replaced /\ d.cache = c.cache
        /\ d.marks = c.marks /\ d \in CacheSet
    <3>1. d = [c EXCEPT !.tasks = Append(c.tasks, n)] /\ Append(c.tasks, n) \in Seq(TaskSet)
      BY <1>1, <1>4, <1>7, <1>10
    <3> QED
      BY <1>1, <3>1 DEF CacheSet
  <2>2. PICK m : m = Len(c.tasks) + 1 /\ DOMAIN d.tasks = DOMAIN c.tasks \cup {m} /\ m \notin DOMAIN c.tasks
                 /\ d.tasks[m] = n /\ \A k \in DOMAIN c.tasks : d.tasks[k] = c.tasks[k]
    BY <1>1, <1>7, <2>1
  <2>3. ~HasTask(c, p) /\ t = Task(p, bg) /\ ~n.started /\ n.waiters = {r}
    BY <1>3, <1>5, <1>7, <1>10 DEF Task
  <2>4. \A q, x : WaitsAt(d, q, x) <=> WaitsAt(c, q, x) \/ (q = r /\ x = p)
    BY <1>7, <2>2, <2>3 DEF WaitsAt
  <2>5. Started(d) = Started(c)
    BY <2>2, <2>3 DEF Started
  <2>6. Single(d)
    BY <1>7, <2>2, <2>3 DEF Sound, Single, HasTask
  <2>7. OneWarm(d)
    BY <1>1, <2>2, <2>5 DEF Sound, OneWarm
  <2>8. Active(d) = Active(c)
    BY <2>1, <2>5 DEF Active
  <2>9. \A x : Carries(c, d, x)
    <3>1. TAKE x
    <3>2. Replaced(d, x) = Replaced(c, x)
      BY <2>1 DEF Replaced
    <3>3. Loading(c, x) => Loading(d, x)
      BY <1>1, <2>2, <2>5 DEF Loading
    <3> QED
      BY <1>1, <3>2, <3>3, ReplacedFinite DEF Carries
  <2>10. \A k \in DOMAIN d.tasks : TaskOK(d.tasks[k])
    BY <1>8, <2>2 DEF Sound
  <2> QED
    BY <1>9, <2>1, <2>4, <2>6, <2>7, <2>8, <2>9, <2>10 DEF Sound
<1>11. CASE i # 0
  <2>1. i \in DOMAIN c.tasks /\ c.tasks[i].page = p /\ c.tasks[i] \in TaskSet /\ TaskOK(c.tasks[i])
    BY <1>1, <1>5, <1>11 DEF Sound
  <2>2. /\ d.tasks = [c.tasks EXCEPT ![i] = n] /\ d.cache = c.cache /\ d.marks = c.marks
        /\ d.replaced = IF ~c.tasks[i].aborted THEN c.replaced ELSE Append(c.replaced, c.tasks[i])
    BY <1>1, <1>4, <1>11 DEF CacheSet
  <2>3. d \in CacheSet
    <3>1. [c.tasks EXCEPT ![i] = n] \in Seq(TaskSet) /\ Append(c.replaced, c.tasks[i]) \in Seq(TaskSet)
      BY <1>1, <1>7, <2>1
    <3> QED
      BY <1>1, <1>4, <1>11, <3>1 DEF CacheSet
  <2>4. /\ DOMAIN d.tasks = DOMAIN c.tasks /\ d.tasks[i] = n
        /\ \A k \in DOMAIN c.tasks : k # i => d.tasks[k] = c.tasks[k]
    BY <1>1, <2>1, <2>2
  <2>5. \A k \in DOMAIN c.tasks : d.tasks[k].page = c.tasks[k].page
    BY <1>7, <2>1, <2>4
  <2>6. Single(d)
    BY <2>4, <2>5 DEF Sound, Single
  <2>7. n.waiters = c.tasks[i].waiters \cup {r}
    BY <1>3, <1>7, <1>11, <2>1 DEF Task, TaskOK
  <2>8. \A q, x : WaitsAt(d, q, x) <=> WaitsAt(c, q, x) \/ (q = r /\ x = p)
    BY <1>7, <2>1, <2>4, <2>7 DEF WaitsAt
  <2>9. \A k \in DOMAIN d.tasks : TaskOK(d.tasks[k])
    BY <1>8, <2>4 DEF Sound
  <2>10. CASE ~c.tasks[i].aborted
    <3>1. t = c.tasks[i] /\ d.replaced = c.replaced
      BY <1>3, <1>11, <2>2, <2>10
    <3>2. Started(d) = Started(c)
      BY <1>7, <2>4, <3>1 DEF Started
    <3>3. \A k \in DOMAIN c.tasks : d.tasks[k].background => c.tasks[k].background
      BY <1>7, <2>4, <3>1
    <3>4. OneWarm(d)
      BY <1>1, <3>2, <3>3 DEF Sound, OneWarm
    <3>5. Active(d) = Active(c)
      BY <3>1, <3>2 DEF Active
    <3>6. \A x : Carries(c, d, x)
      <4>1. TAKE x
      <4>2. Replaced(d, x) = Replaced(c, x)
        BY <3>1 DEF Replaced
      <4>3. \A k \in DOMAIN c.tasks : d.tasks[k].aborted = c.tasks[k].aborted
        BY <1>7, <2>1, <2>4, <2>10 DEF TaskSet
      <4>4. Loading(c, x) => Loading(d, x)
        BY <1>1, <2>5, <3>2, <4>3 DEF Loading
      <4> QED
        BY <1>1, <4>2, <4>4, ReplacedFinite DEF Carries
    <3> QED
      BY <1>9, <2>2, <2>3, <2>6, <2>8, <2>9, <3>4, <3>5, <3>6 DEF Sound
  <2>11. CASE c.tasks[i].aborted
    <3>1. t = Task(p, bg) /\ d.replaced = Append(c.replaced, c.tasks[i]) /\ ~n.started
      BY <1>3, <1>7, <2>2, <2>11 DEF Task
    <3>2. Started(d) = Started(c) \ {i} /\ i \in Started(c)
      BY <2>1, <2>4, <2>11, <3>1 DEF Started, TaskOK
    <3>3. OneWarm(d)
      BY <1>1, <2>4, <3>2 DEF Sound, OneWarm
    <3>4. Active(d) = Active(c)
      <4>1. PICK x : x = Cardinality(Started(c)) /\ x \in Nat /\ IsFiniteSet(Started(c))
                     /\ Active(c) = x + Len(c.replaced) /\ Len(c.replaced) \in Nat
        BY <1>1, StartedFinite
      <4>2. Cardinality(Started(d)) = x - 1
        BY <3>2, <4>1, FS_RemoveElement
      <4>3. Len(d.replaced) = Len(c.replaced) + 1
        BY <1>1, <2>1, <3>1
      <4> QED
        BY <4>1, <4>2, <4>3 DEF Active
    <3>5. \A x : Carries(c, d, x)
      <4>1. TAKE x
      <4>2. CASE x = p
        <5>1. ~Loading(c, x)
          BY <1>1, <2>1, <2>11, <4>2 DEF Loading, Sound, Single
        <5> QED
          BY <5>1 DEF Carries
      <4>3. CASE x # p
        <5>1. Replaced(d, x) = Replaced(c, x)
          BY <1>1, <2>1, <3>1, <4>3 DEF Replaced
        <5>2. Loading(c, x) => Loading(d, x)
          BY <1>1, <2>1, <2>4, <3>2, <4>3 DEF Loading
        <5> QED
          BY <1>1, <5>1, <5>2, ReplacedFinite DEF Carries
      <4> QED
        BY <4>2, <4>3
    <3> QED
      BY <1>9, <2>2, <2>3, <2>6, <2>8, <2>9, <3>3, <3>4, <3>5 DEF Sound
  <2> QED
    BY <2>10, <2>11
<1> QED
  BY <1>10, <1>11

\* What is in the cache and how pages are marked is of no matter to the tasks.
LEMMA TasksSame ==
    ASSUME NEW c, Sound(c), NEW d \in CacheSet, d.tasks = c.tasks, d.replaced = c.replaced
    PROVE  /\ Sound(d) /\ (Served(c) => Served(d))
           /\ \A q, x : WaitsAt(d, q, x) <=> WaitsAt(c, q, x)
           /\ \A x : Carries(c, d, x)
PROOF
<1>1. Started(d) = Started(c) /\ Active(d) = Active(c)
  BY DEF Started, Active
<1>2. \A q, x : WaitsAt(d, q, x) <=> WaitsAt(c, q, x)
  BY DEF WaitsAt
<1>3. Sound(d)
  BY <1>1, <1>2 DEF Sound, Single, Once, OneWarm
<1>4. Served(c) => Served(d)
  BY <1>1 DEF Served
<1>5. \A x : Carries(c, d, x)
  <2>1. TAKE x
  <2>2. Replaced(d, x) = Replaced(c, x) /\ (Loading(c, x) => Loading(d, x))
    BY <1>1 DEF Replaced, Loading
  <2> QED
    BY <2>2, ReplacedFinite DEF Carries, Sound
<1> QED
  BY <1>2, <1>3, <1>4, <1>5

LEMMA OthersIs ==
    ASSUME NEW held \in Seq(PageNo), NEW p
    PROVE  Others(held, p) \in Seq(PageNo)
PROOF
<1>1. {i \in DOMAIN held : held[i] # p} \subseteq DOMAIN held
  OBVIOUS
<1> QED
  BY <1>1, PickedIs DEF Others

LEMMA GetKeeps ==
    ASSUME NEW c, Sound(c), Served(c), NEW r \in Requester, NEW p \in PageNo, NEW bg \in BOOLEAN,
           bg => r = "warm", \A q \in PageNo : ~WaitsAt(c, r, q),
           NEW d, d = Get(c, r, p, bg)
    PROVE  /\ Sound(d) /\ Served(d)
           /\ \A q \in Requester \ {r}, x \in PageNo : WaitsAt(d, q, x) <=> WaitsAt(c, q, x)
           /\ \A x \in PageNo : WaitsAt(d, r, x) => x = p
           /\ ~Contains(c.cache, p) => WaitsAt(d, r, p) /\ d.cache = c.cache
           /\ \A x \in PageNo : Carries(c, d, x)
PROOF
<1>1. CASE Contains(c.cache, p)
  <2>1. d = [c EXCEPT !.cache = Append(Others(c.cache, p), p)]
    BY <1>1 DEF Get, Sound, CacheSet
  <2>2. d \in CacheSet /\ d.tasks = c.tasks /\ d.replaced = c.replaced
    <3>1. Append(Others(c.cache, p), p) \in Seq(PageNo)
      BY OthersIs DEF Sound, CacheSet
    <3> QED
      BY <2>1, <3>1 DEF Sound, CacheSet
  <2> QED
    BY <1>1, <2>2, TasksSame
<1>2. CASE ~Contains(c.cache, p)
  <2>1. PICK b : b = Join(c, r, p, bg) /\ d = Pump(b)
    BY <1>2 DEF Get
  <2>2. /\ Sound(b) /\ b.cache = c.cache
        /\ \A q \in Requester, x \in PageNo :
             WaitsAt(b, q, x) <=> WaitsAt(c, q, x) \/ (q = r /\ x = p)
        /\ \A x \in PageNo : Carries(c, b, x)
    BY <2>1, JoinKeeps
  <2>3. Sound(d) /\ Served(d) /\ Alike(b, d)
    BY <2>1, <2>2, PumpKeeps
  <2>4. d.cache = b.cache /\ \A q \in Requester, x \in PageNo : WaitsAt(d, q, x) <=> WaitsAt(b, q, x)
    BY <2>3 DEF Alike
  <2>5. \A x \in PageNo : Carries(c, d, x)
    BY <2>2, <2>3, CarriesThrough DEF Sound, Alike
  <2> QED
    BY <2>2, <2>3, <2>4, <2>5
<1> QED
  BY <1>1, <1>2

-----------------------------------------------------------------------------
(* Tasks that go.                                                          *)

LEMMA RemovedIs ==
    ASSUME NEW T, NEW s \in Seq(T), NEW i \in DOMAIN s
    PROVE  /\ RemoveAt(s, i) \in Seq(T) /\ DOMAIN RemoveAt(s, i) = 1 .. Len(s) - 1
           /\ \A k \in 1 .. Len(s) - 1 : RemoveAt(s, i)[k] = IF k < i THEN s[k] ELSE s[k + 1]
PROOF
<1>1. i \in 1 .. Len(s) /\ Len(s) \in Nat
  OBVIOUS
<1>2. PICK a, b : a = SubSeq(s, 1, i - 1) /\ b = SubSeq(s, i + 1, Len(s)) /\ RemoveAt(s, i) = a \o b
  BY DEF RemoveAt
<1>3. a \in Seq(T) /\ Len(a) = i - 1 /\ \A k \in 1 .. i - 1 : a[k] = s[k]
  BY <1>1, <1>2, SubSeqProperties
<1>4. b \in Seq(T) /\ Len(b) = Len(s) - i /\ \A k \in 1 .. Len(s) - i : b[k] = s[i + k]
  BY <1>1, <1>2, SubSeqProperties
<1>5. /\ a \o b \in Seq(T) /\ Len(a \o b) = Len(s) - 1
      /\ \A k \in 1 .. Len(s) - 1 : (a \o b)[k] = IF k < i THEN s[k] ELSE s[k + 1]
  BY <1>1, <1>3, <1>4
<1>6. PICK e : e = RemoveAt(s, i) /\ e = a \o b
  BY <1>2
<1>7. e \in Seq(T) /\ Len(e) = Len(s) - 1 /\ DOMAIN e = 1 .. Len(e)
  BY <1>5, <1>6
<1>8. \A k \in 1 .. Len(s) - 1 : e[k] = IF k < i THEN s[k] ELSE s[k + 1]
  BY <1>5, <1>6
<1> QED
  BY <1>6, <1>7, <1>8

\* The places that are left, but for one and closed up, are as many as they were.
LEMMA ClosedUp ==
    ASSUME NEW n \in Nat, NEW i \in 1 .. n, NEW S, S \subseteq 1 .. n,
           NEW U, U = {k \in 1 .. n - 1 : IF k < i THEN k \in S ELSE k + 1 \in S}
    PROVE  Cardinality(U) = Cardinality(S \ {i}) /\ Cardinality(U) \in Nat
PROOF
<1> DEFINE f == [k \in U |-> IF k < i THEN k ELSE k + 1]
<1>1. f \in [U -> S \ {i}]
  OBVIOUS
<1>2. \A k, m \in U : f[k] = f[m] => k = m
  OBVIOUS
<1>3. \A x \in S \ {i} : \E k \in U : f[k] = x
  <2>1. TAKE x \in S \ {i}
  <2>2. CASE x < i
    <3>1. x \in U /\ f[x] = x
      BY <2>2
    <3> QED
      BY <3>1
  <2>3. CASE ~(x < i)
    <3>1. x - 1 \in U /\ f[x - 1] = x
      BY <2>3
    <3> QED
      BY <3>1
  <2> QED
    BY <2>2, <2>3
<1>4. ExistsBijection(U, S \ {i})
  <2> HIDE DEF f
  <2>1. f \in Bijection(U, S \ {i})
    BY <1>1, <1>2, <1>3 DEF Bijection, Injection, Surjection, IsInjective
  <2> QED
    BY <2>1 DEF ExistsBijection
<1>5. IsFiniteSet(1 .. n)
  BY FS_Interval
<1>6. U \subseteq 1 .. n
  OBVIOUS
<1>7. IsFiniteSet(U)
  BY <1>5, <1>6, FS_Subset
<1> QED
  BY <1>4, <1>7, FS_Bijection, FS_CardinalityType

LEMMA ShrinkKeeps ==
    ASSUME NEW c, Sound(c), NEW i \in DOMAIN c.tasks,
           NEW d, d = [c EXCEPT !.tasks = RemoveAt(@, i)]
    PROVE  /\ Sound(d)
           /\ i \in Started(c) => Active(d) = Active(c) - 1
           /\ i \notin Started(c) => Active(d) = Active(c)
           /\ \A q \in Requester, x \in PageNo :
                WaitsAt(d, q, x) <=> WaitsAt(c, q, x) /\ x # c.tasks[i].page
           /\ \A x \in PageNo : x # c.tasks[i].page => Carries(c, d, x)
           /\ ~HasTask(d, c.tasks[i].page) /\ d.marks = c.marks /\ d.cache = c.cache
PROOF
<1>1. /\ c \in CacheSet /\ c.tasks \in Seq(TaskSet) /\ DOMAIN c.tasks = 1 .. Len(c.tasks)
      /\ Len(c.tasks) \in Nat /\ Started(c) \subseteq DOMAIN c.tasks
  BY StartedFinite DEF Sound, CacheSet
<1>2. PICK n \in Nat : n = Len(c.tasks) /\ i \in 1 .. n
  BY <1>1
<1>3. PICK t : t = RemoveAt(c.tasks, i)
  OBVIOUS
<1>4. /\ t \in Seq(TaskSet) /\ DOMAIN t = 1 .. n - 1
      /\ \A k \in 1 .. n - 1 : t[k] = IF k < i THEN c.tasks[k] ELSE c.tasks[k + 1]
  BY <1>1, <1>2, <1>3, RemovedIs
<1>5. /\ d \in CacheSet /\ d.tasks = t /\ d.replaced = c.replaced /\ d.cache = c.cache
      /\ d.marks = c.marks
  <2>1. d = [c EXCEPT !.tasks = t]
    BY <1>1, <1>3 DEF CacheSet
  <2> QED
    BY <1>1, <1>4, <2>1 DEF CacheSet
\* A place in d is one in c but i, and none is missing.
<1>6. PICK from : from = [k \in 1 .. n - 1 |-> IF k < i THEN k ELSE k + 1]
  OBVIOUS
<1>7. \A k \in DOMAIN d.tasks : from[k] \in DOMAIN c.tasks \ {i} /\ d.tasks[k] = c.tasks[from[k]]
  BY <1>1, <1>2, <1>4, <1>5, <1>6
<1>8. \A m \in DOMAIN c.tasks \ {i} : \E k \in DOMAIN d.tasks : from[k] = m
  <2>1. TAKE m \in DOMAIN c.tasks \ {i}
  <2>2. CASE m < i
    <3>1. m \in 1 .. n - 1 /\ from[m] = m
      BY <1>1, <1>2, <1>6, <2>2
    <3> QED
      BY <1>4, <1>5, <3>1
  <2>3. CASE ~(m < i)
    <3>1. m - 1 \in 1 .. n - 1 /\ from[m - 1] = m
      BY <1>1, <1>2, <1>6, <2>3
    <3> QED
      BY <1>4, <1>5, <3>1
  <2> QED
    BY <2>2, <2>3
<1>9. \A k, m \in DOMAIN d.tasks : from[k] = from[m] => k = m
  BY <1>2, <1>4, <1>5, <1>6
<1>10. \A k \in DOMAIN d.tasks : k \in Started(d) <=> from[k] \in Started(c)
  BY <1>7 DEF Started
<1>11. \A k \in DOMAIN c.tasks : c.tasks[k].page = c.tasks[i].page => k = i
  BY DEF Sound, Single
<1>12. Single(d)
  BY <1>7, <1>9 DEF Sound, Single
<1>13. \A q, x : WaitsAt(d, q, x) <=> WaitsAt(c, q, x) /\ x # c.tasks[i].page
  BY <1>7, <1>8, <1>11 DEF WaitsAt
<1>14. Once(d)
  BY <1>13 DEF Sound, Once
<1>15. OneWarm(d)
  <2>1. \A k \in Started(d) : k \in DOMAIN d.tasks
    BY DEF Started
  <2> QED
    BY <1>7, <1>9, <1>10, <2>1 DEF Sound, OneWarm
<1>16. \A k \in DOMAIN d.tasks : TaskOK(d.tasks[k])
  BY <1>7 DEF Sound
<1>17. /\ i \in Started(c) => Active(d) = Active(c) - 1
       /\ i \notin Started(c) => Active(d) = Active(c)
  <2>1. Started(d) = {k \in 1 .. n - 1 : IF k < i THEN k \in Started(c) ELSE k + 1 \in Started(c)}
    BY <1>4, <1>5, <1>6, <1>10 DEF Started
  <2>2. Cardinality(Started(d)) = Cardinality(Started(c) \ {i})
    <3>1. PICK U, S : U = Started(d) /\ S = Started(c)
      OBVIOUS
    <3>2. S \subseteq 1 .. n /\ U = {k \in 1 .. n - 1 : IF k < i THEN k \in S ELSE k + 1 \in S}
      BY <1>1, <1>2, <2>1, <3>1
    <3>3. Cardinality(U) = Cardinality(S \ {i})
      BY <1>2, <3>2, ClosedUp
    <3> QED
      BY <3>1, <3>3
  <2>3. PICK x : /\ x = Cardinality(Started(c)) /\ x \in Nat /\ IsFiniteSet(Started(c))
                 /\ Active(c) = x + Len(c.replaced) /\ Len(c.replaced) \in Nat
    BY <1>1, StartedFinite
  <2>4. Cardinality(Started(c) \ {i}) = IF i \in Started(c) THEN x - 1 ELSE x
    BY <2>3, FS_RemoveElement
  <2>5. Active(d) = Cardinality(Started(d)) + Len(c.replaced)
    BY <1>5 DEF Active
  <2> QED
    BY <2>2, <2>3, <2>4, <2>5
<1>18. Active(d) <= 2
  BY <1>1, <1>17, StartedFinite DEF Sound
<1>19. \A x : x # c.tasks[i].page => Carries(c, d, x)
  <2>1. TAKE x
  <2>2. HAVE x # c.tasks[i].page
  <2>3. Replaced(d, x) = Replaced(c, x)
    BY <1>5 DEF Replaced
  <2>4. ASSUME Loading(c, x) PROVE Loading(d, x)
    <3>1. PICK m \in Started(c) : c.tasks[m].page = x /\ ~c.tasks[m].aborted
      BY <2>4 DEF Loading
    <3>2. PICK k \in DOMAIN d.tasks : from[k] = m
      BY <1>1, <1>8, <2>2, <3>1
    <3> QED
      BY <1>7, <1>10, <3>1, <3>2 DEF Loading
  <2> QED
    BY <1>1, <2>3, <2>4, ReplacedFinite DEF Carries
<1>20. ~HasTask(d, c.tasks[i].page)
  BY <1>7, <1>11 DEF HasTask
<1> QED
  BY <1>5, <1>12, <1>13, <1>14, <1>15, <1>16, <1>17, <1>18, <1>19, <1>20 DEF Sound

LEMMA CancelKeeps ==
    ASSUME NEW c, Sound(c), Served(c), NEW r \in Requester, NEW d, d = Cancel(c, r)
    PROVE  /\ Sound(d) /\ Served(d)
           /\ \A x \in PageNo : ~WaitsAt(d, r, x)
           /\ \A q \in Requester \ {r}, x \in PageNo : WaitsAt(d, q, x) <=> WaitsAt(c, q, x)
           /\ \A x \in PageNo : Carries(c, d, x)
PROOF
<1> DEFINE I == {k \in 1 .. Len(c.tasks) : r \in c.tasks[k].waiters}
<1>1. /\ c \in CacheSet /\ c.tasks \in Seq(TaskSet) /\ DOMAIN c.tasks = 1 .. Len(c.tasks)
      /\ Len(c.tasks) \in Nat /\ Started(c) \subseteq DOMAIN c.tasks
  BY StartedFinite DEF Sound, CacheSet
<1>2. PICK i : i = (IF I # {} THEN Min(I) ELSE 0)
  OBVIOUS
<1>3. i = SelectInSeq(c.tasks, LAMBDA t : r \in t.waiters)
  BY <1>2 DEF SelectInSeq
<1>4. CASE I = {}
  <2>1. i = 0 /\ d = c
    BY <1>2, <1>3, <1>4 DEF Cancel
  <2>2. \A x : ~WaitsAt(c, r, x)
    BY <1>1, <1>4 DEF WaitsAt
  <2> QED
    BY <1>1, <2>1, <2>2, TasksSame
<1>5. CASE I # {}
  <2>1. i \in DOMAIN c.tasks /\ r \in c.tasks[i].waiters /\ i # 0
    <3>1. Min(I) \in I
      <4>1. I \subseteq 1 .. Len(c.tasks)
        OBVIOUS
      <4> HIDE DEF I
      <4> QED
        BY <1>1, <1>5, <4>1, LeastExists
    <3> QED
      BY <1>1, <1>2, <1>5, <3>1
  <2>2. c.tasks[i] \in TaskSet /\ TaskOK(c.tasks[i]) /\ ~c.tasks[i].aborted
    <3>1. c.tasks[i] \in TaskSet /\ TaskOK(c.tasks[i])
      BY <1>1, <2>1 DEF Sound
    <3> QED
      BY <2>1, <3>1 DEF TaskOK, TaskSet
  <2>3. PICK p : p = c.tasks[i].page /\ p \in PageNo
    BY <2>2 DEF TaskSet
  <2>4. \A k \in DOMAIN c.tasks : r \in c.tasks[k].waiters => k = i
    <3>1. TAKE k \in DOMAIN c.tasks
    <3>2. HAVE r \in c.tasks[k].waiters
    <3>3. c.tasks[k].page \in PageNo
      <4>1. c.tasks[k] \in TaskSet
        BY <1>1
      <4> QED
        BY <4>1 DEF TaskSet
    <3>4. WaitsAt(c, r, p) /\ WaitsAt(c, r, c.tasks[k].page)
      BY <2>1, <2>3, <3>2 DEF WaitsAt
    <3>5. c.tasks[k].page = p
      BY <2>3, <3>3, <3>4 DEF Sound, Once
    <3> QED
      BY <2>1, <2>3, <3>5 DEF Sound, Single
  <2>5. PICK left : left = c.tasks[i].waiters \ {r}
    OBVIOUS
  <2>6. PICK e : e = IF left = {} /\ ~c.tasks[i].started
                     THEN [c EXCEPT !.tasks = RemoveAt(@, i)]
                     ELSE [c EXCEPT !.tasks[i].waiters = left, !.tasks[i].expiring = (left = {})]
    OBVIOUS
  <2>7. d = Pump(e)
    BY <1>3, <2>1, <2>5, <2>6 DEF Cancel
  <2>8. /\ Sound(e) /\ \A x \in PageNo : Carries(c, e, x)
        /\ \A x \in PageNo : ~WaitsAt(e, r, x)
        /\ \A q \in Requester \ {r}, x \in PageNo : WaitsAt(e, q, x) <=> WaitsAt(c, q, x)
    <3>1. CASE left = {} /\ ~c.tasks[i].started
      <4>1. e = [c EXCEPT !.tasks = RemoveAt(@, i)]
        BY <2>6, <3>1
      <4>2. /\ Sound(e)
            /\ \A q \in Requester, x \in PageNo : WaitsAt(e, q, x) <=> WaitsAt(c, q, x) /\ x # p
            /\ \A x \in PageNo : x # p => Carries(c, e, x)
        BY <2>1, <2>3, <4>1, ShrinkKeeps
      <4>3. Carries(c, e, p)
        <5>1. ~Loading(c, p)
          BY <1>1, <2>1, <2>3, <3>1 DEF Loading, Started, Sound, Single
        <5> QED
          BY <5>1 DEF Carries
      <4>4. \A q \in Requester \ {r} : ~WaitsAt(c, q, p)
        BY <2>1, <2>3, <2>5, <3>1 DEF WaitsAt, Sound, Single
      <4>5. \A x \in PageNo : WaitsAt(c, r, x) => x = p
        BY <2>3, <2>4 DEF WaitsAt
      <4> QED
        BY <4>2, <4>3, <4>4, <4>5
    <3>2. CASE ~(left = {} /\ ~c.tasks[i].started)
      <4>1. PICK t : t = [c.tasks[i] EXCEPT !.waiters = left, !.expiring = (left = {})]
        OBVIOUS
      <4>2. /\ t \in TaskSet /\ t.waiters = left /\ t.expiring = (left = {}) /\ t.page = p
            /\ t.started = c.tasks[i].started /\ t.aborted = c.tasks[i].aborted
            /\ t.background = c.tasks[i].background
        BY <2>2, <2>3, <2>5, <4>1 DEF TaskSet
      <4>3. TaskOK(t)
        BY <2>2, <2>5, <3>2, <4>2 DEF TaskOK
      <4>4. e = [c EXCEPT !.tasks = [c.tasks EXCEPT ![i] = t]]
        BY <1>1, <2>1, <2>6, <3>2, <4>1 DEF CacheSet, TaskSet
      <4>5. /\ e \in CacheSet /\ e.replaced = c.replaced /\ DOMAIN e.tasks = DOMAIN c.tasks
            /\ e.tasks[i] = t /\ \A k \in DOMAIN c.tasks : k # i => e.tasks[k] = c.tasks[k]
        <5>1. [c.tasks EXCEPT ![i] = t] \in Seq(TaskSet)
          BY <1>1, <2>1, <4>2
        <5>2. e \in CacheSet /\ e.replaced = c.replaced /\ e.tasks = [c.tasks EXCEPT ![i] = t]
          BY <1>1, <4>4, <5>1 DEF CacheSet
        <5> QED
          BY <1>1, <2>1, <5>2
      <4>6. \A k \in DOMAIN c.tasks :
               /\ e.tasks[k].page = c.tasks[k].page /\ e.tasks[k].started = c.tasks[k].started
               /\ e.tasks[k].aborted = c.tasks[k].aborted
               /\ e.tasks[k].background = c.tasks[k].background
               /\ e.tasks[k].waiters = c.tasks[k].waiters \ {r}
        BY <2>3, <2>4, <2>5, <4>2, <4>5
      <4>7. Started(e) = Started(c) /\ Active(e) = Active(c)
        <5>1. Started(e) = Started(c)
          BY <4>5, <4>6 DEF Started
        <5> QED
          BY <4>5, <5>1 DEF Active
      <4>8. /\ \A x : ~WaitsAt(e, r, x)
            /\ \A q, x : q # r => (WaitsAt(e, q, x) <=> WaitsAt(c, q, x))
        BY <4>5, <4>6 DEF WaitsAt
      <4>9. Single(e) /\ Once(e) /\ OneWarm(e)
        BY <1>1, <4>5, <4>6, <4>7, <4>8 DEF Sound, Single, Once, OneWarm
      <4>10. \A k \in DOMAIN e.tasks : TaskOK(e.tasks[k])
        BY <4>3, <4>5 DEF Sound
      <4>11. \A x : Carries(c, e, x)
        <5>1. TAKE x
        <5>2. Replaced(e, x) = Replaced(c, x)
          BY <4>5 DEF Replaced
        <5>3. Loading(c, x) => Loading(e, x)
          BY <1>1, <4>6, <4>7 DEF Loading
        <5> QED
          BY <1>1, <5>2, <5>3, ReplacedFinite DEF Carries
      <4> QED
        BY <4>5, <4>7, <4>8, <4>9, <4>10, <4>11 DEF Sound
    <3> QED
      BY <3>1, <3>2
  <2>9. Sound(d) /\ Served(d) /\ Alike(e, d)
    BY <2>7, <2>8, PumpKeeps
  <2>10. \A q \in Requester, x \in PageNo : WaitsAt(d, q, x) <=> WaitsAt(e, q, x)
    BY <2>9 DEF Alike
  <2>11. \A x \in PageNo : Carries(c, d, x)
    BY <1>1, <2>8, <2>9, CarriesThrough DEF Sound, Alike
  <2> QED
    BY <2>8, <2>9, <2>10, <2>11
<1> QED
  BY <1>4, <1>5

LEMMA EndKeeps ==
    ASSUME NEW c, Sound(c), NEW i \in DOMAIN c.tasks, NEW d, d = Without(c, i)
    PROVE  /\ Sound(d) /\ Served(d)
           /\ \A q \in Requester, x \in PageNo :
                WaitsAt(d, q, x) <=> WaitsAt(c, q, x) /\ x # c.tasks[i].page
           /\ \A x \in PageNo : x # c.tasks[i].page => Carries(c, d, x)
           /\ d.marks[c.tasks[i].page] = c.marks[c.tasks[i].page]
PROOF
<1>1. PICK e : e = [c EXCEPT !.tasks = RemoveAt(@, i)] /\ d = Pump(e)
  BY DEF Without
<1>2. /\ Sound(e)
      /\ \A q \in Requester, x \in PageNo :
           WaitsAt(e, q, x) <=> WaitsAt(c, q, x) /\ x # c.tasks[i].page
      /\ \A x \in PageNo : x # c.tasks[i].page => Carries(c, e, x)
      /\ ~HasTask(e, c.tasks[i].page) /\ e.marks = c.marks
  BY <1>1, ShrinkKeeps
<1>3. Sound(d) /\ Served(d) /\ Alike(e, d)
  BY <1>1, <1>2, PumpKeeps
<1>4. c.tasks[i].page \in PageNo
  <2>1. c.tasks[i] \in TaskSet
    BY DEF Sound, CacheSet
  <2> QED
    BY <2>1 DEF TaskSet
<1>5. \A x \in PageNo : x # c.tasks[i].page => Carries(c, d, x)
  BY <1>2, <1>3, CarriesThrough DEF Sound, Alike
<1> QED
  BY <1>2, <1>3, <1>4, <1>5 DEF Alike

-----------------------------------------------------------------------------
(* Turning to a page.                                                      *)

LEMMA FocusKeeps ==
    ASSUME NEW c, Sound(c), NEW p, NEW d, d = Focus(c, p)
    PROVE  d \in CacheSet /\ d.tasks = c.tasks /\ d.replaced = c.replaced
PROOF
<1>1. c \in CacheSet /\ c.cache \in Seq(PageNo)
  BY DEF Sound, CacheSet
<1>2. PICK s : s = Picked(c.cache, {i \in DOMAIN c.cache : c.cache[i] \in p - Behind .. p + Ahead})
  OBVIOUS
<1>3. s \in Seq(PageNo)
  <2>1. {i \in DOMAIN c.cache : c.cache[i] \in p - Behind .. p + Ahead} \subseteq DOMAIN c.cache
    OBVIOUS
  <2> QED
    BY <1>1, <1>2, <2>1, PickedIs
<1>4. d = [c EXCEPT !.cache = s]
  BY <1>1, <1>2 DEF Focus, CacheSet
<1> QED
  BY <1>1, <1>3, <1>4 DEF CacheSet

LEMMA NearbyIs ==
    ASSUME NEW p \in PageNo
    PROVE  Nearby(p) \in Seq(PageNo)
PROOF
<1> DEFINE near == [i \in 1 .. 2 * Behind |-> IF i % 2 = 1 THEN p + (i + 1) \div 2 ELSE p - i \div 2]
           far == [i \in 1 .. Ahead - Behind |-> p + Behind + i]
           all == <<p>> \o near \o far
<1>1. Behind \in Nat /\ Ahead \in Nat /\ p \in Int
  BY PageCacheAssumption DEF PageNo
<1>2. near \in Seq(Int)
  <2>1. 2 * Behind \in Nat
    BY <1>1
  <2>2. \A i \in 1 .. 2 * Behind : near[i] \in Int
    BY <1>1
  <2> QED
    BY <2>1, <2>2
<1>3. far \in Seq(Int)
  <2>1. CASE Ahead >= Behind
    <3>1. Ahead - Behind \in Nat
      BY <1>1, <2>1
    <3> QED
      BY <1>1, <3>1
  <2>2. CASE ~(Ahead >= Behind)
    <3>1. 1 .. Ahead - Behind = {} /\ 1 .. 0 = {} /\ 0 \in Nat
      BY <1>1, <2>2
    <3>2. far \in [1 .. 0 -> Int]
      BY <3>1
    <3> QED
      BY <3>1, <3>2, SeqDef
  <2> QED
    BY <2>1, <2>2
<1>4. PICK s \in Seq(Int) : s = all
  <2> HIDE DEF near, far
  <2>1. <<p>> \in Seq(Int)
    BY <1>1
  <2>2. \A a, b \in Seq(Int) : a \o b \in Seq(Int)
    OBVIOUS
  <2> QED
    BY <1>2, <1>3, <2>1, <2>2
<1>5. PICK I : I = {i \in DOMAIN s : s[i] \in PageNo}
  OBVIOUS
<1>6. Nearby(p) = Picked(s, I)
  BY <1>4, <1>5 DEF Nearby
<1>7. Picked(s, I) \in Seq(Int) /\ \A k \in DOMAIN Picked(s, I) : \E i \in I : Picked(s, I)[k] = s[i]
  <2>1. I \subseteq DOMAIN s
    BY <1>5
  <2> QED
    BY <2>1, PickedIs
<1>8. \A k \in DOMAIN Picked(s, I) : Picked(s, I)[k] \in PageNo
  BY <1>5, <1>7
<1> QED
  BY <1>6, <1>7, <1>8

LEMMA ShowsKeeps ==
    ASSUME NEW c, Sound(c), Served(c), NEW p \in PageNo, NEW fast \in BOOLEAN,
           NEW d, d = Shows(c, p, fast)
    PROVE  /\ Sound(d) /\ Served(d)
           /\ \A q \in Requester, x \in PageNo : WaitsAt(d, q, x) => x = p /\ ~fast
           /\ \A x \in PageNo : ~WaitsAt(d, "warm", x)
           /\ \A x \in PageNo : Carries(c, d, x)
PROOF
<1>0. Requester = {"reserve", "view", "warm"}
  BY DEF Requester
<1>1. PICK c1 : c1 = Cancel(c, "reserve")
  OBVIOUS
<1>2. PICK c2 : c2 = IF fast THEN c1 ELSE Get(c1, "reserve", p, FALSE)
  OBVIOUS
<1>3. PICK c3, c4 : c3 = Cancel(c2, "view") /\ c4 = Cancel(c3, "warm")
  OBVIOUS
<1>4. PICK c5 : c5 = IF fast THEN c4 ELSE Get(c4, "view", p, FALSE)
  OBVIOUS
<1>5. d = c5 \/ d = Focus(c5, p)
  BY <1>1, <1>2, <1>3, <1>4 DEF Shows
<1>6. /\ Sound(c1) /\ Served(c1) /\ \A x \in PageNo : ~WaitsAt(c1, "reserve", x) /\ Carries(c, c1, x)
  BY <1>0, <1>1, CancelKeeps
<1>7. /\ Sound(c2) /\ Served(c2)
      /\ \A x \in PageNo : (WaitsAt(c2, "reserve", x) => x = p /\ ~fast) /\ Carries(c1, c2, x)
  <2>1. CASE fast
    BY <1>2, <1>6, <2>1, TasksSame DEF Sound
  <2>2. CASE ~fast
    <3>1. c2 = Get(c1, "reserve", p, FALSE) /\ "reserve" \in Requester
      BY <1>0, <1>2, <2>2
    <3>2. /\ Sound(c2) /\ Served(c2)
          /\ \A x \in PageNo : WaitsAt(c2, "reserve", x) => x = p
          /\ \A x \in PageNo : Carries(c1, c2, x)
      <4>1. PICK r, bg : r = "reserve" /\ bg = FALSE
        OBVIOUS
      <4>2. /\ r \in Requester /\ bg \in BOOLEAN /\ (bg => r = "warm") /\ c2 = Get(c1, r, p, bg)
            /\ \A q \in PageNo : ~WaitsAt(c1, r, q)
        BY <1>6, <3>1, <4>1
      <4>3. /\ Sound(c2) /\ Served(c2)
            /\ \A q \in Requester \ {r}, x \in PageNo : WaitsAt(c2, q, x) <=> WaitsAt(c1, q, x)
            /\ \A x \in PageNo : WaitsAt(c2, r, x) => x = p
            /\ \A x \in PageNo : Carries(c1, c2, x)
        BY <1>6, <4>2, GetKeeps
      <4> QED
        BY <4>1, <4>3
    <3> QED
      BY <2>2, <3>2
  <2> QED
    BY <2>1, <2>2
<1>8. /\ Sound(c3) /\ Served(c3)
      /\ \A x \in PageNo : /\ WaitsAt(c3, "reserve", x) => x = p /\ ~fast
                           /\ ~WaitsAt(c3, "view", x) /\ Carries(c2, c3, x)
  BY <1>0, <1>3, <1>7, CancelKeeps
<1>9. /\ Sound(c4) /\ Served(c4)
      /\ \A x \in PageNo : /\ WaitsAt(c4, "reserve", x) => x = p /\ ~fast
                           /\ ~WaitsAt(c4, "view", x) /\ ~WaitsAt(c4, "warm", x) /\ Carries(c3, c4, x)
  BY <1>0, <1>3, <1>8, CancelKeeps
<1>10. /\ Sound(c5) /\ Served(c5)
       /\ \A x \in PageNo : /\ WaitsAt(c5, "reserve", x) => x = p /\ ~fast
                            /\ WaitsAt(c5, "view", x) => x = p /\ ~fast
                            /\ ~WaitsAt(c5, "warm", x) /\ Carries(c4, c5, x)
  <2>1. CASE fast
    BY <1>4, <1>9, <2>1, TasksSame DEF Sound
  <2>2. CASE ~fast
    <3>1. c5 = Get(c4, "view", p, FALSE) /\ "view" \in Requester
      BY <1>0, <1>4, <2>2
    <3>2. /\ Sound(c5) /\ Served(c5)
          /\ \A q \in Requester \ {"view"}, x \in PageNo : WaitsAt(c5, q, x) <=> WaitsAt(c4, q, x)
          /\ \A x \in PageNo : WaitsAt(c5, "view", x) => x = p
          /\ \A x \in PageNo : Carries(c4, c5, x)
      <4>1. PICK r, bg : r = "view" /\ bg = FALSE
        OBVIOUS
      <4>2. /\ r \in Requester /\ bg \in BOOLEAN /\ (bg => r = "warm") /\ c5 = Get(c4, r, p, bg)
            /\ \A q \in PageNo : ~WaitsAt(c4, r, q)
        BY <1>9, <3>1, <4>1
      <4>3. /\ Sound(c5) /\ Served(c5)
            /\ \A q \in Requester \ {r}, x \in PageNo : WaitsAt(c5, q, x) <=> WaitsAt(c4, q, x)
            /\ \A x \in PageNo : WaitsAt(c5, r, x) => x = p
            /\ \A x \in PageNo : Carries(c4, c5, x)
        BY <1>9, <4>2, GetKeeps
      <4> QED
        BY <4>1, <4>3
    <3> QED
      BY <1>0, <1>9, <2>2, <3>2
  <2> QED
    BY <2>1, <2>2
<1>11. /\ Sound(d) /\ Served(d) /\ \A q, x : WaitsAt(d, q, x) <=> WaitsAt(c5, q, x)
       /\ \A x : Carries(c5, d, x)
  <2>1. d \in CacheSet /\ d.tasks = c5.tasks /\ d.replaced = c5.replaced
    BY <1>5, <1>10, FocusKeeps DEF Sound
  <2> QED
    BY <1>10, <2>1, TasksSame
<1>12. \A x \in PageNo : Carries(c, d, x)
  <2>1. TAKE x \in PageNo
  <2>2. /\ c \in CacheSet /\ c1 \in CacheSet /\ c2 \in CacheSet /\ c3 \in CacheSet
        /\ c4 \in CacheSet /\ c5 \in CacheSet /\ d \in CacheSet
    BY <1>6, <1>7, <1>8, <1>9, <1>10, <1>11 DEF Sound
  <2>3. Carries(c, c2, x)
    BY <1>6, <1>7, <2>2, CarriesThrough
  <2>4. Carries(c, c3, x)
    BY <1>8, <2>2, <2>3, CarriesThrough
  <2>5. Carries(c, c4, x)
    BY <1>9, <2>2, <2>4, CarriesThrough
  <2>6. Carries(c, c5, x)
    BY <1>10, <2>2, <2>5, CarriesThrough
  <2> QED
    BY <1>11, <2>2, <2>6, CarriesThrough
<1> QED
  BY <1>0, <1>10, <1>11, <1>12

-----------------------------------------------------------------------------
(* The invariant: what the requesters wait for is what Pages has them      *)
(* waiting for, and the image slot waits for the page on screen.           *)

Wants == [Requester -> PageNo \cup {-1}]
Ties(c, w) == \A r \in Requester, x \in PageNo : WaitsAt(c, r, x) <=> w[r] = x

PagesOK ==
    /\ pages \in CacheSet
    /\ ~closed => Sound(pages) /\ Served(pages)
    /\ closed => pages.tasks = <<>>
WantsOK == want \in Wants /\ Ties(pages, want) /\ want["view"] \in {-1, page}
SlotOK ==
    /\ image \in {"off", "waiting", "got", "shown", "failed"}
    /\ want["view"] = -1 <=> image # "waiting"
    /\ image = "off" => closed \/ rapid
RapidOK ==
    rapid => turning /\ image = "off" /\ warming = <<>> /\ \A r \in Requester : want[r] = -1
ViewTypes ==
    /\ page \in PageNo /\ warming \in Seq(PageNo)
    /\ closed \in BOOLEAN /\ halted \in BOOLEAN /\ rapid \in BOOLEAN /\ turning \in BOOLEAN
    /\ visible \in BOOLEAN
Inv == PagesOK /\ WantsOK /\ SlotOK /\ RapidOK /\ ViewTypes

\* A download of p goes on from c to d, unless it ended, or was aborted or left for a while
\* and is not wanted again.
GoesOn(c, d, w, p) ==
    \/ Carries(c, d, p)
    \/ d.marks[p] # "none"
    \/ \E i \in Started(c) : /\ c.tasks[i].page = p
                             /\ \/ c.tasks[i].aborted
                                \/ c.tasks[i].expiring /\ \A r \in Requester : w[r] # p
Lasts == ~closed' => \A p \in PageNo : GoesOn(pages, pages', want', p)

LEMMA Numbers == PageNo \subseteq Nat /\ 0 \in PageNo /\ -1 \notin PageNo
PROOF BY PageCacheAssumption DEF PageNo

\* The page a requester waits for is that of its task.
LEMMA WaitsIs ==
    ASSUME NEW c \in CacheSet, NEW r \in Requester, NEW p \in PageNo,
           \A x \in PageNo : WaitsAt(c, r, x) => x = p
    PROVE  /\ Waits(c, r, p) \in {-1, p}
           /\ \A x \in PageNo : WaitsAt(c, r, x) <=> Waits(c, r, p) = x
PROOF
<1>1. \A i \in DOMAIN c.tasks : c.tasks[i].page \in PageNo
  <2>1. TAKE i \in DOMAIN c.tasks
  <2>2. c.tasks[i] \in TaskSet
    BY DEF CacheSet
  <2> QED
    BY <2>2 DEF TaskSet
<1>2. (\E i \in DOMAIN c.tasks : r \in c.tasks[i].waiters) <=> WaitsAt(c, r, p)
  BY <1>1 DEF WaitsAt
<1>3. Waits(c, r, p) = IF WaitsAt(c, r, p) THEN p ELSE -1
  BY <1>2 DEF Waits
<1> QED
  BY <1>3, Numbers

LEMMA CommitsKeeps ==
    ASSUME Inv, ~closed, NEW p \in PageNo, NEW fast \in BOOLEAN, Commits(p, fast),
           page' = p, rapid' = fast, fast => turning', turning' \in BOOLEAN,
           UNCHANGED <<closed, halted, visible>>
    PROVE  Inv' /\ Lasts
PROOF
<1>1. PICK c, d : c = pages /\ d = pages' /\ Sound(c) /\ Served(c) /\ d = Shows(c, p, fast)
  BY DEF Inv, PagesOK, Commits
<1>2. /\ Sound(d) /\ Served(d)
      /\ \A q \in Requester, x \in PageNo : WaitsAt(d, q, x) => x = p /\ ~fast
      /\ \A x \in PageNo : Carries(c, d, x)
  BY <1>1, ShowsKeeps
<1>3. d \in CacheSet
  BY <1>2 DEF Sound
<1>4. want' = [r \in Requester |-> Waits(d, r, p)]
  BY <1>1 DEF Commits
<1>5. \A r \in Requester : /\ want'[r] \in {-1, p}
                           /\ \A x \in PageNo : WaitsAt(d, r, x) <=> want'[r] = x
  BY <1>2, <1>3, <1>4, WaitsIs
<1>6. \A r \in Requester : fast => want'[r] = -1
  BY <1>2, <1>5
<1>7. want' \in Wants /\ Ties(d, want')
  BY <1>4, <1>5 DEF Wants, Ties
<1>8. "view" \in Requester
  BY DEF Requester
<1>9. image' = IF fast THEN "off" ELSE IF want'["view"] = -1 THEN "got" ELSE "waiting"
  BY <1>1, <1>4, <1>8 DEF Commits
<1>10. warming' \in Seq(PageNo) /\ (fast => warming' = <<>>)
  BY NearbyIs DEF Commits, Warms
<1>11. PagesOK'
  BY <1>1, <1>2, <1>3 DEF PagesOK
<1>12. WantsOK' /\ SlotOK' /\ RapidOK'
  BY <1>1, <1>5, <1>6, <1>7, <1>8, <1>9, <1>10 DEF WantsOK, SlotOK, RapidOK
<1>13. ViewTypes'
  BY <1>10 DEF Inv, ViewTypes
<1> QED
  BY <1>1, <1>2, <1>11, <1>12, <1>13 DEF Inv, Lasts, GoesOn

LEMMA TurnKeeps ==
    ASSUME Inv, NEW p \in PageNo, Turn(p)
    PROVE  Inv' /\ Lasts
PROOF
<1>1. /\ ~closed /\ turning \in BOOLEAN /\ Commits(p, turning) /\ page' = p /\ rapid' = turning
      /\ turning' = TRUE /\ UNCHANGED <<closed, halted, visible>>
  BY DEF Turn, Inv, ViewTypes
<1> QED
  BY <1>1, CommitsKeeps

\* A step that leaves Pages and what is waited for as they are.
LEMMA StillKeeps ==
    ASSUME Inv, UNCHANGED <<pages, closed, page, want, halted, rapid, visible>>,
           image' = image \/ (image = "got" /\ image' = "shown"),
           turning' \in BOOLEAN, rapid => turning',
           warming' = warming \/ warming' = <<>>
    PROVE  Inv' /\ Lasts
PROOF
<1>1. PagesOK' /\ WantsOK'
  BY DEF Inv, PagesOK, WantsOK, Ties
<1>2. \A p \in PageNo : Carries(pages, pages', p)
  <2>1. \A p \in PageNo : Cardinality(Replaced(pages, p)) \in Nat
    BY ReplacedFinite DEF Inv, PagesOK
  <2> QED
    BY <2>1 DEF Carries
<1>3. Lasts
  BY <1>2 DEF Lasts, GoesOn
<1>4. SlotOK' /\ RapidOK'
  BY DEF Inv, SlotOK, RapidOK
<1>5. ViewTypes'
  <2>1. warming' \in Seq(PageNo)
    <3>1. warming \in Seq(PageNo) /\ <<>> \in Seq(PageNo)
      BY DEF Inv, ViewTypes
    <3> QED
      BY <3>1
  <2> QED
    BY <2>1 DEF Inv, ViewTypes
<1> QED
  BY <1>1, <1>3, <1>4, <1>5 DEF Inv

LEMMA SettleKeeps ==
    ASSUME Inv, Settle
    PROVE  Inv' /\ Lasts
PROOF
<1>1. CASE rapid
  <2>1. /\ ~closed /\ Commits(page, FALSE) /\ page \in PageNo /\ page' = page /\ rapid' = FALSE
        /\ turning' = FALSE /\ UNCHANGED <<closed, halted, visible>>
    BY <1>1 DEF Settle, Inv, ViewTypes
  <2>2. PICK p, fast : p = page /\ fast = FALSE
    OBVIOUS
  <2>3. /\ p \in PageNo /\ fast \in BOOLEAN /\ Commits(p, fast) /\ page' = p /\ rapid' = fast
        /\ (fast => turning') /\ turning' \in BOOLEAN
    BY <2>1, <2>2
  <2> QED
    BY <2>1, <2>3, CommitsKeeps
<1>2. CASE ~rapid
  <2>1. rapid' = rapid
    BY <1>2 DEF Settle, Inv, ViewTypes
  <2> QED
    BY <1>2, <2>1, StillKeeps DEF Settle
<1> QED
  BY <1>1, <1>2

LEMMA DecodedKeeps ==
    ASSUME Inv, Decoded
    PROVE  Inv' /\ Lasts
PROOF
<1>1. turning' \in BOOLEAN /\ (rapid => turning')
  BY DEF Decoded, Inv, ViewTypes, RapidOK
<1> QED
  BY <1>1, StillKeeps DEF Decoded

LEMMA RewarmKeeps ==
    ASSUME Inv, ~closed, NEW c, Sound(c), Served(c), c.tasks = pages.tasks,
           \A x \in PageNo : Carries(pages, c, x),
           NEW shown, NEW stopped, Rewarm(c, rapid, shown, stopped),
           UNCHANGED <<closed, page, image, rapid, turning>>,
           visible' \in BOOLEAN, halted' \in BOOLEAN
    PROVE  Inv' /\ Lasts
PROOF
<1>1. PICK r : r = "warm" /\ r \in Requester
  BY DEF Requester
<1>2. PICK e, d : e = Cancel(c, r) /\ d = pages'
  OBVIOUS
<1>3. /\ Sound(e) /\ Served(e)
      /\ \A x \in PageNo : ~WaitsAt(e, r, x)
      /\ \A q \in Requester \ {r}, x \in PageNo : WaitsAt(e, q, x) <=> WaitsAt(c, q, x)
      /\ \A x \in PageNo : Carries(c, e, x)
  BY <1>1, <1>2, CancelKeeps
<1>4. d = e \/ d = Focus(e, page)
  BY <1>1, <1>2 DEF Rewarm
<1>5. d \in CacheSet /\ d.tasks = e.tasks /\ d.replaced = e.replaced
  BY <1>3, <1>4, FocusKeeps DEF Sound
<1>6. /\ Sound(d) /\ Served(d) /\ \A q, x : WaitsAt(d, q, x) <=> WaitsAt(e, q, x)
      /\ \A x : Carries(e, d, x)
  BY <1>3, <1>5, TasksSame
<1>7. \A x \in PageNo : Carries(pages, d, x)
  <2>1. TAKE x \in PageNo
  <2>2. pages \in CacheSet /\ c \in CacheSet /\ e \in CacheSet /\ d \in CacheSet
    BY <1>3, <1>6 DEF Inv, PagesOK, Sound
  <2>3. Carries(pages, e, x)
    BY <1>3, <2>2, CarriesThrough
  <2> QED
    BY <1>6, <2>2, <2>3, CarriesThrough
<1>8. \A q, x : WaitsAt(c, q, x) <=> WaitsAt(pages, q, x)
  BY DEF WaitsAt
<1>9. want \in Wants /\ Ties(pages, want) /\ want["view"] \in {-1, page} /\ "view" \in Requester
  BY DEF Inv, WantsOK, Requester
<1>10. /\ want' \in Wants /\ want'["warm"] = -1
       /\ \A q \in Requester \ {"warm"} : want'[q] = want[q]
  BY <1>1, <1>9 DEF Rewarm, Wants
<1>11. Ties(d, want')
  BY <1>1, <1>3, <1>6, <1>8, <1>9, <1>10, Numbers DEF Ties
<1>12. warming' \in Seq(PageNo) /\ (rapid => warming' = <<>>)
  BY NearbyIs DEF Rewarm, Warms, Inv, ViewTypes
<1>13. PagesOK' /\ WantsOK'
  BY <1>2, <1>6, <1>9, <1>10, <1>11 DEF PagesOK, WantsOK, Sound
<1>14. SlotOK' /\ RapidOK'
  BY <1>9, <1>10, <1>12 DEF Inv, SlotOK, RapidOK
<1>15. ViewTypes'
  BY <1>12 DEF Inv, ViewTypes
<1>16. Lasts
  BY <1>2, <1>7 DEF Lasts, GoesOn
<1> QED
  BY <1>13, <1>14, <1>15, <1>16 DEF Inv

LEMMA VisibilityKeeps ==
    ASSUME Inv, Visibility
    PROVE  Inv' /\ Lasts
PROOF
<1>1. PICK c : c = pages
  OBVIOUS
<1>2. ~closed /\ Sound(c) /\ Served(c) /\ c.tasks = pages.tasks
  BY <1>1 DEF Visibility, Inv, PagesOK
<1>3. \A x \in PageNo : Carries(pages, c, x)
  <2>1. \A x \in PageNo : Carries(c, c, x)
    BY <1>2, TasksSame DEF Sound
  <2> QED
    BY <1>1, <2>1
<1>4. PICK shown, stopped : shown = visible' /\ stopped = halted
  OBVIOUS
<1>5. Rewarm(c, rapid, shown, stopped) /\ visible' \in BOOLEAN /\ halted' \in BOOLEAN
  BY <1>1, <1>4 DEF Visibility, Inv, ViewTypes
<1> QED
  BY <1>2, <1>3, <1>5, RewarmKeeps DEF Visibility

LEMMA RetryWarmingKeeps ==
    ASSUME Inv, RetryWarming
    PROVE  Inv' /\ Lasts
PROOF
<1>1. ~closed /\ Sound(pages) /\ Served(pages) /\ pages \in CacheSet
  BY DEF RetryWarming, Inv, PagesOK
<1>2. PICK m : m = [p \in PageNo |-> IF pages.marks[p] = "failed" THEN "none" ELSE pages.marks[p]]
  OBVIOUS
<1>3. m \in [PageNo -> {"none", "done", "failed"}]
  <2>1. pages.marks \in [PageNo -> {"none", "done", "failed"}]
    BY <1>1 DEF CacheSet
  <2> QED
    BY <1>2, <2>1
<1>4. PICK c : c = [pages EXCEPT !.marks = m]
  OBVIOUS
<1>5. c \in CacheSet /\ c.tasks = pages.tasks /\ c.replaced = pages.replaced
  BY <1>1, <1>3, <1>4 DEF CacheSet
<1>6. Sound(c) /\ Served(c) /\ \A x \in PageNo : Carries(pages, c, x)
  BY <1>1, <1>5, TasksSame
<1>7. c = [pages EXCEPT !.marks = [p \in PageNo |-> IF @[p] = "failed" THEN "none" ELSE @[p]]]
  BY <1>1, <1>2, <1>4 DEF CacheSet
<1>8. PICK shown, stopped : shown = visible /\ stopped = FALSE
  OBVIOUS
<1>9. Rewarm(c, rapid, shown, stopped) /\ visible' \in BOOLEAN /\ halted' \in BOOLEAN
  BY <1>7, <1>8 DEF RetryWarming, Inv, ViewTypes
<1> QED
  BY <1>1, <1>5, <1>6, <1>9, RewarmKeeps DEF RetryWarming

\* The warm-up loop takes the next page that is not cached, or stops.
LEMMA WarmNextKeeps ==
    ASSUME Inv, WarmNext
    PROVE  Inv' /\ Lasts
PROOF
<1> DEFINE I == {i \in 1 .. Len(warming) : ~Contains(pages.cache, warming[i])
                                            /\ pages.marks[warming[i]] # "failed"}
<1>1. PICK i : i = SelectInSeq(warming, LAMBDA p : ~Contains(pages.cache, p)
                                                    /\ pages.marks[p] # "failed")
  OBVIOUS
<1>2. i = IF I # {} THEN Min(I) ELSE 0
  BY <1>1 DEF SelectInSeq
<1>3. /\ ~closed /\ warming # <<>> /\ want["warm"] = -1
      /\ UNCHANGED <<closed, page, image, halted, rapid, turning, visible, turns, faults>>
      /\ \/ warming' = <<>> /\ UNCHANGED <<pages, want>>
         \/ /\ i # 0 /\ warming' = SubSeq(warming, i + 1, Len(warming))
            /\ pages' = Get(pages, "warm", warming[i], TRUE)
            /\ want' = [want EXCEPT !["warm"] = warming[i]]
  BY <1>1 DEF WarmNext
<1>4. warming \in Seq(PageNo) /\ Len(warming) \in Nat
  BY DEF Inv, ViewTypes
<1>5. CASE warming' = <<>> /\ UNCHANGED <<pages, want>>
  <2>1. turning' \in BOOLEAN /\ (rapid => turning')
    BY <1>3 DEF Inv, ViewTypes, RapidOK
  <2> QED
    BY <1>3, <1>5, <2>1, StillKeeps
<1>6. CASE /\ i # 0 /\ warming' = SubSeq(warming, i + 1, Len(warming))
           /\ pages' = Get(pages, "warm", warming[i], TRUE)
           /\ want' = [want EXCEPT !["warm"] = warming[i]]
  <2>1. i \in 1 .. Len(warming) /\ ~Contains(pages.cache, warming[i])
    <3>1. i \in I
      <4> HIDE DEF I
      <4>1. I \subseteq 1 .. Len(warming)
        BY DEF I
      <4> QED
        BY <1>2, <1>4, <1>6, <4>1, LeastExists
    <3> QED
      BY <3>1
  <2>2. PICK p, r, bg, d : p = warming[i] /\ r = "warm" /\ bg = TRUE /\ d = pages'
    OBVIOUS
  <2>3. p \in PageNo /\ r \in Requester /\ bg \in BOOLEAN /\ (bg => r = "warm")
    BY <1>4, <2>1, <2>2 DEF Requester
  <2>4. ~rapid
    BY <1>3 DEF Inv, RapidOK
  <2>5. want \in Wants /\ Ties(pages, want) /\ want["view"] \in {-1, page} /\ "view" \in Requester
    BY DEF Inv, WantsOK, Requester
  <2>6. /\ Sound(pages) /\ Served(pages) /\ d = Get(pages, r, p, bg)
        /\ \A q \in PageNo : ~WaitsAt(pages, r, q)
    <3>1. Sound(pages) /\ Served(pages)
      BY <1>3 DEF Inv, PagesOK
    <3>2. \A q \in PageNo : ~WaitsAt(pages, r, q)
      BY <1>3, <2>2, <2>3, <2>5, Numbers DEF Ties
    <3> QED
      BY <1>6, <2>2, <3>1, <3>2
  <2>7. /\ Sound(d) /\ Served(d)
        /\ \A q \in Requester \ {r}, x \in PageNo : WaitsAt(d, q, x) <=> WaitsAt(pages, q, x)
        /\ \A x \in PageNo : WaitsAt(d, r, x) => x = p
        /\ ~Contains(pages.cache, p) => WaitsAt(d, r, p)
        /\ \A x \in PageNo : Carries(pages, d, x)
    BY <2>3, <2>6, GetKeeps
  <2>8. /\ want' \in Wants /\ want'[r] = p
        /\ \A q \in Requester \ {r} : want'[q] = want[q]
    BY <1>6, <2>2, <2>3, <2>5 DEF Wants
  <2>9. Ties(d, want')
    BY <2>1, <2>2, <2>5, <2>7, <2>8 DEF Ties
  <2>10. PagesOK' /\ WantsOK'
    BY <1>3, <2>2, <2>5, <2>7, <2>8, <2>9 DEF PagesOK, WantsOK, Sound
  <2>11. SlotOK' /\ RapidOK'
    BY <1>3, <2>2, <2>4, <2>5, <2>8 DEF Inv, SlotOK, RapidOK
  <2>12. ViewTypes'
    <3>1. warming' \in Seq(PageNo)
      BY <1>4, <1>6, <2>1, SubSeqProperties
    <3> QED
      BY <1>3, <3>1 DEF Inv, ViewTypes
  <2>13. Lasts
    BY <2>2, <2>7 DEF Lasts, GoesOn
  <2> QED
    BY <2>10, <2>11, <2>12, <2>13 DEF Inv
<1> QED
  BY <1>3, <1>5, <1>6

LEMMA RetryImageKeeps ==
    ASSUME Inv, RetryImage
    PROVE  Inv' /\ Lasts
PROOF
<1>1. PICK r, bg, d : r = "view" /\ bg = FALSE /\ d = pages'
  OBVIOUS
<1>2. /\ ~closed /\ image = "failed" /\ d = Get(pages, r, page, bg)
      /\ want' = [want EXCEPT ![r] = Waits(d, r, page)]
      /\ image' = IF want'[r] = -1 THEN "got" ELSE "waiting"
      /\ UNCHANGED <<closed, page, warming, halted, rapid, turning, visible, turns, faults>>
  BY <1>1 DEF RetryImage
<1>3. page \in PageNo /\ r \in Requester /\ bg \in BOOLEAN /\ (bg => r = "warm")
  BY <1>1 DEF Inv, ViewTypes, Requester
<1>4. ~rapid /\ want[r] = -1
  BY <1>1, <1>2 DEF Inv, RapidOK, SlotOK
<1>5. want \in Wants /\ Ties(pages, want)
  BY DEF Inv, WantsOK
<1>6. Sound(pages) /\ Served(pages) /\ \A q \in PageNo : ~WaitsAt(pages, r, q)
  <2>1. Sound(pages) /\ Served(pages)
    BY <1>2 DEF Inv, PagesOK
  <2> QED
    BY <1>3, <1>4, <1>5, <2>1, Numbers DEF Ties
<1>7. /\ Sound(d) /\ Served(d)
      /\ \A q \in Requester \ {r}, x \in PageNo : WaitsAt(d, q, x) <=> WaitsAt(pages, q, x)
      /\ \A x \in PageNo : WaitsAt(d, r, x) => x = page
      /\ \A x \in PageNo : Carries(pages, d, x)
  BY <1>2, <1>3, <1>6, GetKeeps
<1>8. /\ Waits(d, r, page) \in {-1, page}
      /\ \A x \in PageNo : WaitsAt(d, r, x) <=> Waits(d, r, page) = x
  BY <1>3, <1>7, WaitsIs DEF Sound
<1>9. /\ want' \in Wants /\ want'[r] = Waits(d, r, page)
      /\ \A q \in Requester \ {r} : want'[q] = want[q]
  BY <1>2, <1>3, <1>5, <1>8 DEF Wants
<1>10. Ties(d, want')
  BY <1>5, <1>7, <1>8, <1>9 DEF Ties
<1>11. PagesOK' /\ WantsOK'
  BY <1>1, <1>2, <1>7, <1>8, <1>9, <1>10 DEF PagesOK, WantsOK, Sound
<1>12. SlotOK' /\ RapidOK'
  BY <1>1, <1>2, <1>4 DEF Inv, SlotOK, RapidOK
<1>13. ViewTypes'
  BY <1>2 DEF Inv, ViewTypes
<1>14. Lasts
  BY <1>1, <1>7 DEF Lasts, GoesOn
<1> QED
  BY <1>11, <1>12, <1>13, <1>14 DEF Inv

LEMMA DecodeFailsKeeps ==
    ASSUME Inv, DecodeFails
    PROVE  Inv' /\ Lasts
PROOF
<1>1. ~closed /\ Sound(pages) /\ Served(pages) /\ pages \in CacheSet /\ page \in PageNo
  BY DEF DecodeFails, Inv, PagesOK, ViewTypes
<1>2. PICK d, h, m : /\ d = pages' /\ h = Others(pages.cache, page)
                     /\ m = [pages.marks EXCEPT ![page] = "failed"]
  OBVIOUS
<1>3. h \in Seq(PageNo) /\ m \in [PageNo -> {"none", "done", "failed"}]
  <2>1. pages.cache \in Seq(PageNo) /\ pages.marks \in [PageNo -> {"none", "done", "failed"}]
    BY <1>1 DEF CacheSet
  <2> QED
    BY <1>2, <2>1, OthersIs
<1>4. d = [pages EXCEPT !.cache = h, !.marks = m]
  BY <1>1, <1>2 DEF DecodeFails, CacheSet
<1>5. d \in CacheSet /\ d.tasks = pages.tasks /\ d.replaced = pages.replaced
  BY <1>1, <1>3, <1>4 DEF CacheSet
<1>6. /\ Sound(d) /\ Served(d) /\ \A q, x : WaitsAt(d, q, x) <=> WaitsAt(pages, q, x)
      /\ \A x : Carries(pages, d, x)
  BY <1>1, <1>5, TasksSame
<1>7. /\ image = "got" /\ image' = "failed"
      /\ UNCHANGED <<closed, page, want, warming, halted, rapid, turning, visible>>
  BY DEF DecodeFails
<1>8. PagesOK' /\ WantsOK'
  BY <1>1, <1>2, <1>6, <1>7 DEF Inv, PagesOK, WantsOK, Ties, Sound
<1>9. SlotOK' /\ RapidOK'
  BY <1>7 DEF Inv, SlotOK, RapidOK
<1>10. ViewTypes'
  BY <1>7 DEF Inv, ViewTypes
<1>11. Lasts
  BY <1>2, <1>6 DEF Lasts, GoesOn
<1> QED
  BY <1>8, <1>9, <1>10, <1>11 DEF Inv

-----------------------------------------------------------------------------
(* The ends of downloads.                                                  *)

\* A page that comes in is stored, and the oldest leave the cache for it.
LEMMA EvictedIs ==
    ASSUME NEW held \in Seq(PageNo)
    PROVE  Evicted(held) \in Seq(PageNo)
PROOF
<1> DEFINE bytes(n) == Bytes(SubSeq(held, n + 1, Len(held))) <= Budget
           fits(n) == n = Len(held) \/ (Len(held) - n <= Capacity /\ bytes(n))
           I == {k \in 1 .. Len(held) + 1 : fits(k - 1)}
           n == CHOOSE m \in 0 .. Len(held) : fits(m) /\ \A k \in 0 .. m - 1 : ~fits(k)
<1>1. Len(held) \in Nat /\ Len(held) + 1 \in Nat /\ I \subseteq 1 .. Len(held) + 1
  OBVIOUS
<1>2. Len(held) + 1 \in I
  BY <1>1
<1>3. PICK l : l = Min(I)
  OBVIOUS
<1>4. l \in I /\ \A j \in I : l <= j
  <2> HIDE DEF I
  <2> QED
    BY <1>1, <1>2, <1>3, LeastExists
<1>5. l - 1 \in 0 .. Len(held) /\ fits(l - 1) /\ \A k \in 0 .. (l - 1) - 1 : ~fits(k)
  <2> HIDE DEF bytes
  <2>1. l \in 1 .. Len(held) + 1 /\ fits(l - 1)
    BY <1>4
  <2>2. ASSUME NEW k \in 0 .. (l - 1) - 1, fits(k)
        PROVE  FALSE
    <3>1. k + 1 \in 1 .. Len(held) + 1 /\ (k + 1) - 1 = k /\ k + 1 < l
      BY <1>1, <2>1
    <3>2. k + 1 \in I
      <4> HIDE DEF fits
      <4> QED
        BY <2>2, <3>1
    <3> QED
      BY <1>1, <1>4, <2>1, <3>1, <3>2
  <2> QED
    BY <1>1, <2>1, <2>2
<1>6. n \in 0 .. Len(held)
  <2> HIDE DEF fits
  <2>1. \E m \in 0 .. Len(held) : fits(m) /\ \A k \in 0 .. m - 1 : ~fits(k)
    BY <1>5
  <2> QED
    BY <2>1
<1>7. Evicted(held) = SubSeq(held, n + 1, Len(held))
  BY DEF Evicted
<1> HIDE DEF n
<1> QED
  BY <1>1, <1>6, <1>7, SubSeqProperties

LEMMA StoredIs ==
    ASSUME NEW c \in CacheSet, NEW p \in PageNo, NEW d, d = Stored(c, p)
    PROVE  /\ d \in CacheSet /\ d.tasks = c.tasks /\ d.replaced = c.replaced
           /\ d.marks[p] = "done"
PROOF
<1>1. PICK h, m : /\ h = IF Size[p] <= Budget THEN Evicted(Append(Others(c.cache, p), p)) ELSE c.cache
                  /\ m = [c.marks EXCEPT ![p] = "done"]
  OBVIOUS
<1>2. c.cache \in Seq(PageNo) /\ c.marks \in [PageNo -> {"none", "done", "failed"}]
  BY DEF CacheSet
<1>3. h \in Seq(PageNo)
  <2>1. Append(Others(c.cache, p), p) \in Seq(PageNo)
    BY <1>2, OthersIs
  <2> QED
    BY <1>1, <1>2, <2>1, EvictedIs
<1>4. m \in [PageNo -> {"none", "done", "failed"}] /\ m[p] = "done"
  BY <1>1, <1>2
<1>5. d = [c EXCEPT !.cache = h, !.marks = m]
  BY <1>1 DEF Stored, CacheSet
<1> QED
  BY <1>3, <1>4, <1>5 DEF CacheSet

\* A download that ends answers whoever waits for it, and only them.
LEMMA EndedKeeps ==
    ASSUME Inv, ~closed, UNCHANGED <<closed, page>>,
           NEW i \in Started(pages), NEW t, t = pages.tasks[i],
           NEW e \in CacheSet, e.tasks = pages.tasks, e.replaced = pages.replaced,
           t.aborted \/ e.marks[t.page] # "none",
           pages' = Without(e, i), want' = Answered(t.waiters)
    PROVE  /\ PagesOK' /\ WantsOK' /\ Lasts
           /\ \A r \in Requester : /\ r \in t.waiters => want'[r] = -1
                                   /\ r \notin t.waiters => want'[r] = want[r]
PROOF
<1>1. i \in DOMAIN pages.tasks /\ Sound(pages) /\ pages \in CacheSet
  BY DEF Started, Inv, PagesOK
<1>2. t \in TaskSet /\ t.page \in PageNo
  <2>1. t \in TaskSet
    BY <1>1 DEF CacheSet
  <2> QED
    BY <2>1 DEF TaskSet
<1>3. /\ Sound(e) /\ \A q, x : WaitsAt(e, q, x) <=> WaitsAt(pages, q, x)
      /\ \A x : Carries(pages, e, x)
  BY <1>1, TasksSame
<1>4. PICK d : d = pages'
  OBVIOUS
<1>5. /\ Sound(d) /\ Served(d)
      /\ \A q \in Requester, x \in PageNo : WaitsAt(d, q, x) <=> WaitsAt(e, q, x) /\ x # t.page
      /\ \A x \in PageNo : x # t.page => Carries(e, d, x)
      /\ d.marks[t.page] = e.marks[t.page]
  <2>1. i \in DOMAIN e.tasks /\ e.tasks[i] = t /\ d = Without(e, i)
    BY <1>1, <1>4
  <2> QED
    BY <1>3, <2>1, EndKeeps
<1>6. want \in Wants /\ Ties(pages, want) /\ want["view"] \in {-1, page} /\ "view" \in Requester
  BY DEF Inv, WantsOK, Requester
<1>7. \A r \in Requester : r \in t.waiters <=> WaitsAt(pages, r, t.page)
  <2>1. Single(pages)
    BY <1>1 DEF Sound
  <2> QED
    BY <1>1, <2>1 DEF Single, WaitsAt
<1>8. \A r \in Requester : r \in t.waiters <=> want[r] = t.page
  BY <1>2, <1>6, <1>7 DEF Ties
<1>9. /\ want' \in Wants
      /\ \A r \in Requester : /\ r \in t.waiters => want'[r] = -1
                              /\ r \notin t.waiters => want'[r] = want[r]
  BY <1>6 DEF Answered, Wants
<1>10. Ties(d, want')
  <2>1. SUFFICES ASSUME NEW r \in Requester, NEW x \in PageNo
                 PROVE  WaitsAt(d, r, x) <=> want'[r] = x
    BY DEF Ties
  <2>2. WaitsAt(d, r, x) <=> want[r] = x /\ x # t.page
    BY <1>3, <1>5, <1>6 DEF Ties
  <2>3. CASE r \in t.waiters
    BY <1>8, <1>9, <2>2, <2>3, Numbers
  <2>4. CASE r \notin t.waiters
    BY <1>8, <1>9, <2>2, <2>4
  <2> QED
    BY <2>3, <2>4
<1>11. PagesOK' /\ WantsOK'
  BY <1>4, <1>5, <1>6, <1>9, <1>10 DEF PagesOK, WantsOK, Sound
<1>12. \A x \in PageNo : GoesOn(pages, d, want', x)
  <2>1. TAKE x \in PageNo
  <2>2. CASE x = t.page
    BY <1>1, <1>5, <2>2 DEF GoesOn
  <2>3. CASE x # t.page
    <3>1. Carries(pages, d, x)
      BY <1>1, <1>3, <1>5, <2>3, CarriesThrough DEF Sound
    <3> QED
      BY <3>1 DEF GoesOn
  <2> QED
    BY <2>2, <2>3
<1>13. Lasts
  BY <1>4, <1>12 DEF Lasts
<1> QED
  BY <1>9, <1>11, <1>13

LEMMA LoadedKeeps ==
    ASSUME Inv, NEW i, Loaded(i)
    PROVE  Inv' /\ Lasts
PROOF
<1>1. PICK t, e : t = pages.tasks[i] /\ e = Stored(pages, t.page)
  OBVIOUS
<1>2. /\ ~closed /\ i \in Started(pages) /\ pages' = Without(e, i) /\ want' = Answered(t.waiters)
      /\ image' = IF "view" \in t.waiters THEN "got" ELSE image
      /\ UNCHANGED <<closed, page, warming, halted, rapid, turning, visible>>
  BY <1>1 DEF Loaded, Ends
<1>3. pages \in CacheSet /\ t.page \in PageNo
  <2>1. pages \in CacheSet
    BY DEF Inv, PagesOK
  <2>2. t \in TaskSet
    BY <1>1, <1>2, <2>1 DEF CacheSet, Started
  <2> QED
    BY <2>1, <2>2 DEF TaskSet
<1>4. /\ e \in CacheSet /\ e.tasks = pages.tasks /\ e.replaced = pages.replaced
      /\ e.marks[t.page] # "none"
  BY <1>1, <1>3, StoredIs
<1>5. /\ PagesOK' /\ WantsOK' /\ Lasts
      /\ \A r \in Requester : /\ r \in t.waiters => want'[r] = -1
                              /\ r \notin t.waiters => want'[r] = want[r]
  BY <1>1, <1>2, <1>4, EndedKeeps
<1>6. SlotOK' /\ RapidOK'
  <2>1. "view" \in Requester
    BY DEF Requester
  <2>2. SlotOK'
    BY <1>2, <1>5, <2>1 DEF Inv, SlotOK
  <2>3. rapid => "view" \notin t.waiters
    <3>1. \A r \in Requester : r \in t.waiters => WaitsAt(pages, r, t.page)
      BY <1>1, <1>2 DEF WaitsAt, Started
    <3> QED
      BY <1>3, <2>1, <3>1, Numbers DEF Inv, RapidOK, WantsOK, Ties
  <2> QED
    BY <1>2, <1>5, <2>2, <2>3 DEF Inv, RapidOK
<1>7. ViewTypes'
  BY <1>2 DEF Inv, ViewTypes
<1> QED
  BY <1>5, <1>6, <1>7 DEF Inv

LEMMA LoadFailsKeeps ==
    ASSUME Inv, NEW i, NEW fatal \in BOOLEAN, LoadFails(i, fatal)
    PROVE  Inv' /\ Lasts
PROOF
<1>1. PICK t, m, e, stops :
        /\ t = pages.tasks[i] /\ m = [pages.marks EXCEPT ![t.page] = "failed"]
        /\ e = [pages EXCEPT !.marks = m] /\ stops = (fatal /\ "warm" \in t.waiters)
  OBVIOUS
<1>2. /\ ~closed /\ i \in Started(pages)
      /\ image' = IF "view" \in t.waiters THEN "failed" ELSE image
      /\ UNCHANGED <<closed, page, rapid, turning, visible>>
      /\ want' = Answered(t.waiters) /\ pages' = Without([pages EXCEPT !.marks[t.page] = "failed"], i)
  BY <1>1 DEF LoadFails, Ends
<1>3. pages \in CacheSet /\ t.page \in PageNo /\ pages.marks \in [PageNo -> {"none", "done", "failed"}]
  <2>1. pages \in CacheSet
    BY DEF Inv, PagesOK
  <2>2. t \in TaskSet
    BY <1>1, <1>2, <2>1 DEF CacheSet, Started
  <2> QED
    BY <2>1, <2>2 DEF TaskSet, CacheSet
<1>4. /\ e \in CacheSet /\ e.tasks = pages.tasks /\ e.replaced = pages.replaced
      /\ e.marks[t.page] # "none" /\ pages' = Without(e, i)
  <2>1. m \in [PageNo -> {"none", "done", "failed"}] /\ m[t.page] = "failed"
    BY <1>1, <1>3
  <2>2. e = [pages EXCEPT !.marks[t.page] = "failed"]
    BY <1>1, <1>3 DEF CacheSet
  <2>3. e \in CacheSet /\ e.tasks = pages.tasks /\ e.replaced = pages.replaced /\ e.marks = m
    BY <1>1, <1>3, <2>1 DEF CacheSet
  <2> QED
    BY <1>2, <2>1, <2>2, <2>3
<1>5. /\ PagesOK' /\ WantsOK' /\ Lasts
      /\ \A r \in Requester : /\ r \in t.waiters => want'[r] = -1
                              /\ r \notin t.waiters => want'[r] = want[r]
  BY <1>1, <1>2, <1>4, EndedKeeps
<1>6. warming' \in Seq(PageNo) /\ (warming' = <<>> \/ warming' = warming) /\ halted' \in BOOLEAN
  <2>1. warming \in Seq(PageNo) /\ <<>> \in Seq(PageNo) /\ halted \in BOOLEAN
    BY DEF Inv, ViewTypes
  <2>2. warming' = <<>> \/ warming' = warming
    BY DEF LoadFails
  <2>3. halted' \in BOOLEAN
    BY DEF LoadFails
  <2> QED
    BY <2>1, <2>2, <2>3
<1>7. SlotOK' /\ RapidOK'
  <2>1. "view" \in Requester
    BY DEF Requester
  <2>2. SlotOK'
    BY <1>2, <1>5, <2>1 DEF Inv, SlotOK
  <2>3. rapid => "view" \notin t.waiters
    <3>1. \A r \in Requester : r \in t.waiters => WaitsAt(pages, r, t.page)
      BY <1>1, <1>2 DEF WaitsAt, Started
    <3> QED
      BY <1>3, <2>1, <3>1, Numbers DEF Inv, RapidOK, WantsOK, Ties
  <2> QED
    BY <1>2, <1>5, <1>6, <2>2, <2>3 DEF Inv, RapidOK
<1>8. ViewTypes'
  BY <1>2, <1>6 DEF Inv, ViewTypes
<1> QED
  BY <1>5, <1>7, <1>8 DEF Inv

LEMMA AbortedEndsKeeps ==
    ASSUME Inv, NEW i, AbortedEnds(i)
    PROVE  Inv' /\ Lasts
PROOF
<1>1. PICK t : t = pages.tasks[i]
  OBVIOUS
<1>2. /\ ~closed /\ i \in Started(pages) /\ t.aborted /\ pages' = Without(pages, i)
      /\ UNCHANGED <<closed, page, want, image, warming, halted, rapid, turning, visible>>
  BY <1>1 DEF AbortedEnds, Ends
<1>3. pages \in CacheSet /\ t.waiters = {}
  BY <1>1, <1>2 DEF Inv, PagesOK, Sound, TaskOK, Started
<1>4. want' = Answered(t.waiters)
  <2>1. want = [r \in Requester |-> want[r]]
    BY DEF Inv, WantsOK, Wants
  <2> QED
    BY <1>2, <1>3, <2>1 DEF Answered
<1>5. PICK e : e = pages
  OBVIOUS
<1>6. e \in CacheSet /\ e.tasks = pages.tasks /\ e.replaced = pages.replaced /\ pages' = Without(e, i)
  BY <1>2, <1>3, <1>5
<1>7. PagesOK' /\ WantsOK' /\ Lasts
  BY <1>1, <1>2, <1>4, <1>6, EndedKeeps
<1>8. SlotOK' /\ RapidOK' /\ ViewTypes'
  BY <1>2 DEF Inv, SlotOK, RapidOK, ViewTypes
<1> QED
  BY <1>7, <1>8 DEF Inv

\* A load that was replaced ends, which makes room for another.
LEMMA ReplacedEndsKeeps ==
    ASSUME Inv, ReplacedEnds
    PROVE  Inv' /\ Lasts
PROOF
<1>1. /\ pages \in CacheSet /\ pages.replaced \in Seq(TaskSet) /\ pages.replaced # <<>>
      /\ UNCHANGED <<closed, page, want, image, warming, halted, rapid, turning, visible>>
  BY DEF Inv, PagesOK, CacheSet, ReplacedEnds
<1>2. PICK s, e : s = Tail(pages.replaced) /\ e = [pages EXCEPT !.replaced = s]
  OBVIOUS
<1>3. /\ s \in Seq(TaskSet) /\ Len(s) = Len(pages.replaced) - 1 /\ Len(pages.replaced) \in Nat \ {0}
      /\ DOMAIN s = 1 .. Len(pages.replaced) - 1
      /\ \A k \in 1 .. Len(pages.replaced) - 1 : s[k] = pages.replaced[k + 1]
  BY <1>1, <1>2, HeadTailProperties
<1>4. e \in CacheSet /\ e.tasks = pages.tasks /\ e.replaced = s
  BY <1>1, <1>2, <1>3 DEF CacheSet
<1>5. pages' = IF closed THEN e ELSE Pump(e)
  BY <1>1, <1>2 DEF ReplacedEnds, CacheSet
<1>6. \A x : Cardinality(Replaced(e, x)) <= Cardinality(Replaced(pages, x))
  <2>1. TAKE x
  <2>2. PICK n, j, S, U : /\ n = Len(pages.replaced) /\ j = 1 /\ S = Replaced(pages, x)
                          /\ U = Replaced(e, x)
    OBVIOUS
  <2>3. n \in Nat /\ j \in 1 .. n /\ S \subseteq 1 .. n
    BY <1>1, <1>3, <2>2 DEF Replaced
  <2>4. U = {k \in 1 .. n - 1 : IF k < j THEN k \in S ELSE k + 1 \in S}
    BY <1>1, <1>3, <1>4, <2>2 DEF Replaced
  <2>5. Cardinality(U) = Cardinality(S \ {j}) /\ Cardinality(U) \in Nat
    BY <2>3, <2>4, ClosedUp
  <2>6. IsFiniteSet(S) /\ Cardinality(S) \in Nat
    BY <1>1, <2>2, ReplacedFinite
  <2>7. Cardinality(S \ {j}) <= Cardinality(S)
    BY <2>6, FS_Subset
  <2> QED
    BY <2>2, <2>5, <2>7
<1>7. CASE closed
  <2>1. pages' = e /\ pages.tasks = <<>>
    BY <1>5, <1>7 DEF Inv, PagesOK
  <2>2. PagesOK' /\ WantsOK'
    BY <1>1, <1>4, <1>7, <2>1 DEF Inv, PagesOK, WantsOK, Ties, WaitsAt
  <2>3. SlotOK' /\ RapidOK' /\ ViewTypes'
    BY <1>1 DEF Inv, SlotOK, RapidOK, ViewTypes
  <2> QED
    BY <1>1, <1>7, <2>2, <2>3 DEF Inv, Lasts
<1>8. CASE ~closed
  <2>1. Sound(pages) /\ Started(e) = Started(pages)
    BY <1>4, <1>8 DEF Inv, PagesOK, Started
  <2>2. Active(e) <= 2
    <3>1. /\ Active(pages) = Cardinality(Started(pages)) + Len(pages.replaced)
          /\ Active(e) = Cardinality(Started(e)) + Len(e.replaced)
          /\ Cardinality(Started(pages)) \in Nat
      BY <1>1, <1>4, StartedFinite
    <3> QED
      BY <1>3, <1>4, <2>1, <3>1 DEF Sound
  <2>3. \A q, x : WaitsAt(e, q, x) <=> WaitsAt(pages, q, x)
    BY <1>4 DEF WaitsAt
  <2>4. Sound(e)
    <3>1. Single(e) /\ OneWarm(e) /\ Once(e)
      BY <1>4, <2>1, <2>3 DEF Sound, Single, OneWarm, Once
    <3> QED
      BY <1>4, <2>1, <2>2, <3>1 DEF Sound
  <2>5. \A x \in PageNo : Carries(pages, e, x)
    <3>1. \A x : Loading(pages, x) => Loading(e, x)
      BY <1>4, <2>1 DEF Loading
    <3> QED
      BY <1>6, <3>1 DEF Carries
  <2>6. PICK d : d = pages' /\ d = Pump(e)
    BY <1>5, <1>8
  <2>7. Sound(d) /\ Served(d) /\ Alike(e, d)
    BY <2>4, <2>6, PumpKeeps
  <2>8. \A x \in PageNo : Carries(pages, d, x)
    BY <1>1, <1>4, <2>5, <2>7, CarriesThrough DEF Sound, Alike
  <2>9. PagesOK' /\ WantsOK'
    BY <1>1, <1>8, <2>3, <2>6, <2>7 DEF Inv, PagesOK, WantsOK, Ties, Sound, Alike
  <2>10. SlotOK' /\ RapidOK' /\ ViewTypes'
    BY <1>1 DEF Inv, SlotOK, RapidOK, ViewTypes
  <2> QED
    BY <2>6, <2>8, <2>9, <2>10 DEF Inv, Lasts, GoesOn
<1> QED
  BY <1>7, <1>8

\* A task that was left for a while is aborted.
LEMMA ExpireKeeps ==
    ASSUME Inv, NEW i, Expire(i)
    PROVE  Inv' /\ Lasts
PROOF
<1>1. /\ ~closed /\ i \in Started(pages) /\ i \in DOMAIN pages.tasks /\ pages.tasks[i].started
      /\ pages.tasks[i].expiring
      /\ UNCHANGED <<closed, page, want, image, warming, halted, rapid, turning, visible>>
  BY DEF Expire, Ends, Started
<1>2. Sound(pages) /\ Served(pages) /\ pages \in CacheSet /\ pages.tasks \in Seq(TaskSet)
  BY <1>1 DEF Inv, PagesOK, CacheSet
<1>3. PICK u, t, d : /\ u = pages.tasks[i] /\ d = pages'
                     /\ t = [u EXCEPT !.expiring = FALSE, !.aborted = TRUE]
  OBVIOUS
<1>4. u \in TaskSet /\ u.waiters = {} /\ u.started /\ u.expiring
  BY <1>1, <1>2, <1>3 DEF Sound, TaskOK
<1>5. /\ t \in TaskSet /\ t.page = u.page /\ t.started /\ t.waiters = {} /\ t.aborted
      /\ t.background = u.background /\ u.page \in PageNo
  BY <1>3, <1>4 DEF TaskSet
<1>6. d = [pages EXCEPT !.tasks = [pages.tasks EXCEPT ![i] = t]]
  BY <1>1, <1>2, <1>3, <1>4 DEF Expire, CacheSet, TaskSet
<1>7. /\ d.tasks = [pages.tasks EXCEPT ![i] = t] /\ d.replaced = pages.replaced
      /\ DOMAIN d.tasks = DOMAIN pages.tasks /\ d.tasks[i] = t
      /\ \A k \in DOMAIN pages.tasks : k # i => d.tasks[k] = pages.tasks[k]
  BY <1>1, <1>2, <1>6 DEF CacheSet
<1>8. d \in CacheSet
  <2>1. [pages.tasks EXCEPT ![i] = t] \in Seq(TaskSet)
    BY <1>1, <1>2, <1>5
  <2> QED
    BY <1>2, <1>6, <2>1 DEF CacheSet
<1>9. \A k \in DOMAIN pages.tasks :
         /\ d.tasks[k].page = pages.tasks[k].page /\ d.tasks[k].waiters = pages.tasks[k].waiters
         /\ d.tasks[k].background = pages.tasks[k].background
         /\ d.tasks[k].started = pages.tasks[k].started
  BY <1>3, <1>4, <1>5, <1>7
<1>10. Started(d) = Started(pages)
  BY <1>7, <1>9 DEF Started
<1>11. \A q, x : WaitsAt(d, q, x) <=> WaitsAt(pages, q, x)
  BY <1>7, <1>9 DEF WaitsAt
<1>12. Active(d) = Active(pages)
  BY <1>7, <1>10 DEF Active
<1>13. Sound(d) /\ Served(d)
  <2>1. Single(d) /\ OneWarm(d)
    BY <1>2, <1>7, <1>9, <1>10 DEF Sound, Single, OneWarm, Started
  <2>2. Once(d)
    BY <1>2, <1>11 DEF Sound, Once
  <2>3. \A k \in DOMAIN d.tasks : TaskOK(d.tasks[k])
    <3>1. TaskOK(t)
      BY <1>5 DEF TaskOK
    <3> QED
      BY <1>2, <1>7, <3>1 DEF Sound
  <2>4. Served(d)
    BY <1>2, <1>7, <1>9, <1>12 DEF Served
  <2> QED
    BY <1>2, <1>8, <1>12, <2>1, <2>2, <2>3, <2>4 DEF Sound
<1>14. \A x \in PageNo : GoesOn(pages, d, want', x)
  <2>1. TAKE x \in PageNo
  <2>2. CASE x = u.page
    <3>1. \A r \in Requester : ~WaitsAt(pages, r, x)
      <4>1. Single(pages)
        BY <1>2 DEF Sound
      <4> QED
        BY <1>1, <1>3, <1>4, <2>2, <4>1 DEF Single, WaitsAt
    <3>2. \A r \in Requester : want'[r] # x
      BY <1>1, <3>1 DEF Inv, WantsOK, Ties
    <3> QED
      BY <1>1, <1>3, <2>2, <3>2 DEF GoesOn
  <2>3. CASE x # u.page
    <3>1. Loading(pages, x) => Loading(d, x)
      BY <1>3, <1>7, <1>10, <2>3 DEF Loading, Started
    <3>2. Replaced(d, x) = Replaced(pages, x) /\ Cardinality(Replaced(pages, x)) \in Nat
      BY <1>2, <1>7, ReplacedFinite DEF Replaced
    <3> QED
      BY <3>1, <3>2 DEF GoesOn, Carries
  <2> QED
    BY <2>2, <2>3
<1>15. PagesOK' /\ WantsOK'
  BY <1>1, <1>3, <1>11, <1>13 DEF Inv, PagesOK, WantsOK, Ties, Sound
<1>16. SlotOK' /\ RapidOK' /\ ViewTypes'
  BY <1>1 DEF Inv, SlotOK, RapidOK, ViewTypes
<1> QED
  BY <1>3, <1>14, <1>15, <1>16 DEF Inv, Lasts

LEMMA DisposeKeeps ==
    ASSUME Inv, Dispose
    PROVE  Inv' /\ Lasts
PROOF
<1>1. /\ closed' = TRUE /\ want' = [r \in Requester |-> -1] /\ warming' = <<>> /\ image' = "off"
      /\ UNCHANGED <<page, halted, rapid, turning, visible>>
  BY DEF Dispose
<1>2. PICK s, m, d : /\ s = pages.replaced \o Picked(pages.tasks, Started(pages))
                     /\ m = [p \in PageNo |-> "none"] /\ d = pages'
  OBVIOUS
<1>3. s \in Seq(TaskSet)
  <2>1. /\ pages \in CacheSet /\ pages.tasks \in Seq(TaskSet) /\ pages.replaced \in Seq(TaskSet)
        /\ Started(pages) \subseteq DOMAIN pages.tasks
    BY DEF Inv, PagesOK, CacheSet, Started
  <2>2. Picked(pages.tasks, Started(pages)) \in Seq(TaskSet)
    BY <2>1, PickedIs
  <2> QED
    BY <1>2, <2>1, <2>2
<1>4. m \in [PageNo -> {"none", "done", "failed"}] /\ <<>> \in Seq(TaskSet) /\ <<>> \in Seq(PageNo)
  BY <1>2
<1>5. d = [tasks |-> <<>>, cache |-> <<>>, marks |-> m, replaced |-> s]
  BY <1>2 DEF Dispose
<1>6. d \in CacheSet /\ d.tasks = <<>>
  BY <1>3, <1>4, <1>5 DEF CacheSet
<1>7. PagesOK'
  BY <1>1, <1>2, <1>6 DEF PagesOK
<1>8. WantsOK'
  <2>1. "view" \in Requester
    BY DEF Requester
  <2>2. want' \in Wants /\ want'["view"] = -1
    BY <1>1, <2>1 DEF Wants
  <2>3. Ties(d, want')
    BY <1>1, <1>6, Numbers DEF Ties, WaitsAt
  <2> QED
    BY <1>2, <2>2, <2>3 DEF WantsOK
<1>9. SlotOK' /\ RapidOK' /\ ViewTypes'
  <2>1. "view" \in Requester /\ <<>> \in Seq(PageNo)
    BY DEF Requester
  <2> QED
    BY <1>1, <2>1 DEF Inv, SlotOK, RapidOK, ViewTypes
<1> QED
  BY <1>1, <1>7, <1>8, <1>9 DEF Inv, Lasts

LEMMA InitInv ==
    ASSUME Init
    PROVE  Inv
PROOF
<1>1. PICK a, m, r, v, p, bg :
        /\ m = [x \in PageNo |-> "none"] /\ r = "reserve" /\ v = "view" /\ p = 0 /\ bg = FALSE
        /\ a = [tasks |-> <<>>, replaced |-> <<>>, cache |-> <<>>, marks |-> m]
  OBVIOUS
<1>2. PICK b, c : b = Get(a, r, p, bg) /\ c = Get(b, v, p, bg)
  OBVIOUS
<1>3. /\ pages = c /\ closed = FALSE /\ page = 0
      /\ want = [q \in Requester |-> IF q = "warm" THEN -1 ELSE 0]
      /\ image = "waiting" /\ warming = Nearby(0)
      /\ halted = FALSE /\ rapid = FALSE /\ turning = FALSE /\ visible = TRUE
  BY <1>1, <1>2 DEF Init
<1>4. /\ p \in PageNo /\ r \in Requester /\ v \in Requester /\ bg \in BOOLEAN
      /\ (bg => r = "warm") /\ (bg => v = "warm") /\ r # v
      /\ Requester = {r, v, "warm"} /\ "warm" # r /\ "warm" # v
  BY <1>1, Numbers DEF Requester
<1>5. a \in CacheSet /\ a.tasks = <<>> /\ a.replaced = <<>> /\ a.cache = <<>>
  <2>1. m \in [PageNo -> {"none", "done", "failed"}] /\ <<>> \in Seq(TaskSet) /\ <<>> \in Seq(PageNo)
    BY <1>1
  <2> QED
    BY <1>1, <2>1 DEF CacheSet
<1>6. Started(a) = {} /\ \A q, x : ~WaitsAt(a, q, x)
  BY <1>5 DEF Started, WaitsAt
<1>7. Sound(a) /\ Served(a)
  <2>1. Active(a) <= 2
    <3>1. Active(a) = Cardinality(Started(a)) + Len(a.replaced)
      BY <1>5, StartedFinite
    <3> QED
      BY <1>5, <1>6, <3>1, FS_EmptySet
  <2>2. Single(a) /\ Once(a) /\ OneWarm(a) /\ Served(a)
    BY <1>5, <1>6 DEF Single, Once, OneWarm, Served
  <2> QED
    BY <1>5, <2>1, <2>2 DEF Sound
<1>8. ~Contains(a.cache, p)
  BY <1>5 DEF Contains
<1>9. /\ Sound(b) /\ Served(b)
      /\ \A q \in Requester \ {r}, x \in PageNo : ~WaitsAt(b, q, x)
      /\ \A x \in PageNo : WaitsAt(b, r, x) <=> x = p
      /\ b.cache = a.cache
  <2>1. /\ Sound(b) /\ Served(b)
        /\ \A q \in Requester \ {r}, x \in PageNo : WaitsAt(b, q, x) <=> WaitsAt(a, q, x)
        /\ \A x \in PageNo : WaitsAt(b, r, x) => x = p
        /\ ~Contains(a.cache, p) => WaitsAt(b, r, p) /\ b.cache = a.cache
    BY <1>2, <1>4, <1>6, <1>7, GetKeeps
  <2> QED
    BY <1>6, <1>8, <2>1
<1>10. /\ Sound(c) /\ Served(c)
       /\ \A q \in Requester \ {v}, x \in PageNo : WaitsAt(c, q, x) <=> WaitsAt(b, q, x)
       /\ \A x \in PageNo : WaitsAt(c, v, x) <=> x = p
  <2>1. \A x \in PageNo : ~WaitsAt(b, v, x)
    BY <1>4, <1>9
  <2>2. /\ Sound(c) /\ Served(c)
        /\ \A q \in Requester \ {v}, x \in PageNo : WaitsAt(c, q, x) <=> WaitsAt(b, q, x)
        /\ \A x \in PageNo : WaitsAt(c, v, x) => x = p
        /\ ~Contains(b.cache, p) => WaitsAt(c, v, p)
    BY <1>2, <1>4, <1>9, <2>1, GetKeeps
  <2> QED
    BY <1>8, <1>9, <2>2
<1>11. want \in Wants /\ want[r] = p /\ want[v] = p /\ want["warm"] = -1
  BY <1>1, <1>3, <1>4 DEF Wants
<1>12. Ties(c, want)
  <2>1. SUFFICES ASSUME NEW q \in Requester, NEW x \in PageNo
                 PROVE  WaitsAt(c, q, x) <=> want[q] = x
    BY DEF Ties
  <2>2. CASE q = r
    BY <1>4, <1>9, <1>10, <1>11, <2>2
  <2>3. CASE q = v
    BY <1>10, <1>11, <2>3
  <2>4. CASE q = "warm"
    BY <1>4, <1>9, <1>10, <1>11, <2>4, Numbers
  <2> QED
    BY <1>4, <2>2, <2>3, <2>4
<1>13. PagesOK /\ WantsOK
  BY <1>1, <1>3, <1>10, <1>11, <1>12 DEF PagesOK, WantsOK, Sound
<1>14. SlotOK /\ RapidOK
  BY <1>1, <1>3, <1>4, <1>11, Numbers DEF SlotOK, RapidOK
<1>15. ViewTypes
  <2>1. warming \in Seq(PageNo)
    BY <1>1, <1>3, <1>4, NearbyIs
  <2> QED
    BY <1>1, <1>3, <1>4, <2>1 DEF ViewTypes
<1> QED
  BY <1>13, <1>14, <1>15 DEF Inv

-----------------------------------------------------------------------------
(* The theorems.                                                           *)

LEMMA NextKeeps ==
    ASSUME Inv, Next
    PROVE  Inv' /\ Lasts
PROOF
<1>1. CASE Network
  BY <1>1, LoadedKeeps, AbortedEndsKeeps, ExpireKeeps, LoadFailsKeeps, ReplacedEndsKeeps
     DEF Network
<1>2. CASE Viewer
  BY <1>2, SettleKeeps, WarmNextKeeps, DecodedKeeps, DecodeFailsKeeps, RetryImageKeeps,
     RetryWarmingKeeps DEF Viewer
<1>3. CASE Reader
  BY <1>3, TurnKeeps, VisibilityKeeps, DisposeKeeps DEF Reader
<1> QED
  BY <1>1, <1>2, <1>3 DEF Next

LEMMA StutterKeeps ==
    ASSUME Inv, UNCHANGED vars
    PROVE  Inv'
PROOF
<1>1. UNCHANGED <<pages, closed, page, want, image, warming, halted, rapid, turning, visible>>
  BY DEF vars
<1>2. PagesOK' /\ WantsOK'
  BY <1>1 DEF Inv, PagesOK, WantsOK, Ties
<1>3. SlotOK' /\ RapidOK' /\ ViewTypes'
  BY <1>1 DEF Inv, SlotOK, RapidOK, ViewTypes
<1> QED
  BY <1>2, <1>3 DEF Inv

\* In every state the requesters' pages are those of their tasks, no page has two, and pump()
\* has started what it can: what each operation of Pages and each effect of the viewers keeps.
THEOREM PageCacheInv == Spec => []Inv
PROOF
<1>1. Inv /\ [Next]_vars => Inv'
  BY NextKeeps, StutterKeeps
<1> QED
  BY <1>1, InitInv, PTL DEF Spec

LEMMA InvTypes ==
    ASSUME Inv
    PROVE  TypeOK
PROOF
<1>1. pages \in CacheSet
  BY DEF Inv, PagesOK
<1>2. \A i \in DOMAIN pages.tasks :
        pages.tasks[i].page \in PageNo /\ pages.tasks[i].waiters \subseteq Requester
  <2>1. TAKE i \in DOMAIN pages.tasks
  <2>2. pages.tasks[i] \in TaskSet
    BY <1>1 DEF CacheSet
  <2> QED
    BY <2>2 DEF TaskSet
<1>3. ToSet(pages.cache) \subseteq PageNo /\ pages.marks \in [PageNo -> {"none", "done", "failed"}]
  BY <1>1 DEF CacheSet, ToSet
<1>4. /\ page \in PageNo /\ warming \in Seq(PageNo)
      /\ <<closed, halted, rapid, turning, visible>> \in [1 .. 5 -> BOOLEAN]
  BY DEF Inv, ViewTypes
<1>5. /\ want \in [Requester -> PageNo \cup {-1}]
      /\ image \in {"off", "waiting", "got", "shown", "failed"}
  BY DEF Inv, WantsOK, Wants, SlotOK
<1> QED
  BY <1>2, <1>3, <1>4, <1>5 DEF TypeOK

\* Every request for a page is answered by one live download of it, however downloads are
\* shared, left, aborted and replaced; the reader's pages come before those of the warm-up,
\* which never takes both downloads; pages flipped past are not asked for.
THEOREM RequestsServedTheorem == Spec => []RequestsServed
PROOF
<1>1. ASSUME Inv
      PROVE  NoLostWaiter
  <2>1. SUFFICES ASSUME NEW r \in Requester, want[r] # -1
                 PROVE  \E i \in DOMAIN pages.tasks :
                          /\ pages.tasks[i].page = want[r] /\ r \in pages.tasks[i].waiters
                          /\ ~pages.tasks[i].aborted
                          /\ \A j \in DOMAIN pages.tasks \ {i} : pages.tasks[j].page # want[r]
    BY DEF NoLostWaiter
  <2>2. want[r] \in PageNo
    BY <1>1, <2>1 DEF Inv, WantsOK, Wants
  <2>3. WaitsAt(pages, r, want[r])
    BY <1>1, <2>2 DEF Inv, WantsOK, Ties
  <2>4. PICK i \in DOMAIN pages.tasks : r \in pages.tasks[i].waiters /\ pages.tasks[i].page = want[r]
    BY <2>3 DEF WaitsAt
  <2>5. Sound(pages)
    BY <1>1, <2>4 DEF Inv, PagesOK
  <2>6. ~pages.tasks[i].aborted
    BY <2>4, <2>5 DEF Sound, TaskOK
  <2>7. \A j \in DOMAIN pages.tasks \ {i} : pages.tasks[j].page # want[r]
    BY <2>4, <2>5 DEF Sound, Single
  <2> QED
    BY <2>4, <2>6, <2>7
<1>2. ASSUME Inv
      PROVE  ReaderFirst
  <2>1. CASE closed
    <3>1. Started(pages) = {} /\ DOMAIN pages.tasks = {}
      BY <1>2, <2>1 DEF Inv, PagesOK, Started
    <3>2. {i \in Started(pages) : pages.tasks[i].background} = {}
      BY <3>1
    <3> QED
      BY <2>1, <3>1, <3>2, FS_EmptySet DEF ReaderFirst
  <2>2. CASE ~closed
    <3>1. Sound(pages) /\ Served(pages) /\ pages \in CacheSet
      BY <1>2, <2>2 DEF Inv, PagesOK
    <3>2. PICK S : S = {i \in Started(pages) : pages.tasks[i].background}
      OBVIOUS
    <3>3. Cardinality(S) <= 1
      <4>1. CASE S = {}
        BY <4>1, FS_EmptySet
      <4>2. CASE S # {}
        <5>1. PICK i : i \in S
          BY <4>2
        <5>2. S = {i}
          BY <3>1, <3>2, <5>1 DEF Sound, OneWarm
        <5>3. Cardinality({i}) = 1
          BY FS_Singleton
        <5> QED
          BY <5>2, <5>3
      <4> QED
        BY <4>1, <4>2
    <3> QED
      BY <3>1, <3>2, <3>3 DEF ReaderFirst, Sound, Served
  <2> QED
    BY <2>1, <2>2
<1>3. Inv => RequestsServed
  BY <1>1, <1>2, InvTypes DEF RequestsServed, RapidAsksNothing, Inv, RapidOK
<1> QED
  BY <1>3, PageCacheInv, PTL

\* When nothing is left to run, the reader has its page, or an error to retry: a request that
\* waits is a task to start, and pump() leaves none while it has room.
THEOREM QuietMeansShownTheorem == Spec => []QuietMeansShown
PROOF
<1>1. ASSUME Inv, ~closed, ~Busy, image \notin {"shown", "failed"}
      PROVE  FALSE
  <2>1. /\ Started(pages) = {} /\ pages.replaced = <<>> /\ ~turning /\ image # "got"
        /\ Sound(pages) /\ Served(pages) /\ pages \in CacheSet
    BY <1>1 DEF Busy, Inv, PagesOK
  <2>2. image = "waiting"
    BY <1>1, <2>1 DEF Inv, SlotOK, RapidOK
  <2>3. want["view"] = page /\ page \in PageNo /\ "view" \in Requester
    BY <1>1, <2>2 DEF Inv, SlotOK, WantsOK, ViewTypes, Requester
  <2>4. WaitsAt(pages, "view", page)
    BY <1>1, <2>3 DEF Inv, WantsOK, Ties
  <2>5. PICK i \in DOMAIN pages.tasks : "view" \in pages.tasks[i].waiters
    BY <2>4 DEF WaitsAt
  <2>6. ~pages.tasks[i].started /\ ~pages.tasks[i].background
    BY <2>1, <2>5 DEF Started, Sound, TaskOK
  <2>7. Active(pages) = 2
    BY <2>1, <2>6 DEF Served
  <2>8. Active(pages) = Cardinality(Started(pages)) + Len(pages.replaced)
    BY <2>1, StartedFinite
  <2>9. Active(pages) = 0
    BY <2>1, <2>8, FS_EmptySet
  <2> QED
    BY <2>7, <2>9
<1>2. Inv => QuietMeansShown
  BY <1>1 DEF QuietMeansShown
<1> QED
  BY <1>2, PageCacheInv, PTL

\* A download under way is carried over every turn of the page and every return to it: it is
\* not begun again while it runs, and is given up only when nobody has asked for it for a while.
THEOREM LoadsCarryOverTheorem == Spec => LoadsCarryOver
PROOF
<1> DEFINE Carried ==
      \A i \in Started(pages) :
        LET t == pages.tasks[i]
            wanted == \E r \in Requester : want'[r] = t.page
            ended == pages'.marks[t.page] # "none"
        IN  ~t.aborted /\ ~closed' /\ ~ended /\ (wanted \/ ~t.expiring) =>
              /\ \E j \in Started(pages') : pages'.tasks[j].page = t.page /\ ~pages'.tasks[j].aborted
              /\ Downloads(pages', t.page) <= Downloads(pages, t.page)
<1>1. ASSUME NEW c, Sound(c), NEW p, Loading(c, p)
      PROVE  Downloads(c, p) = 1 + Cardinality(Replaced(c, p))
  <2>1. PICK i \in Started(c) : c.tasks[i].page = p
    BY <1>1 DEF Loading
  <2>2. PICK S : S = {k \in Started(c) : c.tasks[k].page = p}
    OBVIOUS
  <2>3. S = {i}
    BY <1>1, <2>1, <2>2 DEF Sound, Single, Started
  <2>4. Cardinality(S) = 1
    BY <2>3, FS_Singleton
  <2> QED
    BY <2>2, <2>4 DEF Downloads, Replaced
<1>2. ASSUME Inv, Inv', Lasts
      PROVE  Carried
  <2>1. PICK c, d : c = pages /\ d = pages'
    OBVIOUS
  <2>2. SUFFICES ASSUME NEW i \in Started(c), NEW t, t = c.tasks[i], ~t.aborted, ~closed',
                        d.marks[t.page] = "none",
                        (\E r \in Requester : want'[r] = t.page) \/ ~t.expiring
                 PROVE  /\ \E j \in Started(d) : d.tasks[j].page = t.page /\ ~d.tasks[j].aborted
                        /\ Downloads(d, t.page) <= Downloads(c, t.page)
    BY <2>1
  <2>3. c.tasks # <<>> /\ i \in DOMAIN c.tasks
    BY <2>2 DEF Started
  <2>4. Sound(c) /\ c \in CacheSet /\ Sound(d) /\ d \in CacheSet
    BY <1>2, <2>1, <2>2, <2>3 DEF Inv, PagesOK
  <2>5. t.page \in PageNo
    <3>1. t \in TaskSet
      BY <2>2, <2>3, <2>4 DEF CacheSet
    <3> QED
      BY <3>1 DEF TaskSet
  <2>6. GoesOn(c, d, want', t.page)
    BY <1>2, <2>1, <2>2, <2>5 DEF Lasts
  <2>7. \A j \in Started(c) : c.tasks[j].page = t.page => j = i
    BY <2>2, <2>3, <2>4 DEF Sound, Single, Started
  <2>8. Carries(c, d, t.page)
    BY <2>2, <2>6, <2>7 DEF GoesOn
  <2>9. /\ Loading(c, t.page) /\ Loading(d, t.page)
        /\ Cardinality(Replaced(d, t.page)) <= Cardinality(Replaced(c, t.page))
    BY <2>2, <2>8 DEF Loading, Carries
  <2>10. /\ Downloads(c, t.page) = 1 + Cardinality(Replaced(c, t.page))
         /\ Downloads(d, t.page) = 1 + Cardinality(Replaced(d, t.page))
    BY <1>1, <2>4, <2>9
  <2>11. Cardinality(Replaced(c, t.page)) \in Nat /\ Cardinality(Replaced(d, t.page)) \in Nat
    BY <2>4, ReplacedFinite
  <2> QED
    BY <2>9, <2>10, <2>11 DEF Loading
<1>3. Inv /\ Inv' /\ [Next]_vars => [Carried]_vars
  BY <1>2, NextKeeps
<1>4. Spec => [][Inv /\ Inv' /\ [Next]_vars]_vars
  BY PageCacheInv, PTL DEF Spec
<1>5. LoadsCarryOver <=> [][Carried]_vars
  BY DEF LoadsCarryOver
<1> HIDE DEF Carried
<1> QED
  BY <1>3, <1>4, <1>5, PTL
=============================================================================
