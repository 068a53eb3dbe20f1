---------------------------- MODULE ShelfProofs -----------------------------
(***************************************************************************)
(* Theorems about Shelf, for every number of books, of commands and of     *)
(* edits by other devices, and every size of a page: what a bulk action    *)
(* reaches, and what it may change.                                        *)
(***************************************************************************)
EXTENDS Shelf, OrderingProofs, SequenceTheorems, TLAPS

-----------------------------------------------------------------------------
(* The inductive invariant.                                                *)

\* The library knows the last revision another device wrote.
RowSet == [present : BOOLEAN, read : BOOLEAN, rev : Nat]
RowOK ==
    /\ row \in [Book -> RowSet]
    /\ foreign \in [Book -> Nat]
    /\ \A x \in Book : foreign[x] <= row[x].rev
    /\ \A i \in imports : i.book \in Book

\* A book on screen, on its way to it or in a dialog carries the revision it was seen at.
Seen(b) == b = [id |-> b.id, rev |-> b.rev]
SeenOK ==
    /\ \A r \in requests : r.phase = "read" => \A i \in DOMAIN r.books : Seen(r.books[i])
    /\ \A i \in DOMAIN books : Seen(books[i])
    /\ dialog # None => \A b \in dialog.books : Seen(b)
    /\ \A q \in posts : q.read \in BOOLEAN /\ \A b \in q.of.books : Seen(b)

\* What a job expects of its books is what was seen of them; all results are no more than
\* were counted, and none of those that were unticked.
ExpectsSeen(job) ==
    ~job.of.all => \A x \in DOMAIN job.expects : [id |-> x, rev |-> job.expects[x]] \in job.of.books
ExpectsCounted(job) ==
    job.of.all => /\ DOMAIN job.expects \cap job.of.exclude = {}
                  /\ Cardinality(DOMAIN job.expects) <= job.of.total
JobOK(job) ==
    /\ DOMAIN job = {"read", "of", "expects", "pending", "written"}
    /\ job.read \in BOOLEAN
    /\ job.pending \subseteq DOMAIN job.expects
    /\ ExpectsSeen(job) /\ ExpectsCounted(job)
JobsOK ==
    /\ jobs \in Seq(Range(jobs))
    /\ \A j \in DOMAIN jobs : JobOK(jobs[j])

IInv == RowOK /\ SeenOK /\ JobsOK

-----------------------------------------------------------------------------
(* Lemmas.                                                                 *)

\* A sequence stays one when something is appended to it, or one of its elements replaced.
LEMMA Appended ==
    ASSUME NEW s, s \in Seq(Range(s)), NEW e
    PROVE  /\ Append(s, e) \in Seq(Range(Append(s, e)))
           /\ DOMAIN Append(s, e) = DOMAIN s \cup {Len(s) + 1}
           /\ \A i \in DOMAIN s : Append(s, e)[i] = s[i]
           /\ Append(s, e)[Len(s) + 1] = e
           /\ Len(s) + 1 \notin DOMAIN s
PROOF
<1> DEFINE t == Append(s, e)  S == Range(s) \cup {e}
<1>1. s \in Seq(S)
  BY SMT
<1>2. /\ t \in Seq(S) /\ Len(t) = Len(s) + 1
      /\ \A i \in 1 .. Len(s) : t[i] = s[i]
      /\ t[Len(s) + 1] = e
  BY <1>1, AppendProperties
<1>3. DOMAIN s = 1 .. Len(s) /\ Len(s) \in Nat /\ DOMAIN t = 1 .. Len(t)
  BY <1>1, <1>2, LenProperties
<1>4. t \in [1 .. Len(t) -> Range(t)]
  BY <1>2, <1>3, LenProperties DEF Range
<1>5. t \in Seq(Range(t))
  <2> HIDE DEF t
  <2>1. Len(t) \in Nat
    BY <1>2, <1>3
  <2> QED
    BY <1>4, <2>1, SeqDef
<1> QED
  BY <1>2, <1>3, <1>5

LEMMA Replaced ==
    ASSUME NEW s, s \in Seq(Range(s)), NEW j \in DOMAIN s, NEW e
    PROVE  /\ [s EXCEPT ![j] = e] \in Seq(Range([s EXCEPT ![j] = e]))
           /\ DOMAIN [s EXCEPT ![j] = e] = DOMAIN s
PROOF
<1> DEFINE t == [s EXCEPT ![j] = e]
<1>1. DOMAIN s = 1 .. Len(s) /\ Len(s) \in Nat
  BY LenProperties
<1>2. s \in [1 .. Len(s) -> Range(s)]
  BY LenProperties
<1>3. DOMAIN t = DOMAIN s
  BY <1>2
<1>4. t \in [1 .. Len(s) -> Range(t)]
  BY <1>1, <1>2, <1>3 DEF Range
<1>5. t \in Seq(Range(t))
  BY <1>1, <1>4, SeqDef
<1> QED
  BY <1>3, <1>5

LEMMA PageSeen ==
    ASSUME NEW b, NEW p
    PROVE  \A i \in DOMAIN PageOf(b, p) : Seen(PageOf(b, p)[i])
PROOF
<1> DEFINE ids == PageIds(b, p)
<1>1. PageOf(b, p) = [i \in DOMAIN ids |-> [id |-> ids[i], rev |-> row[ids[i]].rev]]
  BY DEF PageOf
<1> HIDE DEF ids
<1> QED
  BY <1>1 DEF Seen

\* A book's personal state is written again.
LEMMA WrittenRow ==
    ASSUME row \in [Book -> RowSet], NEW x \in Book, NEW read \in BOOLEAN
    PROVE  /\ Written(x, read) \in [Book -> RowSet]
           /\ \A y \in Book : y # x => Written(x, read)[y] = row[y]
           /\ Written(x, read)[x].rev = row[x].rev + 1
PROOF
<1> DEFINE new == [present |-> TRUE, read |-> read, rev |-> row[x].rev + 1]
<1>1. row[x].rev + 1 \in Nat
  BY DEF RowSet
<1>2. new \in RowSet
  BY <1>1, Zenon DEF RowSet
<1>3. Written(x, read) = [row EXCEPT ![x] = new]
  BY DEF Written
<1>4. new.rev = row[x].rev + 1
  OBVIOUS
<1> HIDE DEF new
<1> QED
  BY <1>2, <1>3, <1>4

LEMMA RowBounds ==
    ASSUME NEW f \in [Book -> RowSet]
    PROVE  \A y \in Book : f[y].rev \in Nat
PROOF BY DEF RowSet

\* What create_bulk() expects of the books it was given, or finds again.
LEMMA TargetsOK ==
    ASSUME NEW of, RowOK, Expected(of), \A b \in of.books : Seen(b), NEW read \in BOOLEAN
    PROVE  JobOK([read |-> read, of |-> of, expects |-> Targets(of),
                  pending |-> DOMAIN Targets(of), written |-> {}])
PROOF
<1> DEFINE job == [read |-> read, of |-> of, expects |-> Targets(of),
                   pending |-> DOMAIN Targets(of), written |-> {}]
<1>1. ExpectsSeen(job)
  <2>1. SUFFICES ASSUME ~of.all, NEW x \in DOMAIN Targets(of)
                 PROVE  [id |-> x, rev |-> Targets(of)[x]] \in of.books
    BY DEF ExpectsSeen
  <2> DEFINE c == CHOOSE b \in of.books : b.id = x
  <2>2. x \in {b.id : b \in of.books} /\ Targets(of)[x] = c.rev
    BY <2>1 DEF Targets
  <2>3. PICK b \in of.books : b.id = x
    BY <2>2
  <2>4. c \in of.books /\ c.id = x
    BY <2>3
  <2>5. c = [id |-> x, rev |-> c.rev]
    BY <2>4 DEF Seen
  <2> QED
    BY <2>2, <2>4, <2>5
<1>2. ExpectsCounted(job)
  <2>1. SUFFICES ASSUME of.all
                 PROVE  /\ DOMAIN Targets(of) \cap of.exclude = {}
                        /\ Cardinality(DOMAIN Targets(of)) <= of.total
    BY DEF ExpectsCounted
  <2>2. DOMAIN Targets(of) = Found(of.browse) \ of.exclude
    BY <2>1 DEF Targets
  <2>3. IsFiniteSet(Found(of.browse))
    <3>1. IsFiniteSet(Book)
      BY FS_Interval, ShelfAssumption DEF Book
    <3> QED
      BY <3>1, FS_Subset DEF Found
  <2>4. Cardinality(DOMAIN Targets(of)) <= Cardinality(Found(of.browse))
    BY <2>2, <2>3, FS_Subset
  <2> QED
    BY <2>1, <2>2, <2>4 DEF Expected
<1> QED
  BY <1>1, <1>2 DEF JobOK
-----------------------------------------------------------------------------
(* The invariant is inductive.                                             *)

\* What the parts of the invariant are about.
rowVars == <<row, foreign, imports>>
seenVars == <<requests, books, dialog, posts>>

LEMMA RowStays == RowOK /\ UNCHANGED rowVars => RowOK'
PROOF BY DEF RowOK, rowVars

LEMMA SeenStays == SeenOK /\ UNCHANGED seenVars => SeenOK'
PROOF BY DEF SeenOK, seenVars, Seen

LEMMA JobsStay == JobsOK /\ UNCHANGED jobs => JobsOK'
PROOF BY DEF JobsOK, JobOK, ExpectsSeen, ExpectsCounted, Range

LEMMA InitInv == Init => IInv
PROOF
<1> SUFFICES ASSUME Init PROVE IInv
  OBVIOUS
<1> USE DEF Init
<1>1. RowOK
  BY DEF RowOK, RowSet
<1>2. SeenOK
  <2>1. \A r \in requests : r.phase # "read"
    OBVIOUS
  <2> QED
    BY <2>1 DEF SeenOK, Seen
<1>3. JobsOK
  BY DEF JobsOK
<1> QED
  BY <1>1, <1>2, <1>3 DEF IInv

\* Asking for the list anew brings no books yet.
LEMMA LoadSeen ==
    ASSUME SeenOK, NEW b, NEW p, NEW v, NEW k, Load(b, p, v, k)
    PROVE  \A r \in requests' : r.phase = "read" => r \in requests
PROOF BY DEF Load

LEMMA RemountSeen ==
    ASSUME SeenOK, Remount
    PROVE  /\ \A r \in requests' : r.phase = "read" => r \in requests
           /\ DOMAIN books' = {}
PROOF BY DEF Remount

LEMMA NextInv == ASSUME IInv, Next PROVE IInv'
PROOF
<1> USE DEF IInv
<1>1. ASSUME Loading PROVE IInv'
  <2>1. PICK r \in requests : ListRead(r) \/ ListShown(r) \/ Dropped(r) \/ ListFails(r)
    BY <1>1 DEF Loading
  <2>2. UNCHANGED <<row, foreign, imports, jobs, dialog, posts>>
    BY <2>1 DEF ListRead, ListShown, Dropped, ListFails, server, selection, uploading, history
  <2>3. SeenOK'
    <3>1. CASE ListRead(r)
      <4> DEFINE new == [n |-> r.n, browse |-> r.browse, page |-> r.page, version |-> r.version,
                         known |-> r.known, phase |-> "read", books |-> PageOf(r.browse, r.page),
                         total |-> Cardinality(Found(r.browse))]
      <4>1. requests' = (requests \ {r}) \cup {new} /\ books' = books
        BY <3>1 DEF ListRead
      <4>2. \A i \in DOMAIN new.books : Seen(new.books[i])
        BY PageSeen
      <4> HIDE DEF new
      <4> QED
        BY <2>2, <4>1, <4>2 DEF SeenOK, Seen
    <3>2. CASE ListShown(r)
      <4>1. r.phase = "read" /\ books' = r.books
        BY <3>2 DEF ListShown
      <4>2. \A q \in requests' : q.phase = "read" => q \in requests
        BY <3>2, LoadSeen DEF ListShown
      <4> QED
        BY <2>2, <4>1, <4>2 DEF SeenOK, Seen
    <3>3. CASE Dropped(r) \/ ListFails(r)
      <4>1. requests' = requests \ {r} /\ books' = books
        BY <3>3 DEF Dropped, ListFails
      <4> QED
        BY <2>2, <4>1 DEF SeenOK, Seen
    <3> QED
      BY <2>1, <3>1, <3>2, <3>3
  <2> QED
    BY <2>2, <2>3, RowStays, JobsStay DEF rowVars
<1>2. ASSUME Shelving PROVE IInv'
  <2>1. UNCHANGED <<row, foreign, imports, jobs, posts>>
    BY <1>2 DEF Shelving, TurnPage, SetBrowse, RefreshShelf, Leave, SelectAll, ClearSelection,
                Organize, OrganizeBook, Select, SelectMany, OnShelf, Command, server, history,
                uploading
  <2>2. /\ \A r \in requests' : r.phase = "read" => r \in requests
        /\ books' = books \/ DOMAIN books' = {}
        /\ dialog' # dialog => \E ids : dialog'.books = AsShown(ids)
    <3>1. CASE \E p \in 1 .. Books : TurnPage(p)
      BY <3>1, LoadSeen DEF TurnPage
    <3>2. CASE \E b \in Browse : SetBrowse(b)
      BY <3>2, LoadSeen DEF SetBrowse
    <3>3. CASE RefreshShelf
      <4>1. books' = <<>> /\ dialog' = dialog
        BY <3>3 DEF RefreshShelf
      <4>2. DOMAIN books' = {}
        BY <4>1
      <4>3. \A r \in requests' : r.phase = "read" => r \in requests
        BY <3>3, LoadSeen DEF RefreshShelf
      <4> QED
        BY <4>1, <4>2, <4>3
    <3>4. CASE Leave
      BY <3>4, RemountSeen DEF Leave
    <3>5. CASE SelectAll \/ ClearSelection \/ (\E x \in Book : Select(x))
               \/ (\E S \in SUBSET Book : SelectMany(S))
      BY <3>5 DEF SelectAll, ClearSelection, Select, SelectMany, list
    <3>6. CASE Organize \/ (\E x \in Book : OrganizeBook(x))
      <4>1. PICK ids : Opens(AsShown(ids))
        BY <3>6 DEF Organize, OrganizeBook
      <4>2. dialog'.books = AsShown(ids) /\ UNCHANGED <<requests, books>>
        BY <4>1 DEF Opens, list
      <4> QED
        BY <4>2
    <3> QED
      BY <1>2, <3>1, <3>2, <3>3, <3>4, <3>5, <3>6 DEF Shelving
  <2>3. \A ids : \A b \in AsShown(ids) : Seen(b)
    BY DEF AsShown, ToSet, SeenOK
  <2>4. SeenOK'
    BY <2>1, <2>2, <2>3 DEF SeenOK, Seen
  <2> QED
    BY <2>1, <2>4, RowStays, JobsStay DEF rowVars
<1>3. ASSUME NEW read \in BOOLEAN, Apply(read) PROVE IInv'
  <2>1. UNCHANGED <<row, foreign, imports, jobs, requests, books, dialog>> /\ dialog # None
    BY <1>3 DEF Apply, Command, server, list, uploading, history
  <2>2. posts' = posts \cup {[n |-> commands', read |-> read, of |-> dialog]}
    BY <1>3 DEF Apply
  <2>3. SeenOK'
    BY <2>1, <2>2 DEF SeenOK, Seen
  <2> QED
    BY <2>1, <2>3, RowStays, JobsStay DEF rowVars
<1>4. ASSUME NEW q \in posts, BulkServed(q) PROVE IInv'
  <2>1. UNCHANGED <<row, foreign, imports, requests, books, dialog>> /\ posts' = posts \ {q}
    BY <1>4 DEF BulkServed, list, uploading, history
  <2>2. SeenOK'
    BY <2>1 DEF SeenOK, Seen
  <2>3. JobsOK'
    <3>1. CASE ~Expected(q.of)
      <4>1. jobs' = jobs
        BY <1>4, <3>1 DEF BulkServed
      <4> QED
        BY <4>1, JobsStay
    <3>2. CASE Expected(q.of)
      <4> DEFINE new == [read |-> q.read, of |-> q.of, expects |-> Targets(q.of),
                         pending |-> DOMAIN Targets(q.of), written |-> {}]
      <4>1. jobs' = Append(jobs, new)
        BY <1>4, <3>2 DEF BulkServed
      <4>2. JobOK(new)
        BY <3>2, TargetsOK DEF SeenOK
      <4> HIDE DEF new
      <4>3. \A j \in DOMAIN jobs' : JobOK(jobs'[j])
        BY <4>1, <4>2, Appended DEF JobsOK
      <4> QED
        BY <4>1, <4>3, Appended DEF JobsOK, JobOK, ExpectsSeen, ExpectsCounted
    <3> QED
      BY <3>1, <3>2
  <2> QED
    BY <2>1, <2>2, <2>3, RowStays DEF rowVars
<1>5. ASSUME NEW q \in posts, PostLost(q) PROVE IInv'
  <2>1. /\ UNCHANGED <<row, foreign, imports, jobs, requests, books, dialog>>
        /\ posts' = posts \ {q}
    BY <1>5 DEF PostLost, server, list, uploading, history
  <2>2. SeenOK'
    BY <2>1 DEF SeenOK, Seen
  <2> QED
    BY <2>1, <2>2, RowStays, JobsStay DEF rowVars
<1>6. ASSUME BulkDone \/ BulkStopped \/ CloseDialog PROVE IInv'
  <2>1. UNCHANGED <<row, foreign, imports, jobs, books, posts>>
    BY <1>6 DEF BulkDone, BulkStopped, CloseDialog, server, list, uploading, history
  <2>2. /\ \A r \in requests' : r.phase = "read" => r \in requests
        /\ dialog' = dialog \/ dialog' = None
    <3>1. CASE BulkDone
      BY <3>1, LoadSeen DEF BulkDone
    <3>2. CASE BulkStopped \/ CloseDialog
      BY <3>2 DEF BulkStopped, CloseDialog, list
    <3> QED
      BY <1>6, <3>1, <3>2
  <2>3. SeenOK'
    BY <2>1, <2>2 DEF SeenOK, Seen
  <2> QED
    BY <2>1, <2>3, RowStays, JobsStay DEF rowVars
<1>7. ASSUME Uploading PROVE IInv'
  <2>1. UNCHANGED <<jobs, dialog, posts>>
    BY <1>7 DEF Uploading, Import, ImportServed, ImportLost, ImportAnswered, CancelUpload,
                Command, server, history
  <2>2. /\ \A r \in requests' : r.phase = "read" => r \in requests
        /\ books' = books \/ DOMAIN books' = {}
    <3>1. CASE ImportAnswered
      BY <3>1, RemountSeen DEF ImportAnswered, list
    <3>2. CASE ~ImportAnswered
      BY <1>7, <3>2 DEF Uploading, Import, ImportServed, ImportLost, CancelUpload, list
    <3> QED
      BY <3>1, <3>2
  <2>3. SeenOK'
    BY <2>1, <2>2 DEF SeenOK, Seen
  <2>4. RowOK'
    <3>1. CASE \E x \in Book : Import(x)
      BY <3>1 DEF Import, Command, RowOK, server, history, uploading
    <3>2. ASSUME NEW i \in imports, ImportServed(i) PROVE RowOK'
      <4>1. row' = row \/ \E read \in BOOLEAN : row' = Written(i.book, read)
        BY <3>2, Zenon DEF ImportServed
      <4>2. /\ foreign' = [foreign EXCEPT ![i.book] = IF ~row[i.book].present THEN row'[i.book].rev
                                                      ELSE @]
            /\ imports' = imports \ {i}
        BY <3>2 DEF ImportServed
      <4>3. i.book \in Book
        BY DEF RowOK
      <4>4. /\ row' \in [Book -> RowSet] /\ \A y \in Book : y # i.book => row'[y] = row[y]
            /\ row'[i.book].rev >= row[i.book].rev
        <5>1. row[i.book].rev \in Nat
          BY <4>3 DEF RowOK, RowSet
        <5>2. CASE row' = row
          BY <5>1, <5>2 DEF RowOK
        <5>3. CASE \E read \in BOOLEAN : row' = Written(i.book, read)
          BY <4>3, <5>1, <5>3, WrittenRow DEF RowOK
        <5> QED
          BY <4>1, <5>2, <5>3
      <4>5. \A y \in Book : row[y].rev \in Nat /\ row'[y].rev \in Nat
        BY <4>4, RowBounds DEF RowOK
      <4>6. /\ foreign'[i.book] \in {row'[i.book].rev, foreign[i.book]}
            /\ \A y \in Book : y # i.book => foreign'[y] = foreign[y]
            /\ foreign' \in [Book -> Nat]
        BY <4>2, <4>3, <4>5 DEF RowOK
      <4>7. \A y \in Book : foreign'[y] <= row'[y].rev
        BY <4>3, <4>4, <4>5, <4>6 DEF RowOK
      <4> QED
        BY <4>2, <4>4, <4>6, <4>7 DEF RowOK
    <3>3. CASE (\E i \in imports : ImportLost(i)) \/ ImportAnswered \/ CancelUpload
      BY <3>3 DEF ImportLost, ImportAnswered, CancelUpload, RowOK, server, history
    <3> QED
      BY <1>7, <3>1, <3>2, <3>3 DEF Uploading
  <2> QED
    BY <2>1, <2>3, <2>4, JobsStay
<1>8. ASSUME NEW x \in Book, Advance(x) PROVE IInv'
  <2>1. UNCHANGED <<foreign, imports, requests, books, dialog, posts>>
    BY <1>8 DEF Advance, list, uploading, history
  <2>2. PICK j \in DOMAIN jobs :
           /\ x \in jobs[j].pending
           /\ IF Unchanged(jobs[j], x)
              THEN /\ row' = Written(x, jobs[j].read)
                   /\ jobs' = [jobs EXCEPT ![j].pending = @ \ {x}, ![j].written = @ \cup {x}]
              ELSE /\ jobs' = [jobs EXCEPT ![j].pending = @ \ {x}]
                   /\ UNCHANGED row
    BY <1>8 DEF Advance
  <2>3. RowOK'
    <3>1. jobs[j].read \in BOOLEAN
      BY DEF JobsOK, JobOK
    <3>2. CASE Unchanged(jobs[j], x)
      <4>1. row' = Written(x, jobs[j].read)
        BY <2>2, <3>2
      <4> QED
        BY <2>1, <3>1, <4>1, WrittenRow, RowBounds DEF RowOK
    <3>3. CASE ~Unchanged(jobs[j], x)
      BY <2>1, <2>2, <3>3 DEF RowOK
    <3> QED
      BY <3>2, <3>3
  <2>4. SeenOK'
    BY <2>1, SeenStays DEF seenVars
  <2>5. JobsOK'
    <3>1. JobOK(jobs[j])
      BY DEF JobsOK
    <3>2. PICK job : /\ jobs' = [jobs EXCEPT ![j] = job]
                     /\ DOMAIN job = DOMAIN jobs[j]
                     /\ job.read = jobs[j].read /\ job.of = jobs[j].of
                     /\ job.expects = jobs[j].expects /\ job.pending = jobs[j].pending \ {x}
      <4>1. CASE Unchanged(jobs[j], x)
        <5> WITNESS [jobs[j] EXCEPT !.pending = @ \ {x}, !.written = @ \cup {x}]
        <5> QED
          BY <2>2, <3>1, <4>1 DEF JobOK
      <4>2. CASE ~Unchanged(jobs[j], x)
        <5> WITNESS [jobs[j] EXCEPT !.pending = @ \ {x}]
        <5> QED
          BY <2>2, <3>1, <4>2 DEF JobOK
      <4> QED
        BY <4>1, <4>2
    <3>3. JobOK(job)
      BY <3>1, <3>2 DEF JobOK, ExpectsSeen, ExpectsCounted
    <3>4. jobs' \in Seq(Range(jobs')) /\ DOMAIN jobs' = DOMAIN jobs
      BY <3>2, Replaced DEF JobsOK
    <3>5. \A i \in DOMAIN jobs' : JobOK(jobs'[i])
      BY <3>2, <3>3, <3>4 DEF JobsOK
    <3> QED
      BY <3>4, <3>5 DEF JobsOK, JobOK, ExpectsSeen, ExpectsCounted
  <2> QED
    BY <2>3, <2>4, <2>5
<1>9. ASSUME NEW x \in Book, OtherEdits(x) PROVE IInv'
  <2>1. UNCHANGED <<imports, jobs, requests, books, dialog, posts>>
    BY <1>9 DEF OtherEdits, list, uploading
  <2>2. RowOK'
    <3>1. row' \in [Book -> RowSet] /\ \A y \in Book : y # x => row'[y] = row[y]
      <4>1. CASE \E read \in BOOLEAN : row' = Written(x, read)
        BY <4>1, WrittenRow DEF RowOK
      <4>2. CASE row' = [row EXCEPT ![x].present = FALSE]
        BY <4>2 DEF RowOK, RowSet
      <4> QED
        BY <1>9, <4>1, <4>2 DEF OtherEdits
    <3>2. foreign' = [foreign EXCEPT ![x] = row'[x].rev]
      BY <1>9 DEF OtherEdits
    <3>3. foreign' \in [Book -> Nat]
      BY <3>1, <3>2, RowBounds DEF RowOK, RowSet
    <3> QED
      BY <2>1, <3>1, <3>2, <3>3, RowBounds DEF RowOK, RowSet
  <2> QED
    BY <2>1, <2>2, SeenStays, JobsStay DEF seenVars
<1> QED
  BY <1>1, <1>2, <1>3, <1>4, <1>5, <1>6, <1>7, <1>8, <1>9 DEF Next, Acting

LEMMA Inductive == IInv /\ [Next]_vars => IInv'
PROOF
<1>1. IInv /\ UNCHANGED vars => IInv'
  BY RowStays, SeenStays, JobsStay
  DEF IInv, vars, server, list, history, uploading, rowVars, seenVars
<1> QED
  BY <1>1, NextInv

-----------------------------------------------------------------------------
(* The theorems.                                                           *)

\* A bulk action on all results never takes a book that was unticked, nor more books than
\* the user was told the query finds (create_bulk() counts again).
THEOREM ReachesWhatWasAskedTheorem == Spec => []ReachesWhatWasAsked
PROOF
<1>1. IInv => ReachesWhatWasAsked
  BY DEF IInv, JobsOK, JobOK, ExpectsCounted, ReachesWhatWasAsked
<1> QED
  BY <1>1, InitInv, Inductive, PTL DEF Spec

\* A bulk action changes a book only as the user saw it: what another device wrote to it
\* meanwhile stays (_apply_personal() compares the revision seen).
THEOREM ChangesWhatWasSeenTheorem == Spec => ChangesWhatWasSeen
PROOF
<1> DEFINE Kept ==
      \A j \in DOMAIN jobs, x \in Book :
         x \in jobs'[j].written \ jobs[j].written =>
            /\ foreign[x] <= jobs[j].expects[x]
            /\ ~jobs[j].of.all => [id |-> x, rev |-> row[x].rev] \in jobs[j].of.books
<1>1. ASSUME IInv, Next PROVE Kept
  <2>1. CASE UNCHANGED jobs
    BY <2>1
  <2>2. ASSUME NEW q \in posts, BulkServed(q), jobs' # jobs PROVE Kept
    <3>1. \E new : jobs' = Append(jobs, new)
      BY <2>2 DEF BulkServed
    <3> QED
      BY <1>1, <3>1, Appended DEF IInv, JobsOK
  <2>3. ASSUME NEW y \in Book, Advance(y) PROVE Kept
    <3>1. SUFFICES ASSUME NEW j \in DOMAIN jobs, NEW x \in Book,
                          x \in jobs'[j].written \ jobs[j].written
                   PROVE  /\ foreign[x] <= jobs[j].expects[x]
                          /\ ~jobs[j].of.all =>
                               [id |-> x, rev |-> row[x].rev] \in jobs[j].of.books
      OBVIOUS
    <3>2. JobOK(jobs[j])
      BY <1>1 DEF IInv, JobsOK
    <3>3. x = y /\ x \in jobs[j].pending /\ Unchanged(jobs[j], x)
      BY <2>3, <3>1, <3>2 DEF Advance, JobOK
    <3>4. row[x].rev = jobs[j].expects[x] /\ foreign[x] <= row[x].rev
      BY <1>1, <3>3 DEF Unchanged, IInv, RowOK
    <3> QED
      BY <3>2, <3>3, <3>4 DEF JobOK, ExpectsSeen
  <2>4. \/ UNCHANGED jobs
        \/ \E q \in posts : BulkServed(q)
        \/ \E x \in Book : Advance(x)
    BY <1>1 DEF Next, Loading, ListRead, ListShown, Dropped, ListFails, Shelving, TurnPage,
                SetBrowse, RefreshShelf, Leave, SelectAll, ClearSelection, Organize,
                OrganizeBook, Select, SelectMany, OnShelf, Command, Acting, Apply, PostLost,
                BulkDone, BulkStopped, CloseDialog, Uploading, Import, ImportServed,
                ImportLost, ImportAnswered, CancelUpload, OtherEdits, server
  <2> QED
    BY <2>1, <2>2, <2>3, <2>4
<1>2. IInv /\ [Next]_vars => [Kept]_vars
  BY <1>1
<1> QED
  BY <1>2, InitInv, Inductive, PTL DEF Spec, ChangesWhatWasSeen

-----------------------------------------------------------------------------
(* What is on screen: the books of a page, in order.                       *)

\* A page holds books of the library, at their revisions.
LEMMA PageRows ==
    ASSUME RowOK, NEW b, NEW p \in Nat \ {0}
    PROVE  \A i \in DOMAIN PageOf(b, p) :
              PageOf(b, p)[i] \in Rows /\ PageOf(b, p)[i].rev = row[PageOf(b, p)[i].id].rev
PROOF
<1> DEFINE found == InOrder(Found(b))
           count == Cardinality(Found(b))
           from == (p - 1) * PageSize + 1
           last == IF p * PageSize < Len(found) THEN p * PageSize ELSE Len(found)
           ids == SubSeq(found, from, last)
<1>1. Found(b) \subseteq Book /\ count \in Nat
  <2>1. IsFiniteSet(Book)
    BY FS_Interval, ShelfAssumption DEF Book
  <2> QED
    BY <2>1, FS_Subset, FS_CardinalityType DEF Found
<1>2. found \in [1 .. count -> Book]
  BY <1>1, InOrderOrders, ShelfAssumption DEF Book, Ordered
<1>3. found \in Seq(Book) /\ Len(found) = count
  <2> HIDE DEF found, count
  <2> QED
    BY <1>1, <1>2
<1>4. from \in Nat /\ from > 0
  <2>1. p - 1 \in Nat /\ PageSize \in Nat
    BY ShelfAssumption
  <2> QED
    BY <2>1
<1>5. p * PageSize \in Nat
  BY ShelfAssumption
<1> HIDE DEF found, count, from
<1>6. last \in Nat /\ last <= Len(found)
  BY <1>1, <1>3, <1>5
<1> HIDE DEF last
<1>7. ids \in Seq(Book)
  BY <1>3, <1>4, <1>6
<1>8. PageOf(b, p) = [i \in DOMAIN ids |-> [id |-> ids[i], rev |-> row[ids[i]].rev]]
  BY DEF PageOf, PageIds, found, from, last
<1> HIDE DEF ids
<1>9. \A x \in Book : row[x].rev \in Nat
  BY RowBounds DEF RowOK
<1> QED
  BY <1>7, <1>8, <1>9 DEF Rows

-----------------------------------------------------------------------------
(* The list keeps up.                                                      *)

\* A request, and the list it has brought: of the library, and not older than what an action
\* seen through has written, if anybody still waits for it.
RequestOK(r) ==
    /\ r.n \in 1 .. asked /\ r.phase \in {"sent", "read"}
    /\ r.browse \in Browse /\ r.page \in Nat \ {0}
    /\ r.phase = "read" => r.total \in 0 .. Books /\ \A i \in DOMAIN r.books : r.books[i] \in Rows
Fresh(b) == b.rev >= own[b.id]
LiveOK(r) ==
    Live(r) => /\ r.browse = browse /\ r.page = page /\ r.version = version
               /\ r.phase = "read" => \A i \in DOMAIN r.books : Fresh(r.books[i])
ListTypes ==
    /\ browse \in Browse /\ page \in Nat \ {0} /\ version \in Nat /\ asked \in Nat
    /\ \A i \in DOMAIN books : books[i] \in Rows
    /\ total \in 0 .. Books
    /\ busy \in BOOLEAN /\ error \in BOOLEAN /\ failed \in BOOLEAN
ListInv ==
    /\ ListTypes
    /\ \A r \in requests : RequestOK(r) /\ LiveOK(r)
    /\ ShownIsAsked /\ LoadGoesOn /\ OwnActionShown
TicksOK == all \in BOOLEAN /\ selected \subseteq Book /\ excluded \subseteq Book

\* What an action has written, and what the page knows of it when it is done.
WrittenOK(job, lib) ==
    \A x \in job.written : /\ x \in DOMAIN job.expects /\ x \in Book
                           /\ job.expects[x] \in Nat /\ job.expects[x] + 1 <= lib[x].rev
OwnOK == own \in [Book -> Nat] /\ \A x \in Book : own[x] <= row[x].rev
ActionsOK ==
    /\ \A j \in DOMAIN jobs : WrittenOK(jobs[j], row)
    /\ OwnOK
    /\ bulk.kind \in {"none", "posted", "watched"} /\ (bulk # None => dialog # None)
    /\ bulk.kind = "watched" => bulk.job \in DOMAIN jobs
    /\ upload.kind \in {"none", "sent", "answered"}

Current == ListInv /\ TicksOK /\ ActionsOK

\* A list is asked for, whoever wants it: for another query, page or version, or mounted anew.
Asks(b, p, v, known) ==
    /\ browse' = b /\ page' = p /\ version' = v
    /\ asked' = asked + 1
    /\ requests' = requests \cup
         {[n |-> asked + 1, browse |-> b, page |-> p, version |-> v, known |-> known,
           phase |-> "sent"]}
    /\ busy' = TRUE /\ error' = FALSE /\ failed' = FALSE

LEMMA AskedAgain ==
    ASSUME ListInv, NEW b \in Browse, NEW p \in Nat \ {0}, NEW v \in Nat, NEW known,
           Asks(b, p, v, known), \A i \in DOMAIN books' : books'[i] \in Rows, total' \in 0 .. Books
    PROVE  ListInv'
PROOF
<1>0. PICK new : new = [n |-> asked + 1, browse |-> b, page |-> p, version |-> v, known |-> known,
                        phase |-> "sent"]
  OBVIOUS
<1>1. asked \in Nat /\ asked' = asked + 1 /\ asked' \in Nat /\ requests' = requests \cup {new}
  BY <1>0 DEF ListInv, ListTypes, Asks
<1>2. RequestOK(new)' /\ new.n = asked' /\ new.phase = "sent"
  <2>1. new.n = asked + 1 /\ new.browse = b /\ new.page = p /\ new.version = v /\ new.phase = "sent"
    BY <1>0
  <2> QED
    BY <1>1, <2>1 DEF RequestOK
<1>3. LiveOK(new)'
  BY <1>0, <1>2 DEF LiveOK, Asks
<1>4. ASSUME NEW r \in requests PROVE RequestOK(r)' /\ LiveOK(r)'
  <2>1. RequestOK(r)
    BY DEF ListInv
  <2>2. r.n \in 1 .. asked' /\ r.n # asked'
    BY <1>1, <2>1 DEF RequestOK
  <2> QED
    BY <2>1, <2>2 DEF RequestOK, LiveOK, Live
<1>5. ListTypes'
  BY <1>1 DEF ListTypes, Asks
<1>6. ShownIsAsked' /\ OwnActionShown'
  BY DEF ShownIsAsked, OwnActionShown, Asks
<1>7. LoadGoesOn'
  BY <1>1, <1>2 DEF LoadGoesOn, Live
<1> QED
  BY <1>1, <1>2, <1>3, <1>4, <1>5, <1>6, <1>7 DEF ListInv

LEMMA ListStays ==
    ASSUME ListInv, UNCHANGED <<browse, page, version, requests, asked, books, total, counted, busy,
                                shown, failed, own>>,
           error' \in BOOLEAN
    PROVE  ListInv'
PROOF BY DEF ListInv, ListTypes, RequestOK, LiveOK, Live, Fresh, ShownIsAsked, LoadGoesOn, OwnActionShown

\* What an answer is worth, and what no answer can change.
LEMMA LastPageExists == \A n \in Nat : LastPage(n) \in Nat \ {0}
PROOF
<1> SUFFICES ASSUME NEW n \in Nat PROVE LastPage(n) \in Nat \ {0}
  OBVIOUS
<1>1. PageSize \in Nat /\ PageSize > 0
  BY ShelfAssumption
<1>2. CASE n > PageSize
  <2>1. n + PageSize - 1 >= PageSize /\ n + PageSize - 1 \in Nat
    BY <1>1, <1>2
  <2>2. \A a, b \in Nat : b > 0 /\ a >= b => a \div b \in Nat /\ a \div b > 0
    OBVIOUS
  <2> QED
    BY <1>1, <1>2, <2>1, <2>2 DEF LastPage
<1>3. CASE ~(n > PageSize)
  BY <1>1, <1>3 DEF LastPage
<1> QED
  BY <1>2, <1>3

LEMMA FoundCount == \A b : Cardinality(Found(b)) \in 0 .. Books
PROOF
<1> SUFFICES ASSUME NEW b PROVE Cardinality(Found(b)) \in 0 .. Books
  OBVIOUS
<1>1. IsFiniteSet(Book) /\ Cardinality(Book) = Books
  BY FS_Interval, ShelfAssumption DEF Book
<1>2. Found(b) \subseteq Book
  BY DEF Found
<1>3. Cardinality(Found(b)) <= Books /\ Cardinality(Found(b)) \in Nat
  BY <1>1, <1>2, FS_Subset, FS_CardinalityType
<1> QED
  BY <1>3, ShelfAssumption

LEMMA LoadingCurrent == ASSUME IInv, Current, Loading PROVE Current'
PROOF
<1>1. PICK r \in requests : ListRead(r) \/ ListShown(r) \/ Dropped(r) \/ ListFails(r)
  BY DEF Loading
<1>2. UNCHANGED <<row, jobs, own, bulk, dialog, upload>>
  BY <1>1 DEF ListRead, ListShown, Dropped, ListFails, server, uploading, history
<1>3. ActionsOK'
  BY <1>2 DEF Current, ActionsOK, WrittenOK, OwnOK
<1>4. RequestOK(r) /\ LiveOK(r)
  BY DEF Current, ListInv
<1>5. CASE ListRead(r)
  <2>0. PICK page1, number, new :
           /\ page1 = PageOf(r.browse, r.page) /\ number = Cardinality(Found(r.browse))
           /\ new = [n |-> r.n, browse |-> r.browse, page |-> r.page, version |-> r.version,
                     known |-> r.known, phase |-> "read", books |-> page1, total |-> number]
    OBVIOUS
  <2>1. /\ requests' = (requests \ {r}) \cup {new}
        /\ UNCHANGED <<browse, page, version, asked, books, total, counted, busy, error, shown, failed,
                       all, selected, excluded>>
    BY <1>5, <2>0 DEF ListRead, selection
  <2>2. \A i \in DOMAIN page1 : page1[i] \in Rows /\ page1[i].rev = row[page1[i].id].rev
    BY <1>4, <2>0, PageRows DEF IInv, RequestOK
  <2>3. \A i \in DOMAIN page1 : Fresh(page1[i])
    <3>1. \A x \in Book : own[x] <= row[x].rev
      BY DEF Current, ActionsOK, OwnOK
    <3> QED
      BY <2>2, <3>1 DEF Fresh, Rows
  <2>4. number \in 0 .. Books
    BY <2>0, FoundCount
  <2>5. /\ new.n = r.n /\ new.browse = r.browse /\ new.page = r.page /\ new.version = r.version
        /\ new.phase = "read" /\ new.books = page1 /\ new.total = number
    BY <2>0
  <2>6. RequestOK(new)' /\ LiveOK(new)'
    BY <1>2, <1>4, <2>1, <2>2, <2>3, <2>4, <2>5 DEF RequestOK, LiveOK, Live, Fresh
  <2>7. ASSUME NEW q \in requests PROVE RequestOK(q)' /\ LiveOK(q)'
    BY <1>2, <2>1 DEF Current, ListInv, RequestOK, LiveOK, Live, Fresh
  <2>8. LoadGoesOn'
    BY <2>1, <2>5 DEF Current, ListInv, LoadGoesOn, Live
  <2>9. ListTypes' /\ ShownIsAsked' /\ OwnActionShown'
    BY <1>2, <2>1 DEF Current, ListInv, ListTypes, ShownIsAsked, OwnActionShown
  <2> QED
    BY <1>3, <2>1, <2>6, <2>7, <2>8, <2>9 DEF Current, ListInv, TicksOK
<1>6. CASE ListShown(r)
  <2>1. /\ r.phase = "read" /\ Live(r) /\ books' = r.books
        /\ shown' = <<r.browse, r.page, r.version>>
        /\ total' = IF r.known THEN total ELSE r.total
        /\ counted' = <<r.browse, r.version>>
    BY <1>6 DEF ListShown
  <2>2. total' \in 0 .. Books /\ total' \in Nat /\ \A i \in DOMAIN books' : books'[i] \in Rows
    BY <1>4, <2>1, ShelfAssumption DEF RequestOK, Current, ListInv, ListTypes
  <2>3. CASE page > LastPage(total')
    <3>1. /\ Asks(browse, LastPage(total'), version, TRUE)
          /\ all' = FALSE /\ selected' = {} /\ excluded' = {}
      BY <1>6, <2>3 DEF ListShown, Load, Asks
    <3>2. ListInv'
      BY <2>2, <3>1, LastPageExists, AskedAgain DEF Current, ListInv, ListTypes
    <3> QED
      BY <1>3, <3>1, <3>2 DEF Current, TicksOK
  <2>4. CASE ~(page > LastPage(total'))
    <3>1. /\ busy' = FALSE /\ requests' = requests \ {r}
          /\ UNCHANGED <<browse, page, version, asked, error, failed, all, selected, excluded>>
      BY <1>6, <2>4 DEF ListShown, selection
    <3>2. ShownIsAsked'
      <4>1. page <= LastPage(total')
        BY <2>2, <2>4, LastPageExists DEF Current, ListInv, ListTypes
      <4>2. (page <= LastPage(total))'
        BY <3>1, <4>1 DEF LastPage
      <4> QED
        BY <1>4, <2>1, <3>1, <4>2 DEF ShownIsAsked, LiveOK
    <3>3. OwnActionShown'
      BY <1>2, <1>4, <2>1 DEF OwnActionShown, LiveOK, Fresh
    <3>4. \A q \in requests' : RequestOK(q)' /\ LiveOK(q)'
      BY <1>2, <3>1 DEF Current, ListInv, RequestOK, LiveOK, Live, Fresh
    <3>5. ListTypes' /\ LoadGoesOn'
      BY <2>2, <3>1 DEF Current, ListInv, ListTypes, LoadGoesOn
    <3> QED
      BY <1>3, <3>1, <3>2, <3>3, <3>4, <3>5 DEF Current, ListInv, TicksOK
  <2> QED
    BY <2>3, <2>4
<1>7. CASE Dropped(r) \/ ListFails(r)
  <2>1. /\ requests' = requests \ {r}
        /\ UNCHANGED <<browse, page, version, asked, books, total, counted, shown, all, selected, excluded>>
        /\ \/ UNCHANGED <<busy, error, failed>> /\ ~Live(r)
           \/ busy' = FALSE /\ error' = TRUE /\ failed' = TRUE
    BY <1>7 DEF Dropped, ListFails, selection
  <2>2. \A q \in requests' : RequestOK(q)' /\ LiveOK(q)'
    BY <1>2, <2>1 DEF Current, ListInv, RequestOK, LiveOK, Live, Fresh
  <2>3. LoadGoesOn'
    BY <2>1 DEF Current, ListInv, LoadGoesOn, Live
  <2>4. ListTypes' /\ ShownIsAsked' /\ OwnActionShown'
    BY <1>2, <2>1 DEF Current, ListInv, ListTypes, ShownIsAsked, OwnActionShown, LastPage
  <2> QED
    BY <1>3, <2>1, <2>2, <2>3, <2>4 DEF Current, ListInv, TicksOK
<1> QED
  BY <1>1, <1>5, <1>6, <1>7

LEMMA IdsAreBooks == ASSUME ListInv PROVE Ids \subseteq Book
PROOF BY DEF ListInv, ListTypes, Ids, Rows

LEMMA ShelvingCurrent == ASSUME IInv, Current, Shelving PROVE Current'
PROOF
<1>1. UNCHANGED <<row, jobs, own, bulk, upload>>
  <2>1. OnShelf
    BY DEF Shelving, TurnPage, SetBrowse, RefreshShelf, Leave, SelectAll, ClearSelection,
           Organize, OrganizeBook, Select, SelectMany
  <2>2. bulk' = bulk
    BY DEF Shelving, TurnPage, SetBrowse, RefreshShelf, Leave, SelectAll, ClearSelection,
           Organize, OrganizeBook, Select, SelectMany, Opens
  <2> QED
    BY <2>1, <2>2 DEF OnShelf, Command, server, history, uploading
<1>2. dialog' = dialog \/ dialog' # None
  <2>1. dialog' = dialog \/ \E picked : Opens(picked)
    BY DEF Shelving, TurnPage, SetBrowse, RefreshShelf, Leave, SelectAll, ClearSelection,
           Organize, OrganizeBook, Select, SelectMany
  <2>2. ASSUME NEW picked, Opens(picked) PROVE dialog'.kind = "open"
    BY <2>2 DEF Opens
  <2> QED
    BY <2>1, <2>2 DEF None
<1>3. ActionsOK'
  BY <1>1, <1>2 DEF Current, ActionsOK, WrittenOK, OwnOK
<1>4. /\ browse \in Browse /\ page \in Nat \ {0} /\ version \in Nat /\ version + 1 \in Nat
      /\ total \in 0 .. Books /\ \A i \in DOMAIN books : books[i] \in Rows
      /\ error \in BOOLEAN
  BY DEF Current, ListInv, ListTypes
<1>5. ASSUME NEW b \in Browse, NEW p \in Nat \ {0}, NEW v \in Nat, NEW known, Asks(b, p, v, known),
             books' = books \/ books' = <<>>, total' \in 0 .. Books,
             all' = FALSE /\ selected' = {} /\ excluded' = {}
      PROVE  Current'
  <2>1. \A i \in DOMAIN books' : books'[i] \in Rows
    BY <1>4, <1>5
  <2>2. ListInv'
    BY <1>5, <2>1, AskedAgain DEF Current
  <2> QED
    BY <1>3, <1>5, <2>2 DEF Current, TicksOK
<1>6. CASE \E p \in 1 .. Books : TurnPage(p)
  <2>1. PICK p \in 1 .. Books : TurnPage(p)
    BY <1>6
  <2>2. p \in Nat \ {0}
    BY ShelfAssumption
  <2> QED
    BY <1>4, <1>5, <2>1, <2>2 DEF TurnPage, Load, Asks
<1>7. CASE \E b \in Browse : SetBrowse(b)
  <2>1. 1 \in Nat \ {0}
    OBVIOUS
  <2>2. PICK b \in Browse : SetBrowse(b)
    BY <1>7
  <2>3. Asks(b, 1, version, counted = <<b, version>>)
    BY <2>2 DEF SetBrowse, Load, Asks
  <2> QED
    BY <1>4, <1>5, <2>1, <2>2, <2>3 DEF SetBrowse, Load
<1>8. CASE RefreshShelf
  <2>1. 1 \in Nat \ {0}
    OBVIOUS
  <2> QED
    BY <1>4, <1>5, <1>8, <2>1 DEF RefreshShelf, Load, Asks
<1>9. CASE Leave
  <2>1. 1 \in Nat \ {0} /\ 0 \in 0 .. Books
    BY ShelfAssumption
  <2> QED
    BY <1>4, <1>5, <1>9, <2>1 DEF Leave, Remount, Asks
<1>10. ASSUME UNCHANGED list, TicksOK' PROVE Current'
  <2>1. ListInv'
    BY <1>1, <1>4, <1>10, ListStays DEF list, Current
  <2> QED
    BY <1>3, <1>10, <2>1 DEF Current
<1>11. CASE SelectAll \/ ClearSelection \/ Organize \/ \E x \in Book : OrganizeBook(x)
  BY <1>10, <1>11 DEF SelectAll, ClearSelection, Organize, OrganizeBook, Opens, Current, TicksOK, selection
<1>12. CASE \E x \in Book : Select(x)
  BY <1>10, <1>12 DEF Select, Flip, Current, TicksOK
<1>13. CASE \E S \in SUBSET Book : SelectMany(S)
  BY <1>10, <1>13 DEF SelectMany, TicksOK
<1> QED
  BY <1>6, <1>7, <1>8, <1>9, <1>11, <1>12, <1>13 DEF Shelving

LEMMA ActingCurrent == ASSUME IInv, Current, Acting PROVE Current'
PROOF
<1>1. UNCHANGED <<row, upload>>
  BY DEF Acting, Apply, BulkServed, PostLost, BulkDone, BulkStopped, CloseDialog, Command, server,
         uploading
<1>2. CASE BulkDone
  <2>1. bulk.kind = "watched" /\ bulk' = None /\ UNCHANGED <<jobs, dialog>>
    BY <1>2 DEF BulkDone, server
  <2>2. PICK job : job = jobs[bulk.job]
    OBVIOUS
  <2>3. WrittenOK(job, row)
    BY <2>1, <2>2 DEF Current, ActionsOK
  <2>4. own' = [x \in Book |-> IF x \in job.written THEN job.expects[x] + 1 ELSE own[x]]
    BY <1>2, <2>2 DEF BulkDone
  <2>5. OwnOK'
    <3>1. \A x \in Book : own'[x] \in Nat /\ own'[x] <= row[x].rev
      BY <2>3, <2>4 DEF WrittenOK, Current, ActionsOK, OwnOK
    <3> QED
      BY <1>1, <2>4, <3>1 DEF OwnOK
  <2>6. ActionsOK'
    BY <1>1, <2>1, <2>5 DEF Current, ActionsOK, WrittenOK, None
  <2>7. /\ browse \in Browse /\ page \in Nat \ {0} /\ version + 1 \in Nat /\ total \in 0 .. Books
        /\ \A i \in DOMAIN books : books[i] \in Rows
    BY DEF Current, ListInv, ListTypes
  <2>8. /\ Asks(browse, page, version + 1, FALSE) /\ UNCHANGED <<books, total>>
        /\ all' = FALSE /\ selected' = {} /\ excluded' = {}
    BY <1>2 DEF BulkDone, Load, Asks
  <2>9. ListInv'
    BY <2>7, <2>8, AskedAgain DEF Current
  <2> QED
    BY <2>6, <2>8, <2>9 DEF Current, TicksOK
<1>3. CASE ~BulkDone
  <2>1. UNCHANGED <<list, selection, own>>
    BY <1>3 DEF Acting, Apply, BulkServed, PostLost, BulkStopped, CloseDialog, Command, history
  <2>2. ListInv' /\ TicksOK'
    <3>1. error' \in BOOLEAN
      BY <2>1 DEF list, Current, ListInv, ListTypes
    <3> QED
      BY <2>1, <3>1, ListStays DEF list, selection, Current, TicksOK
  <2>3. ASSUME UNCHANGED jobs, (bulk' = bulk /\ dialog' = dialog) \/ bulk' = None PROVE ActionsOK'
    BY <1>1, <2>1, <2>3 DEF Current, ActionsOK, WrittenOK, OwnOK, None
  <2>4. ASSUME NEW read \in BOOLEAN, Apply(read) PROVE ActionsOK'
    <3>1. /\ bulk'.kind = "posted" /\ dialog # None /\ dialog' = dialog /\ UNCHANGED jobs
      BY <2>4 DEF Apply, Command, server
    <3> QED
      BY <1>1, <2>1, <3>1 DEF Current, ActionsOK, WrittenOK, OwnOK
  <2>5. ASSUME NEW q \in posts, BulkServed(q) PROVE ActionsOK'
    <3>1. dialog' = dialog
      BY <2>5 DEF BulkServed
    <3>2. CASE ~Expected(q.of)
      BY <2>3, <2>5, <3>1, <3>2 DEF BulkServed
    <3>3. CASE Expected(q.of)
      <4>1. PICK new : /\ jobs' = Append(jobs, new) /\ new.written = {}
        BY <2>5, <3>3 DEF BulkServed
      <4>2. /\ DOMAIN jobs' = DOMAIN jobs \cup {Len(jobs) + 1}
            /\ \A i \in DOMAIN jobs : jobs'[i] = jobs[i]
            /\ jobs'[Len(jobs) + 1] = new
        BY <4>1, Appended DEF IInv, JobsOK
      <4>3. \A j \in DOMAIN jobs' : WrittenOK(jobs'[j], row')
        BY <1>1, <4>1, <4>2 DEF Current, ActionsOK, WrittenOK
      <4>4. \/ bulk' = bulk
            \/ bulk = [kind |-> "posted", n |-> q.n] /\ bulk' = [kind |-> "watched", job |-> Len(jobs) + 1]
        BY <2>5, <3>3 DEF BulkServed
      <4>5. /\ bulk'.kind \in {"none", "posted", "watched"} /\ (bulk' # None => dialog' # None)
            /\ bulk'.kind = "watched" => bulk'.job \in DOMAIN jobs'
        <5>1. CASE bulk' = bulk
          BY <3>1, <4>2, <5>1 DEF Current, ActionsOK
        <5>2. CASE bulk = [kind |-> "posted", n |-> q.n]
                   /\ bulk' = [kind |-> "watched", job |-> Len(jobs) + 1]
          <6>1. bulk # None /\ bulk'.kind = "watched" /\ bulk'.job = Len(jobs) + 1
            BY <5>2 DEF None
          <6> QED
            BY <3>1, <4>2, <6>1 DEF Current, ActionsOK
        <5> QED
          BY <4>4, <5>1, <5>2
      <4> QED
        BY <1>1, <2>1, <4>3, <4>5 DEF Current, ActionsOK, OwnOK
    <3> QED
      BY <3>2, <3>3
  <2>6. ASSUME NEW q \in posts, PostLost(q) PROVE ActionsOK'
    BY <2>3, <2>6 DEF PostLost, server
  <2>7. ASSUME BulkStopped \/ CloseDialog PROVE ActionsOK'
    BY <2>3, <2>7 DEF BulkStopped, CloseDialog, server
  <2> QED
    BY <1>3, <2>2, <2>4, <2>5, <2>6, <2>7 DEF Acting, Current
<1> QED
  BY <1>2, <1>3

LEMMA UploadingCurrent == ASSUME IInv, Current, Uploading PROVE Current'
PROOF
<1>1. UNCHANGED <<jobs, own, bulk, dialog>>
  BY DEF Uploading, Import, ImportServed, ImportLost, ImportAnswered, CancelUpload, Command, server,
         history
<1>2. upload'.kind \in {"none", "sent", "answered"}
  <2>1. \/ upload' = upload \/ upload' = None
        \/ \E n : upload' = [kind |-> "sent", n |-> n]
        \/ \E new : upload' = [kind |-> "answered", created |-> new]
    BY DEF Uploading, Import, ImportServed, ImportLost, ImportAnswered, CancelUpload, uploading
  <2> QED
    BY <2>1 DEF None, Current, ActionsOK
<1>3. \A x \in Book : row[x].rev \in Nat /\ row'[x].rev \in Nat /\ row[x].rev <= row'[x].rev
  <2>1. \A x \in Book : row[x].rev \in Nat
    BY RowBounds DEF IInv, RowOK
  <2>2. row' = row \/ \E i \in imports : row' = Written(i.book, FALSE)
    BY DEF Uploading, Import, ImportServed, ImportLost, ImportAnswered, CancelUpload, Command, server
  <2>3. ASSUME NEW i \in imports, row' = Written(i.book, FALSE)
        PROVE  \A x \in Book : row'[x].rev \in Nat /\ row[x].rev <= row'[x].rev
    <3>1. i.book \in Book /\ row \in [Book -> RowSet]
      BY DEF IInv, RowOK
    <3>2. /\ \A x \in Book : x # i.book => row'[x] = row[x]
          /\ row'[i.book].rev = row[i.book].rev + 1
      BY <2>3, <3>1, WrittenRow
    <3> QED
      BY <2>1, <3>1, <3>2
  <2>4. CASE row' = row
    <3>1. \A x \in Book : row'[x].rev = row[x].rev
      BY <2>4
    <3> QED
      BY <2>1, <3>1
  <2>5. CASE \E i \in imports : row' = Written(i.book, FALSE)
    <3>1. \A x \in Book : row'[x].rev \in Nat /\ row[x].rev <= row'[x].rev
      BY <2>3, <2>5
    <3> QED
      BY <2>1, <3>1
  <2> QED
    BY <2>2, <2>4, <2>5
<1>4. ActionsOK'
  <2>1. \A j \in DOMAIN jobs' : WrittenOK(jobs'[j], row')
    BY <1>1, <1>3 DEF Current, ActionsOK, WrittenOK
  <2>2. OwnOK'
    BY <1>1, <1>3 DEF Current, ActionsOK, OwnOK
  <2> QED
    BY <1>1, <1>2, <2>1, <2>2 DEF Current, ActionsOK
<1>5. ASSUME UNCHANGED <<browse, page, version, requests, asked, books, total, counted, busy, shown, failed,
                         all, selected, excluded>>, error' \in BOOLEAN
      PROVE  Current'
  BY <1>1, <1>4, <1>5, ListStays DEF Current, TicksOK
<1>6. error \in BOOLEAN
  BY DEF Current, ListInv, ListTypes
<1>7. CASE ImportAnswered /\ Remount
  <2>1. 1 \in Nat \ {0} /\ 0 \in 0 .. Books
    BY ShelfAssumption
  <2>2. browse \in Browse /\ version \in Nat
    BY DEF Current, ListInv, ListTypes
  <2>3. /\ Asks(browse, 1, version, FALSE) /\ books' = <<>> /\ total' = 0
        /\ all' = FALSE /\ selected' = {} /\ excluded' = {}
    BY <1>7 DEF Remount, Asks
  <2>4. \A i \in DOMAIN books' : books'[i] \in Rows
    BY <2>3
  <2>5. ListInv'
    BY <2>1, <2>2, <2>3, <2>4, AskedAgain DEF Current
  <2> QED
    BY <1>4, <2>3, <2>5 DEF Current, TicksOK
<1>8. CASE ImportAnswered /\ UNCHANGED <<list, selection>>
  BY <1>5, <1>6, <1>8 DEF list, selection
<1>9. CASE ~ImportAnswered
  <2>1. /\ UNCHANGED <<browse, page, version, requests, asked, books, total, counted, busy, shown, failed,
                       all, selected, excluded>>
    BY <1>9 DEF Uploading, Import, ImportServed, ImportLost, CancelUpload, list, selection
  <2>2. error' = error \/ error' \in BOOLEAN
    BY <1>9 DEF Uploading, Import, ImportServed, ImportLost, CancelUpload, list
  <2> QED
    BY <1>5, <1>6, <2>1, <2>2
<1> QED
  BY <1>7, <1>8, <1>9 DEF ImportAnswered

\* The server works on, and other devices do.
LEMMA ServerCurrent ==
    ASSUME IInv, Current, \E x \in Book : Advance(x) \/ OtherEdits(x) PROVE Current'
PROOF
<1>1. UNCHANGED <<list, selection, own, bulk, dialog, upload>>
  BY DEF Advance, OtherEdits, uploading, history
<1>2. \A x \in Book : row[x].rev \in Nat
  BY RowBounds DEF IInv, RowOK
<1>3. ListInv' /\ TicksOK'
  <2>1. error' \in BOOLEAN
    BY <1>1 DEF list, Current, ListInv, ListTypes
  <2> QED
    BY <1>1, <2>1, ListStays DEF list, selection, Current, TicksOK
<1>4. ASSUME \A x \in Book : row'[x].rev \in Nat /\ row[x].rev <= row'[x].rev PROVE OwnOK'
  BY <1>1, <1>2, <1>4 DEF Current, ActionsOK, OwnOK
<1>5. ASSUME NEW x \in Book, OtherEdits(x) PROVE ActionsOK'
  <2>1. \A y \in Book : row'[y].rev \in Nat /\ row[y].rev <= row'[y].rev
    <3>1. row \in [Book -> RowSet]
      BY DEF IInv, RowOK
    <3>2. CASE \E read \in BOOLEAN : row' = Written(x, read)
      BY <1>2, <3>1, <3>2, WrittenRow
    <3>3. CASE row' = [row EXCEPT ![x].present = FALSE]
      BY <1>2, <3>1, <3>3 DEF RowSet
    <3> QED
      BY <1>5, <3>2, <3>3 DEF OtherEdits
  <2>2. jobs' = jobs
    BY <1>5 DEF OtherEdits
  <2>3. \A j \in DOMAIN jobs' : WrittenOK(jobs'[j], row')
    BY <1>2, <2>1, <2>2 DEF Current, ActionsOK, WrittenOK
  <2> QED
    BY <1>1, <1>4, <2>1, <2>2, <2>3 DEF Current, ActionsOK
<1>6. ASSUME NEW x \in Book, Advance(x) PROVE ActionsOK'
  <2>1. PICK j \in DOMAIN jobs :
           /\ x \in jobs[j].pending
           /\ IF Unchanged(jobs[j], x)
              THEN /\ row' = Written(x, jobs[j].read)
                   /\ jobs' = [jobs EXCEPT ![j].pending = @ \ {x}, ![j].written = @ \cup {x}]
              ELSE /\ jobs' = [jobs EXCEPT ![j].pending = @ \ {x}]
                   /\ UNCHANGED row
    BY <1>6 DEF Advance
  <2>2. PICK job : job = jobs[j]
    OBVIOUS
  <2>3. JobOK(job) /\ WrittenOK(job, row)
    BY <2>2 DEF IInv, JobsOK, Current, ActionsOK
  <2>4. \A i \in DOMAIN jobs : WrittenOK(jobs[i], row)
    BY DEF Current, ActionsOK
  <2>5. CASE Unchanged(job, x)
    <3>1. PICK new : new = [job EXCEPT !.pending = @ \ {x}, !.written = @ \cup {x}]
      OBVIOUS
    <3>2. new.expects = job.expects /\ new.written = job.written \cup {x}
      BY <2>3, <3>1 DEF JobOK
    <3>3. jobs' = [jobs EXCEPT ![j] = new] /\ row' = Written(x, job.read)
      BY <2>1, <2>2, <2>5, <3>1
    <3>4. /\ \A y \in Book : row'[y].rev \in Nat /\ row[y].rev <= row'[y].rev
          /\ row'[x].rev = row[x].rev + 1
      <4>1. row \in [Book -> RowSet] /\ job.read \in BOOLEAN
        BY <2>3 DEF IInv, RowOK, JobOK
      <4> QED
        BY <1>2, <3>3, <4>1, WrittenRow
    <3>5. WrittenOK(new, row')
      <4>1. x \in DOMAIN job.expects /\ job.expects[x] = row[x].rev
        BY <2>1, <2>2, <2>3, <2>5 DEF JobOK, Unchanged
      <4> QED
        BY <1>2, <2>3, <3>2, <3>4, <4>1 DEF WrittenOK
    <3>6. \A i \in DOMAIN jobs : WrittenOK(jobs[i], row')
      <4>1. ASSUME NEW i \in DOMAIN jobs, NEW y \in jobs[i].written
            PROVE  /\ y \in DOMAIN jobs[i].expects /\ y \in Book
                   /\ jobs[i].expects[y] \in Nat /\ jobs[i].expects[y] + 1 <= row'[y].rev
        BY <1>2, <2>4, <3>4 DEF WrittenOK
      <4>2. \A i \in DOMAIN jobs : jobs'[i] = jobs[i] \/ (i = j /\ jobs'[i] = new)
        BY <3>3
      <4> QED
        BY <4>1 DEF WrittenOK
    <3>7. \A i \in DOMAIN jobs' : WrittenOK(jobs'[i], row')
      BY <3>3, <3>5, <3>6
    <3>8. DOMAIN jobs' = DOMAIN jobs
      BY <3>3
    <3> QED
      BY <1>1, <1>4, <3>4, <3>7, <3>8 DEF Current, ActionsOK
  <2>6. CASE ~Unchanged(job, x)
    <3>1. row' = row /\ jobs' = [jobs EXCEPT ![j].pending = @ \ {x}]
      BY <2>1, <2>2, <2>6
    <3>2. PICK new : new = [job EXCEPT !.pending = @ \ {x}]
      OBVIOUS
    <3>3. jobs' = [jobs EXCEPT ![j] = new] /\ new.expects = job.expects /\ new.written = job.written
      BY <2>2, <2>3, <3>1, <3>2 DEF JobOK
    <3>4. DOMAIN jobs' = DOMAIN jobs /\ \A i \in DOMAIN jobs : jobs'[i] = jobs[i] \/ jobs'[i] = new
      BY <3>3
    <3>5. \A i \in DOMAIN jobs' : WrittenOK(jobs'[i], row')
      BY <2>3, <2>4, <3>1, <3>3, <3>4 DEF WrittenOK
    <3>6. OwnOK'
      BY <1>1, <3>1 DEF Current, ActionsOK, OwnOK
    <3> QED
      BY <1>1, <3>4, <3>5, <3>6 DEF Current, ActionsOK
  <2> QED
    BY <2>5, <2>6
<1> QED
  BY <1>3, <1>5, <1>6 DEF Current

LEMMA InitCurrent == Init => Current
PROOF
<1> SUFFICES ASSUME Init PROVE Current
  OBVIOUS
<1>1. PICK r : /\ r = [n |-> 1, browse |-> "all", page |-> 1, version |-> 0, known |-> FALSE, phase |-> "sent"]
               /\ requests = {r}
  BY DEF Init
<1>2. RequestOK(r) /\ LiveOK(r) /\ Live(r)
  BY <1>1 DEF Init, RequestOK, LiveOK, Live, Browse
<1>3. ListTypes
  <2>1. 0 \in 0 .. Books /\ DOMAIN books = {}
    BY ShelfAssumption DEF Init
  <2>2. /\ browse = "all" /\ page = 1 /\ version = 0 /\ asked = 1 /\ total = 0
        /\ busy = TRUE /\ error = FALSE /\ failed = FALSE
    BY DEF Init
  <2>3. browse \in Browse /\ page \in Nat \ {0} /\ version \in Nat /\ asked \in Nat /\ total \in 0 .. Books
    BY <2>1, <2>2 DEF Browse
  <2>4. \A i \in DOMAIN books : books[i] \in Rows
    BY <2>1
  <2> QED
    BY <2>2, <2>3, <2>4 DEF ListTypes
<1>4. ShownIsAsked /\ LoadGoesOn /\ OwnActionShown
  BY <1>1, <1>2 DEF Init, ShownIsAsked, LoadGoesOn, OwnActionShown
<1>5. TicksOK
  BY DEF Init, TicksOK
<1>6. ActionsOK
  BY DEF Init, ActionsOK, OwnOK, None
<1> QED
  BY <1>1, <1>2, <1>3, <1>4, <1>5, <1>6 DEF Current, ListInv

LEMMA CurrentInductive == IInv /\ Current /\ [Next]_vars => Current'
PROOF
<1>1. ASSUME IInv, Current, UNCHANGED vars PROVE Current'
  <2>1. UNCHANGED <<row, jobs, own, bulk, dialog, upload, all, selected, excluded>>
    BY <1>1 DEF vars, server, selection, uploading, history
  <2>2. ListInv'
    <3>1. error' \in BOOLEAN
      BY <1>1 DEF vars, list, Current, ListInv, ListTypes
    <3> QED
      BY <1>1, <3>1, ListStays DEF vars, list, history, Current
  <2>3. ActionsOK' /\ TicksOK'
    BY <1>1, <2>1 DEF Current, ActionsOK, WrittenOK, OwnOK, TicksOK
  <2> QED
    BY <2>2, <2>3 DEF Current
<1> QED
  BY <1>1, LoadingCurrent, ShelvingCurrent, ActingCurrent, UploadingCurrent, ServerCurrent DEF Next

LEMMA CurrentFollows == ASSUME IInv, Current PROVE ShelfIsCurrent
PROOF
<1>1. Count \in 0 .. Books
  <2>1. IsFiniteSet(Book) /\ Cardinality(Book) = Books
    BY FS_Interval, ShelfAssumption DEF Book
  <2>2. /\ Cardinality(selected) \in Nat /\ Cardinality(selected) <= Books
        /\ Cardinality(excluded) \in Nat
    BY <2>1, FS_Subset, FS_CardinalityType DEF Current, TicksOK
  <2>3. total \in 0 .. Books
    BY DEF Current, ListInv, ListTypes
  <2> QED
    BY <2>2, <2>3, ShelfAssumption DEF Count
<1>2. \A j \in DOMAIN jobs : jobs[j].pending \cup jobs[j].written \subseteq DOMAIN jobs[j].expects
  BY DEF IInv, JobsOK, JobOK, Current, ActionsOK, WrittenOK
<1>3. TypeOK
  BY <1>1, <1>2 DEF TypeOK, IInv, RowOK, RowSet, Current, ListInv, ListTypes, RequestOK, TicksOK, ActionsOK
<1> QED
  BY <1>3 DEF ShelfIsCurrent, Current, ListInv

\* In whatever order lists are answered, and whatever fails, is removed elsewhere or is uploaded
\* meanwhile: a shelf that neither loads nor failed shows the query, page and version it stands
\* at, on a page there is; one that loads has its newest request under way; and no book is shown
\* as it was before an action the user saw through (Library.tsx's load effect, BulkActions'
\* changed()).
THEOREM ShelfIsCurrentTheorem == Spec => []ShelfIsCurrent
PROOF
<1>1. Init => IInv /\ Current
  BY InitInv, InitCurrent
<1>2. IInv /\ Current /\ [Next]_vars => IInv' /\ Current'
  BY Inductive, CurrentInductive
<1>3. IInv /\ Current => ShelfIsCurrent
  BY CurrentFollows
<1> QED
  BY <1>1, <1>2, <1>3, PTL DEF Spec
=============================================================================
