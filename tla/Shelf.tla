-------------------------------- MODULE Shelf --------------------------------
(***************************************************************************)
(* The library page: the shelf of books a query finds, a page at a time,   *)
(* the selection on it, bulk actions, which the server records as jobs and *)
(* carries out in the background while other devices go on editing, and    *)
(* the upload of a book, after which the page is left for that book's.     *)
(*                                                                         *)
(* The list is asked for anew whenever the query, the page or the version  *)
(* of the library changes; an answer to an earlier request is dropped.     *)
(* React's render and effects after an event are part of its step.         *)
(***************************************************************************)
EXTENDS Integers, Sequences, SequencesExt, FiniteSets, Ordering

CONSTANTS Books,        \* books 1 .. Books, in the library's order
          PageSize,     \* books on a page (24)
          MaxCommands,  \* bound: commands of the user
          MaxEdits,     \* bound: edits and removals by other devices
          MaxFaults     \* bound: requests that fail

ASSUME ShelfAssumption ==
    /\ Books \in Nat \ {0} /\ PageSize \in Nat \ {0}
    /\ MaxCommands \in Nat /\ MaxEdits \in Nat /\ MaxFaults \in Nat

Book == 1 .. Books
Browse == {"all", "unread"}

VARIABLES
    row,       \* the server's books: in the library, read, personal revision
    jobs,      \* bulk jobs: what they set, the revisions they expect, what is left
    browse, page,
    version,   \* the page's refreshes and the App's libraryVersion
    requests,  \* requests for the list; the newest has number `asked`
    asked,
    books,     \* the list on screen: sequence of books with their revisions
    total,     \* their total number
    counted,   \* the query and version the total was counted for
    busy, error,
    all, selected, excluded,   \* BookShelf's selection
    dialog,    \* the selection given to BulkActions, if it is open
    bulk,      \* BulkActions' running action: waiting for the post, or watching a job
    posts,     \* the posts of new jobs, on their way even when nobody waits for them
    upload,    \* the upload the page waits for
    imports,   \* uploads on their way to the server, cancelled ones too
    commands, edits, faults,
    shown,     \* history: what the list on screen was asked for
    failed,    \* history: the newest request for the list failed
    own,       \* history: revisions that bulk actions seen through have written
    foreign    \* history: the last revision another device wrote

server == <<row, jobs>>
list == <<browse, page, version, requests, asked, books, total, counted, busy, error, shown,
          failed>>
selection == <<all, selected, excluded>>
history == <<own, foreign>>
uploading == <<upload, imports>>
vars == <<server, list, selection, dialog, bulk, posts, uploading, commands, edits, faults, history>>

None == [kind |-> "none"]

\* The books a query finds, in order, a page of them, and the last page of a number of books.
Found(b) == {x \in Book : row[x].present /\ (b = "unread" => ~row[x].read)}
PageIds(b, p) ==
    LET found == InOrder(Found(b))
        last == IF p * PageSize < Len(found) THEN p * PageSize ELSE Len(found)
    IN  SubSeq(found, (p - 1) * PageSize + 1, last)
PageOf(b, p) ==
    LET ids == PageIds(b, p)
    IN  [i \in DOMAIN ids |-> [id |-> ids[i], rev |-> row[ids[i]].rev]]
LastPage(n) == IF n <= PageSize THEN 1 ELSE (n + PageSize - 1) \div PageSize

Ids == {books[i].id : i \in DOMAIN books}
Checked == IF all THEN Ids \ excluded ELSE selected
Count == IF ~all THEN Cardinality(selected)
         ELSE IF total > Cardinality(excluded) THEN total - Cardinality(excluded) ELSE 0

Init ==
    /\ row = [x \in Book |-> [present |-> TRUE, read |-> FALSE, rev |-> 1]]
    /\ jobs = <<>>
    /\ browse = "all" /\ page = 1 /\ version = 0
    /\ requests = {[n |-> 1, browse |-> "all", page |-> 1, version |-> 0, known |-> FALSE,
                    phase |-> "sent"]}
    /\ asked = 1 /\ books = <<>> /\ total = 0 /\ counted = <<>>
    /\ busy = TRUE /\ error = FALSE /\ failed = FALSE
    /\ upload = None /\ imports = {}
    /\ all = FALSE /\ selected = {} /\ excluded = {}
    /\ dialog = None /\ bulk = None
    /\ commands = 0 /\ edits = 0 /\ faults = 0
    /\ posts = {} /\ shown = <<>> /\ own = [x \in Book |-> 0] /\ foreign = [x \in Book |-> 0]

-----------------------------------------------------------------------------
(* The list.                                                               *)

\* The load effect for a new query, page or version; BookShelf starts afresh with it.
\* The total is not asked for again while it is known for that query and version.
Load(b, p, v, known) ==
    /\ browse' = b /\ page' = p /\ version' = v
    /\ asked' = asked + 1
    /\ requests' = requests \cup
         {[n |-> asked + 1, browse |-> b, page |-> p, version |-> v, known |-> known,
           phase |-> "sent"]}
    /\ busy' = TRUE /\ error' = FALSE /\ failed' = FALSE
    /\ all' = FALSE /\ selected' = {} /\ excluded' = {}

\* Mutant: the answer of an older request counts.
LiveAny(r) == TRUE

\* An abort leaves only the newest request alive.
Live(r) == r.n = asked

\* The server reads the page, and the number of books when it is asked to.
ListRead(r) ==
    /\ r.phase = "sent"
    /\ requests' = (requests \ {r}) \cup
         {[n |-> r.n, browse |-> r.browse, page |-> r.page, version |-> r.version,
           known |-> r.known, phase |-> "read", books |-> PageOf(r.browse, r.page),
           total |-> Cardinality(Found(r.browse))]}
    /\ UNCHANGED <<server, browse, page, version, asked, books, total, counted, busy, error, shown,
                   failed, selection, dialog, bulk, posts, uploading, commands, edits, faults, history>>

\* A page past the end moves to the last one there is.
ListShown(r) ==
    /\ r.phase = "read" /\ Live(r)
    /\ books' = r.books
    /\ shown' = <<r.browse, r.page, r.version>>
    /\ total' = IF r.known THEN total ELSE r.total
    /\ counted' = <<r.browse, r.version>>
    /\ IF page > LastPage(total') THEN Load(browse, LastPage(total'), version, TRUE)
       ELSE /\ busy' = FALSE
            /\ requests' = requests \ {r}
            /\ UNCHANGED <<browse, page, version, asked, error, failed, selection>>
    /\ UNCHANGED <<server, dialog, bulk, posts, uploading, commands, edits, faults, history>>

Dropped(r) ==
    /\ ~Live(r)
    /\ requests' = requests \ {r}
    /\ UNCHANGED <<server, browse, page, version, asked, books, total, counted, busy, error, shown,
                   failed, selection, dialog, bulk, posts, uploading, commands, edits, faults, history>>

ListFails(r) ==
    /\ Live(r) /\ faults < MaxFaults /\ faults' = faults + 1
    /\ requests' = requests \ {r}
    /\ error' = TRUE /\ busy' = FALSE /\ failed' = TRUE
    /\ UNCHANGED <<server, browse, page, version, asked, books, total, counted, shown,
                   selection, dialog, bulk, posts, uploading, commands, edits, history>>

\* Commands on the shelf, which a dialog covers.
Command ==
    /\ commands < MaxCommands /\ commands' = commands + 1
    /\ UNCHANGED <<server, edits, faults, history>>
OnShelf == dialog = None /\ Command /\ UNCHANGED <<posts, uploading>>

\* Arrow keys and the page buttons, which a list that loads disables.
Reaches(p) == ~busy /\ p # page /\ p \in 1 .. LastPage(total)
TurnPage(p) ==
    /\ OnShelf /\ Reaches(p)
    /\ Load(browse, p, version, counted = <<browse, version>>)
    /\ UNCHANGED <<books, total, counted, shown, dialog, bulk>>

SetBrowse(b) ==
    /\ OnShelf /\ b # browse
    /\ Load(b, 1, version, counted = <<b, version>>)
    /\ UNCHANGED <<books, total, counted, shown, dialog, bulk>>

\* "Refresh library", offered with an error.
RefreshShelf ==
    /\ OnShelf /\ error
    /\ books' = <<>>
    /\ Load(browse, 1, version + 1, FALSE)
    /\ UNCHANGED <<total, counted, shown, dialog, bulk>>

-----------------------------------------------------------------------------
(* BookShelf.                                                              *)

Flip(S, x) == IF x \in S THEN S \ {x} ELSE S \cup {x}

Select(x) ==
    /\ OnShelf /\ x \in Ids
    /\ IF all THEN excluded' = Flip(excluded, x) /\ UNCHANGED selected
       ELSE selected' = Flip(selected, x) /\ UNCHANGED excluded
    /\ UNCHANGED <<list, all, dialog, bulk>>

\* A range, a drag, Ctrl+A or "select loaded": books of the list on screen.
SelectMany(S) ==
    /\ OnShelf /\ S \subseteq Ids /\ S # {}
    /\ all' = FALSE /\ excluded' = {} /\ selected' = S
    /\ UNCHANGED <<list, dialog, bulk>>

SelectAll ==
    /\ OnShelf /\ ~busy /\ total > 0
    /\ all' = TRUE /\ excluded' = {} /\ selected' = {}
    /\ UNCHANGED <<list, dialog, bulk>>

ClearSelection ==
    /\ OnShelf /\ <<all, selected>> # <<FALSE, {}>>
    /\ all' = FALSE /\ excluded' = {} /\ selected' = {}
    /\ UNCHANGED <<list, dialog, bulk>>

AsShown(ids) == {b \in ToSet(books) : b.id \in ids}
Opens(picked) ==
    /\ dialog' = [kind |-> "open", books |-> picked, all |-> all, browse |-> browse,
                  total |-> total, exclude |-> excluded]
    /\ UNCHANGED <<list, selection, bulk>>

\* The toolbar's button, and a book's menu, which serves the book itself when none is ticked.
Organize == OnShelf /\ ~busy /\ Count > 0 /\ Opens(AsShown(selected))
OrganizeBook(x) ==
    OnShelf /\ x \in Ids /\ Opens(AsShown(IF Count > 0 THEN Checked ELSE {x}))

-----------------------------------------------------------------------------
(* BulkActions.                                                            *)

DialogCount == IF dialog.all THEN dialog.total - Cardinality(dialog.exclude)
               ELSE Cardinality(dialog.books)

\* "Apply": a new job, with the revisions on screen or, for all results, with their number.
Apply(read) ==
    /\ Command /\ dialog # None /\ bulk = None /\ DialogCount > 0
    /\ bulk' = [kind |-> "posted", n |-> commands']
    /\ posts' = posts \cup {[n |-> commands', read |-> read, of |-> dialog]}
    /\ UNCHANGED <<list, selection, dialog, uploading>>

\* Mutant: unticked books are forgotten.
TargetsUnticked(of) ==
    IF of.all THEN [x \in Found(of.browse) |-> row[x].rev]
    ELSE [x \in {b.id : b \in of.books} |-> (CHOOSE b \in of.books : b.id = x).rev]

\* create_bulk(): the books with the revisions their job expects. All results are read
\* again, provided there are as many of them as were counted.
Targets(of) ==
    IF of.all THEN [x \in Found(of.browse) \ of.exclude |-> row[x].rev]
    ELSE [x \in {b.id : b \in of.books} |-> (CHOOSE b \in of.books : b.id = x).rev]
Expected(of) == of.all => Cardinality(Found(of.browse)) = of.total

\* Its answer, a job to watch or a conflict, reaches whoever still waits for it.
BulkServed(q) ==
    /\ posts' = posts \ {q}
    /\ LET waiting == bulk = [kind |-> "posted", n |-> q.n]
           expects == Targets(q.of)
       IN  IF Expected(q.of)
           THEN /\ jobs' = Append(jobs, [read |-> q.read, of |-> q.of, expects |-> expects,
                                         pending |-> DOMAIN expects, written |-> {}])
                /\ bulk' = IF waiting THEN [kind |-> "watched", job |-> Len(jobs) + 1] ELSE bulk
           ELSE /\ bulk' = IF waiting THEN None ELSE bulk
                /\ UNCHANGED jobs
    /\ UNCHANGED <<row, list, selection, dialog, uploading, commands, edits, faults, history>>

\* A book's personal state is written, or the book comes into the library.
Written(x, read) == [row EXCEPT ![x] = [present |-> TRUE, read |-> read, rev |-> @.rev + 1]]

\* Mutant: the revision is not compared when the book's turn comes.
UnchangedOrNot(job, x) == row[x].present

\* advance() and _apply_personal(), for one book of the oldest job that is not done: a
\* book that is gone or has changed is only reported.
Unchanged(job, x) == row[x].present /\ row[x].rev = job.expects[x]

Advance(x) ==
    \E j \in DOMAIN jobs :
        /\ \A i \in 1 .. j - 1 : jobs[i].pending = {}
        /\ x \in jobs[j].pending
        /\ IF Unchanged(jobs[j], x)
           THEN /\ row' = Written(x, jobs[j].read)
                /\ jobs' = [jobs EXCEPT ![j].pending = @ \ {x}, ![j].written = @ \cup {x}]
           ELSE /\ jobs' = [jobs EXCEPT ![j].pending = @ \ {x}]
                /\ UNCHANGED row
        /\ UNCHANGED <<list, selection, dialog, bulk, posts, uploading, commands, edits, faults,
                       history>>

\* The poll finds the job done: the shelf is loaded anew, the dialog stays open.
BulkDone ==
    /\ bulk.kind = "watched" /\ jobs[bulk.job].pending = {}
    /\ bulk' = None
    /\ own' = [x \in Book |-> IF x \in jobs[bulk.job].written
                              THEN jobs[bulk.job].expects[x] + 1 ELSE own[x]]
    /\ Load(browse, page, version + 1, FALSE)
    /\ UNCHANGED <<server, books, total, counted, shown, dialog, posts, uploading, commands, edits,
                   faults, foreign>>

\* "Stop", or a request of it that fails: nothing is watched any more, the job goes on.
BulkStopped ==
    /\ bulk # None /\ bulk' = None
    /\ UNCHANGED <<server, list, selection, dialog, posts, uploading, commands, edits, faults, history>>
PostLost(q) ==
    /\ faults < MaxFaults /\ faults' = faults + 1
    /\ posts' = posts \ {q}
    /\ bulk' = IF bulk = [kind |-> "posted", n |-> q.n] THEN None ELSE bulk
    /\ UNCHANGED <<server, list, selection, dialog, uploading, commands, edits, history>>

CloseDialog ==
    /\ dialog # None
    /\ dialog' = None /\ bulk' = None
    /\ UNCHANGED <<server, list, selection, posts, uploading, commands, edits, faults, history>>

-----------------------------------------------------------------------------
(* Uploads and leaving the page.                                           *)

\* The page is left and comes back, mounted anew: nothing of its list stays.
Remount ==
    /\ page' = 1 /\ asked' = asked + 1 /\ busy' = TRUE /\ error' = FALSE /\ failed' = FALSE
    /\ requests' = requests \cup {[n |-> asked + 1, browse |-> browse, page |-> 1,
                                   version |-> version, known |-> FALSE, phase |-> "sent"]}
    /\ books' = <<>> /\ total' = 0 /\ counted' = <<>> /\ shown' = <<>>
    /\ all' = FALSE /\ selected' = {} /\ excluded' = {}
    /\ UNCHANGED <<browse, version>>

\* The page's guard keeps it while an upload runs.
Leave == OnShelf /\ upload = None /\ Remount /\ UNCHANGED <<dialog, bulk>>

\* importFiles(): files that are refused, or an upload; either clears the page's error.
Import(x) ==
    /\ dialog = None /\ Command /\ upload = None
    /\ error' = FALSE
    /\ \/ error /\ UNCHANGED uploading
       \/ /\ upload' = [kind |-> "sent", n |-> commands']
          /\ imports' = imports \cup {[n |-> commands', book |-> x]}
    /\ UNCHANGED <<browse, page, version, requests, asked, books, total, counted, busy, shown,
                   failed, selection, dialog, bulk, posts>>

\* The import of a book that is there already changes nothing.
ImportServed(i) ==
    /\ imports' = imports \ {i}
    /\ LET new == ~row[i.book].present
       IN  /\ row' = IF new THEN Written(i.book, FALSE) ELSE row
           /\ foreign' = [foreign EXCEPT ![i.book] = IF new THEN row'[i.book].rev ELSE @]
           /\ upload' = IF upload = [kind |-> "sent", n |-> i.n]
                        THEN [kind |-> "answered", created |-> new] ELSE upload
    /\ UNCHANGED <<jobs, list, selection, dialog, bulk, posts, commands, edits, faults, own>>

\* The page goes to the book, unless its JSON files were not used because it exists.
ImportAnswered ==
    /\ upload.kind = "answered" /\ upload' = None
    /\ \/ Remount
       \/ ~upload.created /\ UNCHANGED <<list, selection>>
    /\ UNCHANGED <<server, imports, dialog, bulk, posts, commands, edits, faults, history>>

ImportLost(i) ==
    /\ faults < MaxFaults /\ faults' = faults + 1
    /\ imports' = imports \ {i}
    /\ LET waiting == upload = [kind |-> "sent", n |-> i.n]
       IN  upload' = (IF waiting THEN None ELSE upload) /\ error' = (error \/ waiting)
    /\ UNCHANGED <<server, browse, page, version, requests, asked, books, total, counted, busy,
                   shown, failed, selection, dialog, bulk, posts, commands, edits, history>>

\* "Cancel": what the server has received it goes on importing.
CancelUpload ==
    /\ dialog = None /\ upload.kind # "none" /\ upload' = None
    /\ UNCHANGED <<server, list, selection, dialog, bulk, posts, imports, commands, edits, faults,
                   history>>

-----------------------------------------------------------------------------
\* Another device reads a book, removes it, or imports it again as a new one.
OtherEdits(x) ==
    /\ edits < MaxEdits /\ edits' = edits + 1
    /\ \/ row[x].present /\ \E read \in BOOLEAN \ {row[x].read} : row' = Written(x, read)
       \/ row[x].present /\ row' = [row EXCEPT ![x].present = FALSE]
       \/ ~row[x].present /\ row' = Written(x, FALSE)
    /\ foreign' = [foreign EXCEPT ![x] = row'[x].rev]
    /\ UNCHANGED <<jobs, list, selection, dialog, bulk, posts, uploading, commands, faults, own>>

Loading == \E r \in requests : ListRead(r) \/ ListShown(r) \/ Dropped(r) \/ ListFails(r)
Shelving == \/ \E p \in 1 .. Books : TurnPage(p)
            \/ \E b \in Browse : SetBrowse(b)
            \/ RefreshShelf \/ Leave \/ SelectAll \/ ClearSelection \/ Organize
            \/ \E x \in Book : Select(x) \/ OrganizeBook(x)
            \/ \E S \in SUBSET Book : SelectMany(S)
Acting == \/ \E read \in BOOLEAN : Apply(read)
          \/ \E q \in posts : BulkServed(q) \/ PostLost(q)
          \/ BulkDone \/ BulkStopped \/ CloseDialog
Uploading == \/ \E x \in Book : Import(x)
             \/ \E i \in imports : ImportServed(i) \/ ImportLost(i)
             \/ ImportAnswered \/ CancelUpload

Next == Loading \/ Shelving \/ Acting \/ Uploading \/ \E x \in Book : Advance(x) \/ OtherEdits(x)

Spec == Init /\ [][Next]_vars

-----------------------------------------------------------------------------
(* Properties.                                                             *)

Rows == [id : Book, rev : Nat]

TypeOK ==
    /\ row \in [Book -> [present : BOOLEAN, read : BOOLEAN, rev : Nat]]
    /\ browse \in Browse /\ page \in Nat \ {0} /\ version \in Nat /\ asked \in Nat
    /\ \A r \in requests : r.n \in 1 .. asked /\ r.phase \in {"sent", "read"}
    /\ \A i \in DOMAIN books : books[i] \in Rows
    /\ total \in 0 .. Books /\ Count \in 0 .. Books
    /\ {busy, error, failed, all} \subseteq BOOLEAN
    /\ upload.kind \in {"none", "sent", "answered"}
    /\ selected \cup excluded \subseteq Book
    /\ bulk.kind \in {"none", "posted", "watched"} /\ bulk # None => dialog # None
    /\ \A j \in DOMAIN jobs : jobs[j].pending \cup jobs[j].written \subseteq DOMAIN jobs[j].expects

\* Whatever order the answers arrive in, a shelf that neither loads nor failed to shows the
\* query, page and version it stands at, on a page that exists, under the total
\* counted for them (Library.tsx's load effect).
ShownIsAsked ==
    ~busy /\ ~failed => /\ shown = <<browse, page, version>> /\ counted = <<browse, version>>
                        /\ page <= LastPage(total)

\* A list that could not be loaded is told of as long as it is shown.
FailureIsTold == failed => error

\* A shelf that still loads has its newest request under way: it can't wait for ever.
LoadGoesOn == busy => \E r \in requests : Live(r)

\* After an action seen through to its end, the shelf doesn't show a book as it was before
\* the action (BulkActions' changed(), the App's libraryVersion).
OwnActionShown ==
    ~busy /\ ~failed => \A i \in DOMAIN books : books[i].rev >= own[books[i].id]

\* An action on chosen books changes a book only as the user saw it: whatever another
\* device wrote meanwhile, before the action was posted or before its turn came, stays
\* (create_bulk()'s revisions and _apply_personal()).
ChangesWhatWasSeen ==
    [][\A j \in DOMAIN jobs, x \in Book :
         x \in jobs'[j].written \ jobs[j].written =>
            /\ foreign[x] <= jobs[j].expects[x]
            /\ ~jobs[j].of.all => [id |-> x, rev |-> row[x].rev] \in jobs[j].of.books]_vars

\* An action on all results never reaches a book that was unticked, nor more books
\* than the user was told the query finds.
ReachesWhatWasAsked ==
    \A j \in DOMAIN jobs :
        LET of == jobs[j].of
        IN  of.all => DOMAIN jobs[j].expects \cap of.exclude = {}
                      /\ Cardinality(DOMAIN jobs[j].expects) <= of.total

\* The list on screen is what was asked for last, and keeps up with the user's own actions.
ShelfIsCurrent == TypeOK /\ ShownIsAsked /\ LoadGoesOn /\ OwnActionShown
=============================================================================
