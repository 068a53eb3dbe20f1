----------------------------- MODULE Collections -----------------------------
(***************************************************************************)
(* A collection and its page: an ordered list of books, read a page at a   *)
(* time, that the page's own edits, other devices and the removal of books *)
(* change.  A static collection keeps a position for each of its books,    *)
(* with gaps; a dynamic one is whatever its rule matches.                  *)
(*                                                                         *)
(* The page does one thing at a time and holds one request of its own, so  *)
(* a request's turn on the server and the page's answer to it are one      *)
(* step: everything else may happen before it or after it.                 *)
(***************************************************************************)
EXTENDS Integers, Sequences, SequencesExt, FiniteSets, Ordering

CONSTANTS Books,      \* books 1 .. Books, in the library's order
          ItemPage,   \* books in one answer (ITEM_PAGE, 200)
          Names,      \* names of the collection
          MaxActs,    \* bound: what the user does
          MaxEdits,   \* bound: edits by others
          MaxLosses   \* bound: requests that fail

ASSUME CollectionsAssumption ==
    /\ Books \in Nat \ {0} /\ ItemPage \in Nat \ {0} /\ Names # {}
    /\ MaxActs \in Nat /\ MaxEdits \in Nat /\ MaxLosses \in Nat

Book == 1 .. Books
None == [kind |-> "none"]
End == 0    \* before_id null: the end of the list

VARIABLES
    place,      \* a book's position in the static collection, -1 outside of it
    dynamic, matches,  \* whether it has a rule, and the books that match it
    exists, name, revision,
    coll,       \* the CollectionPage on screen
    editing, draft,    \* the name being typed
    task,       \* the task of act(), or the load of the page
    actError,   \* whether the page shows an error
    acts, edits, losses,
    orders,     \* history: the order of a static collection, by revision
    acked       \* history: the revision the user's last answered edit made

server == <<place, dynamic, matches, exists, name, revision, orders>>
screen == <<coll, editing, draft>>
collectionVars == <<server, screen, task, actError, acts, edits, losses, acked>>

\* A rule's books are in the order of the library.
Positions == IF dynamic THEN [b \in Book |-> IF b \in matches THEN b ELSE -1] ELSE place
Order == Ranked(Positions)

\* A list with a book put before another.
Insert(s, b, before) ==
    LET rest == Minus(s, b)
    IN  InsertAt(rest, IF before = End THEN Len(rest) + 1 ELSE PlaceIn(rest, before), b)

\* The load of the page, and the task of an edit of what is on screen.
Load == [kind |-> "load", phase |-> "first", rev |-> 0, keep |-> 0, value |-> None,
         book |-> End, before |-> End, name |-> draft]
Edit(kind) == [Load EXCEPT !.kind = kind, !.phase = "write", !.rev = coll.rev,
                           !.keep = Len(coll.items)]

CollectionInit ==
    /\ place = Indexed(Book, [i \in 1 .. Books |-> i])
    /\ matches = Book /\ dynamic \in BOOLEAN
    /\ exists = TRUE /\ name \in Names /\ revision = 1
    /\ orders = [r \in {1} |-> Order]
    /\ coll = None /\ editing = FALSE /\ draft = name
    /\ task = Load
    /\ actError = FALSE /\ acts = 0 /\ edits = 0 /\ losses = 0 /\ acked = 0

-----------------------------------------------------------------------------
(* The server: get() and the edits.                                        *)

\* The page after a position; in a dynamic collection a book's position is its index.
Position(b) == IF dynamic THEN Rank(Positions, b) - 1 ELSE place[b]
Page(after) ==
    LET seen == Cardinality({b \in Members(Positions) : Position(b) <= after})
        last == IF Len(Order) < seen + ItemPage THEN Len(Order) ELSE seen + ItemPage
        items == SubSeq(Order, seen + 1, last)
    IN  [kind |-> "page", items |-> items, dynamic |-> dynamic, name |-> name, rev |-> revision,
         token |-> IF dynamic THEN Order ELSE <<>>,
         after |-> IF Len(items) = ItemPage THEN Position(Last(items)) ELSE -1]

\* Mutant: the next page is not tied to the revision of the first.
ContinuesAnyhow(page) == exists /\ (page.dynamic => dynamic /\ page.token = Order)

\* More than the first page: the revision and, of a dynamic collection, the result.
Continues(page) == exists /\ page.rev = revision /\ (page.dynamic => dynamic /\ page.token = Order)

\* A change of the collection. Only a change makes a new revision.
Becomes(at, isDynamic, called) ==
    /\ place' = at /\ dynamic' = isDynamic /\ name' = called
    /\ revision' = revision + 1
    /\ orders' = [r \in DOMAIN orders \cup {revision + 1} |->
                    IF r = revision + 1 THEN Order' ELSE orders[r]]
Same == UNCHANGED <<place, dynamic, name, revision, orders>>

\* edit_item(): add, remove and _move(), rename(), freeze() and delete().
Added(b) ==
    IF place[b] >= 0 THEN Same
    ELSE Becomes([place EXCEPT ![b] = IF Order = <<>> THEN 0 ELSE place[Last(Order)] + 1],
                 FALSE, name)
Removed(b) == place[b] >= 0 /\ Becomes([place EXCEPT ![b] = -1], FALSE, name)
\* Only the rows that do not hold their index already are rewritten.
Renumbered(order) ==
    [b \in Book |-> IF place[b] < 0 THEN -1
                    ELSE LET index == Indexed(Book, order)[b]
                         IN  IF place[b] # index THEN index ELSE place[b]]
Moved(b, before) ==
    /\ place[b] >= 0
    /\ before # End => place[before] >= 0
    /\ LET desired == Insert(Order, b, before)
       IN  IF desired = Order THEN Same ELSE Becomes(Renumbered(desired), FALSE, name)
Renamed(called) == IF called = name THEN Same ELSE Becomes(place, dynamic, called)
Frozen == IF dynamic THEN Becomes(Indexed(Book, Order), FALSE, name) ELSE Same

\* Mutant: the revision an edit expects is not looked at.
CurrentAnyhow(rev) == exists

\* The edit an operation asks for, of the revision it expects.
Current(rev) == exists /\ rev = revision
Edited(o) ==
    /\ Current(o.rev) /\ UNCHANGED matches
    /\ \/ o.kind = "delete" /\ exists' = FALSE /\ Same
       \/ /\ UNCHANGED exists
          /\ \/ ~dynamic /\ o.kind = "add" /\ Added(o.book)
             \/ ~dynamic /\ o.kind = "remove" /\ Removed(o.book)
             \/ ~dynamic /\ o.kind = "move" /\ Moved(o.book, o.before)
             \/ o.kind = "rename" /\ Renamed(o.name)
             \/ o.kind = "freeze" /\ Frozen
Refuses(o) ==
    \/ ~Current(o.rev)
    \/ dynamic /\ o.kind \in {"add", "remove", "move"}
    \/ o.kind \in {"remove", "move"} /\ place[o.book] < 0
    \/ o.kind = "move" /\ o.before # End /\ place[o.before] < 0

-----------------------------------------------------------------------------
(* The page's load, and its reload after an edit.                          *)

Failed == task' = None /\ actError' = TRUE
Show(page) ==
    /\ coll' = page /\ task' = None
    /\ draft' = IF task.kind = "more" THEN draft ELSE page.name
    /\ UNCHANGED <<editing, actError>>

\* As many books as were on screen, page after page.
Keep(page) ==
    IF Len(page.items) < task.keep /\ page.after # -1
    THEN task' = [task EXCEPT !.phase = "rest", !.value = page] /\ UNCHANGED <<screen, actError>>
    ELSE Show(page)

FirstPage ==
    /\ task.kind # "none" /\ task.phase = "first"
    /\ IF exists THEN Keep(Page(-1)) ELSE Failed /\ UNCHANGED screen
    /\ UNCHANGED <<server, acts, edits, losses, acked>>

FollowingPage ==
    /\ task.kind # "none" /\ task.phase = "rest"
    /\ IF Continues(task.value)
       THEN LET more == Page(task.value.after)
            IN  Keep([more EXCEPT !.items = task.value.items \o @])
       ELSE Failed /\ UNCHANGED screen
    /\ UNCHANGED <<server, acts, edits, losses, acked>>

-----------------------------------------------------------------------------
(* What the user does, one task at a time: act().                          *)

Shown == coll # None
Arranging == Shown /\ ~coll.dynamic
UserActs == acts < MaxActs /\ acts' = acts + 1 /\ UNCHANGED <<server, edits, losses, acked>>
Task(o) ==
    /\ UserActs /\ task = None
    /\ task' = o /\ actError' = FALSE
    /\ UNCHANGED screen
Add(b) == Arranging /\ b \notin ToSet(coll.items) /\ Task([Edit("add") EXCEPT !.book = b])
TakeOut(b) == Arranging /\ b \in ToSet(coll.items) /\ Task([Edit("remove") EXCEPT !.book = b])
\* By keys, by mouse or by touch. The end is the end only once every book is loaded.
Move(b, before) ==
    /\ Arranging /\ b \in ToSet(coll.items) /\ before \in (ToSet(coll.items) \ {b}) \cup {End}
    /\ before = End => coll.after = -1
    /\ Task([Edit("move") EXCEPT !.book = b, !.before = before])
Freeze == Shown /\ coll.dynamic /\ Task(Edit("freeze"))
Delete == Shown /\ Task(Edit("delete"))
More == Shown /\ coll.after # -1 /\ Task([Edit("more") EXCEPT !.phase = "rest", !.value = coll,
                                                             !.keep = @ + 1])

\* The name, typed in place; a name that is the old one is not sent.
TypeName(called) ==
    /\ UserActs /\ Shown /\ called # draft
    /\ editing' = TRUE /\ draft' = called
    /\ UNCHANGED <<coll, task, actError>>
Rename ==
    /\ editing
    /\ IF draft = coll.name
       THEN editing' = FALSE /\ UserActs /\ UNCHANGED <<coll, draft, task, actError>>
       ELSE Task(Edit("rename"))

CancelName ==
    /\ UserActs /\ editing
    /\ editing' = FALSE /\ draft' = coll.name
    /\ UNCHANGED <<coll, task, actError>>

\* The edit arrives; the page is loaded again, or left when the collection is deleted.
Written ==
    /\ task.kind # "none" /\ task.phase = "write" /\ Edited(task)
    /\ acked' = IF task.kind = "delete" THEN acked ELSE revision'
    /\ editing' = (editing /\ task.kind \notin {"rename", "delete"})
    /\ IF task.kind = "delete" THEN coll' = None /\ task' = None
       ELSE task' = [task EXCEPT !.phase = "first"] /\ UNCHANGED coll
    /\ UNCHANGED <<draft, actError, acts, edits, losses>>

Refused ==
    /\ task.kind # "none" /\ task.phase = "write" /\ Refuses(task)
    /\ Failed
    /\ UNCHANGED <<server, screen, acts, edits, losses, acked>>

\* A request fails: before it is served, or with its answer lost after it was.
Fault ==
    /\ task.kind # "none" /\ losses < MaxLosses /\ losses' = losses + 1
    /\ Failed
    /\ \/ UNCHANGED server
       \/ task.phase = "write" /\ Edited(task)
    /\ UNCHANGED <<screen, acts, edits, acked>>

\* Leaving the page, which a running task forbids, and coming back to it.
Reopen ==
    /\ UserActs /\ task.kind \in {"none", "load"}
    /\ task' = Load
    /\ coll' = None /\ editing' = FALSE /\ actError' = FALSE /\ UNCHANGED draft

-----------------------------------------------------------------------------
(* Others.                                                                 *)

Other == edits < MaxEdits /\ edits' = edits + 1 /\ exists
         /\ UNCHANGED <<screen, task, actError, acts, losses, acked>>

\* Another device edits the collection, with the current revision, or deletes it.
OtherEdits ==
    /\ Other /\ UNCHANGED <<exists, matches>>
    /\ \/ ~dynamic /\ \E b \in Book : Added(b) \/ Removed(b)
       \/ ~dynamic /\ \E b \in Book, before \in {End} \cup Book : b # before /\ Moved(b, before)
       \/ \E called \in Names : Renamed(called)
       \/ Frozen

OtherDeletes == Other /\ exists' = FALSE /\ Same /\ UNCHANGED matches

\* A book is removed from the library, or restored to it and put back into the list, which
\* numbers the others anew; or it comes to match the rule, or no longer does.
OtherRemovesBook(b) ==
    /\ Other /\ ~dynamic /\ place[b] >= 0 /\ UNCHANGED <<exists, matches>>
    /\ Becomes(Indexed(Book, Minus(Order, b)), FALSE, name)
OtherRestoresBook(b) ==
    /\ Other /\ ~dynamic /\ place[b] < 0 /\ UNCHANGED <<exists, matches>>
    /\ \E at \in 1 .. Len(Order) + 1 : Becomes(Indexed(Book, InsertAt(Order, at, b)), FALSE, name)
RuleMatches(b) ==
    /\ Other /\ Same /\ UNCHANGED exists
    /\ matches' = IF b \in matches THEN matches \ {b} ELSE matches \cup {b}

Loading == FirstPage \/ FollowingPage
Acting ==
    \/ \E b \in Book : Add(b) \/ TakeOut(b) \/ \E before \in {End} \cup Book : Move(b, before)
    \/ Freeze \/ Delete \/ More \/ Rename \/ CancelName \/ \E called \in Names : TypeName(called)
    \/ Written \/ Refused \/ Reopen
Others == \/ OtherEdits \/ OtherDeletes
          \/ \E b \in Book : OtherRemovesBook(b) \/ OtherRestoresBook(b) \/ RuleMatches(b)

CollectionNext == Loading \/ Acting \/ Fault \/ Others

CollectionSpec == CollectionInit /\ [][CollectionNext]_collectionVars

-----------------------------------------------------------------------------
(* Properties.                                                             *)

CollectionTypeOK ==
    /\ place \in [Book -> Nat \cup {-1}] /\ matches \subseteq Book
    /\ {dynamic, exists, editing, actError} \subseteq BOOLEAN
    /\ {name, draft} \subseteq Names /\ revision \in DOMAIN orders
    /\ Shown => ToSet(coll.items) \subseteq Book /\ coll.rev \in 1 .. revision
    /\ task.kind \in {"none", "load", "more", "add", "remove", "move", "rename", "freeze", "delete"}
    /\ task.kind # "none" => task.phase \in {"write", "first", "rest"}

\* No two books of a collection share a position, with whatever gaps removals left: the
\* table's key would refuse the second (_move(), which rewrites only some of the rows).
NoClash == \A x, y \in Book : x # y /\ place[x] >= 0 => place[x] # place[y]

\* The books on screen, loaded page by page while others edit, are the first books of the
\* collection as it was at one moment, and all of them when no more are offered.
OneSnapshot ==
    Shown => LET whole == IF coll.dynamic THEN coll.token ELSE orders[coll.rev]
             IN  /\ IsPrefix(coll.items, whole)
                 /\ coll.after = -1 => coll.items = whole

\* Once an edit of the user is answered, a page at rest without an error shows it.
OwnEditShown == task = None /\ ~actError /\ Shown => coll.rev >= acked

\* An edit of the user's that takes effect makes of the order on screen what the user
\* asked for, and neither adds nor drops another book; in what order the books that are not
\* loaded follow is not said.
TakesEffect ==
    /\ task.kind \in {"add", "remove", "move"} /\ task.phase = "write"
    /\ task'.kind = task.kind /\ task'.phase = "first"
Wanted == CASE task.kind = "move" -> Insert(coll.items, task.book, task.before)
            [] task.kind = "remove" -> Minus(coll.items, task.book)
            [] task.kind = "add" -> coll.items
EditsAsSeen ==
    [][TakesEffect =>
         /\ IsPrefix(Wanted, Order')
         /\ ToSet(Order') = IF task.kind = "remove" THEN ToSet(Order) \ {task.book}
                            ELSE ToSet(Order) \cup {task.book}
         /\ task.kind = "add" /\ task.book \notin ToSet(Order) => Last(Order') = task.book
    ]_collectionVars

\* The list is sound in the table and on the screen.
ListIsSound == CollectionTypeOK /\ NoClash /\ OneSnapshot /\ OwnEditShown
=============================================================================
