------------------------------- MODULE Removal -------------------------------
(***************************************************************************)
(* Removing books: the dialog that previews and confirms it in batches,    *)
(* the receipts that make each batch repeatable, the deletion of the files *)
(* that follows, and the recycle bin's ways back.                          *)
(*                                                                         *)
(* Contents are told by their home paths: x is both a content and the path *)
(* of its archive, which may hold that content, something else or nothing. *)
(* A deletion holds the library's mutation lock from its checks to its     *)
(* last record; every other operation here takes that lock for one step,   *)
(* but what people do to the files themselves needs no lock.               *)
(***************************************************************************)
EXTENDS Integers, Sequences, SequencesExt, FiniteSets, FiniteSetsExt, Ordering

CONSTANTS ContentCount, \* contents 1 .. ContentCount
          BatchSize,   \* books in one removal (100)
          MaxActs,     \* bound: what the user does
          MaxEdits,    \* bound: what others do, to the library or to the files
          MaxFaults    \* bound: crashes, refused unlinks, lost answers

ASSUME RemovalAssumption ==
    /\ ContentCount \in Nat \ {0} /\ BatchSize \in Nat \ {0}
    /\ MaxActs \in Nat /\ MaxEdits \in Nat /\ MaxFaults \in Nat

Content == 1 .. ContentCount
None == 0
Closed == [waits |-> None, open |-> FALSE]    \* no dialog

VARIABLES
    bookId,     \* the id of the book registered for a content, None if there is none
    nextBook,
    edited,     \* revisions of the book's metadata and personal state
    file, stamp,   \* what is at a content's path: "own", "other" or "none"; its stamp
    place,      \* the book's position in a collection, -1 outside of it
    revision,   \* the collection's revision
    receipts,   \* removals recorded, by identifier
    nextId,
    scanning,   \* whether a scan is active
    tasks,      \* removals and deletions under way on the server
    lock,       \* whether a deletion holds the mutation lock
    dialog,     \* the RemovalDialog, or Closed
    acts, edits, faults,
    unlinked,   \* history: which receipt's deletion unlinked a content's file
    changed     \* history: paths changed by hand since a deletion checked them

library == <<bookId, nextBook, edited, place, revision>>
archives == <<file, stamp>>
counts == <<acts, edits, faults>>
removalVars == <<library, archives, receipts, nextId, scanning, tasks, lock, dialog, counts,
                 unlinked, changed>>

\* The collection, and what is left of it without the books S.
Collection == Ranked(place)
Outside(S) == [x \in Content |-> IF x \in S THEN -1 ELSE place[x]]

RemovalInit ==
    /\ bookId = [x \in Content |-> x] /\ nextBook = ContentCount + 1
    /\ edited = [x \in Content |-> 1]
    /\ file = [x \in Content |-> "own"] /\ stamp = [x \in Content |-> 1]
    /\ \E n \in {ContentCount - 1, ContentCount} : place = Indexed(Content, [i \in 1 .. n |-> i])
    /\ revision = 1
    /\ receipts = <<>> /\ nextId = 1 /\ scanning = FALSE
    /\ tasks = {} /\ lock = FALSE /\ dialog = Closed
    /\ acts = 0 /\ edits = 0 /\ faults = 0
    /\ unlinked = [x \in Content |-> {}] /\ changed = {}

Unlocked == ~lock

-----------------------------------------------------------------------------
(* The dialog.                                                             *)

\* _preview(): all that a book's removal depends on, as its token.
Token(S) == [x \in S |-> [book |-> bookId[x], edited |-> edited[x], file |-> file[x],
                          stamp |-> stamp[x], place |-> place[x],
                          collection |-> IF place[x] >= 0 THEN revision ELSE 0,
                          blocked |-> scanning]]

Batches(S) ==
    LET Batch(k) == {x \in S : Cardinality({y \in S : y < x}) \div BatchSize = k - 1}
    IN  [k \in 1 .. (Cardinality(S) + BatchSize - 1) \div BatchSize |-> Batch(k)]

Acting == acts < MaxActs /\ acts' = acts + 1 /\ UNCHANGED <<edits, faults>>
OutOfDialog == UNCHANGED <<library, archives, receipts, scanning, lock, unlinked, changed>>

\* The dialog opens on chosen books and previews them, batch after batch.
OpenDialog(S) ==
    /\ Acting /\ dialog = Closed /\ S # {}
    /\ \A x \in S : bookId[x] # None
    /\ dialog' = [open |-> TRUE, batches |-> Batches(S), previews |-> <<>>, delete |-> FALSE, waits |-> None,
                  done |-> {}, error |-> FALSE, ids |-> [x \in S |-> bookId[x]]]
    /\ UNCHANGED <<nextId, tasks>> /\ OutOfDialog

Previewed == dialog.open /\ Len(dialog.previews) = Len(dialog.batches)
PreviewBlocks == \E i \in DOMAIN dialog.previews :
                   \E x \in DOMAIN dialog.previews[i].token : dialog.previews[i].token[x].blocked

\* preview(), preview_selected(): fails when one of the books is gone.
Preview ==
    /\ dialog.open /\ ~Previewed /\ ~dialog.error /\ Unlocked
    /\ LET S == dialog.batches[Len(dialog.previews) + 1]
       IN  IF \A x \in S : bookId[x] = dialog.ids[x]
           THEN /\ dialog' = [dialog EXCEPT !.previews = Append(@, [id |-> nextId, token |-> Token(S)])]
                /\ nextId' = nextId + 1
           ELSE dialog' = [dialog EXCEPT !.error = TRUE] /\ UNCHANGED nextId
    /\ UNCHANGED <<tasks, counts>> /\ OutOfDialog

TickDelete ==
    /\ Acting /\ dialog.open /\ dialog.waits = None
    /\ dialog' = [dialog EXCEPT !.delete = ~@]
    /\ UNCHANGED <<nextId, tasks>> /\ OutOfDialog

\* The removal of a batch on its way: the task number tells whose answer the dialog awaits.
Batch(d, i) == [n |-> acts' * (ContentCount + 1) + i, id |-> d.previews[i].id, delete |-> d.delete,
                token |-> d.previews[i].token, phase |-> "commit", left |-> {}]
NextBatch(d) == {i \in DOMAIN d.batches : ~(d.batches[i] \subseteq d.done)}
Post(d) ==
    LET t == Batch(d, Min(NextBatch(d)))
    IN  /\ tasks' = tasks \cup {t}
        /\ dialog' = [d EXCEPT !.waits = t.n]

Confirm ==
    /\ Acting /\ dialog.open /\ Previewed /\ dialog.waits = None /\ ~PreviewBlocks
    /\ Post([dialog EXCEPT !.error = FALSE])
    /\ UNCHANGED nextId /\ OutOfDialog

\* The dialog gives up its books or tells the page which ones are removed.
Cancel ==
    /\ Acting /\ dialog.open /\ dialog.waits = None
    /\ dialog' = Closed
    /\ UNCHANGED <<nextId, tasks>> /\ OutOfDialog

\* A task ends: the dialog that awaits it goes on with the next batch, or closes.
Ends(t, good) ==
    LET d == dialog
        told == [d EXCEPT !.done = @ \cup DOMAIN t.token]
    IN  /\ UNCHANGED <<nextId, counts>>
        /\ IF t.n = None \/ d.waits # t.n
           THEN dialog' = d /\ tasks' = tasks \ {t}
           ELSE IF ~good
           THEN dialog' = [d EXCEPT !.waits = None, !.error = TRUE] /\ tasks' = tasks \ {t}
           ELSE IF NextBatch(told) = {}
           THEN dialog' = Closed /\ tasks' = tasks \ {t}
           ELSE LET next == Batch(told, Min(NextBatch(told)))
                IN  dialog' = [told EXCEPT !.waits = next.n] /\ tasks' = (tasks \ {t}) \cup {next}
Goes(t, phase, left) ==
    /\ tasks' = (tasks \ {t}) \cup {[t EXCEPT !.phase = phase, !.left = left]}
    /\ UNCHANGED <<dialog, nextId, counts>>

\* The answer of a removal gets lost, its task goes on.
AnswerLost ==
    /\ dialog.waits # None
    /\ faults < MaxFaults /\ faults' = faults + 1
    /\ dialog' = [dialog EXCEPT !.waits = None, !.error = TRUE]
    /\ UNCHANGED <<acts, edits, nextId, tasks>> /\ OutOfDialog

-----------------------------------------------------------------------------
(* The removal: _remove() and _commit_removal().                           *)

Recorded(id) == id \in DOMAIN receipts
Matches(t) == receipts[t.id].token = t.token /\ receipts[t.id].delete = t.delete

Items(token) ==
    [x \in DOMAIN token |-> [id |-> token[x].book, edited |-> token[x].edited,
                             place |-> token[x].place, file |-> "kept", restored |-> FALSE]]
\* The new receipt, the books out of the library and their collection numbered anew.
CommitRemoval(t) ==
    /\ bookId' = [x \in Content |-> IF x \in DOMAIN t.token THEN None ELSE bookId[x]]
    /\ IF \E x \in DOMAIN t.token : place[x] >= 0
       THEN /\ place' = Indexed(Content, Ranked(Outside(DOMAIN t.token)))
            /\ revision' = revision + 1
       ELSE UNCHANGED <<place, revision>>
    /\ receipts' = [id \in DOMAIN receipts \cup {t.id} |->
                      IF id # t.id THEN receipts[id]
                      ELSE [token |-> t.token, delete |-> t.delete, pending |-> t.delete,
                            stopped |-> FALSE, items |-> Items(t.token),
                            order |-> Collection, after |-> revision']]
    /\ UNCHANGED <<nextBook, edited>>

\* A receipt that is there already answers the request, if it is of the same request.
CarryOut(t) ==
    /\ t.phase = "commit" /\ Unlocked
    /\ IF Recorded(t.id)
       THEN /\ UNCHANGED <<receipts, library>>
            /\ IF Matches(t) /\ t.delete THEN Goes(t, "check", {}) ELSE Ends(t, Matches(t))
       ELSE IF t.token = Token(DOMAIN t.token) /\ ~scanning
       THEN CommitRemoval(t) /\ IF t.delete THEN Goes(t, "check", {}) ELSE Ends(t, TRUE)
       ELSE UNCHANGED <<receipts, library>> /\ Ends(t, FALSE)
    /\ UNCHANGED <<archives, scanning, lock, unlinked, changed>>

-----------------------------------------------------------------------------
(* The deletion of files: finish_deletion().                               *)

Pending(id) == {x \in DOMAIN receipts[id].items : receipts[id].items[x].file # "deleted"}
Stop(id) == receipts' = [receipts EXCEPT ![id].pending = FALSE, ![id].stopped = TRUE]
Deletes(t) == UNCHANGED <<library, scanning>> /\ t \in tasks

\* Mutant: a book imported again is not looked for.
RegisteredNever(x) == FALSE

\* Every file left is checked before any is unlinked.
Registered(x) == bookId[x] # None
Unfit(x) == Registered(x) \/ file[x] = "other"
Check(t) ==
    /\ Deletes(t) /\ t.phase = "check" /\ Unlocked
    /\ IF ~Recorded(t.id) \/ ~receipts[t.id].pending
       THEN UNCHANGED <<receipts, lock, changed>> /\ Ends(t, TRUE)
       ELSE IF \E x \in Pending(t.id) : Unfit(x)
       THEN Stop(t.id) /\ UNCHANGED <<lock, changed>> /\ Ends(t, TRUE)
       ELSE /\ lock' = TRUE /\ changed' = changed \ Pending(t.id)
            /\ Goes(t, "unlink", Pending(t.id))
            /\ UNCHANGED receipts
    /\ UNCHANGED <<archives, unlinked>>

\* The files go one by one, in an order that makes no difference.
First(t) == CHOOSE x \in t.left : TRUE
Holds(t, phase) == Deletes(t) /\ t.phase = phase
Unlink(t) ==
    /\ Holds(t, "unlink") /\ t.left # {}
    /\ LET x == First(t)
       IN  /\ file' = [file EXCEPT ![x] = "none"] /\ UNCHANGED stamp
           /\ unlinked' = IF file[x] = "none" THEN unlinked
                          ELSE [unlinked EXCEPT ![x] = @ \cup {t.id}]
    /\ Goes(t, "record", t.left)
    /\ UNCHANGED <<receipts, lock, changed>>
Record(t) ==
    /\ Holds(t, "record")
    /\ receipts' = [receipts EXCEPT ![t.id].items[First(t)].file = "deleted"]
    /\ Goes(t, "unlink", t.left \ {First(t)})
    /\ UNCHANGED <<archives, lock, unlinked, changed>>
Finish(t) ==
    /\ Holds(t, "unlink") /\ t.left = {}
    /\ receipts' = [receipts EXCEPT ![t.id].pending = FALSE]
    /\ lock' = FALSE /\ Ends(t, TRUE)
    /\ UNCHANGED <<archives, unlinked, changed>>

\* A file that can't be read or unlinked, or a record that can't be written, the last one
\* included, ends the task.
DeletionFails(t) ==
    /\ Deletes(t) /\ t.phase \in {"check", "unlink", "record"} /\ faults < MaxFaults
    /\ t.phase = "check" => Unlocked
    /\ tasks' = tasks \ {t} /\ lock' = FALSE /\ faults' = faults + 1
    /\ dialog' = IF t.n # None /\ dialog.waits = t.n
                 THEN [dialog EXCEPT !.waits = None, !.error = TRUE] ELSE dialog
    /\ UNCHANGED <<archives, receipts, nextId, acts, edits, unlinked, changed>>

\* The server stops at any point, and starts again.
ServerStops ==
    /\ tasks # {} /\ faults < MaxFaults /\ faults' = faults + 1
    /\ tasks' = {} /\ lock' = FALSE
    /\ dialog' = IF dialog.waits = None THEN dialog
                 ELSE [dialog EXCEPT !.waits = None, !.error = TRUE]
    /\ UNCHANGED <<library, archives, receipts, nextId, scanning, acts, edits, unlinked, changed>>

\* Mutant: only a deletion that has not begun is taken up.
HourlyFresh(id) ==
    /\ Recorded(id) /\ receipts[id].pending
    /\ \A x \in DOMAIN receipts[id].items : receipts[id].items[x].file = "kept"
    /\ \A t \in tasks : t.n # None
    /\ tasks' = tasks \cup {[n |-> None, id |-> id, delete |-> TRUE, token |-> <<>>,
                             phase |-> "check", left |-> {}]}
    /\ UNCHANGED <<library, archives, receipts, nextId, scanning, lock, dialog, counts, unlinked,
                   changed>>

\* Every hour the deletions still pending are taken up again.
Hourly(id) ==
    /\ Recorded(id) /\ receipts[id].pending
    /\ \A t \in tasks : t.n # None
    /\ tasks' = tasks \cup {[n |-> None, id |-> id, delete |-> TRUE, token |-> <<>>,
                             phase |-> "check", left |-> {}]}
    /\ UNCHANGED <<library, archives, receipts, nextId, scanning, lock, dialog, counts, unlinked,
                   changed>>

-----------------------------------------------------------------------------
(* The recycle bin.                                                        *)

FromBin == /\ Acting /\ Unlocked
           /\ UNCHANGED <<archives, nextId, scanning, lock, tasks, dialog, unlinked, changed>>

\* cancel_deletion()
CancelDeletion(id) ==
    /\ FromBin /\ Recorded(id) /\ receipts[id].pending
    /\ Stop(id) /\ UNCHANGED library

\* restore(): the books whose files are there, unchanged and not registered again.
Restorable(id) ==
    {x \in Pending(id) : LET item == receipts[id].items[x]
                         IN  ~item.restored /\ file[x] = "own" /\ bookId[x] = None}
\* The positions recorded of the books that are restored.
Recalled(id, S) == [x \in Content |-> IF x \in S THEN receipts[id].items[x].place ELSE -1]

\* Mutant: what is restored goes to the end of the collection.
PlacedLast(id, S) == Collection \o Ranked(Recalled(id, S))

\* One after another, at the position recorded, or at the end of a list that is shorter.
Put(s, x, p) == InsertAt(s, (IF p < Len(s) THEN p ELSE Len(s)) + 1, x)
Placed(id, S) ==
    LET at == Recalled(id, S)
        back == Ranked(at)
        grown[k \in 0 .. Len(back)] ==
            IF k = 0 THEN Collection ELSE Put(grown[k - 1], back[k], at[back[k]])
    IN  grown[Len(back)]
\* All of them, or those that are selected.
Restore(id, S) ==
    /\ FromBin /\ Recorded(id) /\ ~receipts[id].pending
    /\ S \subseteq Restorable(id) /\ S # {}
    /\ LET items == receipts[id].items
           bumps == Cardinality({x \in S : items[x].place >= 0})
       IN  /\ bookId' = [x \in Content |-> IF x \in S THEN items[x].id ELSE bookId[x]]
           /\ edited' = [x \in Content |-> IF x \in S THEN items[x].edited ELSE edited[x]]
           /\ place' = IF bumps = 0 THEN place ELSE Indexed(Content, Placed(id, S))
           /\ revision' = revision + bumps
           /\ receipts' = [receipts EXCEPT ![id].items = [x \in DOMAIN items |->
                             IF x \in S THEN [items[x] EXCEPT !.restored = TRUE] ELSE items[x]]]
           /\ UNCHANGED nextBook

-----------------------------------------------------------------------------
(* Others.                                                                 *)

Other == edits < MaxEdits /\ edits' = edits + 1
         /\ UNCHANGED <<acts, faults, receipts, nextId, tasks, lock, dialog, unlinked>>

\* Another device edits a book or takes it out of the collection, or a file is imported
\* again as a new book.
OtherEdits(x) ==
    /\ Other /\ Unlocked /\ UNCHANGED <<archives, scanning, changed>>
    /\ \/ /\ bookId[x] # None
          /\ edited' = [edited EXCEPT ![x] = @ + 1]
          /\ UNCHANGED <<bookId, nextBook, place, revision>>
       \/ /\ place[x] >= 0
          /\ place' = [place EXCEPT ![x] = -1] /\ revision' = revision + 1
          /\ UNCHANGED <<bookId, nextBook, edited>>
       \/ /\ bookId[x] = None /\ file[x] = "own"
          /\ bookId' = [bookId EXCEPT ![x] = nextBook] /\ nextBook' = nextBook + 1
          /\ edited' = [edited EXCEPT ![x] = 1]
          /\ UNCHANGED <<place, revision>>

\* Someone replaces, removes or brings back a file, with no regard to locks.
FileChanges(x) ==
    /\ Other /\ UNCHANGED <<library, scanning>>
    /\ \E f \in {"own", "other", "none"} \ {file[x]} : file' = [file EXCEPT ![x] = f]
    /\ stamp' = [stamp EXCEPT ![x] = @ + 1] /\ changed' = changed \cup {x}

ScanTurns ==
    /\ Other /\ Unlocked /\ UNCHANGED <<library, archives, changed>>
    /\ scanning' = ~scanning

Dialog == \/ \E S \in SUBSET Content : OpenDialog(S)
          \/ Preview \/ TickDelete \/ Confirm \/ Cancel \/ AnswerLost
Work == \E t \in tasks : CarryOut(t) \/ Check(t) \/ Unlink(t) \/ Record(t) \/ Finish(t)
Bin == \E id \in DOMAIN receipts : CancelDeletion(id) \/ \E S \in SUBSET Restorable(id) : Restore(id, S)
Upkeep == \E id \in DOMAIN receipts : Hourly(id)
Others == \/ \E t \in tasks : DeletionFails(t)
          \/ ServerStops \/ ScanTurns \/ \E x \in Content : OtherEdits(x) \/ FileChanges(x)

RemovalNext == Dialog \/ Work \/ Bin \/ Upkeep \/ Others

RemovalSpec == RemovalInit /\ [][RemovalNext]_removalVars

\* The server goes on with what it does, and its maintenance comes round again.
Fairness == WF_removalVars(Work) /\ WF_removalVars(Upkeep)
FairRemoval == RemovalSpec /\ Fairness

-----------------------------------------------------------------------------
(* Properties.                                                             *)

RemovalTypeOK ==
    /\ bookId \in [Content -> 0 .. nextBook - 1] /\ edited \in [Content -> Nat]
    /\ file \in [Content -> {"own", "other", "none"}] /\ stamp \in [Content -> Nat]
    /\ place \in [Content -> -1 .. ContentCount] /\ revision \in Nat /\ scanning \in BOOLEAN
    /\ \A id \in DOMAIN receipts : id < nextId /\ {receipts[id].pending, receipts[id].delete,
                                                   receipts[id].stopped} \subseteq BOOLEAN
    /\ \A t \in tasks : t.phase \in {"commit", "check", "unlink", "record"}
    /\ lock <=> \E t \in tasks : t.phase \in {"unlink", "record"}

\* Only books of the library are in the collection.
MembersExist == \A x \in Content : place[x] >= 0 => bookId[x] # None

\* A file that a removal takes is of a book whose removal with its file was confirmed and
\* that nobody has registered again since; and it is what was checked, unless somebody
\* changed it while the deletion was under way (finish_deletion()).
DeletesWhatWasConfirmed ==
    \A x \in Content, id \in DOMAIN receipts : id \in unlinked'[x] \ unlinked[x] =>
        /\ receipts[id].delete /\ receipts[id].pending /\ x \in DOMAIN receipts[id].items
        /\ bookId[x] = None
        /\ file[x] = "own" \/ x \in changed

\* A receipt accounts for every file taken on its behalf, through crashes and failures: it
\* is one of its files and recorded as deleted, or the deletion is still pending or was
\* stopped; and a deletion that went through deleted them all.
ReceiptAccounts ==
    \A id \in DOMAIN receipts :
        LET r == receipts[id]
        IN  /\ \A x \in Content : id \in unlinked[x] =>
                 x \in DOMAIN r.items /\ (r.items[x].file = "deleted" \/ r.pending \/ r.stopped)
            /\ r.delete /\ ~r.pending /\ ~r.stopped => Pending(id) = {}
            /\ \A x \in DOMAIN r.items : ~(r.items[x].restored /\ r.items[x].file = "deleted")

\* A removal takes effect once, however often its request is repeated: its receipt stays,
\* and books leave the library with a new receipt only.
TakesEffectOnce ==
    /\ \A id \in DOMAIN receipts : id \in DOMAIN receipts' /\ receipts'[id].token = receipts[id].token
    /\ \A x \in Content : bookId[x] # None /\ bookId'[x] = None =>
           \E id \in DOMAIN receipts' \ DOMAIN receipts : x \in DOMAIN receipts'[id].items

\* Restoring all of a removal puts its books back where they were, if the collection was
\* numbered without gaps and nothing has changed in it since.
PutsBack(id) ==
    LET r == receipts[id]
        members == {x \in DOMAIN r.items : r.items[x].place >= 0}
    IN  /\ r.after = revision
        /\ \A x \in members : receipts'[id].items[x].restored
        /\ \E x \in members : ~r.items[x].restored
WithoutGaps(id) ==
    LET r == receipts[id]
    IN  \A x \in DOMAIN r.items :
            r.items[x].place >= 0 => r.items[x].place < Len(r.order) /\ r.order[r.items[x].place + 1] = x
RestoredInPlace ==
    \A id \in DOMAIN receipts : PutsBack(id) /\ WithoutGaps(id) => Collection' = receipts[id].order
RestoredAnyhow == [][\A id \in DOMAIN receipts : PutsBack(id) => Collection' = receipts[id].order]_removalVars

\* A deletion that is asked for comes to an end, whatever crashes and failures it meets.
DeletionEnds == []<>(\A id \in DOMAIN receipts : ~receipts[id].pending)

\* What is taken was confirmed and is taken once, and the receipts account for it.
OnlyAsConfirmed == [][DeletesWhatWasConfirmed /\ TakesEffectOnce /\ ReceiptAccounts']_removalVars

\* The collection is of books of the library, and what is restored goes where it was.
CollectionHolds == [][RemovalTypeOK' /\ MembersExist' /\ RestoredInPlace]_removalVars
=============================================================================
