------------------------------ MODULE BookPage ------------------------------
(***************************************************************************)
(* The page of a book inside the App: Navigation with the first book's     *)
(* page in full, as Metadata has it.  The page's guard, which Navigation   *)
(* asks, knows only whether the editor's form was changed; a move that is  *)
(* let go takes the page away with its dialogs and whatever it has asked   *)
(* the server for.                                                         *)
(***************************************************************************)
EXTENDS Navigation

CONSTANTS Titles, Tags, Sources, MaxActs, MaxOthers, MaxFaults,
          Plans    \* bounds: which of the counters a behaviour may use, and how far

ASSUME BookPageAssumption ==
    {Titles, Tags} \subseteq Nat \ {0} /\ {Sources, MaxActs, MaxOthers, MaxFaults} \subseteq Nat

VARIABLES meta, rev, event, confirmed, cand, file, base, pending, sync, at, book, form, tagging,
          dialog, asking, conflicted, failed, preview, conflict, accepted, loading, refused, tasks,
          acts, others, faults, typed, raced,
          plan

M == INSTANCE Metadata

navigation == vars
bookPageVars == <<vars, M!metadataVars, plan>>

\* Where the route leaves the first book's page: one BookView for its page and its reader.
Where(route, state) ==
    IF state # "ready" THEN "away"
    ELSE IF route = Page(1) THEN "detail" ELSE IF route = Reading(1) THEN "reader" ELSE "away"

BookPageInit == Init /\ M!Start /\ plan \in Plans

Within ==
    /\ moves' <= plan.moves /\ changes' <= plan.changes /\ locks' <= plan.locks
    /\ reloads' <= plan.reloads /\ acts' <= plan.acts /\ others' <= plan.others
    /\ faults' <= plan.faults

\* The App moves; what is unsaved on the book's page is for its editor to say. A dialog
\* covers the links of the page, not the browser's own buttons.
Reached == dialog # "none" /\ moves' # moves => entries' = entries /\ index' # index
Moves ==
    /\ Next /\ Reached
    /\ M!Mounted(Where(active', auth'))
    /\ (at # "away" /\ at' = at) => draft' = draft

\* The page works, unless an answer of the guard is due.
Stands == UNCHANGED <<browser, events, active, position, trail, asks, saving, session, counts,
                      bounced, numbered, calm>>
Works == ~Due /\ M!Works /\ draft' = (IF at = "away" THEN draft ELSE M!Dirty') /\ Stands

BookPageNext == (Moves \/ Works) /\ Within /\ UNCHANGED plan
BookPageSpec == BookPageInit /\ [][BookPageNext]_bookPageVars

-----------------------------------------------------------------------------
(* Properties.                                                             *)

\* Where the user is: the address, the trail, the page on screen and the components that
\* show it agree (App's routes and BookView's and Detail's mounting).
PageIsPlace == PlaceIsOne /\ M!MetadataTypeOK /\ at = Where(active, auth)

\* The server carries a request out: its answer, under way, is not a refusal.
CarriedOut(k) ==
    /\ k.step = k.kind /\ ~k.done
    /\ \E j \in tasks' : j.no = k.no /\ j.done /\ j.ok = "yes"

\* What the user did is done to what the page showed when they did it, whatever other
\* devices, checks and programs changed in between: the metadata edited, the candidate
\* chosen or skipped, the issues accepted, both sides of a conflict with the file
\* (expected_revision, the review's token, the conflict's revisions).
ActsOnWhatWasSeen ==
    [][\A k \in tasks : CarriedOut(k) =>
         LET of == k.arg
         IN  /\ k.kind # "automatic" => meta = of.seen
             /\ k.kind = "candidate" => cand[of.link] = of.offered
             /\ k.kind = "complete" => cand = of.offered /\ of.ticked = M!Issues
             /\ k.kind = "resolve" => file = of.conflict.file /\ pending = of.conflict]_bookPageVars

\* What was typed into the editor goes only when the user said so, when it was stored,
\* and with the page: on a reload, when the session ends, or by a move that its guard
\* was asked about before, while it waited for the page's saves
\* ("closing the editor never silently drops a draft", Detail.tsx).
DraftStays ==
    [][typed /\ M!Dirty /\ ~typed' =>
         \/ asking /\ dialog' = "none"
         \/ conflicted /\ ~conflicted' /\ ~failed'
         \/ \E k \in tasks : k.kind = "save" /\ k.live = "here" /\ k.done /\ k.ok = "yes"
         \/ reloads' # reloads \/ bounced' \/ auth' # "ready"
         \/ \E a \in asks : a.live]_bookPageVars

\* What another program wrote into the metadata file is replaced only after the library
\* agreed to it or the user chose (the conflicts of sidecars.py), save for what is
\* written while a sync is between its reading and its replacing of the file.
FileKept ==
    [][sync.kind = "publish" /\ file' # file /\ ~raced' => file \in {M!None, base}]_bookPageVars

-----------------------------------------------------------------------------
(* What the page does not do.                                              *)

\* What is typed while a save is under way is not kept: its answer replaces the form
\* (Detail.tsx, setForm(formOf(stored.metadata))).
TypingSurvivesSaving ==
    [][\A k \in tasks : k.step = "save" /\ k.live = "here" /\ (typed /\ ~typed') /\ dialog' = dialog
         => form = k.arg.form \/ conflicted]_bookPageVars

\* The page's copy goes back to an older revision when an answer is late: update() has no
\* look at the revisions (BookView.tsx).
CopyGoesForward == [][M!None \in {book, book'} \/ book'.rev >= book.rev]_bookPageVars
=============================================================================
