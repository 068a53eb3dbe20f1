------------------------------ MODULE Metadata ------------------------------
(***************************************************************************)
(* One book's metadata.  The server keeps it under a revision, with the    *)
(* candidates found online, the review's confirmation and a metadata file  *)
(* next to the archive; the book's page shows a copy, edits it in a form,  *)
(* reviews it and updates it from its sources.  Other devices, background  *)
(* checks and other programs change the metadata and the file meanwhile.   *)
(*                                                                         *)
(* A request is a task of the page: it is sent, served, and answered, in   *)
(* separate steps, and it goes on when the page that sent it is gone.      *)
(***************************************************************************)
EXTENDS Ordering

CONSTANTS Titles,     \* titles 1 .. Titles; 0 is no title
          Tags,       \* tags 1 .. Tags, in the order the server sorts them
          Sources,      \* sources the book is updated from, one after the other
          MaxActs,    \* bound: what the user types and presses
          MaxOthers,  \* bound: changes by others
          MaxFaults   \* bound: requests that fail, and crashes

Title == 0 .. Titles
Tag == 1 .. Tags
Source == 1 .. Sources
None == [kind |-> "none"]

VARIABLES
    meta,       \* the metadata: its title, its tags, and whether the title is protected
    rev,        \* its revision
    event,      \* the last review event
    confirmed,  \* review_state
    cand,       \* by source: the candidate title and what was decided about it
    file, base, \* the metadata file, and the content it was last agreed to have
    pending,    \* the conflict that waits for a decision
    sync,       \* the sync that holds the mutation lock, between two of its steps
    at,         \* the page: "detail", "reader" (of the same book), or "away"
    book,       \* BookView's copy
    form, tagging,      \* the editor's form; the tag that is being replaced in it
    dialog, asking,     \* the dialog that is open; the question before a draft is dropped
    conflicted, failed, \* what the editor says of its last save
    preview, conflict, accepted,  \* what the review shows, and the issues ticked
    loading, refused,   \* its load; the error it shows, with a button to load it again
    tasks,      \* requests of the page
    acts, others, faults,
    typed,      \* history: the form holds something the user typed
    raced       \* history: another program wrote the file while a sync was replacing it

library == <<meta, rev, event, confirmed, cand>>
sidecar == <<file, base, pending, sync>>
editor == <<form, tagging, asking, conflicted, failed, typed>>
review == <<preview, conflict, accepted, loading, refused>>
counters == <<acts, others, faults>>
metadataVars == <<library, sidecar, at, book, editor, dialog, review, tasks, counters, raced>>

NoCandidate == [title |-> 0, decision |-> "none"]
Nothing == [title |-> 0, tags |-> {}, guarded |-> FALSE]

\* formOf() and what the server makes of a form: tags are a set that is sent in order.
FormOf(m) == [title |-> m.title, tags |-> InOrder(m.tags)]
Changed == form # FormOf(book.meta)
Dirty == at = "detail" /\ book # None /\ Changed

Idle == [kind |-> "idle"]
Fresh == [kind |-> "load", preview |-> None, conflict |-> None, seen |-> FALSE]

Start ==
    /\ meta = [title |-> 1, tags |-> {1}, guarded |-> FALSE] /\ rev = 1 /\ event = 0
    /\ confirmed = FALSE /\ cand = [l \in Source |-> NoCandidate]
    /\ file = None /\ base = None /\ pending = None /\ sync = Idle
    /\ at = "away" /\ book = None
    /\ form = FormOf(Nothing) /\ tagging = None
    /\ dialog = "none" /\ asking = FALSE /\ conflicted = FALSE /\ failed = FALSE
    /\ preview = None /\ conflict = None /\ accepted = {} /\ loading = Idle /\ refused = FALSE
    /\ tasks = {}
    /\ acts = 0 /\ others = 0 /\ faults = 0 /\ typed = FALSE /\ raced = FALSE

-----------------------------------------------------------------------------
(* The server.  Whatever changes the metadata or the file holds the        *)
(* mutation lock, which a sync keeps from its reading to its record.       *)

Free == sync = Idle
Copy == [kind |-> "book", meta |-> meta, rev |-> rev]

Differs(c, m) == c.decision # "none" /\ c.title # m.title
IssuesOf(m, cands, waits) ==
    {i \in {"title_missing", "source_unverified", "candidates_unresolved", "sidecar_conflicts"} :
        \/ i = "title_missing" /\ m.title = 0
        \/ i = "source_unverified" /\ \A l \in Source : cands[l].decision \in {"none", "skipped"}
        \/ i = "candidates_unresolved"
           /\ \E l \in Source : cands[l].decision = "open" /\ Differs(cands[l], m)
        \/ i = "sidecar_conflicts" /\ waits # None}
Issues == IssuesOf(meta, cand, pending)
Blocking == {"candidates_unresolved", "sidecar_conflicts"}

Preview == [kind |-> "preview", meta |-> meta, cand |-> cand, issues |-> Issues,
            confirmed |-> confirmed,
            token |-> [rev |-> rev, event |-> event, cand |-> cand, pending |-> pending]]

\* write_metadata(): only a change makes a revision, and it needs a review.
Writes(new) ==
    /\ meta' = new
    /\ rev' = IF new = meta THEN rev ELSE rev + 1

\* _automatic(): what has no issue but its source may be confirmed, on the evidence of a
\* source or of an earlier confirmation of the same content.
Automatic ==
    LET kept == confirmed /\ meta' = meta
        clean == IssuesOf(meta', cand', pending) \subseteq {"source_unverified"}
    IN  IF kept THEN UNCHANGED confirmed ELSE confirmed' \in {FALSE, clean}

\* edit(), the answer to a form.
Edited(title, tags) ==
    LET new == [title |-> title, tags |-> tags, guarded |-> meta.guarded \/ title # meta.title]
    IN  /\ Writes(new) /\ UNCHANGED cand
        /\ IF new = meta THEN UNCHANGED <<event, confirmed>>
           ELSE event' = event + 1 /\ Automatic

\* OnlineMetadata.apply(): the candidate is replaced, with a decision only if it is the
\* same one; a title that is missing and not protected is filled in.
Observed(l, title) ==
    LET fills == meta.title = 0 /\ ~meta.guarded
        decision == IF cand[l].decision # "none" /\ cand[l].title = title
                    THEN cand[l].decision ELSE "open"
    IN  /\ cand' = [cand EXCEPT ![l] = [title |-> title, decision |-> decision]]
        /\ Writes(IF fills THEN [meta EXCEPT !.title = title] ELSE meta)
        /\ event' = event + 1
        /\ Automatic

\* candidate(): a field chosen is protected, whichever side was chosen.
Decided(l, choice) ==
    /\ choice # "skip" => Differs(cand[l], meta)
    /\ Writes(CASE choice = "candidate" -> [meta EXCEPT !.title = cand[l].title, !.guarded = TRUE]
                [] choice = "current" -> [meta EXCEPT !.guarded = TRUE]
                [] choice = "skip" -> meta)
    /\ cand' = [cand EXCEPT ![l].decision = IF choice = "skip" THEN "skipped" ELSE "selected"]
    /\ event' = event + 1
    /\ Automatic

Checked ==
    /\ UNCHANGED <<meta, rev, cand>>
    /\ IF confirmed THEN UNCHANGED <<event, confirmed>> ELSE event' = event + 1 /\ Automatic

Completed(ticked) ==
    /\ Issues \cap Blocking = {} /\ ticked = Issues
    /\ confirmed' = TRUE /\ event' = event + 1
    /\ UNCHANGED <<meta, rev, cand>>

\* SidecarSync.resolve(): some of the fields that differ are taken from the file, and all
\* of them are protected; the file, as it is now, becomes what was agreed.
Resolved(c, taken) ==
    LET side == [f \in {"title", "tags"} |-> IF f \in taken THEN c.file ELSE meta]
    IN  /\ pending = c /\ c.rev = rev /\ c.file = file
        /\ Writes([title |-> side["title"].title, tags |-> side["tags"].tags,
                   guarded |-> meta.guarded \/ c.file.title # meta.title])
        /\ confirmed' = (confirmed /\ meta' = meta)
        /\ base' = file /\ pending' = None
        /\ UNCHANGED <<event, cand, file, sync>>

-----------------------------------------------------------------------------
(* The metadata file: _sync_one(), between its reading, its replacing of   *)
(* the file and its record.                                                *)

\* Mutant: a file that is not the one last agreed is replaced.
AgreedAnyhow == TRUE

\* A file that is missing, or as it was last written or agreed.
Agreed == file = None \/ file = base

\* What the file agrees with, and the conflict that this ends, if any.
Records(content) == base' = content /\ pending' = None /\ sync' = Idle
SyncBegins ==
    /\ Free
    /\ IF file = meta THEN Records(file)
       ELSE IF Agreed
       THEN sync' = [kind |-> "publish", content |-> meta] /\ UNCHANGED <<base, pending>>
       ELSE /\ pending' = [kind |-> "conflict", rev |-> rev, meta |-> meta, file |-> file]
            /\ UNCHANGED <<base, sync>>
    /\ UNCHANGED file
Publish ==
    /\ sync.kind = "publish"
    /\ file' = sync.content /\ sync' = [kind |-> "record", content |-> sync.content]
    /\ UNCHANGED <<base, pending>>
Record == sync.kind = "record" /\ Records(sync.content) /\ UNCHANGED file

Syncing ==
    /\ Publish \/ Record
    /\ UNCHANGED <<library, at, book, editor, dialog, review, tasks, counters, raced>>

\* A sync is broken off while it replaces the file, and its lock goes with it: by an error,
\* which is its answer, or because the process ends.
BrokenOff ==
    /\ ~Free /\ faults < MaxFaults /\ faults' = faults + 1
    /\ sync' = Idle
    /\ tasks' \in {tasks, {k \in tasks : k.step = "sync" => ~k.done}}
    /\ UNCHANGED <<library, file, base, pending, at, book, editor, dialog, review, acts, others,
                   raced>>

-----------------------------------------------------------------------------
(* Requests of the page.                                                   *)

\* Detail's save, an action of the review, an update from the sources; whether their
\* component is still there, or at least BookView, whose copy they update.
Task(kind, arg) ==
    [kind |-> kind, step |-> kind, live |-> "here", done |-> FALSE, ok |-> "no", arg |-> arg,
     value |-> None, no |-> acts]
Running(kind) == \E k \in tasks : k.kind = kind /\ k.live = "here"

Becomes(k, next) == tasks' = (tasks \ {k}) \cup {next}
Answers(k, how) == [k EXCEPT !.done = TRUE, !.ok = how]
Ends(k) == tasks' = tasks \ {k}

\* Mutant: the review's token does not cover the candidates.
TokenOfRevision(token) == token.rev = rev

\* _checked(): the review is what it was in the preview.
TokenHolds(token) == token = Preview.token
\* The revision an edit or an observation expects.
Expected(k) == k.arg.rev = rev

\* What the server makes of a request, if it doesn't refuse it.
Accepts(k) ==
    \/ /\ \/ k.kind = "save" /\ Expected(k) /\ Edited(k.arg.form.title, ToSet(k.arg.form.tags))
          \/ k.kind = "source" /\ Expected(k) /\ \E title \in Title \ {0} : Observed(k.arg.link, title)
          \/ k.kind = "candidate" /\ TokenHolds(k.arg.token) /\ Decided(k.arg.link, k.arg.choice)
          \/ k.kind = "automatic" /\ TokenHolds(k.arg.token) /\ Checked
          \/ k.kind = "complete" /\ TokenHolds(k.arg.token) /\ Completed(k.arg.ticked)
       /\ UNCHANGED sidecar
    \/ k.kind = "resolve" /\ Resolved(k.arg.conflict, k.arg.taken)
Refuses(k) ==
    CASE k.kind \in {"save", "source"} -> ~Expected(k)
      [] k.kind \in {"candidate", "automatic"} -> ~TokenHolds(k.arg.token)
      [] k.kind = "complete" ->
           ~TokenHolds(k.arg.token) \/ Issues \cap Blocking # {} \/ k.arg.ticked # Issues
      [] k.kind = "resolve" ->
           pending # k.arg.conflict \/ k.arg.conflict.rev # rev \/ k.arg.conflict.file # file

Elsewhere == UNCHANGED <<at, book, editor, dialog, review, counters, raced>>

\* A write is served: the answer is the book as it is then, or a refusal.
Served(k) ==
    /\ k.step = k.kind /\ ~k.done /\ Free
    /\ \/ /\ Accepts(k)
          /\ Becomes(k, [Answers(k, "yes") EXCEPT !.value = Copy'])
       \/ /\ Refuses(k) /\ UNCHANGED <<library, sidecar>>
          /\ Becomes(k, Answers(k, "conflict"))
    /\ Elsewhere

\* The sync a save asks for, and the books read after it or after a conflict.
SyncServed(k) ==
    /\ k.step = "sync" /\ ~k.done
    /\ SyncBegins
    /\ Becomes(k, [k EXCEPT !.done = TRUE])
    /\ UNCHANGED library /\ Elsewhere
SyncAnswered(k) ==
    /\ k.step = "sync" /\ k.done /\ Free
    /\ Becomes(k, [k EXCEPT !.step = "refresh", !.done = FALSE])
    /\ UNCHANGED <<library, sidecar>> /\ Elsewhere
ReadServed(k) ==
    /\ k.step \in {"refresh", "again"} /\ ~k.done
    /\ Becomes(k, [Answers(k, "yes") EXCEPT !.value = Copy])
    /\ UNCHANGED <<library, sidecar>> /\ Elsewhere

\* A request fails before it is served, or its answer is lost.
Fails(k) ==
    /\ faults < MaxFaults /\ faults' = faults + 1
    /\ IF k.step = k.kind THEN (k.done => k.ok # "no") /\ Becomes(k, Answers(k, "no")) ELSE Ends(k)
    /\ UNCHANGED <<library, sidecar, at, book, editor, dialog, review, acts, others, raced>>

Serving ==
    \E k \in tasks : Served(k) \/ SyncServed(k) \/ SyncAnswered(k) \/ ReadServed(k) \/ Fails(k)

-----------------------------------------------------------------------------
(* The page's copy, its form and its review.                               *)

NewForm(m) == form' = FormOf(m) /\ typed' = FALSE
SameForm == UNCHANGED <<form, typed>>

\* Mutant: a newer version of the book replaces the form of an open editor.
MirroredAlways(m) == NewForm(m)

\* While the editor is closed the form mirrors the book; an open one keeps the draft.
Mirrored(m) == IF dialog = "metadata" THEN SameForm ELSE NewForm(m)

\* update(), which knows no order: BookView shows the copy that came last. The review is
\* loaded again for another revision.
Shows(value, again) ==
    /\ book' = value
    /\ loading' = IF dialog = "review" /\ (again \/ value.rev # book.rev) THEN Fresh ELSE loading
Update(value) ==
    /\ Shows(value, FALSE)
    /\ IF at = "detail" THEN Mirrored(value.meta) ELSE SameForm
Stays == SameForm /\ UNCHANGED <<book, loading>>

Ours == UNCHANGED <<library, sidecar, at, dialog, counters, raced>>
Shown == UNCHANGED <<preview, conflict, accepted>>
Untouched == Shown /\ UNCHANGED refused

\* The answer to a save: the form becomes what the server stored, and the file follows.
Stored(k) ==
    /\ k.done /\ k.ok = "yes"
    /\ IF k.live = "here"
       THEN Shows(k.value, FALSE) /\ NewForm(k.value.meta) /\ conflicted' = FALSE
       ELSE Update(k.value) /\ UNCHANGED conflicted
    /\ Becomes(k, [k EXCEPT !.step = "sync", !.done = FALSE, !.value = None])
    /\ UNCHANGED failed
\* A refused one loads the newer version under the draft.
NotStored(k) ==
    /\ k.done /\ k.ok # "yes"
    /\ failed' = (failed \/ k.live = "here")
    /\ IF k.ok = "conflict"
       THEN Becomes(k, [k EXCEPT !.step = "again", !.done = FALSE, !.ok = "no"])
       ELSE Ends(k)
    /\ Stays /\ UNCHANGED conflicted
SaveAnswered(k) ==
    /\ k.kind = "save" /\ k.step = "save" /\ k.live # "gone"
    /\ Stored(k) \/ NotStored(k)
    /\ UNCHANGED <<tagging, asking>> /\ Untouched /\ Ours
ReadAnswered(k) ==
    /\ k.step \in {"refresh", "again"} /\ k.done /\ k.live # "gone"
    /\ Update(k.value) /\ Ends(k)
    /\ conflicted' = (conflicted \/ (k.step = "again" /\ k.live = "here"))
    /\ UNCHANGED <<tagging, asking, failed>> /\ Untouched /\ Ours

\* One source after the other, each expecting the revision the last one made.
SourceAnswered(k) ==
    /\ k.kind = "source" /\ k.done /\ k.live # "gone"
    /\ IF k.ok = "yes"
       THEN /\ Update(k.value)
            /\ IF k.arg.link < Sources
               THEN Becomes(k, [k EXCEPT !.done = FALSE, !.ok = "no", !.value = None,
                                         !.arg = [link |-> k.arg.link + 1, rev |-> k.value.rev,
                                                  seen |-> k.value.meta]])
               ELSE Ends(k)
       ELSE Stays /\ Ends(k)
    /\ UNCHANGED <<tagging, asking, conflicted, failed>> /\ Untouched /\ Ours

Deciding == {"candidate", "automatic", "complete", "resolve"}
ReviewAnswered(k) ==
    /\ k.kind \in Deciding /\ k.done /\ k.live # "gone"
    /\ IF k.ok = "yes"
       THEN /\ Shows(k.value, k.live = "here")
            /\ IF at = "detail" THEN Mirrored(k.value.meta) ELSE SameForm
       ELSE Stays
    /\ refused' = (refused \/ (k.ok # "yes" /\ k.live = "here"))
    /\ Ends(k)
    /\ UNCHANGED <<tagging, asking, conflicted, failed>> /\ Shown /\ Ours

\* An answer that no page waits for: update() has nothing left to show it.
Forgotten(k) ==
    /\ k.live = "gone" /\ k.done
    /\ Ends(k)
    /\ Stays /\ UNCHANGED <<tagging, asking, conflicted, failed>> /\ Untouched /\ Ours

Answering ==
    \E k \in tasks : \/ SaveAnswered(k) \/ ReadAnswered(k) \/ SourceAnswered(k)
                     \/ ReviewAnswered(k) \/ Forgotten(k)

\* The review's load: the preview and the conflict, read side by side; with the second
\* both are shown, and nothing is ticked any more.
Loads(loaded) ==
    IF loaded.preview # None /\ loaded.seen
    THEN /\ preview' = loaded.preview /\ conflict' = loaded.conflict
         /\ accepted' = {} /\ loading' = Idle
    ELSE loading' = loaded /\ Shown
ReviewLoads ==
    /\ loading.kind = "load"
    /\ \/ loading.preview = None /\ Loads([loading EXCEPT !.preview = Preview])
       \/ ~loading.seen /\ Loads([loading EXCEPT !.conflict = pending, !.seen = TRUE])
    /\ UNCHANGED <<editor, book, tasks, refused>> /\ Ours
LoadFails ==
    /\ loading.kind = "load" /\ faults < MaxFaults /\ faults' = faults + 1
    /\ loading' = Idle /\ refused' = TRUE
    /\ UNCHANGED <<editor, book, tasks, library, sidecar, at, dialog, acts, others, raced>> /\ Shown

-----------------------------------------------------------------------------
(* What the user does on the book's page.                                  *)

OnPage == at = "detail" /\ book # None
Idly == OnPage /\ UNCHANGED <<library, sidecar, at, book, counters, raced>>
Act == /\ OnPage /\ acts < MaxActs /\ acts' = acts + 1
       /\ UNCHANGED <<library, sidecar, at, book, others, faults, raced>>

Open(which) ==
    /\ Idly /\ dialog = "none" /\ dialog' = which
    /\ loading' = IF which = "review" THEN Fresh ELSE Idle
    /\ UNCHANGED <<editor, tasks>> /\ Untouched

\* closeMetadata(): a form that was changed is dropped only when the user says so.
Closes ==
    /\ dialog' = "none" /\ NewForm(book.meta)
    /\ asking' = FALSE /\ conflicted' = FALSE /\ failed' = FALSE /\ tagging' = None
    /\ UNCHANGED <<review, tasks>>
Close ==
    /\ Idly /\ dialog = "metadata" /\ ~Running("save")
    /\ IF Changed
       THEN asking' = TRUE /\ UNCHANGED <<form, tagging, conflicted, failed, typed, dialog, review, tasks>>
       ELSE Closes
Discard == Idly /\ dialog = "metadata" /\ asking /\ Closes
KeepEditing ==
    /\ Idly /\ asking /\ asking' = FALSE
    /\ UNCHANGED <<form, tagging, conflicted, failed, typed, dialog, review, tasks>>
ReloadLatest ==
    /\ Idly /\ dialog = "metadata" /\ failed /\ conflicted /\ ~Running("save")
    /\ NewForm(book.meta) /\ failed' = FALSE /\ conflicted' = FALSE
    /\ UNCHANGED <<tagging, asking, dialog, review, tasks>>

\* The form, which stays open to typing while a save is under way.
Typing(f, which) ==
    /\ Act /\ dialog = "metadata"
    /\ form' = f /\ typed' = TRUE /\ tagging' = which
    /\ UNCHANGED <<asking, conflicted, failed, dialog, review, tasks>>
TypeTitle(title) == title # form.title /\ Typing([form EXCEPT !.title = title], tagging)

\* The tag editor: a tag is put in the place of the one picked, or at the end; one that is
\* there already is not repeated; a tag taken out moves the place of those after it.
Pick(i) ==
    /\ Act /\ dialog = "metadata" /\ i \in DOMAIN form.tags
    /\ tagging' = [kind |-> "tag", place |-> i, tag |-> form.tags[i]]
    /\ UNCHANGED <<form, asking, conflicted, failed, typed, dialog, review, tasks>>
Commit(tag) ==
    LET after == Len(form.tags) + 1
        place == IF tagging = None THEN after ELSE tagging.place
        put == IF place = after THEN Append(form.tags, tag) ELSE [form.tags EXCEPT ![place] = tag]
        first == {i \in DOMAIN put : \A j \in 1 .. i - 1 : put[j] # put[i]}
    IN  place <= after /\ Typing([form EXCEPT !.tags = Picked(put, first)], None)
TakeOut(i) ==
    /\ i \in DOMAIN form.tags
    /\ Typing([form EXCEPT !.tags = RemoveAt(@, i)],
              IF tagging = None \/ tagging.place < i THEN tagging
              ELSE IF tagging.place = i THEN None ELSE [tagging EXCEPT !.place = @ - 1])

Sends(task) == tasks' = tasks \cup {task}
Save ==
    /\ Act /\ dialog = "metadata" /\ Changed /\ ~Running("save")
    /\ Sends(Task("save", [rev |-> book.rev, form |-> form, seen |-> book.meta]))
    /\ failed' = FALSE
    /\ UNCHANGED <<form, tagging, asking, conflicted, typed, dialog, review>>

\* The review and the update from the sources are busy independently of each other.
Reviewing == OnPage /\ dialog = "review" /\ \A kind \in Deciding : ~Running(kind)
CloseReview ==
    /\ Idly /\ Reviewing
    /\ dialog' = "none" /\ loading' = Idle
    /\ preview' = None /\ conflict' = None /\ accepted' = {} /\ refused' = FALSE
    /\ tasks' = {IF k.kind = "source" /\ k.live = "here" THEN [k EXCEPT !.live = "away"] ELSE k : k \in tasks}
    /\ UNCHANGED editor
UpdateFromSource ==
    /\ Act /\ dialog = "review" /\ ~Running("source")
    /\ Sends(Task("source", [link |-> 1, rev |-> book.rev, seen |-> book.meta]))
    /\ UNCHANGED <<editor, dialog, review>>
Decides(kind, arg) ==
    /\ Act /\ Reviewing /\ refused' = FALSE
    /\ Sends(Task(kind, arg))
    /\ UNCHANGED <<editor, dialog, loading>> /\ Shown
RefreshReview ==
    /\ Idly /\ Reviewing /\ refused
    /\ refused' = FALSE /\ loading' = Fresh
    /\ UNCHANGED <<editor, dialog, tasks>> /\ Shown
Previewed == preview # None
Choose(l, choice) ==
    /\ Previewed /\ preview.cand[l].decision # "none"
    /\ choice # "skip" => Differs(preview.cand[l], preview.meta)
    /\ Decides("candidate", [token |-> preview.token, link |-> l, choice |-> choice,
                             seen |-> preview.meta, offered |-> preview.cand[l]])
RunAutomatic == Previewed /\ ~preview.confirmed /\ Decides("automatic", [token |-> preview.token])

\* Only their number is compared with the issues.
Tick(issue) ==
    /\ Idly /\ Previewed /\ dialog = "review" /\ ~preview.confirmed
    /\ issue \in preview.issues \ Blocking
    /\ accepted' = IF issue \in accepted THEN accepted \ {issue} ELSE accepted \cup {issue}
    /\ UNCHANGED <<editor, dialog, preview, conflict, loading, refused, tasks>>
Complete ==
    /\ Previewed /\ ~preview.confirmed /\ preview.issues \cap Blocking = {}
    /\ Cardinality(accepted) = Cardinality(preview.issues)
    /\ Decides("complete", [token |-> preview.token, ticked |-> accepted, seen |-> preview.meta,
                            offered |-> preview.cand])
\* One side for every field in which the two differ.
Resolve(taken) ==
    /\ conflict # None /\ \A f \in taken : conflict.file[f] # conflict.meta[f]
    /\ Decides("resolve", [conflict |-> conflict, taken |-> taken, seen |-> conflict.meta])

Editing ==
    \/ \E which \in {"metadata", "review"} : Open(which)
    \/ Close \/ Discard \/ KeepEditing \/ ReloadLatest \/ Save
    \/ \E title \in Title : TypeTitle(title)
    \/ \E i \in 1 .. Tags : Pick(i) \/ TakeOut(i)
    \/ \E tag \in Tag : Commit(tag)
DecidingOn ==
    \/ CloseReview \/ RefreshReview \/ UpdateFromSource \/ RunAutomatic \/ Complete
    \/ \E l \in Source, choice \in {"candidate", "current", "skip"} : Choose(l, choice)
    \/ \E issue \in {"title_missing", "source_unverified"} : Tick(issue)
    \/ \E taken \in SUBSET {"title", "tags"} : Resolve(taken)

-----------------------------------------------------------------------------
(* Others, and the page itself coming and going.                           *)

Other ==
    /\ others < MaxOthers /\ others' = others + 1
    /\ UNCHANGED <<at, book, editor, dialog, review, tasks, acts, faults>>
\* Another device edits, a queued check finds something, a batch syncs the file.
OtherEdits == /\ Other /\ Free /\ UNCHANGED <<sidecar, raced>>
              /\ \E title \in Title, tags \in {{}, Tag} : Edited(title, tags)
OtherObserves == /\ Other /\ Free /\ UNCHANGED <<sidecar, raced>>
                 /\ \E l \in Source, title \in Title \ {0} : Observed(l, title)
OtherSyncs == Other /\ SyncBegins /\ UNCHANGED <<library, raced>>
\* Another program writes the file; it knows no lock.
OtherWrites ==
    /\ Other
    /\ \E title \in Title : file' = [meta EXCEPT !.title = title]
    /\ file' # file
    /\ raced' = (raced \/ sync.kind = "publish")
    /\ UNCHANGED <<library, base, pending, sync>>
Around == OtherEdits \/ OtherObserves \/ OtherSyncs \/ OtherWrites \/ Syncing \/ BrokenOff

\* BookView has loaded the book.
Loaded ==
    /\ at # "away" /\ book = None
    /\ book' = Copy
    /\ IF at = "detail" THEN NewForm(meta) ELSE SameForm
    /\ UNCHANGED <<library, sidecar, at, tagging, asking, conflicted, failed, dialog, review, tasks,
                   counters, raced>>

\* Detail comes and goes with the route; BookView with the book.
Mounted(where) ==
    /\ at' = where
    /\ UNCHANGED <<library, sidecar, counters, raced>>
    /\ IF where = at THEN UNCHANGED <<book, editor, dialog, review, tasks>>
       ELSE /\ book' = IF where = "away" \/ at = "away" THEN None ELSE book
            /\ NewForm(IF where = "detail" /\ book' # None THEN book.meta ELSE Nothing)
            /\ tagging' = None /\ asking' = FALSE /\ conflicted' = FALSE /\ failed' = FALSE
            /\ dialog' = "none" /\ preview' = None /\ conflict' = None /\ accepted' = {}
            /\ loading' = Idle /\ refused' = FALSE
            /\ tasks' = {[k EXCEPT !.live = IF where = "away" \/ k.live = "gone" THEN "gone" ELSE "away"] :
                           k \in tasks}

Works == Serving \/ Answering \/ ReviewLoads \/ LoadFails \/ Editing \/ DecidingOn \/ Around \/ Loaded

-----------------------------------------------------------------------------
(* Properties.                                                             *)

MetadataTypeOK ==
    /\ meta.title \in Title /\ meta.tags \subseteq Tag /\ rev \in Nat /\ event \in Nat
    /\ sync.kind \in {"idle", "publish", "record"} /\ at \in {"detail", "reader", "away"}
    /\ dialog \in {"none", "metadata", "review"}
    /\ form.title \in Title /\ ToSet(form.tags) \subseteq Tag
    /\ {confirmed, asking, conflicted, failed, refused, typed} \subseteq BOOLEAN
    /\ \A k \in tasks : k.live \in {"here", "away", "gone"} /\ k.done \in BOOLEAN
=============================================================================
