------------------------------ MODULE Progress ------------------------------
(***************************************************************************)
(* Personal state of one book (resume page, completed, rating) edited from *)
(* several browsers.  Each open BookView has a PersonalQueue: edits wait   *)
(* in `pending`, reading progress waits in `deferred`, and one request at  *)
(* a time carries the whole resulting state to the server, which accepts   *)
(* it only against the revision it was computed from.                      *)
(*                                                                         *)
(* A request may be answered late, after another device wrote, or never;   *)
(* a save the browser has given up on may still reach the server.          *)
(***************************************************************************)
EXTENDS Integers, Sequences, SequencesExt, FiniteSets

CONSTANTS Device,        \* browsers with the book open
          StopAt,        \* pages a reader can stop at
          Score,         \* ratings a reader can give
          MaxEdits,      \* bound: edits made, all browsers
          MaxFailures,   \* bound: requests the network fails, all browsers
          MaxOpens       \* bound: times a browser opens the book

ASSUME ProgressAssumption ==
    /\ MaxEdits \in Nat /\ MaxFailures \in Nat /\ MaxOpens \in Nat

VARIABLES
    row,        \* the server's personal state
    revision,   \* its revision
    late,       \* saves the browser gave up on, still under way
    stage,      \* BookView: closed, loading, failed, open
    srv,        \* PersonalQueue.server: the last state and revision received
    pending,    \* PersonalQueue.pending
    deferred,   \* PersonalQueue.deferred: at most one edit
    call,       \* the request under way, if any
    broken,     \* PersonalQueue.failed
    saveStatus, \* what BookView shows: saved, saving, error
    nav,        \* App: leaving the route: here, asked, allowed
    stamp, failures, opens,   \* counters of the bounds
    owed,       \* history: edits this view accepted and did not supersede
    stored,     \* history: edits that reached the row
    wrote       \* history: the edits of the last accepted save

server == <<row, revision, late, stored, wrote>>
progressVars == <<row, revision, late, stage, srv, pending, deferred, call, broken,
                  saveStatus, nav, stamp, failures, opens, owed, stored, wrote>>

Personal == [page : StopAt \cup {0}, completed : BOOLEAN, rating : Score \cup {0}]
Edit == [by : Device, n : 1 .. MaxEdits, field : {"page"}, value : StopAt, final : BOOLEAN]
        \cup [by : Device, n : 1 .. MaxEdits, field : {"rating"}, value : Score, final : {FALSE}]

\* One edit function of the code: a page turn (which may finish the book) or a rating.
Apply(s, e) ==
    IF e.field = "rating" THEN [s EXCEPT !.rating = e.value]
    ELSE [s EXCEPT !.page = e.value, !.completed = @ \/ e.final]

ApplyAll(s, edits) ==
    LET after[n \in 0 .. Len(edits)] == IF n = 0 THEN s ELSE Apply(after[n - 1], edits[n])
    IN  after[Len(edits)]

\* PersonalQueue.apply: an edit that changes nothing is dropped.
Push(s, queue, e) ==
    IF Apply(ApplyAll(s, queue), e) = ApplyAll(s, queue) THEN queue ELSE Append(queue, e)

\* The same for each edit in turn.
Pushed(s, queue, edits) ==
    LET queued[n \in 0 .. Len(edits)] == IF n = 0 THEN queue ELSE Push(s, queued[n - 1], edits[n])
    IN  queued[Len(edits)]

Idle == [kind |-> "none"]
Load(kind, count) == [kind |-> kind, phase |-> "sent", count |-> count]
\* The request of one turn of drain(): the state that all of `queue` makes of the last one seen.
Drain(s, queue) ==
    IF queue = <<>> THEN Idle
    ELSE [kind |-> "save", phase |-> "sent", count |-> Len(queue), rev |-> s.rev,
          body |-> ApplyAll(s.state, queue), edits |-> ToSet(queue)]

ProgressInit ==
    /\ row = [page |-> 0, completed |-> FALSE, rating |-> 0]
    /\ revision = 0 /\ late = {} /\ stored = {} /\ wrote = {} /\ failures = 0
    /\ stage = [d \in Device |-> "closed"]
    /\ srv = [d \in Device |-> [state |-> row, rev |-> 0]]
    /\ pending = [d \in Device |-> <<>>]
    /\ deferred = [d \in Device |-> <<>>]
    /\ call = [d \in Device |-> Idle]
    /\ broken = [d \in Device |-> FALSE]
    /\ saveStatus = [d \in Device |-> "saved"]
    /\ nav = [d \in Device |-> "here"]
    /\ stamp = 0
    /\ opens = [d \in Device |-> 0]
    /\ owed = [d \in Device |-> {}]

-----------------------------------------------------------------------------
(* The server.                                                             *)

\* A book is read: the answer to a load, or the book a save returns after its commit.
ServerRead(d) ==
    /\ \/ call[d].kind \in {"open", "retry", "reload"} /\ call[d].phase = "sent"
       \/ call[d].kind = "save" /\ call[d].phase = "committed"
    /\ call' = [call EXCEPT ![d] = [kind |-> @.kind, phase |-> "answered", count |-> @.count,
                                    got |-> [state |-> row, rev |-> revision]]]
    /\ UNCHANGED <<server, stage, srv, pending, deferred, broken, saveStatus, nav,
                   stamp, failures, opens, owed>>

\* Mutant: the revision is not compared.
AcceptsAny(rev) == TRUE

\* save_personal: compare and set on the revision.
Accepts(rev) == rev = revision
Commit(body, edits) ==
    /\ row' = body
    /\ revision' = revision + 1
    /\ stored' = stored \cup edits
    /\ wrote' = edits

ServerSave(d) ==
    /\ call[d].kind = "save" /\ call[d].phase = "sent"
    /\ IF Accepts(call[d].rev)
       THEN /\ Commit(call[d].body, call[d].edits)
            /\ call' = [call EXCEPT ![d].phase = "committed"]
       ELSE /\ call' = [call EXCEPT ![d].phase = "refused"]
            /\ UNCHANGED <<row, revision, stored, wrote>>
    /\ UNCHANGED <<late, stage, srv, pending, deferred, broken, saveStatus, nav,
                   stamp, failures, opens, owed>>

\* A save nobody waits for any more arrives.
LateSave ==
    \E m \in late :
        /\ late' = late \ {m}
        /\ IF Accepts(m.rev) THEN Commit(m.body, m.edits)
           ELSE UNCHANGED <<row, revision, stored, wrote>>
        /\ UNCHANGED <<stage, srv, pending, deferred, call, broken, saveStatus, nav,
                       stamp, failures, opens, owed>>

\* What is left on the wire of a save whose caller has gone.
Abandoned(c) ==
    IF c.kind = "save" /\ c.phase = "sent"
    THEN {[body |-> c.body, rev |-> c.rev, edits |-> c.edits]} ELSE {}

-----------------------------------------------------------------------------
(* BookView and PersonalQueue.                                             *)

\* BookView's load effect, and its Retry button after a failed load.
Open(d) ==
    /\ stage[d] \in {"closed", "failed"} /\ opens[d] < MaxOpens
    /\ opens' = [opens EXCEPT ![d] = @ + 1]
    /\ stage' = [stage EXCEPT ![d] = "loading"]
    /\ call' = [call EXCEPT ![d] = Load("open", 0)]
    /\ UNCHANGED <<server, srv, pending, deferred, broken, saveStatus, nav, stamp, failures, owed>>

Opened(d) ==
    /\ call[d].kind = "open" /\ call[d].phase = "answered"
    /\ stage' = [stage EXCEPT ![d] = "open"]
    /\ srv' = [srv EXCEPT ![d] = call[d].got]
    /\ call' = [call EXCEPT ![d] = Idle]
    /\ broken' = [broken EXCEPT ![d] = FALSE]
    /\ saveStatus' = [saveStatus EXCEPT ![d] = "saved"]
    /\ owed' = [owed EXCEPT ![d] = {}]
    /\ UNCHANGED <<server, pending, deferred, nav, stamp, failures, opens>>

\* commitDeferred and apply: the waiting edit first, then the new ones; the first edit
\* that changes anything starts a save when none runs and none has failed.
Submit(d, edits) ==
    LET queue == Pushed(srv[d].state, pending[d], edits)
        before == Len(pending[d])
    IN  /\ pending' = [pending EXCEPT ![d] = queue]
        /\ owed' = [owed EXCEPT ![d] = (@ \ ToSet(deferred[d]))
                                       \cup {e \in ToSet(edits) : e \in ToSet(queue)}]
        /\ saveStatus' = [saveStatus EXCEPT ![d] = IF Len(queue) = before THEN @
                                           ELSE IF broken[d] THEN "error" ELSE "saving"]
        /\ call' = [call EXCEPT ![d] =
                      IF Len(queue) > before /\ @ = Idle /\ ~broken[d]
                      THEN Drain(srv[d], SubSeq(queue, 1, before + 1)) ELSE @]
        /\ deferred' = [deferred EXCEPT ![d] = <<>>]

NewEdit(d, field, value, final) ==
    [by |-> d, n |-> stamp + 1, field |-> field, value |-> value, final |-> final]

\* update() with a delay: the newer progress edit replaces the one that waits.
TurnPage(d) ==
    /\ stage[d] = "open" /\ stamp < MaxEdits
    /\ \E p \in StopAt :
         LET e == NewEdit(d, "page", p, FALSE) IN
         /\ owed' = [owed EXCEPT ![d] = (@ \ ToSet(deferred[d])) \cup {e}]
         /\ deferred' = [deferred EXCEPT ![d] = <<e>>]
    /\ stamp' = stamp + 1
    /\ UNCHANGED <<server, stage, srv, pending, call, broken, saveStatus, nav, failures, opens>>

\* update() without a delay: a rating, or the page that finishes the book.
EditNow(d) ==
    /\ stage[d] = "open" /\ stamp < MaxEdits
    /\ \/ \E s \in Score : Submit(d, Append(deferred[d], NewEdit(d, "rating", s, FALSE)))
       \/ \E p \in StopAt : Submit(d, Append(deferred[d], NewEdit(d, "page", p, TRUE)))
    /\ stamp' = stamp + 1
    /\ UNCHANGED <<server, stage, srv, broken, nav, failures, opens>>

\* The timer of the delayed edit, or a flush when the tab is hidden or the page left.
CommitDeferred(d) ==
    /\ stage[d] = "open" /\ deferred[d] # <<>>
    /\ Submit(d, deferred[d])
    /\ UNCHANGED <<server, stage, srv, broken, nav, stamp, failures, opens>>

\* The end of one turn of drain(), or of retry's and reload's load: go on with what is left.
Continue(d, queue) ==
    /\ srv' = [srv EXCEPT ![d] = call[d].got]
    /\ pending' = [pending EXCEPT ![d] = queue]
    /\ call' = [call EXCEPT ![d] = Drain(srv'[d], queue)]
    /\ broken' = [broken EXCEPT ![d] = FALSE]
    /\ saveStatus' = [saveStatus EXCEPT ![d] = IF queue = <<>> THEN "saved" ELSE "saving"]

\* Mutant: everything that waits is taken for saved.
UncoveredNone(d) == <<>>

Uncovered(d) == SubSeq(pending[d], call[d].count + 1, Len(pending[d]))

Saved(d) ==
    /\ call[d].kind = "save" /\ call[d].phase = "answered"
    /\ Continue(d, Uncovered(d))
    /\ UNCHANGED <<server, stage, deferred, nav, stamp, failures, opens, owed>>

Retried(d) ==
    /\ call[d].kind = "retry" /\ call[d].phase = "answered"
    /\ Continue(d, pending[d])
    /\ UNCHANGED <<server, stage, deferred, nav, stamp, failures, opens, owed>>

Reloaded(d) ==
    /\ call[d].kind = "reload" /\ call[d].phase = "answered"
    /\ Continue(d, Uncovered(d))
    /\ owed' = [owed EXCEPT ![d] = @ \ ToSet(SubSeq(pending[d], 1, call[d].count))]
    /\ UNCHANGED <<server, stage, deferred, nav, stamp, failures, opens>>

\* Mutant: the failure isn't told.
FailQuietly(d) ==
    /\ stage' = [stage EXCEPT ![d] = IF call[d].kind = "open" THEN "failed" ELSE @]
    /\ broken' = [broken EXCEPT ![d] = call[d].kind # "open"]
    /\ call' = [call EXCEPT ![d] = Idle]
    /\ UNCHANGED <<row, revision, srv, pending, deferred, saveStatus, nav, stamp, opens, owed,
                   stored, wrote>>

Fail(d) ==
    /\ stage' = [stage EXCEPT ![d] = IF call[d].kind = "open" THEN "failed" ELSE @]
    /\ broken' = [broken EXCEPT ![d] = call[d].kind # "open"]
    /\ saveStatus' = [saveStatus EXCEPT ![d] = IF call[d].kind = "open" THEN @ ELSE "error"]
    /\ call' = [call EXCEPT ![d] = Idle]
    /\ UNCHANGED <<row, revision, srv, pending, deferred, nav, stamp, opens, owed, stored, wrote>>

\* The server's conflict reaches the queue.
Refused(d) ==
    /\ call[d].kind = "save" /\ call[d].phase = "refused"
    /\ Fail(d)
    /\ UNCHANGED <<late, failures>>

\* The request times out or its connection breaks, at whatever point it is.
NetworkFailure(d) ==
    /\ call[d] # Idle /\ failures < MaxFailures
    /\ failures' = failures + 1
    /\ late' = late \cup Abandoned(call[d])
    /\ Fail(d)

\* "Retry saving" and "Discard unsaved changes and reload", offered on an error only.
Again(d) ==
    /\ stage[d] = "open" /\ saveStatus[d] = "error" /\ call[d] = Idle
    /\ call' = [call EXCEPT ![d] = Load("retry", 0)]
    /\ UNCHANGED <<server, stage, srv, pending, deferred, broken, saveStatus, nav,
                   stamp, failures, opens, owed>>
Discard(d) ==
    /\ stage[d] = "open" /\ saveStatus[d] = "error" /\ call[d] = Idle
    /\ call' = [call EXCEPT ![d] = Load("reload", Len(pending[d]))]
    /\ UNCHANGED <<server, stage, srv, pending, deferred, broken, saveStatus, nav,
                   stamp, failures, opens, owed>>

-----------------------------------------------------------------------------
(* App: leaving the route, and the end of the session.                     *)

\* hashchange: the guard flushes, and waits for the queue to be idle.
Leave(d) ==
    /\ stage[d] = "open" /\ nav[d] # "allowed"
    /\ nav' = [nav EXCEPT ![d] = "asked"]
    /\ Submit(d, deferred[d])
    /\ UNCHANGED <<server, stage, srv, broken, stamp, failures, opens>>

\* A second hashchange, back to the route on screen, drops the first one's answer.
Return(d) ==
    /\ nav[d] = "asked"
    /\ nav' = [nav EXCEPT ![d] = "here"]
    /\ UNCHANGED <<server, stage, srv, pending, deferred, call, broken, saveStatus,
                   stamp, failures, opens, owed>>

GuardAnswers(d) ==
    /\ nav[d] = "asked" /\ call[d] = Idle
    /\ nav' = [nav EXCEPT ![d] = IF pending[d] = <<>> THEN "allowed" ELSE "here"]
    /\ UNCHANGED <<server, stage, srv, pending, deferred, call, broken, saveStatus,
                   stamp, failures, opens, owed>>

\* BookView's cleanup: flush(), which sends the waiting edit unless a save runs or has
\* failed, then close(), which drops whatever is left.  The request goes on alone.
Cleanup(d) ==
    LET queue == Pushed(srv[d].state, pending[d], deferred[d])
        sent == IF Len(queue) > Len(pending[d]) /\ call[d] = Idle /\ ~broken[d]
                THEN Drain(srv[d], queue) ELSE call[d]
    IN  /\ late' = late \cup Abandoned(sent)
        /\ stage' = [stage EXCEPT ![d] = "closed"]
        /\ pending' = [pending EXCEPT ![d] = <<>>]
        /\ deferred' = [deferred EXCEPT ![d] = <<>>]
        /\ call' = [call EXCEPT ![d] = Idle]
        /\ broken' = [broken EXCEPT ![d] = FALSE]
        /\ nav' = [nav EXCEPT ![d] = "here"]
        /\ owed' = [owed EXCEPT ![d] = {}]

Unmount(d) ==
    /\ stage[d] = "open" /\ nav[d] = "allowed"
    /\ Cleanup(d)
    /\ UNCHANGED <<row, revision, stored, wrote, srv, saveStatus, stamp, failures, opens>>

\* A view that has not loaded has no guard to ask.
Abandon(d) ==
    /\ stage[d] \in {"loading", "failed"}
    /\ Cleanup(d)
    /\ UNCHANGED <<row, revision, stored, wrote, srv, saveStatus, stamp, failures, opens>>

\* A 401 on any request locks the page: the guard is dropped and the view unmounts.
Lock(d) ==
    /\ stage[d] # "closed" /\ failures < MaxFailures
    /\ failures' = failures + 1
    /\ Cleanup(d)
    /\ UNCHANGED <<row, revision, stored, wrote, srv, saveStatus, stamp, opens>>

Network == \E d \in Device : ServerRead(d) \/ ServerSave(d) \/ NetworkFailure(d)
Queue == \E d \in Device : \/ Opened(d) \/ Saved(d) \/ Retried(d) \/ Reloaded(d)
                           \/ Refused(d) \/ CommitDeferred(d)
Browsing == \E d \in Device : \/ Open(d) \/ TurnPage(d) \/ EditNow(d) \/ Again(d) \/ Discard(d)
                          \/ Leave(d) \/ Return(d) \/ Abandon(d)
Shell == \E d \in Device : GuardAnswers(d) \/ Unmount(d) \/ Lock(d)

ProgressNext == Network \/ LateSave \/ Queue \/ Browsing \/ Shell

\* Every request ends, by an answer or by request()'s timeout; the queue's own
\* continuations and timers run; App goes on when the guard answers.
Fairness ==
    \A d \in Device :
        /\ WF_progressVars(ServerRead(d)) /\ WF_progressVars(ServerSave(d))
        /\ WF_progressVars(Opened(d)) /\ WF_progressVars(Saved(d)) /\ WF_progressVars(Retried(d))
        /\ WF_progressVars(Reloaded(d)) /\ WF_progressVars(Refused(d))
        /\ WF_progressVars(CommitDeferred(d))
        /\ WF_progressVars(GuardAnswers(d)) /\ WF_progressVars(Unmount(d))

ProgressSpec == ProgressInit /\ [][ProgressNext]_progressVars /\ Fairness
-----------------------------------------------------------------------------
Held(d) == ToSet(pending[d]) \cup ToSet(deferred[d])

ProgressTypeOK ==
    /\ row \in Personal /\ revision \in Nat /\ stored \subseteq Edit
    /\ \A m \in late : m.body \in Personal /\ m.rev \in Nat /\ m.edits \subseteq Edit
    /\ stage \in [Device -> {"closed", "loading", "failed", "open"}]
    /\ srv \in [Device -> [state : Personal, rev : Nat]]
    /\ pending \in [Device -> Seq(Edit)] /\ deferred \in [Device -> Seq(Edit)]
    /\ \A d \in Device :
         /\ call[d].kind \in {"none", "open", "save", "retry", "reload"}
         /\ Len(deferred[d]) <= 1
    /\ broken \in [Device -> BOOLEAN] /\ saveStatus \in [Device -> {"saved", "saving", "error"}]
    /\ nav \in [Device -> {"here", "asked", "allowed"}]
    /\ owed \in [Device -> SUBSET Edit]

\* While a book is open, an edit its view accepted is in the row's history or still in the
\* queue: no answer, failure, retry or edit made meanwhile makes the queue forget one.
NoEditForgotten == \A d \in Device : owed[d] \subseteq stored \cup Held(d)

\* A view that shows "saved" with nothing delayed has had every edit of it stored.
SavedMeansStored ==
    \A d \in Device :
        stage[d] = "open" /\ saveStatus[d] = "saved" /\ deferred[d] = <<>>
            => owed[d] \subseteq stored

\* A save writes the whole state, yet it changes only what its own edits touched: an edit of
\* another device that this one has not seen survives, however late the save arrives.
WritesOwn ==
    /\ row'.rating # row.rating => \E e \in wrote' : e.field = "rating"
    /\ <<row'.page, row'.completed>> # <<row.page, row.completed>>
          => \E e \in wrote' : e.field = "page"
OthersSurvive == [][WritesOwn]_progressVars

\* The edits a view leaves behind without having sent them, when it closes.
Dropped(d) ==
    ToSet(Pushed(srv[d].state, pending[d], deferred[d]))
      \ (stored \cup UNION {m.edits : m \in late'}
               \cup (IF call[d].kind = "save" THEN call[d].edits ELSE {}))

\* A view closes with an edit unsent only when a request of its queue is running or a save
\* has failed and the page says so; behind the guard alone, leaving loses nothing.
ClosesIdle ==
    \A d \in Device :
        (stage[d] = "open" /\ stage'[d] = "closed" /\ call[d] = Idle /\ ~broken[d])
            => Dropped(d) = {}
CloseSendsWhenIdle == [][ClosesIdle]_progressVars

\* What the queue's comment says: a flush() right before close() has sent its request.
FlushBeforeCloseSends ==
    [][\A d \in Device :
         (stage[d] = "open" /\ stage'[d] = "closed" /\ ~broken[d])
            => Dropped(d) \cap ToSet(deferred[d]) = {}]_progressVars

\* "Saving" is not shown for ever: the view comes to saved, to an error, or closes.
SavingEnds ==
    \A d \in Device :
        (stage[d] = "open" /\ saveStatus[d] = "saving")
            ~> (stage[d] # "open" \/ saveStatus[d] # "saving")

\* A guard that was asked answers.
GuardDecides == \A d \in Device : nav[d] = "asked" ~> nav[d] # "asked"

-----------------------------------------------------------------------------
(* What the runs check, a group of the above at a time.                    *)

\* Edits: none is forgotten by the queue, and "saved" is the truth; a save overwrites no
\* other device's edit, and a view that could send its edits does so before it closes.
EditsKept == ProgressTypeOK /\ NoEditForgotten /\ SavedMeansStored
KeepsEdits == [][EditsKept' /\ WritesOwn /\ ClosesIdle]_progressVars

\* Ends: saving comes to an end, and so does leaving.
SavingSettles == SavingEnds /\ GuardDecides
=============================================================================
