----------------------------- MODULE Navigation -----------------------------
(***************************************************************************)
(* The App's navigation: the browser's history, whose entries the App      *)
(* numbers so that it can go back over a move it refuses; the guard of the *)
(* page on screen, which may take as long as its saves; the trail behind   *)
(* the Back button; the session's lock, sign-in and sign-out.              *)
(*                                                                         *)
(* The browser moves first and tells the App later, one hashchange event   *)
(* for each move, by which time it may have moved again; history.go() is   *)
(* as asynchronous.                                                        *)
(***************************************************************************)
EXTENDS Integers, Sequences, SequencesExt, FiniteSets

CONSTANTS Books,       \* books that have a page and a reader: 1 .. Books
          MaxMoves,    \* bound: moves of the user
          MaxChanges,  \* bound: drafts and saves begun
          MaxLocks,    \* bound: sessions that expire
          MaxReloads   \* bound: reloads by the user

ASSUME NavigationAssumption ==
    {Books, MaxMoves, MaxChanges, MaxLocks, MaxReloads} \subseteq Nat

Library == <<"library", 0>>
Page(id) == <<"book", id>>
Reading(id) == <<"read", id>>
Route == {Library, <<"settings", 0>>}
         \cup {Page(id) : id \in 1 .. Books} \cup {Reading(id) : id \in 1 .. Books}
None == -1

VARIABLES
    entries,    \* the browser's history: routes, and the numbers the App gave them
    index,      \* the entry the address bar shows
    events,     \* hashchange events not handled yet
    going,      \* history.go() not carried out yet
    active,     \* the route on screen
    position,   \* the number of its entry (historyPosition)
    trail,      \* the routes the Back button returns along
    asks,       \* questions to the guard that are not answered
    draft,      \* the page has something unsaved that its guard refuses to leave
    saving,     \* its saves, which the guard waits for
    auth, signingOut,
    moves, changes, locks, reloads,
    bounced,    \* history: the App reloaded itself while it refused a move
    numbered,   \* history: the numbers have always been those of the entries
    calm        \* history: the browser and the App have taken turns

browser == <<entries, index, going>>
page == <<draft, saving>>
session == <<auth, signingOut>>
counts == <<moves, changes, locks, reloads>>
vars == <<browser, events, active, position, trail, asks, page, session, counts, bounced, numbered,
          calm>>

Address == entries[index].route

\* parentRoute() and defaultTrail(): the way to a route opened directly.
Parent(r) == IF r[1] = "read" THEN Page(r[2]) ELSE Library
DefaultTrail(r) ==
    IF r = Library THEN <<r>>
    ELSE IF r[1] = "read" THEN <<Library, Page(r[2]), r>> ELSE <<Library, r>>

\* advanceTrail(): back to a route already on it, from a reader to its book or to
\* another reader in its place, or one route further. That a trail of more than 62
\* routes loses its start (slice(-62)) is left out.
AdvanceTrail(tr, next) ==
    LET at == {i \in DOMAIN tr : tr[i] = next}
        last == Last(tr)
        parents == Front(tr)
        book == Page(last[2])
    IN  IF at # {} THEN SubSeq(tr, 1, CHOOSE i \in at : \A j \in at : j <= i)
        ELSE IF last[1] = "read" /\ next = book THEN Append(parents, next)
        ELSE IF last[1] = "read" /\ next[1] = "read"
        THEN Append(IF parents # <<>> /\ Last(parents) = book
                    THEN Append(Front(parents), Page(next[2])) ELSE parents, next)
        ELSE Append(tr, next)

Target == IF Len(trail) > 1 THEN trail[Len(trail) - 1] ELSE Parent(active)

Init ==
    /\ entries = <<[route |-> Library, pos |-> 0]>> /\ index = 1
    /\ events = 0 /\ going = <<>>
    /\ active = Library /\ position = 0 /\ trail = <<Library>>
    /\ asks = {} /\ draft = FALSE /\ saving = "none"
    /\ auth = "checking" /\ signingOut = FALSE
    /\ moves = 0 /\ changes = 0 /\ locks = 0 /\ reloads = 0
    /\ bounced = FALSE /\ numbered = TRUE /\ calm = TRUE

-----------------------------------------------------------------------------
(* The browser.                                                            *)

\* navigate(): a link pushes an entry the App hasn't numbered.
Push(r) ==
    /\ r # Address
    /\ entries' = Append(SubSeq(entries, 1, index), [route |-> r, pos |-> None])
    /\ index' = index + 1
    /\ events' = events + 1
    /\ UNCHANGED going

\* The links of the header and of the page on screen.
Links == {Target, Library, <<"settings", 0>>}
         \cup IF active[1] = "library" THEN Route \ {Library, <<"settings", 0>>}
              ELSE IF active[1] = "book" THEN {Reading(active[2])}
              ELSE IF active[1] = "read"
              THEN {Page(active[2])} \cup {Reading(id) : id \in (1 .. Books) \ {active[2]}}
              ELSE {}

\* An answer that is due comes before anything else happens in the page.
Due == \E a \in asks : a.here /\ saving # "pending"

User == ~Due /\ moves < MaxMoves /\ moves' = moves + 1 /\ UNCHANGED <<changes, locks, reloads>>
Still == UNCHANGED <<active, position, trail, asks, page, session, bounced>>

Click(r) ==
    /\ User
    /\ IF auth = "ready" THEN r \in Links ELSE r = Library
    /\ Push(r)
    /\ Still

\* The entry d away; hashchange is fired when its route is another one.
Traverse(d) ==
    /\ index + d \in DOMAIN entries
    /\ index' = index + d
    /\ events' = IF entries[index + d].route = Address THEN events ELSE events + 1
    /\ UNCHANGED entries

BackOrForward(d) == User /\ Traverse(d) /\ UNCHANGED going /\ Still

\* A new document: the App starts at the entry it is at, which it numbers 0.
Restart ==
    /\ entries' = [entries EXCEPT ![index].pos = 0]
    /\ going' = <<>> /\ events' = 0
    /\ active' = Address /\ position' = 0
    /\ trail' = IF Last(trail) = Address THEN trail ELSE DefaultTrail(Address)
    /\ asks' = {} /\ draft' = FALSE /\ saving' = "none"
    /\ auth' = "checking" /\ signingOut' = FALSE
    /\ UNCHANGED index

\* history.go(): past either end nothing happens, by 0 the page is loaded again, unless
\* the user, asked because of what is unsaved (beforeunload), stays.
Gone ==
    /\ ~Due /\ going # <<>>
    /\ IF Head(going) = 0
       THEN \/ Restart /\ bounced' = TRUE
            \/ /\ draft \/ saving # "none"
               /\ going' = Tail(going)
               /\ Still /\ UNCHANGED <<entries, index, events>>
       ELSE /\ IF index + Head(going) \in DOMAIN entries
               THEN Traverse(Head(going)) ELSE UNCHANGED <<entries, index, events>>
            /\ going' = Tail(going)
            /\ Still
    /\ UNCHANGED counts

Reload ==
    /\ ~Due /\ reloads < MaxReloads /\ reloads' = reloads + 1
    /\ Restart
    /\ UNCHANGED <<moves, changes, locks, bounced>>

-----------------------------------------------------------------------------
(* The App.                                                                *)

\* The page leaves: what its guard let go is gone with it.
Left == /\ draft' = FALSE /\ saving' = "none"

Accepted(r, pos, others) ==
    /\ active' = r /\ position' = pos
    /\ trail' = AdvanceTrail(trail, r)
    /\ asks' = others
    /\ Left
    /\ UNCHANGED going

Refused(pos, others) ==
    /\ going' = Append(going, position - pos)
    /\ asks' = others
    /\ UNCHANGED <<active, position, trail, page>>

\* A guard answers at once unless it has to wait for saves; Login has none.
Guarded == auth = "ready"
Waits == Guarded /\ ~draft /\ saving = "pending"
Consents == Guarded => ~draft /\ saving = "none"
\* Mutant: a question stays open when the next one is asked.
SupersededNever == asks

Superseded == {[a EXCEPT !.live = a.live /\ a.kind = "signout"] : a \in asks}

\* The hashchange handler: it numbers an entry that has no number and asks.
Change ==
    /\ ~Due /\ events > 0 /\ events' = events - 1
    /\ IF Address = active
       THEN /\ asks' = Superseded
            /\ UNCHANGED <<entries, going, active, position, trail, page>>
       ELSE LET pos == IF entries[index].pos = None THEN position + 1 ELSE entries[index].pos
            IN  /\ entries' = [entries EXCEPT ![index].pos = pos]
                /\ IF Waits
                   THEN /\ asks' = Superseded \cup {[kind |-> "move", route |-> Address,
                                                     pos |-> pos, live |-> TRUE, here |-> TRUE]}
                        /\ UNCHANGED <<going, active, position, trail, page>>
                   ELSE IF Consents THEN Accepted(Address, pos, Superseded)
                   ELSE Refused(pos, Superseded)
    /\ UNCHANGED <<index, session, counts, bounced>>

\* The saves the guard waited for are over, for better or worse; the queue of a page
\* that was locked away has dropped what was left. An answer to a superseded question
\* does nothing.
Answered(a) == ~a.here \/ saving # "pending"
\* Mutant: a guard that has waited lets go, whatever became of the saves.
GrantedAnyhow(a) == TRUE

Granted(a) == a.here => saving = "none"

MoveAnswered(a) ==
    /\ a.kind = "move" /\ Answered(a)
    /\ LET others == asks \ {a}
       IN  IF ~a.live
           THEN /\ asks' = others
                /\ UNCHANGED <<going, active, position, trail, page>>
           ELSE IF Granted(a) THEN Accepted(a.route, a.pos, others) ELSE Refused(a.pos, others)
    /\ UNCHANGED <<entries, index, events, session, counts, bounced>>

\* Work on the page: a draft, which only the user ends, and saves, which may fail.
Working == ~Due /\ auth = "ready" /\ UNCHANGED <<browser, events, active, position, trail, asks, session,
                                         moves, locks, reloads, bounced>>
Draft == /\ Working /\ ~draft /\ changes < MaxChanges /\ changes' = changes + 1
         /\ draft' = TRUE /\ UNCHANGED saving
Resolved == Working /\ draft /\ draft' = FALSE /\ UNCHANGED <<saving, changes>>
Edit == /\ Working /\ active[1] \in {"book", "read"} /\ saving # "pending"
        /\ changes < MaxChanges /\ changes' = changes + 1
        /\ saving' = "pending" /\ UNCHANGED draft
SaveEnds(how) ==
    Working /\ saving = "pending" /\ saving' = how /\ UNCHANGED <<draft, changes>>

-----------------------------------------------------------------------------
(* The session.                                                            *)

Outside == UNCHANGED <<browser, events, active, position, trail, bounced>>

\* The first /api/auth/me, and Login's answer.
Checked(ok) ==
    /\ ~Due /\ auth = "checking" /\ auth' = IF ok THEN "ready" ELSE "locked"
    /\ UNCHANGED <<asks, page, signingOut, counts>> /\ Outside
Entered ==
    /\ ~Due /\ auth = "locked" /\ auth' = "ready"
    /\ UNCHANGED <<asks, page, signingOut, counts>> /\ Outside

\* A request is refused with 401: nothing asked before counts any more.
Locked ==
    /\ ~Due /\ auth = "ready" /\ locks < MaxLocks /\ locks' = locks + 1
    /\ auth' = "locked"
    /\ asks' = {[a EXCEPT !.here = FALSE, !.live = a.live /\ a.kind = "signout"] : a \in asks}
    /\ Left
    /\ UNCHANGED <<signingOut, moves, changes, reloads>> /\ Outside

\* logout(), confirmed: the guard is asked as for a move; its answer locks the page and
\* is followed by the request, unless one was under way when it was asked (loggingOut, of
\* the closure).
SignedOut(others) ==
    /\ auth' = "locked" /\ signingOut' = TRUE
    /\ asks' = others
    /\ Left

SignOut ==
    /\ auth = "ready" /\ User
    /\ IF Waits
       THEN /\ asks' = asks \cup {[kind |-> "signout", route |-> active, pos |-> None,
                                   live |-> ~signingOut, here |-> TRUE]}
            /\ UNCHANGED <<page, session>>
       ELSE IF Consents /\ ~signingOut THEN SignedOut(asks)
       ELSE UNCHANGED <<asks, page, session>>
    /\ Outside

SignOutAnswered(a) ==
    /\ a.kind = "signout" /\ Answered(a)
    /\ IF Granted(a) /\ a.live THEN SignedOut(asks \ {a})
       ELSE asks' = asks \ {a} /\ UNCHANGED <<page, session>>
    /\ UNCHANGED counts /\ Outside

SignOutEnds ==
    /\ ~Due /\ signingOut /\ signingOut' = FALSE
    /\ UNCHANGED <<asks, page, auth, counts>> /\ Outside

Moving == \/ \E r \in Route : Click(r)
          \/ \E d \in {-1, 1} : BackOrForward(d)
          \/ Gone \/ Reload
Guarding == \/ Change
            \/ \E a \in asks : MoveAnswered(a) \/ SignOutAnswered(a)
Paging == Draft \/ Resolved \/ Edit \/ \E how \in {"none", "failed"} : SaveEnds(how)
Sessions == \/ \E ok \in BOOLEAN : Checked(ok)
            \/ Entered \/ Locked \/ SignOut \/ SignOutEnds

\* The numbers are those of the entries, the page's own among them, as they are until the
\* page is reloaded, or a link is followed from an earlier entry while the page is asked.
Numbered ==
    /\ \A i \in DOMAIN entries : entries[i].pos \in {None, i - 1}
    /\ position + 1 \in DOMAIN entries /\ entries[position + 1].route = active

\* Every event is handled before the address moves on or a guard answers, and the user
\* moves only when no history.go() is under way; a guard may wait as long as it likes.
TakesTurns ==
    \/ events' < events
    \/ UNCHANGED <<index, going, active, position>>
    \/ events = 0 /\ (moves' # moves => going = <<>>)

Next == /\ Moving \/ Guarding \/ Paging \/ Sessions
        /\ numbered' = (numbered /\ Numbered')
        /\ calm' = (calm /\ TakesTurns)

Spec == Init /\ [][Next]_vars

-----------------------------------------------------------------------------
(* Properties.                                                             *)

TypeOK ==
    /\ \A i \in DOMAIN entries : entries[i].route \in Route /\ entries[i].pos \in Nat \cup {None}
    /\ index \in DOMAIN entries /\ events \in Nat
    /\ \A i \in DOMAIN going : going[i] \in Int
    /\ active \in Route /\ position \in Nat /\ trail \in Seq(Route)
    /\ \A a \in asks : a.kind \in {"move", "signout"} /\ a.route \in Route
    /\ saving \in {"none", "pending", "failed"} /\ auth \in {"checking", "ready", "locked"}
    /\ {draft, signingOut, bounced, numbered, calm} \subseteq BOOLEAN

Quiet == events = 0 /\ going = <<>> /\ \A a \in asks : a.kind # "move"

\* Once the browser and the guard have settled, the page on screen is the one the address
\* bar names, whether moves were accepted or refused, however long the guard took and
\* however often the user moved meanwhile (the hashchange handler's sequence and
\* historyPosition).
AddressIsRoute == Quiet /\ numbered /\ calm /\ locks = 0 => Address = active /\ ~bounced

\* A refused move leaves the user where they were, with their history:
\* "blocked back navigation preserves both history entries" (app.spec.ts).
BlockedReturns == Quiet /\ locks = 0 => Address = active /\ ~bounced

\* No page is left while its saves are under way or have failed: a move within a session
\* waits for the guard (the App's handler), and so does signing out (logout()), but for one
\* that was asked for in a session that has expired since: its late answer ends the next.
SavesFirst ==
    [][/\ auth = "ready" /\ auth' = "ready" /\ active' # active /\ reloads' = reloads /\ ~bounced'
          => saving = "none"
       /\ auth = "ready" /\ auth' = "locked" /\ locks' = locks
          => saving = "none" \/ \E a \in asks \ asks' : ~a.here]_vars

\* The trail leads from the library to the page on screen, and the Back button is dead only
\* on a book's page, if anywhere (advanceTrail()).
TrailLeads ==
    /\ Last(trail) = active /\ trail[1] = Library
    /\ active[1] \notin {"library", "book"} => Target # active

\* No move takes a draft along:
\* "Finish the current operation or resolve unsaved changes before leaving." (App.tsx).
DraftKept ==
    [][draft /\ auth = "ready" /\ active' # active => reloads' # reloads \/ bounced']_vars

\* Where the user is: the address, the page and the trail agree.
PlaceIsOne == TypeOK /\ AddressIsRoute /\ TrailLeads
=============================================================================
