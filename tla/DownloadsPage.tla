--------------------------- MODULE DownloadsPage ----------------------------
(***************************************************************************)
(* The downloads page of the web client: a list of jobs kept fresh by a    *)
(* poller (usePolling), one operation of the user at a time (an action on  *)
(* a job, a batch of them, a submission of links), and the download queue  *)
(* behind them, whose workers and answers come at any time.                *)
(*                                                                         *)
(* An operation ends by refreshing the list and waits for that refresh.    *)
(* React's render and effects after an event are part of its step.         *)
(***************************************************************************)
EXTENDS Integers, Sequences, SequencesExt, FiniteSets, Ordering

CONSTANTS Jobs,        \* links, and the jobs made of them
          Bad,         \* a line that is no link
          Limit,       \* jobs listed on a page (20)
          Price,       \* prices the site may quote
          MaxWork,     \* bound: steps of the queue's workers
          MaxCommands, \* bound: operations and changes of the user
          MaxFaults    \* bound: requests that fail

ASSUME DownloadsPageAssumption ==
    /\ Jobs \in Nat \ {0} /\ Bad \notin 1 .. Jobs /\ Limit \in Nat \ {0} /\ Price \subseteq Nat
    /\ MaxWork \in Nat /\ MaxCommands \in Nat /\ MaxFaults \in Nat

Job == 1 .. Jobs   \* in the order of their rows, one per link

VARIABLES
    job,       \* the server's jobs
    jobs,      \* the list on screen, as last received
    box,       \* the lines in the text box
    scope,     \* "active" or "history"
    pages,     \* cursors of the pages turned; 0 is the first page's
    cursor,    \* the next page's cursor, 0 if there is none
    selected,  \* jobs ticked
    pinned,    \* the job kept on the list although its page does not hold it, or 0
    visible,   \* the tab is shown
    run,       \* the poller's request under way, if any
    queued,    \* a forced run follows the one under way
    timer,     \* the poller's timer is set
    failed,    \* the last refresh failed
    error,     \* the last operation failed, and the page says so
    op,        \* the operation under way: `busy` is set
    work, commands, faults,
    shownKey,  \* history: what the list on screen was asked for
    known      \* history: the newest revision an action's answer told the page

client == <<jobs, box, scope, pages, cursor, selected, pinned, visible, run, queued,
            timer, failed, error, op, shownKey, known>>
vars == <<job, client, work, commands, faults>>

Terminal == {"done", "cancelled"}
Resumable == {"paused", "attention", "cancelled"}
Absent == [state |-> "none", rev |-> 0, price |-> 0]
State == {"none", "queued", "choice", "approval", "attention", "paused", "cancelled", "done"}

\* A row as the server sends it.
Output(j) == [id |-> j, state |-> job[j].state, rev |-> job[j].rev, price |-> job[j].price]

\* list(): the newest rows of the scope before a cursor, and the next page's cursor.
InScope(s) == {j \in Job : job[j].state # "none"
                           /\ (s = "history" <=> job[j].state \in Terminal)}
Listed(s, before) ==
    LET rows == {j \in InScope(s) : before = 0 \/ j < before}
        size == IF Cardinality(rows) < Limit THEN Cardinality(rows) ELSE Limit
        newest(i) == InOrder(rows)[Cardinality(rows) + 1 - i]
    IN  [items |-> [i \in 1 .. size |-> Output(newest(i))],
         next |-> IF Cardinality(rows) > Limit THEN newest(Limit) ELSE 0]

Ids(items) == {items[i].id : i \in DOMAIN items}
Key == <<scope, Last(pages)>>

-----------------------------------------------------------------------------
(* usePolling.                                                             *)

NoRun == [phase |-> "none"]
\* A run asks for what the page shows at its start; `forced` when a refresh() waits for it.
Started(key, forced) == [phase |-> "sent", key |-> key, forced |-> forced]
NoOp == [kind |-> "none"]

\* The effect for a new key: the old run is aborted, and with it the refresh that waits for
\* it resolves; in a hidden tab the first run is put off.
Restart(key) ==
    /\ run' = IF visible THEN Started(key, FALSE) ELSE NoRun
    /\ timer' = ~visible
    /\ queued' = FALSE
    /\ op' = IF op.kind # "none" /\ op.phase = "refresh" THEN NoOp ELSE op

\* Mutant: a refresh takes the run under way for its own.
RefreshJoins ==
    /\ run' = IF run = NoRun THEN Started(Key, TRUE) ELSE [run EXCEPT !.forced = TRUE]
    /\ UNCHANGED queued

\* refresh(): now, or after the run under way.
Refresh ==
    /\ run' = IF run = NoRun THEN Started(Key, TRUE) ELSE run
    /\ queued' = (run # NoRun)

\* Mutant: a refresh that waits for the run to end is forgotten.
RunEndsAlone ==
    /\ run' = NoRun /\ queued' = FALSE /\ timer' = TRUE
    /\ op' = IF run.forced THEN NoOp ELSE op

\* A run ends: the timer is set, a forced run follows at once, and the refresh it was
\* started for lets its operation go on.
RunEnds ==
    /\ run' = IF queued THEN Started(Key, TRUE) ELSE NoRun
    /\ queued' = FALSE
    /\ timer' = TRUE
    /\ op' = IF run.forced THEN NoOp ELSE op

\* The list's answer leaves the server.
ListAnswered ==
    /\ run.phase = "sent"
    /\ LET list == Listed(run.key[1], run.key[2]) IN
       run' = [phase |-> "listed", key |-> run.key, forced |-> run.forced,
               items |-> list.items, next |-> list.next]
    /\ UNCHANGED <<job, jobs, box, scope, pages, cursor, selected, pinned, visible, queued,
                   timer, failed, error, op, shownKey, known, work, commands, faults>>

LacksPinned == run.key[1] = "active" /\ pinned # 0 /\ pinned \notin Ids(run.items)

\* The page asks for a pinned job its list does not hold ...
AskPinned ==
    /\ run.phase = "listed"
    /\ LacksPinned
    /\ run' = [run EXCEPT !.phase = "pinning", !.items = <<Output(pinned)>> \o @]
    /\ UNCHANGED <<job, jobs, box, scope, pages, cursor, selected, pinned, visible, queued,
                   timer, failed, error, op, shownKey, known, work, commands, faults>>

\* ... and shows what it has received.
ListShown ==
    /\ \/ run.phase = "pinning"
       \/ run.phase = "listed" /\ ~LacksPinned
    /\ jobs' = run.items /\ cursor' = run.next /\ shownKey' = run.key
    /\ failed' = FALSE
    /\ RunEnds
    /\ UNCHANGED <<job, box, scope, pages, selected, pinned, visible, error, known, work,
                   commands, faults>>

RunFails ==
    /\ run # NoRun /\ faults < MaxFaults
    /\ faults' = faults + 1
    /\ failed' = TRUE
    /\ RunEnds
    /\ UNCHANGED <<job, jobs, box, scope, pages, cursor, selected, pinned, visible, error,
                   shownKey, known, work, commands>>

\* The timer: nothing while a run is under way, another wait in a hidden tab, else a run.
TimerFires ==
    /\ timer
    /\ timer' = (run = NoRun /\ ~visible)
    /\ run' = IF run = NoRun /\ visible THEN Started(Key, FALSE) ELSE run
    /\ UNCHANGED <<job, jobs, box, scope, pages, cursor, selected, pinned, visible, queued,
                   failed, error, op, shownKey, known, work, commands, faults>>

\* visibilitychange and focus.
Visibility ==
    /\ commands < MaxCommands /\ commands' = commands + 1
    /\ visible' = ~visible
    /\ run' = IF ~visible /\ run = NoRun THEN Started(Key, FALSE) ELSE run
    /\ UNCHANGED <<job, jobs, box, scope, pages, cursor, selected, pinned, queued, timer,
                   failed, error, op, shownKey, known, work, faults>>

-----------------------------------------------------------------------------
(* The download queue.                                                     *)

\* The workers: what a queued job comes to.
Work(j) ==
    /\ job[j].state = "queued" /\ work < MaxWork
    /\ work' = work + 1
    /\ \E s \in {"choice", "attention", "paused", "done", "approval"}, p \in Price :
         job' = [job EXCEPT ![j] = [state |-> s, rev |-> @.rev + 1,
                                    price |-> IF s = "approval" THEN p ELSE @.price]]
    /\ UNCHANGED <<client, commands, faults>>

\* _act(): the state an action leads to, "none" if it is refused there.
Outcome(action, state) ==
    CASE action = "cancel" /\ state # "done" -> "cancelled"
      [] action = "search" /\ state \in {"choice", "done", "paused", "cancelled"} -> "queued"
      [] action = "pause" /\ state = "queued" -> "paused"
      [] action = "choose" /\ state = "choice" -> "queued"
      [] action = "approve" /\ state = "approval" -> "queued"
      [] action \in {"resume", "recover"} /\ state \in Resumable -> "queued"
      [] OTHER -> "none"

\* Mutant: the revision the page saw is not looked at.
AcceptsAnyRevision(r) == Outcome(r.action, job[r.id].state) # "none"

\* A stale revision is refused, but for a cancel.
Accepts(r) == /\ job[r.id].rev = r.rev \/ r.action = "cancel"
              /\ Outcome(r.action, job[r.id].state) # "none"

Acted(r) == [job EXCEPT ![r.id] = [state |-> Outcome(r.action, @.state), rev |-> @.rev + 1,
                                   price |-> @.price]]

\* create(): a new job, or a finished one queued again.
Created(l) ==
    IF job[l].state = "none" THEN [job EXCEPT ![l] = [state |-> "queued", rev |-> 1, price |-> 0]]
    ELSE IF job[l].state \in Terminal
    THEN [job EXCEPT ![l] = [state |-> "queued", rev |-> @.rev + 1, price |-> 0]]
    ELSE job

-----------------------------------------------------------------------------
(* Operations.                                                             *)

Command == visible /\ commands < MaxCommands /\ commands' = commands + 1
Idle == op = NoOp

\* What a row's buttons offer in a state.
Offers(action, state) ==
    \/ action = "cancel" /\ state \notin Terminal
    \/ action = "pause" /\ state = "queued"
    \/ action = "resume" /\ state \in Resumable \ {"attention"}
    \/ action = "recover" /\ state = "attention"
    \/ action = "search" /\ state \in Terminal \cup {"paused", "choice"}
    \/ action = "choose" /\ state = "choice"
    \/ action = "approve" /\ state = "approval"
Action == {"cancel", "pause", "resume", "recover", "search", "choose", "approve"}

Request(item, action) ==
    [id |-> item.id, action |-> action, rev |-> item.rev, price |-> item.price]

\* act(): a button of a row; a search also pins its job.
Act(i, action) ==
    /\ Idle /\ Command
    /\ i \in DOMAIN jobs /\ Offers(action, jobs[i].state)
    /\ op' = [kind |-> "act", phase |-> "sent", todo |-> <<Request(jobs[i], action)>>]
    /\ pinned' = IF action = "search" THEN jobs[i].id ELSE pinned
    /\ error' = FALSE
    /\ UNCHANGED <<job, jobs, box, scope, pages, cursor, selected, visible, run, queued, timer,
                   failed, shownKey, known, work, faults>>

\* batch(): the ticked jobs of the list that the action is for, one after the other.
BatchOf(action) ==
    LET chosen == SelectSeq(jobs, LAMBDA x :
                      /\ x.id \in selected
                      /\ \/ Offers(action, x.state)
                         \/ action = "resume" /\ x.state = "attention")
    IN  [k \in DOMAIN chosen |->
           Request(chosen[k], IF chosen[k].state = "attention" /\ action = "resume"
                              THEN "recover" ELSE action)]

Batch(action) ==
    /\ Idle /\ Command
    /\ action \in {"resume", "pause", "cancel"} /\ selected # {}
    /\ IF BatchOf(action) = <<>>
       THEN /\ selected' = {} /\ Refresh
            /\ op' = [kind |-> "batch", phase |-> "refresh", todo |-> <<>>, failure |-> FALSE]
       ELSE /\ op' = [kind |-> "batch", phase |-> "sent", todo |-> BatchOf(action),
                      failure |-> FALSE]
            /\ UNCHANGED <<selected, run, queued>>
    /\ error' = FALSE
    /\ UNCHANGED <<job, jobs, box, scope, pages, cursor, pinned, visible, timer, failed,
                   shownKey, known, work, faults>>

\* The server takes or refuses the request of an act or a batch.
ActionServed ==
    /\ op.kind \in {"act", "batch"} /\ op.phase = "sent"
    /\ LET r == op.todo[1] IN
       IF Accepts(r) THEN job' = Acted(r) /\ op' = [op EXCEPT !.phase = "committed"]
       ELSE UNCHANGED job /\ op' = [op EXCEPT !.phase = "refused"]
    /\ UNCHANGED <<jobs, box, scope, pages, cursor, selected, pinned, visible, run, queued, timer,
                   failed, error, shownKey, known, work, commands, faults>>

\* An act's answer: the job as it is now, shown at once; then the refresh.
ActAnswered ==
    /\ op.kind = "act" /\ op.phase = "committed"
    /\ LET result == Output(op.todo[1].id) IN
       /\ jobs' = [i \in DOMAIN jobs |-> IF jobs[i].id = result.id THEN result ELSE jobs[i]]
       /\ known' = [known EXCEPT ![result.id] = result.rev]
    /\ op' = [op EXCEPT !.phase = "refresh"]
    /\ Refresh
    /\ UNCHANGED <<job, box, scope, pages, cursor, selected, pinned, visible, timer, failed, error,
                   shownKey, work, commands, faults>>

\* A refused act shows its error and refreshes nothing.
ActRefused ==
    /\ op.kind = "act" /\ op.phase = "refused"
    /\ op' = NoOp /\ error' = TRUE
    /\ UNCHANGED <<job, jobs, box, scope, pages, cursor, selected, pinned, visible, run, queued,
                   timer, failed, shownKey, known, work, commands, faults>>

\* A batch goes on whatever an answer was, and shows its failures and refreshes after its last.
BatchGoesOn ==
    /\ op.kind = "batch" /\ op.phase \in {"committed", "refused"}
    /\ LET failure == op.failure \/ op.phase = "refused" IN
       IF Len(op.todo) > 1
       THEN /\ op' = [op EXCEPT !.phase = "sent", !.todo = Tail(@), !.failure = failure]
            /\ UNCHANGED <<selected, run, queued, error>>
       ELSE /\ selected' = {} /\ Refresh /\ error' = failure
            /\ op' = [op EXCEPT !.phase = "refresh"]
    /\ UNCHANGED <<job, jobs, box, scope, pages, cursor, pinned, visible, timer, failed,
                   shownKey, known, work, commands, faults>>

\* submit(): the lines in the box go to the server in batches, here of one line.
Submit ==
    /\ Idle /\ Command
    /\ box # {}
    /\ error' = FALSE
    /\ op' = [kind |-> "submit", phase |-> "sent", todo |-> SetToSeq(box), list |-> box,
              before |-> IF scope = "active" THEN Ids(jobs) ELSE {},
              older |-> {l \in Job : job[l].state # "none"},
              results |-> {}, seen |-> {}, added |-> <<>>]
    /\ UNCHANGED <<job, jobs, box, scope, pages, cursor, selected, pinned, visible, run, queued,
                   timer, failed, shownKey, known, work, faults>>

LineServed ==
    /\ op.kind = "submit" /\ op.phase = "sent" /\ op.todo # <<>>
    /\ job' = IF op.todo[1] = Bad THEN job ELSE Created(op.todo[1])
    /\ op' = [op EXCEPT !.phase = "committed"]
    /\ UNCHANGED <<jobs, box, scope, pages, cursor, selected, pinned, visible, run, queued, timer,
                   failed, error, shownKey, known, work, commands, faults>>

\* A job counts as added unless it was listed, named before, or made two minutes ago.
LineAnswered ==
    /\ op.kind = "submit" /\ op.phase = "committed"
    /\ \E aged \in BOOLEAN :
       LET l == op.todo[1]
           isNew == l # Bad /\ l \notin op.before \cup op.seen /\ ~(aged /\ l \in op.older)
       IN  op' = [op EXCEPT !.phase = "sent", !.todo = Tail(@),
                            !.results = @ \cup {l},
                            !.seen = IF l = Bad THEN @ ELSE @ \cup {l},
                            !.added = IF isNew THEN Append(@, Output(l)) ELSE @]
    /\ UNCHANGED <<job, jobs, box, scope, pages, cursor, selected, pinned, visible, run, queued,
                   timer, failed, error, shownKey, known, work, commands, faults>>

\* The end of a submission, complete or broken off: what was not taken stays in the box, and
\* the list goes back to the first active page.
Submitted ==
    LET handled == op.results \ {Bad} IN
    /\ box' = op.list \ handled
    /\ IF op.results = {}
       THEN /\ op' = NoOp
            /\ UNCHANGED <<jobs, scope, pages, pinned, run, queued, timer>>
       ELSE /\ pinned' = IF Cardinality(op.seen) = 1 THEN CHOOSE l \in op.seen : TRUE ELSE 0
            /\ jobs' = op.added \o Picked(jobs, {i \in DOMAIN jobs : jobs[i].id \notin op.seen})
            /\ scope' = "active" /\ pages' = <<0>>
            /\ IF Key = <<"active", 0>>
               THEN Refresh /\ op' = [op EXCEPT !.phase = "refresh"] /\ UNCHANGED timer
               ELSE /\ run' = IF visible THEN Started(<<"active", 0>>, FALSE) ELSE NoRun
                    /\ timer' = ~visible /\ queued' = FALSE /\ op' = NoOp

SubmitEnds ==
    /\ op.kind = "submit" /\ op.phase = "sent" /\ op.todo = <<>>
    /\ Submitted
    /\ UNCHANGED <<job, cursor, selected, visible, failed, error, shownKey, known, work, commands, faults>>

\* A request of an operation times out or breaks, before or after the server took it.
OperationFails ==
    /\ op.kind # "none" /\ op.phase \in {"sent", "committed"} /\ op.todo # <<>>
    /\ faults < MaxFaults /\ faults' = faults + 1
    /\ error' = IF op.kind = "batch" THEN error ELSE TRUE
    /\ CASE op.kind = "act" ->
              /\ op' = NoOp
              /\ UNCHANGED <<jobs, box, scope, pages, selected, pinned, run, queued, timer>>
         [] op.kind = "batch" ->
              /\ op' = [op EXCEPT !.phase = "refused"]
              /\ UNCHANGED <<jobs, box, scope, pages, selected, pinned, run, queued, timer>>
         [] op.kind = "submit" -> Submitted /\ UNCHANGED selected
    /\ UNCHANGED <<job, cursor, visible, failed, shownKey, known, work, commands>>

-----------------------------------------------------------------------------
(* The rest of the page.                                                   *)

Type(l) ==
    /\ Command /\ l \notin box
    /\ box' = box \cup {l}
    /\ UNCHANGED <<job, jobs, scope, pages, cursor, selected, pinned, visible, run, queued, timer,
                   failed, error, op, shownKey, known, work, faults>>

Tick(ids) ==
    /\ Command /\ selected # ids
    /\ selected' = ids
    /\ UNCHANGED <<job, jobs, box, scope, pages, cursor, pinned, visible, run, queued, timer,
                   failed, error, op, shownKey, known, work, faults>>

\* The scope can be switched at any time, while an operation runs too.
SetScope(s) ==
    /\ Command /\ s # scope
    /\ scope' = s /\ pages' = <<0>> /\ selected' = {} /\ pinned' = 0
    /\ Restart(<<s, 0>>)
    /\ UNCHANGED <<job, jobs, box, cursor, visible, failed, error, shownKey, known, work, faults>>

Turned(stack) ==
    /\ Idle /\ Command
    /\ pages' = stack
    /\ IF Last(stack) = Last(pages) THEN UNCHANGED <<run, timer, queued, op>>
       ELSE Restart(<<scope, Last(stack)>>)
    /\ UNCHANGED <<job, jobs, box, scope, cursor, selected, pinned, visible, failed, error, shownKey,
                   known, work, faults>>

NextPage == cursor # 0 /\ Turned(Append(pages, cursor))
PreviousPage == Len(pages) > 1 /\ Turned(Front(pages))

Init ==
    /\ job \in [Job -> {Absent, [state |-> "queued", rev |-> 1, price |-> 0]}]
    /\ jobs = <<>> /\ box = {} /\ scope = "active" /\ pages = <<0>> /\ cursor = 0
    /\ selected = {} /\ pinned = 0 /\ visible = TRUE
    /\ run = Started(<<"active", 0>>, FALSE) /\ queued = FALSE /\ timer = FALSE
    /\ failed = FALSE /\ error = FALSE /\ op = NoOp
    /\ work = 0 /\ commands = 0 /\ faults = 0
    /\ shownKey = <<"", 0>> /\ known = [j \in Job |-> 0]

Poller == ListAnswered \/ AskPinned \/ ListShown \/ RunFails \/ TimerFires
Operation == \/ ActionServed \/ ActAnswered \/ ActRefused \/ BatchGoesOn
             \/ LineServed \/ LineAnswered \/ SubmitEnds \/ OperationFails
User == \/ Visibility \/ Submit \/ NextPage \/ PreviousPage
        \/ \E i \in DOMAIN jobs, a \in Action : Act(i, a)
        \/ \E a \in {"resume", "pause", "cancel"} : Batch(a)
        \/ \E l \in Job \cup {Bad} : Type(l)
        \/ Tick(Ids(jobs))
        \/ \E s \in {"active", "history"} : SetScope(s)

Next == Poller \/ Operation \/ User \/ \E j \in Job : Work(j)

Spec == Init /\ [][Next]_vars

-----------------------------------------------------------------------------
TypeOK ==
    /\ job \in [Job -> [state : State, rev : Nat, price : Price \cup {0}]]
    /\ \A i \in DOMAIN jobs : jobs[i].id \in Job /\ jobs[i].state \in State
    /\ box \subseteq Job \cup {Bad} /\ scope \in {"active", "history"}
    /\ pages # <<>> /\ ToSet(pages) \subseteq Job \cup {0} /\ cursor \in Job \cup {0}
    /\ selected \subseteq Job /\ pinned \in Job \cup {0}
    /\ run.phase \in {"none", "sent", "listed", "pinning"}
    /\ op.kind \in {"none", "act", "batch", "submit"}
    /\ <<visible, queued, timer, failed, error>> \in [1 .. 5 -> BOOLEAN]

\* When nothing is under way a tab that is shown does not show a job as it was before the
\* user's own last action on it: a list asked for earlier and received later is overwritten by
\* the refresh the action waits for, unless that refresh failed and the page says so.
Settled == Idle /\ run = NoRun /\ ~failed /\ visible
OwnActionsStay == Settled => \A i \in DOMAIN jobs : jobs[i].rev >= known[jobs[i].id]

\* An approval that the server takes is for the price the user saw on the button.
ApprovedAsShown ==
    [][\A j \in Job :
         (job[j].state = "approval" /\ job'[j].state = "queued" /\ op.kind = "act")
            => op.todo[1].price = job[j].price]_vars

\* A link that was submitted is a job of the queue or back in the box, wherever a submission
\* of several batches broke off.
LinksKept ==
    [][(op.kind = "submit" /\ op'.kind # "submit")
         => \A l \in op.list \ {Bad} : job'[l].state # "none" \/ l \in box']_vars

\* A job that was searched for or added alone is on the active list however many newer ones
\* there are, once the list is the answer to what the page shows; a search that failed says so
\* and brings its job with the next poll only.
PinnedStays ==
    (Settled /\ ~error /\ shownKey = Key /\ scope = "active" /\ pinned # 0)
        => pinned \in Ids(jobs)

\* The poller never stops, and the operation that waits for a refresh is answered by a run
\* that was started after it: forced runs neither overlap nor get lost.
PollGoesOn ==
    /\ run = NoRun => timer
    /\ (op.kind # "none" /\ op.phase = "refresh") => (run # NoRun /\ (run.forced \/ queued))

\* The list on screen: it does not go back behind the user's own actions or lose what is pinned.
ListHolds == TypeOK /\ OwnActionsStay /\ PinnedStays

\* What is sent is what was seen, and what is typed is not lost.
ActsAsSeen == ApprovedAsShown /\ LinksKept
=============================================================================
