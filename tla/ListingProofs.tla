---------------------------- MODULE ListingProofs ---------------------------
(***************************************************************************)
(* Theorems about the two pages that keep a list in step with the server.  *)
(*                                                                         *)
(* DownloadsPage, for every number of jobs and prices, every size of a     *)
(* page, and any number of steps, commands and failures: polling goes on,  *)
(* no link that was submitted is lost, what is sent is what was seen, and  *)
(* the list on screen keeps up with the user's own actions.                *)
(*                                                                         *)
(* Collections, for every number of books, every size of a page, and any   *)
(* number of edits and failures: the list is sound in the table and on     *)
(* the screen, and an edit does to it what was asked of what was seen.     *)
(***************************************************************************)
EXTENDS DownloadsPage, Collections, OrderingProofs, TLAPS

-----------------------------------------------------------------------------
(* The poller.                                                             *)

\* Whoever waits for a refresh waits for a run that is or will be forced, and only then is
\* there one.
Waiting == op.kind # "none" /\ op.phase = "refresh"
PollOK ==
    /\ run = NoRun => timer
    /\ Waiting => run # NoRun /\ (run.forced \/ queued)
    /\ queued => run # NoRun /\ Waiting
    /\ run # NoRun /\ run.forced => Waiting /\ ~queued

\* A run and an operation have the fields their phase is kept in.
Going(o) ==
    {"kind", "phase", "todo"} \subseteq DOMAIN o /\ o.kind \in {"act", "batch", "submit"}
ShapeOK ==
    /\ run # NoRun => /\ {"phase", "forced"} \subseteq DOMAIN run /\ run.forced \in BOOLEAN
                      /\ run.phase \in {"sent", "listed", "pinning"}
    /\ op # NoOp => Going(op)

PollInv == PollOK /\ ShapeOK

pollVars == <<run, queued, timer, op>>

LEMMA PollStays == PollInv /\ UNCHANGED pollVars => PollInv'
PROOF BY DEF PollInv, PollOK, ShapeOK, Going, Waiting, pollVars

LEMMA StartedIs ==
    ASSUME NEW key, NEW forced \in BOOLEAN
    PROVE  /\ Started(key, forced) # NoRun /\ Started(key, forced).forced = forced
           /\ {"phase", "forced"} \subseteq DOMAIN Started(key, forced)
           /\ Started(key, forced).phase = "sent"
PROOF BY DEF Started, NoRun

\* What the effect for a new key, a refresh and the end of a run make of the poller.
LEMMA RestartPolls == ASSUME PollInv, NEW key, Restart(key) PROVE PollInv'
PROOF
<1>1. CASE visible
  BY <1>1 DEF PollInv, PollOK, ShapeOK, Going, Waiting, Restart, Started, NoRun, NoOp
<1>2. CASE ~visible
  BY <1>2 DEF PollInv, PollOK, ShapeOK, Going, Waiting, Restart, Started, NoRun, NoOp
<1> QED
  BY <1>1, <1>2

\* The operation that is about to wait.
LEMMA RefreshPolls ==
    ASSUME PollInv, ~Waiting, Refresh, UNCHANGED timer, Going(op'), op'.phase = "refresh"
    PROVE  PollInv'
PROOF
<1>1. CASE run = NoRun
  BY <1>1 DEF PollInv, PollOK, ShapeOK, Going, Waiting, Refresh, Started, NoRun, NoOp
<1>2. CASE run # NoRun
  BY <1>2 DEF PollInv, PollOK, ShapeOK, Going, Waiting, Refresh, NoOp
<1> QED
  BY <1>1, <1>2

LEMMA RunEndsPolls == ASSUME PollInv, RunEnds, run # NoRun PROVE PollInv'
PROOF
<1>1. CASE queued
  BY <1>1 DEF PollInv, PollOK, ShapeOK, Going, Waiting, RunEnds, Started, NoRun, NoOp
<1>2. CASE ~queued
  BY <1>2 DEF PollInv, PollOK, ShapeOK, Going, Waiting, RunEnds, NoRun, NoOp
<1> QED
  BY <1>1, <1>2

\* An operation that goes on without waiting for a refresh leaves the poller alone.
LEMMA OpGoesOn ==
    ASSUME PollInv, ~Waiting, UNCHANGED <<run, queued, timer>>,
           \/ op' = NoOp
           \/ Going(op') /\ op'.phase # "refresh"
    PROVE  PollInv'
PROOF BY DEF PollInv, PollOK, ShapeOK, Going, Waiting, NoOp

LEMMA SubmittedPolls ==
    ASSUME PollInv, op.kind = "submit", op.phase # "refresh", Submitted
    PROVE  PollInv'
PROOF
<1>1. op # NoOp /\ ~Waiting
  BY DEF NoOp, Waiting
<1>2. CASE op.results = {}
  <2>1. op' = NoOp /\ UNCHANGED <<run, queued, timer>>
    BY <1>2 DEF Submitted
  <2> QED
    BY <1>1, <2>1, OpGoesOn
<1>3. CASE op.results # {} /\ Key = <<"active", 0>>
  <2>1. Refresh /\ op' = [op EXCEPT !.phase = "refresh"] /\ UNCHANGED timer
    BY <1>3 DEF Submitted
  <2>2. Going(op') /\ op'.phase = "refresh"
    BY <1>1, <2>1 DEF PollInv, ShapeOK, Going
  <2> QED
    BY <1>1, <2>1, <2>2, RefreshPolls
<1>4. CASE op.results # {} /\ Key # <<"active", 0>>
  <2>1. /\ run' = IF visible THEN Started(<<"active", 0>>, FALSE) ELSE NoRun
        /\ timer' = ~visible /\ queued' = FALSE /\ op' = NoOp
    BY <1>4 DEF Submitted
  <2> QED
    BY <2>1 DEF PollInv, PollOK, ShapeOK, Going, Waiting, Started, NoRun, NoOp
<1> QED
  BY <1>2, <1>3, <1>4

LEMMA PollInit == Init => PollInv
PROOF
<1> SUFFICES ASSUME Init PROVE PollInv
  OBVIOUS
<1>1. run = Started(<<"active", 0>>, FALSE) /\ queued = FALSE /\ op = NoOp
  BY DEF Init
<1>2. op.kind = "none" /\ run # NoRun
  BY <1>1, StartedIs DEF NoOp
<1> QED
  BY <1>1, <1>2, StartedIs DEF PollInv, PollOK, ShapeOK, Waiting

LEMMA PollNext == ASSUME PollInv, Next PROVE PollInv'
PROOF
<1> USE DEF PollInv
<1>0. Idle \/ op.phase # "refresh" => ~Waiting
  BY DEF Idle, NoOp, Waiting
<1>1. CASE ListAnswered
  <2>1. /\ run'.phase = "listed" /\ run'.forced = run.forced /\ run # NoRun
        /\ {"phase", "forced"} \subseteq DOMAIN run' /\ UNCHANGED <<queued, timer, op>>
    BY <1>1 DEF ListAnswered, NoRun
  <2>2. run' # NoRun
    BY <2>1 DEF NoRun
  <2> QED
    BY <2>1, <2>2 DEF PollOK, ShapeOK, Going, Waiting
<1>2. CASE AskPinned
  <2>1. run # NoRun
    BY <1>2 DEF AskPinned, NoRun
  <2>2. /\ run'.phase = "pinning" /\ run'.forced = run.forced /\ DOMAIN run' = DOMAIN run
        /\ UNCHANGED <<queued, timer, op>>
    BY <1>2, <2>1 DEF AskPinned, ShapeOK, Going
  <2>3. run' # NoRun
    BY <2>2 DEF NoRun
  <2> QED
    BY <2>1, <2>2, <2>3 DEF PollOK, ShapeOK, Going, Waiting
<1>3. CASE ListShown \/ RunFails
  <2>1. RunEnds /\ run # NoRun
    BY <1>3 DEF ListShown, RunFails, NoRun
  <2> QED
    BY <2>1, RunEndsPolls
<1>4. CASE TimerFires
  <2>1. UNCHANGED <<queued, op>>
    BY <1>4 DEF TimerFires
  <2>2. CASE run = NoRun
    <3>1. ~queued /\ ~Waiting
      BY <2>2 DEF PollOK
    <3>2. CASE visible
      <4>1. run' = Started(Key, FALSE)
        BY <1>4, <2>2, <3>2 DEF TimerFires
      <4> QED
        BY <2>1, <3>1, <4>1, StartedIs DEF PollOK, ShapeOK, Going, Waiting
    <3>3. CASE ~visible
      <4>1. run' = NoRun /\ timer'
        BY <1>4, <2>2, <3>3 DEF TimerFires
      <4> QED
        BY <2>1, <3>1, <4>1 DEF PollOK, ShapeOK, Going, Waiting
    <3> QED
      BY <3>2, <3>3
  <2>3. CASE run # NoRun
    BY <1>4, <2>1, <2>3 DEF TimerFires, PollOK, ShapeOK, Going, Waiting
  <2> QED
    BY <2>2, <2>3
<1>5. CASE Visibility
  BY <1>5 DEF Visibility, PollOK, ShapeOK, Going, Waiting, Started, NoRun
<1>6. CASE ActionServed \/ LineServed \/ LineAnswered
  <2>1. UNCHANGED <<run, queued, timer>> /\ op # NoOp /\ op.phase # "refresh"
    <3>1. UNCHANGED <<run, queued, timer>>
      BY <1>6 DEF ActionServed, LineServed, LineAnswered
    <3>2. op.kind \in {"act", "batch", "submit"}
      BY <1>6 DEF ActionServed, LineServed, LineAnswered
    <3>3. op.phase # "refresh"
      BY <1>6 DEF ActionServed, LineServed, LineAnswered
    <3> QED
      BY <3>1, <3>2, <3>3 DEF NoOp
  <2>2. /\ DOMAIN op' = DOMAIN op /\ op'.kind = op.kind
        /\ op'.phase \in {"sent", "committed", "refused"}
    <3>1. CASE ActionServed
      BY <2>1, <3>1 DEF ActionServed, ShapeOK, Going
    <3>2. CASE LineServed
      BY <2>1, <3>2 DEF LineServed, ShapeOK, Going
    <3>3. CASE LineAnswered
      BY <2>1, <3>3 DEF LineAnswered, ShapeOK, Going
    <3> QED
      BY <1>6, <3>1, <3>2, <3>3
  <2> QED
    BY <1>0, <2>1, <2>2, OpGoesOn DEF ShapeOK, Going
<1>7. CASE ActAnswered
  <2>1. Refresh /\ op' = [op EXCEPT !.phase = "refresh"] /\ UNCHANGED timer /\ op # NoOp
        /\ op.phase # "refresh"
    BY <1>7 DEF ActAnswered, NoOp
  <2>2. Going(op') /\ op'.phase = "refresh"
    BY <2>1 DEF ShapeOK, Going
  <2> QED
    BY <1>0, <2>1, <2>2, RefreshPolls
<1>8. CASE ActRefused
  BY <1>0, <1>8, OpGoesOn DEF ActRefused
<1>9. CASE BatchGoesOn
  <2>1. op # NoOp /\ UNCHANGED timer /\ op.phase # "refresh"
    BY <1>9 DEF BatchGoesOn, NoOp
  <2>2. CASE Len(op.todo) > 1
    <3>1. /\ op' = [op EXCEPT !.phase = "sent", !.todo = Tail(@),
                             !.failure = op.failure \/ op.phase = "refused"]
          /\ UNCHANGED <<run, queued>>
      BY <1>9, <2>2 DEF BatchGoesOn
    <3>2. DOMAIN op' = DOMAIN op /\ op'.kind = op.kind /\ op'.phase = "sent"
      BY <2>1, <3>1 DEF ShapeOK, Going
    <3> QED
      BY <1>0, <2>1, <3>1, <3>2, OpGoesOn DEF ShapeOK, Going
  <2>3. CASE ~(Len(op.todo) > 1)
    <3>1. Refresh /\ op' = [op EXCEPT !.phase = "refresh"]
      BY <1>9, <2>3 DEF BatchGoesOn
    <3>2. Going(op') /\ op'.phase = "refresh"
      BY <2>1, <3>1 DEF ShapeOK, Going
    <3> QED
      BY <1>0, <2>1, <3>1, <3>2, RefreshPolls
  <2> QED
    BY <2>2, <2>3
<1>10. CASE SubmitEnds
  BY <1>10, SubmittedPolls DEF SubmitEnds
<1>11. CASE OperationFails
  <2>0. op # NoOp /\ op.phase # "refresh"
    BY <1>11 DEF OperationFails, NoOp
  <2>1. CASE op.kind = "act"
    BY <1>0, <1>11, <2>0, <2>1, OpGoesOn DEF OperationFails
  <2>2. CASE op.kind = "batch"
    <3>1. op' = [op EXCEPT !.phase = "refused"] /\ UNCHANGED <<run, queued, timer>>
      BY <1>11, <2>2 DEF OperationFails
    <3>2. DOMAIN op' = DOMAIN op /\ op'.kind = op.kind /\ op'.phase = "refused"
      BY <2>0, <3>1 DEF ShapeOK, Going
    <3> QED
      BY <1>0, <2>0, <3>1, <3>2, OpGoesOn DEF ShapeOK, Going
  <2>3. CASE op.kind = "submit"
    BY <1>11, <2>0, <2>3, SubmittedPolls DEF OperationFails
  <2>4. CASE op.kind \notin {"act", "batch", "submit"}
    BY <2>0, <2>4 DEF ShapeOK, Going
  <2> QED
    BY <2>1, <2>2, <2>3, <2>4
<1>12. CASE User
  <2>1. CASE Submit
    BY <1>0, <1>12, <2>1, OpGoesOn DEF Submit, Going
  <2>2. CASE \E i \in DOMAIN jobs, a \in Action : Act(i, a)
    BY <1>0, <2>2, OpGoesOn DEF Act, Going
  <2>3. CASE \E a \in {"resume", "pause", "cancel"} : Batch(a)
    <3>1. PICK a \in {"resume", "pause", "cancel"} : Batch(a)
      BY <2>3
    <3>2. CASE BatchOf(a) = <<>>
      BY <1>0, <3>1, <3>2, RefreshPolls DEF Batch, Going
    <3>3. CASE BatchOf(a) # <<>>
      BY <1>0, <3>1, <3>3, OpGoesOn DEF Batch, Going
    <3> QED
      BY <3>2, <3>3
  <2>4. CASE Visibility
    BY <1>5, <2>4
  <2>5. CASE NextPage \/ PreviousPage
    <3>1. PICK stack : Turned(stack)
      BY <2>5 DEF NextPage, PreviousPage
    <3>2. CASE Last(stack) = Last(pages)
      BY <3>1, <3>2, PollStays DEF Turned, pollVars
    <3>3. CASE Last(stack) # Last(pages)
      BY <3>1, <3>3, RestartPolls DEF Turned
    <3> QED
      BY <3>2, <3>3
  <2>6. CASE \E l \in Job \cup {Bad} : Type(l)
    BY <2>6, PollStays DEF Type, pollVars
  <2>7. CASE Tick(Ids(jobs))
    BY <2>7, PollStays DEF Tick, pollVars
  <2>8. CASE \E s \in {"active", "history"} : SetScope(s)
    BY <2>8, RestartPolls DEF SetScope
  <2> QED
    BY <1>12, <2>1, <2>2, <2>3, <2>4, <2>5, <2>6, <2>7, <2>8 DEF User
<1>13. CASE \E j \in Job : Work(j)
  BY <1>13, PollStays DEF Work, client, pollVars
<1> QED
  BY <1>1, <1>2, <1>3, <1>4, <1>6, <1>7, <1>8, <1>9, <1>10, <1>11, <1>12, <1>13
  DEF Next, Poller, Operation

LEMMA PollInductive == PollInv /\ [Next]_vars => PollInv'
PROOF
<1>1. PollInv /\ UNCHANGED vars => PollInv'
  BY PollStays DEF vars, client, pollVars
<1> QED
  BY <1>1, PollNext

\* The poller never stops, and whoever waits for a refresh is answered by a run started
\* after it (usePolling()).
THEOREM PollGoesOnTheorem == Spec => []PollGoesOn
PROOF
<1>1. PollInv => PollGoesOn
  BY DEF PollInv, PollOK, Waiting, PollGoesOn
<1> QED
  BY <1>1, PollInit, PollInductive, PTL DEF Spec
-----------------------------------------------------------------------------
(* The links of a submission.                                              *)

\* What a submission counts as taken is a job of the queue; what it has not taken when it
\* waits for its refresh is in the box.
There(l) == job[l].state # "none"
JobShape == job \in [Job -> {job[l] : l \in Job}]
Submission ==
    op.kind = "submit" =>
        /\ {"phase", "todo", "results", "seen", "added", "list"} \subseteq DOMAIN op
        /\ op.list \subseteq Job \cup {Bad}
        /\ \A l \in op.results \cap Job : There(l)
        /\ op.phase = "committed" /\ op.todo[1] \in Job => There(op.todo[1])
        /\ op.phase = "refresh" => op.list \ (op.results \ {Bad}) \subseteq box
LinksOK == JobShape /\ box \subseteq Job \cup {Bad} /\ Submission
LinksInv == PollInv /\ LinksOK

\* A job that is there stays there.
Stay == JobShape' /\ \A l \in Job : There(l) => There(l)'

LEMMA WorkKeeps == ASSUME JobShape, NEW j \in Job, Work(j) PROVE Stay
PROOF
<1>1. PICK s \in {"choice", "attention", "paused", "done", "approval"}, p \in Price :
        job' = [job EXCEPT ![j] = [state |-> s, rev |-> @.rev + 1,
                                   price |-> IF s = "approval" THEN p ELSE @.price]]
  BY DEF Work
<1> QED
  BY <1>1 DEF JobShape, There, Stay

LEMMA ActionKeeps == ASSUME JobShape, ActionServed PROVE Stay
PROOF
<1>1. CASE UNCHANGED job
  BY <1>1 DEF JobShape, There, Stay
<1>2. CASE Accepts(op.todo[1]) /\ job' = Acted(op.todo[1])
  <2> DEFINE r == op.todo[1]
  <2>1. Outcome(r.action, job[r.id].state) # "none"
    BY <1>2 DEF Accepts
  <2>2. job' = [job EXCEPT ![r.id] = [state |-> Outcome(r.action, job[r.id].state),
                                     rev |-> job[r.id].rev + 1, price |-> job[r.id].price]]
    BY <1>2 DEF Acted
  <2> HIDE DEF r
  <2> QED
    BY <2>1, <2>2 DEF JobShape, There, Stay
<1> QED
  BY <1>1, <1>2 DEF ActionServed

\* And a link that is served is there.
LEMMA CreatedKeeps ==
    ASSUME JobShape, NEW l \in Job, job' = Created(l)
    PROVE  Stay /\ There(l)'
PROOF
<1>1. CASE \E new : job' = [job EXCEPT ![l] = new] /\ new.state = "queued"
  <2>1. PICK new : job' = [job EXCEPT ![l] = new] /\ new.state = "queued"
    BY <1>1
  <2>2. job'[l] = new /\ \A k \in Job : k # l => job'[k] = job[k]
    BY <2>1 DEF JobShape
  <2>3. JobShape'
    BY <2>1, <2>2 DEF JobShape
  <2> QED
    BY <2>1, <2>2, <2>3 DEF There, Stay
<1>2. CASE job' = job /\ There(l)
  BY <1>2 DEF JobShape, There, Stay
<1>3. CASE job[l].state = "none"
  <2> DEFINE new == [state |-> "queued", rev |-> 1, price |-> 0]
  <2>1. job' = [job EXCEPT ![l] = new] /\ new.state = "queued"
    BY <1>3 DEF Created
  <2> HIDE DEF new
  <2> QED
    BY <1>1, <2>1
<1>4. CASE job[l].state # "none" /\ job[l].state \in Terminal
  <2> DEFINE new == [state |-> "queued", rev |-> job[l].rev + 1, price |-> 0]
  <2>1. job' = [job EXCEPT ![l] = new] /\ new.state = "queued"
    BY <1>4 DEF Created
  <2> HIDE DEF new
  <2> QED
    BY <1>1, <2>1
<1>5. CASE job[l].state # "none" /\ job[l].state \notin Terminal
  BY <1>2, <1>5 DEF Created, There
<1> QED
  BY <1>3, <1>4, <1>5

LEMMA LineKeeps ==
    ASSUME JobShape, LineServed
    PROVE  Stay /\ (op.todo[1] \in Job /\ op.todo[1] # Bad => There(op.todo[1])')
PROOF
<1>1. CASE op.todo[1] = Bad
  BY <1>1 DEF LineServed, JobShape, There, Stay
<1>2. CASE op.todo[1] # Bad /\ op.todo[1] \in Job
  BY <1>2, CreatedKeeps DEF LineServed
<1>3. CASE op.todo[1] # Bad /\ op.todo[1] \notin Job
  <2>1. job' = job
    BY <1>3 DEF LineServed, Created, JobShape
  <2> QED
    BY <1>3, <2>1 DEF JobShape, There, Stay
<1> QED
  BY <1>1, <1>2, <1>3

LEMMA LinksInit == Init => LinksInv
PROOF
<1> SUFFICES ASSUME Init PROVE LinksInv
  OBVIOUS
<1>1. JobShape /\ box = {} /\ op.kind = "none"
  BY DEF Init, JobShape, NoOp
<1> QED
  BY <1>1, PollInit DEF LinksInv, LinksOK, Submission

\* A submission that ends, complete or broken off.
LEMMA SubmittedKeeps ==
    ASSUME LinksInv, op.kind = "submit", Submitted, UNCHANGED job
    PROVE  LinksOK' /\ (op'.kind # "submit" => \A l \in op.list \ {Bad} : There(l)' \/ l \in box')
PROOF
<1>1. box' = op.list \ (op.results \ {Bad}) /\ op.list \subseteq Job \cup {Bad}
  BY DEF Submitted, LinksInv, LinksOK, Submission
<1>2. \A l \in op.results \cap Job : There(l)'
  BY DEF LinksInv, LinksOK, Submission, There
<1>3. op' = NoOp \/ op' = [op EXCEPT !.phase = "refresh"]
  BY DEF Submitted
<1>4. Submission'
  <2>1. CASE op' = NoOp
    BY <2>1 DEF Submission, NoOp
  <2>2. CASE op' = [op EXCEPT !.phase = "refresh"]
    <3>1. /\ DOMAIN op' = DOMAIN op /\ op'.phase = "refresh" /\ op'.list = op.list
          /\ op'.results = op.results
      BY <2>2 DEF LinksInv, LinksOK, Submission
    <3> QED
      BY <1>1, <1>2, <3>1 DEF Submission, LinksInv, LinksOK
  <2> QED
    BY <1>3, <2>1, <2>2
<1>5. JobShape'
  BY DEF LinksInv, LinksOK, JobShape
<1> QED
  BY <1>1, <1>2, <1>4, <1>5 DEF LinksOK

\* Steps that leave the submission, or end the one that waits for its refresh.
LEMMA OthersKeep ==
    ASSUME LinksInv, Stay, box \subseteq box', box' \subseteq Job \cup {Bad},
           \/ op' = op
           \/ op' = NoOp /\ (op.kind = "submit" => op.phase = "refresh")
           \/ op.kind # "submit" /\ op'.kind # "submit"
    PROVE  LinksOK' /\ (op.kind = "submit" /\ op'.kind # "submit"
                         => \A l \in op.list \ {Bad} : There(l)' \/ l \in box')
PROOF
<1> USE DEF LinksInv, LinksOK, Stay
<1>1. CASE op' = op
  BY <1>1 DEF Submission
<1>2. CASE op' = NoOp /\ op.kind = "submit"
  <2>1. op.phase = "refresh" /\ op'.kind = "none"
    BY <1>2 DEF NoOp
  <2>2. \A l \in op.list \ {Bad} : l \in Job /\ (l \in op.results \/ l \in box)
    BY <1>2, <2>1 DEF Submission
  <2> QED
    BY <1>2, <2>1, <2>2 DEF Submission
<1>3. CASE op.kind # "submit" /\ op'.kind # "submit"
  BY <1>3 DEF Submission
<1> QED
  BY <1>1, <1>2, <1>3 DEF NoOp

LEMMA RestartKeeps ==
    ASSUME NEW key, Restart(key)
    PROVE  op' = op \/ (op' = NoOp /\ (op.kind = "submit" => op.phase = "refresh"))
PROOF
<1>1. op' = IF op.kind # "none" /\ op.phase = "refresh" THEN NoOp ELSE op
  BY DEF Restart
<1>2. CASE op.kind # "none" /\ op.phase = "refresh"
  BY <1>1, <1>2, Zenon
<1>3. CASE ~(op.kind # "none" /\ op.phase = "refresh")
  BY <1>1, <1>3, Zenon
<1> QED
  BY <1>2, <1>3

LEMMA LinksNext ==
    ASSUME LinksInv, Next
    PROVE  LinksInv' /\ (op.kind = "submit" /\ op'.kind # "submit"
                          => \A l \in op.list \ {Bad} : There(l)' \/ l \in box')
PROOF
<1> DEFINE Kept == LinksOK' /\ (op.kind = "submit" /\ op'.kind # "submit"
                                => \A l \in op.list \ {Bad} : There(l)' \/ l \in box')
<1>0. PollInv' /\ box \subseteq Job \cup {Bad} /\ JobShape
  BY PollNext DEF LinksInv, LinksOK
<1>s. UNCHANGED job => Stay
  BY <1>0 DEF Stay, There, JobShape
<1>1. CASE ListAnswered \/ AskPinned \/ TimerFires
  <2>1. UNCHANGED <<job, box, op>>
    BY <1>1 DEF ListAnswered, AskPinned, TimerFires
  <2> QED
    BY <1>0, <1>s, <2>1, OthersKeep DEF LinksInv
<1>2. CASE ListShown \/ RunFails
  <2>1. UNCHANGED <<job, box>> /\ RunEnds /\ run # NoRun
    BY <1>2 DEF ListShown, RunFails, NoRun
  <2>2. op' = IF run.forced THEN NoOp ELSE op
    BY <2>1 DEF RunEnds
  <2>3. run.forced => Waiting
    BY <2>1 DEF LinksInv, PollInv, PollOK
  <2> QED
    BY <1>0, <1>s, <2>1, <2>2, <2>3, OthersKeep DEF LinksInv, Waiting
<1>3. CASE ActionServed
  <2>1. Stay /\ box' = box
    BY <1>0, <1>3, ActionKeeps DEF ActionServed
  <2>2. op.kind # "submit" /\ op'.kind # "submit"
    <3>1. op # NoOp /\ op.kind \in {"act", "batch"}
      BY <1>3 DEF ActionServed, NoOp
    <3> QED
      BY <1>3, <3>1 DEF ActionServed, LinksInv, PollInv, ShapeOK, Going
  <2> QED
    BY <1>0, <2>1, <2>2, OthersKeep DEF LinksInv
<1>4. CASE ActAnswered \/ ActRefused \/ BatchGoesOn
  <2>1. UNCHANGED <<job, box>>
    BY <1>4 DEF ActAnswered, ActRefused, BatchGoesOn
  <2>2. op.kind # "submit" /\ op'.kind # "submit"
    <3>1. op # NoOp /\ op.kind \in {"act", "batch"}
      BY <1>4 DEF ActAnswered, ActRefused, BatchGoesOn, NoOp
    <3>2. {"kind", "phase", "todo"} \subseteq DOMAIN op
      BY <3>1 DEF LinksInv, PollInv, ShapeOK, Going
    <3>3. CASE ActAnswered
      BY <3>1, <3>2, <3>3 DEF ActAnswered
    <3>4. CASE ActRefused
      BY <3>1, <3>4 DEF ActRefused, NoOp
    <3>5. CASE BatchGoesOn
      <4>1. op'.kind = op.kind
        BY <3>1, <3>2, <3>5 DEF BatchGoesOn
      <4> QED
        BY <3>1, <4>1
    <3> QED
      BY <1>4, <3>3, <3>4, <3>5
  <2> QED
    BY <1>0, <1>s, <2>1, <2>2, OthersKeep DEF LinksInv
<1>5. CASE LineServed
  <2>1. Stay /\ box' = box /\ (op.todo[1] \in Job /\ op.todo[1] # Bad => There(op.todo[1])')
    BY <1>0, <1>5, LineKeeps DEF LineServed
  <2>2. op.kind = "submit" /\ op.phase = "sent" /\ op' = [op EXCEPT !.phase = "committed"]
    BY <1>5 DEF LineServed
  <2>3. {"phase", "todo", "results", "seen", "added", "list"} \subseteq DOMAIN op
    BY <2>2 DEF LinksInv, LinksOK, Submission
  <2>4. /\ DOMAIN op' = DOMAIN op /\ op'.kind = "submit" /\ op'.phase = "committed"
        /\ op'.todo = op.todo /\ op'.results = op.results /\ op'.list = op.list
    BY <2>2, <2>3
  <2>5. Submission'
    BY <2>1, <2>2, <2>4, DownloadsPageAssumption DEF Job, Submission, LinksInv, LinksOK, Stay, There
  <2> QED
    BY <1>0, <2>1, <2>4, <2>5 DEF LinksInv, LinksOK, Stay
<1>6. CASE LineAnswered
  <2>1. UNCHANGED <<job, box>> /\ op.kind = "submit" /\ op.phase = "committed"
    BY <1>6 DEF LineAnswered
  <2>2. {"phase", "todo", "results", "seen", "added", "list"} \subseteq DOMAIN op
    BY <2>1 DEF LinksInv, LinksOK, Submission
  <2>3. /\ DOMAIN op' = DOMAIN op /\ op'.kind = "submit" /\ op'.phase = "sent"
        /\ op'.results = op.results \cup {op.todo[1]} /\ op'.list = op.list
    BY <1>6, <2>1, <2>2 DEF LineAnswered
  <2>4. Submission'
    BY <2>1, <2>3 DEF Submission, LinksInv, LinksOK, There
  <2> QED
    BY <1>0, <2>1, <2>3, <2>4 DEF LinksInv, LinksOK, JobShape
<1>7. CASE SubmitEnds
  BY <1>0, <1>7, SubmittedKeeps DEF SubmitEnds, LinksInv
<1>8. CASE OperationFails
  <2>0. op # NoOp /\ UNCHANGED job
    BY <1>8 DEF OperationFails, NoOp
  <2>1. CASE op.kind = "submit"
    <3>1. Submitted
      BY <1>8, <2>1 DEF OperationFails
    <3> QED
      BY <1>0, <2>0, <2>1, <3>1, SubmittedKeeps DEF LinksInv
  <2>2. CASE op.kind = "act"
    <3>1. op' = NoOp /\ box' = box
      BY <1>8, <2>2 DEF OperationFails
    <3> QED
      BY <1>0, <1>s, <2>0, <2>2, <3>1, OthersKeep DEF NoOp, LinksInv
  <2>3. CASE op.kind = "batch"
    <3>1. op' = [op EXCEPT !.phase = "refused"] /\ box' = box
      BY <1>8, <2>3 DEF OperationFails
    <3>2. op'.kind = op.kind
      BY <2>0, <3>1 DEF LinksInv, PollInv, ShapeOK, Going
    <3> QED
      BY <1>0, <1>s, <2>0, <2>3, <3>1, <3>2, OthersKeep DEF LinksInv
  <2> QED
    BY <2>0, <2>1, <2>2, <2>3 DEF LinksInv, PollInv, ShapeOK, Going
<1>9. CASE User
  <2>1. CASE Submit
    <3>1. op = NoOp /\ UNCHANGED <<job, box>>
      BY <2>1 DEF Submit, Idle
    <3>2. op'.kind = "submit" /\ op'.phase = "sent" /\ op'.list = box /\ op'.results = {}
          /\ {"phase", "todo", "results", "seen", "added", "list"} \subseteq DOMAIN op'
      BY <2>1 DEF Submit
    <3>3. Submission'
      BY <1>0, <3>1, <3>2 DEF Submission
    <3> QED
      BY <1>0, <3>1, <3>2, <3>3 DEF LinksInv, LinksOK, JobShape
  <2>2. CASE \E i \in DOMAIN jobs, a \in Action : Act(i, a)
    <3>1. op = NoOp /\ op'.kind = "act" /\ UNCHANGED <<job, box>>
      BY <2>2 DEF Act, Idle
    <3> QED
      BY <1>0, <1>s, <3>1, OthersKeep DEF NoOp, LinksInv
  <2>3. CASE \E a \in {"resume", "pause", "cancel"} : Batch(a)
    <3>1. op = NoOp /\ op'.kind = "batch" /\ UNCHANGED <<job, box>>
      BY <2>3 DEF Batch, Idle
    <3> QED
      BY <1>0, <1>s, <3>1, OthersKeep DEF NoOp, LinksInv
  <2>4. CASE Visibility \/ Tick(Ids(jobs))
    <3>1. UNCHANGED <<job, box, op>>
      BY <2>4 DEF Visibility, Tick
    <3> QED
      BY <1>0, <1>s, <3>1, OthersKeep DEF LinksInv
  <2>5. CASE NextPage \/ PreviousPage
    <3>1. PICK stack : Turned(stack)
      BY <2>5 DEF NextPage, PreviousPage
    <3>2. UNCHANGED <<job, box>>
      BY <3>1 DEF Turned
    <3>3. op' = op \/ \E key : Restart(key)
      BY <3>1 DEF Turned
    <3> QED
      BY <1>0, <1>s, <3>2, <3>3, RestartKeeps, OthersKeep DEF LinksInv
  <2>6. CASE \E l \in Job \cup {Bad} : Type(l)
    <3>1. UNCHANGED <<job, op>> /\ box \subseteq box' /\ box' \subseteq Job \cup {Bad}
      BY <1>0, <2>6 DEF Type
    <3> QED
      BY <1>0, <1>s, <3>1, OthersKeep DEF LinksInv
  <2>7. CASE \E s \in {"active", "history"} : SetScope(s)
    <3>1. UNCHANGED <<job, box>>
      BY <2>7 DEF SetScope
    <3>2. op' = op \/ (op' = NoOp /\ (op.kind = "submit" => op.phase = "refresh"))
      BY <2>7, RestartKeeps DEF SetScope
    <3> QED
      BY <1>0, <1>s, <3>1, <3>2, OthersKeep DEF LinksInv
  <2> QED
    BY <1>9, <2>1, <2>2, <2>3, <2>4, <2>5, <2>6, <2>7 DEF User
<1>10. CASE \E j \in Job : Work(j)
  <2>1. Stay /\ UNCHANGED <<box, op>>
    BY <1>0, <1>10, WorkKeeps DEF Work, client
  <2> QED
    BY <1>0, <2>1, OthersKeep DEF LinksInv
<1> QED
  BY <1>1, <1>2, <1>3, <1>4, <1>5, <1>6, <1>7, <1>8, <1>9, <1>10 DEF Next, Poller, Operation

\* A link that was submitted is a job of the queue or back in the box when its submission
\* ends, wherever it broke off (submit()).
THEOREM LinksKeptTheorem == Spec => LinksKept
PROOF
<1> DEFINE Kept == (op.kind = "submit" /\ op'.kind # "submit")
                     => \A l \in op.list \ {Bad} : There(l)' \/ l \in box'
<1>1. LinksInv /\ [Next]_vars => LinksInv' /\ [Kept]_vars
  <2>1. LinksInv /\ UNCHANGED vars => LinksInv'
    BY PollStays DEF LinksInv, LinksOK, JobShape, Submission, There, vars, client, pollVars
  <2> QED
    BY <2>1, LinksNext
<1>2. [Kept]_vars => [(op.kind = "submit" /\ op'.kind # "submit")
                        => \A l \in op.list \ {Bad} : job'[l].state # "none" \/ l \in box']_vars
  BY DEF There
<1> QED
  BY <1>1, <1>2, LinksInit, PTL DEF Spec, LinksKept
-----------------------------------------------------------------------------
(* What the page has seen.                                                 *)

\* A row the page has is one the server sent: at its revision, or at an older one.
Row == [id : Job, state : State, rev : Nat, price : Price \cup {0}]
Table == [Job -> [state : State, rev : Nat, price : Price \cup {0}]]
AsWas(r, table) ==
    /\ r.rev <= table[r.id].rev
    /\ r.rev = table[r.id].rev => r.price = table[r.id].price
Held(rows, table) == rows \in Seq(Row) /\ \A i \in DOMAIN rows : AsWas(rows[i], table)

Server == job \in Table /\ \A j \in Job : job[j].state = "none" => job[j].rev = 0
PageTypes ==
    /\ scope \in {"active", "history"} /\ cursor \in Job \cup {0}
    /\ pages \in Seq(Job \cup {0}) /\ pages # <<>>
    /\ selected \subseteq Job /\ pinned \in Job \cup {0}
Flags ==
    /\ visible \in BOOLEAN /\ queued \in BOOLEAN /\ timer \in BOOLEAN /\ failed \in BOOLEAN
    /\ error \in BOOLEAN
Told == known \in [Job -> Nat] /\ \A j \in Job : known[j] <= job[j].rev
RowsSeen == Held(jobs, job)

\* A run asks for what the page shows, and what a run or an operation has received or is to
\* send are rows.
RunHolds ==
    run # NoRun =>
        /\ {"key", "forced"} \subseteq DOMAIN run /\ run.key = Key
        /\ run.phase # "sent" => /\ {"items", "next"} \subseteq DOMAIN run
                                 /\ Held(run.items, job) /\ run.next \in Job \cup {0}
Sends(r) ==
    /\ r.id \in Job /\ r.rev \in Nat /\ AsWas(r, job)
    /\ r.action \in Action
OpHolds ==
    /\ op.kind = "act" => Len(op.todo) = 1 /\ Sends(op.todo[1])
    /\ op.kind = "batch" => "failure" \in DOMAIN op /\ op.failure \in BOOLEAN
    /\ op.kind = "submit" =>
          /\ op.seen \subseteq Job /\ Held(op.added, job) /\ op.todo \in Seq(Job \cup {Bad})
          /\ op.phase = "committed" => op.todo # <<>>
          /\ op.todo # <<>> \/ op.results # {}
SeenInv ==
    LinksInv /\ Server /\ PageTypes /\ Flags /\ Told /\ RowsSeen /\ RunHolds /\ OpHolds

-----------------------------------------------------------------------------
(* The server's jobs: a job that changes has a newer revision.             *)

Grown(old, new) ==
    /\ new \in Table
    /\ \A j \in Job : \/ new[j] = old[j]
                      \/ new[j].rev > old[j].rev /\ new[j].state # "none"

LEMMA SameGrown == ASSUME NEW t \in Table PROVE Grown(t, t)
PROOF BY DEF Grown

LEMMA StillHeld ==
    ASSUME NEW old \in Table, NEW new, Grown(old, new), NEW rows, Held(rows, old)
    PROVE  Held(rows, new)
PROOF
<1> SUFFICES ASSUME NEW i \in DOMAIN rows PROVE AsWas(rows[i], new)
  BY DEF Held
<1>1. PICK r \in Row : r = rows[i] /\ AsWas(r, old)
  BY DEF Held
<1>2. r.id \in Job /\ r.rev \in Nat
  BY DEF Row
<1>3. old[r.id].rev \in Nat /\ new[r.id].rev \in Nat
  BY <1>2 DEF Grown, Table
<1>4. CASE new[r.id] = old[r.id]
  BY <1>1, <1>4 DEF AsWas
<1>5. CASE new[r.id].rev > old[r.id].rev
  BY <1>1, <1>2, <1>3, <1>5 DEF AsWas
<1> QED
  BY <1>1, <1>2, <1>4, <1>5 DEF Grown

LEMMA ServerGrows == ASSUME Server, Grown(job, job') PROVE Server'
PROOF BY DEF Server, Grown

LEMMA StillSends ==
    ASSUME Server, Grown(job, job'), NEW r, Sends(r)
    PROVE  Sends(r)'
PROOF
<1>1. r.id \in Job /\ r.rev \in Nat /\ AsWas(r, job) /\ r.action \in Action
  BY DEF Sends
<1>2. job[r.id].rev \in Nat /\ job'[r.id].rev \in Nat
  BY <1>1 DEF Server, Grown, Table
<1>3. CASE job'[r.id] = job[r.id]
  BY <1>1, <1>3 DEF AsWas, Sends
<1>4. CASE job'[r.id].rev > job[r.id].rev
  BY <1>1, <1>2, <1>4 DEF AsWas, Sends
<1> QED
  BY <1>1, <1>3, <1>4 DEF Grown

LEMMA OutputIs ==
    ASSUME Server, NEW j \in Job
    PROVE  /\ Output(j) \in Row /\ AsWas(Output(j), job)
           /\ Output(j).id = j /\ Output(j).rev = job[j].rev
PROOF
<1>1. job[j] \in [state : State, rev : Nat, price : Price \cup {0}]
  BY DEF Server, Table
<1> QED
  BY <1>1 DEF Output, Row, AsWas

LEMMA OutcomeIs ==
    ASSUME NEW action, NEW state
    PROVE  /\ Outcome(action, state) \in State
           /\ action = "cancel" => Outcome(action, state) # "queued"
PROOF BY DEF Outcome, State, Resumable

\* A new row of the table in place of an old one.
LEMMA RowGrows ==
    ASSUME Server, NEW j \in Job, NEW s \in State, NEW p \in Price \cup {0}, NEW n \in Nat,
           n > job[j].rev, s # "none",
           job' = [job EXCEPT ![j] = [state |-> s, rev |-> n, price |-> p]]
    PROVE  Grown(job, job')
PROOF BY DEF Server, Table, Grown

LEMMA WorkGrows == ASSUME Server, NEW j \in Job, Work(j) PROVE Grown(job, job')
PROOF
<1>1. PICK s \in {"choice", "attention", "paused", "done", "approval"}, p \in Price :
        job' = [job EXCEPT ![j] = [state |-> s, rev |-> job[j].rev + 1,
                                   price |-> IF s = "approval" THEN p ELSE job[j].price]]
  BY DEF Work
<1>2. job[j].rev \in Nat /\ job[j].price \in Price \cup {0} /\ s \in State
  BY DEF Server, Table, State
<1>s. s # "none"
  OBVIOUS
<1> DEFINE q == IF s = "approval" THEN p ELSE job[j].price
<1>3. q \in Price \cup {0} /\ job[j].rev + 1 \in Nat /\ job[j].rev + 1 > job[j].rev
  BY <1>2
<1>4. job' = [job EXCEPT ![j] = [state |-> s, rev |-> job[j].rev + 1, price |-> q]]
  BY <1>1
<1> HIDE DEF q
<1> QED
  BY <1>2, <1>3, <1>4, <1>s, RowGrows

LEMMA ActionGrows == ASSUME Server, ActionServed PROVE Grown(job, job')
PROOF
<1>1. CASE UNCHANGED job
  BY <1>1, SameGrown DEF Server
<1>2. CASE Accepts(op.todo[1]) /\ job' = Acted(op.todo[1])
  <2> DEFINE r == op.todo[1]
  <2>1. job' = [job EXCEPT ![r.id] = [state |-> Outcome(r.action, job[r.id].state),
                                     rev |-> job[r.id].rev + 1, price |-> job[r.id].price]]
    BY <1>2 DEF Acted
  <2> HIDE DEF r
  <2>2. CASE r.id \in Job
    <3>1. job[r.id].rev \in Nat /\ job[r.id].price \in Price \cup {0}
      BY <2>2 DEF Server, Table
    <3>2. job[r.id].rev + 1 \in Nat /\ job[r.id].rev + 1 > job[r.id].rev
      BY <3>1
    <3>3. Outcome(r.action, job[r.id].state) \in State
          /\ Outcome(r.action, job[r.id].state) # "none"
      BY <1>2, OutcomeIs DEF Accepts, r
    <3> HIDE DEF Server
    <3> QED
      BY <2>1, <2>2, <3>1, <3>2, <3>3, RowGrows
  <2>3. CASE r.id \notin Job
    <3>1. job' = job
      BY <2>1, <2>3 DEF Server, Table
    <3> QED
      BY <3>1, SameGrown DEF Server
  <2> QED
    BY <2>2, <2>3
<1> QED
  BY <1>1, <1>2 DEF ActionServed

LEMMA LineGrows == ASSUME Server, LineServed PROVE Grown(job, job')
PROOF
<1>1. CASE UNCHANGED job
  BY <1>1, SameGrown DEF Server
<1>2. CASE job' = Created(op.todo[1])
  <2> DEFINE l == op.todo[1]
             absent == job[l].state = "none"
             again == job[l].state \in Terminal
  <2>1. job' = IF absent THEN [job EXCEPT ![l] = [state |-> "queued", rev |-> 1, price |-> 0]]
               ELSE IF again
               THEN [job EXCEPT ![l] = [state |-> "queued", rev |-> job[l].rev + 1, price |-> 0]]
               ELSE job
    BY <1>2 DEF Created
  <2>2. absent /\ l \in Job => job[l].rev = 0
    BY DEF Server
  <2>3. "queued" \in State /\ 0 \in Price \cup {0} /\ 1 \in Nat /\ 1 > 0
    BY DEF State
  <2>4. l \in Job => job[l].rev \in Nat /\ job[l].rev + 1 \in Nat /\ job[l].rev + 1 > job[l].rev
    BY DEF Server, Table
  <2> HIDE DEF l, absent, again
  <2>5. CASE l \notin Job
    <3>1. job' = job
      BY <2>1, <2>5 DEF Server, Table
    <3> QED
      BY <3>1, SameGrown DEF Server
  <2>6. CASE l \in Job /\ absent
    BY <2>1, <2>2, <2>3, <2>6, RowGrows
  <2>7. CASE l \in Job /\ ~absent /\ again
    BY <2>1, <2>3, <2>4, <2>7, RowGrows
  <2>8. CASE ~absent /\ ~again
    BY <2>1, <2>8, SameGrown DEF Server
  <2> QED
    BY <2>5, <2>6, <2>7, <2>8
<1> QED
  BY <1>1, <1>2 DEF LineServed

LEMMA NextGrows == ASSUME Server, Next PROVE Grown(job, job')
PROOF
<1>0. UNCHANGED job => Grown(job, job')
  BY SameGrown DEF Server
<1>1. CASE Poller
  BY <1>0, <1>1 DEF Poller, ListAnswered, AskPinned, ListShown, RunFails, TimerFires
<1>2. CASE Operation
  <2>1. CASE ActionServed
    BY <2>1, ActionGrows
  <2>2. CASE LineServed
    BY <2>2, LineGrows
  <2>3. CASE \/ ActAnswered \/ ActRefused \/ BatchGoesOn
             \/ LineAnswered \/ SubmitEnds \/ OperationFails
    BY <1>0, <2>3
    DEF ActAnswered, ActRefused, BatchGoesOn, LineAnswered, SubmitEnds, OperationFails
  <2> QED
    BY <1>2, <2>1, <2>2, <2>3 DEF Operation
<1>3. CASE User
  <2>1. UNCHANGED job
    BY <1>3
    DEF User, Visibility, Submit, NextPage, PreviousPage, Turned, Act, Batch, Type, Tick, SetScope
  <2> QED
    BY <1>0, <2>1
<1>4. CASE \E j \in Job : Work(j)
  BY <1>4, WorkGrows
<1> QED
  BY <1>1, <1>2, <1>3, <1>4 DEF Next

-----------------------------------------------------------------------------
(* What the server lists.                                                  *)

LEMMA ListedIs ==
    ASSUME Server, NEW s, NEW before
    PROVE  /\ Held(Listed(s, before).items, job) /\ Listed(s, before).next \in Job \cup {0}
           /\ \A i \in DOMAIN Listed(s, before).items :
                  \E j \in Job : Listed(s, before).items[i] = Output(j)
PROOF
<1> DEFINE rows == {j \in InScope(s) : before = 0 \/ j < before}
           n == Cardinality(rows)
           size == IF n < Limit THEN n ELSE Limit
           newest(i) == InOrder(rows)[n + 1 - i]
           items == [i \in 1 .. size |-> Output(newest(i))]
<1>1. Listed(s, before) = [items |-> items, next |-> IF n > Limit THEN newest(Limit) ELSE 0]
  BY DEF Listed
<1>2. rows \subseteq 1 .. Jobs /\ Jobs \in Nat /\ Limit \in Nat \ {0}
  BY DownloadsPageAssumption DEF InScope, Job
<1> HIDE DEF rows
<1>3. n \in Nat /\ InOrder(rows) \in [1 .. n -> rows]
  BY <1>2, InOrderOrders DEF Ordered
<1> HIDE DEF n
<1>4. size \in Nat /\ size <= n /\ (n > Limit => Limit \in 1 .. n)
  BY <1>2, <1>3
<1>5. ASSUME NEW i \in 1 .. n PROVE newest(i) \in Job
  <2>1. n + 1 - i \in 1 .. n
    BY <1>3
  <2> QED
    BY <1>2, <1>3, <2>1 DEF Job
<1> HIDE DEF newest, size
<1>6. ASSUME NEW i \in 1 .. size
      PROVE  newest(i) \in Job /\ Output(newest(i)) \in Row /\ AsWas(Output(newest(i)), job)
  <2>1. i \in 1 .. n
    BY <1>3, <1>4
  <2> QED
    BY <1>5, <2>1, OutputIs
<1>7. /\ items \in Seq(Row) /\ \A i \in DOMAIN items : AsWas(items[i], job)
      /\ \A i \in DOMAIN items : \E j \in Job : items[i] = Output(j)
  <2>1. items \in [1 .. size -> Row]
    BY <1>6
  <2>2. \A i \in 1 .. size : items[i] = Output(newest(i))
    OBVIOUS
  <2> QED
    BY <1>4, <1>6, <2>1, <2>2
<1> HIDE DEF items
<1> QED
  BY <1>1, <1>4, <1>5, <1>7 DEF Held

\* Two lists in one.
LEMMA JoinedRows ==
    ASSUME NEW t, NEW a, NEW b, Held(a, t), Held(b, t), NEW i \in DOMAIN (a \o b)
    PROVE  \/ i \in DOMAIN a /\ (a \o b)[i] = a[i]
           \/ i - Len(a) \in DOMAIN b /\ (a \o b)[i] = b[i - Len(a)]
PROOF
<1>1. a \in Seq(Row) /\ b \in Seq(Row) /\ a \o b \in Seq(Row)
  BY DEF Held
<1>2. Len(a) \in Nat /\ Len(b) \in Nat /\ DOMAIN a = 1 .. Len(a) /\ DOMAIN b = 1 .. Len(b)
  BY <1>1
<1>3. i \in 1 .. Len(a) + Len(b)
  BY <1>1
<1>4. CASE i <= Len(a)
  BY <1>1, <1>2, <1>3, <1>4
<1>5. CASE ~(i <= Len(a))
  BY <1>1, <1>2, <1>3, <1>5
<1> QED
  BY <1>4, <1>5

LEMMA JoinedHeld ==
    ASSUME NEW t, NEW a, NEW b, Held(a, t), Held(b, t)
    PROVE  Held(a \o b, t)
PROOF
<1>1. a \in Seq(Row) /\ b \in Seq(Row) /\ a \o b \in Seq(Row)
  BY DEF Held
<1> QED
  BY <1>1, JoinedRows DEF Held

LEMMA PickedHeld ==
    ASSUME NEW t, NEW a, Held(a, t), NEW I, I \subseteq DOMAIN a
    PROVE  Held(Picked(a, I), t)
PROOF
<1>1. /\ Picked(a, I) \in Seq(Row)
      /\ \A k \in DOMAIN Picked(a, I) : \E i \in I : Picked(a, I)[k] = a[i]
  BY PickedIs DEF Held
<1> QED
  BY <1>1 DEF Held

-----------------------------------------------------------------------------
(* The steps of the page, part by part.                                    *)

\* The end of a submission: nothing but an error, a refresh, or the first page anew.
LEMMA SubmittedDoes ==
    ASSUME Submitted
    PROVE  \/ op.results = {} /\ op' = NoOp
              /\ UNCHANGED <<jobs, scope, pages, pinned, run, queued, timer>>
           \/ /\ op.results # {}
              /\ pinned' = IF Cardinality(op.seen) = 1 THEN CHOOSE l \in op.seen : TRUE ELSE 0
              /\ jobs' = op.added \o Picked(jobs, {i \in DOMAIN jobs : jobs[i].id \notin op.seen})
              /\ scope' = "active" /\ pages' = <<0>>
              /\ \/ /\ Key = <<"active", 0>> /\ Refresh /\ UNCHANGED timer
                    /\ op' = [op EXCEPT !.phase = "refresh"]
                 \/ /\ visible /\ run' = Started(<<"active", 0>>, FALSE) /\ timer' = FALSE
                    /\ queued' = FALSE /\ op' = NoOp
                 \/ /\ ~visible /\ run' = NoRun /\ timer' = TRUE
                    /\ queued' = FALSE /\ op' = NoOp
PROOF
<1>1. CASE op.results = {}
  BY <1>1 DEF Submitted
<1>2. CASE op.results # {} /\ Key = <<"active", 0>>
  BY <1>2 DEF Submitted
<1>3. CASE op.results # {} /\ Key # <<"active", 0>> /\ visible
  BY <1>3 DEF Submitted
<1>4. CASE op.results # {} /\ Key # <<"active", 0>> /\ ~visible
  BY <1>4 DEF Submitted
<1> QED
  BY <1>1, <1>2, <1>3, <1>4

LEMMA FlagsNext == ASSUME SeenInv, Next PROVE Flags'
PROOF
<1> USE DEF Flags
<1>0. Flags
  BY DEF SeenInv
<1>r. Refresh \/ (\E key : Restart(key)) => queued' \in BOOLEAN
  BY DEF Refresh, Restart
<1>t. (\E key : Restart(key)) => timer' \in BOOLEAN
  BY <1>0 DEF Restart
<1>s. Submitted => queued' \in BOOLEAN /\ timer' \in BOOLEAN
  BY <1>0, <1>r, SubmittedDoes
<1>1. CASE ListAnswered \/ AskPinned \/ ListShown \/ RunFails \/ TimerFires
  BY <1>0, <1>1 DEF ListAnswered, AskPinned, ListShown, RunFails, TimerFires, RunEnds
<1>2. CASE ActionServed \/ LineServed \/ LineAnswered \/ ActRefused
  BY <1>0, <1>2 DEF ActionServed, LineServed, LineAnswered, ActRefused
<1>3. CASE ActAnswered
  BY <1>0, <1>r, <1>3 DEF ActAnswered
<1>4. CASE BatchGoesOn
  <2>1. op.failure \in BOOLEAN
    BY <1>4 DEF SeenInv, OpHolds, BatchGoesOn
  <2>2. CASE Len(op.todo) > 1
    BY <1>0, <1>4, <2>2 DEF BatchGoesOn
  <2>3. CASE ~(Len(op.todo) > 1)
    BY <1>0, <1>r, <1>4, <2>1, <2>3 DEF BatchGoesOn
  <2> QED
    BY <2>2, <2>3
<1>5. CASE SubmitEnds
  BY <1>0, <1>s, <1>5 DEF SubmitEnds
<1>6. CASE OperationFails
  <2>1. error' \in BOOLEAN /\ UNCHANGED <<visible, failed>>
    BY <1>0, <1>6 DEF OperationFails
  <2>2. queued' \in BOOLEAN /\ timer' \in BOOLEAN
    <3>1. CASE op.kind = "act"
      BY <1>0, <1>6, <3>1 DEF OperationFails
    <3>2. CASE op.kind = "batch"
      BY <1>0, <1>6, <3>2 DEF OperationFails
    <3>3. CASE op.kind = "submit"
      BY <1>s, <1>6, <3>3 DEF OperationFails
    <3> QED
      BY <1>6, <3>1, <3>2, <3>3 DEF OperationFails, SeenInv, LinksInv, PollInv, ShapeOK, Going, NoOp
  <2> QED
    BY <1>0, <2>1, <2>2
<1>7. CASE User
  <2>1. CASE Visibility \/ Submit \/ Tick(Ids(jobs)) \/ \E l \in Job \cup {Bad} : Type(l)
    BY <1>0, <2>1 DEF Visibility, Submit, Tick, Type
  <2>2. CASE \E i \in DOMAIN jobs, a \in Action : Act(i, a)
    BY <1>0, <2>2 DEF Act
  <2>3. CASE \E a \in {"resume", "pause", "cancel"} : Batch(a)
    BY <1>0, <1>r, <2>3 DEF Batch
  <2>4. CASE NextPage \/ PreviousPage
    BY <1>0, <1>r, <1>t, <2>4 DEF NextPage, PreviousPage, Turned
  <2>5. CASE \E s \in {"active", "history"} : SetScope(s)
    BY <1>0, <1>r, <1>t, <2>5 DEF SetScope
  <2> QED
    BY <1>7, <2>1, <2>2, <2>3, <2>4, <2>5 DEF User
<1>8. CASE \E j \in Job : Work(j)
  BY <1>0, <1>8 DEF Work, client
<1> QED
  BY <1>1, <1>2, <1>3, <1>4, <1>5, <1>6, <1>7, <1>8 DEF Next, Poller, Operation

\* What an answer told the page is not ahead of the server.
LEMMA ToldNext == ASSUME SeenInv, Next PROVE Told'
PROOF
<1>0. Told /\ Server /\ Grown(job, job')
  BY NextGrows DEF SeenInv
<1>1. \A j \in Job : job[j].rev \in Nat /\ job'[j].rev \in Nat /\ job[j].rev <= job'[j].rev
  BY <1>0 DEF Server, Grown, Table
<1>2. CASE known' = known
  BY <1>0, <1>1, <1>2 DEF Told
<1>3. CASE ActAnswered
  <2>1. op.todo[1].id \in Job
    BY <1>3 DEF ActAnswered, SeenInv, OpHolds, Sends
  <2>2. Output(op.todo[1].id).id \in Job
        /\ Output(op.todo[1].id).rev = job[Output(op.todo[1].id).id].rev
    BY <1>0, <2>1, OutputIs
  <2>3. PICK r : r = Output(op.todo[1].id)
    OBVIOUS
  <2>4. known' = [known EXCEPT ![r.id] = r.rev] /\ job' = job
    BY <1>3, <2>3 DEF ActAnswered
  <2> QED
    BY <1>0, <1>1, <2>2, <2>3, <2>4 DEF Told
<1>4. known' = known \/ ActAnswered
  <2>1. CASE Poller
    BY <2>1 DEF Poller, ListAnswered, AskPinned, ListShown, RunFails, TimerFires
  <2>2. CASE Operation
    BY <2>2 DEF Operation, ActionServed, ActRefused, BatchGoesOn, LineServed, LineAnswered,
                SubmitEnds, OperationFails
  <2>3. CASE User
    BY <2>3 DEF User, Visibility, Submit, NextPage, PreviousPage, Turned, Act, Batch, Type,
                Tick, SetScope
  <2>4. CASE \E j \in Job : Work(j)
    BY <2>4 DEF Work, client
  <2> QED
    BY <2>1, <2>2, <2>3, <2>4 DEF Next
<1> QED
  BY <1>2, <1>3, <1>4

LEMMA IdsAre ==
    ASSUME NEW t, NEW rows, Held(rows, t)
    PROVE  Ids(rows) \subseteq Job /\ \A i \in DOMAIN rows : rows[i].id \in Ids(rows)
PROOF
<1>1. \A i \in DOMAIN rows : rows[i] \in Row
  BY DEF Held
<1> QED
  BY <1>1 DEF Ids, Row

LEMMA SubmittedTypes ==
    ASSUME SeenInv, op.kind = "submit", Submitted, UNCHANGED <<cursor, selected>>
    PROVE  PageTypes'
PROOF
<1>1. PageTypes /\ op.seen \subseteq Job
  BY DEF SeenInv, OpHolds
<1>2. CASE UNCHANGED <<scope, pages, pinned>>
  BY <1>1, <1>2 DEF PageTypes
<1>3. CASE /\ pinned' = IF Cardinality(op.seen) = 1 THEN CHOOSE l \in op.seen : TRUE ELSE 0
           /\ scope' = "active" /\ pages' = <<0>>
  <2>1. pinned' \in Job \cup {0}
    <3>1. CASE op.seen = {}
      <4>1. Cardinality(op.seen) # 1
        BY <3>1, FS_EmptySet
      <4> QED
        BY <1>3, <4>1
    <3>2. CASE op.seen # {}
      <4>1. (CHOOSE l \in op.seen : TRUE) \in op.seen
        BY <3>2
      <4> QED
        BY <1>1, <1>3, <4>1
    <3> QED
      BY <3>1, <3>2
  <2>2. pages' \in Seq(Job \cup {0}) /\ pages' # <<>>
    BY <1>3
  <2> QED
    BY <1>1, <1>3, <2>1, <2>2 DEF PageTypes
<1> QED
  BY <1>2, <1>3, SubmittedDoes

LEMMA PageNext == ASSUME SeenInv, Next PROVE PageTypes'
PROOF
<1>0. PageTypes /\ RowsSeen
  BY DEF SeenInv
<1>1. CASE UNCHANGED <<scope, pages, cursor, selected, pinned>>
  BY <1>0, <1>1 DEF PageTypes
<1>2. CASE ListShown
  <2>1. run # NoRun /\ run.phase # "sent"
    BY <1>2 DEF ListShown, NoRun
  <2>2. cursor' \in Job \cup {0}
    BY <1>2, <2>1 DEF ListShown, SeenInv, RunHolds
  <2> QED
    BY <1>0, <1>2, <2>2 DEF ListShown, PageTypes
<1>3. CASE \E i \in DOMAIN jobs, a \in Action : Act(i, a)
  <2>1. PICK i \in DOMAIN jobs, a \in Action : Act(i, a)
    BY <1>3
  <2>2. jobs[i].id \in Job
    BY <1>0, IdsAre DEF RowsSeen
  <2> QED
    BY <1>0, <2>1, <2>2 DEF Act, PageTypes
<1>4. CASE selected' = {} /\ UNCHANGED <<scope, pages, cursor, pinned>>
  BY <1>0, <1>4 DEF PageTypes
<1>5. CASE SubmitEnds
  BY <1>5, SubmittedTypes DEF SubmitEnds
<1>6. CASE OperationFails
  <2>1. CASE op.kind = "submit"
    BY <1>6, <2>1, SubmittedTypes DEF OperationFails
  <2>2. CASE op.kind \in {"act", "batch"}
    BY <1>1, <1>6, <2>2 DEF OperationFails
  <2> QED
    BY <1>6, <2>1, <2>2 DEF OperationFails, SeenInv, LinksInv, PollInv, ShapeOK, Going, NoOp
<1>7. CASE Tick(Ids(jobs))
  BY <1>0, <1>7, IdsAre DEF Tick, RowsSeen, PageTypes
<1>8. CASE \E s \in {"active", "history"} : SetScope(s)
  <2>1. pages' = <<0>> /\ pages' \in Seq(Job \cup {0}) /\ pages' # <<>>
    BY <1>8 DEF SetScope
  <2> QED
    BY <1>0, <1>8, <2>1 DEF SetScope, PageTypes
<1>9. CASE NextPage
  <2>1. pages' = Append(pages, cursor) /\ UNCHANGED <<scope, cursor, selected, pinned>>
    BY <1>9 DEF NextPage, Turned
  <2> QED
    BY <1>0, <2>1 DEF PageTypes
<1>10. CASE PreviousPage
  <2>1. /\ pages' = SubSeq(pages, 1, Len(pages) - 1) /\ Len(pages) > 1
        /\ UNCHANGED <<scope, cursor, selected, pinned>>
    BY <1>10 DEF PreviousPage, Turned, Front
  <2>2. pages \in Seq(Job \cup {0}) /\ Len(pages) \in Nat
    BY <1>0 DEF PageTypes
  <2>3. pages' \in Seq(Job \cup {0}) /\ Len(pages') = Len(pages) - 1
    BY <2>1, <2>2
  <2>4. pages' # <<>>
    <3>1. Len(pages') # 0
      BY <2>1, <2>2, <2>3
    <3> QED
      BY <3>1
  <2> QED
    BY <1>0, <2>1, <2>3, <2>4 DEF PageTypes
<1>11. CASE Poller /\ ~ListShown
  BY <1>1, <1>11 DEF Poller, ListAnswered, AskPinned, RunFails, TimerFires
<1>12. CASE Operation /\ ~SubmitEnds /\ ~OperationFails
  BY <1>1, <1>4, <1>12
  DEF Operation, ActionServed, ActAnswered, ActRefused, BatchGoesOn, LineServed, LineAnswered
<1>13. CASE User /\ ~(\E i \in DOMAIN jobs, a \in Action : Act(i, a))
            /\ ~Tick(Ids(jobs)) /\ ~(\E s \in {"active", "history"} : SetScope(s))
            /\ ~NextPage /\ ~PreviousPage
  BY <1>1, <1>4, <1>13 DEF User, Visibility, Submit, Batch, Type
<1>14. CASE \E j \in Job : Work(j)
  BY <1>1, <1>14 DEF Work, client
<1> QED
  BY <1>2, <1>3, <1>5, <1>6, <1>7, <1>8, <1>9, <1>10, <1>11, <1>12, <1>13, <1>14 DEF Next

-----------------------------------------------------------------------------
(* The run under way.                                                      *)

LEMMA LastOfOne == Last(<<0>>) = 0
PROOF BY DEF Last

\* What a step that lets the poller go on makes of the run.
RunKept ==
    \/ run' = run /\ Key' = Key
    \/ run' = NoRun
    \/ run' = Started(Key', TRUE)
    \/ run' = Started(Key', FALSE)

LEMMA SubmittedRuns == ASSUME Submitted PROVE RunKept
PROOF
<1>1. scope' = "active" /\ pages' = <<0>> => Key' = <<"active", 0>>
  BY LastOfOne DEF Key
<1>2. CASE UNCHANGED <<run, scope, pages>>
  BY <1>2 DEF Key, RunKept
<1>3. CASE scope' = "active" /\ pages' = <<0>> /\ Key = <<"active", 0>> /\ Refresh
  BY <1>1, <1>3 DEF Refresh, RunKept
<1>4. CASE scope' = "active" /\ pages' = <<0>> /\ run' = Started(<<"active", 0>>, FALSE)
  BY <1>1, <1>4 DEF RunKept
<1>5. CASE run' = NoRun
  BY <1>5 DEF RunKept
<1> QED
  BY <1>2, <1>3, <1>4, <1>5, SubmittedDoes

LEMMA RunEffects == ASSUME SeenInv, Next PROVE RunKept \/ ListAnswered \/ AskPinned
PROOF
<1>0. UNCHANGED <<scope, pages>> => Key' = Key
  BY DEF Key
<1>k. UNCHANGED <<run, scope, pages>> => RunKept
  BY <1>0 DEF RunKept
<1>r. Refresh /\ UNCHANGED <<scope, pages>> => RunKept
  BY <1>0 DEF Refresh, RunKept
<1>e. RunEnds /\ UNCHANGED <<scope, pages>> => RunKept
  BY <1>0 DEF RunEnds, RunKept
<1>1. CASE ListShown \/ RunFails
  BY <1>e, <1>1 DEF ListShown, RunFails
<1>2. CASE TimerFires \/ Visibility
  BY <1>0, <1>2 DEF TimerFires, Visibility, RunKept
<1>3. CASE ActionServed \/ ActRefused \/ LineServed \/ LineAnswered
  BY <1>k, <1>3 DEF ActionServed, ActRefused, LineServed, LineAnswered
<1>4. CASE ActAnswered
  BY <1>r, <1>4 DEF ActAnswered
<1>5. CASE BatchGoesOn
  BY <1>k, <1>r, <1>5 DEF BatchGoesOn
<1>6. CASE SubmitEnds
  BY <1>6, SubmittedRuns DEF SubmitEnds
<1>7. CASE OperationFails
  <2>1. CASE op.kind = "submit"
    BY <1>7, <2>1, SubmittedRuns DEF OperationFails
  <2>2. CASE op.kind \in {"act", "batch"}
    BY <1>k, <1>7, <2>2 DEF OperationFails
  <2> QED
    BY <1>7, <2>1, <2>2 DEF OperationFails, SeenInv, LinksInv, PollInv, ShapeOK, Going, NoOp
<1>8. CASE Submit \/ Tick(Ids(jobs)) \/ (\E l \in Job \cup {Bad} : Type(l))
           \/ (\E i \in DOMAIN jobs, a \in Action : Act(i, a))
  BY <1>k, <1>8 DEF Submit, Tick, Type, Act
<1>9. CASE \E a \in {"resume", "pause", "cancel"} : Batch(a)
  BY <1>k, <1>r, <1>9 DEF Batch
<1>10. CASE NextPage \/ PreviousPage
  <2>1. PICK stack : Turned(stack)
    BY <1>10 DEF NextPage, PreviousPage
  <2>2. Key' = <<scope, Last(stack)>>
    BY <2>1 DEF Turned, Key
  <2>3. CASE Last(stack) = Last(pages)
    BY <2>1, <2>2, <2>3 DEF Turned, Key, RunKept
  <2>4. CASE Last(stack) # Last(pages)
    BY <2>1, <2>2, <2>4 DEF Turned, Restart, RunKept
  <2> QED
    BY <2>3, <2>4
<1>11. CASE \E s \in {"active", "history"} : SetScope(s)
  <2>1. PICK s \in {"active", "history"} : SetScope(s)
    BY <1>11
  <2>2. Key' = <<s, 0>>
    BY <2>1, LastOfOne DEF SetScope, Key
  <2> QED
    BY <2>1, <2>2 DEF SetScope, Restart, RunKept
<1>12. CASE \E j \in Job : Work(j)
  BY <1>k, <1>12 DEF Work, client
<1> QED
  BY <1>1, <1>2, <1>3, <1>4, <1>5, <1>6, <1>7, <1>8, <1>9, <1>10, <1>11, <1>12
  DEF Next, Poller, Operation, User

LEMMA RunNext == ASSUME SeenInv, Next PROVE RunHolds'
PROOF
<1>0. RunHolds /\ Server /\ Grown(job, job') /\ job \in Table /\ PageTypes
  BY NextGrows DEF SeenInv, Server
<1>1. CASE run' = run /\ Key' = Key
  <2>1. run # NoRun /\ run.phase # "sent" => Held(run.items, job')
    BY <1>0, StillHeld DEF RunHolds
  <2> QED
    BY <1>0, <1>1, <2>1 DEF RunHolds
<1>2. CASE run' = NoRun
  BY <1>2 DEF RunHolds
<1>3. ASSUME NEW forced \in BOOLEAN, run' = Started(Key', forced) PROVE RunHolds'
  <2>1. run'.phase = "sent" /\ run'.key = Key' /\ {"key", "forced"} \subseteq DOMAIN run'
    BY <1>3 DEF Started
  <2> QED
    BY <2>1 DEF RunHolds
<1>4. CASE ListAnswered
  <2>1. run # NoRun /\ run.phase = "sent" /\ job' = job /\ Key' = Key
    BY <1>4 DEF ListAnswered, NoRun, Key
  <2>2. PICK list : list = Listed(run.key[1], run.key[2])
    OBVIOUS
  <2>3. Held(list.items, job) /\ list.next \in Job \cup {0}
    BY <1>0, <2>2, ListedIs
  <2>4. run' = [phase |-> "listed", key |-> run.key, forced |-> run.forced,
               items |-> list.items, next |-> list.next]
    BY <1>4, <2>2 DEF ListAnswered
  <2> QED
    BY <1>0, <2>1, <2>3, <2>4 DEF RunHolds
<1>5. CASE AskPinned
  <2>1. run # NoRun /\ run.phase = "listed" /\ job' = job /\ Key' = Key /\ pinned \in Job
    BY <1>0, <1>5 DEF AskPinned, LacksPinned, NoRun, Key, PageTypes
  <2>2. /\ {"key", "forced", "items", "next"} \subseteq DOMAIN run /\ run.key = Key
        /\ Held(run.items, job) /\ run.next \in Job \cup {0} /\ "phase" \in DOMAIN run
    BY <1>0, <2>1 DEF RunHolds, SeenInv, LinksInv, PollInv, ShapeOK
  <2>3. Held(<<Output(pinned)>>, job)
    BY <1>0, <2>1, OutputIs DEF Held
  <2>4. Held(<<Output(pinned)>> \o run.items, job)
    BY <2>2, <2>3, JoinedHeld
  <2>5. run' = [run EXCEPT !.phase = "pinning", !.items = <<Output(pinned)>> \o run.items]
    BY <1>5 DEF AskPinned
  <2>6. /\ DOMAIN run' = DOMAIN run /\ run'.key = run.key /\ run'.next = run.next
        /\ run'.items = <<Output(pinned)>> \o run.items
    BY <2>2, <2>5
  <2> QED
    BY <2>1, <2>2, <2>4, <2>6 DEF RunHolds
<1> QED
  BY <1>1, <1>2, <1>3, <1>4, <1>5, RunEffects DEF RunKept

-----------------------------------------------------------------------------
(* The operation under way.                                                *)

\* An operation that keeps what it has and goes to another phase.
LEMMA OpPhase ==
    ASSUME SeenInv, Next,
           /\ op'.kind = op.kind /\ op'.todo = op.todo
           /\ op.kind = "batch" => "failure" \in DOMAIN op' /\ op'.failure = op.failure
           /\ op.kind = "submit" => /\ op'.seen = op.seen /\ op'.added = op.added
                                    /\ op'.results = op.results
           /\ op'.kind = "submit" /\ op'.phase = "committed" => op.todo # <<>>
    PROVE  OpHolds'
PROOF
<1>0. OpHolds /\ Server /\ Grown(job, job') /\ job \in Table
  BY NextGrows DEF SeenInv, Server
<1>1. op.kind = "act" => Sends(op.todo[1])'
  <2>1. PICK r : r = op.todo[1]
    OBVIOUS
  <2>2. op.kind = "act" => Sends(r)'
    BY <1>0, <2>1, StillSends DEF OpHolds
  <2>3. op'.todo[1] = r
    BY <2>1
  <2> QED
    BY <2>2, <2>3
<1>2. op.kind = "submit" => Held(op.added, job')
  BY <1>0, StillHeld DEF OpHolds
<1> QED
  BY <1>0, <1>1, <1>2 DEF OpHolds

LEMMA SubmittedOp == ASSUME SeenInv, Next, op.kind = "submit", Submitted PROVE OpHolds'
PROOF
<1>1. CASE op' = NoOp
  BY <1>1 DEF OpHolds, NoOp
<1>2. CASE op' = [op EXCEPT !.phase = "refresh"]
  <2>1. {"phase", "todo", "results", "seen", "added"} \subseteq DOMAIN op
    BY DEF SeenInv, LinksInv, LinksOK, Submission
  <2>2. "kind" \in DOMAIN op
    BY DEF SeenInv, LinksInv, PollInv, ShapeOK, Going, NoOp
  <2>3. /\ op'.kind = op.kind /\ op'.todo = op.todo /\ op'.seen = op.seen
        /\ op'.added = op.added /\ op'.results = op.results /\ op'.phase = "refresh"
    BY <1>2, <2>1, <2>2
  <2> QED
    BY <2>3, OpPhase
<1> QED
  BY <1>1, <1>2, SubmittedDoes

LEMMA LineAnswers == ASSUME SeenInv, Next, LineAnswered PROVE OpHolds'
PROOF
<1>0. OpHolds /\ Server /\ job' = job
  BY DEF SeenInv, LineAnswered
<1>1. op.kind = "submit" /\ op.phase = "committed"
  BY DEF LineAnswered
<1>2. /\ op.seen \subseteq Job /\ Held(op.added, job) /\ op.todo \in Seq(Job \cup {Bad})
      /\ op.todo # <<>>
  BY <1>0, <1>1 DEF OpHolds
<1>3. {"kind", "phase", "todo", "results", "seen", "added"} \subseteq DOMAIN op
  BY <1>1 DEF SeenInv, LinksInv, LinksOK, Submission, PollInv, ShapeOK, Going, NoOp
<1>4. PICK l : l = op.todo[1]
  OBVIOUS
<1>5. l \in Job \cup {Bad} /\ Tail(op.todo) \in Seq(Job \cup {Bad})
  BY <1>2, <1>4
<1>6. PICK aged \in BOOLEAN :
        op' = [op EXCEPT !.phase = "sent", !.todo = Tail(op.todo),
                         !.results = op.results \cup {l},
                         !.seen = IF l = Bad THEN op.seen ELSE op.seen \cup {l},
                         !.added = IF l # Bad /\ l \notin op.before \cup op.seen
                                      /\ ~(aged /\ l \in op.older)
                                   THEN Append(op.added, Output(l)) ELSE op.added]
  BY <1>4 DEF LineAnswered
<1>7. /\ op'.kind = "submit" /\ op'.phase = "sent" /\ op'.todo = Tail(op.todo)
      /\ op'.results = op.results \cup {l}
      /\ op'.seen = IF l = Bad THEN op.seen ELSE op.seen \cup {l}
      /\ \/ op'.added = op.added
         \/ l # Bad /\ op'.added = Append(op.added, Output(l))
  BY <1>1, <1>3, <1>6
<1>8. op'.seen \subseteq Job
  BY <1>2, <1>5, <1>7
<1>9. Held(op'.added, job)
  <2>1. CASE op'.added = op.added
    BY <1>2, <2>1
  <2>2. CASE l # Bad /\ op'.added = Append(op.added, Output(l))
    <3>1. Output(l) \in Row /\ AsWas(Output(l), job)
      BY <1>0, <1>5, <2>2, OutputIs
    <3>2. PICK a, o : a = op.added /\ o = Output(l)
      OBVIOUS
    <3>3. a \in Seq(Row) /\ \A i \in DOMAIN a : AsWas(a[i], job)
      BY <1>2, <3>2 DEF Held
    <3>4. Held(Append(a, o), job)
      <4>1. Append(a, o) \in Seq(Row)
        BY <3>1, <3>2, <3>3
      <4>2. ASSUME NEW i \in DOMAIN Append(a, o) PROVE AsWas(Append(a, o)[i], job)
        <5>1. Append(a, o)[i] = o \/ (i \in DOMAIN a /\ Append(a, o)[i] = a[i])
          BY <3>3
        <5> QED
          BY <3>1, <3>2, <3>3, <5>1
      <4> QED
        BY <4>1, <4>2 DEF Held
    <3> QED
      BY <2>2, <3>2, <3>4
  <2> QED
    BY <1>7, <2>1, <2>2
<1> QED
  BY <1>0, <1>5, <1>7, <1>8, <1>9 DEF OpHolds

\* A request carries what its row showed.
LEMMA RequestIs ==
    ASSUME Server, NEW row \in Row, AsWas(row, job), NEW action \in Action
    PROVE  Sends(Request(row, action))
PROOF BY DEF Request, Sends, AsWas, Row

LEMMA OpStays == ASSUME SeenInv, Next, op' = op PROVE OpHolds'
PROOF
<1>0. OpHolds /\ Server /\ Grown(job, job') /\ job \in Table
  BY NextGrows DEF SeenInv, Server
<1>1. op.kind = "act" => Sends(op.todo[1])'
  <2>1. PICK r : r = op.todo[1]
    OBVIOUS
  <2>2. op.kind = "act" => Sends(r)'
    BY <1>0, <2>1, StillSends DEF OpHolds
  <2> QED
    BY <2>1, <2>2
<1> QED
  BY <1>0, <1>1, StillHeld DEF OpHolds

LEMMA OpNext == ASSUME SeenInv, Next PROVE OpHolds'
PROOF
<1>n. CASE op' = NoOp
  BY <1>n DEF OpHolds, NoOp
<1>p. ASSUME NEW phase, op # NoOp, op' = [op EXCEPT !.phase = phase],
             op.kind = "submit" /\ phase = "committed" => op.todo # <<>>
      PROVE  OpHolds'
  <2>1. {"kind", "phase", "todo"} \subseteq DOMAIN op /\ op.kind \in {"act", "batch", "submit"}
    BY <1>p DEF SeenInv, LinksInv, PollInv, ShapeOK, Going
  <2>2. op.kind = "submit" => {"results", "seen", "added"} \subseteq DOMAIN op
    BY DEF SeenInv, LinksInv, LinksOK, Submission
  <2>3. op.kind = "batch" => "failure" \in DOMAIN op
    BY DEF SeenInv, OpHolds
  <2> QED
    BY <1>p, <2>1, <2>2, <2>3, OpPhase
<1>1. CASE Poller
  <2>1. op' = op \/ op' = NoOp
    BY <1>1 DEF Poller, ListAnswered, AskPinned, ListShown, RunFails, TimerFires, RunEnds
  <2> QED
    BY <1>n, <2>1, OpStays
<1>2. CASE ActionServed
  <2>1. op # NoOp /\ op.kind # "submit"
    BY <1>2 DEF ActionServed, NoOp
  <2>2. \/ op' = [op EXCEPT !.phase = "committed"]
        \/ op' = [op EXCEPT !.phase = "refused"]
    BY <1>2 DEF ActionServed
  <2> QED
    BY <1>p, <2>1, <2>2
<1>3. CASE ActAnswered
  <2>1. op # NoOp /\ op' = [op EXCEPT !.phase = "refresh"]
    BY <1>3 DEF ActAnswered, NoOp
  <2> QED
    BY <1>p, <2>1
<1>4. CASE ActRefused
  BY <1>n, <1>4 DEF ActRefused
<1>5. CASE BatchGoesOn
  <2>1. op # NoOp /\ op.kind = "batch" /\ op.failure \in BOOLEAN /\ "failure" \in DOMAIN op
    BY <1>5 DEF BatchGoesOn, NoOp, SeenInv, OpHolds
  <2>2. CASE Len(op.todo) > 1
    <3>1. "kind" \in DOMAIN op
      BY <2>1 DEF SeenInv, LinksInv, PollInv, ShapeOK, Going
    <3>2. op' = [op EXCEPT !.phase = "sent", !.todo = Tail(op.todo),
                           !.failure = op.failure \/ op.phase = "refused"]
      BY <1>5, <2>2 DEF BatchGoesOn
    <3>3. /\ op'.kind = "batch" /\ "failure" \in DOMAIN op'
          /\ op'.failure = (op.failure \/ op.phase = "refused")
      BY <2>1, <3>1, <3>2
    <3> QED
      BY <2>1, <3>3 DEF OpHolds
  <2>3. CASE ~(Len(op.todo) > 1)
    <3>1. op' = [op EXCEPT !.phase = "refresh"]
      BY <1>5, <2>3 DEF BatchGoesOn
    <3> QED
      BY <1>p, <2>1, <3>1
  <2> QED
    BY <2>2, <2>3
<1>6. CASE LineServed
  <2>1. op # NoOp /\ op' = [op EXCEPT !.phase = "committed"] /\ op.todo # <<>>
    BY <1>6 DEF LineServed, NoOp
  <2> QED
    BY <1>p, <2>1
<1>7. CASE LineAnswered
  BY <1>7, LineAnswers
<1>8. CASE SubmitEnds
  BY <1>8, SubmittedOp DEF SubmitEnds
<1>9. CASE OperationFails
  <2>1. op # NoOp
    BY <1>9 DEF OperationFails, NoOp
  <2>2. CASE op.kind = "act"
    BY <1>n, <1>9, <2>2 DEF OperationFails
  <2>3. CASE op.kind = "batch"
    <3>1. op' = [op EXCEPT !.phase = "refused"]
      BY <1>9, <2>3 DEF OperationFails
    <3> QED
      BY <1>p, <2>1, <2>3, <3>1
  <2>4. CASE op.kind = "submit"
    BY <1>9, <2>4, SubmittedOp DEF OperationFails
  <2> QED
    BY <2>1, <2>2, <2>3, <2>4 DEF SeenInv, LinksInv, PollInv, ShapeOK, Going
<1>10. CASE \E i \in DOMAIN jobs, a \in Action : Act(i, a)
  <2>1. PICK i \in DOMAIN jobs, a \in Action : Act(i, a)
    BY <1>10
  <2>2. jobs[i] \in Row /\ AsWas(jobs[i], job) /\ Server /\ UNCHANGED job
    BY <2>1 DEF SeenInv, RowsSeen, Held, Act
  <2>3. PICK r : r = Request(jobs[i], a)
    OBVIOUS
  <2>4. Sends(r)'
    BY <2>2, <2>3, RequestIs DEF Sends
  <2>5. op' = [kind |-> "act", phase |-> "sent", todo |-> <<r>>]
    BY <2>1, <2>3 DEF Act
  <2>6. op'.kind = "act" /\ Len(op'.todo) = 1 /\ op'.todo[1] = r
    BY <2>5
  <2> QED
    BY <2>4, <2>6 DEF OpHolds
<1>11. CASE \E a \in {"resume", "pause", "cancel"} : Batch(a)
  <2>1. op'.kind = "batch" /\ "failure" \in DOMAIN op' /\ op'.failure = FALSE
    BY <1>11 DEF Batch
  <2> QED
    BY <2>1 DEF OpHolds
<1>12. CASE Submit
  <2>1. box \subseteq Job \cup {Bad} /\ box # {}
    BY <1>12 DEF Submit, SeenInv, LinksInv, LinksOK
  <2>2. IsFiniteSet(box)
    <3>1. IsFiniteSet(1 .. Jobs)
      BY DownloadsPageAssumption, FS_Interval
    <3>2. IsFiniteSet(Job \cup {Bad})
      BY <3>1, FS_AddElement DEF Job
    <3> QED
      BY <2>1, <3>2, FS_Subset
  <2>3. PICK todo : todo = SetToSeq(box)
    OBVIOUS
  <2>4. todo \in Seq(Job \cup {Bad}) /\ todo # <<>>
    <3>1. todo \in Seq(box) /\ todo # <<>>
      BY <2>1, <2>2, <2>3, SetToSeqIs
    <3> QED
      BY <2>1, <3>1
  <2>5. /\ op'.kind = "submit" /\ op'.phase = "sent" /\ op'.todo = todo
        /\ op'.seen = {} /\ op'.added = <<>>
    BY <1>12, <2>3 DEF Submit
  <2>6. Held(<<>>, job')
    BY DEF Held
  <2> QED
    BY <2>4, <2>5, <2>6 DEF OpHolds
<1>13. CASE Visibility \/ Tick(Ids(jobs)) \/ \E l \in Job \cup {Bad} : Type(l)
  BY <1>13, OpStays DEF Visibility, Tick, Type
<1>14. CASE NextPage \/ PreviousPage \/ \E s \in {"active", "history"} : SetScope(s)
  <2>1. op' = op \/ op' = NoOp
    BY <1>14 DEF NextPage, PreviousPage, Turned, SetScope, Restart
  <2> QED
    BY <1>n, <2>1, OpStays
<1>15. CASE \E j \in Job : Work(j)
  BY <1>15, OpStays DEF Work, client
<1> QED
  BY <1>1, <1>2, <1>3, <1>4, <1>5, <1>6, <1>7, <1>8, <1>9, <1>10, <1>11, <1>12, <1>13, <1>14,
     <1>15 DEF Next, Operation, User

-----------------------------------------------------------------------------
(* The list on screen.                                                     *)

\* An answer is shown in the place of its job's row.
AnswerShown ==
    \E row \in Row : /\ row = Output(op.todo[1].id) /\ row.id \in Job /\ row.rev = job[row.id].rev
                     /\ AsWas(row, job)
                     /\ jobs' = [i \in DOMAIN jobs |-> IF jobs[i].id = row.id THEN row ELSE jobs[i]]
                     /\ known' = [known EXCEPT ![row.id] = row.rev]

LEMMA ActShows == ASSUME SeenInv, ActAnswered PROVE AnswerShown
PROOF
<1>1. op.todo[1].id \in Job /\ Server
  BY DEF ActAnswered, SeenInv, OpHolds, Sends
<1>2. PICK row : row = Output(op.todo[1].id)
  OBVIOUS
<1>3. row \in Row /\ row.id \in Job /\ row.rev = job[row.id].rev /\ AsWas(row, job)
  BY <1>1, <1>2, OutputIs
<1>4. /\ jobs' = [i \in DOMAIN jobs |-> IF jobs[i].id = row.id THEN row ELSE jobs[i]]
      /\ known' = [known EXCEPT ![row.id] = row.rev]
  BY <1>2 DEF ActAnswered
<1> QED
  BY <1>2, <1>3, <1>4 DEF AnswerShown

LEMMA ListEffects ==
    ASSUME SeenInv, Next
    PROVE  \/ jobs' = jobs
           \/ ListShown
           \/ ActAnswered
           \/ op.kind = "submit" /\ Submitted /\ op.results # {}
PROOF
<1>1. Submitted => jobs' = jobs \/ op.results # {}
  BY SubmittedDoes
<1>2. CASE Poller
  BY <1>2 DEF Poller, ListAnswered, AskPinned, RunFails, TimerFires
<1>3. CASE Operation /\ ~OperationFails
  BY <1>1, <1>3 DEF Operation, ActionServed, ActRefused, BatchGoesOn, LineServed, LineAnswered,
                    SubmitEnds
<1>4. CASE OperationFails
  <2>1. CASE op.kind = "submit"
    BY <1>1, <1>4, <2>1 DEF OperationFails
  <2>2. CASE op.kind \in {"act", "batch"}
    BY <1>4, <2>2 DEF OperationFails
  <2> QED
    BY <1>4, <2>1, <2>2 DEF OperationFails, SeenInv, LinksInv, PollInv, ShapeOK, Going, NoOp
<1>5. CASE User
  BY <1>5 DEF User, Visibility, Submit, NextPage, PreviousPage, Turned, Act, Batch, Type, Tick,
              SetScope
<1>6. CASE \E j \in Job : Work(j)
  BY <1>6 DEF Work, client
<1> QED
  BY <1>2, <1>3, <1>4, <1>5, <1>6 DEF Next

LEMMA ShownNext == ASSUME SeenInv, Next PROVE RowsSeen'
PROOF
<1>0. RowsSeen /\ Server /\ Grown(job, job') /\ job \in Table /\ Held(jobs, job')
  <2>1. RowsSeen /\ Server /\ Grown(job, job') /\ job \in Table
    BY NextGrows DEF SeenInv, Server
  <2> QED
    BY <2>1, StillHeld DEF RowsSeen
<1>1. CASE jobs' = jobs
  BY <1>0, <1>1 DEF RowsSeen
<1>2. CASE ListShown
  <2>1. run # NoRun /\ run.phase # "sent" /\ jobs' = run.items /\ job' = job
    BY <1>2 DEF ListShown, NoRun
  <2>2. Held(run.items, job)
    BY <2>1 DEF SeenInv, RunHolds
  <2> QED
    BY <2>1, <2>2 DEF RowsSeen
<1>3. CASE ActAnswered
  <2>1. AnswerShown /\ job' = job
    BY <1>3, ActShows DEF ActAnswered
  <2>2. PICK row \in Row :
          /\ AsWas(row, job)
          /\ jobs' = [i \in DOMAIN jobs |-> IF jobs[i].id = row.id THEN row ELSE jobs[i]]
    BY <2>1 DEF AnswerShown
  <2>3. jobs \in Seq(Row) /\ \A i \in DOMAIN jobs : AsWas(jobs[i], job)
    BY <1>0 DEF RowsSeen, Held
  <2>4. Len(jobs) \in Nat /\ DOMAIN jobs = 1 .. Len(jobs) /\ DOMAIN jobs' = DOMAIN jobs
    BY <2>2, <2>3
  <2>5. \A i \in DOMAIN jobs : jobs'[i] = row \/ jobs'[i] = jobs[i]
    BY <2>2
  <2>6. jobs' \in Seq(Row)
    <3>1. \A i \in 1 .. Len(jobs) : jobs'[i] \in Row
      BY <2>3, <2>4, <2>5
    <3>2. jobs' \in [1 .. Len(jobs) -> Row]
      BY <2>2, <2>4, <3>1
    <3> QED
      BY <2>4, <3>2
  <2> QED
    BY <2>1, <2>2, <2>3, <2>4, <2>5, <2>6 DEF RowsSeen, Held
<1>4. CASE op.kind = "submit" /\ Submitted /\ op.results # {}
  <2>1. jobs' = op.added \o Picked(jobs, {i \in DOMAIN jobs : jobs[i].id \notin op.seen})
    BY <1>4, SubmittedDoes
  <2>2. Held(op.added, job')
    BY <1>0, <1>4, StillHeld DEF SeenInv, OpHolds
  <2>3. PICK I : I = {i \in DOMAIN jobs : jobs[i].id \notin op.seen}
    OBVIOUS
  <2>4. Held(Picked(jobs, I), job')
    BY <1>0, <2>3, PickedHeld
  <2>5. Held(op.added \o Picked(jobs, I), job')
    BY <2>2, <2>4, JoinedHeld
  <2> QED
    BY <2>1, <2>3, <2>5 DEF RowsSeen
<1> QED
  BY <1>1, <1>2, <1>3, <1>4, ListEffects

LEMMA SeenInit == Init => SeenInv
PROOF
<1> SUFFICES ASSUME Init PROVE SeenInv
  OBVIOUS
<1>1. LinksInv
  BY LinksInit
<1>2. Server
  <2> DEFINE new == [state |-> "queued", rev |-> 1, price |-> 0]
             Rows == [state : State, rev : Nat, price : Price \cup {0}]
  <2>1. job \in [Job -> {Absent, new}]
    BY DEF Init
  <2>2. Absent \in Rows /\ new \in Rows /\ Absent.rev = 0 /\ new.state # "none"
    BY DEF Absent, State
  <2> HIDE DEF new, Rows
  <2>3. job \in [Job -> Rows] /\ \A j \in Job : job[j].state = "none" => job[j].rev = 0
    BY <2>1, <2>2
  <2> QED
    BY <2>3 DEF Server, Table, Rows
<1>3. /\ jobs = <<>> /\ scope = "active" /\ pages = <<0>> /\ cursor = 0 /\ selected = {}
      /\ pinned = 0 /\ run = Started(<<"active", 0>>, FALSE) /\ op = NoOp
      /\ known = [j \in Job |-> 0]
  BY DEF Init
<1>4. PageTypes
  <2>1. pages \in Seq(Job \cup {0}) /\ pages # <<>>
    BY <1>3
  <2> QED
    BY <1>3, <2>1 DEF PageTypes
<1>5. Flags
  BY DEF Init, Flags
<1>6. Told
  BY <1>2, <1>3 DEF Told, Server, Table
<1>7. RowsSeen
  BY <1>3 DEF RowsSeen, Held
<1>8. RunHolds
  BY <1>3, LastOfOne DEF RunHolds, Started, Key
<1>9. OpHolds
  BY <1>3 DEF OpHolds, NoOp
<1> QED
  BY <1>1, <1>2, <1>4, <1>5, <1>6, <1>7, <1>8, <1>9 DEF SeenInv

LEMMA SeenNext == ASSUME SeenInv, Next PROVE SeenInv'
PROOF
<1>1. LinksInv'
  BY LinksNext DEF SeenInv
<1>2. Server'
  BY NextGrows, ServerGrows DEF SeenInv
<1> QED
  BY <1>1, <1>2, PageNext, FlagsNext, ToldNext, ShownNext, RunNext, OpNext DEF SeenInv

LEMMA SeenStays == ASSUME SeenInv, UNCHANGED vars PROVE SeenInv'
PROOF
<1>1. LinksInv'
  BY PollStays DEF SeenInv, LinksInv, LinksOK, JobShape, Submission, There, vars, client, pollVars
<1> QED
  BY <1>1 DEF SeenInv, Server, PageTypes, Flags, Told, RowsSeen, RunHolds, OpHolds, Sends, Key,
              vars, client

-----------------------------------------------------------------------------
(* What is sent is what was seen.                                          *)

\* An approval that is taken is for the price the page showed.
LEMMA ApprovalIsSeen ==
    ASSUME SeenInv, Next, NEW j \in Job, job[j].state = "approval", job'[j].state = "queued",
           op.kind = "act"
    PROVE  op.todo[1].price = job[j].price
PROOF
<1>0. job \in [Job -> [state : State, rev : Nat, price : Price \cup {0}]]
  BY DEF SeenInv, Server, Table
<1>1. job' # job
  OBVIOUS
<1>2. CASE ActionServed
  <2>1. Accepts(op.todo[1]) /\ job' = Acted(op.todo[1])
    BY <1>1, <1>2 DEF ActionServed
  <2>2. PICK r : r = op.todo[1]
    OBVIOUS
  <2>3. job' = [job EXCEPT ![r.id] = [state |-> Outcome(r.action, job[r.id].state),
                                     rev |-> job[r.id].rev + 1, price |-> job[r.id].price]]
    BY <2>1, <2>2 DEF Acted
  <2>4. Sends(r)
    BY <2>2 DEF SeenInv, OpHolds
  <2>5. r.id = j
    BY <1>0, <2>3
  <2>6. job'[j].state = Outcome(r.action, job[j].state)
    BY <1>0, <2>3, <2>5
  <2>7. r.action # "cancel"
    BY <2>6, OutcomeIs
  <2>8. job[r.id].rev = r.rev
    BY <2>1, <2>2, <2>7 DEF Accepts
  <2> QED
    BY <2>2, <2>4, <2>5, <2>8 DEF Sends, AsWas
<1>3. ASSUME NEW k \in Job, Work(k) PROVE FALSE
  <2>1. job[k].state = "queued"
    BY <1>3 DEF Work
  <2>2. \A i \in Job : i # k => job'[i] = job[i]
    BY <1>0, <1>3 DEF Work
  <2> QED
    BY <2>1, <2>2
<1>4. CASE Poller
  BY <1>1, <1>4 DEF Poller, ListAnswered, AskPinned, ListShown, RunFails, TimerFires
<1>5. CASE Operation /\ ~ActionServed
  BY <1>1, <1>5 DEF Operation, ActAnswered, ActRefused, BatchGoesOn, LineServed, LineAnswered,
                    SubmitEnds, OperationFails
<1>6. CASE User
  BY <1>1, <1>6
  DEF User, Visibility, Submit, NextPage, PreviousPage, Turned, Act, Batch, Type, Tick, SetScope
<1> QED
  BY <1>2, <1>3, <1>4, <1>5, <1>6 DEF Next

\* An approval the server takes is for the price on the button, and a link that was typed is a
\* job of the queue or back in the box (act(), submit()).
THEOREM ActsAsSeenTheorem == Spec => ActsAsSeen
PROOF
<1> DEFINE Approved == \A j \in Job :
                         (job[j].state = "approval" /\ job'[j].state = "queued" /\ op.kind = "act")
                            => op.todo[1].price = job[j].price
<1>1. SeenInv /\ [Next]_vars => SeenInv' /\ [Approved]_vars
  BY SeenNext, SeenStays, ApprovalIsSeen
<1>2. Spec => [][Approved]_vars
  BY <1>1, SeenInit, PTL DEF Spec
<1> QED
  BY <1>2, LinksKeptTheorem DEF ActsAsSeen, ApprovedAsShown

-----------------------------------------------------------------------------
(* The list keeps up with the user's own actions.                          *)

\* A row is as new as what the page was told of its job. A list that was asked for before the
\* page was told more is followed by another.
Fresh(rows, told) == \A i \in DOMAIN rows : rows[i].rev >= told[rows[i].id]
FreshOK ==
    /\ (run # NoRun /\ run.phase # "sent" /\ ~queued) => Fresh(run.items, known)
    /\ op.kind = "submit" => Fresh(op.added, known)
    /\ failed \/ run # NoRun \/ ~visible \/ Fresh(jobs, known)

\* A list without the job that is pinned is there only while the page asks again, or says that
\* it could not.
Lacks(rows) == scope = "active" /\ pinned # 0 /\ pinned \notin Ids(rows)
Unsettled == error \/ queued \/ (op # NoOp /\ ~Waiting)
PinOK ==
    /\ (run.phase = "pinning" /\ Lacks(run.items)) => Unsettled
    /\ (Lacks(jobs) /\ shownKey = Key) => failed \/ run # NoRun \/ error \/ op # NoOp \/ ~visible

HoldInv == SeenInv /\ FreshOK /\ PinOK

\* Rows of the server are as new as anything the page was told.
LEMMA ServerIsFresh ==
    ASSUME Told, Server, NEW row, row.id \in Job, row.rev = job[row.id].rev
    PROVE  row.rev >= known[row.id]
PROOF
<1>1. job[row.id].rev \in Nat /\ known[row.id] \in Nat /\ known[row.id] <= job[row.id].rev
  BY DEF Told, Server, Table
<1> QED
  BY <1>1

LEMMA ListedFresh ==
    ASSUME Server, Told, NEW s, NEW before
    PROVE  Fresh(Listed(s, before).items, known)
PROOF
<1>1. PICK items : items = Listed(s, before).items
  OBVIOUS
<1>2. ASSUME NEW i \in DOMAIN items PROVE items[i].rev >= known[items[i].id]
  <2>1. PICK j \in Job : items[i] = Output(j)
    BY <1>1, ListedIs
  <2> QED
    BY <2>1, OutputIs, ServerIsFresh
<1> QED
  BY <1>1, <1>2 DEF Fresh

LEMMA JoinedFresh ==
    ASSUME NEW t, NEW told, NEW a, NEW b, Held(a, t), Held(b, t), Fresh(a, told), Fresh(b, told)
    PROVE  Fresh(a \o b, told)
PROOF BY JoinedRows DEF Fresh

-----------------------------------------------------------------------------
(* Steps after which nothing is under way.                                 *)

\* When nothing is under way on a tab that is shown and nothing has failed, then this was so
\* before, unless a list was shown; and an operation goes on or has failed, or the step has
\* nothing to do with the list.
LEMMA QuietStep ==
    ASSUME SeenInv, Next, ~ListShown, run' = NoRun, ~failed', visible'
    PROVE  /\ run = NoRun /\ ~failed /\ visible /\ UNCHANGED <<jobs, known, shownKey>>
           /\ op' # NoOp \/ error' \/ (UNCHANGED <<pinned, scope, error, op>> /\ Key' = Key)
PROOF
<1>0. /\ UNCHANGED <<scope, pages>> => Key' = Key
      /\ \A key : Started(key, TRUE) # NoRun /\ Started(key, FALSE) # NoRun
  BY DEF Key, Started, NoRun
<1>r. ~Refresh
  BY <1>0 DEF Refresh
<1>1. CASE ListAnswered
  <2>1. run'.phase = "listed"
    BY <1>1 DEF ListAnswered
  <2> QED
    BY <2>1 DEF NoRun
<1>2. CASE AskPinned
  <2>1. run # NoRun
    BY <1>2 DEF AskPinned, NoRun
  <2>2. run'.phase = "pinning"
    BY <1>2, <2>1 DEF AskPinned, SeenInv, LinksInv, PollInv, ShapeOK
  <2> QED
    BY <2>2 DEF NoRun
<1>3. CASE RunFails \/ TimerFires \/ Visibility
  BY <1>0, <1>3 DEF RunFails, TimerFires, Visibility
<1>4. CASE ActionServed \/ LineServed \/ LineAnswered
  <2>0. UNCHANGED <<jobs, known, shownKey, run, failed, visible>>
    BY <1>4 DEF ActionServed, LineServed, LineAnswered
  <2>1. op # NoOp
    <3>1. op.kind \in {"act", "batch", "submit"}
      BY <1>4 DEF ActionServed, LineServed, LineAnswered
    <3> QED
      BY <3>1 DEF NoOp
  <2>2. op'.phase \in {"committed", "refused", "sent"} /\ {"kind", "phase"} \subseteq DOMAIN op'
    BY <1>4, <2>1 DEF ActionServed, LineServed, LineAnswered, SeenInv, LinksInv, PollInv, ShapeOK,
                      Going
  <2>3. op'.kind = op.kind /\ op.kind \in {"act", "batch", "submit"}
    BY <1>4, <2>1 DEF ActionServed, LineServed, LineAnswered, SeenInv, LinksInv, PollInv, ShapeOK,
                      Going
  <2>4. op' # NoOp
    BY <2>3 DEF NoOp
  <2> QED
    BY <2>0, <2>4
<1>5. CASE ActAnswered
  BY <1>r, <1>5 DEF ActAnswered
<1>6. CASE ActRefused
  BY <1>6 DEF ActRefused
<1>7. CASE BatchGoesOn
  <2>1. op # NoOp /\ op.kind = "batch"
    BY <1>7 DEF BatchGoesOn, NoOp
  <2>2. /\ op' = [op EXCEPT !.phase = "sent", !.todo = Tail(@),
                            !.failure = op.failure \/ op.phase = "refused"]
        /\ UNCHANGED <<run, jobs, known, shownKey, failed, visible>>
    BY <1>r, <1>7 DEF BatchGoesOn
  <2>3. op'.kind = "batch"
    BY <2>1, <2>2 DEF SeenInv, LinksInv, PollInv, ShapeOK, Going
  <2> QED
    BY <2>2, <2>3 DEF NoOp
<1>s. ASSUME Submitted, UNCHANGED <<visible, failed, known, shownKey>>
      PROVE  op.results = {} /\ UNCHANGED <<run, jobs>>
  BY <1>0, <1>r, <1>s, SubmittedDoes
<1>8. CASE SubmitEnds
  <2>1. op.results # {}
    BY <1>8 DEF SubmitEnds, SeenInv, OpHolds
  <2> QED
    BY <1>8, <1>s, <2>1 DEF SubmitEnds
<1>9. CASE OperationFails
  <2>0. UNCHANGED <<visible, failed, known, shownKey>>
    BY <1>9 DEF OperationFails
  <2>1. op # NoOp
    BY <1>9 DEF OperationFails, NoOp
  <2>2. CASE op.kind = "submit"
    <3>1. Submitted /\ error' = TRUE
      BY <1>9, <2>2 DEF OperationFails
    <3> QED
      BY <1>s, <2>0, <3>1
  <2>3. CASE op.kind = "act"
    BY <1>9, <2>0, <2>3 DEF OperationFails
  <2>4. CASE op.kind = "batch"
    <3>1. op' = [op EXCEPT !.phase = "refused"] /\ UNCHANGED <<run, jobs>>
      BY <1>9, <2>4 DEF OperationFails
    <3>2. op'.kind = "batch"
      BY <2>1, <2>4, <3>1 DEF SeenInv, LinksInv, PollInv, ShapeOK, Going
    <3> QED
      BY <2>0, <3>1, <3>2 DEF NoOp
  <2> QED
    BY <2>1, <2>2, <2>3, <2>4 DEF SeenInv, LinksInv, PollInv, ShapeOK, Going
<1>10. CASE Submit \/ \E i \in DOMAIN jobs, a \in Action : Act(i, a)
  <2>1. op'.kind \in {"submit", "act"}
    <3>1. CASE Submit
      BY <3>1 DEF Submit
    <3>2. CASE \E i \in DOMAIN jobs, a \in Action : Act(i, a)
      BY <3>2 DEF Act
    <3> QED
      BY <1>10, <3>1, <3>2
  <2>2. UNCHANGED <<run, jobs, known, shownKey, failed, visible>>
    BY <1>10 DEF Submit, Act
  <2> QED
    BY <2>1, <2>2 DEF NoOp
<1>11. CASE \E a \in {"resume", "pause", "cancel"} : Batch(a)
  <2>1. op'.kind = "batch"
    BY <1>11 DEF Batch
  <2>2. UNCHANGED <<run, jobs, known, shownKey, failed, visible>>
    BY <1>r, <1>11 DEF Batch
  <2> QED
    BY <2>1, <2>2 DEF NoOp
<1>12. CASE Tick(Ids(jobs)) \/ \E l \in Job \cup {Bad} : Type(l)
  <2>1. UNCHANGED <<run, jobs, known, shownKey, failed, visible>>
    BY <1>12 DEF Tick, Type
  <2>2. UNCHANGED <<scope, pages, pinned, error, op>>
    BY <1>12 DEF Tick, Type
  <2> QED
    BY <1>0, <2>1, <2>2
<1>13. CASE NextPage \/ PreviousPage
  <2>1. PICK stack : Turned(stack)
    BY <1>13 DEF NextPage, PreviousPage
  <2>2. visible /\ Key' = <<scope, Last(stack)>>
    BY <2>1 DEF Turned, Command, Key
  <2>3. CASE Last(stack) = Last(pages)
    BY <2>1, <2>2, <2>3 DEF Turned, Key
  <2>4. CASE Last(stack) # Last(pages)
    BY <1>0, <2>1, <2>2, <2>4 DEF Turned, Restart
  <2> QED
    BY <2>3, <2>4
<1>14. CASE \E s \in {"active", "history"} : SetScope(s)
  BY <1>0, <1>14 DEF SetScope, Command, Restart
<1>15. CASE \E j \in Job : Work(j)
  BY <1>0, <1>15 DEF Work, client
<1> QED
  BY <1>1, <1>2, <1>3, <1>4, <1>5, <1>6, <1>7, <1>8, <1>9, <1>10, <1>11, <1>12, <1>13, <1>14,
     <1>15 DEF Next, Poller, Operation, User

\* While a list is on its way: a refresh that follows it is not forgotten, one follows whatever
\* the page is told, and what is pinned anew is asked for again, or an error is shown.
LEMMA OnTheWay ==
    ASSUME SeenInv, Next, run' = run, run.phase \in {"listed", "pinning"}
    PROVE  /\ queued => queued'
           /\ known' = known \/ queued'
           /\ Unsettled \/ ~(UNCHANGED <<pinned, scope>>) => Unsettled'
PROOF
<1>0. run # NoRun /\ \A key : run # Started(key, TRUE) /\ run # Started(key, FALSE)
  BY DEF NoRun, Started
<1>r. Refresh => queued' = TRUE
  BY <1>0 DEF Refresh
<1>u. UNCHANGED <<queued, known, error, op, pinned, scope>> => Unsettled' = Unsettled
  BY DEF Unsettled, Waiting
<1>q. queued' = TRUE => Unsettled'
  BY DEF Unsettled
<1>e. error' = TRUE => Unsettled'
  BY DEF Unsettled
<1>o. op' # NoOp /\ op'.phase # "refresh" => Unsettled'
  BY DEF Unsettled, Waiting
<1>1. CASE ListAnswered \/ ListShown \/ RunFails
  BY <1>0, <1>1 DEF ListAnswered, ListShown, RunFails, RunEnds
<1>2. CASE AskPinned
  <2>1. run'.phase = "pinning" /\ run.phase = "listed"
    BY <1>0, <1>2 DEF AskPinned, SeenInv, LinksInv, PollInv, ShapeOK
  <2> QED
    BY <2>1
<1>3. CASE TimerFires \/ Visibility
  <2>1. UNCHANGED <<queued, known, error, op, pinned, scope>>
    BY <1>3 DEF TimerFires, Visibility
  <2> QED
    BY <1>u, <2>1
<1>4. CASE ActionServed \/ LineServed \/ LineAnswered
  <2>1. UNCHANGED <<queued, known>>
    BY <1>4 DEF ActionServed, LineServed, LineAnswered
  <2>2. op # NoOp
    <3>1. op.kind \in {"act", "batch", "submit"}
      BY <1>4 DEF ActionServed, LineServed, LineAnswered
    <3> QED
      BY <3>1 DEF NoOp
  <2>3. op'.phase \in {"committed", "refused", "sent"}
    BY <1>4, <2>2 DEF ActionServed, LineServed, LineAnswered, SeenInv, LinksInv, PollInv, ShapeOK,
                      Going
  <2>4. op'.kind = op.kind /\ op.kind \in {"act", "batch", "submit"}
    BY <1>4, <2>2 DEF ActionServed, LineServed, LineAnswered, SeenInv, LinksInv, PollInv, ShapeOK,
                      Going
  <2>5. op' # NoOp
    BY <2>4 DEF NoOp
  <2> QED
    BY <1>o, <2>1, <2>3, <2>5
<1>5. CASE ActAnswered
  BY <1>r, <1>q, <1>5 DEF ActAnswered
<1>6. CASE ActRefused
  BY <1>e, <1>6 DEF ActRefused
<1>7. CASE BatchGoesOn
  <2>1. op # NoOp /\ op.kind = "batch"
    BY <1>7 DEF BatchGoesOn, NoOp
  <2>2. CASE Refresh
    BY <1>r, <1>q, <2>2
  <2>3. CASE ~Refresh
    <3>1. /\ op' = [op EXCEPT !.phase = "sent", !.todo = Tail(@),
                              !.failure = op.failure \/ op.phase = "refused"]
          /\ UNCHANGED <<queued, known>>
      BY <1>7, <2>3 DEF BatchGoesOn
    <3>2. op'.kind = "batch" /\ op'.phase = "sent"
      BY <2>1, <3>1 DEF SeenInv, LinksInv, PollInv, ShapeOK, Going
    <3> QED
      BY <1>o, <3>1, <3>2 DEF NoOp
  <2> QED
    BY <2>2, <2>3
<1>s. Submitted => queued' = TRUE \/ (op.results = {} /\ UNCHANGED queued)
  BY <1>0, <1>r, SubmittedDoes
<1>8. CASE SubmitEnds
  <2>1. op.results # {}
    BY <1>8 DEF SubmitEnds, SeenInv, OpHolds
  <2> QED
    BY <1>8, <1>s, <1>q, <2>1 DEF SubmitEnds
<1>9. CASE OperationFails
  <2>1. op # NoOp /\ op.kind \in {"act", "batch", "submit"}
    <3>1. op # NoOp
      BY <1>9 DEF OperationFails, NoOp
    <3> QED
      BY <3>1 DEF SeenInv, LinksInv, PollInv, ShapeOK, Going
  <2>2. known' = known
    BY <1>9 DEF OperationFails
  <2>3. CASE op.kind = "submit"
    <3>1. Submitted /\ error' = TRUE
      BY <1>9, <2>3 DEF OperationFails
    <3> QED
      BY <1>s, <1>e, <2>2, <3>1
  <2>4. CASE op.kind = "act"
    <3>1. error' = TRUE /\ queued' = queued
      BY <1>9, <2>4 DEF OperationFails
    <3> QED
      BY <1>e, <2>2, <3>1
  <2>5. CASE op.kind = "batch"
    <3>1. op' = [op EXCEPT !.phase = "refused"] /\ UNCHANGED queued
      BY <1>9, <2>5 DEF OperationFails
    <3>2. op'.kind = "batch" /\ op'.phase = "refused"
      BY <2>1, <2>5, <3>1 DEF SeenInv, LinksInv, PollInv, ShapeOK, Going
    <3> QED
      BY <1>o, <2>2, <3>1, <3>2 DEF NoOp
  <2> QED
    BY <2>1, <2>3, <2>4, <2>5
<1>10. CASE Submit
  <2>1. op'.kind = "submit" /\ op'.phase = "sent" /\ UNCHANGED <<queued, known>>
    BY <1>10 DEF Submit
  <2> QED
    BY <1>o, <2>1 DEF NoOp
<1>11. CASE \E i \in DOMAIN jobs, a \in Action : Act(i, a)
  <2>1. op'.kind = "act" /\ op'.phase = "sent" /\ UNCHANGED <<queued, known>>
    BY <1>11 DEF Act
  <2> QED
    BY <1>o, <2>1 DEF NoOp
<1>12. CASE \E a \in {"resume", "pause", "cancel"} : Batch(a)
  <2>1. known' = known
    BY <1>12 DEF Batch
  <2>2. CASE Refresh
    BY <1>r, <1>q, <2>2
  <2>3. CASE ~Refresh
    <3>1. op'.kind = "batch" /\ op'.phase = "sent" /\ UNCHANGED queued
      BY <1>12, <2>3 DEF Batch
    <3> QED
      BY <1>o, <2>1, <3>1 DEF NoOp
  <2> QED
    BY <2>2, <2>3
<1>13. CASE Tick(Ids(jobs)) \/ \E l \in Job \cup {Bad} : Type(l)
  <2>1. UNCHANGED <<queued, known, error, op, pinned, scope>>
    BY <1>13 DEF Tick, Type
  <2> QED
    BY <1>u, <2>1
<1>14. CASE NextPage \/ PreviousPage
  <2>1. PICK stack : Turned(stack)
    BY <1>14 DEF NextPage, PreviousPage
  <2>2. visible
    BY <2>1 DEF Turned, Command
  <2>3. UNCHANGED <<queued, known, error, op, pinned, scope>>
    BY <1>0, <2>1, <2>2 DEF Turned, Restart
  <2> QED
    BY <1>u, <2>3
<1>15. CASE \E s \in {"active", "history"} : SetScope(s)
  BY <1>0, <1>15 DEF SetScope, Command, Restart
<1>16. CASE \E j \in Job : Work(j)
  BY <1>u, <1>16 DEF Work, client
<1> QED
  BY <1>1, <1>2, <1>3, <1>4, <1>5, <1>6, <1>7, <1>8, <1>9, <1>10, <1>11, <1>12, <1>13, <1>14,
     <1>15, <1>16 DEF Next, Poller, Operation, User

\* The jobs a submission adds to the list.
LEMMA AddedEffects ==
    ASSUME SeenInv, Next, op'.kind = "submit"
    PROVE  /\ known' = known
           /\ (op.kind = "submit" /\ op'.added = op.added) \/ Submit \/ LineAnswered
PROOF
<1>n. NoOp.kind # "submit"
  BY DEF NoOp
<1>g. op # NoOp => "kind" \in DOMAIN op
  BY DEF SeenInv, LinksInv, PollInv, ShapeOK, Going
<1>a. op.kind = "submit" => {"phase", "added"} \subseteq DOMAIN op
  BY DEF SeenInv, LinksInv, LinksOK, Submission
<1>p. ASSUME NEW phase, op # NoOp, op' = [op EXCEPT !.phase = phase]
      PROVE  op.kind = "submit" /\ op'.added = op.added
  BY <1>p, <1>g, <1>a
<1>1. CASE Poller
  BY <1>n, <1>1 DEF Poller, ListAnswered, AskPinned, ListShown, RunFails, TimerFires, RunEnds
<1>2. CASE ActionServed \/ ActAnswered \/ BatchGoesOn
  <2>1. op # NoOp /\ op.kind \in {"act", "batch"}
    <3>1. op.kind \in {"act", "batch"}
      BY <1>2 DEF ActionServed, ActAnswered, BatchGoesOn
    <3> QED
      BY <3>1 DEF NoOp
  <2>2. op'.kind = op.kind
    BY <1>2, <1>g, <2>1 DEF ActionServed, ActAnswered, BatchGoesOn
  <2> QED
    BY <2>1, <2>2
<1>3. CASE ActRefused
  BY <1>n, <1>3 DEF ActRefused
<1>4. CASE LineServed
  <2>1. op # NoOp /\ op' = [op EXCEPT !.phase = "committed"] /\ known' = known
    BY <1>4 DEF LineServed, NoOp
  <2> QED
    BY <1>p, <2>1
<1>5. CASE LineAnswered
  BY <1>5 DEF LineAnswered
<1>6. CASE SubmitEnds
  <2>1. op' = NoOp \/ op' = [op EXCEPT !.phase = "refresh"]
    BY <1>6, SubmittedDoes DEF SubmitEnds, NoOp
  <2>2. op # NoOp /\ known' = known
    BY <1>6 DEF SubmitEnds, NoOp
  <2> QED
    BY <1>n, <1>p, <2>1, <2>2
<1>7. CASE OperationFails
  <2>1. op # NoOp /\ known' = known
    BY <1>7 DEF OperationFails, NoOp
  <2>2. \/ op' = NoOp
        \/ op' = [op EXCEPT !.phase = "refresh"]
        \/ op' = [op EXCEPT !.phase = "refused"]
    <3>1. CASE op.kind = "submit"
      BY <1>7, <3>1, SubmittedDoes DEF OperationFails
    <3>2. CASE op.kind \in {"act", "batch"}
      BY <1>7, <3>2 DEF OperationFails
    <3> QED
      BY <2>1, <3>1, <3>2 DEF SeenInv, LinksInv, PollInv, ShapeOK, Going
  <2> QED
    BY <1>n, <1>p, <2>1, <2>2
<1>8. CASE \/ Visibility \/ Tick(Ids(jobs))
           \/ \E l \in Job \cup {Bad} : Type(l)
  <2>1. UNCHANGED <<op, known>>
    BY <1>8 DEF Visibility, Tick, Type
  <2> QED
    BY <2>1
<1>9. CASE Submit
  BY <1>9 DEF Submit
<1>10. CASE (\E i \in DOMAIN jobs, a \in Action : Act(i, a))
            \/ (\E a \in {"resume", "pause", "cancel"} : Batch(a))
  <2>1. op'.kind \in {"act", "batch"}
    BY <1>10 DEF Act, Batch
  <2> QED
    BY <2>1
<1>11. CASE NextPage \/ PreviousPage \/ \E s \in {"active", "history"} : SetScope(s)
  <2>1. known' = known
    BY <1>11 DEF NextPage, PreviousPage, Turned, SetScope
  <2>2. op' = op \/ op' = NoOp
    BY <1>11 DEF NextPage, PreviousPage, Turned, SetScope, Restart
  <2> QED
    BY <1>n, <2>1, <2>2
<1>12. CASE \E j \in Job : Work(j)
  BY <1>12 DEF Work, client
<1> QED
  BY <1>1, <1>2, <1>3, <1>4, <1>5, <1>6, <1>7, <1>8, <1>9, <1>10, <1>11, <1>12
  DEF Next, Operation, User

LEMMA AddedFresh ==
    ASSUME SeenInv, FreshOK, Next, op'.kind = "submit"
    PROVE  Fresh(op'.added, known')
PROOF
<1>0. known' = known
  BY AddedEffects
<1>1. CASE op.kind = "submit" /\ op'.added = op.added
  BY <1>0, <1>1 DEF FreshOK
<1>2. CASE Submit
  BY <1>2 DEF Submit, Fresh
<1>3. CASE LineAnswered
  <2>1. /\ op.kind = "submit"
        /\ {"kind", "phase", "todo", "results", "seen", "added"} \subseteq DOMAIN op
    BY <1>3 DEF LineAnswered, SeenInv, LinksInv, LinksOK, Submission, PollInv, ShapeOK, Going, NoOp
  <2>2. PICK l : l = op.todo[1]
    OBVIOUS
  <2>3. \/ op'.added = op.added
        \/ l # Bad /\ op'.added = Append(op.added, Output(l))
    BY <1>3, <2>1, <2>2 DEF LineAnswered
  <2>4. l \in Job \cup {Bad} /\ Held(op.added, job) /\ Fresh(op.added, known)
    <3>1. op.todo \in Seq(Job \cup {Bad}) /\ op.todo # <<>> /\ Held(op.added, job)
      BY <1>3, <2>1 DEF SeenInv, OpHolds, LineAnswered
    <3> QED
      BY <2>1, <2>2, <3>1 DEF FreshOK
  <2>5. CASE l # Bad /\ op'.added = Append(op.added, Output(l))
    <3>1. PICK a, o : a = op.added /\ o = Output(l)
      OBVIOUS
    <3>2. o.id \in Job /\ o.rev = job[o.id].rev
      BY <2>4, <2>5, <3>1, OutputIs DEF SeenInv
    <3>3. o.rev >= known[o.id]
      BY <3>2, ServerIsFresh DEF SeenInv
    <3>4. a \in Seq(Row) /\ \A i \in DOMAIN a : a[i].rev >= known[a[i].id]
      BY <2>4, <3>1 DEF Held, Fresh
    <3>5. ASSUME NEW i \in DOMAIN Append(a, o)
          PROVE  Append(a, o)[i].rev >= known[Append(a, o)[i].id]
      <4>1. Append(a, o)[i] = o \/ (i \in DOMAIN a /\ Append(a, o)[i] = a[i])
        BY <3>4
      <4> QED
        BY <3>3, <3>4, <4>1
    <3> QED
      BY <1>0, <2>5, <3>1, <3>5 DEF Fresh
  <2> QED
    BY <1>0, <2>3, <2>4, <2>5
<1> QED
  BY <1>1, <1>2, <1>3, AddedEffects

LEMMA RunFresh ==
    ASSUME SeenInv, FreshOK, Next, run' # NoRun, run'.phase # "sent", ~queued'
    PROVE  Fresh(run'.items, known')
PROOF
<1>0. Server /\ Told /\ run.phase \in {"listed", "pinning", "sent", "none"}
  BY DEF SeenInv, LinksInv, PollInv, ShapeOK, NoRun
<1>1. CASE RunKept
  <2>1. run' = run
    BY <1>1 DEF RunKept, Started
  <2>2. run.phase \in {"listed", "pinning"} /\ run # NoRun
    BY <1>0, <2>1 DEF NoRun, SeenInv, LinksInv, PollInv, ShapeOK
  <2>3. ~queued /\ known' = known
    BY <2>1, <2>2, OnTheWay
  <2> QED
    BY <2>1, <2>2, <2>3 DEF FreshOK
<1>2. CASE ListAnswered
  <2>1. run'.items = Listed(run.key[1], run.key[2]).items /\ known' = known
    BY <1>2 DEF ListAnswered
  <2> QED
    BY <1>0, <2>1, ListedFresh
<1>3. CASE AskPinned
  <2>1. run # NoRun /\ run.phase = "listed" /\ known' = known /\ queued' = queued /\ pinned \in Job
    BY <1>3 DEF AskPinned, LacksPinned, NoRun, SeenInv, PageTypes
  <2>2. "items" \in DOMAIN run /\ Held(run.items, job) /\ Fresh(run.items, known)
    BY <2>1 DEF FreshOK, SeenInv, RunHolds
  <2>3. run'.items = <<Output(pinned)>> \o run.items
    BY <1>3, <2>2 DEF AskPinned
  <2>4. PICK o : o = Output(pinned)
    OBVIOUS
  <2>5. o \in Row /\ AsWas(o, job) /\ o.id \in Job /\ o.rev = job[o.id].rev
    BY <1>0, <2>1, <2>4, OutputIs
  <2>6. Held(<<o>>, job) /\ Fresh(<<o>>, known)
    <3>1. o.rev >= known[o.id]
      BY <1>0, <2>5, ServerIsFresh
    <3> QED
      BY <2>5, <3>1 DEF Held, Fresh
  <2> QED
    BY <2>1, <2>2, <2>3, <2>4, <2>6, JoinedFresh
<1> QED
  BY <1>1, <1>2, <1>3, RunEffects

LEMMA FreshNext == ASSUME SeenInv, FreshOK, Next PROVE FreshOK'
PROOF
<1>1. ASSUME ~failed', run' = NoRun, visible' PROVE Fresh(jobs', known')
  <2>1. CASE ListShown
    <3>1. run # NoRun /\ run.phase # "sent" /\ jobs' = run.items /\ known' = known
      BY <2>1 DEF ListShown, NoRun
    <3>2. ~queued
      BY <1>1, <2>1 DEF ListShown, RunEnds, Started, NoRun
    <3> QED
      BY <3>1, <3>2 DEF FreshOK
  <2>2. CASE ~ListShown
    <3>1. run = NoRun /\ ~failed /\ visible /\ UNCHANGED <<jobs, known>>
      BY <1>1, <2>2, QuietStep
    <3> QED
      BY <3>1 DEF FreshOK
  <2> QED
    BY <2>1, <2>2
<1> QED
  BY <1>1, RunFresh, AddedFresh DEF FreshOK

-----------------------------------------------------------------------------
(* The list keeps the job that is pinned.                                  *)

LEMMA PinningNext ==
    ASSUME SeenInv, PinOK, Next, run'.phase = "pinning", Lacks(run.items)'
    PROVE  Unsettled'
PROOF
<1>0. run' # NoRun
  BY DEF NoRun
<1>1. CASE RunKept
  <2>1. run' = run /\ run.phase = "pinning"
    BY <1>0, <1>1 DEF RunKept, Started
  <2>2. CASE UNCHANGED <<pinned, scope>>
    <3>1. Unsettled
      BY <2>1, <2>2 DEF PinOK, Lacks, Ids
    <3> QED
      BY <2>1, <3>1, OnTheWay
  <2>3. CASE ~(UNCHANGED <<pinned, scope>>)
    BY <2>1, <2>3, OnTheWay
  <2> QED
    BY <2>2, <2>3
<1>2. CASE ListAnswered
  BY <1>2 DEF ListAnswered
<1>3. CASE AskPinned
  <2>1. run # NoRun /\ run.phase = "listed" /\ UNCHANGED <<pinned, scope>> /\ pinned \in Job
    BY <1>3 DEF AskPinned, LacksPinned, NoRun, SeenInv, PageTypes
  <2>2. "items" \in DOMAIN run /\ Held(run.items, job)
    BY <2>1 DEF SeenInv, RunHolds
  <2>3. PICK items : items = <<Output(pinned)>> \o run.items
    OBVIOUS
  <2>4. run'.items = items
    BY <1>3, <2>2, <2>3 DEF AskPinned
  <2>5. 1 \in DOMAIN items /\ items[1] = Output(pinned)
    BY <2>2, <2>3 DEF Held
  <2>6. items[1].id = pinned
    BY <2>1, <2>5, OutputIs DEF SeenInv
  <2> QED
    BY <2>1, <2>4, <2>5, <2>6 DEF Lacks, Ids
<1> QED
  BY <1>1, <1>2, <1>3, RunEffects

LEMMA PinNext == ASSUME SeenInv, PinOK, Next PROVE PinOK'
PROOF
<1>1. ASSUME Lacks(jobs)', shownKey' = Key', ~failed', run' = NoRun, visible'
      PROVE  error' \/ op' # NoOp
  <2>1. CASE ListShown
    <3>1. /\ run # NoRun /\ jobs' = run.items /\ run.phase \in {"listed", "pinning"}
          /\ UNCHANGED <<scope, pinned, error>> /\ run.key = Key
      BY <2>1 DEF ListShown, NoRun, SeenInv, RunHolds
    <3>2. ~queued /\ op' = IF run.forced THEN NoOp ELSE op
      BY <1>1, <2>1 DEF ListShown, RunEnds, Started, NoRun
    <3>3. Lacks(run.items)
      BY <1>1, <3>1 DEF Lacks, Ids
    <3>4. run.phase = "pinning"
      BY <2>1, <3>1, <3>3 DEF ListShown, LacksPinned, Lacks, Key
    <3>5. error \/ (op # NoOp /\ ~Waiting)
      BY <3>2, <3>3, <3>4 DEF PinOK, Unsettled
    <3>6. run.forced => Waiting
      BY <3>1 DEF SeenInv, LinksInv, PollInv, PollOK
    <3> QED
      BY <3>1, <3>2, <3>5, <3>6
  <2>2. CASE ~ListShown
    <3>1. run = NoRun /\ ~failed /\ visible /\ UNCHANGED <<jobs, shownKey>>
      BY <1>1, <2>2, QuietStep
    <3>2. op' # NoOp \/ error' \/ (UNCHANGED <<pinned, scope, error, op>> /\ Key' = Key)
      BY <1>1, <2>2, QuietStep
    <3>3. CASE UNCHANGED <<pinned, scope, error, op>> /\ Key' = Key
      BY <1>1, <3>1, <3>3 DEF PinOK, Lacks, Ids
    <3> QED
      BY <3>2, <3>3
  <2> QED
    BY <2>1, <2>2
<1> QED
  BY <1>1, PinningNext DEF PinOK

LEMMA HoldInit == Init => HoldInv
PROOF
<1> SUFFICES ASSUME Init PROVE HoldInv
  OBVIOUS
<1>1. jobs = <<>> /\ pinned = 0 /\ op = NoOp /\ run = Started(<<"active", 0>>, FALSE)
  BY DEF Init
<1>2. run.phase = "sent" /\ op.kind = "none" /\ run # NoRun
  BY <1>1 DEF Started, NoOp, NoRun
<1>3. FreshOK
  BY <1>2 DEF FreshOK
<1>4. PinOK
  BY <1>1, <1>2 DEF PinOK, Lacks
<1> QED
  BY <1>3, <1>4, SeenInit DEF HoldInv

LEMMA HoldInductive == HoldInv /\ [Next]_vars => HoldInv'
PROOF
<1>1. ASSUME HoldInv, UNCHANGED vars PROVE HoldInv'
  BY <1>1, SeenStays
  DEF HoldInv, FreshOK, Fresh, PinOK, Lacks, Ids, Unsettled, Waiting, Key, vars, client
<1> QED
  BY <1>1, SeenNext, FreshNext, PinNext DEF HoldInv

LEMMA HoldFollows == HoldInv => ListHolds
PROOF
<1> SUFFICES ASSUME HoldInv PROVE ListHolds
  OBVIOUS
<1>1. TypeOK
  <2>1. \A i \in DOMAIN jobs : jobs[i].id \in Job /\ jobs[i].state \in State
    <3>1. \A i \in DOMAIN jobs : jobs[i] \in Row
      BY DEF HoldInv, SeenInv, RowsSeen, Held
    <3> QED
      BY <3>1 DEF Row
  <2>2. /\ job \in [Job -> [state : State, rev : Nat, price : Price \cup {0}]]
        /\ box \subseteq Job \cup {Bad}
    BY DEF HoldInv, SeenInv, Server, Table, LinksInv, LinksOK
  <2>3. pages # <<>> /\ ToSet(pages) \subseteq Job \cup {0}
    BY DEF HoldInv, SeenInv, PageTypes, ToSet
  <2>4. /\ run.phase \in {"none", "sent", "listed", "pinning"}
        /\ op.kind \in {"none", "act", "batch", "submit"}
    BY DEF HoldInv, SeenInv, LinksInv, PollInv, ShapeOK, Going, NoRun, NoOp
  <2>5. <<visible, queued, timer, failed, error>> \in [1 .. 5 -> BOOLEAN]
    BY DEF HoldInv, SeenInv, Flags
  <2> QED
    BY <2>1, <2>2, <2>3, <2>4, <2>5 DEF HoldInv, SeenInv, PageTypes, TypeOK
<1>2. OwnActionsStay
  BY DEF HoldInv, FreshOK, Fresh, OwnActionsStay, Settled
<1>3. PinnedStays
  BY DEF HoldInv, PinOK, Lacks, PinnedStays, Settled, Idle
<1> QED
  BY <1>1, <1>2, <1>3 DEF ListHolds

\* The list on screen does not go back behind the user's own actions or lose the job that is
\* pinned, whatever answers come late and in what order (usePolling(), Downloads.tsx).
THEOREM ListHoldsTheorem == Spec => []ListHolds
PROOF BY HoldInit, HoldInductive, HoldFollows, PTL DEF Spec

-----------------------------------------------------------------------------
(* A collection. What a move does to a list and to a beginning of it.      *)

LEMMA BooksFinite == IsFiniteSet(Book)
  BY FS_Interval, CollectionsAssumption DEF Book

LEMMA InsertIs ==
    ASSUME NEW s, Distinct(s, Book), NEW b \in ToSet(s), NEW before \in (ToSet(s) \ {b}) \cup {End}
    PROVE  \E p \in 1 .. Len(s) :
             /\ p = IF before = End THEN Len(s) ELSE PlaceIn(Minus(s, b), before)
             /\ Insert(s, b, before) = InsertAt(Minus(s, b), p, b)
PROOF
<1>1. PICK w : w = Minus(s, b) /\ Distinct(w, Book) /\ ToSet(w) = ToSet(s) \ {b}
  BY MinusOnce
<1>2. Len(s) \in Nat /\ Len(s) # 0 /\ Len(w) = Len(s) - 1
  BY <1>1, MinusIs, ListIs
<1>3. before # End => PlaceIn(w, before) \in 1 .. Len(w)
  BY <1>1, ListIs
<1>4. PICK p : p = IF before = End THEN Len(w) + 1 ELSE PlaceIn(w, before)
  OBVIOUS
<1>5. p \in 1 .. Len(s) /\ p = IF before = End THEN Len(s) ELSE PlaceIn(w, before)
  BY <1>2, <1>3, <1>4
<1>6. Insert(s, b, before) = InsertAt(w, p, b)
  BY <1>1, <1>4 DEF Insert
<1> QED
  BY <1>1, <1>5, <1>6

LEMMA InsertOnce ==
    ASSUME NEW s, Distinct(s, Book), NEW b \in ToSet(s), NEW before \in (ToSet(s) \ {b}) \cup {End}
    PROVE  Distinct(Insert(s, b, before), Book) /\ ToSet(Insert(s, b, before)) = ToSet(s)
PROOF
<1>1. PICK w : w = Minus(s, b) /\ Distinct(w, Book) /\ ToSet(w) = ToSet(s) \ {b}
  BY MinusOnce
<1>2. Len(s) \in Nat /\ Len(s) # 0 /\ Len(w) = Len(s) - 1 /\ b \in Book
  BY <1>1, MinusIs, ListIs
<1>3. PICK p \in 1 .. Len(s) : Insert(s, b, before) = InsertAt(w, p, b)
  BY <1>1, InsertIs
<1>4. p \in 1 .. Len(w) + 1 /\ b \in Book \ ToSet(w)
  BY <1>1, <1>2
<1>5. PICK u : u = InsertAt(w, p, b) /\ Distinct(u, Book) /\ ToSet(u) = ToSet(w) \cup {b}
  BY <1>1, <1>4, PutBack
<1> QED
  BY <1>1, <1>2, <1>3, <1>5

LEMMA InsertLeads ==
    ASSUME NEW s, NEW t, Distinct(s, Book), Distinct(t, Book), Leads(s, t), NEW b \in ToSet(s),
           NEW before \in (ToSet(s) \ {b}) \cup {End}, before = End => s = t
    PROVE  Leads(Insert(s, b, before), Insert(t, b, before))
PROOF
<1>1. Len(s) \in Nat /\ Len(t) \in Nat
  BY ListIs
<1>2. CASE before = End
  <2>1. PICK u : u = Insert(s, b, before) /\ Distinct(u, Book)
    BY InsertOnce
  <2>2. Len(u) \in Nat
    BY <2>1 DEF Distinct
  <2> QED
    BY <1>2, <2>1, <2>2 DEF Leads
<1>3. CASE before # End
  <2>1. b \in ToSet(t) /\ before \in ToSet(t) \ {b} /\ b \in Book
    BY <1>3, SamePlace, ListIs
  <2>2. PICK v : v = Minus(s, b) /\ Distinct(v, Book) /\ ToSet(v) = ToSet(s) \ {b}
    BY MinusOnce
  <2>3. PICK w : w = Minus(t, b) /\ Distinct(w, Book) /\ ToSet(w) = ToSet(t) \ {b}
    BY <2>1, MinusOnce
  <2>4. Leads(v, w)
    BY <2>2, <2>3, MinusLeads
  <2>5. PICK p : p = PlaceIn(v, before) /\ p = PlaceIn(w, before) /\ p \in 1 .. Len(v)
    BY <1>3, <2>2, <2>3, <2>4, SamePlace, ListIs
  <2>6. Insert(s, b, before) = InsertAt(v, p, b) /\ Insert(t, b, before) = InsertAt(w, p, b)
    <3>1. PICK i : i = PlaceIn(v, before) /\ Insert(s, b, before) = InsertAt(v, i, b)
      BY <1>3, <2>2, InsertIs
    <3>2. PICK j : j = PlaceIn(w, before) /\ Insert(t, b, before) = InsertAt(w, j, b)
      BY <1>3, <2>1, <2>3, InsertIs
    <3> QED
      BY <2>5, <3>1, <3>2
  <2>7. v \in Seq(Book) /\ w \in Seq(Book) /\ Len(v) \in Nat /\ Len(w) \in Nat
    BY <2>2, <2>3 DEF Distinct
  <2>8. PICK x, y : x = InsertAt(v, p, b) /\ y = InsertAt(w, p, b)
    OBVIOUS
  <2>9. /\ Len(x) = Len(v) + 1
        /\ \A k \in 1 .. Len(v) + 1 : x[k] = IF k < p THEN v[k] ELSE IF k = p THEN b ELSE v[k - 1]
    <3>1. p \in 1 .. Len(v) + 1
      BY <2>5, <2>7
    <3> QED
      BY <2>1, <2>7, <2>8, <3>1, InsertedAt
  <2>10. p \in 1 .. Len(w) + 1
    BY <2>4, <2>5, <2>7 DEF Leads
  <2>11. /\ Len(y) = Len(w) + 1
         /\ \A k \in 1 .. Len(w) + 1 : y[k] = IF k < p THEN w[k] ELSE IF k = p THEN b ELSE w[k - 1]
    BY <2>1, <2>7, <2>8, <2>10, InsertedAt
  <2>12. ASSUME NEW k \in 1 .. Len(v) + 1 PROVE x[k] = y[k]
    <3>1. k \in 1 .. Len(w) + 1
      BY <2>4, <2>7 DEF Leads
    <3>2. (k < p => k \in 1 .. Len(v)) /\ (p < k => k - 1 \in 1 .. Len(v))
      BY <2>5, <2>7
    <3>3. (k < p => v[k] = w[k]) /\ (p < k => v[k - 1] = w[k - 1])
      BY <2>4, <3>2 DEF Leads
    <3>4. k < p \/ k = p \/ p < k
      BY <2>5, <2>7
    <3> QED
      BY <2>5, <2>7, <2>9, <2>11, <3>1, <3>3, <3>4
  <2> QED
    BY <2>4, <2>6, <2>7, <2>8, <2>9, <2>11, <2>12 DEF Leads
<1> QED
  BY <1>2, <1>3

\* Only some of the rows are rewritten, and all of them end up at their index.
LEMMA RenumberedIs ==
    ASSUME NEW s, Distinct(s, Book), place \in PositionsOf(Book), ToSet(s) = Members(place)
    PROVE  Renumbered(s) = Indexed(Book, s)
PROOF
<1>1. \A b \in Book : place[b] \in Int /\ (b \in ToSet(s) <=> ~(place[b] < 0))
  BY DEF Members, PositionsOf
<1>2. PICK n : n = Indexed(Book, s)
  OBVIOUS
<1>3. n = [b \in Book |-> IF b \in ToSet(s) THEN PlaceIn(s, b) - 1 ELSE -1]
  BY <1>2 DEF Indexed
<1>4. \A b \in Book : (IF place[b] < 0 THEN -1 ELSE IF place[b] # n[b] THEN n[b] ELSE place[b]) = n[b]
  BY <1>1, <1>3
<1>5. Renumbered(s) = [b \in Book |-> IF place[b] < 0 THEN -1 ELSE IF place[b] # n[b] THEN n[b] ELSE place[b]]
  BY <1>2 DEF Renumbered
<1>6. Renumbered(s) = [b \in Book |-> n[b]]
  BY <1>4, <1>5
<1> QED
  BY <1>2, <1>3, <1>6

-----------------------------------------------------------------------------
(* The collection on the server, and what an edit makes of it.             *)

ServerOK ==
    /\ place \in PositionsOf(Book) /\ NoTies(place) /\ matches \subseteq Book
    /\ dynamic \in BOOLEAN /\ exists \in BOOLEAN /\ name \in Names
    /\ revision \in Nat \ {0} /\ orders \in [1 .. revision -> Seq(Book)]
    /\ ~dynamic => orders[revision] = Order
Effect ==
    \/ Same
    \/ revision' = revision + 1 /\ \A r \in 1 .. revision : orders'[r] = orders[r]
EditKept == UNCHANGED matches /\ exists' \in BOOLEAN

LEMMA PositionsClear ==
    ASSUME NEW at \in PositionsOf(Book), NoTies(at), NEW d \in BOOLEAN, NEW m \in SUBSET Book,
           NEW p, p = IF d THEN [b \in Book |-> IF b \in m THEN b ELSE -1] ELSE at
    PROVE  p \in PositionsOf(Book) /\ NoTies(p)
PROOF
<1>1. CASE d
  <2>1. \A b \in Book : p[b] = IF b \in m THEN b ELSE -1
    BY <1>1
  <2>2. p \in PositionsOf(Book)
    BY <1>1 DEF PositionsOf, Book
  <2> QED
    BY <2>1, <2>2 DEF NoTies, Book, PositionsOf
<1>2. CASE ~d
  BY <1>2
<1> QED
  BY <1>1, <1>2

LEMMA OrderLists ==
    ASSUME ServerOK
    PROVE  Positions \in PositionsOf(Book) /\ Orders(Order, Positions) /\ Distinct(Order, Book)
PROOF
<1>1. PICK p : p = Positions
  OBVIOUS
<1>2. p \in PositionsOf(Book) /\ NoTies(p)
  BY <1>1, PositionsClear DEF ServerOK, Positions
<1>3. Orders(Ranked(p), p)
  BY <1>2, RankedLists, BooksFinite
<1> QED
  BY <1>1, <1>2, <1>3, ListedOnce DEF Order

LEMMA SameKeeps ==
    ASSUME ServerOK, Same, matches' \subseteq Book, exists' \in BOOLEAN
    PROVE  ServerOK' /\ Effect /\ (~dynamic => Order' = Order)
PROOF
<1>1. ~dynamic => Positions' = place /\ Positions = place
  BY DEF Same, Positions
<1>2. ~dynamic => Order' = Order
  BY <1>1 DEF Order
<1> QED
  BY <1>2 DEF ServerOK, Same, Effect

LEMMA BecomesKeeps ==
    ASSUME ServerOK, EditKept, NEW s, NEW at \in PositionsOf(Book), Orders(s, at), NEW d \in BOOLEAN,
           NEW called \in Names, Becomes(at, d, called)
    PROVE  ServerOK' /\ Effect /\ (~d => Order' = s)
PROOF
<1>1. place' = at /\ dynamic' = d /\ name' = called /\ revision' = revision + 1
      /\ matches' \subseteq Book /\ exists' \in BOOLEAN
  BY DEF Becomes, EditKept, ServerOK
<1>2. NoTies(at)
  BY ListedOnce
<1>3. PICK p : p = IF d THEN [b \in Book |-> IF b \in matches' THEN b ELSE -1] ELSE at
  OBVIOUS
<1>4. p = Positions'
  BY <1>1, <1>3 DEF Positions
<1>5. PICK m : m = matches'
  OBVIOUS
<1>6. p \in PositionsOf(Book) /\ NoTies(p)
  BY <1>1, <1>2, <1>3, <1>5, PositionsClear
<1>7. PICK w : w = Ranked(p)
  OBVIOUS
<1>8. Orders(w, p) /\ w \in Seq(Book)
  BY <1>6, <1>7, RankedLists, BooksFinite DEF Orders, PositionsOf
<1>9. Order' = w
  BY <1>4, <1>7 DEF Order
<1>10. ~d => w = s
  BY <1>3, <1>7, OrderIsRanked
<1>11. PICK ord, r : ord = orders /\ r = revision
  OBVIOUS
<1>12. r \in Nat \ {0} /\ ord \in [1 .. r -> Seq(Book)]
  BY <1>11 DEF ServerOK
<1>13. orders' = [x \in DOMAIN ord \cup {r + 1} |-> IF x = r + 1 THEN w ELSE ord[x]]
  BY <1>9, <1>11 DEF Becomes
<1>14. DOMAIN ord \cup {r + 1} = 1 .. r + 1
  BY <1>12
<1>15. orders' = [x \in 1 .. r + 1 |-> IF x = r + 1 THEN w ELSE ord[x]]
  BY <1>13, <1>14
<1>16. \A x \in 1 .. r + 1 : x = r + 1 \/ x \in 1 .. r
  BY <1>12
<1>17. orders' \in [1 .. r + 1 -> Seq(Book)]
  BY <1>8, <1>12, <1>15, <1>16
<1>18. orders'[r + 1] = w /\ \A x \in 1 .. r : orders'[x] = ord[x]
  BY <1>12, <1>15
<1>19. ServerOK'
  BY <1>1, <1>2, <1>9, <1>11, <1>12, <1>17, <1>18 DEF ServerOK
<1> QED
  BY <1>1, <1>9, <1>10, <1>11, <1>18, <1>19 DEF Effect

LEMMA StaticOrder ==
    ASSUME ServerOK, ~dynamic
    PROVE  /\ Orders(Order, place) /\ Distinct(Order, Book) /\ place \in PositionsOf(Book)
           /\ \A b \in Book : b \in ToSet(Order) <=> place[b] >= 0
           /\ ToSet(Order) = Members(place)
PROOF
<1>1. Positions = place
  BY DEF Positions
<1>2. Orders(Order, place) /\ Distinct(Order, Book) /\ place \in PositionsOf(Book)
  BY <1>1, OrderLists
<1> QED
  BY <1>2 DEF Orders, Members, PositionsOf

LEMMA AddedDoes ==
    ASSUME ServerOK, EditKept, ~dynamic, NEW b \in Book, Added(b)
    PROVE  /\ ServerOK' /\ Effect
           /\ Order' = IF b \in ToSet(Order) THEN Order ELSE Append(Order, b)
PROOF
<1>1. CASE place[b] >= 0
  <2>1. Same /\ b \in ToSet(Order)
    BY <1>1, StaticOrder DEF Added
  <2> QED
    BY <2>1, SameKeeps DEF EditKept, ServerOK
<1>2. CASE ~(place[b] >= 0)
  <2>1. place[b] < 0 /\ b \notin ToSet(Order)
    BY <1>2, StaticOrder DEF PositionsOf
  <2>2. PICK s : s = Order
    OBVIOUS
  <2>3. PICK n : n = IF s = <<>> THEN 0 ELSE place[Last(s)] + 1
    OBVIOUS
  <2>4. PICK at : at = [place EXCEPT ![b] = n]
    OBVIOUS
  <2>5. at \in PositionsOf(Book) /\ Orders(Append(s, b), at)
    BY <2>1, <2>2, <2>3, <2>4, StaticOrder, AppendLists
  <2>6. PICK d : d = FALSE
    OBVIOUS
  <2>7. Becomes(at, d, name)
    BY <1>2, <2>2, <2>3, <2>4, <2>6 DEF Added
  <2>8. PICK called \in Names : called = name
    BY DEF ServerOK
  <2>9. Becomes(at, d, called) /\ d \in BOOLEAN
    BY <2>6, <2>7, <2>8
  <2> QED
    BY <2>1, <2>2, <2>5, <2>6, <2>9, BecomesKeeps
<1> QED
  BY <1>1, <1>2

LEMMA RemovedDoes ==
    ASSUME ServerOK, EditKept, ~dynamic, NEW b \in Book, Removed(b)
    PROVE  ServerOK' /\ Effect /\ b \in ToSet(Order) /\ Order' = Minus(Order, b)
PROOF
<1>1. PICK s : s = Order
  OBVIOUS
<1>2. PICK at : at = [place EXCEPT ![b] = -1]
  OBVIOUS
<1>3. b \in ToSet(s) /\ b \in Members(place) /\ Orders(s, place) /\ place \in PositionsOf(Book)
  BY <1>1, StaticOrder DEF Removed
<1>4. at \in PositionsOf(Book) /\ Orders(Minus(s, b), at)
  BY <1>2, <1>3, MinusLists
<1>5. PICK d, called : d = FALSE /\ called = name
  OBVIOUS
<1>6. Becomes(at, d, called) /\ d \in BOOLEAN /\ called \in Names
  BY <1>2, <1>5 DEF Removed, ServerOK
<1> QED
  BY <1>1, <1>3, <1>4, <1>5, <1>6, BecomesKeeps

LEMMA MovedDoes ==
    ASSUME ServerOK, EditKept, ~dynamic, NEW b \in Book, NEW before \in Book \cup {End},
           b # before, Moved(b, before)
    PROVE  /\ ServerOK' /\ Effect
           /\ b \in ToSet(Order) /\ Order' = Insert(Order, b, before)
PROOF
<1>1. PICK s : s = Order
  OBVIOUS
<1>2. Orders(s, place) /\ Distinct(s, Book) /\ place \in PositionsOf(Book) /\ b \in ToSet(s) /\ ToSet(s) = Members(place)
  BY <1>1, StaticOrder DEF Moved
<1>3. before \in (ToSet(s) \ {b}) \cup {End}
  BY <1>1, StaticOrder DEF Moved
<1>4. PICK w : w = Insert(s, b, before) /\ Distinct(w, Book) /\ ToSet(w) = ToSet(s)
  BY <1>2, <1>3, InsertOnce
<1>5. CASE w = s
  <2>1. Same
    BY <1>1, <1>4, <1>5 DEF Moved
  <2> QED
    BY <1>1, <1>2, <1>4, <1>5, <2>1, SameKeeps DEF EditKept, ServerOK
<1>6. CASE w # s
  <2>1. PICK at : at = Renumbered(w) /\ at = Indexed(Book, w)
    BY <1>2, <1>4, RenumberedIs
  <2>2. at \in PositionsOf(Book) /\ Orders(w, at)
    BY <1>4, <2>1, IndexedLists
  <2>3. PICK d, called : d = FALSE /\ called = name
    OBVIOUS
  <2>4. Becomes(at, d, called)
    BY <1>1, <1>4, <1>6, <2>1, <2>3 DEF Moved
  <2>5. d \in BOOLEAN /\ called \in Names
    BY <2>3 DEF ServerOK
  <2> QED
    BY <1>1, <1>2, <1>4, <2>2, <2>3, <2>4, <2>5, BecomesKeeps
<1> QED
  BY <1>5, <1>6

LEMMA RenamedDoes ==
    ASSUME ServerOK, EditKept, NEW called \in Names, Renamed(called)
    PROVE  ServerOK' /\ Effect
PROOF
<1>1. CASE Same
  BY <1>1, SameKeeps DEF EditKept, ServerOK
<1>2. CASE Becomes(place, dynamic, called)
  <2>1. PICK at, d : at = place /\ d = dynamic
    OBVIOUS
  <2>2. at \in PositionsOf(Book) /\ d \in BOOLEAN /\ NoTies(at) /\ Becomes(at, d, called)
    BY <1>2, <2>1 DEF ServerOK
  <2>3. Orders(Ranked(at), at)
    BY <2>2, RankedLists, BooksFinite
  <2> QED
    BY <2>2, <2>3, BecomesKeeps
<1> QED
  BY <1>1, <1>2 DEF Renamed

LEMMA IndexedDoes ==
    ASSUME ServerOK, EditKept, NEW s, Distinct(s, Book), Becomes(Indexed(Book, s), FALSE, name)
    PROVE  ServerOK' /\ Effect
PROOF
<1>1. PICK at : at = Indexed(Book, s) /\ at \in PositionsOf(Book) /\ Orders(s, at)
  BY IndexedLists
<1>2. PICK d, called : d = FALSE /\ called = name
  OBVIOUS
<1>3. d \in BOOLEAN /\ called \in Names /\ Becomes(at, d, called)
  BY <1>1, <1>2 DEF ServerOK
<1> QED
  BY <1>1, <1>3, BecomesKeeps

LEMMA FrozenDoes ==
    ASSUME ServerOK, EditKept, Frozen
    PROVE  ServerOK' /\ Effect
PROOF
<1>1. CASE dynamic
  <2>1. PICK s : s = Order
    OBVIOUS
  <2>2. Distinct(s, Book) /\ Becomes(Indexed(Book, s), FALSE, name)
    BY <1>1, <2>1, OrderLists DEF Frozen
  <2> QED
    BY <2>2, IndexedDoes
<1>2. CASE ~dynamic
  BY <1>2, SameKeeps DEF Frozen, EditKept, ServerOK
<1> QED
  BY <1>1, <1>2 DEF ServerOK

-----------------------------------------------------------------------------
(* The pages of a collection.                                              *)

Pages == [kind : {"page"}, items : Seq(Book), dynamic : BOOLEAN, name : Names, rev : Nat,
          token : Seq(Book), after : Nat \cup {-1}]
Whole(p, ord) == IF p.dynamic THEN p.token ELSE ord[p.rev]

\* A page begins the list it was read from, and goes on, at its revision, where it ended.
PageOK(p, ord, r, d, at) ==
    /\ p \in Pages /\ p.rev \in 1 .. r
    /\ Leads(p.items, Whole(p, ord))
    /\ p.after = -1 => p.items = Whole(p, ord)
    /\ p.after # -1 => Len(p.items) > 0
    /\ p.rev = r => p.dynamic = d
    /\ p.rev = r /\ ~p.dynamic /\ p.after # -1 => p.after = at[p.items[Len(p.items)]]
    /\ p.dynamic /\ p.after # -1 => p.after = Len(p.items) - 1

\* A page stays one when the collection changes.
LEMMA PageStays ==
    ASSUME ServerOK, Effect, NEW p, PageOK(p, orders, revision, dynamic, place)
    PROVE  PageOK(p, orders', revision', dynamic', place')
PROOF
<1>1. CASE Same
  BY <1>1 DEF Same
<1>2. CASE revision' = revision + 1 /\ \A r \in 1 .. revision : orders'[r] = orders[r]
  <2>1. p.rev \in 1 .. revision /\ revision \in Nat
    BY DEF PageOK, ServerOK
  <2>2. Whole(p, orders') = Whole(p, orders)
    BY <1>2, <2>1 DEF Whole
  <2>3. p.rev \in 1 .. revision' /\ p.rev # revision'
    BY <1>2, <2>1
  <2> QED
    BY <2>2, <2>3 DEF PageOK
<1> QED
  BY <1>1, <1>2 DEF Effect

\* How many books come no later than the last one that was read.
LEMMA SeenIs ==
    ASSUME ServerOK, NEW k \in 0 .. Len(Order), NEW after,
           after = IF k = 0 THEN -1 ELSE IF dynamic THEN k - 1 ELSE place[Order[k]]
    PROVE  Cardinality({b \in Members(Positions) : Position(b) <= after}) = k
PROOF
<1>1. PICK p, s : p = Positions /\ s = Order
  OBVIOUS
<1>2. p \in PositionsOf(Book) /\ Orders(s, p) /\ Distinct(s, Book)
  BY <1>1, OrderLists
<1>3. /\ Len(s) \in Nat
      /\ \A i \in 1 .. Len(s) : s[i] \in Members(p) /\ p[s[i]] \in Nat
      /\ \A b \in Members(p) : \E i \in 1 .. Len(s) : s[i] = b
  BY <1>2, ListedOnce
<1>4. \A i \in 1 .. Len(s) : Rank(p, s[i]) = i
  BY <1>2, OrderIsRanked
<1>5. \A i \in 1 .. Len(s) : Position(s[i]) = IF dynamic THEN i - 1 ELSE p[s[i]]
  BY <1>1, <1>4 DEF Position, Positions
<1>6. \A i, j \in 1 .. Len(s) : i < j => p[s[i]] < p[s[j]]
  BY <1>2 DEF Orders, PositionsOf
<1>7. k \in Nat /\ k <= Len(s)
  BY <1>1, <1>3
<1>8. ASSUME NEW i \in 1 .. Len(s) PROVE Position(s[i]) <= after <=> i <= k
  <2>1. CASE k = 0
    <3>1. after = -1 /\ Position(s[i]) \in Nat
      BY <1>3, <1>5, <2>1
    <3> QED
      BY <2>1, <3>1
  <2>2. CASE k # 0 /\ dynamic
    BY <1>3, <1>5, <1>7, <2>2
  <2>3. CASE k # 0 /\ ~dynamic
    <3>1. k \in 1 .. Len(s) /\ after = p[s[k]] /\ Position(s[i]) = p[s[i]]
      BY <1>1, <1>3, <1>5, <1>7, <2>3 DEF Positions
    <3>2. p[s[k]] \in Nat /\ p[s[i]] \in Nat /\ (i < k => p[s[i]] < p[s[k]]) /\ (k < i => p[s[k]] < p[s[i]])
      BY <1>3, <1>6, <3>1
    <3> QED
      BY <1>3, <3>1, <3>2
  <2> QED
    BY <2>1, <2>2, <2>3
<1>9. {b \in Members(p) : Position(b) <= after} = {s[i] : i \in 1 .. k}
  <2>1. ASSUME NEW b \in Members(p), Position(b) <= after PROVE \E i \in 1 .. k : b = s[i]
    <3>1. PICK i \in 1 .. Len(s) : s[i] = b
      BY <1>3
    <3>2. i <= k
      BY <1>8, <2>1, <3>1
    <3> QED
      BY <1>3, <1>7, <3>1, <3>2
  <2>2. ASSUME NEW i \in 1 .. k PROVE s[i] \in Members(p) /\ Position(s[i]) <= after
    <3>1. i \in 1 .. Len(s) /\ i <= k
      BY <1>3, <1>7
    <3> QED
      BY <1>3, <1>8, <3>1
  <2> QED
    BY <2>1, <2>2
<1>10. k \in 0 .. Len(s)
  BY <1>1
<1> QED
  BY <1>1, <1>2, <1>9, <1>10, FirstCount

\* What is read after the first k books is the books that follow, to a last one or to the end.
LEMMA PageIs ==
    ASSUME ServerOK, NEW k \in 0 .. Len(Order), NEW after,
           after = IF k = 0 THEN -1 ELSE IF dynamic THEN k - 1 ELSE place[Order[k]]
    PROVE  \E last \in k .. Len(Order), a \in Nat \cup {-1} :
             /\ Page(after) = [kind |-> "page", items |-> SubSeq(Order, k + 1, last),
                               dynamic |-> dynamic, name |-> name, rev |-> revision,
                               token |-> IF dynamic THEN Order ELSE <<>>, after |-> a]
             /\ a = -1 => last = Len(Order)
             /\ a # -1 => last > 0 /\ a = IF dynamic THEN last - 1 ELSE place[Order[last]]
PROOF
<1>1. PICK s, p : s = Order /\ p = Positions
  OBVIOUS
<1>2. /\ Distinct(s, Book) /\ Orders(s, p) /\ p \in PositionsOf(Book) /\ s \in Seq(Book) /\ Len(s) \in Nat
      /\ \A i \in 1 .. Len(s) : p[s[i]] \in Nat
  BY <1>1, OrderLists, ListedOnce DEF Orders, PositionsOf
<1>3. k \in Nat /\ k <= Len(s) /\ ItemPage \in Nat \ {0}
  BY <1>1, <1>2, CollectionsAssumption
<1>4. PICK last : last = IF Len(s) < k + ItemPage THEN Len(s) ELSE k + ItemPage
  OBVIOUS
<1>5. last \in k .. Len(s)
  BY <1>2, <1>3, <1>4
<1>6. PICK t : t = SubSeq(s, k + 1, last)
  OBVIOUS
<1>7. Len(t) = last - k /\ \A i \in 1 .. last - k : t[i] = s[k + i]
  BY <1>2, <1>3, <1>5, <1>6
<1>8. PICK a : a = IF Len(t) = ItemPage THEN Position(Last(t)) ELSE -1
  OBVIOUS
<1>9. Page(after) = [kind |-> "page", items |-> t, dynamic |-> dynamic, name |-> name,
                     rev |-> revision, token |-> IF dynamic THEN Order ELSE <<>>, after |-> a]
  BY <1>1, <1>4, <1>6, <1>8, SeenIs DEF Page
<1>10. CASE Len(t) # ItemPage
  <2>1. last = Len(s)
    BY <1>2, <1>3, <1>4, <1>7, <1>10
  <2> QED
    BY <1>1, <1>5, <1>6, <1>8, <1>9, <1>10, <2>1
<1>11. CASE Len(t) = ItemPage
  <2>1. last = k + ItemPage /\ last \in 1 .. Len(s)
    <3>1. last - k = ItemPage
      BY <1>7, <1>11
    <3> QED
      BY <1>2, <1>3, <1>5, <3>1
  <2>2. Last(t) = s[last]
    BY <1>3, <1>7, <1>11, <2>1 DEF Last
  <2>3. Rank(p, s[last]) = last
    BY <1>2, <2>1, OrderIsRanked
  <2>4. a = IF dynamic THEN last - 1 ELSE place[s[last]]
    BY <1>1, <1>8, <1>11, <2>2, <2>3 DEF Position
  <2>5. ~dynamic => a = p[s[last]]
    BY <1>1, <2>4 DEF Positions
  <2>6. a \in Nat
    BY <1>2, <2>1, <2>4, <2>5
  <2>7. last > 0 /\ a # -1
    BY <2>1, <2>6
  <2> QED
    BY <1>1, <1>5, <1>6, <1>9, <2>4, <2>6, <2>7
<1> QED
  BY <1>10, <1>11

\* The first books of the collection, with the place they end at, are a page of it.
FirstBooks(p, s, last, a) ==
    /\ last \in 0 .. Len(Order) /\ a \in Nat \cup {-1}
    /\ s \in Seq(Book) /\ Len(s) = last /\ \A i \in 1 .. last : s[i] = Order[i]
    /\ a = -1 => last = Len(Order)
    /\ a # -1 => last > 0 /\ a = IF dynamic THEN last - 1 ELSE place[Order[last]]
    /\ p = [kind |-> "page", items |-> s, dynamic |-> dynamic, name |-> name,
            rev |-> revision, token |-> IF dynamic THEN Order ELSE <<>>, after |-> a]

LEMMA FreshPage ==
    ASSUME NEW p, NEW s, NEW last, NEW a, ServerOK, FirstBooks(p, s, last, a)
    PROVE  PageOK(p, orders, revision, dynamic, place) /\ p.rev = revision
PROOF
<1> USE DEF FirstBooks
<1>1. PICK o : o = Order
  OBVIOUS
<1>2. o \in Seq(Book) /\ Len(o) \in Nat /\ (~dynamic => orders[revision] = o)
  BY <1>1, OrderLists DEF ServerOK, Distinct
<1>3. <<>> \in Seq(Book)
  OBVIOUS
<1>4. p \in Pages
  BY <1>1, <1>2, <1>3 DEF Pages, ServerOK
<1>5. p.items = s /\ p.dynamic = dynamic /\ p.rev = revision /\ p.after = a
      /\ p.token = IF dynamic THEN o ELSE <<>>
  BY <1>1
<1>6. PICK w : w = Whole(p, orders)
  OBVIOUS
<1>7. w = o
  BY <1>2, <1>5, <1>6 DEF Whole
<1>8. Leads(s, w)
  BY <1>1, <1>2, <1>7 DEF Leads
<1>9. a = -1 => s = w
  BY <1>1, <1>2, <1>7
<1>10. a # -1 => Len(s) > 0
  OBVIOUS
<1>11. ~dynamic /\ a # -1 => a = place[s[Len(s)]]
  BY <1>1, <1>2
<1>12. dynamic /\ a # -1 => a = Len(s) - 1
  OBVIOUS
<1>13. revision \in 1 .. revision
  BY DEF ServerOK
<1> QED
  BY <1>4, <1>5, <1>6, <1>8, <1>9, <1>10, <1>11, <1>12, <1>13 DEF PageOK

LEMMA FirstPageIs ==
    ASSUME NEW p, ServerOK, p = Page(-1)
    PROVE  PageOK(p, orders, revision, dynamic, place) /\ p.rev = revision
PROOF
<1>1. PICK k, after : k = 0 /\ after = -1
  OBVIOUS
<1>2. Order \in Seq(Book) /\ Len(Order) \in Nat
  BY OrderLists DEF Distinct
<1>3. k \in 0 .. Len(Order)
  BY <1>1, <1>2
<1>4. PICK last \in k .. Len(Order), a \in Nat \cup {-1} :
        /\ p = [kind |-> "page", items |-> SubSeq(Order, k + 1, last),
                dynamic |-> dynamic, name |-> name, rev |-> revision,
                token |-> IF dynamic THEN Order ELSE <<>>, after |-> a]
        /\ a = -1 => last = Len(Order)
        /\ a # -1 => last > 0 /\ a = IF dynamic THEN last - 1 ELSE place[Order[last]]
  BY <1>1, <1>3, PageIs
<1>5. PICK s : s = SubSeq(Order, k + 1, last)
  OBVIOUS
<1>6. s \in Seq(Book) /\ Len(s) = last /\ \A i \in 1 .. last : s[i] = Order[i]
  BY <1>1, <1>2, <1>5
<1>7. last \in 0 .. Len(Order)
  BY <1>1
<1>20. FirstBooks(p, s, last, a)
  BY <1>4, <1>5, <1>6, <1>7 DEF FirstBooks
<1> QED
  BY <1>20, FreshPage

\* The books that follow a page of the same revision, put after it.
LEMMA FollowingPageIs ==
    ASSUME NEW v, NEW p, ServerOK, PageOK(v, orders, revision, dynamic, place), v.after # -1,
           Continues(v), p = [Page(v.after) EXCEPT !.items = v.items \o @]
    PROVE  PageOK(p, orders, revision, dynamic, place) /\ p.rev = revision
PROOF
<1>1. PICK o : o = Order /\ o \in Seq(Book) /\ Len(o) \in Nat
  BY OrderLists DEF Distinct
<1>2. v \in Pages /\ v.rev = revision /\ v.dynamic = dynamic /\ (dynamic => v.token = o)
  BY <1>1 DEF PageOK, Continues
<1>3. Whole(v, orders) = o
  BY <1>1, <1>2 DEF Whole, ServerOK
<1>4. PICK u, k : u = v.items /\ k = Len(u)
  OBVIOUS
<1>5. u \in Seq(Book) /\ k \in 1 .. Len(o) /\ \A i \in 1 .. k : u[i] = o[i]
  <2>1. u \in Seq(Book) /\ k \in Nat
    BY <1>2, <1>4 DEF Pages
  <2> QED
    BY <1>1, <1>3, <1>4, <2>1 DEF PageOK, Leads
<1>6. PICK after : after = v.after
  OBVIOUS
<1>7. after = IF k = 0 THEN -1 ELSE IF dynamic THEN k - 1 ELSE place[o[k]]
  <2>1. k # 0 /\ k \in 1 .. k
    BY <1>5
  <2>2. dynamic => after = k - 1
    BY <1>2, <1>4, <1>6 DEF PageOK
  <2>3. ~dynamic => after = place[u[k]]
    BY <1>2, <1>4, <1>6 DEF PageOK
  <2> QED
    BY <1>5, <2>1, <2>2, <2>3
<1>8. k \in 0 .. Len(Order)
      /\ after = IF k = 0 THEN -1 ELSE IF dynamic THEN k - 1 ELSE place[Order[k]]
  BY <1>1, <1>5, <1>7
<1>9. PICK last \in k .. Len(Order), a \in Nat \cup {-1} :
        /\ Page(after) = [kind |-> "page", items |-> SubSeq(Order, k + 1, last),
                          dynamic |-> dynamic, name |-> name, rev |-> revision,
                          token |-> IF dynamic THEN Order ELSE <<>>, after |-> a]
        /\ a = -1 => last = Len(Order)
        /\ a # -1 => last > 0 /\ a = IF dynamic THEN last - 1 ELSE place[Order[last]]
  BY <1>8, PageIs
<1>10. PICK t : t = SubSeq(Order, k + 1, last)
  OBVIOUS
<1>11. t \in Seq(Book) /\ Len(t) = last - k /\ \A i \in 1 .. last - k : t[i] = o[k + i]
  <2>1. t = SubSeq(o, k + 1, last) /\ last \in k .. Len(o)
    BY <1>1, <1>10
  <2> QED
    BY <1>1, <1>5, <2>1
<1>12. PICK s : s = u \o t
  OBVIOUS
<1>13. s \in Seq(Book) /\ Len(s) = last
  <2>1. u \in Seq(Book) /\ t \in Seq(Book)
    BY <1>5, <1>11
  <2>2. s \in Seq(Book) /\ Len(s) = Len(u) + Len(t)
    BY <1>12, <2>1
  <2> QED
    BY <1>4, <1>5, <1>11, <2>2
<1>14. ASSUME NEW i \in 1 .. last PROVE s[i] = o[i]
  <2>1. CASE i <= k
    <3>1. i \in 1 .. k
      BY <1>5, <2>1
    <3>2. s[i] = u[i]
      BY <1>4, <1>5, <1>11, <1>12, <3>1
    <3> QED
      BY <1>5, <3>1, <3>2
  <2>2. CASE k < i
    <3>1. i - k \in 1 .. last - k /\ k + (i - k) = i
      BY <1>5, <2>2
    <3>2. s[i] = t[i - k]
      <4>1. u \in Seq(Book) /\ t \in Seq(Book) /\ Len(u) = k /\ Len(s) = last
        BY <1>4, <1>5, <1>11, <1>13
      <4>2. i \in 1 .. Len(u) + Len(t) /\ ~(i <= Len(u))
        BY <1>4, <1>5, <1>11, <2>2, <4>1
      <4> QED
        BY <1>12, <4>1, <4>2
    <3> QED
      BY <1>11, <3>1, <3>2
  <2> QED
    BY <1>5, <2>1, <2>2
<1>15. p = [kind |-> "page", items |-> s, dynamic |-> dynamic, name |-> name, rev |-> revision,
            token |-> IF dynamic THEN Order ELSE <<>>, after |-> a]
  <2>1. PICK more : more = Page(after)
    OBVIOUS
  <2>2. more = [kind |-> "page", items |-> t, dynamic |-> dynamic, name |-> name,
                rev |-> revision, token |-> IF dynamic THEN Order ELSE <<>>, after |-> a]
    BY <1>9, <1>10, <2>1
  <2>3. p = [more EXCEPT !.items = u \o @]
    BY <1>4, <1>6, <2>1
  <2> QED
    BY <1>12, <2>2, <2>3
<1>16. last \in 0 .. Len(Order) /\ \A i \in 1 .. last : s[i] = Order[i]
  BY <1>1, <1>5, <1>14
<1>20. FirstBooks(p, s, last, a)
  BY <1>9, <1>13, <1>15, <1>16 DEF FirstBooks
<1> QED
  BY <1>20, FreshPage

-----------------------------------------------------------------------------
(* The page and its task.                                                  *)

Kinds == {"load", "more", "add", "remove", "move", "rename", "freeze", "delete"}
Tasks == [kind : Kinds, phase : {"first", "rest", "write"}, rev : Nat, keep : Nat,
          value : Pages \cup {None}, book : Book \cup {End}, before : Book \cup {End}, name : Names]

\* An edit on its way is of the page on screen, and asks for what the page allowed.
AsksAsSeen(t, page) ==
    /\ t.kind \notin {"load", "more"} /\ page \in Pages /\ t.rev = page.rev
    /\ t.kind \in {"add", "remove", "move"} => ~page.dynamic /\ t.book \in Book
    /\ t.kind \in {"remove", "move"} => t.book \in ToSet(page.items)
    /\ t.kind = "move" => /\ t.before \in (ToSet(page.items) \ {t.book}) \cup {End}
                          /\ t.before = End => page.after = -1
Goes(t, page, ord, r, d, at) ==
    /\ t \in Tasks
    /\ t.phase = "write" => AsksAsSeen(t, page)
    /\ t.phase = "rest" => PageOK(t.value, ord, r, d, at) /\ t.value.after # -1

ScreenOK ==
    /\ {editing, actError} \subseteq BOOLEAN /\ draft \in Names
    /\ editing => coll # None
    /\ coll # None => PageOK(coll, orders, revision, dynamic, place)
TaskOK == task = None \/ Goes(task, coll, orders, revision, dynamic, place)
AckOK == acked \in 0 .. revision /\ OwnEditShown
CollectionInv == ServerOK /\ ScreenOK /\ TaskOK /\ AckOK

LEMMA KindsDiffer ==
    /\ \A p \in Pages : p # None
    /\ \A t \in Tasks : t # None /\ t.kind # "none" /\ t.kind \in Kinds
PROOF
  BY DEF Pages, Tasks, Kinds, None

LEMMA TaskIs ==
    ASSUME TaskOK, task.kind # "none"
    PROVE  Goes(task, coll, orders, revision, dynamic, place) /\ task \in Tasks
PROOF
  BY DEF TaskOK, None, Goes

\* The page and its task while only the collection changes.
LEMMA Waits ==
    ASSUME CollectionInv, ServerOK', Effect, UNCHANGED <<screen, task, actError, acked>>
    PROVE  CollectionInv'
PROOF
<1>1. coll' = coll /\ editing' = editing /\ draft' = draft /\ task' = task
      /\ actError' = actError /\ acked' = acked
  BY DEF screen
<1>2. ScreenOK'
  <2>1. coll # None => PageOK(coll, orders', revision', dynamic', place')
    BY PageStays DEF CollectionInv, ScreenOK
  <2> QED
    BY <1>1, <2>1 DEF CollectionInv, ScreenOK
<1>3. TaskOK'
  <2>1. task # None /\ task.phase = "rest" => PageOK(task.value, orders', revision', dynamic', place')
    BY PageStays DEF CollectionInv, TaskOK, Goes
  <2> QED
    BY <1>1, <2>1 DEF CollectionInv, TaskOK, Goes
<1>4. revision' \in Nat /\ revision \in Nat /\ revision <= revision'
  BY DEF CollectionInv, ServerOK, Effect, Same
<1>5. AckOK'
  BY <1>1, <1>4 DEF CollectionInv, AckOK, OwnEditShown, Shown
<1> QED
  BY <1>2, <1>3, <1>5 DEF CollectionInv

\* What fails leaves the page as it was, with an error.
LEMMA FailedKeeps ==
    ASSUME CollectionInv, ServerOK', Effect, Failed, UNCHANGED screen, acked' = acked
    PROVE  CollectionInv'
PROOF
<1>1. coll' = coll /\ editing' = editing /\ draft' = draft /\ task' = None /\ actError' = TRUE
  BY DEF screen, Failed
<1>2. ScreenOK'
  <2>1. coll # None => PageOK(coll, orders', revision', dynamic', place')
    BY PageStays DEF CollectionInv, ScreenOK
  <2> QED
    BY <1>1, <2>1 DEF CollectionInv, ScreenOK
<1>3. TaskOK'
  BY <1>1 DEF TaskOK
<1>4. revision' \in Nat /\ revision \in Nat /\ revision <= revision'
  BY DEF CollectionInv, ServerOK, Effect, Same
<1>5. AckOK'
  BY <1>1, <1>4 DEF CollectionInv, AckOK, OwnEditShown
<1> QED
  BY <1>2, <1>3, <1>5 DEF CollectionInv

LEMMA ServerStays ==
    ASSUME ServerOK, UNCHANGED server
    PROVE  ServerOK' /\ Effect
PROOF
<1>1. Same /\ matches' = matches /\ exists' = exists
  BY DEF server, Same
<1> QED
  BY <1>1, SameKeeps DEF ServerOK

\* A page that was just read is shown, or kept until there are more.
LEMMA KeepKeeps ==
    ASSUME NEW p, CollectionInv, PageOK(p, orders, revision, dynamic, place), p.rev = revision,
           UNCHANGED server, acked' = acked, task.kind # "none", Keep(p)
    PROVE  CollectionInv'
PROOF
<1>1. ServerOK' /\ orders' = orders /\ revision' = revision /\ dynamic' = dynamic /\ place' = place
  BY ServerStays DEF CollectionInv, server
<1>2. p \in Pages /\ p # None /\ p.name \in Names
  BY KindsDiffer DEF PageOK, Pages
<1>3. Goes(task, coll, orders, revision, dynamic, place) /\ task \in Tasks
  BY TaskIs DEF CollectionInv
<1>4. acked \in 0 .. revision /\ revision \in Nat
  BY DEF CollectionInv, AckOK, ServerOK
<1>5. CASE Len(p.items) < task.keep /\ p.after # -1
  <2>1. PICK t : t = [task EXCEPT !.phase = "rest", !.value = p]
    OBVIOUS
  <2>2. t \in Tasks
    BY <1>2, <1>3, <2>1 DEF Tasks
  <2>3. t.phase = "rest" /\ t.value = p
    BY <1>3, <2>1 DEF Tasks
  <2>4. task' = t /\ coll' = coll /\ editing' = editing /\ draft' = draft /\ actError' = actError
    BY <1>5, <2>1 DEF Keep, screen
  <2>5. TaskOK'
    BY <1>1, <1>5, <2>2, <2>3, <2>4 DEF TaskOK, Goes
  <2>6. ScreenOK'
    BY <1>1, <2>4 DEF CollectionInv, ScreenOK
  <2>7. AckOK'
    BY <1>1, <1>4, <2>2, <2>4, KindsDiffer DEF AckOK, OwnEditShown
  <2> QED
    BY <1>1, <2>5, <2>6, <2>7 DEF CollectionInv
<1>6. CASE ~(Len(p.items) < task.keep /\ p.after # -1)
  <2>1. coll' = p /\ task' = None /\ draft' \in {draft, p.name} /\ editing' = editing /\ actError' = actError
    BY <1>6 DEF Keep, Show
  <2>2. ScreenOK'
    BY <1>1, <1>2, <2>1 DEF CollectionInv, ScreenOK
  <2>3. AckOK'
    BY <1>1, <1>4, <2>1 DEF AckOK, OwnEditShown
  <2> QED
    BY <1>1, <2>1, <2>2, <2>3 DEF CollectionInv, TaskOK
<1> QED
  BY <1>5, <1>6

LEMMA LoadingKeeps == ASSUME CollectionInv, Loading PROVE CollectionInv'
PROOF
<1>1. CASE FirstPage
  <2>1. UNCHANGED server /\ acked' = acked /\ task.kind # "none"
    BY <1>1 DEF FirstPage
  <2>2. CASE exists
    <3>1. PICK p : p = Page(-1)
      OBVIOUS
    <3>2. PageOK(p, orders, revision, dynamic, place) /\ p.rev = revision
      BY <3>1, FirstPageIs DEF CollectionInv
    <3>3. Keep(p)
      BY <1>1, <2>2, <3>1 DEF FirstPage
    <3> QED
      BY <2>1, <3>2, <3>3, KeepKeeps
  <2>3. CASE ~exists
    BY <1>1, <2>1, <2>3, ServerStays, FailedKeeps DEF FirstPage, CollectionInv
  <2> QED
    BY <2>2, <2>3
<1>2. CASE FollowingPage
  <2>1. UNCHANGED server /\ acked' = acked /\ task.kind # "none" /\ task.phase = "rest"
    BY <1>2 DEF FollowingPage
  <2>2. CASE Continues(task.value)
    <3>1. PICK v : v = task.value
      OBVIOUS
    <3>2. PageOK(v, orders, revision, dynamic, place) /\ v.after # -1 /\ Continues(v)
      BY <2>1, <2>2, <3>1, TaskIs DEF CollectionInv, Goes
    <3>3. PICK p : p = [Page(v.after) EXCEPT !.items = v.items \o @]
      OBVIOUS
    <3>4. PageOK(p, orders, revision, dynamic, place) /\ p.rev = revision
      BY <3>2, <3>3, FollowingPageIs DEF CollectionInv
    <3>5. Keep(p)
      BY <1>2, <2>2, <3>1, <3>3 DEF FollowingPage
    <3> QED
      BY <2>1, <3>4, <3>5, KeepKeeps
  <2>3. CASE ~Continues(task.value)
    BY <1>2, <2>1, <2>3, ServerStays, FailedKeeps DEF FollowingPage, CollectionInv
  <2> QED
    BY <2>2, <2>3
<1> QED
  BY <1>1, <1>2 DEF Loading

-----------------------------------------------------------------------------
(* What the user does.                                                     *)

LEMMA UserKeeps ==
    ASSUME CollectionInv, UserActs
    PROVE  /\ ServerOK' /\ Effect /\ acked' = acked
           /\ orders' = orders /\ revision' = revision /\ dynamic' = dynamic /\ place' = place
PROOF
  BY ServerStays DEF CollectionInv, UserActs, server

LEMMA TaskKeeps ==
    ASSUME NEW o, CollectionInv, Goes(o, coll, orders, revision, dynamic, place), Task(o)
    PROVE  CollectionInv'
PROOF
<1>1. /\ ServerOK' /\ acked' = acked
      /\ orders' = orders /\ revision' = revision /\ dynamic' = dynamic /\ place' = place
  BY UserKeeps DEF Task
<1>2. task' = o /\ actError' = FALSE /\ coll' = coll /\ editing' = editing /\ draft' = draft
  BY DEF Task, screen
<1>3. o # None
  BY KindsDiffer DEF Goes
<1>4. ScreenOK' /\ TaskOK'
  BY <1>1, <1>2 DEF CollectionInv, ScreenOK, TaskOK
<1>5. AckOK'
  BY <1>1, <1>2, <1>3 DEF CollectionInv, AckOK, OwnEditShown
<1> QED
  BY <1>1, <1>4, <1>5 DEF CollectionInv

\* The task of an edit, field by field.
LEMMA EditIs ==
    ASSUME NEW kind \in Kinds, CollectionInv, Shown
    PROVE  /\ Edit(kind) = [kind |-> kind, phase |-> "write", rev |-> coll.rev,
                            keep |-> Len(coll.items), value |-> None, book |-> End,
                            before |-> End, name |-> draft]
           /\ Edit(kind) \in Tasks
           /\ coll \in Pages /\ PageOK(coll, orders, revision, dynamic, place)
           /\ coll.items \in Seq(Book) /\ Len(coll.items) \in Nat /\ coll.rev \in Nat
           /\ ToSet(coll.items) \subseteq Book
PROOF
<1>1. PageOK(coll, orders, revision, dynamic, place) /\ coll \in Pages
  BY DEF CollectionInv, ScreenOK, Shown, PageOK
<1>2. coll.items \in Seq(Book) /\ Len(coll.items) \in Nat /\ coll.rev \in Nat
  BY <1>1 DEF Pages
<1>3. ToSet(coll.items) \subseteq Book
  BY <1>2 DEF ToSet
<1>4. PICK e : e = Edit(kind)
  OBVIOUS
<1>5. e = [kind |-> kind, phase |-> "write", rev |-> coll.rev, keep |-> Len(coll.items),
           value |-> None, book |-> End, before |-> End, name |-> draft]
  BY <1>4 DEF Edit, Load
<1>6. e \in Tasks
  BY <1>2, <1>5 DEF Tasks, CollectionInv, ScreenOK
<1> QED
  BY <1>1, <1>2, <1>3, <1>4, <1>5, <1>6

LEMMA AddKeeps == ASSUME NEW b \in Book, CollectionInv, Add(b) PROVE CollectionInv'
PROOF
<1>1. PICK k \in Kinds : k = "add"
  BY DEF Kinds
<1>2. Shown /\ ~coll.dynamic
  BY DEF Add, Arranging
<1>3. PICK o : o = [Edit(k) EXCEPT !.book = b]
  OBVIOUS
<1>4. /\ o = [kind |-> k, phase |-> "write", rev |-> coll.rev, keep |-> Len(coll.items),
              value |-> None, book |-> b, before |-> End, name |-> draft]
      /\ o \in Tasks /\ coll \in Pages
  <2>1. PICK e : e = Edit(k) /\ e \in Tasks
    BY <1>2, EditIs
  <2>2. e = [kind |-> k, phase |-> "write", rev |-> coll.rev, keep |-> Len(coll.items),
             value |-> None, book |-> End, before |-> End, name |-> draft]
    BY <1>2, <2>1, EditIs
  <2>3. o = [e EXCEPT !.book = b]
    BY <1>3, <2>1
  <2>4. o \in Tasks
    BY <2>1, <2>3 DEF Tasks
  <2> QED
    BY <1>2, <2>2, <2>3, <2>4, EditIs
<1>5. Goes(o, coll, orders, revision, dynamic, place)
  BY <1>1, <1>2, <1>4 DEF Goes, AsksAsSeen
<1>6. Task(o)
  BY <1>1, <1>3 DEF Add
<1> QED
  BY <1>5, <1>6, TaskKeeps

LEMMA TakeOutKeeps == ASSUME NEW b \in Book, CollectionInv, TakeOut(b) PROVE CollectionInv'
PROOF
<1>1. PICK k \in Kinds : k = "remove"
  BY DEF Kinds
<1>2. Shown /\ ~coll.dynamic /\ b \in ToSet(coll.items)
  BY DEF TakeOut, Arranging
<1>3. PICK o : o = [Edit(k) EXCEPT !.book = b]
  OBVIOUS
<1>4. /\ o = [kind |-> k, phase |-> "write", rev |-> coll.rev, keep |-> Len(coll.items),
              value |-> None, book |-> b, before |-> End, name |-> draft]
      /\ o \in Tasks /\ coll \in Pages
  <2>1. PICK e : e = Edit(k) /\ e \in Tasks
    BY <1>2, EditIs
  <2>2. e = [kind |-> k, phase |-> "write", rev |-> coll.rev, keep |-> Len(coll.items),
             value |-> None, book |-> End, before |-> End, name |-> draft]
    BY <1>2, <2>1, EditIs
  <2>3. o = [e EXCEPT !.book = b]
    BY <1>3, <2>1
  <2>4. o \in Tasks
    BY <2>1, <2>3 DEF Tasks
  <2> QED
    BY <1>2, <2>2, <2>3, <2>4, EditIs
<1>5. Goes(o, coll, orders, revision, dynamic, place)
  BY <1>1, <1>2, <1>4 DEF Goes, AsksAsSeen
<1>6. Task(o)
  BY <1>1, <1>3 DEF TakeOut
<1> QED
  BY <1>5, <1>6, TaskKeeps

LEMMA MoveKeeps ==
    ASSUME NEW b \in Book, NEW before \in {End} \cup Book, CollectionInv, Move(b, before)
    PROVE  CollectionInv'
PROOF
<1>1. PICK k \in Kinds : k = "move"
  BY DEF Kinds
<1>2. /\ Shown /\ ~coll.dynamic /\ b \in ToSet(coll.items)
      /\ before \in (ToSet(coll.items) \ {b}) \cup {End} /\ (before = End => coll.after = -1)
  BY DEF Move, Arranging
<1>3. PICK o : o = [Edit(k) EXCEPT !.book = b, !.before = before]
  OBVIOUS
<1>4. /\ o = [kind |-> k, phase |-> "write", rev |-> coll.rev, keep |-> Len(coll.items),
              value |-> None, book |-> b, before |-> before, name |-> draft]
      /\ o \in Tasks /\ coll \in Pages
  <2>1. PICK e : e = Edit(k) /\ e \in Tasks
    BY <1>2, EditIs
  <2>2. e = [kind |-> k, phase |-> "write", rev |-> coll.rev, keep |-> Len(coll.items),
             value |-> None, book |-> End, before |-> End, name |-> draft]
    BY <1>2, <2>1, EditIs
  <2>3. o = [e EXCEPT !.book = b, !.before = before]
    BY <1>3, <2>1
  <2>4. o \in Tasks
    BY <2>1, <2>3 DEF Tasks
  <2> QED
    BY <1>2, <2>2, <2>3, <2>4, EditIs
<1>5. Goes(o, coll, orders, revision, dynamic, place)
  BY <1>1, <1>2, <1>4 DEF Goes, AsksAsSeen
<1>6. Task(o)
  BY <1>1, <1>3 DEF Move
<1> QED
  BY <1>5, <1>6, TaskKeeps

LEMMA MoreKeeps == ASSUME CollectionInv, More PROVE CollectionInv'
PROOF
<1>1. PICK k \in Kinds : k = "more"
  BY DEF Kinds
<1>2. Shown /\ coll.after # -1
  BY DEF More
<1>3. PICK e : e = Edit(k) /\ e \in Tasks
  BY <1>2, EditIs
<1>4. PICK c : c = coll /\ c \in Pages /\ PageOK(c, orders, revision, dynamic, place)
  BY <1>2, EditIs
<1>5. PICK o : o = [e EXCEPT !.phase = "rest", !.value = c, !.keep = @ + 1]
  OBVIOUS
<1>6. o \in Tasks /\ o.phase = "rest" /\ o.value = c
  <2>1. e.keep \in Nat /\ e.keep + 1 \in Nat
    BY <1>3 DEF Tasks
  <2>2. o = [kind |-> e.kind, phase |-> "rest", rev |-> e.rev, keep |-> e.keep + 1, value |-> c,
             book |-> e.book, before |-> e.before, name |-> e.name]
    BY <1>3, <1>5 DEF Tasks
  <2> QED
    BY <1>3, <1>4, <2>1, <2>2 DEF Tasks
<1>7. Goes(o, coll, orders, revision, dynamic, place)
  BY <1>2, <1>4, <1>6 DEF Goes
<1>8. Task(o)
  BY <1>1, <1>3, <1>4, <1>5 DEF More
<1> QED
  BY <1>7, <1>8, TaskKeeps

\* The edits of the whole collection.
LEMMA PlainKeeps ==
    ASSUME NEW k \in {"rename", "freeze", "delete"}, CollectionInv, Shown, Task(Edit(k))
    PROVE  CollectionInv'
PROOF
<1>1. k \in Kinds
  BY DEF Kinds
<1>2. PICK o : o = Edit(k)
  OBVIOUS
<1>3. /\ o = [kind |-> k, phase |-> "write", rev |-> coll.rev, keep |-> Len(coll.items),
              value |-> None, book |-> End, before |-> End, name |-> draft]
      /\ o \in Tasks /\ coll \in Pages
  BY <1>1, <1>2, EditIs
<1>4. Goes(o, coll, orders, revision, dynamic, place)
  BY <1>3 DEF Goes, AsksAsSeen
<1> QED
  BY <1>2, <1>4, TaskKeeps

\* The name, while it is typed.
LEMMA NameKeeps ==
    ASSUME CollectionInv, UserActs, coll # None, UNCHANGED <<coll, task, actError>>,
           editing' \in BOOLEAN, draft' \in Names
    PROVE  CollectionInv'
PROOF
<1>1. /\ ServerOK' /\ acked' = acked
      /\ orders' = orders /\ revision' = revision /\ dynamic' = dynamic /\ place' = place
  BY UserKeeps
<1>2. coll' = coll /\ task' = task /\ actError' = actError
  OBVIOUS
<1>3. ScreenOK'
  BY <1>1, <1>2 DEF CollectionInv, ScreenOK
<1>4. TaskOK' /\ AckOK'
  BY <1>1, <1>2 DEF CollectionInv, TaskOK, AckOK, OwnEditShown, Shown
<1> QED
  BY <1>1, <1>3, <1>4 DEF CollectionInv

LEMMA ReopenKeeps == ASSUME CollectionInv, Reopen PROVE CollectionInv'
PROOF
<1>1. ServerOK' /\ acked' = acked /\ revision' = revision
  BY UserKeeps DEF Reopen
<1>2. coll' = None /\ editing' = FALSE /\ actError' = FALSE /\ draft' = draft
  BY DEF Reopen
<1>3. PICK t : t = Load
  OBVIOUS
<1>4. task' = t
  BY <1>3 DEF Reopen, Load
<1>5. t \in Tasks /\ t.phase = "first"
  <2>1. draft \in Names
    BY DEF CollectionInv, ScreenOK
  <2> QED
    BY <1>3, <2>1 DEF Load, Tasks, Kinds
<1>6. ScreenOK'
  BY <1>2 DEF CollectionInv, ScreenOK
<1>7. TaskOK'
  BY <1>4, <1>5 DEF TaskOK, Goes
<1>8. AckOK'
  BY <1>1, <1>2 DEF CollectionInv, AckOK, OwnEditShown, Shown
<1> QED
  BY <1>1, <1>6, <1>7, <1>8 DEF CollectionInv

-----------------------------------------------------------------------------
(* An edit that arrives.                                                   *)

\* What an operation on its way may do, and what it makes of a static collection.
LEMMA EditedDoes ==
    ASSUME NEW o, CollectionInv, Goes(o, coll, orders, revision, dynamic, place),
           o.phase = "write", Edited(o)
    PROVE  /\ ServerOK' /\ Effect /\ o.rev = revision
           /\ o.kind \in {"add", "remove", "move"} => ~dynamic
           /\ o.kind = "add" => Order' = IF o.book \in ToSet(Order) THEN Order ELSE Append(Order, o.book)
           /\ o.kind = "remove" => Order' = Minus(Order, o.book)
           /\ o.kind = "move" => Order' = Insert(Order, o.book, o.before)
PROOF
<1>1. ServerOK /\ AsksAsSeen(o, coll) /\ o \in Tasks /\ o.rev = revision
  BY DEF CollectionInv, Goes, Edited, Current
<1>2. EditKept
  BY <1>1 DEF Edited, EditKept, ServerOK
<1>3. PICK b, before, called : b = o.book /\ before = o.before /\ called = o.name
  OBVIOUS
<1>4. before \in Book \cup {End} /\ called \in Names
  BY <1>1, <1>3 DEF Tasks
<1>5. o.kind \in {"add", "remove", "move"} => b \in Book
  BY <1>1, <1>3 DEF AsksAsSeen
<1>6. CASE o.kind = "delete" /\ Same
  BY <1>1, <1>2, <1>6, SameKeeps DEF EditKept, ServerOK
<1>7. CASE ~dynamic /\ o.kind = "add" /\ Added(o.book)
  BY <1>1, <1>2, <1>3, <1>5, <1>7, AddedDoes
<1>8. CASE ~dynamic /\ o.kind = "remove" /\ Removed(o.book)
  BY <1>1, <1>2, <1>3, <1>5, <1>8, RemovedDoes
<1>9. CASE ~dynamic /\ o.kind = "move" /\ Moved(o.book, o.before)
  <2>1. b # before
    BY <1>1, <1>3, <1>5, <1>9 DEF AsksAsSeen, End, Book
  <2>2. Moved(b, before) /\ b \in Book
    BY <1>3, <1>5, <1>9
  <2>3. ServerOK' /\ Effect /\ Order' = Insert(Order, b, before)
    BY <1>1, <1>2, <1>4, <1>9, <2>1, <2>2, MovedDoes
  <2> QED
    BY <1>1, <1>3, <1>9, <2>3
<1>10. CASE o.kind = "rename" /\ Renamed(o.name)
  BY <1>1, <1>2, <1>3, <1>4, <1>10, RenamedDoes
<1>11. CASE o.kind = "freeze" /\ Frozen
  BY <1>1, <1>2, <1>11, FrozenDoes
<1> QED
  BY <1>6, <1>7, <1>8, <1>9, <1>10, <1>11 DEF Edited

LEMMA WrittenKeeps == ASSUME CollectionInv, Written PROVE CollectionInv'
PROOF
<1>1. task.kind # "none" /\ task.phase = "write" /\ Edited(task)
  BY DEF Written
<1>2. Goes(task, coll, orders, revision, dynamic, place) /\ task \in Tasks
  BY <1>1, TaskIs DEF CollectionInv
<1>3. ServerOK' /\ Effect
  BY <1>1, <1>2, EditedDoes
<1>4. draft' = draft /\ actError' = actError /\ editing' \in BOOLEAN
      /\ (editing' => editing /\ task.kind # "delete")
  BY DEF Written
<1>5. revision \in Nat /\ revision' \in Nat /\ revision <= revision'
  BY <1>3 DEF CollectionInv, ServerOK, Effect, Same
<1>6. acked' \in 0 .. revision' /\ (task.kind = "delete" => acked' = acked)
  BY <1>5 DEF Written, CollectionInv, AckOK
<1>7. CASE task.kind = "delete"
  <2>1. coll' = None /\ task' = None
    BY <1>7 DEF Written
  <2> QED
    BY <1>3, <1>4, <1>6, <1>7, <2>1
    DEF CollectionInv, ScreenOK, TaskOK, AckOK, OwnEditShown, Shown
<1>8. CASE task.kind # "delete"
  <2>1. PICK t : t = [task EXCEPT !.phase = "first"]
    OBVIOUS
  <2>2. t \in Tasks /\ t.phase = "first"
    BY <1>2, <2>1 DEF Tasks
  <2>3. task' = t /\ coll' = coll
    BY <1>8, <2>1 DEF Written
  <2>4. coll # None => PageOK(coll, orders', revision', dynamic', place')
    BY <1>3, PageStays DEF CollectionInv, ScreenOK
  <2>5. ScreenOK'
    BY <1>4, <2>3, <2>4 DEF CollectionInv, ScreenOK
  <2>6. TaskOK'
    BY <2>2, <2>3 DEF TaskOK, Goes
  <2>7. AckOK'
    BY <1>6, <2>2, <2>3, KindsDiffer DEF AckOK, OwnEditShown
  <2> QED
    BY <1>3, <2>5, <2>6, <2>7 DEF CollectionInv
<1> QED
  BY <1>7, <1>8

LEMMA FaultKeeps == ASSUME CollectionInv, Fault PROVE CollectionInv'
PROOF
<1>1. Failed /\ UNCHANGED screen /\ acked' = acked /\ task.kind # "none"
  BY DEF Fault
<1>2. CASE UNCHANGED server
  BY <1>1, <1>2, ServerStays, FailedKeeps DEF CollectionInv
<1>3. CASE task.phase = "write" /\ Edited(task)
  BY <1>1, <1>3, TaskIs, EditedDoes, FailedKeeps DEF CollectionInv
<1> QED
  BY <1>2, <1>3 DEF Fault

LEMMA ActingKeeps == ASSUME CollectionInv, Acting PROVE CollectionInv'
PROOF
<1>1. ASSUME NEW b \in Book, Add(b) PROVE CollectionInv'
  BY <1>1, AddKeeps
<1>2. ASSUME NEW b \in Book, TakeOut(b) PROVE CollectionInv'
  BY <1>2, TakeOutKeeps
<1>3. ASSUME NEW b \in Book, NEW before \in {End} \cup Book, Move(b, before) PROVE CollectionInv'
  BY <1>3, MoveKeeps
<1>4. CASE Freeze
  <2>1. PICK k \in {"rename", "freeze", "delete"} : k = "freeze"
    OBVIOUS
  <2> QED
    BY <1>4, <2>1, PlainKeeps DEF Freeze
<1>5. CASE Delete
  <2>1. PICK k \in {"rename", "freeze", "delete"} : k = "delete"
    OBVIOUS
  <2> QED
    BY <1>5, <2>1, PlainKeeps DEF Delete
<1>6. CASE More
  BY <1>6, MoreKeeps
<1>7. CASE Rename
  <2>1. editing /\ coll # None
    BY <1>7 DEF Rename, CollectionInv, ScreenOK
  <2>2. CASE draft = coll.name
    BY <1>7, <2>1, <2>2, NameKeeps DEF Rename, CollectionInv, ScreenOK
  <2>3. CASE draft # coll.name
    <3>1. PICK k \in {"rename", "freeze", "delete"} : k = "rename"
      OBVIOUS
    <3> QED
      BY <1>7, <2>1, <2>3, <3>1, PlainKeeps DEF Rename, Shown
  <2> QED
    BY <2>2, <2>3
<1>8. CASE CancelName
  <2>1. coll # None /\ coll \in Pages
    BY <1>8 DEF CancelName, CollectionInv, ScreenOK, PageOK
  <2>2. coll.name \in Names
    BY <2>1 DEF Pages
  <2> QED
    BY <1>8, <2>1, <2>2, NameKeeps DEF CancelName
<1>9. ASSUME NEW called \in Names, TypeName(called) PROVE CollectionInv'
  BY <1>9, NameKeeps DEF TypeName, Shown
<1>10. CASE Written
  BY <1>10, WrittenKeeps
<1>11. CASE Refused
  BY <1>11, ServerStays, FailedKeeps DEF Refused, CollectionInv
<1>12. CASE Reopen
  BY <1>12, ReopenKeeps
<1> QED
  BY <1>1, <1>2, <1>3, <1>4, <1>5, <1>6, <1>7, <1>8, <1>9, <1>10, <1>11, <1>12 DEF Acting

-----------------------------------------------------------------------------
(* What others do.                                                         *)

LEMMA OthersKeepCollection == ASSUME CollectionInv, Others PROVE CollectionInv'
PROOF
<1>1. UNCHANGED <<screen, task, actError, acked>> /\ ServerOK
  BY DEF Others, OtherEdits, OtherDeletes, OtherRemovesBook, OtherRestoresBook, RuleMatches, Other,
         CollectionInv
<1>2. SUFFICES ServerOK' /\ Effect
  BY <1>1, Waits
<1>3. CASE OtherEdits
  <2>1. EditKept
    BY <1>1, <1>3 DEF OtherEdits, EditKept, ServerOK
  <2>2. ASSUME NEW b \in Book, ~dynamic, Added(b) PROVE ServerOK' /\ Effect
    BY <1>1, <2>1, <2>2, AddedDoes
  <2>3. ASSUME NEW b \in Book, ~dynamic, Removed(b) PROVE ServerOK' /\ Effect
    BY <1>1, <2>1, <2>3, RemovedDoes
  <2>4. ASSUME NEW b \in Book, NEW before \in {End} \cup Book, b # before, ~dynamic, Moved(b, before)
        PROVE ServerOK' /\ Effect
    <3>1. before \in Book \cup {End}
      OBVIOUS
    <3> QED
      BY <1>1, <2>1, <2>4, <3>1, MovedDoes
  <2>5. ASSUME NEW called \in Names, Renamed(called) PROVE ServerOK' /\ Effect
    BY <1>1, <2>1, <2>5, RenamedDoes
  <2>6. CASE Frozen
    BY <1>1, <2>1, <2>6, FrozenDoes
  <2> QED
    BY <1>3, <2>2, <2>3, <2>4, <2>5, <2>6 DEF OtherEdits
<1>4. ASSUME NEW b \in Book, OtherRemovesBook(b) PROVE ServerOK' /\ Effect
  <2>1. EditKept /\ ~dynamic /\ place[b] >= 0
    BY <1>1, <1>4 DEF OtherRemovesBook, EditKept, ServerOK
  <2>2. b \in ToSet(Order) /\ Distinct(Order, Book)
    BY <1>1, <2>1, StaticOrder
  <2>3. PICK s : s = Minus(Order, b) /\ Distinct(s, Book)
    BY <2>2, MinusOnce
  <2>4. Becomes(Indexed(Book, s), FALSE, name)
    BY <1>4, <2>3 DEF OtherRemovesBook
  <2> QED
    BY <1>1, <2>1, <2>3, <2>4, IndexedDoes
<1>5. ASSUME NEW b \in Book, RuleMatches(b) PROVE ServerOK' /\ Effect
  <2>1. Same /\ matches' \subseteq Book /\ exists' \in BOOLEAN
    BY <1>1, <1>5 DEF RuleMatches, ServerOK
  <2> QED
    BY <1>1, <2>1, SameKeeps
<1>6. CASE OtherDeletes
  <2>1. Same /\ matches' \subseteq Book /\ exists' \in BOOLEAN
    BY <1>1, <1>6 DEF OtherDeletes, ServerOK
  <2> QED
    BY <1>1, <2>1, SameKeeps
<1>7. ASSUME NEW b \in Book, OtherRestoresBook(b) PROVE ServerOK' /\ Effect
  <2>1. EditKept /\ ~dynamic /\ ~(place[b] >= 0)
    BY <1>1, <1>7 DEF OtherRestoresBook, EditKept, ServerOK, PositionsOf
  <2>2. b \notin ToSet(Order) /\ Distinct(Order, Book)
    BY <1>1, <2>1, StaticOrder
  <2>3. PICK at \in 1 .. Len(Order) + 1 : Becomes(Indexed(Book, InsertAt(Order, at, b)), FALSE, name)
    BY <1>7 DEF OtherRestoresBook
  <2>4. PICK s : s = InsertAt(Order, at, b) /\ Distinct(s, Book)
    BY <2>2, <2>3, PutBack
  <2> QED
    BY <1>1, <2>1, <2>3, <2>4, IndexedDoes
<1> QED
  BY <1>3, <1>4, <1>5, <1>6, <1>7 DEF Others

-----------------------------------------------------------------------------
(* The theorems.                                                           *)

LEMMA CollectionStarts == CollectionInit => CollectionInv
PROOF
<1> SUFFICES ASSUME CollectionInit PROVE CollectionInv
  OBVIOUS
<1>1. Books \in Nat
  BY CollectionsAssumption
<1>2. PICK s : s = [i \in 1 .. Books |-> i]
  OBVIOUS
<1>3. Distinct(s, Book)
  BY <1>1, <1>2 DEF Distinct, Book
<1>4. place \in PositionsOf(Book) /\ Orders(s, place)
  BY <1>2, <1>3, IndexedLists DEF CollectionInit
<1>5. NoTies(place)
  BY <1>4, ListedOnce
<1>6. PICK p : p = Positions
  OBVIOUS
<1>7. dynamic \in BOOLEAN /\ matches \subseteq Book
  BY DEF CollectionInit
<1>8. p \in PositionsOf(Book) /\ NoTies(p)
  BY <1>4, <1>5, <1>6, <1>7, PositionsClear DEF Positions
<1>9. Order \in Seq(Book)
  BY <1>6, <1>8, RankedLists, BooksFinite DEF Order, Orders, PositionsOf
<1>10. ServerOK
  <2>1. revision = 1 /\ orders = [r \in {1} |-> Order] /\ 1 .. 1 = {1}
    BY DEF CollectionInit
  <2>2. orders \in [1 .. revision -> Seq(Book)] /\ orders[revision] = Order
    BY <1>9, <2>1
  <2> QED
    BY <1>4, <1>5, <1>7, <2>1, <2>2 DEF CollectionInit, ServerOK
<1>11. ScreenOK
  BY DEF CollectionInit, ScreenOK
<1>12. TaskOK
  <2>1. PICK t : t = Load
    OBVIOUS
  <2>2. draft \in Names /\ task = t
    BY <2>1 DEF CollectionInit
  <2>3. t \in Tasks /\ t.phase = "first"
    BY <2>1, <2>2 DEF Load, Tasks, Kinds
  <2> QED
    BY <2>2, <2>3 DEF TaskOK, Goes
<1>13. AckOK
  BY DEF CollectionInit, AckOK, OwnEditShown, Shown
<1> QED
  BY <1>10, <1>11, <1>12, <1>13 DEF CollectionInv

LEMMA CollectionInductive == CollectionInv /\ [CollectionNext]_collectionVars => CollectionInv'
PROOF
<1> SUFFICES ASSUME CollectionInv, [CollectionNext]_collectionVars PROVE CollectionInv'
  OBVIOUS
<1>1. CASE Loading
  BY <1>1, LoadingKeeps
<1>2. CASE Acting
  BY <1>2, ActingKeeps
<1>3. CASE Fault
  BY <1>3, FaultKeeps
<1>4. CASE Others
  BY <1>4, OthersKeepCollection
<1>5. CASE UNCHANGED collectionVars
  <2>1. ServerOK' /\ Effect
    BY <1>5, ServerStays DEF collectionVars, CollectionInv
  <2> QED
    BY <1>5, <2>1, Waits DEF collectionVars
<1> QED
  BY <1>1, <1>2, <1>3, <1>4, <1>5 DEF CollectionNext

LEMMA CollectionFollows == CollectionInv => ListIsSound
PROOF
<1> SUFFICES ASSUME CollectionInv PROVE ListIsSound
  OBVIOUS
<1>1. ServerOK /\ ScreenOK /\ TaskOK /\ AckOK
  BY DEF CollectionInv
<1>2. coll # None => coll \in Pages /\ coll.items \in Seq(Book) /\ coll.rev \in 1 .. revision
  BY <1>1 DEF ScreenOK, PageOK, Pages
<1>3. task.kind \in {"none", "load", "more", "add", "remove", "move", "rename", "freeze", "delete"}
      /\ (task.kind # "none" => task.phase \in {"write", "first", "rest"})
  BY <1>1 DEF TaskOK, Goes, Tasks, Kinds, None
<1>4. CollectionTypeOK
  <2>1. coll # None => ToSet(coll.items) \subseteq Book
    BY <1>2 DEF ToSet
  <2>2. revision \in DOMAIN orders /\ place \in [Book -> Nat \cup {-1}] /\ matches \subseteq Book
        /\ {dynamic, exists, editing, actError} \subseteq BOOLEAN /\ {name, draft} \subseteq Names
    BY <1>1 DEF ServerOK, ScreenOK, PositionsOf
  <2> QED
    BY <1>2, <1>3, <2>1, <2>2 DEF CollectionTypeOK, Shown
<1>5. NoClash
  BY <1>1 DEF ServerOK, NoTies, NoClash, PositionsOf
<1>6. OneSnapshot
  <2> SUFFICES ASSUME coll # None
               PROVE  /\ IsPrefix(coll.items, Whole(coll, orders))
                      /\ coll.after = -1 => coll.items = Whole(coll, orders)
    BY DEF OneSnapshot, Shown, Whole
  <2>1. PageOK(coll, orders, revision, dynamic, place)
    BY <1>1 DEF ScreenOK
  <2>2. PICK s, w : s = coll.items /\ w = Whole(coll, orders)
    OBVIOUS
  <2>3. s \in Seq(Book) /\ w \in Seq(Book)
    BY <1>1, <1>2, <2>2 DEF Whole, Pages, ServerOK
  <2>4. IsPrefix(s, w)
    BY <2>1, <2>2, <2>3, LeadsIs DEF PageOK
  <2> QED
    BY <2>1, <2>2, <2>4 DEF PageOK
<1>7. OwnEditShown
  BY <1>1 DEF AckOK
<1> QED
  BY <1>4, <1>5, <1>6, <1>7 DEF ListIsSound

\* The list is sound whatever the number of books, the size of a page and the edits:
\* no two books share a position (collections.py, _move()), what is on screen was the
\* collection at one moment, and the user's own edits are in it (Collections.tsx).
THEOREM ListIsSoundTheorem == CollectionSpec => []ListIsSound
PROOF
<1>1. CollectionInit => CollectionInv
  BY CollectionStarts
<1>2. CollectionInv /\ [CollectionNext]_collectionVars => CollectionInv'
  BY CollectionInductive
<1>3. CollectionInv => ListIsSound
  BY CollectionFollows
<1> QED
  BY <1>1, <1>2, <1>3, PTL DEF CollectionSpec

\* What is done to the list on screen is done to the beginning of the list.
LEMMA EditIsAsSeen ==
    ASSUME CollectionInv, Written, task.kind \in {"add", "remove", "move"}
    PROVE  /\ IsPrefix(Wanted, Order')
           /\ ToSet(Order') = IF task.kind = "remove" THEN ToSet(Order) \ {task.book}
                              ELSE ToSet(Order) \cup {task.book}
           /\ task.kind = "add" /\ task.book \notin ToSet(Order) => Last(Order') = task.book
PROOF
<1>1. task.kind # "none" /\ task.phase = "write" /\ Edited(task)
  BY DEF Written
<1>2. Goes(task, coll, orders, revision, dynamic, place) /\ AsksAsSeen(task, coll)
  BY <1>1, TaskIs DEF CollectionInv, Goes
<1>3. /\ task.rev = revision /\ ~dynamic
      /\ task.kind = "add" => Order' = IF task.book \in ToSet(Order) THEN Order
                                       ELSE Append(Order, task.book)
      /\ task.kind = "remove" => Order' = Minus(Order, task.book)
      /\ task.kind = "move" => Order' = Insert(Order, task.book, task.before)
  BY <1>1, <1>2, EditedDoes
<1>4. coll \in Pages /\ coll.rev = revision /\ ~coll.dynamic
  BY <1>2, <1>3 DEF AsksAsSeen
<1>5. PageOK(coll, orders, revision, dynamic, place)
  BY <1>4, KindsDiffer DEF CollectionInv, ScreenOK
<1>6. PICK t, s, b : t = Order /\ s = coll.items /\ b = task.book
  OBVIOUS
<1>7. Distinct(t, Book) /\ t \in Seq(Book)
  BY <1>3, <1>6, StaticOrder DEF CollectionInv, Distinct
<1>8. Whole(coll, orders) = t
  BY <1>3, <1>4, <1>6 DEF Whole, CollectionInv, ServerOK
<1>9. Leads(s, t) /\ (coll.after = -1 => s = t)
  BY <1>5, <1>6, <1>8 DEF PageOK
<1>10. Distinct(s, Book)
  <2>1. s \in Seq(Book) /\ Len(s) \in Nat /\ Len(t) \in Nat
    BY <1>4, <1>6, <1>7 DEF Pages
  <2>2. \A i \in 1 .. Len(s) : i \in 1 .. Len(t) /\ s[i] = t[i]
    BY <1>9, <2>1 DEF Leads
  <2> QED
    BY <1>7, <2>1, <2>2 DEF Distinct
<1>11. b \in Book /\ (task.kind \in {"remove", "move"} => b \in ToSet(s))
  BY <1>2, <1>6 DEF AsksAsSeen
<1>12. CASE task.kind = "add"
  <2>1. Wanted = s
    BY <1>6, <1>12 DEF Wanted
  <2>2. CASE b \in ToSet(t)
    <3>1. Order' = t
      BY <1>3, <1>6, <1>12, <2>2
    <3>2. IsPrefix(s, t)
      BY <1>7, <1>9, <1>10, LeadsIs DEF Distinct
    <3> QED
      BY <1>6, <1>12, <2>1, <2>2, <3>1, <3>2
  <2>3. CASE b \notin ToSet(t)
    <3>1. PICK w : w = Append(t, b)
      OBVIOUS
    <3>2. Order' = w
      BY <1>3, <1>6, <1>12, <2>3, <3>1
    <3>3. Len(t) \in Nat /\ Len(s) \in Nat
      BY <1>7, <1>10 DEF Distinct
    <3>4. /\ w \in Seq(Book) /\ Len(w) = Len(t) + 1 /\ w[Len(t) + 1] = b
          /\ \A i \in 1 .. Len(t) : w[i] = t[i]
      BY <1>7, <1>11, <3>1
    <3>5. Leads(s, w)
      BY <1>9, <3>3, <3>4 DEF Leads
    <3>6. IsPrefix(s, w)
      BY <1>10, <3>4, <3>5, LeadsIs DEF Distinct
    <3>7. ToSet(w) = ToSet(t) \cup {b}
      <4>1. DOMAIN w = 1 .. Len(t) + 1 /\ DOMAIN t = 1 .. Len(t)
        BY <1>7, <3>4
      <4>2. 1 .. Len(t) + 1 = (1 .. Len(t)) \cup {Len(t) + 1}
        BY <3>3
      <4> QED
        BY <3>4, <4>1, <4>2 DEF ToSet
    <3>8. Last(w) = b
      BY <3>4 DEF Last
    <3> QED
      BY <1>6, <1>12, <2>1, <3>2, <3>6, <3>7, <3>8
  <2> QED
    BY <2>2, <2>3
<1>13. CASE task.kind = "remove"
  <2>1. PICK v, w : v = Minus(s, b) /\ w = Minus(t, b)
    OBVIOUS
  <2>2. Wanted = v /\ Order' = w
    BY <1>3, <1>6, <1>13, <2>1 DEF Wanted
  <2>3. b \in ToSet(t)
    BY <1>7, <1>9, <1>10, <1>11, <1>13, SamePlace
  <2>4. Distinct(v, Book) /\ Distinct(w, Book) /\ ToSet(w) = ToSet(t) \ {b}
    BY <1>7, <1>10, <1>11, <1>13, <2>1, <2>3, MinusOnce
  <2>5. Leads(v, w)
    BY <1>7, <1>9, <1>10, <1>11, <1>13, <2>1, MinusLeads
  <2>6. IsPrefix(v, w)
    BY <2>4, <2>5, LeadsIs DEF Distinct
  <2> QED
    BY <1>6, <1>13, <2>2, <2>4, <2>6
<1>14. CASE task.kind = "move"
  <2>1. PICK before : before = task.before
    OBVIOUS
  <2>2. before \in (ToSet(s) \ {b}) \cup {End} /\ (before = End => s = t)
    BY <1>2, <1>6, <1>9, <1>14, <2>1 DEF AsksAsSeen
  <2>3. PICK v, w : v = Insert(s, b, before) /\ w = Insert(t, b, before)
    OBVIOUS
  <2>4. Wanted = v /\ Order' = w
    BY <1>3, <1>6, <1>14, <2>1, <2>3 DEF Wanted
  <2>5. b \in ToSet(t) /\ before \in (ToSet(t) \ {b}) \cup {End}
    BY <1>7, <1>9, <1>10, <1>11, <1>14, <2>2, SamePlace
  <2>6. Distinct(v, Book) /\ Distinct(w, Book) /\ ToSet(w) = ToSet(t)
    BY <1>7, <1>10, <1>11, <1>14, <2>2, <2>3, <2>5, InsertOnce
  <2>7. Leads(v, w)
    BY <1>7, <1>9, <1>10, <1>11, <1>14, <2>2, <2>3, InsertLeads
  <2>8. IsPrefix(v, w)
    BY <2>6, <2>7, LeadsIs DEF Distinct
  <2> QED
    BY <1>6, <1>14, <2>4, <2>5, <2>6, <2>8
<1> QED
  BY <1>12, <1>13, <1>14

\* Only a written edit of the list goes from its write to the load after it.
LEMMA OnlyWritten ==
    ASSUME CollectionInv, CollectionNext, TakesEffect
    PROVE  Written
PROOF
<1>1. task.kind # "none" /\ task.phase = "write" /\ task # None
      /\ task'.kind # "none" /\ task'.phase = "first"
      /\ task.kind \notin {"load", "more"}
  BY DEF TakesEffect, None
<1>2. ~(task' = task)
  BY <1>1
<1>3. ~(task' = None)
  BY <1>1 DEF None
<1>4. ~Loading
  BY <1>1 DEF Loading, FirstPage, FollowingPage
<1>5. ~Fault /\ ~Refused
  BY <1>3 DEF Fault, Refused, Failed
<1>6. ~Others
  BY <1>2 DEF Others, OtherEdits, OtherDeletes, OtherRemovesBook, OtherRestoresBook, RuleMatches, Other
<1>7. ~Reopen
  BY <1>1 DEF Reopen
<1>8. \A o : ~Task(o)
  BY <1>1 DEF Task
<1>9. ~(UNCHANGED <<coll, task, actError>>)
  BY <1>2
<1>10. ~CancelName /\ \A called \in Names : ~TypeName(called)
  BY <1>2 DEF CancelName, TypeName
<1>11. ~Rename
  BY <1>2, <1>8 DEF Rename
<1>12. ~Freeze /\ ~Delete /\ ~More
  BY <1>8 DEF Freeze, Delete, More
<1>13. \A b \in Book : ~Add(b) /\ ~TakeOut(b) /\ \A before \in {End} \cup Book : ~Move(b, before)
  BY <1>8 DEF Add, TakeOut, Move
<1> QED
  BY <1>4, <1>5, <1>6, <1>7, <1>10, <1>11, <1>12, <1>13 DEF CollectionNext, Acting

\* An add, a removal or a move that takes effect makes of the list what the user saw and
\* asked for, of any length and with any edits by others before it (edit_item(), _move()).
THEOREM EditsAsSeenTheorem == CollectionSpec => EditsAsSeen
PROOF
<1> DEFINE Done ==
      TakesEffect =>
         /\ IsPrefix(Wanted, Order')
         /\ ToSet(Order') = IF task.kind = "remove" THEN ToSet(Order) \ {task.book}
                            ELSE ToSet(Order) \cup {task.book}
         /\ task.kind = "add" /\ task.book \notin ToSet(Order) => Last(Order') = task.book
<1>1. CollectionInit => CollectionInv
  BY CollectionStarts
<1>2. CollectionInv /\ [CollectionNext]_collectionVars => CollectionInv'
  BY CollectionInductive
<1>3. CollectionInv /\ [CollectionNext]_collectionVars => [Done]_collectionVars
  <2> SUFFICES ASSUME CollectionInv, CollectionNext, TakesEffect PROVE Done
    OBVIOUS
  <2>1. Written /\ task.kind \in {"add", "remove", "move"}
    BY OnlyWritten DEF TakesEffect
  <2> QED
    BY <2>1, EditIsAsSeen
<1> QED
  BY <1>1, <1>2, <1>3, PTL DEF CollectionSpec, EditsAsSeen
=============================================================================
