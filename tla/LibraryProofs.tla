---------------------------- MODULE LibraryProofs ---------------------------
(***************************************************************************)
(* Theorems about Ingest and Removal: how archives and books get into the  *)
(* library, and how they leave it.  Of Ingest for every number of imports, *)
(* every set of contents, paths and processes, and any number of changes   *)
(* by the user; of Removal for any number of contents, size of a batch,    *)
(* and number of steps, changes and failures.                              *)
(***************************************************************************)
EXTENDS Ingest, Removal, OrderingProofs, TLAPS

-----------------------------------------------------------------------------
(* The inductive invariant.                                                *)

\* Only the holder of the operation lock is at work.
Exclusive == \A a \in Actors : op[a].pc # "idle" => holder = a

\* What Validated recorded of an import is there for whoever publishes it.
JobOK ==
    \A i \in Jobs : job[i].state = "ready" =>
        /\ job[i].content \in Contents /\ job[i].path \in Places
        /\ job[i].kind = "copy" => job[i].path = Managed(job[i].content)

\* A registered book has a path in the library.
BookOK == \A c \in Contents : book[c].in => book[c].at \in Places

Staging == {"stage", "fill", "validate"}
Placing == {"publish", "restamp", "link", "rename", "verify", "stamp", "commit"}

\* The row of the import at work is in the state the importer left it in.
RowOK(a) ==
    LET o == op[a] IN
    /\ o.pc \in Staging =>
         /\ o.mode = "import" /\ o.i \in Jobs /\ job[o.i].state = "copying"
         /\ Kind(a) = "copy" => o.digest \in Contents /\ o.known = {}
         /\ Kind(a) = "index" => o.tgt \in Places /\ o.known \subseteq {o.tgt} /\ ~o.stageOK
         /\ o.pc = "fill" => Kind(a) = "copy"
         /\ o.pc = "validate" => o.digest \in Contents
    /\ o.pc \in {"look"} \cup Placing =>
         o.i \in Jobs /\ job[o.i].state = "ready" /\ o.digest = job[o.i].content /\ o.ready
    /\ o.pc \in {"restamp", "link", "rename"} => Kind(a) = "copy"
    /\ o.pc \in {"tidy", "handle", "discard", "settle"} => o.i \in Jobs
    /\ o.pc \in Staging \cup {"look"} => ~o.sure
    /\ o.pc \in Staging => ~o.ready
    /\ o.pc = "tidy" => job[o.i].state = "done"
    /\ o.pc \in {"next", "swept"} => o.mode = "recover"

\* The target is the import's own path or the present file of the book it has.
TargetOK(a) ==
    LET o == op[a] IN
    o.pc \in Placing =>
        /\ o.tgt \in Places
        /\ o.tgt = job[o.i].path \/ book[o.digest].at = o.tgt

\* What a held stamp or a finished check says of a file.
StampsOK(a) ==
    LET o == op[a] IN
    /\ o.pc \in {"validate", "look", "publish"} /\ o.stageOK => stage[o.i] = o.digest
    /\ o.pc \in {"restamp", "link"} => stage[o.i] = o.digest \/ o.spoiled
    /\ o.pc = "rename" => o.copy = o.digest \/ o.spoiled
    /\ o.pc \in {"validate", "look", "publish", "restamp", "link", "rename"} =>
         \A p \in o.known : disk[p] = o.digest
    /\ o.pc = "verify" => \A p \in o.known : disk[p] = o.digest \/ p \in o.meddled
    /\ o.pc \in {"stamp", "commit"} \/ (o.pc \in Placing /\ o.sure) =>
         disk[o.tgt] = o.digest \/ o.tgt \in o.meddled

\* A recovery still has every unfinished row before it.
TodoOK(a) ==
    LET o == op[a] IN
    o.pc # "idle" /\ o.mode = "recover" =>
        /\ \A i \in o.todo : job[i].state \in {"copying", "ready"}
        /\ \A i \in Jobs : job[i].state = "copying" => i \in o.todo
        /\ o.i \notin o.todo
        /\ o.pc = "swept" => o.todo = {} /\ \A i \in Jobs : stage[i] # Empty => job[i].state = "ready"

\* What a handler knows of the error it handles.
ErrorOK(a) ==
    LET o == op[a] IN
    /\ o.pc = "handle" =>
         /\ o.mode = "import" /\ o.err # "none" /\ job[o.i].state # "absent"
         /\ job[o.i].state = "ready" => o.ready
         /\ o.ready => job[o.i].state \in {"ready", "done"}
    /\ o.pc = "discard" => o.mode = "import" /\ (job[o.i].state = "ready" => o.err = "fatal")
    /\ o.pc = "settle" => o.mode = "recover" /\ o.err # "none"

OpOK(a) == RowOK(a) /\ TargetOK(a) /\ StampsOK(a) /\ TodoOK(a) /\ ErrorOK(a)

IInv == TypeOK /\ Exclusive /\ JobOK /\ BookOK /\ (\A a \in Actors : OpOK(a)) /\ VouchedIsGenuine

-----------------------------------------------------------------------------
(* Type correctness.                                                       *)

LEMMA IdleType == IdleOp \in Op
  BY DEF IdleOp, Op, Working, File, Jobs, NoJob

LEMMA PlaceType == \A c \in Contents : Managed(c) \in Places
  BY DEF Places

LEMMA BecomeType ==
    ASSUME TypeOK, NEW a \in Actors, NEW o \in Op, Become(a, o)
    PROVE  op' \in [Actors -> Op]
  BY DEF TypeOK, Become

PCs == Working \cup {"idle", "handle", "discard", "next", "settle", "release", "swept"}
LEMMA GotoType ==
    ASSUME TypeOK, NEW a \in Actors, NEW s \in PCs, Goto(a, s)
    PROVE  op' \in [Actors -> Op]
  <1>1. op[a] \in Op
    BY DEF TypeOK
  <1>2. [op[a] EXCEPT !.pc = s] \in Op
    BY <1>1 DEF Op, PCs
  <1> QED
    BY <1>2 DEF TypeOK, Goto

LEMMA RaiseType ==
    ASSUME TypeOK, NEW a \in Actors, NEW e \in {"transient", "fatal"}, Raise(a, e)
    PROVE  TypeOK'
  <1> DEFINE o == [op[a] EXCEPT !.err = e, !.pc = IF op[a].mode = "import" THEN "handle" ELSE "settle"]
  <1>1. op[a] \in Op
    BY DEF TypeOK
  <1>2. o \in Op
    BY <1>1 DEF Op
  <1>3. Become(a, o)
    BY DEF Raise
  <1>4. op' \in [Actors -> Op]
    BY <1>2, <1>3, BecomeType
  <1> QED
    BY <1>4 DEF TypeOK, Raise, history

LEMMA BeginType ==
    ASSUME TypeOK, NEW a \in Actors, NEW i \in Jobs,
           (\E c \in Contents : BeginCopy(a, i, c)) \/ (\E p \in Places : BeginIndex(a, i, p))
    PROVE  TypeOK'
  <1>1. \A k \in {"copy", "index"} :
          [state |-> "copying", kind |-> k, content |-> Empty, path |-> Nowhere] \in Job
    BY DEF Job, JobStates
  <1>2. /\ job' \in [Jobs -> Job] /\ holder' = a
        /\ UNCHANGED <<disk, stage, book, history>>
    BY <1>1 DEF TypeOK, BeginCopy, BeginIndex, Begin
  <1>3. op' \in [Actors -> Op]
    <2>1. CASE \E c \in Contents : BeginCopy(a, i, c)
      <3>1. PICK c \in Contents : BeginCopy(a, i, c)
        BY <2>1
      <3> DEFINE o == [IdleOp EXCEPT !.pc = "stage", !.i = i, !.digest = c]
      <3>2. o \in Op
        BY IdleType DEF Op, Working
      <3> QED
        BY <3>1, <3>2, BecomeType DEF BeginCopy
    <2>2. CASE \E p \in Places : BeginIndex(a, i, p)
      <3>1. PICK p \in Places : BeginIndex(a, i, p)
        BY <2>2
      <3> DEFINE o == [IdleOp EXCEPT !.pc = "stage", !.i = i, !.tgt = p, !.known = {p}]
      <3>2. o \in Op
        BY IdleType DEF Op, Working
      <3> QED
        BY <3>1, <3>2, BecomeType DEF BeginIndex
    <2> QED
      BY <2>1, <2>2
  <1> QED
    BY <1>2, <1>3 DEF TypeOK, history

LEMMA StagingType ==
    ASSUME TypeOK, NEW a \in Actors,
           StageLinked(a) \/ StageCopying(a) \/ StageCopied(a) \/ StageIndexed(a)
    PROVE  TypeOK'
  <1>1. op[a] \in Op /\ op[a].digest \in File
    BY DEF TypeOK, Op, File
  <1>2. CASE StageLinked(a)
    BY <1>1, <1>2 DEF TypeOK, StageLinked, Become, Op, Working, history
  <1>3. CASE StageCopying(a)
    BY <1>1, <1>3 DEF TypeOK, StageCopying, Goto, Op, Working, File, history
  <1>4. CASE StageCopied(a)
    BY <1>1, <1>4 DEF TypeOK, StageCopied, Become, Op, Working, history
  <1>5. CASE StageIndexed(a)
    BY <1>1, <1>5 DEF TypeOK, StageIndexed, Become, Op, Working, history
  <1> QED
    BY <1>2, <1>3, <1>4, <1>5

LEMMA ValidatedType ==
    ASSUME TypeOK, NEW a \in Actors, op[a].i \in Jobs, op[a].pc = "validate" => op[a].digest \in Contents,
           Kind(a) = "index" => op[a].tgt \in Places, Validated(a)
    PROVE  TypeOK'
  <1>1. op[a] \in Op /\ op[a].digest \in Contents /\ job[op[a].i] \in Job
    BY DEF TypeOK, Validated
  <1>2. job' \in [Jobs -> Job]
    BY <1>1, PlaceType DEF TypeOK, Validated, Job, JobStates, Kind
  <1>3. [op[a] EXCEPT !.pc = "look", !.ready = TRUE] \in Op
    BY <1>1 DEF Op, Working
  <1>4. op' \in [Actors -> Op]
    BY <1>3, BecomeType DEF Validated
  <1> QED
    BY <1>2, <1>4 DEF TypeOK, Validated, history

LEMMA PublishingType ==
    ASSUME TypeOK, NEW a \in Actors, RowOK(a), TargetOK(a), JobOK,
           Publishing(a)
    PROVE  TypeOK'
  <1>1. op[a] \in Op
    BY DEF TypeOK
  <1>2. CASE Look(a)
    <2>1. op[a].i \in Jobs /\ op[a].digest \in Contents /\ job[op[a].i].path \in Places
      BY <1>2 DEF RowOK, JobOK, Look
    <2>2. book[op[a].digest].at \in Places \cup {Nowhere}
      BY <2>1 DEF TypeOK
    <2>3. PICK o \in Op : Become(a, o)
      BY <1>1, <1>2, <2>1, <2>2 DEF Look, Op, Working
    <2> QED
      BY <1>2, <2>3, BecomeType DEF Look, TypeOK, history
  <1>3. CASE Link(a) \/ RenameCopy(a)
    <2>1. op[a].i \in Jobs /\ op[a].tgt \in Places
      BY <1>3 DEF RowOK, TargetOK, Link, RenameCopy, Placing
    <2>2. PICK x \in File, known \in SUBSET Places : Publish(a, x, known)
      <3>1. stage[op[a].i] \in File /\ op[a].copy \in File
        BY <1>1, <2>1 DEF TypeOK, Op
      <3> QED
        BY <1>3, <2>1, <3>1 DEF Link, RenameCopy
    <2>3. disk' \in [Places -> File]
      BY <2>1, <2>2 DEF TypeOK, Publish
    <2>4. PICK o \in Op : Become(a, o)
      <3>1. \A m \in SUBSET Places :
              [op[a] EXCEPT !.pc = "verify", !.known = known, !.copy = Empty, !.spoiled = FALSE,
                            !.meddled = m] \in Op
        BY <1>1, <2>2 DEF Op, Working, File
      <3>2. (IF op[a].spoiled THEN {op[a].tgt} ELSE {}) \in SUBSET Places
        BY <2>1
      <3> QED
        BY <2>2, <3>1, <3>2 DEF Publish
    <2> QED
      BY <2>2, <2>3, <2>4, BecomeType DEF Publish, TypeOK, history
  <1>9. CASE CheckStage(a) \/ Restamp(a) \/ CopyStage(a) \/ Occupied(a)
    <2>1. op[a].i \in Jobs
      BY <1>9 DEF RowOK, CheckStage, Restamp, CopyStage, Occupied, Placing
    <2>2. stage[op[a].i] \in File /\ Empty \in File
      BY <2>1 DEF TypeOK, File
    <2>3. /\ \A q \in Working : [op[a] EXCEPT !.pc = q] \in Op
          /\ [op[a] EXCEPT !.pc = "link", !.stageOK = TRUE] \in Op
          /\ [op[a] EXCEPT !.pc = "rename", !.copy = stage[op[a].i]] \in Op
          /\ [op[a] EXCEPT !.pc = "verify", !.copy = Empty, !.spoiled = FALSE] \in Op
      <3>1. \A q \in Working, x \in File :
              /\ [op[a] EXCEPT !.pc = q] \in Op
              /\ [op[a] EXCEPT !.pc = q, !.stageOK = TRUE] \in Op
              /\ [op[a] EXCEPT !.pc = q, !.copy = x] \in Op
              /\ [op[a] EXCEPT !.pc = q, !.copy = x, !.spoiled = FALSE] \in Op
        BY <1>1 DEF Op
      <3> QED
        BY <2>2, <3>1 DEF Working
    <2>4. PICK o \in Op : Become(a, o)
      BY <1>9, <2>3 DEF CheckStage, Restamp, CopyStage, Occupied, Working
    <2> QED
      BY <1>9, <2>4, BecomeType DEF CheckStage, Restamp, CopyStage, Occupied, TypeOK, history
  <1>4. CASE Present(a)
    BY <1>4, GotoType DEF Present, TypeOK, history, PCs, Working
  <1>5. CASE Verify(a)
    <2>1. PICK o \in Op : Become(a, o)
      BY <1>1, <1>5 DEF Verify, Op, Working
    <2> QED
      BY <1>5, <2>1, BecomeType DEF Verify, TypeOK, history
  <1>6. CASE Stamp(a)
    <2>1. op[a].tgt \in Places
      BY <1>6 DEF TargetOK, Stamp, Placing
    <2>2. PICK o \in Op : Become(a, o)
      BY <1>1, <1>6, <2>1 DEF Stamp, Op, Working
    <2> QED
      BY <1>6, <2>2, BecomeType DEF Stamp, TypeOK, history
  <1>7. CASE Commit(a)
    <2>1. op[a].i \in Jobs /\ op[a].digest \in Contents /\ op[a].tgt \in Places
      BY <1>7 DEF RowOK, JobOK, TargetOK, Commit, Placing
    <2>2. job' \in [Jobs -> Job]
      BY <1>7 DEF TypeOK, Commit, Job, JobStates
    <2>3. book' \in [Contents -> [in: BOOLEAN, at: Places \cup {Nowhere}, vouched: BOOLEAN]]
      BY <1>7, <2>1 DEF TypeOK, Commit
    <2>4. slipped' \subseteq Contents
      BY <1>7, <2>1 DEF TypeOK, Commit
    <2> QED
      BY <1>7, <2>2, <2>3, <2>4, GotoType DEF Commit, TypeOK, PCs, Working
  <1>8. CASE Tidy(a)
    <2>1. stage' \in [Jobs -> File]
      BY <1>8 DEF TypeOK, Tidy, Unstaged, File
    <2> QED
      BY <1>8, <2>1, GotoType DEF Tidy, TypeOK, PCs, history
  <1> QED
    BY <1>2, <1>3, <1>4, <1>5, <1>6, <1>7, <1>8, <1>9 DEF Publishing

LEMMA EndingType ==
    ASSUME TypeOK, NEW a \in Actors, Handle(a) \/ Discard(a) \/ Release(a) \/ Crash(a)
    PROVE  TypeOK'
  <1>1. CASE Handle(a)
    <2>1. job' \in [Jobs -> Job]
      <3>1. Ended(a) \in JobStates
        BY DEF Ended, JobStates
      <3>2. \A i \in Jobs : [job[i] EXCEPT !.state = Ended(a)] \in Job
        BY <3>1 DEF TypeOK, Job
      <3> QED
        BY <1>1, <3>2 DEF TypeOK, Handle
    <2> QED
      BY <1>1, <2>1, GotoType DEF Handle, TypeOK, PCs, history
  <1>2. CASE Discard(a)
    <2>1. stage' \in [Jobs -> File]
      BY <1>2 DEF TypeOK, Discard, Unstaged, File
    <2> QED
      BY <1>2, <2>1, GotoType DEF Discard, TypeOK, PCs, history
  <1>3. CASE Release(a) \/ Crash(a)
    BY <1>3, IdleType, BecomeType DEF Release, Crash, TypeOK, history
  <1> QED
    BY <1>1, <1>2, <1>3

LEMMA RecoveringType ==
    ASSUME TypeOK, NEW a \in Actors, RowOK(a), Recovering(a)
    PROVE  TypeOK'
  <1>1. op[a] \in Op
    BY DEF TypeOK
  <1>2. CASE Recover(a)
    <2>1. [IdleOp EXCEPT !.pc = "next", !.mode = "recover",
                         !.todo = {i \in Jobs : job[i].state \in {"copying", "ready"}}] \in Op
      BY IdleType DEF Op
    <2> QED
      BY <1>2, <2>1, BecomeType DEF Recover, TypeOK, history
  <1>3. CASE Settle(a)
    <2>1. op[a].i \in Jobs
      BY <1>3 DEF RowOK, Settle
    <2>2. \A s \in JobStates : [job[op[a].i] EXCEPT !.state = s] \in Job
      BY <2>1 DEF TypeOK, Job
    <2>3. job[op[a].i].state \in JobStates /\ "failed" \in JobStates
      BY <2>1 DEF TypeOK, Job, JobStates
    <2>4. job' = [job EXCEPT ![op[a].i] = [job[op[a].i] EXCEPT !.state =
                     IF job[op[a].i].state = "ready" /\ ~Keep(a) THEN "failed" ELSE job[op[a].i].state]]
      BY <1>3 DEF Settle
    <2>5. job' \in [Jobs -> Job]
      BY <2>1, <2>2, <2>3, <2>4 DEF TypeOK
    <2> QED
      BY <1>3, <2>5, GotoType DEF Settle, TypeOK, PCs, history
  <1>4. CASE Sweep(a)
    <2>1. stage' \in [Jobs -> File]
      BY <1>4 DEF TypeOK, Sweep, File
    <2> QED
      BY <1>4, <2>1, GotoType DEF Sweep, TypeOK, PCs, history
  <1>5. CASE Abandon(a)
    BY <1>5, GotoType DEF Abandon, TypeOK, PCs, history
  <1>6. ASSUME NEW i \in Jobs, RecoverCopying(a, i)
        PROVE  TypeOK'
    <2>1. job' \in [Jobs -> Job]
      BY <1>6 DEF TypeOK, RecoverCopying, Job, JobStates
    <2>2. op' \in [Actors -> Op]
      BY <1>1, <1>6 DEF TypeOK, RecoverCopying, Op
    <2> QED
      BY <1>6, <2>1, <2>2 DEF RecoverCopying, TypeOK, history
  <1>7. ASSUME NEW i \in Jobs, RecoverReady(a, i)
        PROVE  TypeOK'
    <2>1. job[i].content \in Contents \cup {Empty}
      BY DEF TypeOK, Job
    <2>2. [IdleOp EXCEPT !.pc = "look", !.mode = "recover", !.i = i, !.ready = TRUE,
                         !.digest = job[i].content, !.todo = op[a].todo \ {i}] \in Op
      BY <1>1, <2>1, IdleType DEF Op, Working
    <2> QED
      BY <1>7, <2>2, BecomeType DEF RecoverReady, TypeOK, history
  <1> QED
    BY <1>2, <1>3, <1>4, <1>5, <1>6, <1>7 DEF Recovering

LEMMA UserType ==
    ASSUME TypeOK, User
    PROVE  TypeOK'
  <1>1. touches < MaxTouches => touches + 1 \in 0 .. MaxTouches
    BY CountAssumption DEF TypeOK
  <1>2. ASSUME NEW p \in Places, Touch(p)
        PROVE  TypeOK'
    <2>1. op' \in [Actors -> Op]
      <3>1. \A b \in Actors : op[b] \in Op /\
              [op[b] EXCEPT !.known = @ \ {p}, !.meddled = @ \cup {p}] \in Op
        <4>1. ASSUME NEW b \in Actors
              PROVE  op[b] \in Op /\ op[b].known \ {p} \in SUBSET Places
                                 /\ op[b].meddled \cup {p} \in SUBSET Places
          BY DEF TypeOK, Op
        <4>2. ASSUME NEW b \in Actors, NEW k \in SUBSET Places, NEW m \in SUBSET Places
              PROVE  [op[b] EXCEPT !.known = k, !.meddled = m] \in Op
          BY <4>1 DEF Op
        <4> QED
          BY <4>1, <4>2
      <3> QED
        BY <1>2, <3>1 DEF Touch
    <2>2. book' \in [Contents -> [in: BOOLEAN, at: Places \cup {Nowhere}, vouched: BOOLEAN]]
      BY <1>2 DEF TypeOK, Touch
    <2>3. disk' \in [Places -> File]
      BY <1>2 DEF TypeOK, Touch
    <2> QED
      BY <1>1, <1>2, <2>1, <2>2, <2>3 DEF TypeOK, Touch
  <1>3. ASSUME NEW i \in Jobs, Spoil(i)
        PROVE  TypeOK'
    <2>1. op' \in [Actors -> Op]
      <3>1. \A b \in Actors : op[b] \in Op
        BY DEF TypeOK
      <3>2. \A b \in Actors :
              [op[b] EXCEPT !.stageOK = @ /\ op[b].i # i,
                            !.spoiled = @ \/ (op[b].i = i /\ op[b].pc \in {"restamp", "link"})] \in Op
        <4>1. \A b \in Actors : op[b].spoiled \in BOOLEAN /\ op[b].stageOK \in BOOLEAN
          BY <3>1 DEF Op
        <4>2. \A b \in Actors, k \in BOOLEAN, l \in BOOLEAN :
                [op[b] EXCEPT !.stageOK = k, !.spoiled = l] \in Op
          BY <3>1 DEF Op
        <4>3. ASSUME NEW b \in Actors
              PROVE  /\ (op[b].stageOK /\ op[b].i # i) \in BOOLEAN
                     /\ (op[b].spoiled \/ (op[b].i = i /\ op[b].pc \in {"restamp", "link"})) \in BOOLEAN
          BY <4>1
        <4> QED
          BY <4>2, <4>3
      <3> QED
        BY <1>3, <3>2 DEF Spoil
    <2>2. stage' \in [Jobs -> File]
      BY <1>3 DEF TypeOK, Spoil, File
    <2> QED
      BY <1>1, <1>3, <2>1, <2>2 DEF TypeOK, Spoil
  <1>4. ASSUME NEW c \in Contents, Availability(c) \/ RemoveBook(c)
        PROVE  TypeOK'
    <2>1. CASE Availability(c)
      BY <1>4, <2>1 DEF TypeOK, Availability, history
    <2>2. CASE RemoveBook(c)
      BY <1>4, <2>2 DEF TypeOK, RemoveBook, NoBook
    <2> QED
      BY <1>4, <2>1, <2>2
  <1> QED
    BY <1>2, <1>3, <1>4 DEF User

-----------------------------------------------------------------------------
(* The steps of an operation keep the invariant: one actor is at work and  *)
(* all the others are idle, so only its own part can be disturbed.         *)

LEMMA BecomeIs ==
    ASSUME TypeOK, NEW a \in Actors, NEW o, Become(a, o)
    PROVE  op'[a] = o /\ \A b \in Actors \ {a} : op'[b] = op[b]
  BY DEF TypeOK, Become

LEMMA GotoIs ==
    ASSUME TypeOK, NEW a \in Actors, NEW s, Goto(a, s)
    PROVE  op'[a] = [op[a] EXCEPT !.pc = s] /\ \A b \in Actors \ {a} : op'[b] = op[b]
  BY DEF TypeOK, Goto

LEMMA IdleIsOK ==
    ASSUME NEW b \in Actors, op'[b].pc = "idle"
    PROVE  OpOK(b)'
  BY DEF OpOK, RowOK, TargetOK, StampsOK, TodoOK, ErrorOK, Staging, Placing

LEMMA Alone ==
    ASSUME IInv, NEW a \in Actors, op[a].pc # "idle"
    PROVE  \A b \in Actors \ {a} : op[b].pc = "idle"
  BY DEF IInv, Exclusive

LEMMA Frame ==
    ASSUME IInv, NEW a \in Actors, op[a].pc # "idle" \/ holder = Nobody,
           \A b \in Actors \ {a} : op'[b] = op[b],
           op'[a].pc # "idle" => holder' = a,
           TypeOK', JobOK', BookOK', OpOK(a)', VouchedIsGenuine'
    PROVE  IInv'
  <1>1. \A b \in Actors \ {a} : op[b].pc = "idle"
    BY Alone, NamesAssumption DEF IInv, Exclusive
  <1>2. \A b \in Actors \ {a} : op'[b].pc = "idle"
    BY <1>1
  <1>3. \A b \in Actors : OpOK(b)'
    BY <1>2, IdleIsOK
  <1>4. Exclusive'
    BY <1>2 DEF Exclusive
  <1> QED
    BY <1>3, <1>4 DEF IInv

LEMMA BeginKeeps ==
    ASSUME IInv, NEW a \in Actors, NEW i \in Jobs,
           (\E c \in Contents : BeginCopy(a, i, c)) \/ (\E p \in Places : BeginIndex(a, i, p))
    PROVE  IInv'
  <1>1. TypeOK'
    BY BeginType DEF IInv
  <1> DEFINE New(k) == [state |-> "copying", kind |-> k, content |-> Empty, path |-> Nowhere]
  <1>2. PICK row : Begin(a, i, row) /\ row.state = "copying"
    <2>1. Begin(a, i, New("copy")) \/ Begin(a, i, New("index"))
      BY DEF BeginCopy, BeginIndex
    <2> QED
      BY <2>1
  <1>3. job' = [job EXCEPT ![i] = row] /\ UNCHANGED <<disk, stage, book, history>> /\ holder' = a
    BY <1>2 DEF Begin
  <1>4. JobOK'
    BY <1>2, <1>3 DEF IInv, JobOK, TypeOK
  <1>5. BookOK' /\ VouchedIsGenuine'
    BY <1>3 DEF IInv, BookOK, VouchedIsGenuine, history
  <1>6. OpOK(a)' /\ \A b \in Actors \ {a} : op'[b] = op[b]
    <2>1. CASE \E c \in Contents : BeginCopy(a, i, c)
      <3>1. PICK c \in Contents : BeginCopy(a, i, c)
        BY <2>1
      <3>2. /\ op'[a] = [IdleOp EXCEPT !.pc = "stage", !.i = i, !.digest = c]
            /\ \A b \in Actors \ {a} : op'[b] = op[b]
        BY <3>1, BecomeIs DEF BeginCopy, IInv
      <3>3. job'[i].state = "copying" /\ job'[i].kind = "copy"
        BY <3>1 DEF BeginCopy, Begin, IInv, TypeOK
      <3> QED
        BY <3>2, <3>3 DEF OpOK, RowOK, TargetOK, StampsOK, TodoOK, ErrorOK, Staging, Placing, IdleOp, Kind
    <2>2. CASE \E p \in Places : BeginIndex(a, i, p)
      <3>1. PICK p \in Places : BeginIndex(a, i, p)
        BY <2>2
      <3>2. /\ op'[a] = [IdleOp EXCEPT !.pc = "stage", !.i = i, !.tgt = p, !.known = {p}]
            /\ \A b \in Actors \ {a} : op'[b] = op[b]
        BY <3>1, BecomeIs DEF BeginIndex, IInv
      <3>3. job'[i].state = "copying" /\ job'[i].kind = "index"
        BY <3>1 DEF BeginIndex, Begin, IInv, TypeOK
      <3> QED
        BY <3>2, <3>3 DEF OpOK, RowOK, TargetOK, StampsOK, TodoOK, ErrorOK, Staging, Placing, IdleOp, Kind
    <2> QED
      BY <2>1, <2>2
  <1>7. holder = Nobody
    BY <1>2 DEF Begin
  <1> QED
    BY <1>1, <1>3, <1>4, <1>5, <1>6, <1>7, Frame

LEMMA StagingKeeps ==
    ASSUME IInv, NEW a \in Actors,
           StageLinked(a) \/ StageCopying(a) \/ StageCopied(a) \/ StageIndexed(a)
    PROVE  IInv'
  <1>1. TypeOK'
    BY StagingType DEF IInv
  <1>2. /\ op[a] \in Op /\ op[a].pc \in {"stage", "fill"} /\ holder' = holder
        /\ UNCHANGED <<disk, job, book, history>>
    BY DEF IInv, TypeOK, StageLinked, StageCopying, StageCopied, StageIndexed
  <1>3. JobOK' /\ BookOK' /\ VouchedIsGenuine'
    BY <1>2 DEF IInv, JobOK, BookOK, VouchedIsGenuine, history
  <1>4. RowOK(a) /\ op[a].mode = "import" /\ op[a].i \in Jobs /\ job[op[a].i].state = "copying"
    BY <1>2 DEF IInv, OpOK, RowOK, Staging
  <1>8. Kind(a) \in {"copy", "index"}
    BY <1>4 DEF IInv, TypeOK, Kind, Job
  <1>5. CASE StageLinked(a) \/ StageCopied(a)
    <2>1. /\ op'[a] = [op[a] EXCEPT !.pc = "validate", !.stageOK = TRUE]
          /\ \A b \in Actors \ {a} : op'[b] = op[b]
      BY <1>5, BecomeIs DEF StageLinked, StageCopied, IInv
    <2>2. stage'[op[a].i] = op[a].digest
      BY <1>4, <1>5 DEF StageLinked, StageCopied, IInv, TypeOK
    <2>3. Kind(a) = "copy"
      BY <1>4, <1>5 DEF StageLinked, StageCopied, RowOK, Staging
    <2>4. OpOK(a)'
      BY <1>2, <1>4, <2>1, <2>2, <2>3
         DEF OpOK, RowOK, TargetOK, StampsOK, TodoOK, ErrorOK, Staging, Placing, Op, Kind
    <2> QED
      BY <1>1, <1>2, <1>3, <2>1, <2>4, Frame DEF IInv, Exclusive
  <1>6. CASE StageCopying(a)
    <2>1. /\ op'[a] = [op[a] EXCEPT !.pc = "fill"]
          /\ \A b \in Actors \ {a} : op'[b] = op[b]
      BY <1>6, GotoIs DEF StageCopying, IInv
    <2>4. OpOK(a)'
      BY <1>2, <1>4, <1>6, <2>1
         DEF OpOK, RowOK, TargetOK, StampsOK, TodoOK, ErrorOK, Staging, Placing, Op, Kind, StageCopying
    <2> QED
      BY <1>1, <1>2, <1>3, <2>1, <2>4, Frame DEF IInv, Exclusive
  <1>7. CASE StageIndexed(a)
    <2>1. /\ op'[a] = [op[a] EXCEPT !.pc = "validate", !.digest = disk[op[a].tgt]]
          /\ \A b \in Actors \ {a} : op'[b] = op[b]
      BY <1>7, BecomeIs DEF StageIndexed, IInv
    <2>4. OpOK(a)'
      BY <1>2, <1>4, <1>7, <1>8, <2>1
         DEF OpOK, RowOK, TargetOK, StampsOK, TodoOK, ErrorOK, Staging, Placing, Op, Kind, StageIndexed
    <2> QED
      BY <1>1, <1>2, <1>3, <2>1, <2>4, Frame DEF IInv, Exclusive
  <1> QED
    BY <1>5, <1>6, <1>7

\* What holds of the operation of an actor that is not idle.
LEMMA AtWork ==
    ASSUME IInv, NEW a \in Actors
    PROVE  /\ op[a] \in Op /\ OpOK(a)
           /\ op[a].i \in Jobs => Kind(a) \in {"copy", "index"} /\ job[op[a].i] \in Job
  BY DEF IInv, TypeOK, Kind, Job

LEMMA ValidatedKeeps ==
    ASSUME IInv, NEW a \in Actors, Validated(a)
    PROVE  IInv'
  <1>1. /\ op[a] \in Op /\ OpOK(a) /\ op[a].pc = "validate" /\ op[a].i \in Jobs
        /\ op[a].digest \in Contents /\ Kind(a) \in {"copy", "index"}
        /\ Kind(a) = "index" => op[a].tgt \in Places
    BY AtWork DEF Validated, OpOK, RowOK, Staging
  <1>2. TypeOK'
    BY <1>1, ValidatedType DEF IInv
  <1>3. /\ op'[a] = [op[a] EXCEPT !.pc = "look", !.ready = TRUE]
        /\ \A b \in Actors \ {a} : op'[b] = op[b]
    BY BecomeIs DEF Validated, IInv
  <1>4. /\ holder' = holder
        /\ UNCHANGED <<disk, stage, book, history>>
    BY DEF Validated
  <1>5. /\ job'[op[a].i].state = "ready" /\ job'[op[a].i].content = op[a].digest
        /\ job'[op[a].i].kind = Kind(a)
        /\ job'[op[a].i].path = IF Kind(a) = "copy" THEN Managed(op[a].digest) ELSE op[a].tgt
        /\ \A i \in Jobs \ {op[a].i} : job'[i] = job[i]
    BY <1>1 DEF Validated, IInv, TypeOK, Job, Kind
  <1>6. JobOK'
    BY <1>1, <1>5, PlaceType DEF IInv, JobOK
  <1>7. BookOK' /\ VouchedIsGenuine'
    BY <1>4 DEF IInv, BookOK, VouchedIsGenuine, history
  <1>8. OpOK(a)'
    BY <1>1, <1>3, <1>4, <1>5 DEF OpOK, RowOK, TargetOK, StampsOK, TodoOK, ErrorOK, Staging, Placing, Op, Kind
  <1> QED
    BY <1>1, <1>2, <1>3, <1>4, <1>6, <1>7, <1>8, Frame DEF IInv, Exclusive

LEMMA LookKeeps ==
    ASSUME IInv, NEW a \in Actors, Look(a)
    PROVE  IInv'
  <1> DEFINE o == op[a] old == book[o.digest]
  <1>1. /\ o \in Op /\ OpOK(a) /\ o.pc = "look" /\ o.i \in Jobs /\ job[o.i].state = "ready"
        /\ o.digest = job[o.i].content /\ o.ready /\ o.digest \in Contents /\ job[o.i].path \in Places
    BY AtWork DEF Look, OpOK, RowOK, IInv, JobOK
  <1>2. TypeOK'
    BY <1>1, PublishingType DEF IInv, OpOK, Publishing
  <1>3. holder' = holder /\ UNCHANGED <<disk, stage, job, book, history>>
    BY DEF Look
  <1>4. JobOK' /\ BookOK' /\ VouchedIsGenuine'
    BY <1>3 DEF IInv, JobOK, BookOK, VouchedIsGenuine, history
  <1>5. CASE /\ old.in /\ disk[old.at] = o.digest
             /\ Become(a, [o EXCEPT !.pc = "publish", !.tgt = old.at, !.sure = TRUE, !.meddled = {}])
    <2>1. /\ op'[a] = [o EXCEPT !.pc = "publish", !.tgt = old.at, !.sure = TRUE, !.meddled = {}]
          /\ \A b \in Actors \ {a} : op'[b] = op[b]
      BY <1>5, BecomeIs DEF IInv
    <2>2. old.at \in Places
      BY <1>1, <1>5 DEF IInv, TypeOK, BookOK
    <2>3. OpOK(a)'
      BY <1>1, <1>3, <1>5, <2>1, <2>2 DEF OpOK, RowOK, TargetOK, StampsOK, TodoOK, ErrorOK, Staging, Placing, Op, Kind
    <2> QED
      BY <1>1, <1>2, <1>3, <1>4, <2>1, <2>3, Frame DEF IInv, Exclusive
  <1>6. CASE Become(a, [o EXCEPT !.pc = "publish", !.tgt = job[o.i].path])
    <2>1. /\ op'[a] = [o EXCEPT !.pc = "publish", !.tgt = job[o.i].path]
          /\ \A b \in Actors \ {a} : op'[b] = op[b]
      BY <1>6, BecomeIs DEF IInv
    <2>3. OpOK(a)'
      BY <1>1, <1>3, <2>1 DEF OpOK, RowOK, TargetOK, StampsOK, TodoOK, ErrorOK, Staging, Placing, Op, Kind
    <2> QED
      BY <1>1, <1>2, <1>3, <1>4, <2>1, <2>3, Frame DEF IInv, Exclusive
  <1> QED
    BY <1>5, <1>6 DEF Look

LEMMA PublishKeeps ==
    ASSUME IInv, NEW a \in Actors, Link(a) \/ RenameCopy(a)
    PROVE  IInv'
  <1> DEFINE o == op[a]
  <1>1. /\ o \in Op /\ OpOK(a) /\ o.pc \in {"link", "rename"} /\ o.i \in Jobs /\ o.tgt \in Places
        /\ o.digest \in Contents /\ Kind(a) = "copy"
    BY AtWork DEF Link, RenameCopy, OpOK, RowOK, TargetOK, Placing, IInv, JobOK
  <1>2. TypeOK'
    BY <1>1, PublishingType DEF IInv, OpOK, Publishing
  <1>3. PICK x, known : /\ Publish(a, x, known) /\ known \subseteq {o.tgt}
                        /\ x = o.digest \/ o.spoiled
    <2>1. CASE Link(a)
      BY <1>1, <2>1 DEF Link, OpOK, StampsOK
    <2>2. CASE RenameCopy(a)
      BY <1>1, <2>2 DEF RenameCopy, OpOK, StampsOK
    <2> QED
      BY <2>1, <2>2
  <1>4. PICK m : /\ m = IF o.spoiled THEN {o.tgt} ELSE {}
                 /\ Become(a, [o EXCEPT !.pc = "verify", !.known = known, !.copy = Empty,
                                        !.spoiled = FALSE, !.meddled = m])
    BY <1>3 DEF Publish
  <1>5. /\ op'[a] = [o EXCEPT !.pc = "verify", !.known = known, !.copy = Empty,
                              !.spoiled = FALSE, !.meddled = m]
        /\ \A b \in Actors \ {a} : op'[b] = op[b]
    BY <1>4, BecomeIs DEF IInv
  <1>6. /\ holder' = holder /\ UNCHANGED <<stage, job, book, history>> /\ disk[o.tgt] = Empty
        /\ disk'[o.tgt] = x /\ \A p \in Places \ {o.tgt} : disk'[p] = disk[p]
    BY <1>1, <1>3 DEF Publish, IInv, TypeOK
  <1>7. JobOK' /\ BookOK'
    BY <1>6 DEF IInv, JobOK, BookOK
  <1>8. VouchedIsGenuine'
    <2> SUFFICES ASSUME NEW c \in Contents, book[c].in, book[c].vouched
                 PROVE  disk'[book[c].at] = c \/ c \in slipped
      BY <1>6 DEF VouchedIsGenuine, history
    <2>1. disk[book[c].at] = c \/ c \in slipped
      BY DEF IInv, VouchedIsGenuine
    <2>2. book[c].at \in Places
      BY DEF IInv, BookOK
    <2> QED
      BY <1>6, <2>1, <2>2, NamesAssumption
  <1>9. /\ op'[a].pc = "verify" /\ op'[a].known = known /\ op'[a].meddled = m
        /\ op'[a].mode = o.mode /\ op'[a].i = o.i /\ op'[a].digest = o.digest
        /\ op'[a].tgt = o.tgt /\ op'[a].sure = o.sure /\ op'[a].ready = o.ready
        /\ op'[a].err = o.err /\ op'[a].todo = o.todo
    BY <1>1, <1>5 DEF Op
  <1>10. StampsOK(a)'
    BY <1>3, <1>4, <1>6, <1>9 DEF StampsOK, Placing
  <1>11. RowOK(a)' /\ TargetOK(a)' /\ TodoOK(a)' /\ ErrorOK(a)'
    BY <1>1, <1>6, <1>9 DEF OpOK, RowOK, TargetOK, TodoOK, ErrorOK, Staging, Placing, Kind
  <1> QED
    BY <1>1, <1>2, <1>5, <1>6, <1>7, <1>8, <1>9, <1>10, <1>11, Frame DEF IInv, Exclusive, OpOK

LEMMA StageStepsKeep ==
    ASSUME IInv, NEW a \in Actors, CheckStage(a) \/ Restamp(a) \/ CopyStage(a) \/ Occupied(a)
    PROVE  IInv'
  <1> DEFINE o == op[a]
  <1>1. /\ o \in Op /\ OpOK(a) /\ o.pc \in Placing /\ o.i \in Jobs /\ o.tgt \in Places
        /\ Kind(a) = "copy" /\ holder' = holder /\ UNCHANGED <<disk, stage, job, book, history>>
    BY AtWork DEF CheckStage, Restamp, CopyStage, Occupied, OpOK, RowOK, TargetOK, Placing, ToPublish
  <1>2. TypeOK'
    BY <1>1, PublishingType DEF IInv, OpOK, Publishing
  <1>3. JobOK' /\ BookOK' /\ VouchedIsGenuine'
    BY <1>1 DEF IInv, JobOK, BookOK, VouchedIsGenuine, history
  <1>4. ASSUME NEW q \in Placing, NEW k, NEW x, NEW y,
               Become(a, [o EXCEPT !.pc = q, !.stageOK = k, !.copy = x, !.spoiled = y]),
               q # "publish",
               q \in {"restamp", "link"} => stage[o.i] = o.digest \/ y,
               q = "rename" => x = o.digest \/ y,
               q \in {"stamp", "commit"} => FALSE,
               o.pc \in {"publish", "restamp", "link", "rename"}
        PROVE  IInv'
    <2>1. /\ op'[a] = [o EXCEPT !.pc = q, !.stageOK = k, !.copy = x, !.spoiled = y]
          /\ \A b \in Actors \ {a} : op'[b] = op[b]
      BY <1>4, BecomeIs DEF IInv
    <2>2. /\ op'[a].pc = q /\ op'[a].copy = x /\ op'[a].spoiled = y
          /\ op'[a].known = o.known /\ op'[a].meddled = o.meddled
          /\ op'[a].mode = o.mode /\ op'[a].i = o.i /\ op'[a].digest = o.digest
          /\ op'[a].tgt = o.tgt /\ op'[a].sure = o.sure /\ op'[a].ready = o.ready
          /\ op'[a].err = o.err /\ op'[a].todo = o.todo
      BY <1>1, <2>1 DEF Op
    <2>3. StampsOK(a)'
      BY <1>1, <1>4, <2>2 DEF OpOK, StampsOK, Placing
    <2>4. RowOK(a)' /\ TargetOK(a)' /\ TodoOK(a)' /\ ErrorOK(a)'
      BY <1>1, <2>2 DEF OpOK, RowOK, TargetOK, TodoOK, ErrorOK, Staging, Placing, Kind
    <2> QED
      BY <1>1, <1>2, <1>3, <2>1, <2>3, <2>4, Frame DEF IInv, Exclusive, OpOK, Placing
  <1>5. o = [o EXCEPT !.stageOK = o.stageOK, !.copy = o.copy, !.spoiled = o.spoiled]
    BY <1>1 DEF Op
  <1>6. CASE CheckStage(a)
    <2>1. stage[o.i] = o.digest
      BY <1>1, <1>6 DEF CheckStage, StageGood, OpOK, StampsOK
    <2>2. PICK q \in {"restamp", "link"} : Become(a, [o EXCEPT !.pc = q])
      BY <1>6 DEF CheckStage
    <2>3. Become(a, [o EXCEPT !.pc = q, !.stageOK = o.stageOK, !.copy = o.copy, !.spoiled = o.spoiled])
      BY <1>1, <2>2 DEF Become, Op
    <2> QED
      BY <1>4, <1>6, <2>1, <2>3 DEF CheckStage, Placing
  <1>7. CASE Restamp(a)
    <2>1. stage[o.i] = o.digest \/ o.spoiled
      BY <1>1, <1>7 DEF Restamp, OpOK, StampsOK
    <2>2. Become(a, [o EXCEPT !.pc = "link", !.stageOK = TRUE, !.copy = o.copy, !.spoiled = o.spoiled])
      BY <1>1, <1>7 DEF Restamp, Become, Op
    <2> QED
      BY <1>4, <1>7, <2>1, <2>2 DEF Restamp, Placing
  <1>8. CASE CopyStage(a)
    <2>1. stage[o.i] = o.digest \/ o.spoiled
      BY <1>1, <1>8 DEF CopyStage, OpOK, StampsOK
    <2>2. Become(a, [o EXCEPT !.pc = "rename", !.stageOK = o.stageOK, !.copy = stage[o.i], !.spoiled = o.spoiled])
      BY <1>1, <1>8 DEF CopyStage, Become, Op
    <2> QED
      BY <1>4, <1>8, <2>1, <2>2 DEF CopyStage, Placing
  <1>9. CASE Occupied(a)
    <2>2. Become(a, [o EXCEPT !.pc = "verify", !.stageOK = o.stageOK, !.copy = Empty, !.spoiled = FALSE])
      BY <1>1, <1>9 DEF Occupied, Become, Op
    <2> QED
      BY <1>4, <1>9, <2>2 DEF Occupied, Placing
  <1> QED
    BY <1>6, <1>7, <1>8, <1>9

LEMMA PresentVerifyStampKeep ==
    ASSUME IInv, NEW a \in Actors, Present(a) \/ Verify(a) \/ Stamp(a)
    PROVE  IInv'
  <1> DEFINE o == op[a]
  <1>1. /\ o \in Op /\ OpOK(a) /\ o.pc \in Placing /\ o.i \in Jobs /\ o.tgt \in Places
        /\ holder' = holder /\ UNCHANGED <<disk, stage, job, book, history>>
    BY AtWork DEF Present, Verify, Stamp, OpOK, RowOK, TargetOK, Placing
  <1>2. TypeOK'
    BY <1>1, PublishingType DEF IInv, OpOK, Publishing
  <1>3. JobOK' /\ BookOK' /\ VouchedIsGenuine'
    BY <1>1 DEF IInv, JobOK, BookOK, VouchedIsGenuine, history
  <1>4. CASE Present(a)
    <2>1. /\ op'[a] = [o EXCEPT !.pc = "verify"] /\ \A b \in Actors \ {a} : op'[b] = op[b]
      BY <1>4, GotoIs DEF Present, IInv
    <2>2. OpOK(a)'
      BY <1>1, <1>4, <2>1 DEF OpOK, RowOK, TargetOK, StampsOK, TodoOK, ErrorOK, Staging, Placing, Op, Kind, Present
    <2> QED
      BY <1>1, <1>2, <1>3, <2>1, <2>2, Frame DEF IInv, Exclusive, Placing
  <1>5. CASE Verify(a)
    <2>1. /\ op'[a] = [o EXCEPT !.pc = "stamp", !.meddled = IF Trusted(a) THEN @ \cap {o.tgt} ELSE {}]
          /\ \A b \in Actors \ {a} : op'[b] = op[b]
      BY <1>5, BecomeIs DEF Verify, IInv
    <2>2. OpOK(a)'
      BY <1>1, <1>5, <2>1 DEF OpOK, RowOK, TargetOK, StampsOK, TodoOK, ErrorOK, Staging, Placing, Op, Kind, Verify, TargetGood, Trusted
    <2> QED
      BY <1>1, <1>2, <1>3, <2>1, <2>2, Frame DEF IInv, Exclusive, Placing
  <1>6. CASE Stamp(a)
    <2>1. /\ op'[a] = [o EXCEPT !.pc = "commit", !.known = {o.tgt}]
          /\ \A b \in Actors \ {a} : op'[b] = op[b]
      BY <1>6, BecomeIs DEF Stamp, IInv
    <2>2. OpOK(a)'
      BY <1>1, <1>6, <2>1 DEF OpOK, RowOK, TargetOK, StampsOK, TodoOK, ErrorOK, Staging, Placing, Op, Kind, Stamp
    <2> QED
      BY <1>1, <1>2, <1>3, <2>1, <2>2, Frame DEF IInv, Exclusive, Placing
  <1> QED
    BY <1>4, <1>5, <1>6

LEMMA CommitKeeps ==
    ASSUME IInv, NEW a \in Actors, Commit(a)
    PROVE  IInv'
  <1> DEFINE o == op[a]
  <1>1. /\ o \in Op /\ OpOK(a) /\ o.pc = "commit" /\ o.i \in Jobs /\ o.tgt \in Places
        /\ o.digest \in Contents /\ o.digest = job[o.i].content
        /\ disk[o.tgt] = o.digest \/ o.tgt \in o.meddled
    BY AtWork DEF Commit, OpOK, RowOK, TargetOK, StampsOK, Placing, IInv, JobOK
  <1>2. TypeOK'
    BY <1>1, PublishingType DEF IInv, OpOK, Publishing
  <1>3. /\ op'[a] = [o EXCEPT !.pc = "tidy"] /\ \A b \in Actors \ {a} : op'[b] = op[b]
    BY GotoIs DEF Commit, IInv
  <1>4. /\ holder' = holder /\ UNCHANGED <<disk, stage>>
        /\ job'[o.i] = [job[o.i] EXCEPT !.state = "done"]
        /\ \A i \in Jobs \ {o.i} : job'[i] = job[i]
        /\ book'[o.digest] = [in |-> TRUE, at |-> o.tgt, vouched |-> o.tgt \in o.known]
        /\ \A c \in Contents \ {o.digest} : book'[c] = book[c]
        /\ slipped' = IF o.tgt \in o.meddled THEN slipped \cup {o.digest} ELSE slipped \ {o.digest}
    BY <1>1 DEF Commit, IInv, TypeOK
  <1>5. job'[o.i].state = "done"
    BY <1>1, <1>4 DEF IInv, TypeOK, Job
  <1>6. JobOK'
    BY <1>4, <1>5 DEF IInv, JobOK
  <1>7. BookOK'
    BY <1>1, <1>4 DEF IInv, BookOK
  <1>8. VouchedIsGenuine'
    BY <1>1, <1>4 DEF IInv, VouchedIsGenuine
  <1>9. OpOK(a)'
    <2>1. RowOK(a)' /\ TargetOK(a)' /\ StampsOK(a)' /\ ErrorOK(a)'
      BY <1>1, <1>3, <1>5 DEF OpOK, RowOK, TargetOK, StampsOK, ErrorOK, Staging, Placing, Op
    <2>2. TodoOK(a)'
      <3>1. o.todo \subseteq Jobs /\ op'[a].todo = o.todo /\ op'[a].i = o.i /\ op'[a].mode = o.mode
            /\ op'[a].pc = "tidy"
        BY <1>1, <1>3 DEF Op
      <3>2. o.mode = "recover" =>
              /\ o.i \notin o.todo
              /\ \A i \in o.todo : job[i].state \in {"copying", "ready"}
              /\ \A i \in Jobs : job[i].state = "copying" => i \in o.todo
        BY <1>1 DEF OpOK, TodoOK
      <3> QED
        BY <1>4, <1>5, <3>1, <3>2 DEF TodoOK
    <2> QED
      BY <2>1, <2>2 DEF OpOK
  <1> QED
    BY <1>1, <1>2, <1>3, <1>4, <1>6, <1>7, <1>8, <1>9, Frame DEF IInv, Exclusive

LEMMA TidyDiscardKeep ==
    ASSUME IInv, NEW a \in Actors, Tidy(a) \/ Discard(a)
    PROVE  IInv'
  <1> DEFINE o == op[a]
  <1>1. /\ o \in Op /\ OpOK(a) /\ o.pc \in {"tidy", "discard"} /\ o.i \in Jobs
        /\ holder' = holder /\ UNCHANGED <<disk, job, book, history>>
    BY AtWork DEF Tidy, Discard, OpOK, RowOK
  <1>2. TypeOK'
    BY PublishingType, EndingType DEF IInv, OpOK, Publishing
  <1>3. JobOK' /\ BookOK' /\ VouchedIsGenuine'
    BY <1>1 DEF IInv, JobOK, BookOK, VouchedIsGenuine, history
  <1>4. PICK s \in {"release", "next"} : Goto(a, s) /\ (s = "next" => o.mode = "recover")
    BY <1>1 DEF Tidy, Discard, Op
  <1>5. op'[a] = [o EXCEPT !.pc = s] /\ \A b \in Actors \ {a} : op'[b] = op[b]
    BY <1>4, GotoIs DEF IInv
  <1>6. OpOK(a)'
    BY <1>1, <1>4, <1>5 DEF OpOK, RowOK, TargetOK, StampsOK, TodoOK, ErrorOK, Staging, Placing, Op, Kind
  <1> QED
    BY <1>1, <1>2, <1>3, <1>5, <1>6, Frame DEF IInv, Exclusive

LEMMA RaiseKeeps ==
    ASSUME IInv, NEW a \in Actors, NEW e \in {"transient", "fatal"}, Raise(a, e),
           op[a].pc \in Working
    PROVE  IInv'
  <1> DEFINE o == op[a]
  <1>1. /\ o \in Op /\ OpOK(a) /\ o.i \in Jobs
        /\ holder' = holder /\ UNCHANGED <<disk, stage, job, book, history>>
    BY AtWork DEF Raise, OpOK, RowOK, Working, Staging, Placing
  <1>2. TypeOK'
    BY RaiseType DEF IInv
  <1>3. JobOK' /\ BookOK' /\ VouchedIsGenuine'
    BY <1>1 DEF IInv, JobOK, BookOK, VouchedIsGenuine, history
  <1>4. /\ op'[a] = [o EXCEPT !.err = e, !.pc = IF o.mode = "import" THEN "handle" ELSE "settle"]
        /\ \A b \in Actors \ {a} : op'[b] = op[b]
    BY BecomeIs DEF Raise, IInv
  <1>5. OpOK(a)'
    BY <1>1, <1>4 DEF OpOK, RowOK, TargetOK, StampsOK, TodoOK, ErrorOK, Staging, Placing, Op, Kind, Working
  <1>6. o.pc # "idle"
    BY DEF Working
  <1> QED
    BY <1>1, <1>2, <1>3, <1>4, <1>5, <1>6, Frame DEF IInv, Exclusive

LEMMA HandleKeeps ==
    ASSUME IInv, NEW a \in Actors, Handle(a)
    PROVE  IInv'
  <1> DEFINE o == op[a]
  <1>1. /\ o \in Op /\ OpOK(a) /\ o.pc = "handle" /\ o.i \in Jobs /\ o.err # "none"
        /\ job[o.i].state = "ready" => o.ready
        /\ holder' = holder /\ UNCHANGED <<disk, stage, book, history>>
    BY AtWork DEF Handle, OpOK, RowOK, ErrorOK
  <1>2. TypeOK'
    BY EndingType DEF IInv
  <1>3. /\ op'[a] = [o EXCEPT !.pc = IF Keep(a) THEN "release" ELSE "discard"]
        /\ \A b \in Actors \ {a} : op'[b] = op[b]
    BY GotoIs DEF Handle, IInv
  <1>4. job'[o.i].state = job[o.i].state \/ job'[o.i].state = Ended(a)
    BY <1>1 DEF Handle, IInv, TypeOK, Job
  <1>5. /\ job'[o.i].content = job[o.i].content /\ job'[o.i].path = job[o.i].path
        /\ job'[o.i].kind = job[o.i].kind /\ \A i \in Jobs \ {o.i} : job'[i] = job[i]
    BY <1>1 DEF Handle, IInv, TypeOK, Job
  <1>6. JobOK'
    <2>1. job'[o.i].state = "ready" => job[o.i].state = "ready"
      BY <1>1, <1>4 DEF Ended, Keep, OpOK, ErrorOK
    <2> QED
      BY <1>5, <2>1 DEF IInv, JobOK
  <1>7. BookOK' /\ VouchedIsGenuine'
    BY <1>1 DEF IInv, BookOK, VouchedIsGenuine, history
  <1>8. OpOK(a)'
    BY <1>1, <1>3, <1>4 DEF OpOK, RowOK, TargetOK, StampsOK, TodoOK, ErrorOK, Staging, Placing, Op, Kind, Keep, Ended
  <1> QED
    BY <1>1, <1>2, <1>3, <1>6, <1>7, <1>8, Frame DEF IInv, Exclusive

LEMMA ReleaseCrashKeep ==
    ASSUME IInv, NEW a \in Actors, Release(a) \/ Crash(a)
    PROVE  IInv'
  <1>1. op[a].pc # "idle" /\ UNCHANGED <<disk, stage, job, book, history>>
    BY DEF Release, Crash
  <1>2. TypeOK'
    BY EndingType DEF IInv
  <1>3. JobOK' /\ BookOK' /\ VouchedIsGenuine'
    BY <1>1 DEF IInv, JobOK, BookOK, VouchedIsGenuine, history
  <1>4. op'[a] = IdleOp /\ \A b \in Actors \ {a} : op'[b] = op[b]
    BY BecomeIs DEF Release, Crash, IInv
  <1>5. op'[a].pc = "idle"
    BY <1>4 DEF IdleOp
  <1> QED
    BY <1>1, <1>2, <1>3, <1>4, <1>5, IdleIsOK, Frame

-----------------------------------------------------------------------------
(* Recovery.                                                               *)

LEMMA RecoverKeeps ==
    ASSUME IInv, NEW a \in Actors, Recover(a)
    PROVE  IInv'
  <1>1. holder = Nobody /\ holder' = a /\ UNCHANGED <<disk, stage, job, book, history>>
    BY DEF Recover, Free
  <1>2. TypeOK'
    BY AtWork, RecoveringType DEF IInv, Recovering, OpOK
  <1>3. JobOK' /\ BookOK' /\ VouchedIsGenuine'
    BY <1>1 DEF IInv, JobOK, BookOK, VouchedIsGenuine, history
  <1>4. /\ op'[a] = [IdleOp EXCEPT !.pc = "next", !.mode = "recover",
                       !.todo = {i \in Jobs : job[i].state \in {"copying", "ready"}}]
        /\ \A b \in Actors \ {a} : op'[b] = op[b]
    BY BecomeIs DEF Recover, IInv
  <1>5. OpOK(a)'
    BY <1>1, <1>4 DEF OpOK, RowOK, TargetOK, StampsOK, TodoOK, ErrorOK, Staging, Placing, Op, Kind, IdleOp, Jobs, NoJob
  <1> QED
    BY <1>1, <1>2, <1>3, <1>4, <1>5, Frame

LEMMA RecoverCopyingKeeps ==
    ASSUME IInv, NEW a \in Actors, NEW i \in Jobs, RecoverCopying(a, i)
    PROVE  IInv'
  <1> DEFINE o == op[a]
  <1>1. /\ o \in Op /\ OpOK(a) /\ o.pc = "next" /\ i \in o.todo
        /\ holder' = holder /\ UNCHANGED <<disk, stage, book, history>>
    BY AtWork DEF RecoverCopying, Oldest
  <1>2. TypeOK'
    BY AtWork, RecoveringType DEF IInv, Recovering, OpOK
  <1>3. /\ op'[a] = [o EXCEPT !.todo = @ \ {i}] /\ \A b \in Actors \ {a} : op'[b] = op[b]
    BY DEF RecoverCopying, IInv, TypeOK
  <1>4. job'[i].state = "failed" /\ \A k \in Jobs \ {i} : job'[k] = job[k]
    BY DEF RecoverCopying, IInv, TypeOK, Job
  <1>5. JobOK'
    BY <1>4 DEF IInv, JobOK
  <1>6. BookOK' /\ VouchedIsGenuine'
    BY <1>1 DEF IInv, BookOK, VouchedIsGenuine, history
  <1>7. OpOK(a)'
    <2>1. op'[a].pc = "next" /\ op'[a].todo = o.todo \ {i} /\ op'[a].i = o.i /\ op'[a].mode = o.mode
          /\ o.todo \subseteq Jobs /\ o.mode = "recover"
      BY <1>1, <1>3 DEF Op, OpOK, RowOK
    <2>2. TodoOK(a)'
      BY <1>1, <1>4, <2>1 DEF OpOK, TodoOK
    <2> QED
      BY <2>1, <2>2 DEF OpOK, RowOK, TargetOK, StampsOK, ErrorOK, Staging, Placing
  <1> QED
    BY <1>1, <1>2, <1>3, <1>5, <1>6, <1>7, Frame DEF IInv, Exclusive

LEMMA RecoverReadyKeeps ==
    ASSUME IInv, NEW a \in Actors, NEW i \in Jobs, RecoverReady(a, i)
    PROVE  IInv'
  <1> DEFINE o == op[a]
  <1>1. /\ o \in Op /\ OpOK(a) /\ o.pc = "next" /\ i \in o.todo
        /\ holder' = holder /\ UNCHANGED <<disk, stage, job, book, history>>
    BY AtWork DEF RecoverReady, Oldest
  <1>2. TypeOK'
    BY AtWork, RecoveringType DEF IInv, Recovering, OpOK
  <1>3. /\ op'[a] = [IdleOp EXCEPT !.pc = "look", !.mode = "recover", !.i = i, !.ready = TRUE,
                       !.digest = job[i].content, !.todo = o.todo \ {i}]
        /\ \A b \in Actors \ {a} : op'[b] = op[b]
    BY BecomeIs DEF RecoverReady, IInv
  <1>4. o.mode = "recover" /\ job[i].state = "ready"
    BY <1>1 DEF RecoverReady, OpOK, TodoOK, RowOK
  <1>5. JobOK' /\ BookOK' /\ VouchedIsGenuine'
    BY <1>1 DEF IInv, JobOK, BookOK, VouchedIsGenuine, history
  <1>7. OpOK(a)'
    <2>1. TodoOK(a)'
      BY <1>1, <1>3, <1>4 DEF OpOK, TodoOK, Op, IdleOp
    <2> QED
      BY <1>1, <1>3, <1>4, <2>1 DEF OpOK, RowOK, TargetOK, StampsOK, ErrorOK, Staging, Placing, IdleOp
  <1> QED
    BY <1>1, <1>2, <1>3, <1>5, <1>7, Frame DEF IInv, Exclusive

LEMMA SettleKeeps ==
    ASSUME IInv, NEW a \in Actors, Settle(a)
    PROVE  IInv'
  <1> DEFINE o == op[a]
  <1>1. /\ o \in Op /\ OpOK(a) /\ o.pc = "settle" /\ o.i \in Jobs /\ o.mode = "recover"
        /\ holder' = holder /\ UNCHANGED <<disk, stage, book, history>>
    BY AtWork DEF Settle, OpOK, RowOK, ErrorOK
  <1>2. TypeOK'
    BY AtWork, RecoveringType DEF IInv, Recovering, OpOK
  <1>3. /\ op'[a] = [o EXCEPT !.pc = "next"] /\ \A b \in Actors \ {a} : op'[b] = op[b]
    BY GotoIs DEF Settle, IInv
  <1>4. /\ job'[o.i].state \in {job[o.i].state, "failed"}
        /\ job'[o.i].content = job[o.i].content /\ job'[o.i].path = job[o.i].path
        /\ job'[o.i].kind = job[o.i].kind /\ \A k \in Jobs \ {o.i} : job'[k] = job[k]
    BY <1>1 DEF Settle, IInv, TypeOK, Job
  <1>5. JobOK'
    BY <1>4 DEF IInv, JobOK
  <1>6. BookOK' /\ VouchedIsGenuine'
    BY <1>1 DEF IInv, BookOK, VouchedIsGenuine, history
  <1>7. OpOK(a)'
    <2>1. op'[a].pc = "next" /\ op'[a].todo = o.todo /\ op'[a].i = o.i /\ op'[a].mode = o.mode
          /\ o.todo \subseteq Jobs
      BY <1>1, <1>3 DEF Op
    <2>2. TodoOK(a)'
      BY <1>1, <1>4, <2>1 DEF OpOK, TodoOK
    <2> QED
      BY <1>1, <2>1, <2>2 DEF OpOK, RowOK, TargetOK, StampsOK, ErrorOK, Staging, Placing
  <1> QED
    BY <1>1, <1>2, <1>3, <1>5, <1>6, <1>7, Frame DEF IInv, Exclusive

LEMMA SweepAbandonKeep ==
    ASSUME IInv, NEW a \in Actors, Sweep(a) \/ Abandon(a)
    PROVE  IInv'
  <1> DEFINE o == op[a]
  <1>1. /\ o \in Op /\ OpOK(a) /\ o.pc \in {"next", "settle"}
        /\ holder' = holder /\ UNCHANGED <<disk, job, book, history>>
    BY AtWork DEF Sweep, Abandon
  <1>2. TypeOK'
    BY AtWork, RecoveringType DEF IInv, Recovering, OpOK
  <1>3. JobOK' /\ BookOK' /\ VouchedIsGenuine'
    BY <1>1 DEF IInv, JobOK, BookOK, VouchedIsGenuine, history
  <1>4. PICK s \in {"swept", "release"} : Goto(a, s) /\ (s = "swept" => Sweep(a))
    BY DEF Sweep, Abandon
  <1>8. o.mode = "recover"
    BY <1>1 DEF OpOK, RowOK, ErrorOK
  <1>5. op'[a] = [o EXCEPT !.pc = s] /\ \A b \in Actors \ {a} : op'[b] = op[b]
    BY <1>4, GotoIs DEF IInv
  <1>6. s = "swept" => o.todo = {} /\ \A i \in Jobs : stage'[i] # Empty => job[i].state = "ready"
    BY <1>4 DEF Sweep, Stale
  <1>7. OpOK(a)'
    BY <1>1, <1>5, <1>6, <1>8 DEF OpOK, RowOK, TargetOK, StampsOK, TodoOK, ErrorOK, Staging, Placing, Op, Kind
  <1> QED
    BY <1>1, <1>2, <1>3, <1>5, <1>7, Frame DEF IInv, Exclusive

-----------------------------------------------------------------------------
(* The user, removals and availability checks, at any time.                *)

LEMMA TouchKeeps ==
    ASSUME IInv, NEW p \in Places, Touch(p)
    PROVE  IInv'
  <1>1. /\ UNCHANGED <<stage, job, holder, slipped>>
        /\ \A q \in Places \ {p} : disk'[q] = disk[q]
        /\ \A c \in Contents : book'[c] = [book[c] EXCEPT !.vouched = @ /\ book[c].at # p]
    BY DEF Touch, IInv, TypeOK
  <1>2. TypeOK'
    BY UserType DEF IInv, User
  <1>3. \A c \in Contents : /\ book'[c].in = book[c].in /\ book'[c].at = book[c].at
                            /\ book'[c].vouched => book[c].vouched /\ book[c].at # p
    <2> SUFFICES ASSUME NEW c \in Contents
                 PROVE  /\ book'[c].in = book[c].in /\ book'[c].at = book[c].at
                        /\ book'[c].vouched => book[c].vouched /\ book[c].at # p
      OBVIOUS
    <2>1. book[c] \in [in: BOOLEAN, at: Places \cup {Nowhere}, vouched: BOOLEAN]
      BY DEF IInv, TypeOK
    <2> QED
      BY <1>1, <2>1
  <1>4. JobOK' /\ BookOK'
    BY <1>1, <1>3 DEF IInv, JobOK, BookOK
  <1>5. VouchedIsGenuine'
    BY <1>1, <1>3 DEF IInv, VouchedIsGenuine, BookOK
  <1>6. ASSUME NEW a \in Actors
        PROVE  /\ OpOK(a)' /\ op'[a].pc = op[a].pc
    <2> DEFINE o == op[a]
    <2>1. o \in Op /\ OpOK(a)
      BY AtWork
    <2>2. CASE o.pc = "idle"
      BY <2>2, IdleIsOK DEF Touch
    <2>3. CASE o.pc # "idle"
      <3>1. op'[a] = [o EXCEPT !.known = @ \ {p}, !.meddled = @ \cup {p}]
        BY <2>3 DEF Touch
      <3>2. /\ op'[a].known = o.known \ {p} /\ op'[a].meddled = o.meddled \cup {p}
            /\ op'[a].pc = o.pc /\ op'[a].mode = o.mode /\ op'[a].i = o.i /\ op'[a].digest = o.digest
            /\ op'[a].tgt = o.tgt /\ op'[a].stageOK = o.stageOK /\ op'[a].sure = o.sure
            /\ op'[a].ready = o.ready /\ op'[a].err = o.err /\ op'[a].todo = o.todo
            /\ op'[a].copy = o.copy /\ op'[a].spoiled = o.spoiled
        BY <2>1, <3>1 DEF Op
      <3>3. RowOK(a)' /\ ErrorOK(a)' /\ TodoOK(a)'
        BY <1>1, <2>1, <3>2 DEF OpOK, RowOK, ErrorOK, TodoOK, Kind, Staging, Placing
      <3>4. TargetOK(a)'
        <4>1. o.pc \in Placing => o.digest \in Contents
          BY <2>1 DEF OpOK, RowOK, IInv, JobOK
        <4> QED
          BY <1>1, <1>3, <2>1, <3>2, <4>1 DEF OpOK, TargetOK
      <3>5. StampsOK(a)'
        <4>1. o.known \subseteq Places
          BY <2>1 DEF Op
        <4>2. o.pc \in Placing => o.tgt \in Places
          BY <2>1 DEF OpOK, TargetOK
        <4> QED
          BY <1>1, <2>1, <3>2, <4>1, <4>2 DEF OpOK, StampsOK, Placing
      <3> QED
        BY <3>2, <3>3, <3>4, <3>5 DEF OpOK
    <2> QED
      BY <2>2, <2>3 DEF Touch
  <1> QED
    BY <1>1, <1>2, <1>4, <1>5, <1>6 DEF IInv, Exclusive

LEMMA SpoilKeeps ==
    ASSUME IInv, NEW i \in Jobs, Spoil(i)
    PROVE  IInv'
  <1>1. /\ UNCHANGED <<disk, job, book, holder, slipped>> /\ stage[i] # Empty
        /\ \A k \in Jobs \ {i} : stage'[k] = stage[k]
    BY NamesAssumption DEF Spoil, IInv, TypeOK
  <1>2. TypeOK'
    BY UserType DEF IInv, User
  <1>3. JobOK' /\ BookOK' /\ VouchedIsGenuine'
    BY <1>1 DEF IInv, JobOK, BookOK, VouchedIsGenuine
  <1>4. ASSUME NEW a \in Actors
        PROVE  /\ OpOK(a)' /\ op'[a].pc = op[a].pc
    <2> DEFINE o == op[a]
    <2>1. o \in Op /\ OpOK(a)
      BY AtWork
    <2>2. op'[a] = [o EXCEPT !.stageOK = @ /\ o.i # i,
                             !.spoiled = @ \/ (o.i = i /\ o.pc \in {"restamp", "link"})]
      BY DEF Spoil
    <2>3. /\ op'[a].stageOK = (o.stageOK /\ o.i # i) /\ op'[a].copy = o.copy
          /\ op'[a].spoiled = (o.spoiled \/ (o.i = i /\ o.pc \in {"restamp", "link"}))
          /\ op'[a].pc = o.pc /\ op'[a].mode = o.mode /\ op'[a].i = o.i /\ op'[a].digest = o.digest
          /\ op'[a].tgt = o.tgt /\ op'[a].known = o.known /\ op'[a].sure = o.sure
          /\ op'[a].ready = o.ready /\ op'[a].err = o.err /\ op'[a].todo = o.todo
          /\ op'[a].meddled = o.meddled
      BY <2>1, <2>2 DEF Op
    <2>4. RowOK(a)' /\ ErrorOK(a)' /\ TargetOK(a)'
      BY <1>1, <2>1, <2>3 DEF OpOK, RowOK, ErrorOK, TargetOK, Kind, Staging, Placing
    <2>5. TodoOK(a)'
      BY <1>1, <2>1, <2>3 DEF OpOK, TodoOK
    <2>6. StampsOK(a)'
      <3>1. o.i # i /\ o.i \in Jobs => stage'[o.i] = stage[o.i]
        BY <1>1
      <3>2. o.pc \in {"validate", "look"} \cup Placing => o.i \in Jobs
        BY <2>1 DEF OpOK, RowOK, Staging
      <3>3. /\ op'[a].pc \in {"validate", "look", "publish"} /\ op'[a].stageOK => stage'[op'[a].i] = op'[a].digest
            /\ op'[a].pc \in {"restamp", "link"} => stage'[op'[a].i] = op'[a].digest \/ op'[a].spoiled
        BY <2>1, <2>3, <3>1, <3>2 DEF OpOK, StampsOK, Placing
      <3> QED
        BY <1>1, <2>1, <2>3, <3>3 DEF OpOK, StampsOK, Placing
    <2> QED
      BY <2>3, <2>4, <2>5, <2>6 DEF OpOK
  <1> QED
    BY <1>1, <1>2, <1>3, <1>4 DEF IInv, Exclusive

LEMMA RecordsKeep ==
    ASSUME IInv, NEW c \in Contents, Availability(c) \/ RemoveBook(c)
    PROVE  IInv'
  <1>1. /\ UNCHANGED <<disk, stage, job, holder, op>>
        /\ \A d \in Contents \ {c} : book'[d] = book[d] /\ (d \in slipped => d \in slipped')
    BY DEF Availability, RemoveBook, IInv, TypeOK, history
  <1>2. TypeOK'
    BY UserType DEF IInv, User
  <1>3. JobOK'
    BY <1>1 DEF IInv, JobOK
  <1>4. CASE Availability(c)
    <2>1. /\ book'[c].in = book[c].in /\ book'[c].at = book[c].at /\ disk[book[c].at] = c
          /\ slipped' = slipped
      BY <1>4 DEF Availability, IInv, TypeOK, history
    <2>2. BookOK' /\ VouchedIsGenuine'
      BY <1>1, <2>1 DEF IInv, BookOK, VouchedIsGenuine
    <2>3. ASSUME NEW a \in Actors
          PROVE  OpOK(a)'
      <3>1. OpOK(a) /\ (op[a].pc \in Placing => op[a].digest \in Contents)
        BY AtWork DEF OpOK, RowOK, IInv, JobOK
      <3>2. TargetOK(a)'
        BY <1>1, <2>1, <3>1 DEF OpOK, TargetOK
      <3> QED
        BY <1>1, <3>1, <3>2 DEF OpOK, RowOK, StampsOK, TodoOK, ErrorOK, Kind
    <2> QED
      BY <1>1, <1>2, <1>3, <2>2, <2>3 DEF IInv, Exclusive
  <1>5. CASE RemoveBook(c)
    <2>1. ~book'[c].in /\ holder = Nobody
      BY <1>5 DEF RemoveBook, NoBook, IInv, TypeOK
    <2>2. BookOK' /\ VouchedIsGenuine'
      BY <1>1, <2>1 DEF IInv, BookOK, VouchedIsGenuine
    <2>3. \A a \in Actors : op'[a].pc = "idle"
      BY <1>1, <2>1, NamesAssumption DEF IInv, Exclusive
    <2> QED
      BY <1>1, <1>2, <1>3, <2>2, <2>3, IdleIsOK DEF IInv, Exclusive
  <1> QED
    BY <1>4, <1>5

-----------------------------------------------------------------------------
LEMMA InitHolds == Init => IInv
  <1> SUFFICES ASSUME Init
               PROVE  IInv
    OBVIOUS
  <1>1. TypeOK
    BY IdleType, CountAssumption DEF Init, TypeOK, File, Job, JobStates, NoBook
  <1>2. \A a \in Actors : op[a] = IdleOp /\ op[a].pc = "idle"
    BY DEF Init, IdleOp
  <1>3. \A a \in Actors : OpOK(a)
    BY <1>2 DEF OpOK, RowOK, TargetOK, StampsOK, TodoOK, ErrorOK, Staging, Placing
  <1>4. JobOK /\ BookOK /\ VouchedIsGenuine /\ Exclusive
    BY <1>2 DEF Init, JobOK, BookOK, VouchedIsGenuine, Exclusive, NoBook
  <1> QED
    BY <1>1, <1>3, <1>4 DEF IInv

LEMMA NextKeeps == IInv /\ [Next]_vars => IInv'
  <1> SUFFICES ASSUME IInv, [Next]_vars
               PROVE  IInv'
    OBVIOUS
  <1>1. CASE UNCHANGED vars
    BY <1>1 DEF vars, history, IInv, TypeOK, Exclusive, JobOK, BookOK, VouchedIsGenuine, OpOK, RowOK, TargetOK, StampsOK, TodoOK, ErrorOK, Staging, Placing, Op, Kind
  <1>2. ASSUME NEW a \in Actors, Import(a)
        PROVE  IInv'
    BY <1>2, BeginKeeps, StagingKeeps, ValidatedKeeps, HandleKeeps, TidyDiscardKeep DEF Import
  <1>3. ASSUME NEW a \in Actors, Publishing(a)
        PROVE  IInv'
    BY <1>3, LookKeeps, PublishKeeps, StageStepsKeep, PresentVerifyStampKeep, CommitKeeps, TidyDiscardKeep DEF Publishing
  <1>4. ASSUME NEW a \in Actors, Recovering(a)
        PROVE  IInv'
    BY <1>4, RecoverKeeps, SettleKeeps, SweepAbandonKeep, RecoverCopyingKeeps, RecoverReadyKeeps
       DEF Recovering
  <1>5. ASSUME NEW a \in Actors, FailForGood(a) \/ FailForNow(a)
        PROVE  IInv'
    BY <1>5, RaiseKeeps DEF FailForGood, FailForNow, Wrong, MayFail, Working
  <1>6. ASSUME NEW a \in Actors, Release(a) \/ Crash(a)
        PROVE  IInv'
    BY <1>6, ReleaseCrashKeep
  <1>7. CASE User
    BY <1>7, TouchKeeps, SpoilKeeps, RecordsKeep DEF User
  <1> QED
    BY <1>1, <1>2, <1>3, <1>4, <1>5, <1>6, <1>7 DEF Next

LEMMA Invariance == Spec => []IInv
  BY InitHolds, NextKeeps, PTL DEF Spec

-----------------------------------------------------------------------------
(* The theorems.                                                           *)

\* Files, rows, the lock and the operations keep their types.
THEOREM TypeCorrect == Spec => []TypeOK
  <1>1. IInv => TypeOK
    BY DEF IInv
  <1> QED
    BY <1>1, Invariance, PTL

\* A manifest vouches only for the registered archive, or for what the user put in
\* its place between the importer's last check and its commit.
THEOREM ManifestIsTrue == Spec => []VouchedIsGenuine
  <1>1. IInv => VouchedIsGenuine
    BY DEF IInv
  <1> QED
    BY <1>1, Invariance, PTL

\* No recovery and no other import touches the row or the stage of one at work.
THEOREM ImportsUndisturbed == Spec => []LiveImportIsSpared
  <1>1. IInv => LiveImportIsSpared
    BY AtWork DEF LiveImportIsSpared, OpOK, RowOK, StampsOK, Staging, Placing
  <1> QED
    BY <1>1, Invariance, PTL

\* A completed recovery leaves nothing of a dead import behind.
THEOREM RecoveryIsComplete == Spec => []RecoveryLeavesNothing
  <1>1. IInv => RecoveryLeavesNothing
    BY AtWork DEF RecoveryLeavesNothing, OpOK, RowOK, TodoOK
  <1> QED
    BY <1>1, Invariance, PTL

\* Imports write to empty places only, to those of their content only, and whole archives
\* only, unless the stage was written over between its check and its publication.
THEOREM PublishesSafely == Spec => PublicationIsSafe
  <1> DEFINE Safe == \A p \in Places : disk'[p] # disk[p] =>
                       /\ disk[p] = Empty
                       /\ \E a \in Actors : /\ op[a].pc \in {"link", "rename"}
                                            /\ p \in {Managed(op[a].digest), book[op[a].digest].at}
                                            /\ disk'[p] = op[a].digest \/ op[a].spoiled
  <1>1. IInv /\ [Next]_vars => [touches' = touches => Safe]_vars
    <2> SUFFICES ASSUME IInv, Next, touches' = touches, NEW p \in Places, disk'[p] # disk[p]
                 PROVE  /\ disk[p] = Empty
                        /\ \E a \in Actors : /\ op[a].pc \in {"link", "rename"}
                                             /\ p \in {Managed(op[a].digest), book[op[a].digest].at}
                                             /\ disk'[p] = op[a].digest \/ op[a].spoiled
      OBVIOUS
    <2>1. touches + 1 # touches
      BY DEF IInv, TypeOK
    <2>2. ~User
      BY <2>1 DEF User, Touch, Spoil, Availability, RemoveBook
    <2>3. PICK a \in Actors : Link(a) \/ RenameCopy(a)
      BY <2>2 DEF Next, Import, Publishing, Recovering, FailForGood, FailForNow, Raise, Release, Crash,
                  BeginCopy, BeginIndex, Begin, StageLinked, StageCopying, StageCopied, StageIndexed,
                  Validated, Handle, Discard, Look, Present, CheckStage, Restamp, CopyStage, Occupied,
                  Verify, Stamp, Commit, Tidy, Recover, Settle, Sweep, Abandon, RecoverCopying, RecoverReady
    <2>4. /\ OpOK(a) /\ op[a].pc \in {"link", "rename"} /\ op[a].i \in Jobs /\ op[a].tgt \in Places
          /\ Kind(a) = "copy" /\ job[op[a].i].state = "ready" /\ op[a].digest = job[op[a].i].content
      BY <2>3, AtWork DEF Link, RenameCopy, OpOK, RowOK, TargetOK, Placing
    <2>5. PICK x, known : Publish(a, x, known) /\ (x = op[a].digest \/ op[a].spoiled)
      BY <2>3, <2>4 DEF Link, RenameCopy, OpOK, StampsOK
    <2>6. p = op[a].tgt /\ disk[p] = Empty /\ disk'[p] = x
      BY <2>4, <2>5 DEF Publish, IInv, TypeOK
    <2>7. job[op[a].i].path = Managed(op[a].digest)
      BY <2>4 DEF IInv, JobOK, Kind
    <2> QED
      BY <2>4, <2>5, <2>6, <2>7 DEF OpOK, TargetOK, Placing
  <1> QED
    BY <1>1, Invariance, PTL DEF Spec, PublicationIsSafe

\* Only an import that failed for good drops a ready archive.
THEOREM StageIsKept == Spec => ReadyKeepsStage
  <1>1. IInv /\ [Next]_vars =>
          [\A i \in Jobs : job[i].state = "ready" /\ stage[i] # Empty /\ stage'[i] = Empty =>
             \E a \in Actors : op[a].i = i /\ op[a].pc = "discard" /\ op[a].err = "fatal"]_vars
    <2> SUFFICES ASSUME IInv, Next, NEW i \in Jobs,
                        job[i].state = "ready", stage[i] # Empty, stage'[i] = Empty
                 PROVE  \E a \in Actors : op[a].i = i /\ op[a].pc = "discard" /\ op[a].err = "fatal"
      OBVIOUS
    <2>1. \A c \in Contents : c # Empty
      BY NamesAssumption
    <2>2. ASSUME NEW a \in Actors, Import(a) \/ Publishing(a)
          PROVE  Discard(a) \/ Tidy(a)
      <3>1. op[a].pc \in {"stage", "fill"} =>
              op[a].i \in Jobs /\ (Kind(a) = "copy" => op[a].digest \in Contents)
        BY AtWork DEF OpOK, RowOK, Staging
      <3>2. op[a].pc = "fill" => Kind(a) = "copy"
        BY AtWork DEF OpOK, RowOK, Staging
      <3> QED
        BY <2>1, <2>2, <3>1, <3>2, NamesAssumption
           DEF Import, Publishing, BeginCopy, BeginIndex, Begin, StageLinked, StageCopying, StageCopied,
               StageIndexed, Validated, Handle, Look, CheckStage, Restamp, Link, CopyStage, RenameCopy, Publish,
               Occupied, Present, Verify, Stamp, Commit, IInv, TypeOK
    <2>3. ASSUME NEW a \in Actors, Discard(a) \/ Tidy(a)
          PROVE  op[a].i = i /\ op[a].pc = "discard" /\ op[a].err = "fatal"
      <3>1. op[a].i \in Jobs /\ op[a].i = i
        BY <2>3, AtWork DEF Discard, Tidy, Unstaged, OpOK, RowOK, IInv, TypeOK
      <3> QED
        BY <2>3, <3>1, AtWork DEF Discard, Tidy, OpOK, RowOK, ErrorOK
    <2>4. ASSUME NEW a \in Actors, Recovering(a)
          PROVE  FALSE
      BY <2>4 DEF Recovering, Recover, Settle, Sweep, Stale, Abandon, RecoverCopying, RecoverReady
    <2>5. ASSUME NEW a \in Actors, FailForGood(a) \/ FailForNow(a) \/ Release(a) \/ Crash(a)
          PROVE  FALSE
      BY <2>5 DEF FailForGood, FailForNow, Raise, Release, Crash
    <2>6. ~User
      BY NamesAssumption DEF User, Touch, Spoil, Availability, RemoveBook, IInv, TypeOK
    <2> QED
      BY <2>2, <2>3, <2>4, <2>5, <2>6 DEF Next
  <1> QED
    BY <1>1, Invariance, PTL DEF Spec, ReadyKeepsStage

\* No import begun before a removal can still register its book: a dead one stays
\* unfinished until a recovery fails it, and a ready one is of another content.
Outdated(c, i) ==
    /\ job[i].state # "absent"
    /\ job[i].state = "ready" => job[i].content # c
    /\ \A a \in Actors : op[a].pc \in Staging => op[a].i # i
RevokedAreOutdated == \A c \in Contents : \A i \in revoked[c] : Outdated(c, i)

\* A step after which a row is ready, with its content, only if it was so before, and
\* which brings no actor to work on another row, outdates no less.
LEMMA StaysOutdated ==
    ASSUME NEW c \in Contents, NEW i \in Jobs, Outdated(c, i),
           job'[i].state # "absent",
           job'[i].state = "ready" => job[i].state = "ready" /\ job'[i].content = job[i].content,
           \A a \in Actors : op'[a].pc \in Staging /\ op'[a].i = i => op[a].pc \in Staging /\ op[a].i = i
    PROVE  Outdated(c, i)'
  BY DEF Outdated

LEMMA OutdatedImport ==
    ASSUME IInv, NEW c \in Contents, NEW i \in Jobs, Outdated(c, i), NEW a \in Actors, Import(a)
    PROVE  Outdated(c, i)'
  <1>1. op[a] \in Op /\ OpOK(a)
    BY AtWork
  <1>2. CASE \E k \in Jobs : (\E d \in Contents : BeginCopy(a, k, d)) \/ \E p \in Places : BeginIndex(a, k, p)
    <2>1. PICK k \in Jobs : (\E row : Begin(a, k, row)) /\ op'[a].i = k /\ \A b \in Actors \ {a} : op'[b] = op[b]
      <3>1. CASE \E k \in Jobs, d \in Contents : BeginCopy(a, k, d)
        <4>1. PICK k \in Jobs, d \in Contents : BeginCopy(a, k, d)
          BY <3>1
        <4>2. /\ op'[a] = [IdleOp EXCEPT !.pc = "stage", !.i = k, !.digest = d]
              /\ \A b \in Actors \ {a} : op'[b] = op[b]
          BY <4>1, BecomeIs DEF BeginCopy, IInv
        <4> QED
          BY <4>1, <4>2 DEF BeginCopy, IdleOp
      <3>2. CASE \E k \in Jobs, p \in Places : BeginIndex(a, k, p)
        <4>1. PICK k \in Jobs, p \in Places : BeginIndex(a, k, p)
          BY <3>2
        <4>2. /\ op'[a] = [IdleOp EXCEPT !.pc = "stage", !.i = k, !.tgt = p, !.known = {p}]
              /\ \A b \in Actors \ {a} : op'[b] = op[b]
          BY <4>1, BecomeIs DEF BeginIndex, IInv
        <4> QED
          BY <4>1, <4>2 DEF BeginIndex, IdleOp
      <3> QED
        BY <1>2, <3>1, <3>2
    <2>2. k # i /\ job'[i] = job[i]
      BY <2>1 DEF Begin, Outdated, IInv, TypeOK
    <2> QED
      BY <2>1, <2>2 DEF Outdated
  <1>3. CASE StageLinked(a) \/ StageCopying(a) \/ StageCopied(a) \/ StageIndexed(a)
    <2>1. op[a].pc \in Staging /\ job' = job
      BY <1>3 DEF StageLinked, StageCopying, StageCopied, StageIndexed, Staging
    <2>2. op'[a].i = op[a].i /\ \A b \in Actors \ {a} : op'[b] = op[b]
      <3>1. CASE StageLinked(a) \/ StageCopied(a)
        <4>1. /\ op'[a] = [op[a] EXCEPT !.pc = "validate", !.stageOK = TRUE]
              /\ \A b \in Actors \ {a} : op'[b] = op[b]
          BY <3>1, BecomeIs DEF StageLinked, StageCopied, IInv
        <4> QED
          BY <1>1, <4>1 DEF Op
      <3>2. CASE StageCopying(a)
        <4>1. op'[a] = [op[a] EXCEPT !.pc = "fill"] /\ \A b \in Actors \ {a} : op'[b] = op[b]
          BY <3>2, GotoIs DEF StageCopying, IInv
        <4> QED
          BY <1>1, <4>1 DEF Op
      <3>3. CASE StageIndexed(a)
        <4>1. /\ op'[a] = [op[a] EXCEPT !.pc = "validate", !.digest = disk[op[a].tgt]]
              /\ \A b \in Actors \ {a} : op'[b] = op[b]
          BY <3>3, BecomeIs DEF StageIndexed, IInv
        <4> QED
          BY <1>1, <4>1 DEF Op
      <3> QED
        BY <1>3, <3>1, <3>2, <3>3
    <2> QED
      BY <2>1, <2>2 DEF Outdated
  <1>4. CASE Validated(a)
    <2>1. op[a].i \in Jobs /\ op[a].i # i
      BY <1>1, <1>4 DEF Validated, Outdated, OpOK, RowOK, Staging
    <2>2. job'[i] = job[i]
      BY <1>4, <2>1 DEF Validated, IInv, TypeOK
    <2>3. op'[a].pc = "look" /\ \A b \in Actors \ {a} : op'[b] = op[b]
      BY <1>1, <1>4 DEF Validated, Become, IInv, TypeOK, Op
    <2> QED
      BY <2>2, <2>3 DEF Outdated, Staging
  <1>5. CASE Handle(a) \/ Discard(a)
    <2>1. op'[a].pc \in {"release", "discard"} /\ \A b \in Actors \ {a} : op'[b] = op[b]
      BY <1>1, <1>5 DEF Handle, Discard, Goto, IInv, TypeOK, Op
    <2>2. CASE job' = job
      BY <2>1, <2>2 DEF Outdated, Staging
    <2>3. CASE Handle(a) /\ job' = [job EXCEPT ![op[a].i].state = Ended(a)]
      <3>1. /\ op[a].i \in Jobs /\ Ended(a) \in {"done", "ready", "failed"}
            /\ Ended(a) = "ready" => job[op[a].i].state = "ready"
        BY <1>1, <2>3 DEF Handle, Ended, Keep, OpOK, RowOK, ErrorOK
      <3>2. job[i] \in Job
        BY DEF IInv, TypeOK
      <3>3. job'[i].content = job[i].content /\ (i # op[a].i => job'[i] = job[i])
            /\ (i = op[a].i => job'[i].state = Ended(a))
        BY <2>3, <3>1, <3>2 DEF IInv, TypeOK, Job
      <3> QED
        BY <2>1, <3>1, <3>3, StaysOutdated DEF Outdated, Staging
    <2> QED
      BY <1>5, <2>2, <2>3 DEF Handle, Discard
  <1> QED
    BY <1>2, <1>3, <1>4, <1>5 DEF Import

\* Where a step of an actor leaves it.
LEMMA GoesTo ==
    ASSUME IInv, NEW a \in Actors
    PROVE  /\ \A x : Become(a, x) => op'[a] = x /\ \A b \in Actors \ {a} : op'[b] = op[b]
           /\ \A q : Goto(a, q) => op'[a].pc = q /\ \A b \in Actors \ {a} : op'[b] = op[b]
  <1>1. op[a] \in Op
    BY AtWork
  <1>2. \A q : [op[a] EXCEPT !.pc = q].pc = q
    BY <1>1 DEF Op
  <1> QED
    BY <1>2, BecomeIs, GotoIs DEF IInv

LEMMA OutdatedPublishing ==
    ASSUME IInv, NEW c \in Contents, NEW i \in Jobs, Outdated(c, i), NEW a \in Actors, Publishing(a)
    PROVE  Outdated(c, i)'
  <1>1. op[a] \in Op /\ OpOK(a)
    BY AtWork
  <1>5. op \in [Actors -> Op]
    BY DEF IInv, TypeOK
  <1>2. op'[a].pc \notin Staging /\ \A b \in Actors \ {a} : op'[b] = op[b]
    <2>1. CASE Present(a) \/ Commit(a) \/ Tidy(a)
      <3>1. Goto(a, "verify") \/ Goto(a, "tidy") \/ Goto(a, "release") \/ Goto(a, "next")
        BY <2>1 DEF Present, Commit, Tidy
      <3> QED
        BY <3>1, GoesTo DEF Staging
    <2>2. CASE Look(a)
      <3>1. PICK p, k, m : Become(a, [op[a] EXCEPT !.pc = "publish", !.tgt = p, !.sure = k, !.meddled = m])
        <4>1. /\ Become(a, [op[a] EXCEPT !.pc = "publish", !.tgt = job[op[a].i].path]) =>
                   Become(a, [op[a] EXCEPT !.pc = "publish", !.tgt = job[op[a].i].path,
                                           !.sure = op[a].sure, !.meddled = op[a].meddled])
          BY <1>1 DEF Become, Op
        <4> QED
          BY <2>2, <4>1 DEF Look
      <3> QED
        BY <1>1, <1>5, <3>1 DEF Become, Op, Staging
    <2>3. CASE CheckStage(a) \/ Restamp(a) \/ CopyStage(a) \/ Occupied(a)
      <3>1. CASE CheckStage(a)
        BY <1>1, <1>5, <3>1 DEF CheckStage, Become, Op, Staging
      <3>2. CASE Restamp(a)
        BY <1>1, <1>5, <3>2 DEF Restamp, Become, Op, Staging
      <3>3. CASE CopyStage(a)
        BY <1>1, <1>5, <3>3 DEF CopyStage, Become, Op, Staging
      <3>4. CASE Occupied(a)
        BY <1>1, <1>5, <3>4 DEF Occupied, Become, Op, Staging
      <3> QED
        BY <2>3, <3>1, <3>2, <3>3, <3>4
    <2>4. CASE Link(a) \/ RenameCopy(a)
      <3>1. PICK x, known : Publish(a, x, known)
        BY <2>4 DEF Link, RenameCopy
      <3>2. PICK m : m = IF op[a].spoiled THEN {op[a].tgt} ELSE {}
        OBVIOUS
      <3>3. [op[a] EXCEPT !.pc = "verify", !.known = known, !.copy = Empty, !.spoiled = FALSE,
                          !.meddled = m].pc = "verify"
        BY <1>1 DEF Op
      <3> QED
        BY <3>1, <3>2, <3>3, GoesTo DEF Publish, Staging
    <2>5. CASE Verify(a) \/ Stamp(a)
      <3>1. CASE Verify(a)
        BY <1>1, <1>5, <3>1 DEF Verify, Become, Op, Staging
      <3>2. CASE Stamp(a)
        BY <1>1, <1>5, <3>2 DEF Stamp, Become, Op, Staging
      <3> QED
        BY <2>5, <3>1, <3>2
    <2> QED
      BY <2>1, <2>2, <2>3, <2>4, <2>5 DEF Publishing
  <1>3. CASE Commit(a)
    <2>1. op[a].i \in Jobs /\ job[i] \in Job
      BY <1>1, <1>3 DEF Commit, OpOK, RowOK, Placing, IInv, TypeOK
    <2>2. (i # op[a].i => job'[i] = job[i]) /\ (i = op[a].i => job'[i].state = "done")
      BY <1>3, <2>1 DEF Commit, IInv, TypeOK, Job
    <2> QED
      BY <1>2, <2>2, StaysOutdated DEF Outdated
  <1>4. CASE job' = job
    BY <1>2, <1>4 DEF Outdated
  <1> QED
    BY <1>3, <1>4 DEF Publishing, Look, CheckStage, Restamp, Link, CopyStage, RenameCopy, Publish, Occupied,
                      Present, Verify, Stamp, Tidy

LEMMA OutdatedRecovering ==
    ASSUME IInv, NEW c \in Contents, NEW i \in Jobs, Outdated(c, i), NEW a \in Actors, Recovering(a)
    PROVE  Outdated(c, i)'
  <1>1. op[a] \in Op /\ OpOK(a) /\ job[i] \in Job
    BY AtWork DEF IInv, TypeOK
  <1>2. op'[a].pc \notin Staging /\ \A b \in Actors \ {a} : op'[b] = op[b]
    <2>1. CASE Settle(a) \/ Sweep(a) \/ Abandon(a)
      <3>1. Goto(a, "next") \/ Goto(a, "swept") \/ Goto(a, "release")
        BY <2>1 DEF Settle, Sweep, Abandon
      <3> QED
        BY <3>1, GoesTo DEF Staging
    <2>2. CASE Recover(a) \/ \E k \in Jobs : RecoverReady(a, k)
      <3>1. CASE Recover(a)
        <4>1. /\ op'[a] = [IdleOp EXCEPT !.pc = "next", !.mode = "recover",
                             !.todo = {k \in Jobs : job[k].state \in {"copying", "ready"}}]
              /\ \A b \in Actors \ {a} : op'[b] = op[b]
          BY <3>1, BecomeIs DEF Recover, IInv
        <4> QED
          BY <4>1 DEF IdleOp, Staging
      <3>2. ASSUME NEW k \in Jobs, RecoverReady(a, k)
            PROVE  op'[a].pc \notin Staging /\ \A b \in Actors \ {a} : op'[b] = op[b]
        <4>1. /\ op'[a] = [IdleOp EXCEPT !.pc = "look", !.mode = "recover", !.i = k, !.ready = TRUE,
                             !.digest = job[k].content, !.todo = op[a].todo \ {k}]
              /\ \A b \in Actors \ {a} : op'[b] = op[b]
          BY <3>2, BecomeIs DEF RecoverReady, IInv
        <4> QED
          BY <4>1 DEF IdleOp, Staging
      <3> QED
        BY <2>2, <3>1, <3>2
    <2>3. ASSUME NEW k \in Jobs, RecoverCopying(a, k)
          PROVE  op'[a].pc \notin Staging /\ \A b \in Actors \ {a} : op'[b] = op[b]
      <3>1. /\ op'[a] = [op[a] EXCEPT !.todo = op[a].todo \ {k}] /\ op[a].pc = "next"
            /\ \A b \in Actors \ {a} : op'[b] = op[b]
        BY <2>3 DEF RecoverCopying, IInv, TypeOK
      <3> QED
        BY <1>1, <3>1 DEF Op, Staging
    <2> QED
      BY <2>1, <2>2, <2>3 DEF Recovering
  <1>3. job'[i] = job[i] \/ job'[i].state = "failed"
    <2>1. CASE Settle(a)
      <3>1. op[a].i \in Jobs
        BY <1>1, <2>1 DEF Settle, OpOK, RowOK
      <3>2. i = op[a].i => job'[i] = job[i] \/ job'[i].state = "failed"
        BY <1>1, <2>1, <3>1 DEF Settle, IInv, TypeOK, Job
      <3> QED
        BY <2>1, <3>1, <3>2 DEF Settle, IInv, TypeOK
    <2>2. ASSUME NEW k \in Jobs, RecoverCopying(a, k)
          PROVE  job'[i] = job[i] \/ job'[i].state = "failed"
      BY <1>1, <2>2 DEF RecoverCopying, IInv, TypeOK, Job
    <2> QED
      BY <2>1, <2>2 DEF Recovering, Recover, Sweep, Abandon, RecoverReady
  <1> QED
    BY <1>2, <1>3, StaysOutdated DEF Outdated

LEMMA OutdatedElse ==
    ASSUME IInv, NEW c \in Contents, NEW i \in Jobs, Outdated(c, i),
           User \/ \E a \in Actors : FailForGood(a) \/ FailForNow(a) \/ Release(a) \/ Crash(a)
    PROVE  Outdated(c, i)'
  <1>1. job' = job
    BY DEF User, Touch, Spoil, Availability, RemoveBook, FailForGood, FailForNow, Raise, Release, Crash
  <1>2. ASSUME NEW a \in Actors
        PROVE  op'[a].pc \in Staging => op[a].pc \in Staging /\ op'[a].i = op[a].i
    <2>1. op[a] \in Op
      BY AtWork
    <2>2. CASE User
      <3>1. ASSUME NEW p \in Places, Touch(p)
            PROVE  op'[a].pc = op[a].pc /\ op'[a].i = op[a].i
        BY <2>1, <3>1 DEF Touch, Op
      <3>2. ASSUME NEW k \in Jobs, Spoil(k)
            PROVE  op'[a].pc = op[a].pc /\ op'[a].i = op[a].i
        BY <2>1, <3>2 DEF Spoil, Op
      <3> QED
        BY <2>2, <3>1, <3>2 DEF User, Availability, RemoveBook
    <2>3. ASSUME NEW b \in Actors, FailForGood(b) \/ FailForNow(b) \/ Release(b) \/ Crash(b)
          PROVE  op'[a].pc \in Staging => op[a].pc \in Staging /\ op'[a].i = op[a].i
      <3>1. op[b] \in Op
        BY AtWork
      <3>2. a = b \/ op'[a] = op[a]
        BY <2>3 DEF FailForGood, FailForNow, Raise, Release, Crash, Become, IInv, TypeOK
      <3>3. op'[b].pc \in {"handle", "settle", "idle"}
        <4>1. CASE FailForGood(b) \/ FailForNow(b)
          <5>1. PICK e \in {"fatal", "transient"} : Raise(b, e)
            BY <4>1 DEF FailForGood, FailForNow
          <5>2. op'[b] = [op[b] EXCEPT !.err = e, !.pc = IF op[b].mode = "import" THEN "handle" ELSE "settle"]
            BY <5>1, BecomeIs DEF Raise, IInv
          <5> QED
            BY <3>1, <5>2 DEF Op
        <4>2. CASE Release(b) \/ Crash(b)
          BY <4>2, GoesTo DEF Release, Crash, IdleOp
        <4> QED
          BY <2>3, <4>1, <4>2
      <3> QED
        BY <3>2, <3>3 DEF Staging
    <2> QED
      BY <2>2, <2>3
  <1> QED
    BY <1>1, <1>2 DEF Outdated

LEMMA RevokedKeeps == IInv /\ RevokedAreOutdated /\ [Next]_vars => RevokedAreOutdated'
  <1> SUFFICES ASSUME IInv, RevokedAreOutdated, [Next]_vars
               PROVE  RevokedAreOutdated'
    OBVIOUS
  <1>1. ASSUME NEW c \in Contents, NEW i \in revoked[c]
        PROVE  Outdated(c, i)'
    <2>1. i \in Jobs /\ Outdated(c, i)
      BY DEF IInv, TypeOK, RevokedAreOutdated
    <2>2. CASE UNCHANGED vars
      BY <2>1, <2>2 DEF vars, Outdated
    <2>3. CASE Next
      BY <2>1, <2>3, OutdatedImport, OutdatedPublishing, OutdatedRecovering, OutdatedElse DEF Next
    <2> QED
      BY <2>2, <2>3
  <1>2. CASE revoked' = revoked
    BY <1>1, <1>2 DEF RevokedAreOutdated
  <1>3. ASSUME NEW c \in Contents, RemoveBook(c)
        PROVE  RevokedAreOutdated'
    <2>1. /\ revoked'[c] = {i \in Jobs : job[i].state # "absent"}
          /\ \A d \in Contents \ {c} : revoked'[d] = revoked[d]
      BY <1>3 DEF RemoveBook, IInv, TypeOK
    <2>2. \A a \in Actors : op[a].pc = "idle"
      BY <1>3, NamesAssumption DEF RemoveBook, IInv, Exclusive
    <2>3. \A i \in revoked'[c] : Outdated(c, i)'
      BY <1>3, <2>1, <2>2 DEF RemoveBook, Blocked, Outdated, Staging
    <2> QED
      BY <1>1, <2>1, <2>3 DEF RevokedAreOutdated
  <1>4. revoked' = revoked \/ \E c \in Contents : RemoveBook(c)
    <2>1. ASSUME NEW a \in Actors,
                 \/ Import(a) \/ Publishing(a) \/ Recovering(a)
                 \/ FailForGood(a) \/ FailForNow(a) \/ Release(a) \/ Crash(a)
          PROVE  revoked' = revoked
      BY <2>1 DEF Import, Publishing, Recovering, FailForGood, FailForNow, Raise, Release, Crash,
                  BeginCopy, BeginIndex, Begin, StageLinked, StageCopying, StageCopied, StageIndexed,
                  Validated, Handle, Discard, Look, CheckStage, Restamp, Link, CopyStage, RenameCopy, Publish,
                  Occupied, Present, Verify, Stamp, Commit, Tidy, Recover, Settle, Sweep, Abandon,
                  RecoverCopying, RecoverReady, history
    <2> QED
      BY <2>1 DEF Next, vars, User, Touch, Spoil, Availability, history
  <1> QED
    BY <1>2, <1>3, <1>4

\* A removed book returns only by an import begun after its removal: the lock keeps
\* imports at work apart from the removal, its guard those that are ready, and a
\* recovery fails the rest.
THEOREM RemovalLasts == Spec => RemovedStaysRemoved
  <1> DEFINE Returns(c) == \E i \in Jobs \ revoked[c] :
                             job[i].state = "ready" /\ job[i].content = c /\ job'[i].state = "done"
  <1>1. Init => RevokedAreOutdated
    BY DEF Init, RevokedAreOutdated
  <1>2. IInv /\ RevokedAreOutdated /\ [Next]_vars =>
          [\A c \in Contents : ~book[c].in /\ book'[c].in => Returns(c)]_vars
    <2> SUFFICES ASSUME IInv, RevokedAreOutdated, Next, NEW c \in Contents, ~book[c].in, book'[c].in
                 PROVE  Returns(c)
      OBVIOUS
    <2>1. ~User
      <3>1. book[c] \in [in: BOOLEAN, at: Places \cup {Nowhere}, vouched: BOOLEAN]
        BY DEF IInv, TypeOK
      <3>2. \A p \in Places : ~Touch(p)
        BY <3>1 DEF Touch
      <3>3. \A d \in Contents : ~Availability(d)
        BY <3>1 DEF Availability, IInv, TypeOK
      <3>4. \A d \in Contents : ~RemoveBook(d)
        BY DEF RemoveBook, NoBook, IInv, TypeOK
      <3> QED
        BY <3>2, <3>3, <3>4 DEF User, Spoil
    <2>2. PICK a \in Actors : Commit(a)
      BY <2>1 DEF Next, Import, Publishing, Recovering, FailForGood, FailForNow, Raise, Release, Crash,
                  BeginCopy, BeginIndex, Begin, StageLinked, StageCopying, StageCopied, StageIndexed,
                  Validated, Handle, Discard, Look, CheckStage, Restamp, Link, CopyStage, RenameCopy, Publish,
                  Occupied, Present, Verify, Stamp, Tidy, Recover, Settle, Sweep, Abandon,
                  RecoverCopying, RecoverReady
    <2>3. /\ op[a].i \in Jobs /\ job[op[a].i].state = "ready" /\ op[a].digest = job[op[a].i].content
          /\ op[a].digest \in Contents /\ job[op[a].i] \in Job
      BY <2>2, AtWork DEF Commit, OpOK, RowOK, Placing, IInv, JobOK
    <2>4. op[a].digest = c /\ job'[op[a].i].state = "done"
      BY <2>2, <2>3 DEF Commit, IInv, TypeOK, Job
    <2>5. op[a].i \notin revoked[c]
      BY <2>3, <2>4 DEF RevokedAreOutdated, Outdated
    <2> QED
      BY <2>3, <2>4, <2>5
  <1> QED
    BY <1>1, <1>2, RevokedKeeps, Invariance, PTL DEF Spec, RemovedStaysRemoved

-----------------------------------------------------------------------------
(* Ingest implements Catalogue: the outcome of an import is what its row's *)
(* state says of it, and the books are the book rows.                      *)

\* A step that settles, begins or registers nothing is a stutter of Catalogue.
LEMMA Stutters ==
    ASSUME \A i \in Jobs : Outcome[job'[i].state] = Outcome[job[i].state],
           \A c \in Contents : book'[c].in = book[c].in
    PROVE  UNCHANGED C!vars
  BY DEF C!vars

\* A step that changes one row, and no book, from one outcome to another.
LEMMA OutcomeStep ==
    ASSUME NEW i \in Jobs, NEW from, NEW to,
           Outcome[job[i].state] = from, Outcome[job'[i].state] = to,
           \A k \in Jobs \ {i} : job'[k] = job[k]
    PROVE  C!Ends(i, from, to)
  BY DEF C!Ends

\* A step of an operation that leaves every book alone and changes at most one row,
\* to an outcome open imports may get, is a step of Catalogue.
LEMMA RowStep ==
    ASSUME NEW i \in Jobs,
           \A k \in Jobs \ {i} : job'[k] = job[k],
           \A c \in Contents : book'[c].in = book[c].in,
           \/ Outcome[job'[i].state] = Outcome[job[i].state]
           \/ Outcome[job[i].state] = "new" /\ Outcome[job'[i].state] = "open"
           \/ Outcome[job[i].state] = "open" /\ Outcome[job'[i].state] = "refused"
    PROVE  [C!Next]_(C!vars)
  <1>1. {c \in Contents : book'[c].in} = {c \in Contents : book[c].in}
    OBVIOUS
  <1>2. CASE Outcome[job'[i].state] = Outcome[job[i].state]
    BY <1>2, Stutters
  <1>3. CASE Outcome[job[i].state] = "new" /\ Outcome[job'[i].state] = "open"
    <2>1. C!Accept(i)
      BY <1>1, <1>3, OutcomeStep DEF C!Accept
    <2> QED
      BY <2>1 DEF C!Next
  <1>4. CASE Outcome[job[i].state] = "open" /\ Outcome[job'[i].state] = "refused"
    <2>1. C!Refuse(i)
      BY <1>1, <1>4, OutcomeStep DEF C!Refuse
    <2> QED
      BY <2>1 DEF C!Next
  <1> QED
    BY <1>2, <1>3, <1>4

LEMMA ImportMaps ==
    ASSUME IInv, NEW a \in Actors, Import(a)
    PROVE  [C!Next]_(C!vars)
  <1>1. book' = book
    BY DEF Import, BeginCopy, BeginIndex, Begin, StageLinked, StageCopying, StageCopied, StageIndexed,
           Validated, Handle, Discard
  <1>2. CASE job' = job
    BY <1>1, <1>2, Stutters
  <1>3. ASSUME NEW i \in Jobs, NEW row, Begin(a, i, row), row.state = "copying"
        PROVE  [C!Next]_(C!vars)
    <2>1. job'[i].state = "copying" /\ job[i].state = "absent" /\ \A k \in Jobs \ {i} : job'[k] = job[k]
      BY <1>3 DEF Begin, IInv, TypeOK
    <2> QED
      BY <1>1, <2>1, RowStep DEF Outcome
  <1>4. CASE Validated(a)
    <2>1. op[a].i \in Jobs /\ job[op[a].i].state = "copying"
      BY <1>4, AtWork DEF Validated, OpOK, RowOK, Staging
    <2>2. job'[op[a].i].state = "ready" /\ \A k \in Jobs \ {op[a].i} : job'[k] = job[k]
      BY <1>4, <2>1 DEF Validated, IInv, TypeOK, Job
    <2> QED
      BY <1>1, <2>1, <2>2, RowStep DEF Outcome
  <1>5. CASE Handle(a)
    <2>1. /\ op[a].i \in Jobs /\ job[op[a].i].state \in {"copying", "ready", "done", "failed"}
          /\ op[a].ready => job[op[a].i].state \in {"ready", "done"}
      BY <1>5, AtWork DEF Handle, OpOK, RowOK, ErrorOK, IInv, TypeOK, Job, JobStates
    <2>2. CASE job' = [job EXCEPT ![op[a].i].state = Ended(a)]
      <3>1. job'[op[a].i].state = Ended(a) /\ \A k \in Jobs \ {op[a].i} : job'[k] = job[k]
        BY <2>1, <2>2 DEF IInv, TypeOK, Job
      <3>2. /\ Ended(a) \in {"done", "ready", "failed"} /\ (Ended(a) = "done" <=> job[op[a].i].state = "done")
            /\ Ended(a) = "ready" => op[a].ready
        BY DEF Ended, Keep
      <3> QED
        BY <1>1, <2>1, <3>1, <3>2, RowStep DEF Outcome
    <2> QED
      BY <1>2, <1>5, <2>2 DEF Handle
  <1> QED
    BY <1>2, <1>3, <1>4, <1>5
       DEF Import, BeginCopy, BeginIndex, StageLinked, StageCopying, StageCopied, StageIndexed, Discard

LEMMA CommitMaps ==
    ASSUME IInv, NEW a \in Actors, Commit(a)
    PROVE  [C!Next]_(C!vars)
  <1>1. PICK i \in Jobs, c \in Contents : i = op[a].i /\ c = op[a].digest /\ job[i].state = "ready"
    BY AtWork DEF Commit, OpOK, RowOK, Placing, IInv, JobOK
  <1>2. job'[i].state = "done" /\ \A k \in Jobs \ {i} : job'[k] = job[k]
    BY <1>1 DEF Commit, IInv, TypeOK, Job
  <1>3. C!Ends(i, "open", "imported")
    BY <1>1, <1>2, OutcomeStep DEF Outcome
  <1>4. book'[c].in /\ \A d \in Contents \ {c} : book'[d] = book[d]
    BY <1>1 DEF Commit, IInv, TypeOK
  <1>5. C!Import(i, c)
    BY <1>3, <1>4 DEF C!Import
  <1> QED
    BY <1>5 DEF C!Next

LEMMA RecoveringMaps ==
    ASSUME IInv, NEW a \in Actors, Recovering(a)
    PROVE  [C!Next]_(C!vars)
  <1>1. book' = book
    BY DEF Recovering, Recover, Settle, Sweep, Abandon, RecoverCopying, RecoverReady
  <1>2. CASE job' = job
    BY <1>1, <1>2, Stutters
  <1>3. ASSUME NEW i \in Jobs, RecoverCopying(a, i)
        PROVE  [C!Next]_(C!vars)
    <2>1. job'[i].state = "failed" /\ job[i].state = "copying" /\ \A k \in Jobs \ {i} : job'[k] = job[k]
      BY <1>3 DEF RecoverCopying, IInv, TypeOK, Job
    <2> QED
      BY <1>1, <2>1, RowStep DEF Outcome
  <1>4. CASE Settle(a)
    <2>1. op[a].i \in Jobs
      BY <1>4, AtWork DEF Settle, OpOK, RowOK, ErrorOK
    <2>2. /\ \/ job'[op[a].i].state = job[op[a].i].state
             \/ job[op[a].i].state = "ready" /\ job'[op[a].i].state = "failed"
          /\ \A k \in Jobs \ {op[a].i} : job'[k] = job[k]
      <3>1. job[op[a].i] \in Job /\ job \in [Jobs -> Job]
        BY <2>1 DEF IInv, TypeOK
      <3> DEFINE s == IF job[op[a].i].state = "ready" /\ ~Keep(a) THEN "failed" ELSE job[op[a].i].state
      <3>2. job' = [job EXCEPT ![op[a].i].state = s]
        BY <1>4 DEF Settle
      <3>3. s = job[op[a].i].state \/ (job[op[a].i].state = "ready" /\ s = "failed")
        OBVIOUS
      <3> HIDE DEF s
      <3> QED
        BY <2>1, <3>1, <3>2, <3>3 DEF Job
    <2> QED
      BY <1>1, <2>1, <2>2, RowStep DEF Outcome
  <1> QED
    BY <1>2, <1>3, <1>4 DEF Recovering, Recover, Sweep, Abandon, RecoverReady

LEMMA UserMaps ==
    ASSUME IInv, User
    PROVE  [C!Next]_(C!vars)
  <1>1. \A c \in Contents : book[c] \in [in: BOOLEAN, at: Places \cup {Nowhere}, vouched: BOOLEAN]
    BY DEF IInv, TypeOK
  <1>2. job' = job
    BY DEF User, Touch, Spoil, Availability, RemoveBook
  <1>3. CASE \A c \in Contents : book'[c].in = book[c].in
    BY <1>2, <1>3, Stutters
  <1>4. ASSUME NEW p \in Places, Touch(p)
        PROVE  \A c \in Contents : book'[c].in = book[c].in
    BY <1>1, <1>4 DEF Touch
  <1>5. ASSUME NEW c \in Contents, Availability(c)
        PROVE  \A d \in Contents : book'[d].in = book[d].in
    BY <1>1, <1>5 DEF Availability, IInv, TypeOK
  <1>6. ASSUME NEW c \in Contents, RemoveBook(c)
        PROVE  [C!Next]_(C!vars)
    <2>1. book[c].in /\ ~book'[c].in /\ \A d \in Contents \ {c} : book'[d] = book[d]
      BY <1>6 DEF RemoveBook, NoBook, IInv, TypeOK
    <2>2. C!Remove(c)
      BY <1>2, <2>1 DEF C!Remove
    <2> QED
      BY <2>2 DEF C!Next
  <1> QED
    BY <1>3, <1>4, <1>5, <1>6 DEF User, Spoil

LEMMA StepMaps == IInv /\ [Next]_vars => [C!Next]_(C!vars)
  <1> SUFFICES ASSUME IInv, [Next]_vars
               PROVE  [C!Next]_(C!vars)
    OBVIOUS
  <1>1. CASE job' = job /\ book' = book
    BY <1>1, Stutters
  <1>2. ASSUME NEW a \in Actors, Publishing(a)
        PROVE  [C!Next]_(C!vars)
    <2>1. CASE Commit(a)
      BY <2>1, CommitMaps
    <2> QED
      BY <1>1, <1>2, <2>1 DEF Publishing, Look, CheckStage, Restamp, Link, CopyStage, RenameCopy, Publish, Occupied,
             Present, Verify, Stamp, Tidy
  <1>3. ASSUME NEW a \in Actors, FailForGood(a) \/ FailForNow(a) \/ Release(a) \/ Crash(a)
        PROVE  [C!Next]_(C!vars)
    BY <1>1, <1>3 DEF FailForGood, FailForNow, Raise, Release, Crash
  <1> QED
    BY <1>1, <1>2, <1>3, ImportMaps, RecoveringMaps, UserMaps DEF Next, vars

\* Imports settle once, a book is registered exactly when its import succeeds, and
\* it goes only by a removal.
THEOREM RefinesCatalogue == Spec => KeepsCatalogue
  <1>1. Init => C!Init
    BY DEF Init, C!Init, Outcome, NoBook
  <1> QED
    BY <1>1, Invariance, StepMaps, PTL DEF Spec, KeepsCatalogue, C!Spec


\* Recoveries, as a whole: they spare the imports at work and settle the dead ones.
THEOREM RecoversRightly == Spec => []Recovery
  <1>1. LiveImportIsSpared /\ RecoveryLeavesNothing => Recovery
    BY DEF Recovery
  <1> QED
    BY <1>1, ImportsUndisturbed, RecoveryIsComplete, PTL

\* Archives in their places: only whole ones are published, none that is waiting is lost.
THEOREM ArchivesInPlace == Spec => Archives
  <1> QED
    BY PublishesSafely, StageIsKept, PTL DEF Archives

-----------------------------------------------------------------------------
(* Removal: what is deleted was confirmed, removals take effect once, and  *)
(* receipts account for files.  The inductive invariant says what the      *)
(* mutation lock is held for: one deletion, pending on its receipt, that   *)
(* has left just the files its receipt doesn't record as deleted, all of   *)
(* them of books that are not registered.  It doesn't speak of the dialog: *)
(* whatever requests reach the server, in whatever order, it holds.        *)


Fields == {"n", "id", "delete", "token", "phase", "left"}
Holding(t) == t.phase \in {"unlink", "record"}

\* A deletion that holds the lock.
HolderOK(t) ==
    /\ t.id \in DOMAIN receipts
    /\ receipts[t.id].pending
    /\ t.left = Pending(t.id)
    /\ t.phase = "record" => t.left # {}
    /\ \A x \in t.left : bookId[x] = None
    /\ \A x \in t.left \cap Content : file[x] = "other" => x \in changed

TasksOK ==
    /\ \A t \in tasks : DOMAIN t = Fields
    /\ \A t \in tasks : Holding(t) => lock /\ HolderOK(t)
    /\ \A t, u \in tasks : Holding(t) /\ Holding(u) => t = u

\* A receipt by itself, and the files taken on its behalf.
ReceiptOK(r) ==
    /\ DOMAIN r = {"token", "delete", "pending", "stopped", "items", "order", "after"}
    /\ r.pending => r.delete /\ ~r.stopped
    /\ \A x \in DOMAIN r.items :
         /\ DOMAIN r.items[x] = {"id", "edited", "place", "file", "restored"}
         /\ r.items[x].restored => ~r.pending /\ r.items[x].file # "deleted"
    /\ r.delete /\ ~r.pending /\ ~r.stopped => \A x \in DOMAIN r.items : r.items[x].file = "deleted"
ReceiptsOK == \A id \in DOMAIN receipts : ReceiptOK(receipts[id])

TakenOK ==
    /\ \A x \in Content : unlinked[x] \subseteq DOMAIN receipts
    /\ \A x \in Content : \A id \in unlinked[x] :
         LET r == receipts[id]
         IN  x \in DOMAIN r.items /\ (r.items[x].file = "deleted" \/ r.pending \/ r.stopped)

FilesOK ==
    /\ DOMAIN bookId = Content /\ DOMAIN file = Content /\ DOMAIN unlinked = Content
    /\ \A x \in Content : file[x] \in {"own", "other", "none"}

RemovalInv == TasksOK /\ ReceiptsOK /\ TakenOK /\ FilesOK
Promised == DeletesWhatWasConfirmed /\ TakesEffectOnce /\ ReceiptAccounts'

-----------------------------------------------------------------------------
LEMMA InvAccounts == RemovalInv => ReceiptAccounts
PROOF BY DEF RemovalInv, ReceiptsOK, ReceiptOK, TakenOK, ReceiptAccounts, Pending

\* A step that takes no file, writes no receipt and removes no book keeps its promises.
LEMMA QuietPromised ==
    ASSUME RemovalInv', UNCHANGED <<receipts, unlinked>>,
           \A x \in Content : bookId[x] # None => bookId'[x] # None
    PROVE  Promised
PROOF
<1>1. ReceiptAccounts'
  BY InvAccounts, PTL
<1> QED
  BY <1>1 DEF Promised, DeletesWhatWasConfirmed, TakesEffectOnce

\* A task that holds nothing.
Light(u) == DOMAIN u = Fields /\ ~Holding(u)

LEMMA NobodyHolds == ASSUME TasksOK, Unlocked PROVE \A t \in tasks : Light(t)
PROOF BY DEF TasksOK, Unlocked, Light

\* Tasks none of which holds anything are in order whoever has the lock.
LEMMA LightTasks == ASSUME \A t \in tasks' : Light(t) PROVE TasksOK'
PROOF BY DEF TasksOK, Light, Holding

\* A task that ends or begins leaves the holder alone, as long as nothing it reads changes.
LEMMA HolderStays ==
    ASSUME NEW t, HolderOK(t), UNCHANGED <<receipts, bookId, file>>, changed \subseteq changed'
    PROVE  HolderOK(t)'
PROOF BY DEF HolderOK, Pending

LEMMA TasksStay ==
    ASSUME TasksOK, \A u \in tasks' : u \in tasks \/ Light(u),
           UNCHANGED <<receipts, bookId, file, lock>>, changed \subseteq changed'
    PROVE  TasksOK'
PROOF
<1>1. \A u \in tasks' : Holding(u) => u \in tasks
  BY DEF Light
<1>2. \A u \in tasks' : DOMAIN u = Fields
  BY DEF TasksOK, Light
<1>3. \A u \in tasks' : Holding(u) => lock' /\ HolderOK(u)'
  BY <1>1, HolderStays DEF TasksOK
<1> QED
  BY <1>1, <1>2, <1>3 DEF TasksOK, Holding

LEMMA RestStays ==
    ASSUME RemovalInv, UNCHANGED <<receipts, unlinked>>, FilesOK'
    PROVE  ReceiptsOK' /\ TakenOK' /\ FilesOK'
PROOF BY DEF RemovalInv, ReceiptsOK, TakenOK

LEMMA BatchIs == ASSUME NEW d, NEW i PROVE Light(Batch(d, i))
PROOF BY DEF Batch, Light, Fields, Holding

LEMMA EndsLight ==
    ASSUME NEW t, NEW good, Ends(t, good)
    PROVE  \A u \in tasks' : u \in tasks \ {t} \/ Light(u)
PROOF BY BatchIs DEF Ends

LEMMA GoesOn ==
    ASSUME NEW t, DOMAIN t = Fields, NEW phase, NEW left, Goes(t, phase, left)
    PROVE  \E u : /\ tasks' = (tasks \ {t}) \cup {u} /\ DOMAIN u = Fields
                  /\ u.phase = phase /\ u.left = left /\ u.id = t.id
PROOF
<1> DEFINE u == [t EXCEPT !.phase = phase, !.left = left]
<1>1. DOMAIN u = Fields /\ u.phase = phase /\ u.left = left /\ u.id = t.id
  BY DEF Fields
<1>2. tasks' = (tasks \ {t}) \cup {u}
  BY DEF Goes
<1> QED
  BY <1>1, <1>2

\* A stopped receipt.
LEMMA StopIs ==
    ASSUME NEW id \in DOMAIN receipts, ReceiptOK(receipts[id]), Stop(id)
    PROVE  /\ DOMAIN receipts' = DOMAIN receipts
           /\ \A i \in DOMAIN receipts : i # id => receipts'[i] = receipts[i]
           /\ receipts'[id].pending = FALSE /\ receipts'[id].stopped = TRUE
           /\ receipts'[id].items = receipts[id].items /\ receipts'[id].token = receipts[id].token
           /\ DOMAIN receipts'[id] = DOMAIN receipts[id]
PROOF BY DEF Stop, ReceiptOK

LEMMA StopKeeps ==
    ASSUME RemovalInv, NEW id \in DOMAIN receipts, Stop(id), UNCHANGED <<unlinked, file, bookId>>
    PROVE  ReceiptsOK' /\ TakenOK' /\ FilesOK' /\ DeletesWhatWasConfirmed /\ TakesEffectOnce
PROOF
<1>1. ReceiptOK(receipts[id])
  BY DEF RemovalInv, ReceiptsOK
<1>2. /\ DOMAIN receipts' = DOMAIN receipts
      /\ \A i \in DOMAIN receipts : i # id => receipts'[i] = receipts[i]
      /\ receipts'[id].pending = FALSE /\ receipts'[id].stopped = TRUE
      /\ receipts'[id].items = receipts[id].items /\ receipts'[id].token = receipts[id].token
      /\ DOMAIN receipts'[id] = DOMAIN receipts[id]
  BY <1>1, StopIs
<1>3. ReceiptOK(receipts'[id])
  BY <1>1, <1>2 DEF ReceiptOK
<1>4. ReceiptsOK'
  BY <1>2, <1>3 DEF RemovalInv, ReceiptsOK
<1>5. TakenOK'
  <2>1. ASSUME NEW x \in Content, NEW i \in unlinked[x]
        PROVE  /\ i \in DOMAIN receipts /\ x \in DOMAIN receipts'[i].items
               /\ receipts'[i].items[x].file = "deleted" \/ receipts'[i].pending
                    \/ receipts'[i].stopped
    BY <1>2 DEF RemovalInv, TakenOK
  <2> QED
    BY <1>2, <2>1 DEF RemovalInv, TakenOK
<1> QED
  BY <1>2, <1>4, <1>5 DEF RemovalInv, FilesOK, DeletesWhatWasConfirmed, TakesEffectOnce

-----------------------------------------------------------------------------
(* The dialog, and the removal.                                            *)

LEMMA DialogKeeps == ASSUME RemovalInv, Dialog PROVE RemovalInv' /\ Promised
PROOF
<1>1. UNCHANGED <<library, archives, receipts, lock, unlinked, changed>>
  BY DEF Dialog, OpenDialog, Preview, TickDelete, Confirm, Cancel, AnswerLost, OutOfDialog
<1>2. \A u \in tasks' : u \in tasks \/ Light(u)
  BY BatchIs DEF Dialog, OpenDialog, Preview, TickDelete, Confirm, Cancel, AnswerLost, Post
<1>3. TasksOK'
  BY <1>1, <1>2, TasksStay DEF RemovalInv, library, archives
<1>4. RemovalInv'
  BY <1>1, <1>3, RestStays DEF RemovalInv, FilesOK, library, archives
<1> QED
  BY <1>1, <1>4, QuietPromised DEF library

LEMMA CommitIs ==
    ASSUME NEW t, CommitRemoval(t)
    PROVE  /\ DOMAIN receipts' = DOMAIN receipts \cup {t.id}
           /\ \A i \in DOMAIN receipts : i # t.id => receipts'[i] = receipts[i]
           /\ ReceiptOK(receipts'[t.id])
           /\ DOMAIN receipts'[t.id].items = DOMAIN t.token
           /\ \A x \in Content : bookId'[x] = IF x \in DOMAIN t.token THEN None ELSE bookId[x]
PROOF
<1> DEFINE r == [token |-> t.token, delete |-> t.delete, pending |-> t.delete,
                 stopped |-> FALSE, items |-> Items(t.token),
                 order |-> Collection, after |-> revision']
<1>1. receipts' = [id \in DOMAIN receipts \cup {t.id} |-> IF id # t.id THEN receipts[id] ELSE r]
  BY DEF CommitRemoval
<1>2. receipts'[t.id] = r
  BY <1>1
<1>3. DOMAIN r.items = DOMAIN t.token
  BY DEF Items
<1>4. \A x \in DOMAIN r.items : /\ DOMAIN r.items[x] = {"id", "edited", "place", "file", "restored"}
                               /\ r.items[x].restored = FALSE
  BY DEF Items
<1>5. ReceiptOK(r)
  <2>1. DOMAIN r = {"token", "delete", "pending", "stopped", "items", "order", "after"}
    OBVIOUS
  <2>2. r.pending = t.delete /\ r.delete = t.delete /\ r.stopped = FALSE
    OBVIOUS
  <2> HIDE DEF r
  <2> QED
    BY <1>4, <2>1, <2>2 DEF ReceiptOK
<1> QED
  BY <1>1, <1>2, <1>3, <1>5 DEF CommitRemoval

LEMMA CarryOutKeeps == ASSUME RemovalInv, NEW t \in tasks, CarryOut(t) PROVE RemovalInv' /\ Promised
PROOF
<1>1. \A u \in tasks : Light(u)
  BY NobodyHolds DEF RemovalInv, CarryOut
<1>2. \A u \in tasks' : Light(u)
  <2>1. CASE Goes(t, "check", {})
    BY <1>1, <2>1, GoesOn DEF Light, Holding
  <2>2. ASSUME NEW good, Ends(t, good) PROVE \A u \in tasks' : Light(u)
    BY <1>1, <2>2, EndsLight
  <2> QED
    BY <2>1, <2>2 DEF CarryOut
<1>3. TasksOK'
  BY <1>2, LightTasks
<1>4. UNCHANGED <<file, unlinked>>
  BY DEF CarryOut, archives
<1>5. CASE UNCHANGED <<receipts, library>>
  <2>1. RemovalInv'
    BY <1>3, <1>4, <1>5, RestStays DEF RemovalInv, FilesOK, library
  <2> QED
    BY <1>4, <1>5, <2>1, QuietPromised DEF library
<1>6. CASE ~Recorded(t.id) /\ CommitRemoval(t)
  <2>1. /\ DOMAIN receipts' = DOMAIN receipts \cup {t.id}
        /\ \A i \in DOMAIN receipts : receipts'[i] = receipts[i]
        /\ ReceiptOK(receipts'[t.id]) /\ t.id \notin DOMAIN receipts
        /\ DOMAIN receipts'[t.id].items = DOMAIN t.token
        /\ \A x \in Content : bookId'[x] = IF x \in DOMAIN t.token THEN None ELSE bookId[x]
    BY <1>6, CommitIs DEF Recorded
  <2>2. ReceiptsOK'
    BY <2>1 DEF RemovalInv, ReceiptsOK
  <2>3. TakenOK'
    BY <1>4, <2>1 DEF RemovalInv, TakenOK
  <2>4. RemovalInv'
    BY <1>3, <1>4, <1>6, <2>2, <2>3 DEF RemovalInv, FilesOK, CommitRemoval
  <2>5. ReceiptAccounts'
    BY <2>4, InvAccounts, PTL
  <2>6. TakesEffectOnce
    BY <2>1 DEF TakesEffectOnce
  <2> QED
    BY <1>4, <2>4, <2>5, <2>6 DEF Promised, DeletesWhatWasConfirmed
<1> QED
  BY <1>5, <1>6 DEF CarryOut

-----------------------------------------------------------------------------
(* The deletion.                                                           *)

LEMMA CheckKeeps == ASSUME RemovalInv, NEW t \in tasks, Check(t) PROVE RemovalInv' /\ Promised
PROOF
<1>1. \A u \in tasks : Light(u)
  BY NobodyHolds DEF RemovalInv, Check
<1>2. UNCHANGED <<file, bookId, unlinked>>
  BY DEF Check, Deletes, library, archives
<1>3. CASE UNCHANGED <<receipts, lock, changed>> /\ Ends(t, TRUE)
  <2>1. TasksOK'
    BY <1>1, <1>3, EndsLight, LightTasks
  <2>2. RemovalInv'
    BY <1>2, <1>3, <2>1, RestStays DEF RemovalInv, FilesOK
  <2> QED
    BY <1>2, <1>3, <2>2, QuietPromised
<1>4. CASE Recorded(t.id) /\ Stop(t.id) /\ Ends(t, TRUE)
  <2>1. TasksOK'
    BY <1>1, <1>4, EndsLight, LightTasks
  <2>2. ReceiptsOK' /\ TakenOK' /\ FilesOK' /\ DeletesWhatWasConfirmed /\ TakesEffectOnce
    BY <1>2, <1>4, StopKeeps DEF Recorded
  <2>3. RemovalInv'
    BY <2>1, <2>2 DEF RemovalInv
  <2>4. ReceiptAccounts'
    BY <2>3, InvAccounts, PTL
  <2> QED
    BY <2>2, <2>3, <2>4 DEF Promised
<1>5. CASE /\ Recorded(t.id) /\ receipts[t.id].pending
           /\ \A x \in Pending(t.id) : ~Unfit(x)
           /\ lock' = TRUE /\ changed' = changed \ Pending(t.id)
           /\ Goes(t, "unlink", Pending(t.id)) /\ UNCHANGED receipts
  <2>1. PICK u : /\ tasks' = (tasks \ {t}) \cup {u} /\ DOMAIN u = Fields
                 /\ u.phase = "unlink" /\ u.left = Pending(t.id) /\ u.id = t.id
    BY <1>1, <1>5, GoesOn DEF Light
  <2>2. HolderOK(u)'
    <3>1. Pending(u.id)' = u.left /\ u.id \in DOMAIN receipts' /\ receipts'[u.id].pending
      BY <1>5, <2>1 DEF Pending, Recorded
    <3>2. \A x \in u.left : bookId'[x] = None /\ file'[x] # "other"
      BY <1>2, <1>5, <2>1 DEF Unfit, Registered
    <3> QED
      BY <2>1, <3>1, <3>2 DEF HolderOK
  <2>3. TasksOK'
    BY <1>1, <1>5, <2>1, <2>2 DEF TasksOK, Light, Holding
  <2>4. RemovalInv'
    BY <1>2, <1>5, <2>3, RestStays DEF RemovalInv, FilesOK
  <2> QED
    BY <1>2, <1>5, <2>4, QuietPromised
<1> QED
  BY <1>3, <1>4, <1>5 DEF Check

\* The holder alone holds, so the others are light.
LEMMA OthersLight ==
    ASSUME RemovalInv, NEW t \in tasks, Holding(t)
    PROVE  lock /\ HolderOK(t) /\ DOMAIN t = Fields /\ \A u \in tasks \ {t} : Light(u)
PROOF BY DEF RemovalInv, TasksOK, Light

\* One holder among tasks that are light.
LEMMA OneHolder ==
    ASSUME NEW t, NEW u, tasks' = (tasks \ {t}) \cup {u}, \A v \in tasks \ {t} : Light(v),
           DOMAIN u = Fields, HolderOK(u)', lock'
    PROVE  TasksOK'
PROOF BY DEF TasksOK, Light, Holding

LEMMA UnlinkKeeps == ASSUME RemovalInv, NEW t \in tasks, Unlink(t) PROVE RemovalInv' /\ Promised
PROOF
<1> DEFINE x == First(t)
<1>1. Holding(t) /\ t.left # {}
  BY DEF Unlink, Holds, Holding
<1>2. lock /\ HolderOK(t) /\ DOMAIN t = Fields /\ \A u \in tasks \ {t} : Light(u)
  BY <1>1, OthersLight
<1>3. x \in t.left
  BY <1>1 DEF First
<1>4. /\ file' = [file EXCEPT ![x] = "none"]
      /\ unlinked' = IF file[x] = "none" THEN unlinked
                     ELSE [unlinked EXCEPT ![x] = @ \cup {t.id}]
      /\ UNCHANGED <<bookId, receipts, lock, changed>>
  BY DEF Unlink, Holds, Deletes, library
<1>5. PICK u : /\ tasks' = (tasks \ {t}) \cup {u} /\ DOMAIN u = Fields
               /\ u.phase = "record" /\ u.left = t.left /\ u.id = t.id
  BY <1>2, GoesOn DEF Unlink
<1>6. HolderOK(u)'
  <2>1. Pending(u.id)' = u.left
    BY <1>2, <1>4, <1>5 DEF Pending, HolderOK
  <2>2. \A y \in u.left \cap Content : file'[y] = "other" => y \in changed
    BY <1>2, <1>4, <1>5 DEF HolderOK, RemovalInv, FilesOK
  <2> QED
    BY <1>1, <1>2, <1>4, <1>5, <2>1, <2>2 DEF HolderOK
<1>7. TasksOK'
  BY <1>2, <1>4, <1>5, <1>6, OneHolder
<1>8. FilesOK'
  BY <1>4 DEF RemovalInv, FilesOK
<1>9. \A y \in Content : unlinked'[y] \subseteq unlinked[y] \cup (IF y = x THEN {t.id} ELSE {})
  BY <1>4 DEF RemovalInv, FilesOK
<1>10. t.id \in DOMAIN receipts /\ receipts[t.id].pending /\ x \in DOMAIN receipts[t.id].items
  BY <1>2, <1>3 DEF HolderOK, Pending
<1>11. TakenOK'
  BY <1>4, <1>9, <1>10 DEF RemovalInv, TakenOK
<1>12. ReceiptsOK'
  BY <1>4 DEF RemovalInv, ReceiptsOK
<1>13. RemovalInv'
  BY <1>7, <1>8, <1>11, <1>12 DEF RemovalInv
<1>14. DeletesWhatWasConfirmed
  <2> SUFFICES ASSUME NEW y \in Content, NEW id \in DOMAIN receipts,
                      id \in unlinked'[y] \ unlinked[y]
               PROVE  /\ receipts[id].delete /\ receipts[id].pending
                      /\ y \in DOMAIN receipts[id].items /\ bookId[y] = None
                      /\ file[y] = "own" \/ y \in changed
    BY DEF DeletesWhatWasConfirmed
  <2>1. y = x /\ id = t.id /\ file[x] # "none"
    BY <1>4, <1>9
  <2>2. file[x] \in {"own", "other"}
    BY <2>1 DEF RemovalInv, FilesOK
  <2>3. bookId[x] = None /\ (file[x] = "other" => x \in changed)
    BY <1>2, <1>3, <2>1 DEF HolderOK
  <2>4. receipts[id].delete
    BY <1>10, <2>1 DEF RemovalInv, ReceiptsOK, ReceiptOK
  <2> QED
    BY <1>10, <2>1, <2>2, <2>3, <2>4
<1>15. ReceiptAccounts'
  BY <1>13, InvAccounts, PTL
<1> QED
  BY <1>4, <1>13, <1>14, <1>15 DEF Promised, TakesEffectOnce

\* One file recorded as deleted.
LEMMA RecordIs ==
    ASSUME NEW id \in DOMAIN receipts, ReceiptOK(receipts[id]),
           NEW x \in DOMAIN receipts[id].items,
           receipts' = [receipts EXCEPT ![id].items[x].file = "deleted"]
    PROVE  /\ DOMAIN receipts' = DOMAIN receipts
           /\ \A i \in DOMAIN receipts : i # id => receipts'[i] = receipts[i]
           /\ receipts'[id].pending = receipts[id].pending
           /\ receipts'[id].stopped = receipts[id].stopped
           /\ receipts'[id].delete = receipts[id].delete
           /\ receipts'[id].token = receipts[id].token
           /\ DOMAIN receipts'[id] = DOMAIN receipts[id]
           /\ DOMAIN receipts'[id].items = DOMAIN receipts[id].items
           /\ \A y \in DOMAIN receipts[id].items \ {x} :
                 receipts'[id].items[y] = receipts[id].items[y]
           /\ receipts'[id].items[x] = [receipts[id].items[x] EXCEPT !.file = "deleted"]
PROOF
<1> DEFINE r == receipts[id]
           s == [r EXCEPT !.items[x].file = "deleted"]
<1>1. receipts' = [receipts EXCEPT ![id] = s]
  OBVIOUS
<1>2. receipts'[id] = s /\ DOMAIN receipts' = DOMAIN receipts
      /\ \A i \in DOMAIN receipts : i # id => receipts'[i] = receipts[i]
  BY <1>1
<1>3. DOMAIN s = DOMAIN r
  OBVIOUS
<1>4. s.items = [r.items EXCEPT ![x].file = "deleted"]
  BY DEF ReceiptOK
<1>5. s.pending = r.pending /\ s.stopped = r.stopped /\ s.delete = r.delete /\ s.token = r.token
  BY DEF ReceiptOK
<1>6. /\ DOMAIN s.items = DOMAIN r.items
      /\ \A y \in DOMAIN r.items \ {x} : s.items[y] = r.items[y]
      /\ s.items[x] = [r.items[x] EXCEPT !.file = "deleted"]
  BY <1>4
<1> QED
  BY <1>2, <1>3, <1>5, <1>6

LEMMA RecordKeeps == ASSUME RemovalInv, NEW t \in tasks, Record(t) PROVE RemovalInv' /\ Promised
PROOF
<1> DEFINE x == First(t)
           id == t.id
<1>1. Holding(t) /\ t.phase = "record"
  BY DEF Record, Holds, Holding
<1>2. lock /\ HolderOK(t) /\ DOMAIN t = Fields /\ \A u \in tasks \ {t} : Light(u)
  BY <1>1, OthersLight
<1>3. x \in t.left
  BY <1>1, <1>2 DEF First, HolderOK
<1>4. /\ id \in DOMAIN receipts /\ receipts[id].pending /\ x \in DOMAIN receipts[id].items
      /\ ReceiptOK(receipts[id])
  BY <1>2, <1>3 DEF HolderOK, Pending, RemovalInv, ReceiptsOK
<1>5. /\ receipts' = [receipts EXCEPT ![id].items[x].file = "deleted"]
      /\ UNCHANGED <<bookId, file, unlinked, lock, changed>>
  BY DEF Record, Holds, Deletes, library, archives
<1>6. /\ DOMAIN receipts' = DOMAIN receipts
      /\ \A i \in DOMAIN receipts : i # id => receipts'[i] = receipts[i]
      /\ receipts'[id].pending = receipts[id].pending
      /\ receipts'[id].stopped = receipts[id].stopped
      /\ receipts'[id].delete = receipts[id].delete
      /\ receipts'[id].token = receipts[id].token
      /\ DOMAIN receipts'[id] = DOMAIN receipts[id]
      /\ DOMAIN receipts'[id].items = DOMAIN receipts[id].items
      /\ \A y \in DOMAIN receipts[id].items \ {x} :
            receipts'[id].items[y] = receipts[id].items[y]
      /\ receipts'[id].items[x] = [receipts[id].items[x] EXCEPT !.file = "deleted"]
  <2> HIDE DEF x, id
  <2> QED
    BY <1>4, <1>5, RecordIs
<1>7. /\ DOMAIN receipts'[id].items[x] = {"id", "edited", "place", "file", "restored"}
      /\ receipts'[id].items[x].file = "deleted"
      /\ receipts'[id].items[x].restored = receipts[id].items[x].restored
  BY <1>4, <1>6 DEF ReceiptOK
<1>8. ReceiptOK(receipts'[id])
  <2>1. \A y \in DOMAIN receipts[id].items : ~receipts[id].items[y].restored
    BY <1>4 DEF ReceiptOK
  <2>2. \A y \in DOMAIN receipts'[id].items :
          /\ DOMAIN receipts'[id].items[y] = {"id", "edited", "place", "file", "restored"}
          /\ ~receipts'[id].items[y].restored
    BY <1>4, <1>6, <1>7, <2>1 DEF ReceiptOK
  <2> QED
    BY <1>4, <1>6, <2>2 DEF ReceiptOK
<1>9. ReceiptsOK'
  BY <1>6, <1>8 DEF RemovalInv, ReceiptsOK
<1>10. TakenOK'
  BY <1>4, <1>5, <1>6 DEF RemovalInv, TakenOK
<1>11. PICK u : /\ tasks' = (tasks \ {t}) \cup {u} /\ DOMAIN u = Fields
                /\ u.phase = "unlink" /\ u.left = t.left \ {x} /\ u.id = t.id
  BY <1>2, GoesOn DEF Record
<1>12. HolderOK(u)'
  <2>1. Pending(id)' = Pending(id) \ {x}
    BY <1>6, <1>7 DEF Pending
  <2>2. u.left = Pending(u.id)'
    BY <1>2, <1>11, <2>1 DEF HolderOK
  <2>3. u.id \in DOMAIN receipts' /\ receipts'[u.id].pending
    BY <1>4, <1>6, <1>11
  <2> QED
    BY <1>2, <1>5, <1>11, <2>2, <2>3 DEF HolderOK
<1>13. TasksOK'
  BY <1>2, <1>5, <1>11, <1>12, OneHolder
<1>14. RemovalInv'
  BY <1>5, <1>9, <1>10, <1>13 DEF RemovalInv, FilesOK
<1>15. ReceiptAccounts'
  BY <1>14, InvAccounts, PTL
<1>16. \A i \in DOMAIN receipts : i \in DOMAIN receipts' /\ receipts'[i].token = receipts[i].token
  BY <1>6
<1> QED
  BY <1>5, <1>14, <1>15, <1>16 DEF Promised, DeletesWhatWasConfirmed, TakesEffectOnce

\* A receipt whose deletion is done.
LEMMA FinishKeeps == ASSUME RemovalInv, NEW t \in tasks, Finish(t) PROVE RemovalInv' /\ Promised
PROOF
<1> DEFINE id == t.id
<1>1. Holding(t) /\ t.left = {}
  BY DEF Finish, Holds, Holding
<1>2. lock /\ HolderOK(t) /\ DOMAIN t = Fields /\ \A u \in tasks \ {t} : Light(u)
  BY <1>1, OthersLight
<1>3. id \in DOMAIN receipts /\ Pending(id) = {} /\ ReceiptOK(receipts[id])
  BY <1>1, <1>2 DEF HolderOK, RemovalInv, ReceiptsOK
<1>4. /\ receipts' = [receipts EXCEPT ![id].pending = FALSE]
      /\ UNCHANGED <<bookId, file, unlinked, changed>>
  BY DEF Finish, Holds, Deletes, library, archives
<1>5. /\ DOMAIN receipts' = DOMAIN receipts
      /\ \A i \in DOMAIN receipts : i # id => receipts'[i] = receipts[i]
      /\ receipts'[id].pending = FALSE
      /\ receipts'[id].items = receipts[id].items /\ receipts'[id].token = receipts[id].token
      /\ DOMAIN receipts'[id] = DOMAIN receipts[id]
  BY <1>3, <1>4 DEF ReceiptOK
<1>6. \A x \in DOMAIN receipts[id].items : receipts[id].items[x].file = "deleted"
  BY <1>3 DEF Pending
<1>7. ReceiptOK(receipts'[id])
  BY <1>3, <1>5, <1>6 DEF ReceiptOK
<1>8. ReceiptsOK'
  BY <1>5, <1>7 DEF RemovalInv, ReceiptsOK
<1>9. TakenOK'
  <2>1. ASSUME NEW x \in Content, NEW i \in unlinked[x]
        PROVE  /\ i \in DOMAIN receipts /\ x \in DOMAIN receipts'[i].items
               /\ receipts'[i].items[x].file = "deleted" \/ receipts'[i].pending
                    \/ receipts'[i].stopped
    BY <1>5, <1>6 DEF RemovalInv, TakenOK
  <2> QED
    BY <1>4, <1>5, <2>1 DEF RemovalInv, TakenOK
<1>10. TasksOK'
  BY <1>2, EndsLight, LightTasks DEF Finish
<1>11. RemovalInv'
  BY <1>4, <1>8, <1>9, <1>10 DEF RemovalInv, FilesOK
<1>12. ReceiptAccounts'
  BY <1>11, InvAccounts, PTL
<1> QED
  BY <1>4, <1>5, <1>11, <1>12 DEF Promised, DeletesWhatWasConfirmed, TakesEffectOnce

LEMMA WorkKeeps == ASSUME RemovalInv, Work PROVE RemovalInv' /\ Promised
PROOF BY CarryOutKeeps, CheckKeeps, UnlinkKeeps, RecordKeeps, FinishKeeps DEF Work

-----------------------------------------------------------------------------
(* The recycle bin, the hourly round and what goes wrong.                  *)

LEMMA CancelKeeps ==
    ASSUME RemovalInv, NEW id \in DOMAIN receipts, CancelDeletion(id) PROVE RemovalInv' /\ Promised
PROOF
<1>1. Stop(id) /\ UNCHANGED <<bookId, file, unlinked, lock, tasks>> /\ Unlocked
  BY DEF CancelDeletion, FromBin, library, archives
<1>2. ReceiptsOK' /\ TakenOK' /\ FilesOK' /\ DeletesWhatWasConfirmed /\ TakesEffectOnce
  BY <1>1, StopKeeps
<1>3. TasksOK'
  BY <1>1, NobodyHolds, LightTasks DEF RemovalInv
<1>4. RemovalInv'
  BY <1>2, <1>3 DEF RemovalInv
<1>5. ReceiptAccounts'
  BY <1>4, InvAccounts, PTL
<1> QED
  BY <1>2, <1>4, <1>5 DEF Promised

\* Restored books are in the library again, and their files are not deleted.
LEMMA RestoreKeeps ==
    ASSUME RemovalInv, NEW id \in DOMAIN receipts, NEW S, Restore(id, S)
    PROVE  RemovalInv' /\ Promised
PROOF
<1> DEFINE items == receipts[id].items
           new == [x \in DOMAIN items |-> IF x \in S THEN [items[x] EXCEPT !.restored = TRUE]
                                          ELSE items[x]]
<1>1. /\ receipts' = [receipts EXCEPT ![id].items = new]
      /\ bookId' = [x \in Content |-> IF x \in S THEN items[x].id ELSE bookId[x]]
      /\ UNCHANGED <<file, unlinked, lock, tasks>> /\ Unlocked /\ ~receipts[id].pending
  BY DEF Restore, FromBin, archives
<1>2. ReceiptOK(receipts[id])
  BY DEF RemovalInv, ReceiptsOK
<1>3. /\ DOMAIN receipts' = DOMAIN receipts
      /\ \A i \in DOMAIN receipts : i # id => receipts'[i] = receipts[i]
      /\ receipts'[id].pending = receipts[id].pending
      /\ receipts'[id].stopped = receipts[id].stopped
      /\ receipts'[id].delete = receipts[id].delete
      /\ receipts'[id].token = receipts[id].token
      /\ DOMAIN receipts'[id] = DOMAIN receipts[id]
      /\ receipts'[id].items = new
  <2> HIDE DEF new
  <2> QED
    BY <1>1, <1>2 DEF ReceiptOK
<1>4. \A x \in S : x \in DOMAIN items /\ items[x].file # "deleted" /\ bookId[x] = None
  BY DEF Restore, Restorable, Pending
<1>5. /\ DOMAIN new = DOMAIN items
      /\ \A x \in DOMAIN items : /\ DOMAIN new[x] = {"id", "edited", "place", "file", "restored"}
                                 /\ new[x].file = items[x].file
                                 /\ x \notin S => new[x] = items[x]
  BY <1>2 DEF ReceiptOK
<1>6. ReceiptOK(receipts'[id])
  <2>1. \A x \in DOMAIN new : new[x].restored => ~receipts'[id].pending /\ new[x].file # "deleted"
    BY <1>1, <1>2, <1>3, <1>4, <1>5 DEF ReceiptOK
  <2> HIDE DEF new
  <2> QED
    BY <1>1, <1>2, <1>3, <1>5, <2>1 DEF ReceiptOK
<1> HIDE DEF new
<1>7. ReceiptsOK'
  BY <1>3, <1>6 DEF RemovalInv, ReceiptsOK
<1>8. TakenOK'
  <2>1. ASSUME NEW x \in Content, NEW i \in unlinked[x]
        PROVE  /\ i \in DOMAIN receipts /\ x \in DOMAIN receipts'[i].items
               /\ receipts'[i].items[x].file = "deleted" \/ receipts'[i].pending
                    \/ receipts'[i].stopped
    BY <1>3, <1>5 DEF RemovalInv, TakenOK
  <2> QED
    BY <1>1, <1>3, <2>1 DEF RemovalInv, TakenOK
<1>9. TasksOK'
  BY <1>1, NobodyHolds, LightTasks DEF RemovalInv
<1>10. RemovalInv'
  BY <1>1, <1>7, <1>8, <1>9 DEF RemovalInv, FilesOK
<1>11. ReceiptAccounts'
  BY <1>10, InvAccounts, PTL
<1>12. \A x \in Content : bookId[x] # None => bookId'[x] # None
  BY <1>1, <1>4
<1> QED
  BY <1>1, <1>3, <1>10, <1>11, <1>12 DEF Promised, DeletesWhatWasConfirmed, TakesEffectOnce

LEMMA UpkeepKeeps == ASSUME RemovalInv, Upkeep PROVE RemovalInv' /\ Promised
PROOF
<1>1. PICK id \in DOMAIN receipts : Hourly(id)
  BY DEF Upkeep
<1> DEFINE u == [n |-> None, id |-> id, delete |-> TRUE, token |-> <<>>,
                 phase |-> "check", left |-> {}]
<1>2. tasks' = tasks \cup {u} /\ UNCHANGED <<library, archives, receipts, lock, unlinked, changed>>
  BY <1>1 DEF Hourly
<1>3. Light(u)
  BY DEF Light, Fields, Holding
<1>4. TasksOK'
  BY <1>2, <1>3, TasksStay DEF RemovalInv, library, archives
<1>5. RemovalInv'
  BY <1>2, <1>4, RestStays DEF RemovalInv, FilesOK, library, archives
<1> QED
  BY <1>2, <1>5, QuietPromised DEF library

LEMMA OthersKeep == ASSUME RemovalInv, Others PROVE RemovalInv' /\ Promised
PROOF
<1>1. ASSUME NEW t \in tasks, DeletionFails(t) PROVE RemovalInv' /\ Promised
  <2>1. UNCHANGED <<library, archives, receipts, unlinked, changed>> /\ tasks' = tasks \ {t}
    BY <1>1 DEF DeletionFails, Deletes
  <2>2. \A u \in tasks' : Light(u)
    <3>1. CASE t.phase = "check"
      BY <1>1, <2>1, <3>1, NobodyHolds DEF DeletionFails, RemovalInv
    <3>2. CASE t.phase # "check"
      BY <1>1, <2>1, <3>2, OthersLight DEF DeletionFails, Deletes, Holding
    <3> QED
      BY <3>1, <3>2
  <2>3. RemovalInv'
    BY <2>1, <2>2, LightTasks, RestStays DEF RemovalInv, FilesOK, library, archives
  <2> QED
    BY <2>1, <2>3, QuietPromised DEF library
<1>2. CASE ServerStops
  <2>1. UNCHANGED <<library, archives, receipts, unlinked, changed>> /\ tasks' = {}
    BY <1>2 DEF ServerStops
  <2>2. RemovalInv'
    BY <2>1, LightTasks, RestStays DEF RemovalInv, FilesOK, library, archives
  <2> QED
    BY <2>1, <2>2, QuietPromised DEF library
<1>3. CASE ScanTurns
  <2>1. UNCHANGED <<library, archives, receipts, unlinked, changed, tasks, lock>>
    BY <1>3 DEF ScanTurns, Other
  <2>2. TasksOK'
    BY <2>1, TasksStay DEF RemovalInv, library, archives
  <2>3. RemovalInv'
    BY <2>1, <2>2, RestStays DEF RemovalInv, FilesOK, library, archives
  <2> QED
    BY <2>1, <2>3, QuietPromised DEF library
<1>4. ASSUME NEW x \in Content, OtherEdits(x) PROVE RemovalInv' /\ Promised
  <2>1. UNCHANGED <<archives, receipts, unlinked, changed, tasks, lock>> /\ Unlocked
    BY <1>4 DEF OtherEdits, Other
  <2>2. TasksOK'
    BY <2>1, NobodyHolds, LightTasks DEF RemovalInv
  <2>3. FilesOK'
    BY <1>4, <2>1 DEF OtherEdits, RemovalInv, FilesOK, archives
  <2>4. RemovalInv'
    BY <2>1, <2>2, <2>3, RestStays DEF RemovalInv
  <2>5. \A y \in Content : bookId[y] # None => bookId'[y] # None
    BY <1>4 DEF OtherEdits, RemovalInv, FilesOK
  <2> QED
    BY <2>1, <2>4, <2>5, QuietPromised
<1>5. ASSUME NEW x \in Content, FileChanges(x) PROVE RemovalInv' /\ Promised
  <2>1. UNCHANGED <<library, receipts, unlinked, tasks, lock>> /\ changed' = changed \cup {x}
    BY <1>5 DEF FileChanges, Other
  <2>2. PICK f \in {"own", "other", "none"} : file' = [file EXCEPT ![x] = f]
    BY <1>5 DEF FileChanges
  <2>3. FilesOK'
    BY <2>1, <2>2 DEF RemovalInv, FilesOK, library
  <2>4. ASSUME NEW t \in tasks, Holding(t) PROVE lock' /\ HolderOK(t)'
    <3>1. HolderOK(t) /\ lock
      BY <2>4 DEF RemovalInv, TasksOK
    <3>2. \A y \in Content : file'[y] = "other" => file[y] = "other" \/ y \in changed'
      BY <2>1, <2>2 DEF RemovalInv, FilesOK
    <3>3. \A y \in t.left \cap Content : file'[y] = "other" => y \in changed'
      BY <2>1, <3>1, <3>2 DEF HolderOK
    <3> QED
      BY <2>1, <3>1, <3>3 DEF HolderOK, Pending, library
  <2>5. TasksOK'
    BY <2>1, <2>4 DEF RemovalInv, TasksOK, Holding
  <2>6. RemovalInv'
    BY <2>1, <2>3, <2>5, RestStays DEF RemovalInv
  <2> QED
    BY <2>1, <2>6, QuietPromised DEF library
<1> QED
  BY <1>1, <1>2, <1>3, <1>4, <1>5 DEF Others

-----------------------------------------------------------------------------
LEMMA RemovalBegins == RemovalInit => RemovalInv
PROOF BY DEF RemovalInit, RemovalInv, TasksOK, ReceiptsOK, TakenOK, FilesOK

LEMMA RemovalKeeps == ASSUME RemovalInv, RemovalNext PROVE RemovalInv' /\ Promised
PROOF BY DialogKeeps, WorkKeeps, CancelKeeps, RestoreKeeps, UpkeepKeeps, OthersKeep DEF RemovalNext, Bin

LEMMA NothingKeeps == ASSUME RemovalInv, UNCHANGED removalVars PROVE RemovalInv'
PROOF
<1>1. TasksOK'
  BY TasksStay DEF RemovalInv, removalVars, library, archives
<1> QED
  BY <1>1, RestStays DEF removalVars, archives, library, RemovalInv, FilesOK

\* However requests are repeated, lost or interrupted, and whatever happens to the library
\* and the files meanwhile, a file is taken only for a removal that was confirmed with its
\* file, of a book nobody has registered again; a removal takes effect once; and receipts
\* account for every file taken on their behalf (_remove(), finish_deletion()).
THEOREM OnlyAsConfirmedTheorem == FairRemoval => OnlyAsConfirmed
PROOF
<1>1. RemovalInit => RemovalInv
  BY RemovalBegins
<1>2. RemovalInv /\ [RemovalNext]_removalVars => RemovalInv'
  BY RemovalKeeps, NothingKeeps
<1>3. RemovalInv /\ [RemovalNext]_removalVars => [Promised]_removalVars
  BY RemovalKeeps
<1> QED
  BY <1>1, <1>2, <1>3, PTL DEF FairRemoval, RemovalSpec, OnlyAsConfirmed, Promised

-----------------------------------------------------------------------------
(* The collection, through removals and restores.  The order that a        *)
(* receipt has kept and the order of the table are compared by what        *)
(* remains of a list without some of its members: a removal leaves what    *)
(* remains without its books, and a restore puts them back from the first  *)
(* to the last, each where nothing before it is missing any more.          *)

\* A dialog has a batch that is not removed yet, and sends what it has previewed.
Whole(s) == s \in Seq(ToSet(s))
DialogFields == {"open", "batches", "previews", "delete", "waits", "done", "error", "ids"}
PreviewFits(v, next) == v.id \in Nat /\ v.id < next /\ DOMAIN v.token \subseteq Content
DialogFits(d, next) ==
    /\ DOMAIN d = DialogFields /\ d.open = TRUE /\ d.delete \in BOOLEAN
    /\ d.batches \in Seq(SUBSET Content) /\ NextBatch(d) # {}
    /\ Whole(d.previews) /\ Len(d.previews) <= Len(d.batches)
    /\ \A i \in 1 .. Len(d.previews) : PreviewFits(d.previews[i], next)
    /\ d.waits # None => Len(d.previews) = Len(d.batches)

\* Its tasks are for removals that were previewed.
Phases == {"commit", "check", "unlink", "record"}
TaskFits(t, next) ==
    /\ t.id \in Nat /\ t.id < next /\ t.delete \in BOOLEAN /\ t.phase \in Phases
    /\ t.phase = "commit" => DOMAIN t.token \subseteq Content

\* The books of a receipt that were in the collection, one to a position.
Placeds(items) == {x \in DOMAIN items : items[x].place >= 0}
ItemsFit(items, next) ==
    /\ DOMAIN items \subseteq Content
    /\ \A x \in DOMAIN items : /\ items[x].id \in 0 .. next - 1 /\ items[x].edited \in Nat
                               /\ items[x].place \in -1 .. ContentCount
                               /\ items[x].place >= 0 => items[x].id # None
    /\ \A x, y \in Placeds(items) : x # y => items[x].place # items[y].place

\* As long as the collection has not changed since a removal, it is what the removal left
\* of the order it kept, and none of the receipt's books is back.
ReceiptFits(r, at, rev) ==
    /\ {r.pending, r.delete, r.stopped} \subseteq BOOLEAN
    /\ Distinct(r.order, Content) /\ r.after \in 0 .. rev
    /\ r.after = rev => /\ \A x \in Placeds(r.items) : ~r.items[x].restored
                        /\ Remains(Ranked(at), r.order, Placeds(r.items))

LibraryOK ==
    /\ nextBook \in Nat /\ nextId \in Nat
    /\ bookId \in [Content -> 0 .. nextBook - 1] /\ edited \in [Content -> Nat]
    /\ place \in [Content -> -1 .. ContentCount] /\ NoTies(place) /\ revision \in Nat
    /\ MembersExist
PathsOK ==
    /\ file \in [Content -> {"own", "other", "none"}] /\ stamp \in [Content -> Nat]
    /\ scanning \in BOOLEAN
KeptOK ==
    \A id \in DOMAIN receipts :
        /\ id \in Nat /\ id < nextId
        /\ ItemsFit(receipts[id].items, nextBook) /\ ReceiptFits(receipts[id], place, revision)
RequestsOK ==
    /\ dialog = Closed \/ DialogFits(dialog, nextId)
    /\ \A t \in tasks : TaskFits(t, nextId)
LockOK == lock \in BOOLEAN /\ (lock => \E t \in tasks : Holding(t))

HoldsInv == RemovalInv /\ LibraryOK /\ PathsOK /\ KeptOK /\ RequestsOK /\ LockOK

LEMMA HoldsTypes == HoldsInv => RemovalTypeOK /\ MembersExist
PROOF
<1> SUFFICES ASSUME HoldsInv PROVE RemovalTypeOK /\ MembersExist
  OBVIOUS
<1>1. \A t \in tasks : t.phase \in {"commit", "check", "unlink", "record"}
  BY DEF HoldsInv, RequestsOK, TaskFits, Phases
<1>2. lock <=> \E t \in tasks : t.phase \in {"unlink", "record"}
  BY DEF HoldsInv, RemovalInv, TasksOK, LockOK, Holding
<1>3. \A id \in DOMAIN receipts : id < nextId /\ {receipts[id].pending, receipts[id].delete,
                                                  receipts[id].stopped} \subseteq BOOLEAN
  BY DEF HoldsInv, KeptOK, ReceiptFits
<1> QED
  BY <1>1, <1>2, <1>3 DEF HoldsInv, LibraryOK, PathsOK, RemovalTypeOK

-----------------------------------------------------------------------------
(* Positions of contents.                                                  *)

LEMMA ContentIs ==
    /\ ContentCount \in Nat \ {0} /\ IsFiniteSet(Content) /\ Cardinality(Content) = ContentCount
    /\ \A x \in Content : x # None
    /\ \A p \in [Content -> -1 .. ContentCount] : p \in PositionsOf(Content) /\ DOMAIN p = Content
PROOF
<1>1. ContentCount \in Nat \ {0}
  BY RemovalAssumption
<1>2. IsFiniteSet(Content) /\ Cardinality(Content) = ContentCount
  BY <1>1, FS_Interval DEF Content
<1>3. \A x \in Content : x # None
  BY <1>1 DEF Content, None
<1>4. \A p \in [Content -> -1 .. ContentCount] : p \in PositionsOf(Content) /\ DOMAIN p = Content
  BY <1>1 DEF PositionsOf
<1> QED
  BY <1>1, <1>2, <1>3, <1>4

\* A list of contents as positions.
LEMMA IndexedIs ==
    ASSUME NEW s, Distinct(s, Content), NEW p, p = Indexed(Content, s)
    PROVE  /\ p \in [Content -> -1 .. ContentCount] /\ NoTies(p) /\ Ranked(p) = s
           /\ Members(p) = ToSet(s)
PROOF
<1>1. p \in PositionsOf(Content) /\ Orders(s, p)
  BY IndexedLists
<1>2. Ranked(p) = s /\ NoTies(p) /\ Members(p) = ToSet(s)
  BY <1>1, ListedOnce, OrderIsRanked DEF Orders
<1>3. Len(s) \in Nat /\ Len(s) <= ContentCount
  BY ContentIs, LengthBound
<1>4. \A x \in ToSet(s) : PlaceIn(s, x) \in 1 .. Len(s)
  BY ListIs
<1>5. \A x \in ToSet(s) : PlaceIn(s, x) - 1 \in -1 .. ContentCount
  BY <1>3, <1>4, ContentIs
<1>6. -1 \in -1 .. ContentCount
  BY ContentIs
<1>7. p \in [Content -> -1 .. ContentCount]
  BY <1>5, <1>6 DEF Indexed
<1> QED
  BY <1>2, <1>7

LEMMA CollectionIs ==
    ASSUME LibraryOK
    PROVE  /\ place \in PositionsOf(Content) /\ Distinct(Collection, Content)
           /\ ToSet(Collection) = Members(place)
PROOF
<1>1. place \in PositionsOf(Content) /\ NoTies(place)
  BY ContentIs DEF LibraryOK
<1>2. Orders(Ranked(place), place)
  BY <1>1, ContentIs, RankedLists
<1>3. Distinct(Ranked(place), Content)
  BY <1>1, <1>2, ListedOnce
<1> QED
  BY <1>1, <1>2, <1>3 DEF Collection, Orders

\* What remains depends on the members of the list alone.
LEMMA RemainsWithout ==
    ASSUME NEW s, NEW o, NEW X, NEW Y, Remains(s, o, X), ToSet(o) \ X = ToSet(o) \ Y
    PROVE  Remains(s, o, Y)
PROOF BY DEF Remains

-----------------------------------------------------------------------------
(* Books put back, one after another.                                      *)

LEMMA PutIs ==
    ASSUME NEW s \in Seq(Content), NEW b \in Content, NEW p \in Nat
    PROVE  /\ Put(s, b, p) \in Seq(Content)
           /\ Distinct(s, Content) /\ b \notin ToSet(s) =>
                /\ Distinct(Put(s, b, p), Content)
                /\ ToSet(Put(s, b, p)) = ToSet(s) \cup {b}
PROOF
<1>1. PICK k : k = (IF p < Len(s) THEN p ELSE Len(s)) + 1
  OBVIOUS
<1>2. Len(s) \in Nat /\ k \in 1 .. Len(s) + 1
  BY <1>1
<1>3. Put(s, b, p) = InsertAt(s, k, b)
  BY <1>1 DEF Put
<1>4. InsertAt(s, k, b) \in Seq(Content)
  BY <1>2, InsertedAt
<1>5. Distinct(s, Content) /\ b \notin ToSet(s) =>
        /\ Distinct(InsertAt(s, k, b), Content)
        /\ ToSet(InsertAt(s, k, b)) = ToSet(s) \cup {b}
  BY <1>2, PutBack
<1> QED
  BY <1>3, <1>4, <1>5

\* A restore in progress, from the first of the books to the last.
Grows(g, back, at) ==
    /\ g[0] = Collection
    /\ \A k \in 1 .. Len(back) : g[k] = Put(g[k - 1], back[k], at[back[k]])

LEMMA PlacedGrows ==
    ASSUME NEW id, NEW S, NEW at, at = Recalled(id, S), at \in PositionsOf(Content), NoTies(at),
           Distinct(Collection, Content), NEW back, back = Ranked(at)
    PROVE  \E g : Grows(g, back, at) /\ Placed(id, S) = g[Len(back)]
PROOF
<1>1. /\ Len(back) \in Nat
      /\ \A k \in 1 .. Len(back) : back[k] \in Content /\ at[back[k]] \in Nat
  BY ContentIs, RankedLists, ListedOnce
<1>2. PICK n : n = Len(back)
  OBVIOUS
<1> DEFINE step == [x \in Seq(Content) \X (1 .. n) |-> Put(x[1], back[x[2]], at[back[x[2]]])]
<1>3. step \in [Seq(Content) \X (1 .. n) -> Seq(Content)] /\ Collection \in Seq(Content)
  BY <1>1, <1>2, PutIs DEF Distinct
<1>4. \A s \in Seq(Content) : \A k \in 1 .. n : step[<<s, k>>] = Put(s, back[k], at[back[k]])
  OBVIOUS
<1>5. PICK f \in [0 .. n -> Seq(Content)] : f[0] = Collection /\ StepsBy(f, step, n)
  <2>1. n \in Nat
    BY <1>1, <1>2
  <2>2. PICK T, c : T = Seq(Content) /\ c = Collection
    OBVIOUS
  <2>3. step \in [T \X (1 .. n) -> T] /\ c \in T
    BY <1>3, <2>2
  <2> HIDE DEF step
  <2>4. \E f \in [0 .. n -> T] : f[0] = c /\ StepsBy(f, step, n)
    BY <2>1, <2>3, StepsExist
  <2> QED
    BY <2>2, <2>4
<1>6. ASSUME NEW k \in 0 .. n
      PROVE  f[k] = IF k = 0 THEN Collection ELSE Put(f[k - 1], back[k], at[back[k]])
  <2> HIDE DEF step
  <2>1. k # 0 => k \in 1 .. n /\ k - 1 \in 0 .. n /\ f[k - 1] \in Seq(Content)
    BY <1>1, <1>2
  <2> QED
    BY <1>4, <1>5, <2>1 DEF StepsBy
<1>7. f = [k \in 0 .. n |-> IF k = 0 THEN Collection ELSE Put(f[k - 1], back[k], at[back[k]])]
  BY <1>6
<1>8. PICK g : /\ g = [k \in 0 .. n |-> IF k = 0 THEN Collection
                                        ELSE Put(g[k - 1], back[k], at[back[k]])]
               /\ Placed(id, S) = g[n]
  BY <1>2, <1>7 DEF Placed
<1>9. Grows(g, back, at)
  <2>1. 0 \in 0 .. n /\ \A k \in 1 .. n : k \in 0 .. n /\ k # 0
    BY <1>1, <1>2
  <2> QED
    BY <1>2, <1>8, <2>1 DEF Grows
<1> QED
  BY <1>2, <1>8, <1>9

\* Everything that is restored is in the collection again, once.
LEMMA PlacedIs ==
    ASSUME NEW id, NEW S, NEW at, at = Recalled(id, S), at \in PositionsOf(Content), NoTies(at),
           Distinct(Collection, Content), Members(at) \cap ToSet(Collection) = {}
    PROVE  /\ Distinct(Placed(id, S), Content)
           /\ ToSet(Placed(id, S)) = ToSet(Collection) \cup Members(at)
PROOF
<1>1. PICK back : back = Ranked(at)
  OBVIOUS
<1>2. PICK g : Grows(g, back, at) /\ Placed(id, S) = g[Len(back)]
  BY <1>1, PlacedGrows
<1>3. /\ Distinct(back, Content) /\ Len(back) \in Nat
      /\ \A k \in 1 .. Len(back) : back[k] \in Members(at) /\ back[k] \in Content /\ at[back[k]] \in Nat
      /\ \A b \in Members(at) : \E k \in 1 .. Len(back) : back[k] = b
  BY <1>1, ContentIs, RankedLists, ListedOnce
<1> DEFINE n == Len(back)
           T == {k \in 0 .. n : /\ Distinct(g[k], Content)
                                /\ ToSet(g[k]) = ToSet(Collection) \cup {back[i] : i \in 1 .. k}}
<1>4. 0 \in T
  BY <1>2, <1>3 DEF Grows
<1>5. ASSUME NEW k \in 0 .. n - 1, k \in T
      PROVE  k + 1 \in T
  <2>1. k + 1 \in 1 .. n /\ k + 1 \in 0 .. n /\ k + 1 - 1 = k
    BY <1>3
  <2>2. PICK s, b : s = g[k] /\ b = back[k + 1]
    OBVIOUS
  <2>3. Distinct(s, Content) /\ ToSet(s) = ToSet(Collection) \cup {back[i] : i \in 1 .. k}
    BY <1>5, <2>2
  <2>4. b \in Members(at) /\ b \in Content /\ at[b] \in Nat
    BY <1>3, <2>1, <2>2
  <2>5. b \notin ToSet(s)
    <3>1. \A i \in 1 .. k : back[i] # back[k + 1]
      BY <1>3, <2>1 DEF Distinct
    <3> QED
      BY <2>2, <2>3, <2>4, <3>1
  <2>6. Distinct(Put(s, b, at[b]), Content) /\ ToSet(Put(s, b, at[b])) = ToSet(s) \cup {b}
    BY <2>3, <2>4, <2>5, PutIs DEF Distinct
  <2>7. g[k + 1] = Put(s, b, at[b])
    BY <1>2, <2>1, <2>2 DEF Grows
  <2>8. {back[i] : i \in 1 .. k + 1} = {back[i] : i \in 1 .. k} \cup {b}
    BY <1>3, <2>2
  <2> QED
    BY <2>1, <2>3, <2>6, <2>7, <2>8
<1>6. \A k \in 0 .. n : k \in T
  <2> HIDE DEF T, n
  <2>1. n \in Nat
    BY <1>3 DEF n
  <2> QED
    BY <1>4, <1>5, <2>1, CountsUp
<1>7. n \in T
  BY <1>3, <1>6
<1>8. {back[i] : i \in 1 .. n} = Members(at)
  BY <1>3
<1> QED
  BY <1>2, <1>7, <1>8

\* Put back into what remains of a list, they make that list.
LEMMA PlacedWhole ==
    ASSUME NEW id, NEW S, NEW at, at = Recalled(id, S), at \in PositionsOf(Content), NoTies(at),
           Distinct(Collection, Content), NEW o, Distinct(o, Content),
           Remains(Collection, o, Members(at)),
           \A x \in Members(at) : x \in ToSet(o) /\ PlaceIn(o, x) = at[x] + 1
    PROVE  Placed(id, S) = o
PROOF
<1>1. PICK back : back = Ranked(at)
  OBVIOUS
<1>2. PICK g : Grows(g, back, at) /\ Placed(id, S) = g[Len(back)]
  BY <1>1, PlacedGrows
<1>3. Orders(back, at) /\ DOMAIN at = Content
  BY <1>1, ContentIs, RankedLists DEF PositionsOf
<1>4. /\ Distinct(back, Content) /\ Len(back) \in Nat
      /\ \A k \in 1 .. Len(back) : back[k] \in Members(at) /\ back[k] \in Content /\ at[back[k]] \in Nat
      /\ \A b \in Members(at) : \E k \in 1 .. Len(back) : back[k] = b
  BY <1>3, ListedOnce
<1> DEFINE n == Len(back)
           Lost(k) == Members(at) \ {back[i] : i \in 1 .. k}
           T == {k \in 0 .. n : Distinct(g[k], Content) /\ Remains(g[k], o, Lost(k))}
<1>5. 0 \in T
  <2>1. Lost(0) = Members(at)
    OBVIOUS
  <2> HIDE DEF Lost
  <2> QED
    BY <1>2, <1>4, <2>1 DEF Grows
<1>6. ASSUME NEW k \in 0 .. n - 1, k \in T
      PROVE  k + 1 \in T
  <2>1. k + 1 \in 1 .. n /\ k + 1 \in 0 .. n /\ k + 1 - 1 = k
    BY <1>4
  <2>2. PICK s, b, p, X : s = g[k] /\ b = back[k + 1] /\ p = PlaceIn(o, b) /\ X = Lost(k)
    OBVIOUS
  <2>3. Distinct(s, Content) /\ Remains(s, o, X)
    BY <1>6, <2>2
  <2>4. b \in Members(at) /\ b \in Content /\ at[b] \in Nat /\ b \in ToSet(o) /\ p = at[b] + 1
    BY <1>4, <2>1, <2>2
  <2>5. b \in X
    <3>1. \A i \in 1 .. k : back[i] # back[k + 1]
      BY <1>4, <2>1 DEF Distinct
    <3> QED
      BY <2>2, <2>4, <3>1
  <2>6. ASSUME NEW c \in X, c # b
        PROVE  p < PlaceIn(o, c)
    <3>1. c \in Members(at) /\ ~ \E i \in 1 .. k : back[i] = c
      BY <2>2
    <3>2. PICK i \in 1 .. n : back[i] = c
      BY <1>4, <3>1
    <3>3. k + 1 < i
      BY <1>4, <2>2, <2>6, <3>1, <3>2
    <3>4. at[b] < at[c]
      BY <1>3, <2>1, <2>2, <3>2, <3>3 DEF Orders
    <3>5. PlaceIn(o, c) = at[c] + 1 /\ at[c] \in Nat
      BY <1>4, <3>1, <3>2
    <3> QED
      BY <2>4, <3>4, <3>5
  <2>7. PICK t : t = InsertAt(s, p, b)
    OBVIOUS
  <2>8. p \in 1 .. Len(s) + 1 /\ Distinct(t, Content) /\ Remains(t, o, X \ {b})
    <3>1. \A c \in X : c \in ToSet(o) /\ c # b => p < PlaceIn(o, c)
      BY <2>6
    <3>2. FirstLost(s, o, X, b, p)
      BY <2>2, <2>3, <2>4, <2>5, <3>1 DEF FirstLost
    <3> HIDE DEF T, Lost
    <3> QED
      BY <2>3, <2>7, <3>2, RemainsGrows
  <2>9. (IF at[b] < Len(s) THEN at[b] ELSE Len(s)) + 1 = p
    <3>1. Len(s) \in Nat
      BY <2>3 DEF Distinct
    <3> QED
      BY <2>4, <2>8, <3>1
  <2>10. g[k + 1] = t
    <3>1. g[k + 1] = Put(s, b, at[b])
      BY <1>2, <2>1, <2>2 DEF Grows
    <3> QED
      BY <2>7, <2>9, <3>1 DEF Put
  <2>11. Lost(k + 1) = X \ {b}
    <3>1. {back[i] : i \in 1 .. k + 1} = {back[i] : i \in 1 .. k} \cup {b}
      BY <1>4, <2>2
    <3> QED
      BY <2>2, <3>1
  <2> QED
    BY <2>1, <2>8, <2>10, <2>11
<1>7. \A k \in 0 .. n : k \in T
  <2> HIDE DEF T, n
  <2>1. n \in Nat
    BY <1>4 DEF n
  <2> QED
    BY <1>5, <1>6, <2>1, CountsUp
<1>8. n \in T
  <2> HIDE DEF T
  <2> QED
    BY <1>4, <1>7
<1>9. Lost(n) = {}
  BY <1>4
<1>10. Distinct(g[n], Content) /\ Remains(g[n], o, {})
  BY <1>8, <1>9
<1>11. g[n] = o
  <2> HIDE DEF n
  <2> QED
    BY <1>10, RemainsAll
<1> QED
  BY <1>2, <1>11

-----------------------------------------------------------------------------
(* What receipts keep.                                                     *)

\* Receipts of the same removal, whatever has become of its files.
Alike(r, s) ==
    /\ DOMAIN s.items = DOMAIN r.items /\ s.order = r.order /\ s.after = r.after
    /\ {s.pending, s.delete, s.stopped} \subseteq BOOLEAN
    /\ \A x \in DOMAIN r.items :
         /\ s.items[x].id = r.items[x].id /\ s.items[x].edited = r.items[x].edited
         /\ s.items[x].place = r.items[x].place /\ s.items[x].restored = r.items[x].restored

LEMMA AlikeFits ==
    ASSUME NEW r, NEW s, Alike(r, s), NEW n \in Nat, NEW m \in Nat, n <= m, ItemsFit(r.items, n)
    PROVE  /\ ItemsFit(s.items, m) /\ Placeds(s.items) = Placeds(r.items)
           /\ \A at, rev : ReceiptFits(r, at, rev) => ReceiptFits(s, at, rev)
PROOF
<1>1. Placeds(s.items) = Placeds(r.items)
  BY DEF Alike, Placeds
<1>2. \A x \in DOMAIN r.items : s.items[x].id \in 0 .. m - 1
  BY DEF Alike, ItemsFit
<1>3. ItemsFit(s.items, m)
  BY <1>1, <1>2 DEF Alike, ItemsFit, Placeds
<1>4. ASSUME NEW at, NEW rev, ReceiptFits(r, at, rev) PROVE ReceiptFits(s, at, rev)
  BY <1>1, <1>4 DEF Alike, ReceiptFits, Placeds
<1> QED
  BY <1>1, <1>3, <1>4

\* A later revision of the collection leaves nothing to be kept of it.
LEMMA LaterFits ==
    ASSUME NEW r, NEW at, NEW was, NEW rev \in Nat, NEW new \in Nat, rev < new, ReceiptFits(r, at, rev)
    PROVE  ReceiptFits(r, was, new)
PROOF
<1>1. r.after \in 0 .. new /\ r.after # new
  BY DEF ReceiptFits
<1> QED
  BY <1>1 DEF ReceiptFits

\* What a step may do to the library for the receipts to be kept.
GoesForward ==
    /\ nextBook' \in Nat /\ nextBook <= nextBook' /\ nextId' \in Nat /\ nextId <= nextId'
    /\ revision' \in Nat /\ (revision < revision' \/ UNCHANGED <<place, revision>>)

LEMMA ReceiptStays ==
    ASSUME LibraryOK, KeptOK, GoesForward, NEW id \in DOMAIN receipts, NEW s, Alike(receipts[id], s)
    PROVE  id \in Nat /\ id < nextId' /\ ItemsFit(s.items, nextBook') /\ ReceiptFits(s, place', revision')
PROOF
<1>1. PICK r : r = receipts[id]
  OBVIOUS
<1>2. id \in Nat /\ id < nextId /\ ItemsFit(r.items, nextBook) /\ ReceiptFits(r, place, revision)
  BY <1>1 DEF KeptOK
<1>3. nextBook \in Nat /\ nextId \in Nat /\ revision \in Nat
  BY DEF LibraryOK
<1>4. ItemsFit(s.items, nextBook') /\ ReceiptFits(s, place, revision)
  BY <1>1, <1>2, <1>3, AlikeFits DEF GoesForward
<1>5. ReceiptFits(s, place', revision')
  BY <1>3, <1>4, LaterFits DEF GoesForward
<1> QED
  BY <1>2, <1>3, <1>4, <1>5 DEF GoesForward

\* A step that restores nothing.
LEMMA KeptStays ==
    ASSUME LibraryOK, KeptOK, GoesForward, DOMAIN receipts \subseteq DOMAIN receipts',
           \A id \in DOMAIN receipts : Alike(receipts[id], receipts'[id]),
           \A id \in DOMAIN receipts' \ DOMAIN receipts :
               /\ id \in Nat /\ id < nextId'
               /\ ItemsFit(receipts'[id].items, nextBook')
               /\ ReceiptFits(receipts'[id], place', revision')
    PROVE  KeptOK' /\ RestoredInPlace
PROOF
<1>1. ASSUME NEW id \in DOMAIN receipts'
      PROVE  /\ id \in Nat /\ id < nextId' /\ ItemsFit(receipts'[id].items, nextBook')
             /\ ReceiptFits(receipts'[id], place', revision')
  BY ReceiptStays
<1>2. KeptOK'
  BY <1>1 DEF KeptOK
<1>3. \A id \in DOMAIN receipts : ~PutsBack(id)
  BY DEF PutsBack, Alike
<1> QED
  BY <1>2, <1>3 DEF RestoredInPlace

LEMMA SameAlike ==
    ASSUME KeptOK, NEW id \in DOMAIN receipts
    PROVE  Alike(receipts[id], receipts[id])
PROOF BY DEF KeptOK, ReceiptFits, Alike

LEMMA KeptSame ==
    ASSUME LibraryOK, KeptOK, GoesForward, UNCHANGED receipts
    PROVE  KeptOK' /\ RestoredInPlace
PROOF
<1>1. \A id \in DOMAIN receipts : Alike(receipts[id], receipts[id])
  BY SameAlike
<1> QED
  BY <1>1, KeptStays

LEMMA KeptStopped ==
    ASSUME LibraryOK, KeptOK, GoesForward, ReceiptsOK, NEW id \in DOMAIN receipts, Stop(id)
    PROVE  KeptOK' /\ RestoredInPlace
PROOF
<1>1. PICK r : r = receipts[id] /\ ReceiptOK(r) /\ Alike(r, r)
  BY SameAlike DEF ReceiptsOK
<1>2. PICK s : s = [r EXCEPT !.pending = FALSE, !.stopped = TRUE]
  OBVIOUS
<1>3. /\ DOMAIN receipts' = DOMAIN receipts /\ receipts'[id] = s
      /\ \A i \in DOMAIN receipts : i # id => receipts'[i] = receipts[i]
  BY <1>1, <1>2 DEF Stop
<1>4. /\ s.items = r.items /\ s.order = r.order /\ s.after = r.after /\ s.delete = r.delete
      /\ s.pending = FALSE /\ s.stopped = TRUE
  BY <1>1, <1>2 DEF ReceiptOK
<1>5. Alike(r, s)
  BY <1>1, <1>4 DEF Alike
<1>6. \A i \in DOMAIN receipts : Alike(receipts[i], receipts'[i])
  BY <1>1, <1>3, <1>5, SameAlike
<1> QED
  BY <1>3, <1>6, KeptStays

LEMMA KeptFinished ==
    ASSUME LibraryOK, KeptOK, GoesForward, ReceiptsOK, NEW id \in DOMAIN receipts,
           receipts' = [receipts EXCEPT ![id].pending = FALSE]
    PROVE  KeptOK' /\ RestoredInPlace
PROOF
<1>1. PICK r : r = receipts[id] /\ ReceiptOK(r) /\ Alike(r, r)
  BY SameAlike DEF ReceiptsOK
<1>2. PICK s : s = [r EXCEPT !.pending = FALSE]
  OBVIOUS
<1>3. /\ DOMAIN receipts' = DOMAIN receipts /\ receipts'[id] = s
      /\ \A i \in DOMAIN receipts : i # id => receipts'[i] = receipts[i]
  BY <1>1, <1>2
<1>4. /\ s.items = r.items /\ s.order = r.order /\ s.after = r.after /\ s.delete = r.delete
      /\ s.pending = FALSE /\ s.stopped = r.stopped
  BY <1>1, <1>2 DEF ReceiptOK
<1>5. Alike(r, s)
  BY <1>1, <1>4 DEF Alike
<1>6. \A i \in DOMAIN receipts : Alike(receipts[i], receipts'[i])
  BY <1>1, <1>3, <1>5, SameAlike
<1> QED
  BY <1>3, <1>6, KeptStays

LEMMA KeptRecorded ==
    ASSUME LibraryOK, KeptOK, GoesForward, ReceiptsOK, NEW id \in DOMAIN receipts,
           NEW x \in DOMAIN receipts[id].items,
           receipts' = [receipts EXCEPT ![id].items[x].file = "deleted"]
    PROVE  KeptOK' /\ RestoredInPlace
PROOF
<1>1. PICK r : r = receipts[id] /\ ReceiptOK(r) /\ Alike(r, r)
  BY SameAlike DEF ReceiptsOK
<1>2. PICK s, i, j : /\ i = r.items /\ j = [i EXCEPT ![x].file = "deleted"]
                     /\ s = [r EXCEPT !.items = j]
  OBVIOUS
<1>3. /\ DOMAIN receipts' = DOMAIN receipts /\ receipts'[id] = s
      /\ \A k \in DOMAIN receipts : k # id => receipts'[k] = receipts[k]
  BY <1>1, <1>2 DEF ReceiptOK
<1>4. /\ s.items = j /\ s.order = r.order /\ s.after = r.after /\ s.delete = r.delete
      /\ s.pending = r.pending /\ s.stopped = r.stopped
  BY <1>1, <1>2 DEF ReceiptOK
<1>5. DOMAIN j = DOMAIN i /\ \A y \in DOMAIN i : y # x => j[y] = i[y]
  BY <1>2
<1>6. j[x].id = i[x].id /\ j[x].edited = i[x].edited /\ j[x].place = i[x].place
      /\ j[x].restored = i[x].restored
  <2>1. DOMAIN i[x] = {"id", "edited", "place", "file", "restored"} /\ j[x] = [i[x] EXCEPT !.file = "deleted"]
    BY <1>1, <1>2 DEF ReceiptOK
  <2> QED
    BY <2>1
<1>7. Alike(r, s)
  BY <1>1, <1>2, <1>4, <1>5, <1>6 DEF Alike
<1>8. \A k \in DOMAIN receipts : Alike(receipts[k], receipts'[k])
  BY <1>1, <1>3, <1>7, SameAlike
<1> QED
  BY <1>3, <1>8, KeptStays

-----------------------------------------------------------------------------
(* A removal and the collection.                                           *)

LEMMA CommitPlaces ==
    ASSUME LibraryOK, NEW t, CommitRemoval(t)
    PROVE  /\ place' \in [Content -> -1 .. ContentCount] /\ NoTies(place')
           /\ Members(place') = Members(place) \ DOMAIN t.token
           /\ Remains(Ranked(place'), Ranked(place), DOMAIN t.token)
           /\ revision' \in Nat /\ (revision < revision' \/ UNCHANGED <<place, revision>>)
PROOF
<1>1. PICK D, out, s : D = DOMAIN t.token /\ out = Outside(D) /\ s = Ranked(out)
  OBVIOUS
<1>2. place \in PositionsOf(Content) /\ NoTies(place) /\ IsFiniteSet(Content)
  BY ContentIs DEF LibraryOK
<1>3. out = [x \in Content |-> IF x \in D THEN -1 ELSE place[x]]
  BY <1>1 DEF Outside
<1>4. /\ out \in PositionsOf(Content) /\ NoTies(out) /\ Members(out) = Members(place) \ D
      /\ Remains(Ranked(out), Ranked(place), D)
  BY <1>2, <1>3, RankedRemains
<1>5. Orders(s, out)
  BY <1>1, <1>2, <1>4, RankedLists
<1>6. Distinct(s, Content) /\ ToSet(s) = Members(out)
  BY <1>4, <1>5, ListedOnce DEF Orders
<1>7. CASE \E x \in D : place[x] >= 0
  <2>1. place' = Indexed(Content, s) /\ revision' = revision + 1
    BY <1>1, <1>7 DEF CommitRemoval
  <2>2. PICK p : p = Indexed(Content, s)
    OBVIOUS
  <2>3. /\ p \in [Content -> -1 .. ContentCount] /\ NoTies(p) /\ Ranked(p) = s
        /\ Members(p) = Members(out)
    BY <1>6, <2>2, IndexedIs
  <2> QED
    BY <1>1, <1>4, <2>1, <2>2, <2>3 DEF LibraryOK
<1>8. CASE ~ \E x \in D : place[x] >= 0
  <2>1. UNCHANGED <<place, revision>>
    BY <1>1, <1>8 DEF CommitRemoval
  <2>2. \A x \in Content : out[x] = place[x]
    <3>1. \A x \in Content : place[x] \in Nat \cup {-1} /\ (x \in D => place[x] = -1)
      BY <1>2, <1>8 DEF PositionsOf
    <3> QED
      BY <1>3, <3>1
  <2>3. out = place
    BY <1>2, <1>3, <2>2 DEF PositionsOf
  <2> QED
    BY <1>1, <1>4, <2>1, <2>3 DEF LibraryOK
<1> QED
  BY <1>7, <1>8

LEMMA CommitLibrary ==
    ASSUME LibraryOK, NEW t, CommitRemoval(t), UNCHANGED nextId
    PROVE  LibraryOK' /\ GoesForward
PROOF
<1>1. /\ place' \in [Content -> -1 .. ContentCount] /\ NoTies(place')
      /\ Members(place') = Members(place) \ DOMAIN t.token
      /\ revision' \in Nat /\ (revision < revision' \/ UNCHANGED <<place, revision>>)
  BY CommitPlaces
<1>2. /\ UNCHANGED <<nextBook, edited, nextId>>
      /\ bookId' = [x \in Content |-> IF x \in DOMAIN t.token THEN None ELSE bookId[x]]
  BY DEF CommitRemoval
<1>3. bookId' \in [Content -> 0 .. nextBook - 1]
  <2>1. \A x \in Content : x \in DOMAIN t.token => nextBook > 0
    BY DEF LibraryOK
  <2> QED
    BY <1>2, <2>1 DEF LibraryOK, None
<1>4. ASSUME NEW x \in Content, place'[x] >= 0
      PROVE  bookId'[x] # None
  <2>1. x \in Members(place) \ DOMAIN t.token
    <3>1. x \in Members(place')
      BY <1>1, <1>4 DEF Members
    <3> QED
      BY <1>1, <3>1
  <2>2. place[x] >= 0
    BY <2>1 DEF Members
  <2> QED
    BY <1>2, <2>1, <2>2 DEF LibraryOK, MembersExist
<1>5. MembersExist'
  BY <1>4 DEF MembersExist
<1> QED
  BY <1>1, <1>2, <1>3, <1>5 DEF LibraryOK, GoesForward

\* The new receipt has the books as they were, and the order they were in.
LEMMA CommitFits ==
    ASSUME LibraryOK, NEW t, CommitRemoval(t), DOMAIN t.token \subseteq Content,
           t.token = Token(DOMAIN t.token), t.delete \in BOOLEAN,
           NEW r, r = receipts'[t.id]
    PROVE  ItemsFit(r.items, nextBook) /\ ReceiptFits(r, place', revision')
PROOF
<1>1. PICK D : D = DOMAIN t.token
  OBVIOUS
<1>2. r = [token |-> t.token, delete |-> t.delete, pending |-> t.delete, stopped |-> FALSE,
           items |-> Items(t.token), order |-> Collection, after |-> revision']
  BY DEF CommitRemoval
<1>3. /\ r.delete = t.delete /\ r.pending = t.delete /\ r.stopped = FALSE
      /\ r.order = Collection /\ r.after = revision' /\ r.items = Items(t.token)
  BY <1>2
<1>4. ASSUME NEW x \in D
      PROVE  /\ t.token[x].book = bookId[x] /\ t.token[x].edited = edited[x]
             /\ t.token[x].place = place[x]
  BY <1>1 DEF Token
<1>5. /\ DOMAIN r.items = D
      /\ \A x \in D : /\ r.items[x].id = bookId[x] /\ r.items[x].edited = edited[x]
                      /\ r.items[x].place = place[x] /\ r.items[x].restored = FALSE
  BY <1>1, <1>3, <1>4 DEF Items
<1>6. Placeds(r.items) = Members(place) \cap D
  BY <1>1, <1>5 DEF Placeds, Members, LibraryOK
<1>7. ItemsFit(r.items, nextBook)
  <2>1. \A x \in D : /\ bookId[x] \in 0 .. nextBook - 1 /\ edited[x] \in Nat
                     /\ place[x] \in -1 .. ContentCount
                     /\ place[x] >= 0 => bookId[x] # None
    BY <1>1 DEF LibraryOK, MembersExist
  <2>2. ASSUME NEW x \in Placeds(r.items), NEW y \in Placeds(r.items), x # y
        PROVE  r.items[x].place # r.items[y].place
    <3>1. x \in D /\ y \in D /\ place[x] >= 0 /\ x \in DOMAIN place /\ y \in DOMAIN place
      BY <1>6 DEF Members
    <3>2. place[x] # place[y]
      BY <2>2, <3>1 DEF LibraryOK, NoTies
    <3> QED
      BY <1>5, <3>1, <3>2
  <2> QED
    BY <1>1, <1>5, <2>1, <2>2 DEF ItemsFit
<1>8. Remains(Ranked(place'), Collection, Placeds(r.items))
  <2>1. Remains(Ranked(place'), Collection, D)
    BY <1>1, CommitPlaces DEF Collection
  <2>2. ToSet(Collection) \ D = ToSet(Collection) \ Placeds(r.items)
    BY <1>6, CollectionIs
  <2> QED
    BY <2>1, <2>2, RemainsWithout
<1>9. revision' \in Nat /\ Distinct(Collection, Content)
  BY CommitPlaces, CollectionIs
<1>10. \A x \in Placeds(r.items) : ~r.items[x].restored
  BY <1>5 DEF Placeds
<1>11. ReceiptFits(r, place', revision')
  <2>1. {r.pending, r.delete, r.stopped} \subseteq BOOLEAN
    BY <1>3
  <2>2. Distinct(r.order, Content) /\ r.after \in 0 .. revision'
    BY <1>3, <1>9
  <2>3. Remains(Ranked(place'), r.order, Placeds(r.items))
    BY <1>3, <1>8
  <2> QED
    BY <1>10, <2>1, <2>2, <2>3 DEF ReceiptFits
<1> QED
  BY <1>7, <1>11

LEMMA CommitKept ==
    ASSUME LibraryOK, KeptOK, NEW t, CommitRemoval(t), ~Recorded(t.id), TaskFits(t, nextId),
           t.phase = "commit", t.token = Token(DOMAIN t.token), UNCHANGED nextId
    PROVE  KeptOK' /\ RestoredInPlace
PROOF
<1>1. LibraryOK' /\ GoesForward /\ nextBook' = nextBook
  BY CommitLibrary DEF CommitRemoval
<1>2. DOMAIN t.token \subseteq Content /\ t.delete \in BOOLEAN /\ t.id \in Nat /\ t.id < nextId'
  BY DEF TaskFits
<1>3. PICK r : r = receipts'[t.id]
  OBVIOUS
<1>4. ItemsFit(r.items, nextBook') /\ ReceiptFits(r, place', revision')
  <2>1. ItemsFit(r.items, nextBook) /\ ReceiptFits(r, place', revision')
    BY <1>2, <1>3, CommitFits
  <2> QED
    BY <1>1, <2>1
<1>5. /\ DOMAIN receipts' = DOMAIN receipts \cup {t.id} /\ t.id \notin DOMAIN receipts
      /\ \A i \in DOMAIN receipts : receipts'[i] = receipts[i]
  BY CommitIs DEF Recorded
<1>6. \A i \in DOMAIN receipts : Alike(receipts[i], receipts'[i])
  BY <1>5, SameAlike
<1> QED
  BY <1>1, <1>2, <1>3, <1>4, <1>5, <1>6, KeptStays

-----------------------------------------------------------------------------
(* A restore and the collection.                                           *)

\* The positions that a receipt has of books that are not registered.
LEMMA RecalledIs ==
    ASSUME LibraryOK, NEW id, NEW items, items = receipts[id].items, ItemsFit(items, nextBook), NEW S,
           S \subseteq Restorable(id), NEW at, at = Recalled(id, S)
    PROVE  /\ S \subseteq Content /\ S \subseteq DOMAIN items
           /\ \A x \in S : bookId[x] = None /\ x \notin Members(place)
           /\ at \in PositionsOf(Content) /\ NoTies(at)
           /\ Members(at) = {x \in S : items[x].place >= 0}
           /\ \A x \in S : at[x] = items[x].place
PROOF
<1>1. S \subseteq DOMAIN items /\ \A x \in S : bookId[x] = None
  BY DEF Restorable, Pending
<1>2. S \subseteq Content /\ \A x \in S : items[x].place \in Nat \cup {-1}
  BY <1>1, ContentIs DEF ItemsFit
<1>3. \A x \in S : x \notin Members(place)
  BY <1>1, <1>2 DEF Members, LibraryOK, MembersExist
<1>4. at = [x \in Content |-> IF x \in S THEN items[x].place ELSE -1]
  BY DEF Recalled
<1>5. at \in PositionsOf(Content)
  BY <1>2, <1>4 DEF PositionsOf
<1>6. Members(at) = {x \in S : items[x].place >= 0}
  BY <1>2, <1>4 DEF Members
<1>7. NoTies(at)
  <2>1. ASSUME NEW x \in Content, NEW y \in Content, x # y, at[x] >= 0
        PROVE  at[x] # at[y]
    <3>1. x \in S /\ items[x].place >= 0 /\ at[x] = items[x].place
      BY <1>4, <2>1
    <3>2. CASE y \in S /\ items[y].place >= 0
      <4>1. x \in Placeds(items) /\ y \in Placeds(items)
        BY <1>1, <3>1, <3>2 DEF Placeds
      <4> QED
        BY <1>4, <2>1, <3>1, <3>2, <4>1 DEF ItemsFit
    <3>3. CASE ~(y \in S /\ items[y].place >= 0)
      BY <1>2, <1>4, <3>1, <3>3
    <3> QED
      BY <3>2, <3>3
  <2> QED
    BY <1>4, <2>1 DEF NoTies
<1> QED
  BY <1>1, <1>2, <1>3, <1>4, <1>5, <1>6, <1>7

LEMMA RestorePlaces ==
    ASSUME LibraryOK, KeptOK, NEW id \in DOMAIN receipts, NEW S, Restore(id, S), NEW at,
           at = Recalled(id, S)
    PROVE  /\ place' \in [Content -> -1 .. ContentCount] /\ NoTies(place')
           /\ Members(place') = Members(place) \cup Members(at)
           /\ revision' \in Nat
           /\ Members(at) = {} => UNCHANGED <<place, revision>>
           /\ Members(at) # {} => revision < revision' /\ Ranked(place') = Placed(id, S)
PROOF
<1>1. PICK items, bumps : /\ items = receipts[id].items /\ S \subseteq Restorable(id)
                          /\ bumps = Cardinality({x \in S : items[x].place >= 0})
  BY DEF Restore
<1>2. /\ place' = IF bumps = 0 THEN place ELSE Indexed(Content, Placed(id, S))
      /\ revision' = revision + bumps
  BY <1>1 DEF Restore
<1>3. ItemsFit(items, nextBook)
  BY <1>1 DEF KeptOK
<1>4. /\ S \subseteq Content /\ \A x \in S : x \notin Members(place)
      /\ at \in PositionsOf(Content) /\ NoTies(at) /\ at = Recalled(id, S)
      /\ Members(at) = {x \in S : items[x].place >= 0}
  BY <1>1, <1>3, RecalledIs
<1>5. bumps \in Nat /\ (bumps = 0 <=> Members(at) = {})
  <2>1. PICK M : M = Members(at) /\ bumps = Cardinality(M) /\ M \subseteq Content
    BY <1>1, <1>4
  <2>2. IsFiniteSet(M)
    BY <2>1, ContentIs, FS_Subset
  <2>3. bumps \in Nat /\ (bumps = 0 <=> M = {})
    BY <2>1, <2>2, FS_CardinalityType, FS_EmptySet
  <2> QED
    BY <2>1, <2>3
<1>6. CASE Members(at) = {}
  BY <1>2, <1>5, <1>6, ContentIs DEF LibraryOK
<1>7. CASE Members(at) # {}
  <2>1. Distinct(Collection, Content) /\ ToSet(Collection) = Members(place)
    BY CollectionIs
  <2>2. Members(at) \cap ToSet(Collection) = {}
    BY <1>4, <2>1
  <2>3. /\ Distinct(Placed(id, S), Content)
        /\ ToSet(Placed(id, S)) = ToSet(Collection) \cup Members(at)
    BY <1>4, <2>1, <2>2, PlacedIs
  <2>4. PICK p : p = Indexed(Content, Placed(id, S))
    OBVIOUS
  <2>5. /\ p \in [Content -> -1 .. ContentCount] /\ NoTies(p) /\ Ranked(p) = Placed(id, S)
        /\ Members(p) = ToSet(Placed(id, S))
    BY <2>3, <2>4, IndexedIs
  <2>6. place' = p /\ revision' \in Nat /\ revision < revision'
    BY <1>2, <1>5, <1>7, <2>4 DEF LibraryOK
  <2> QED
    BY <1>1, <1>7, <2>1, <2>3, <2>5, <2>6
<1> QED
  BY <1>6, <1>7

LEMMA RestoreLibrary ==
    ASSUME LibraryOK, KeptOK, NEW id \in DOMAIN receipts, NEW S, Restore(id, S)
    PROVE  LibraryOK' /\ GoesForward
PROOF
<1>1. PICK items, at : /\ items = receipts[id].items /\ at = Recalled(id, S)
                       /\ S \subseteq Restorable(id)
  BY DEF Restore
<1>2. ItemsFit(items, nextBook)
  BY <1>1 DEF KeptOK
<1>3. /\ S \subseteq Content /\ S \subseteq DOMAIN items
      /\ Members(at) = {x \in S : items[x].place >= 0}
  BY <1>1, <1>2, RecalledIs
<1>4. /\ place' \in [Content -> -1 .. ContentCount] /\ NoTies(place')
      /\ Members(place') = Members(place) \cup Members(at)
      /\ revision' \in Nat
      /\ Members(at) = {} => UNCHANGED <<place, revision>>
      /\ Members(at) # {} => revision < revision'
  BY <1>1, RestorePlaces
<1>5. /\ bookId' = [x \in Content |-> IF x \in S THEN items[x].id ELSE bookId[x]]
      /\ edited' = [x \in Content |-> IF x \in S THEN items[x].edited ELSE edited[x]]
      /\ UNCHANGED <<nextBook, nextId>>
  BY <1>1 DEF Restore, FromBin
<1>6. \A x \in S : items[x].id \in 0 .. nextBook - 1 /\ items[x].edited \in Nat
                   /\ (items[x].place >= 0 => items[x].id # None)
  BY <1>2, <1>3 DEF ItemsFit
<1>7. bookId' \in [Content -> 0 .. nextBook - 1] /\ edited' \in [Content -> Nat]
  BY <1>5, <1>6 DEF LibraryOK
<1>8. ASSUME NEW x \in Content, place'[x] >= 0
      PROVE  bookId'[x] # None
  <2>1. x \in Members(place) \cup Members(at)
    <3>1. x \in Members(place')
      BY <1>4, <1>8 DEF Members
    <3> QED
      BY <1>4, <3>1
  <2>2. CASE x \in Members(at)
    BY <1>3, <1>5, <1>6, <2>2
  <2>3. CASE x \in Members(place)
    <3>1. bookId[x] # None
      BY <2>3 DEF Members, LibraryOK, MembersExist
    <3>2. x \notin S
      BY <1>1, <1>2, <3>1, RecalledIs
    <3> QED
      BY <1>5, <3>1, <3>2
  <2> QED
    BY <2>1, <2>2, <2>3
<1>9. MembersExist'
  BY <1>8 DEF MembersExist
<1>10. GoesForward
  BY <1>4, <1>5 DEF LibraryOK, GoesForward
<1> QED
  BY <1>4, <1>5, <1>7, <1>9, <1>10 DEF LibraryOK

\* The receipt of the books that are restored.
RestoredFrom(r, s, S) ==
    /\ DOMAIN s.items = DOMAIN r.items /\ s.order = r.order /\ s.after = r.after
    /\ {s.pending, s.delete, s.stopped} \subseteq BOOLEAN
    /\ \A x \in DOMAIN r.items :
         /\ s.items[x].id = r.items[x].id /\ s.items[x].edited = r.items[x].edited
         /\ s.items[x].place = r.items[x].place
         /\ x \in S => s.items[x].restored = TRUE
         /\ x \notin S => s.items[x].restored = r.items[x].restored

LEMMA RestoreIs ==
    ASSUME KeptOK, ReceiptsOK, NEW id \in DOMAIN receipts, NEW S, Restore(id, S)
    PROVE  /\ DOMAIN receipts' = DOMAIN receipts
           /\ \A i \in DOMAIN receipts : i # id => receipts'[i] = receipts[i]
           /\ RestoredFrom(receipts[id], receipts'[id], S)
PROOF
<1>1. PICK r, s : /\ r = receipts[id] /\ s = receipts'[id]
                  /\ ReceiptOK(r) /\ Alike(r, r)
  BY SameAlike DEF ReceiptsOK
<1>2. PICK i, j : /\ i = r.items /\ s = [r EXCEPT !.items = j]
                  /\ j = [x \in DOMAIN i |-> IF x \in S THEN [i[x] EXCEPT !.restored = TRUE] ELSE i[x]]
                  /\ DOMAIN receipts' = DOMAIN receipts
                  /\ \A k \in DOMAIN receipts : k # id => receipts'[k] = receipts[k]
  BY <1>1 DEF Restore, ReceiptOK
<1>3. /\ s.items = j /\ s.order = r.order /\ s.after = r.after /\ s.delete = r.delete
      /\ s.pending = r.pending /\ s.stopped = r.stopped
  BY <1>1, <1>2 DEF ReceiptOK
<1>4. ASSUME NEW x \in DOMAIN i
      PROVE  /\ j[x].id = i[x].id /\ j[x].edited = i[x].edited /\ j[x].place = i[x].place
             /\ x \in S => j[x].restored = TRUE
             /\ x \notin S => j[x].restored = i[x].restored
  <2>1. DOMAIN i[x] = {"id", "edited", "place", "file", "restored"}
    BY <1>1, <1>2 DEF ReceiptOK
  <2>2. x \in S => j[x] = [i[x] EXCEPT !.restored = TRUE]
    BY <1>2
  <2>3. x \notin S => j[x] = i[x]
    BY <1>2
  <2> QED
    BY <2>1, <2>2, <2>3
<1>5. DOMAIN j = DOMAIN i
  BY <1>2
<1>6. {s.pending, s.delete, s.stopped} \subseteq BOOLEAN
  BY <1>1, <1>3 DEF Alike
<1>7. RestoredFrom(r, s, S)
  <2>1. i = r.items /\ s.items = j
    BY <1>2, <1>3
  <2> QED
    BY <1>3, <1>4, <1>5, <1>6, <2>1 DEF RestoredFrom
<1> QED
  BY <1>1, <1>2, <1>7

LEMMA RestoreKept ==
    ASSUME LibraryOK, KeptOK, ReceiptsOK, NEW id \in DOMAIN receipts, NEW S, Restore(id, S)
    PROVE  KeptOK'
PROOF
<1>1. PICK at, r, s : /\ at = Recalled(id, S) /\ S \subseteq Restorable(id)
                      /\ r = receipts[id] /\ s = receipts'[id]
  BY DEF Restore
<1>2. /\ DOMAIN receipts' = DOMAIN receipts
      /\ \A i \in DOMAIN receipts : i # id => receipts'[i] = receipts[i]
      /\ DOMAIN s.items = DOMAIN r.items /\ s.order = r.order /\ s.after = r.after
      /\ {s.pending, s.delete, s.stopped} \subseteq BOOLEAN
      /\ \A x \in DOMAIN r.items :
           /\ s.items[x].id = r.items[x].id /\ s.items[x].edited = r.items[x].edited
           /\ s.items[x].place = r.items[x].place
           /\ x \notin S => s.items[x].restored = r.items[x].restored
  BY <1>1, RestoreIs DEF RestoredFrom
<1>3. LibraryOK' /\ GoesForward /\ nextBook' = nextBook /\ nextId' = nextId
  BY RestoreLibrary DEF Restore, FromBin
<1>4. /\ id \in Nat /\ id < nextId /\ ItemsFit(r.items, nextBook) /\ ReceiptFits(r, place, revision)
  BY <1>1 DEF KeptOK
<1>5. Placeds(s.items) = Placeds(r.items)
  BY <1>2 DEF Placeds
<1>6. ItemsFit(s.items, nextBook)
  BY <1>2, <1>4, <1>5 DEF ItemsFit, Placeds
<1>7. ReceiptFits(s, place', revision')
  <2>1. CASE Members(at) = {}
    <3>1. UNCHANGED <<place, revision>>
      BY <1>1, <2>1, RestorePlaces
    <3>2. \A x \in Placeds(r.items) : x \notin S
      <4>1. Members(at) = {x \in S : r.items[x].place >= 0}
        BY <1>1, <1>4, RecalledIs
      <4> QED
        BY <2>1, <4>1 DEF Placeds
    <3>3. \A x \in Placeds(r.items) : s.items[x].restored = r.items[x].restored
      BY <1>2, <3>2 DEF Placeds
    <3>4. ReceiptFits(s, place, revision)
      BY <1>2, <1>4, <1>5, <3>3 DEF ReceiptFits
    <3> QED
      BY <3>1, <3>4
  <2>2. CASE Members(at) # {}
    <3>1. revision \in Nat /\ revision' \in Nat /\ revision < revision'
      BY <1>1, <2>2, RestorePlaces DEF LibraryOK
    <3>2. s.after \in 0 .. revision' /\ s.after # revision'
      BY <1>2, <1>4, <3>1 DEF ReceiptFits
    <3> QED
      BY <1>2, <1>4, <3>2 DEF ReceiptFits
  <2> QED
    BY <2>1, <2>2
<1>8. ASSUME NEW i \in DOMAIN receipts'
      PROVE  /\ i \in Nat /\ i < nextId' /\ ItemsFit(receipts'[i].items, nextBook')
             /\ ReceiptFits(receipts'[i], place', revision')
  <2>1. CASE i = id
    BY <1>1, <1>3, <1>4, <1>6, <1>7, <2>1
  <2>2. CASE i # id
    <3>1. i \in DOMAIN receipts /\ receipts'[i] = receipts[i]
      BY <1>2, <2>2
    <3>2. Alike(receipts[i], receipts[i])
      BY <3>1, SameAlike
    <3> QED
      BY <1>3, <3>1, <3>2, ReceiptStays
  <2> QED
    BY <2>1, <2>2
<1> QED
  BY <1>8 DEF KeptOK

LEMMA RestoreInPlace ==
    ASSUME LibraryOK, KeptOK, ReceiptsOK, NEW id \in DOMAIN receipts, NEW S, Restore(id, S)
    PROVE  RestoredInPlace
PROOF
<1> SUFFICES ASSUME NEW i \in DOMAIN receipts, PutsBack(i), WithoutGaps(i)
             PROVE  Collection' = receipts[i].order
  BY DEF RestoredInPlace
<1>1. PICK at, r, s : /\ at = Recalled(id, S) /\ S \subseteq Restorable(id)
                      /\ r = receipts[id] /\ s = receipts'[id]
  BY DEF Restore
<1>2. /\ \A k \in DOMAIN receipts : k # id => receipts'[k] = receipts[k]
      /\ DOMAIN s.items = DOMAIN r.items
      /\ \A x \in DOMAIN r.items : x \notin S => s.items[x].restored = r.items[x].restored
  BY <1>1, RestoreIs DEF RestoredFrom
<1>3. i = id
  BY <1>2 DEF PutsBack
<1>4. /\ r.after = revision
      /\ \A x \in Placeds(r.items) : s.items[x].restored
      /\ \E x \in Placeds(r.items) : ~r.items[x].restored
  BY <1>1, <1>3 DEF PutsBack, Placeds
<1>5. ItemsFit(r.items, nextBook) /\ ReceiptFits(r, place, revision)
  BY <1>1 DEF KeptOK
<1>6. /\ \A x \in Placeds(r.items) : ~r.items[x].restored
      /\ Distinct(r.order, Content) /\ Remains(Collection, r.order, Placeds(r.items))
  BY <1>4, <1>5 DEF ReceiptFits, Collection
<1>7. \A x \in Placeds(r.items) : x \in S
  BY <1>2, <1>4, <1>6 DEF Placeds
<1>8. /\ S \subseteq DOMAIN r.items /\ at \in PositionsOf(Content) /\ NoTies(at)
      /\ Members(at) = {x \in S : r.items[x].place >= 0}
      /\ \A x \in S : at[x] = r.items[x].place
  BY <1>1, <1>5, RecalledIs
<1>9. Members(at) = Placeds(r.items) /\ Members(at) # {}
  BY <1>4, <1>7, <1>8 DEF Placeds
<1>10. ASSUME NEW x \in Members(at)
       PROVE  x \in ToSet(r.order) /\ PlaceIn(r.order, x) = at[x] + 1
  <2>1. x \in S /\ at[x] \in Nat /\ at[x] < Len(r.order) /\ r.order[at[x] + 1] = x
    <3>1. x \in S /\ x \in DOMAIN r.items /\ r.items[x].place >= 0 /\ at[x] = r.items[x].place
      BY <1>8, <1>9
    <3>2. at[x] \in Nat
      BY <1>8, <3>1 DEF PositionsOf, Members
    <3> QED
      BY <1>1, <1>3, <3>1, <3>2 DEF WithoutGaps
  <2>2. at[x] + 1 \in 1 .. Len(r.order)
    BY <1>6, <2>1 DEF Distinct
  <2> QED
    BY <1>6, <2>1, <2>2, ListIs
<1>11. Placed(id, S) = r.order
  <2>1. Distinct(Collection, Content)
    BY CollectionIs
  <2> QED
    BY <1>1, <1>6, <1>8, <1>9, <1>10, <2>1, PlacedWhole
<1>12. Ranked(place') = r.order
  BY <1>1, <1>9, <1>11, RestorePlaces
<1> QED
  BY <1>1, <1>3, <1>12 DEF Collection

-----------------------------------------------------------------------------
(* What every step does to the collection.                                 *)

LEMMA LibrarySame ==
    ASSUME LibraryOK, UNCHANGED library, nextId' \in Nat, nextId <= nextId'
    PROVE  LibraryOK' /\ GoesForward
PROOF
<1>1. UNCHANGED <<bookId, nextBook, edited, place, revision>>
  BY DEF library
<1>2. MembersExist'
  BY <1>1 DEF LibraryOK, MembersExist
<1> QED
  BY <1>1, <1>2 DEF LibraryOK, GoesForward

LEMMA EditsLibrary ==
    ASSUME LibraryOK, NEW x \in Content, OtherEdits(x)
    PROVE  LibraryOK' /\ GoesForward
PROOF
<1>1. UNCHANGED nextId
  BY DEF OtherEdits, Other
<1>2. CASE /\ edited' = [edited EXCEPT ![x] = @ + 1]
           /\ UNCHANGED <<bookId, nextBook, place, revision>>
  <2>1. MembersExist'
    BY <1>2 DEF LibraryOK, MembersExist
  <2> QED
    BY <1>1, <1>2, <2>1 DEF LibraryOK, GoesForward
<1>3. CASE /\ place' = [place EXCEPT ![x] = -1] /\ revision' = revision + 1
           /\ UNCHANGED <<bookId, nextBook, edited>>
  <2>1. MembersExist'
    BY <1>3 DEF LibraryOK, MembersExist
  <2>2. place' \in [Content -> -1 .. ContentCount] /\ NoTies(place')
    BY <1>3, ContentIs DEF LibraryOK, NoTies
  <2> QED
    BY <1>1, <1>3, <2>1, <2>2 DEF LibraryOK, GoesForward
<1>4. CASE /\ bookId[x] = None
           /\ bookId' = [bookId EXCEPT ![x] = nextBook] /\ nextBook' = nextBook + 1
           /\ edited' = [edited EXCEPT ![x] = 1] /\ UNCHANGED <<place, revision>>
  <2>1. nextBook # None
    BY DEF LibraryOK, None
  <2>2. MembersExist'
    BY <1>4, <2>1 DEF LibraryOK, MembersExist
  <2>3. bookId' \in [Content -> 0 .. nextBook' - 1]
    <3>1. \A y \in Content : bookId[y] \in 0 .. nextBook' - 1
      BY <1>4 DEF LibraryOK
    <3> QED
      BY <1>4, <3>1 DEF LibraryOK
  <2> QED
    BY <1>1, <1>4, <2>2, <2>3 DEF LibraryOK, GoesForward
<1> QED
  BY <1>2, <1>3, <1>4 DEF OtherEdits

Preserved == LibraryOK' /\ KeptOK' /\ RestoredInPlace

LEMMA NothingMoves ==
    ASSUME LibraryOK, KeptOK, UNCHANGED <<library, receipts>>, nextId' \in Nat, nextId <= nextId'
    PROVE  Preserved
PROOF BY LibrarySame, KeptSame DEF Preserved

LEMMA StopPreserves ==
    ASSUME LibraryOK, KeptOK, ReceiptsOK, UNCHANGED <<library, nextId>>, NEW id \in DOMAIN receipts, Stop(id)
    PROVE  Preserved
PROOF
<1>1. LibraryOK' /\ GoesForward
  BY LibrarySame DEF LibraryOK
<1> QED
  BY <1>1, KeptStopped DEF Preserved

LEMMA DialogPreserves == ASSUME HoldsInv, Dialog PROVE Preserved
PROOF
<1>1. UNCHANGED <<library, receipts>>
  BY DEF Dialog, OpenDialog, Preview, TickDelete, Confirm, Cancel, AnswerLost, OutOfDialog
<1>2. nextId' = nextId \/ nextId' = nextId + 1
  BY DEF Dialog, OpenDialog, Preview, TickDelete, Confirm, Cancel, AnswerLost
<1>3. LibraryOK /\ KeptOK /\ nextId \in Nat
  BY DEF HoldsInv, LibraryOK
<1>4. nextId' \in Nat /\ nextId <= nextId'
  BY <1>2, <1>3
<1> QED
  BY <1>1, <1>3, <1>4, NothingMoves

LEMMA CarryOutPreserves == ASSUME HoldsInv, NEW t \in tasks, CarryOut(t) PROVE Preserved
PROOF
<1>1. LibraryOK /\ KeptOK /\ nextId \in Nat /\ TaskFits(t, nextId)
  BY DEF HoldsInv, LibraryOK, RequestsOK
<1>2. UNCHANGED nextId
  BY DEF CarryOut, Ends, Goes
<1>3. CASE UNCHANGED <<receipts, library>>
  BY <1>1, <1>2, <1>3, NothingMoves
<1>4. CASE ~Recorded(t.id) /\ t.token = Token(DOMAIN t.token) /\ CommitRemoval(t)
  <2>1. t.phase = "commit"
    BY DEF CarryOut
  <2>2. LibraryOK'
    BY <1>1, <1>2, <1>4, CommitLibrary
  <2>3. KeptOK' /\ RestoredInPlace
    BY <1>1, <1>2, <1>4, <2>1, CommitKept
  <2> QED
    BY <2>2, <2>3 DEF Preserved
<1> QED
  BY <1>3, <1>4 DEF CarryOut

LEMMA DeletionPreserves ==
    ASSUME HoldsInv, NEW t \in tasks, Check(t) \/ Unlink(t) \/ Record(t) \/ Finish(t)
    PROVE  Preserved
PROOF
<1>1. /\ LibraryOK /\ KeptOK /\ RemovalInv /\ ReceiptsOK /\ nextId \in Nat
      /\ UNCHANGED <<library, nextId>>
  BY DEF HoldsInv, LibraryOK, RemovalInv, Check, Unlink, Record, Finish, Holds, Deletes, Ends, Goes
<1>2. LibraryOK' /\ GoesForward
  BY <1>1, LibrarySame
<1>3. CASE Check(t)
  <2>1. UNCHANGED receipts \/ (t.id \in DOMAIN receipts /\ Stop(t.id))
    BY <1>3 DEF Check, Recorded
  <2> QED
    BY <1>1, <2>1, NothingMoves, StopPreserves
<1>4. CASE Unlink(t)
  <2>1. UNCHANGED receipts
    BY <1>4 DEF Unlink
  <2> QED
    BY <1>1, <2>1, NothingMoves
<1>5. CASE Record(t)
  <2>1. Holding(t) /\ t.phase = "record"
    BY <1>5 DEF Record, Holds, Holding
  <2>2. HolderOK(t)
    BY <1>1, <2>1, OthersLight
  <2>3. t.id \in DOMAIN receipts /\ First(t) \in DOMAIN receipts[t.id].items
    BY <2>1, <2>2 DEF First, HolderOK, Pending
  <2>4. receipts' = [receipts EXCEPT ![t.id].items[First(t)].file = "deleted"]
    BY <1>5 DEF Record
  <2>5. PICK id, x : id = t.id /\ x = First(t)
    OBVIOUS
  <2>6. /\ id \in DOMAIN receipts /\ x \in DOMAIN receipts[id].items
        /\ receipts' = [receipts EXCEPT ![id].items[x].file = "deleted"]
    BY <2>3, <2>4, <2>5
  <2> QED
    BY <1>1, <1>2, <2>6, KeptRecorded DEF Preserved
<1>6. CASE Finish(t)
  <2>1. Holding(t)
    BY <1>6 DEF Finish, Holds, Holding
  <2>2. t.id \in DOMAIN receipts /\ receipts' = [receipts EXCEPT ![t.id].pending = FALSE]
    BY <1>1, <1>6, <2>1, OthersLight DEF HolderOK, Finish
  <2> QED
    BY <1>1, <1>2, <2>2, KeptFinished DEF Preserved
<1> QED
  BY <1>3, <1>4, <1>5, <1>6

LEMMA BinPreserves == ASSUME HoldsInv, Bin PROVE Preserved
PROOF
<1>1. LibraryOK /\ KeptOK /\ ReceiptsOK
  BY DEF HoldsInv, RemovalInv
<1>2. PICK id \in DOMAIN receipts : CancelDeletion(id) \/ \E S \in SUBSET Restorable(id) : Restore(id, S)
  BY DEF Bin
<1>3. CASE CancelDeletion(id)
  <2>1. Stop(id) /\ UNCHANGED <<library, nextId>>
    BY <1>3 DEF CancelDeletion, FromBin
  <2> QED
    BY <1>1, <2>1, StopPreserves
<1>4. CASE \E S \in SUBSET Restorable(id) : Restore(id, S)
  BY <1>1, <1>4, RestoreLibrary, RestoreKept, RestoreInPlace DEF Preserved
<1> QED
  BY <1>2, <1>3, <1>4

LEMMA OthersPreserve == ASSUME HoldsInv, Upkeep \/ Others PROVE Preserved
PROOF
<1>1. LibraryOK /\ KeptOK /\ nextId \in Nat
  BY DEF HoldsInv, LibraryOK
<1>2. CASE UNCHANGED <<library, receipts, nextId>>
  BY <1>1, <1>2, NothingMoves
<1>3. ASSUME NEW x \in Content, OtherEdits(x)
      PROVE  Preserved
  <2>1. UNCHANGED receipts
    BY <1>3 DEF OtherEdits, Other
  <2>2. LibraryOK' /\ GoesForward
    BY <1>1, <1>3, EditsLibrary
  <2> QED
    BY <1>1, <2>1, <2>2, KeptSame DEF Preserved
<1> QED
  BY <1>2, <1>3 DEF Upkeep, Hourly, Others, DeletionFails, Deletes, ServerStops, ScanTurns, FileChanges, Other

LEMMA NextPreserves == ASSUME HoldsInv, RemovalNext PROVE Preserved
PROOF BY DialogPreserves, CarryOutPreserves, DeletionPreserves, BinPreserves, OthersPreserve
      DEF RemovalNext, Work

-----------------------------------------------------------------------------
(* Files, the lock, and the requests of the dialog.                        *)

LEMMA PathsKept == ASSUME HoldsInv, RemovalNext PROVE PathsOK'
PROOF
<1>1. PathsOK
  BY DEF HoldsInv
<1>2. CASE UNCHANGED <<file, stamp, scanning>>
  BY <1>1, <1>2 DEF PathsOK
<1>3. ASSUME NEW t \in tasks, Unlink(t)
      PROVE  PathsOK'
  <2>1. file' = [file EXCEPT ![First(t)] = "none"] /\ UNCHANGED <<stamp, scanning>>
    BY <1>3 DEF Unlink, Holds, Deletes
  <2> QED
    BY <1>1, <2>1 DEF PathsOK
<1>4. ASSUME NEW x \in Content, FileChanges(x)
      PROVE  PathsOK'
  <2>1. PICK f \in {"own", "other", "none"} : file' = [file EXCEPT ![x] = f]
    BY <1>4 DEF FileChanges
  <2>2. stamp' = [stamp EXCEPT ![x] = @ + 1] /\ UNCHANGED scanning
    BY <1>4 DEF FileChanges
  <2> QED
    BY <1>1, <2>1, <2>2 DEF PathsOK
<1>5. CASE ScanTurns
  BY <1>1, <1>5 DEF PathsOK, ScanTurns, archives
<1>6. ASSUME NEW x \in Content, OtherEdits(x)
      PROVE  UNCHANGED <<file, stamp, scanning>>
  BY <1>6 DEF OtherEdits, archives
<1>7. CASE Dialog
  <2>1. UNCHANGED <<file, stamp, scanning>>
    BY <1>7 DEF Dialog, OpenDialog, Preview, TickDelete, Confirm, Cancel, AnswerLost, OutOfDialog, archives
  <2> QED
    BY <1>2, <2>1
<1>8. CASE Work
  <2>1. ASSUME NEW t \in tasks, CarryOut(t) \/ Check(t) \/ Record(t) \/ Finish(t)
        PROVE  UNCHANGED <<file, stamp, scanning>>
    BY <2>1 DEF CarryOut, Check, Record, Finish, Holds, Deletes, archives
  <2> QED
    BY <1>2, <1>3, <1>8, <2>1 DEF Work
<1>9. CASE Bin \/ Upkeep
  <2>1. UNCHANGED <<file, stamp, scanning>>
    BY <1>9 DEF Bin, CancelDeletion, Restore, FromBin, Upkeep, Hourly, archives
  <2> QED
    BY <1>2, <2>1
<1>10. CASE Others
  <2>1. ASSUME ServerStops \/ \E t \in tasks : DeletionFails(t)
        PROVE  UNCHANGED <<file, stamp, scanning>>
    BY <2>1 DEF ServerStops, DeletionFails, Deletes, archives
  <2> QED
    BY <1>2, <1>4, <1>5, <1>6, <1>10, <2>1 DEF Others
<1> QED
  BY <1>7, <1>8, <1>9, <1>10 DEF RemovalNext

LEMMA LockKept == ASSUME HoldsInv, RemovalNext PROVE LockOK'
PROOF
<1>1. LockOK /\ RemovalInv
  BY DEF HoldsInv
<1>2. CASE lock' = FALSE
  BY <1>2 DEF LockOK
<1>3. CASE UNCHANGED lock /\ (Unlocked \/ tasks \subseteq tasks')
  BY <1>1, <1>3 DEF LockOK, Unlocked
<1>4. ASSUME lock' \in BOOLEAN, NEW t \in tasks, NEW phase \in {"unlink", "record"}, NEW left,
             Goes(t, phase, left), DOMAIN t = Fields
      PROVE  LockOK'
  <2>1. PICK u : u \in tasks' /\ u.phase = phase
    BY <1>4, GoesOn
  <2>2. \E v \in tasks' : Holding(v)
    BY <2>1 DEF Holding
  <2> QED
    BY <1>4, <2>2 DEF LockOK
<1>5. CASE Dialog
  <2>1. UNCHANGED lock /\ tasks \subseteq tasks'
    BY <1>5 DEF Dialog, OpenDialog, Preview, TickDelete, Confirm, Cancel, AnswerLost, OutOfDialog, Post
  <2> QED
    BY <1>3, <2>1
<1>6. ASSUME NEW t \in tasks, CarryOut(t) \/ Check(t) \/ Unlink(t) \/ Record(t) \/ Finish(t)
      PROVE  LockOK'
  <2>1. DOMAIN t = Fields
    BY <1>1 DEF RemovalInv, TasksOK
  <2>2. CASE CarryOut(t)
    BY <1>3, <2>2 DEF CarryOut
  <2>3. CASE Check(t)
    <3>1. CASE UNCHANGED lock
      BY <1>3, <2>3, <3>1 DEF Check
    <3>2. CASE lock' = TRUE /\ Goes(t, "unlink", Pending(t.id))
      BY <1>4, <2>1, <3>2
    <3> QED
      BY <2>3, <3>1, <3>2 DEF Check
  <2>4. CASE Unlink(t)
    <3>1. UNCHANGED lock /\ Goes(t, "record", t.left)
      BY <2>4 DEF Unlink
    <3> QED
      BY <1>1, <1>4, <2>1, <3>1 DEF LockOK
  <2>5. CASE Record(t)
    <3>1. UNCHANGED lock /\ Goes(t, "unlink", t.left \ {First(t)})
      BY <2>5 DEF Record
    <3> QED
      BY <1>1, <1>4, <2>1, <3>1 DEF LockOK
  <2>6. CASE Finish(t)
    BY <1>2, <2>6 DEF Finish
  <2> QED
    BY <1>6, <2>2, <2>3, <2>4, <2>5, <2>6
<1>7. CASE Bin \/ Upkeep
  <2>1. UNCHANGED lock /\ tasks \subseteq tasks'
    BY <1>7 DEF Bin, CancelDeletion, Restore, FromBin, Upkeep, Hourly
  <2> QED
    BY <1>3, <2>1
<1>8. CASE Others
  <2>1. ASSUME ServerStops \/ \E t \in tasks : DeletionFails(t)
        PROVE  lock' = FALSE
    BY <2>1 DEF ServerStops, DeletionFails
  <2>2. ASSUME ScanTurns \/ \E x \in Content : OtherEdits(x) \/ FileChanges(x)
        PROVE  UNCHANGED lock /\ tasks \subseteq tasks'
    BY <2>2 DEF ScanTurns, OtherEdits, FileChanges, Other
  <2> QED
    BY <1>2, <1>3, <1>8, <2>1, <2>2 DEF Others
<1> QED
  BY <1>5, <1>6, <1>7, <1>8 DEF RemovalNext, Work

LEMMA LowestExists ==
    ASSUME NEW n \in Nat, NEW S, S \subseteq 1 .. n, S # {}
    PROVE  \E i \in S : \A j \in S : i <= j
PROOF
<1>1. PICK T : T = {n + 1 - i : i \in S}
  OBVIOUS
<1>2. T \subseteq 1 .. n /\ T # {}
  <2>1. \A i \in S : n + 1 - i \in 1 .. n /\ n + 1 - i \in T
    BY <1>1
  <2>2. \A k \in T : k \in 1 .. n
    BY <1>1, <2>1
  <2> QED
    BY <2>1, <2>2
<1>3. PICK l \in T : \A k \in T : k <= l
  BY <1>2, LargestExists
<1>4. PICK i \in S : l = n + 1 - i
  BY <1>1, <1>3
<1>5. \A j \in S : i <= j
  BY <1>1, <1>3, <1>4
<1> QED
  BY <1>5

LEMMA LowestIn ==
    ASSUME NEW n \in Nat, NEW S, S \subseteq 1 .. n, S # {}
    PROVE  Min(S) \in S
PROOF BY LowestExists DEF Min

\* The request for a batch of a dialog that has previewed them all.
LEMMA BatchFits ==
    ASSUME NEW d, NEW next, DialogFits(d, next), Len(d.previews) = Len(d.batches), NEW t,
           t = Batch(d, Min(NextBatch(d)))
    PROVE  TaskFits(t, next)
PROOF
<1>1. PICK i : i = Min(NextBatch(d))
  OBVIOUS
<1>2. Len(d.batches) \in Nat /\ NextBatch(d) \subseteq 1 .. Len(d.batches) /\ NextBatch(d) # {}
  BY DEF DialogFits, NextBatch
<1>3. i \in 1 .. Len(d.previews)
  BY <1>1, <1>2, LowestIn
<1>4. PreviewFits(d.previews[i], next) /\ d.delete \in BOOLEAN
  BY <1>3 DEF DialogFits
<1>5. /\ t.id = d.previews[i].id /\ t.delete = d.delete /\ t.token = d.previews[i].token
      /\ t.phase = "commit"
  BY <1>1 DEF Batch
<1> QED
  BY <1>4, <1>5 DEF TaskFits, PreviewFits, Phases

\* A dialog with another answer awaited, more done or another choice of the files.
LEMMA DialogGoesOn ==
    ASSUME NEW d, NEW e, NEW next, DialogFits(d, next), DOMAIN e = DialogFields, e.open = TRUE,
           e.delete \in BOOLEAN, e.batches = d.batches, e.previews = d.previews, NextBatch(e) # {},
           e.waits # None => Len(d.previews) = Len(d.batches)
    PROVE  DialogFits(e, next)
PROOF BY DEF DialogFits

LEMMA OpenIs ==
    ASSUME RequestsOK, dialog.open
    PROVE  DialogFits(dialog, nextId)
PROOF BY DEF RequestsOK, Closed

LEMMA AwaitingIs ==
    ASSUME RequestsOK, dialog.waits # None
    PROVE  DialogFits(dialog, nextId) /\ Len(dialog.previews) = Len(dialog.batches)
PROOF BY DEF RequestsOK, Closed, DialogFits

\* The answer is not there any more.
LEMMA GivenUp ==
    ASSUME RequestsOK, dialog.waits # None, NEW e, e = [dialog EXCEPT !.waits = None, !.error = TRUE]
    PROVE  DialogFits(e, nextId)
PROOF
<1>1. PICK d : d = dialog /\ DialogFits(d, nextId)
  BY AwaitingIs
<1>2. /\ DOMAIN e = DialogFields /\ e.open = TRUE /\ e.delete = d.delete /\ e.batches = d.batches
      /\ e.previews = d.previews /\ e.done = d.done /\ e.waits = None
  BY <1>1 DEF DialogFits, DialogFields
<1>3. NextBatch(e) # {} /\ e.delete \in BOOLEAN
  BY <1>1, <1>2 DEF DialogFits, NextBatch
<1> QED
  BY <1>1, <1>2, <1>3, DialogGoesOn

\* The batches of chosen books: the first of them has the first book.
LEMMA BatchesAre ==
    ASSUME NEW S, S \subseteq Content, S # {}
    PROVE  /\ Batches(S) \in Seq(SUBSET Content)
           /\ \E i \in DOMAIN Batches(S) : ~(Batches(S)[i] \subseteq {})
PROOF
<1>1. BatchSize \in Nat \ {0} /\ ContentCount \in Nat
  BY RemovalAssumption
<1>2. S \subseteq 1 .. ContentCount /\ IsFiniteSet(S)
  BY ContentIs, FS_Subset DEF Content
<1>3. PICK x \in S : \A y \in S : x <= y
  BY <1>1, <1>2, LowestExists
<1>4. {y \in S : y < x} = {}
  <2>1. \A y \in S : y \in Int /\ x \in Int /\ ~(y < x)
    BY <1>2, <1>3
  <2> QED
    BY <2>1
<1>5. Cardinality({y \in S : y < x}) = 0
  BY <1>4, FS_EmptySet
<1>6. PICK c : c = Cardinality(S) /\ c \in Nat /\ c >= 1
  <2>1. Cardinality(S) \in Nat /\ Cardinality(S) # 0
    BY <1>2, FS_CardinalityType, FS_EmptySet
  <2> QED
    BY <2>1
<1>7. PICK n : n = (c + BatchSize - 1) \div BatchSize /\ n \in Nat /\ n >= 1
  <2>1. \A a, b \in Nat : b > 0 /\ a >= b => a \div b \in Nat /\ a \div b > 0
    OBVIOUS
  <2> QED
    BY <1>1, <1>6, <2>1
<1>8. 0 \div BatchSize = 0
  <2>1. \A b \in Nat : b > 0 => 0 \div b = 0
    OBVIOUS
  <2> QED
    BY <1>1, <2>1
<1> DEFINE B == [k \in 1 .. n |-> {z \in S : Cardinality({y \in S : y < z}) \div BatchSize = k - 1}]
<1>9. Batches(S) = B
  BY <1>6, <1>7 DEF Batches
<1>10. B \in Seq(SUBSET Content)
  <2>1. \A k \in 1 .. n : B[k] \in SUBSET Content
    OBVIOUS
  <2>2. B \in [1 .. n -> SUBSET Content]
    BY <2>1
  <2> HIDE DEF B
  <2> QED
    BY <1>7, <2>2
<1>11. x \in B[1] /\ 1 \in DOMAIN B
  BY <1>5, <1>7, <1>8
<1> QED
  BY <1>9, <1>10, <1>11

LEMMA OpenFits == ASSUME NEW S \in SUBSET Content, OpenDialog(S) PROVE DialogFits(dialog', nextId)
PROOF
<1>1. PICK B : B = Batches(S)
  OBVIOUS
<1>2. B \in Seq(SUBSET Content) /\ \E i \in DOMAIN B : ~(B[i] \subseteq {})
  BY <1>1, BatchesAre DEF OpenDialog
<1>3. PICK d : /\ d = dialog'
               /\ d = [open |-> TRUE, batches |-> B, previews |-> <<>>, delete |-> FALSE,
                       waits |-> None, done |-> {}, error |-> FALSE, ids |-> [x \in S |-> bookId[x]]]
  BY <1>1 DEF OpenDialog
<1>4. /\ DOMAIN d = DialogFields /\ d.open = TRUE /\ d.delete = FALSE /\ d.batches = B
      /\ d.previews = <<>> /\ d.waits = None /\ d.done = {}
  BY <1>3 DEF DialogFields
<1>5. NextBatch(d) # {}
  BY <1>2, <1>4 DEF NextBatch
<1>6. Whole(d.previews) /\ Len(d.previews) = 0
  BY <1>4 DEF Whole
<1>7. Len(d.previews) <= Len(d.batches) /\ 1 .. Len(d.previews) = {}
  BY <1>2, <1>4, <1>6
<1>8. \A i \in 1 .. Len(d.previews) : PreviewFits(d.previews[i], nextId)
  BY <1>7
<1>9. d.delete \in BOOLEAN /\ d.batches \in Seq(SUBSET Content) /\ ~(d.waits # None)
  BY <1>2, <1>4
<1> QED
  BY <1>3, <1>4, <1>5, <1>6, <1>7, <1>8, <1>9 DEF DialogFits

Longer(s, v, t) ==
    /\ Whole(t) /\ Len(s) \in Nat /\ Len(t) = Len(s) + 1 /\ t[Len(s) + 1] = v
    /\ \A i \in 1 .. Len(s) : t[i] = s[i]

LEMMA AppendWhole ==
    ASSUME NEW s, NEW v, Whole(s)
    PROVE  Longer(s, v, Append(s, v))
PROOF
<1>1. PICK U, t : U = ToSet(s) \cup {v} /\ t = Append(s, v)
  OBVIOUS
<1>2. s \in Seq(U) /\ v \in U /\ Len(s) \in Nat
  BY <1>1 DEF Whole
<1>3. /\ t \in Seq(U) /\ Len(t) = Len(s) + 1 /\ t[Len(s) + 1] = v
      /\ \A i \in 1 .. Len(s) : t[i] = s[i]
  BY <1>1, <1>2
<1>4. \A i \in 1 .. Len(t) : t[i] \in ToSet(t)
  BY <1>3 DEF ToSet
<1>5. Whole(t)
  BY <1>3, <1>4 DEF Whole
<1> QED
  BY <1>1, <1>2, <1>3, <1>5 DEF Longer

LEMMA PreviewKeeps ==
    ASSUME RequestsOK, nextId \in Nat, Preview
    PROVE  RequestsOK'
PROOF
<1>1. PICK d : d = dialog /\ DialogFits(d, nextId)
  BY OpenIs DEF Preview
<1>2. Len(d.previews) # Len(d.batches) /\ d.open = TRUE /\ UNCHANGED tasks
  BY <1>1 DEF Preview, Previewed, DialogFits
<1>3. PICK k, S : k = Len(d.previews) + 1 /\ S = d.batches[k]
  OBVIOUS
<1>4. Len(d.previews) \in Nat /\ Len(d.batches) \in Nat /\ k \in 1 .. Len(d.batches)
      /\ S \subseteq Content /\ d.waits = None
  BY <1>1, <1>2, <1>3 DEF DialogFits, Whole
<1>5. CASE dialog' = [d EXCEPT !.error = TRUE] /\ UNCHANGED nextId
  <2>1. PICK e : e = dialog'
    OBVIOUS
  <2>2. /\ DOMAIN e = DialogFields /\ e.open = TRUE /\ e.delete = d.delete /\ e.batches = d.batches
        /\ e.previews = d.previews /\ e.done = d.done /\ e.waits = d.waits
    BY <1>1, <1>5, <2>1 DEF DialogFits, DialogFields
  <2>3. NextBatch(e) # {} /\ e.delete \in BOOLEAN
    BY <1>1, <2>2 DEF DialogFits, NextBatch
  <2>4. DialogFits(e, nextId)
    BY <1>1, <1>4, <2>2, <2>3, DialogGoesOn
  <2> QED
    BY <1>2, <1>5, <2>1, <2>4 DEF RequestsOK
<1>6. CASE /\ dialog' = [d EXCEPT !.previews = Append(@, [id |-> nextId, token |-> Token(S)])]
           /\ nextId' = nextId + 1
  <2>1. PICK e, v, w, n : /\ e = dialog' /\ v = [id |-> nextId, token |-> Token(S)]
                          /\ w = Append(d.previews, v) /\ n = nextId'
    OBVIOUS
  <2>2. e = [d EXCEPT !.previews = w]
    BY <1>6, <2>1
  <2>3. /\ DOMAIN e = DialogFields /\ e.open = TRUE /\ e.delete = d.delete /\ e.batches = d.batches
        /\ e.previews = w /\ e.done = d.done /\ e.waits = d.waits
    BY <1>1, <2>2 DEF DialogFits, DialogFields
  <2>4. NextBatch(e) # {} /\ e.delete \in BOOLEAN
    BY <1>1, <2>3 DEF DialogFits, NextBatch
  <2>5. /\ Whole(w) /\ Len(w) = k /\ w[k] = v
        /\ \A i \in 1 .. Len(d.previews) : w[i] = d.previews[i]
    <3>1. PICK q : q = d.previews /\ Whole(q) /\ w = Append(q, v)
      BY <1>1, <2>1 DEF DialogFits
    <3>2. Longer(q, v, w)
      BY <3>1, AppendWhole
    <3> QED
      BY <1>3, <3>1, <3>2 DEF Longer
  <2>6. PreviewFits(v, n)
    <3>1. v.id = nextId /\ v.token = Token(S) /\ DOMAIN Token(S) = S
      BY <2>1 DEF Token
    <3> QED
      BY <1>4, <1>6, <2>1, <3>1 DEF PreviewFits
  <2>7. \A i \in 1 .. Len(d.previews) : PreviewFits(d.previews[i], n)
    BY <1>1, <1>6, <2>1 DEF DialogFits, PreviewFits
  <2>8. \A i \in 1 .. Len(w) : PreviewFits(w[i], n)
    BY <1>3, <1>4, <2>5, <2>6, <2>7
  <2>9. DialogFits(e, n)
    BY <1>1, <1>4, <2>3, <2>4, <2>5, <2>8 DEF DialogFits
  <2>10. \A t \in tasks : TaskFits(t, n)
    BY <1>6, <2>1 DEF RequestsOK, TaskFits
  <2> QED
    BY <1>2, <2>1, <2>9, <2>10 DEF RequestsOK
<1> QED
  BY <1>1, <1>3, <1>5, <1>6 DEF Preview

LEMMA ConfirmKeeps ==
    ASSUME RequestsOK, Confirm
    PROVE  RequestsOK'
PROOF
<1>1. PICK d : d = dialog /\ DialogFits(d, nextId) /\ Len(d.previews) = Len(d.batches)
  BY OpenIs DEF Confirm, Previewed
<1>2. PICK c : c = [d EXCEPT !.error = FALSE]
  OBVIOUS
<1>3. /\ DOMAIN c = DialogFields /\ c.open = TRUE /\ c.delete = d.delete /\ c.batches = d.batches
      /\ c.previews = d.previews /\ c.done = d.done /\ c.waits = d.waits
  BY <1>1, <1>2 DEF DialogFits, DialogFields
<1>4. NextBatch(c) # {} /\ c.delete \in BOOLEAN
  BY <1>1, <1>3 DEF DialogFits, NextBatch
<1>5. DialogFits(c, nextId)
  BY <1>1, <1>3, <1>4, DialogGoesOn
<1>6. PICK t : t = Batch(c, Min(NextBatch(c)))
  OBVIOUS
<1>7. PICK e : /\ e = [c EXCEPT !.waits = t.n] /\ dialog' = e
               /\ tasks' = tasks \cup {t} /\ UNCHANGED nextId
  BY <1>1, <1>2, <1>6 DEF Confirm, Post
<1>8. TaskFits(t, nextId)
  BY <1>1, <1>3, <1>5, <1>6, BatchFits
<1>9. /\ DOMAIN e = DialogFields /\ e.open = TRUE /\ e.delete = c.delete /\ e.batches = c.batches
      /\ e.previews = c.previews /\ e.done = c.done
  BY <1>3, <1>7 DEF DialogFields
<1>10. NextBatch(e) # {} /\ e.delete \in BOOLEAN
  BY <1>4, <1>9 DEF NextBatch
<1>11. DialogFits(e, nextId)
  BY <1>1, <1>3, <1>5, <1>9, <1>10, DialogGoesOn
<1> QED
  BY <1>7, <1>8, <1>11 DEF RequestsOK

LEMMA DialogRequests == ASSUME RequestsOK, nextId \in Nat, Dialog PROVE RequestsOK'
PROOF
<1>1. ASSUME NEW S \in SUBSET Content, OpenDialog(S)
      PROVE  RequestsOK'
  <2>1. UNCHANGED <<nextId, tasks>>
    BY <1>1 DEF OpenDialog
  <2> QED
    BY <1>1, <2>1, OpenFits DEF RequestsOK
<1>2. CASE Preview
  BY <1>2, PreviewKeeps
<1>3. CASE TickDelete
  <2>1. PICK d, e : d = dialog /\ e = dialog' /\ DialogFits(d, nextId)
    BY <1>3, OpenIs DEF TickDelete
  <2>2. e = [d EXCEPT !.delete = ~d.delete] /\ UNCHANGED <<nextId, tasks>> /\ d.waits = None
    BY <1>3, <2>1 DEF TickDelete
  <2>3. /\ DOMAIN e = DialogFields /\ e.open = TRUE /\ e.delete \in BOOLEAN /\ e.batches = d.batches
        /\ e.previews = d.previews /\ e.done = d.done /\ e.waits = d.waits
    BY <2>1, <2>2 DEF DialogFits, DialogFields
  <2>4. NextBatch(e) # {}
    BY <2>1, <2>3 DEF DialogFits, NextBatch
  <2>5. DialogFits(e, nextId)
    BY <2>1, <2>2, <2>3, <2>4, DialogGoesOn
  <2> QED
    BY <2>1, <2>2, <2>5 DEF RequestsOK
<1>4. CASE Confirm
  BY <1>4, ConfirmKeeps
<1>5. CASE Cancel
  BY <1>5 DEF Cancel, RequestsOK
<1>6. CASE AnswerLost
  <2>1. PICK e : e = [dialog EXCEPT !.waits = None, !.error = TRUE] /\ dialog' = e
    BY <1>6 DEF AnswerLost
  <2>2. DialogFits(e, nextId)
    BY <1>6, <2>1, GivenUp DEF AnswerLost
  <2> QED
    BY <1>6, <2>1, <2>2 DEF AnswerLost, RequestsOK
<1> QED
  BY <1>1, <1>2, <1>3, <1>4, <1>5, <1>6 DEF Dialog

LEMMA EndsRequests ==
    ASSUME RequestsOK, NEW t, NEW good, Ends(t, good)
    PROVE  RequestsOK'
PROOF
<1>1. PICK d : d = dialog /\ UNCHANGED nextId
  BY DEF Ends
<1>2. CASE UNCHANGED dialog /\ tasks' = tasks \ {t}
  BY <1>1, <1>2 DEF RequestsOK
<1>3. CASE d.waits # None /\ dialog' = [d EXCEPT !.waits = None, !.error = TRUE] /\ tasks' = tasks \ {t}
  <2>1. PICK e : e = [dialog EXCEPT !.waits = None, !.error = TRUE] /\ dialog' = e
    BY <1>1, <1>3
  <2>2. DialogFits(e, nextId)
    BY <1>1, <1>3, <2>1, GivenUp
  <2> QED
    BY <1>1, <1>3, <2>1, <2>2 DEF RequestsOK
<1>4. CASE dialog' = Closed /\ tasks' = tasks \ {t}
  BY <1>1, <1>4 DEF RequestsOK
<1>5. ASSUME d.waits # None, NEW told, told = [d EXCEPT !.done = @ \cup DOMAIN t.token],
             NextBatch(told) # {}, NEW next, next = Batch(told, Min(NextBatch(told))),
             dialog' = [told EXCEPT !.waits = next.n], tasks' = (tasks \ {t}) \cup {next}
      PROVE  RequestsOK'
  <2>1. DialogFits(d, nextId) /\ Len(d.previews) = Len(d.batches)
    BY <1>1, <1>5, AwaitingIs
  <2>2. /\ DOMAIN told = DialogFields /\ told.open = TRUE /\ told.delete = d.delete
        /\ told.batches = d.batches /\ told.previews = d.previews /\ d.delete \in BOOLEAN
    BY <1>5, <2>1 DEF DialogFits, DialogFields
  <2>3. DialogFits(told, nextId)
    BY <1>5, <2>1, <2>2, DialogGoesOn
  <2>4. TaskFits(next, nextId)
    BY <1>5, <2>1, <2>2, <2>3, BatchFits
  <2>5. PICK e : e = dialog'
    OBVIOUS
  <2>6. /\ DOMAIN e = DialogFields /\ e.open = TRUE /\ e.delete = told.delete
        /\ e.batches = told.batches /\ e.previews = told.previews /\ e.done = told.done
    BY <1>5, <2>2, <2>5 DEF DialogFields
  <2>7. NextBatch(e) # {} /\ e.delete \in BOOLEAN
    BY <1>5, <2>2, <2>6 DEF NextBatch
  <2>8. DialogFits(e, nextId)
    BY <2>1, <2>2, <2>3, <2>6, <2>7, DialogGoesOn
  <2> QED
    BY <1>1, <1>5, <2>4, <2>5, <2>8 DEF RequestsOK
<1>6. CASE ~(t.n = None \/ d.waits # t.n)
  <2>1. d.waits # None
    BY <1>6
  <2> QED
    BY <1>1, <1>3, <1>4, <1>5, <1>6, <2>1 DEF Ends
<1>7. CASE t.n = None \/ d.waits # t.n
  BY <1>1, <1>2, <1>7 DEF Ends
<1> QED
  BY <1>6, <1>7

LEMMA GoesRequests ==
    ASSUME RequestsOK, NEW t \in tasks, DOMAIN t = Fields, NEW phase \in Phases \ {"commit"}, NEW left,
           Goes(t, phase, left)
    PROVE  RequestsOK'
PROOF
<1>1. PICK u : u = [t EXCEPT !.phase = phase, !.left = left]
  OBVIOUS
<1>2. u.id = t.id /\ u.delete = t.delete /\ u.phase = phase
  BY <1>1 DEF Fields
<1>3. TaskFits(u, nextId)
  BY <1>2 DEF RequestsOK, TaskFits
<1>4. tasks' = (tasks \ {t}) \cup {u} /\ UNCHANGED <<dialog, nextId>>
  BY <1>1 DEF Goes
<1> QED
  BY <1>3, <1>4 DEF RequestsOK

LEMMA WorkRequests ==
    ASSUME HoldsInv, NEW t \in tasks, CarryOut(t) \/ Check(t) \/ Unlink(t) \/ Record(t) \/ Finish(t)
    PROVE  RequestsOK'
PROOF
<1>1. RequestsOK /\ DOMAIN t = Fields
  BY DEF HoldsInv, RemovalInv, TasksOK
<1>2. ASSUME NEW good, Ends(t, good)
      PROVE  RequestsOK'
  BY <1>1, <1>2, EndsRequests
<1>3. ASSUME NEW phase \in {"check", "unlink", "record"}, NEW left, Goes(t, phase, left)
      PROVE  RequestsOK'
  <2>1. phase \in Phases \ {"commit"}
    BY DEF Phases
  <2> QED
    BY <1>1, <1>3, <2>1, GoesRequests
<1>4. CASE CarryOut(t)
  <2>1. Goes(t, "check", {}) \/ Ends(t, Matches(t)) \/ Ends(t, TRUE) \/ Ends(t, FALSE)
    BY <1>4 DEF CarryOut
  <2> QED
    BY <1>2, <1>3, <2>1
<1>5. CASE Check(t)
  <2>1. Goes(t, "unlink", Pending(t.id)) \/ Ends(t, TRUE)
    BY <1>5 DEF Check
  <2> QED
    BY <1>2, <1>3, <2>1
<1>6. CASE Unlink(t)
  BY <1>3, <1>6 DEF Unlink
<1>7. CASE Record(t)
  BY <1>3, <1>7 DEF Record
<1>8. CASE Finish(t)
  BY <1>2, <1>8 DEF Finish
<1> QED
  BY <1>4, <1>5, <1>6, <1>7, <1>8

LEMMA OtherRequests == ASSUME HoldsInv, Bin \/ Upkeep \/ Others PROVE RequestsOK'
PROOF
<1>1. RequestsOK /\ KeptOK
  BY DEF HoldsInv
<1>2. CASE UNCHANGED <<dialog, tasks, nextId>>
  BY <1>1, <1>2 DEF RequestsOK
<1>3. ASSUME NEW id \in DOMAIN receipts, Hourly(id)
      PROVE  RequestsOK'
  <2> DEFINE u == [n |-> None, id |-> id, delete |-> TRUE, token |-> <<>>,
                   phase |-> "check", left |-> {}]
  <2>1. /\ tasks' = tasks \cup {u} /\ UNCHANGED <<dialog, nextId>>
        /\ u.id = id /\ u.delete = TRUE /\ u.phase = "check"
    BY <1>3 DEF Hourly
  <2> HIDE DEF u
  <2>2. TaskFits(u, nextId)
    BY <1>1, <2>1 DEF KeptOK, TaskFits, Phases
  <2> QED
    BY <1>1, <2>1, <2>2 DEF RequestsOK
<1>4. ASSUME tasks' \subseteq tasks, UNCHANGED nextId, dialog' \in {dialog, [dialog EXCEPT !.waits = None, !.error = TRUE]},
             dialog' = dialog \/ dialog.waits # None
      PROVE  RequestsOK'
  <2>1. CASE UNCHANGED dialog
    BY <1>1, <1>4, <2>1 DEF RequestsOK
  <2>2. CASE dialog.waits # None /\ dialog' = [dialog EXCEPT !.waits = None, !.error = TRUE]
    <3>1. PICK e : e = [dialog EXCEPT !.waits = None, !.error = TRUE] /\ dialog' = e
      BY <2>2
    <3>2. DialogFits(e, nextId)
      BY <1>1, <2>2, <3>1, GivenUp
    <3> QED
      BY <1>1, <1>4, <3>1, <3>2 DEF RequestsOK
  <2> QED
    BY <1>4, <2>1, <2>2
<1>5. ASSUME NEW t \in tasks, DeletionFails(t)
      PROVE  RequestsOK'
  BY <1>4, <1>5 DEF DeletionFails
<1>6. CASE ServerStops
  BY <1>4, <1>6 DEF ServerStops
<1>7. CASE Bin
  BY <1>2, <1>7 DEF Bin, CancelDeletion, Restore, FromBin
<1>8. ASSUME ScanTurns \/ \E x \in Content : OtherEdits(x) \/ FileChanges(x)
      PROVE  UNCHANGED <<dialog, tasks, nextId>>
  BY <1>8 DEF ScanTurns, OtherEdits, FileChanges, Other
<1> QED
  BY <1>2, <1>3, <1>5, <1>6, <1>7, <1>8 DEF Upkeep, Others

-----------------------------------------------------------------------------
LEMMA HoldsBegins == RemovalInit => HoldsInv
PROOF
<1> SUFFICES ASSUME RemovalInit PROVE HoldsInv
  OBVIOUS
<1>1. ContentCount \in Nat \ {0}
  BY ContentIs
<1>2. PICK n \in {ContentCount - 1, ContentCount} : place = Indexed(Content, [i \in 1 .. n |-> i])
  BY DEF RemovalInit
<1>3. PICK s : s = [i \in 1 .. n |-> i]
  OBVIOUS
<1>4. n \in Nat /\ n <= ContentCount
  BY <1>1
<1>5. Distinct(s, Content)
  <2>1. \A i \in 1 .. n : i \in Content
    BY <1>1, <1>4 DEF Content
  <2>2. s \in [1 .. n -> Content]
    BY <1>3, <2>1
  <2>3. s \in Seq(Content) /\ Len(s) = n
    BY <1>4, <2>2
  <2> QED
    BY <1>3, <2>3 DEF Distinct
<1>6. place \in [Content -> -1 .. ContentCount] /\ NoTies(place)
  BY <1>2, <1>3, <1>5, IndexedIs
<1>7. /\ bookId = [x \in Content |-> x] /\ nextBook = ContentCount + 1
      /\ edited = [x \in Content |-> 1] /\ revision = 1 /\ nextId = 1
  BY DEF RemovalInit
<1>8. LibraryOK
  <2>1. bookId \in [Content -> 0 .. nextBook - 1] /\ \A x \in Content : bookId[x] # None
    BY <1>1, <1>7 DEF Content, None
  <2> QED
    BY <1>1, <1>6, <1>7, <2>1 DEF LibraryOK, MembersExist
<1>9. PathsOK /\ KeptOK /\ RequestsOK /\ LockOK
  <2>1. PathsOK
    BY DEF RemovalInit, PathsOK
  <2>2. receipts = <<>> /\ tasks = {} /\ lock = FALSE /\ dialog = Closed
    BY DEF RemovalInit
  <2>3. DOMAIN receipts = {}
    BY <2>2
  <2>4. KeptOK
    BY <2>3 DEF KeptOK
  <2> QED
    BY <2>1, <2>2, <2>4 DEF RequestsOK, LockOK
<1> QED
  BY <1>8, <1>9, RemovalBegins DEF HoldsInv

LEMMA HoldsKeeps ==
    ASSUME HoldsInv, RemovalNext
    PROVE  HoldsInv' /\ RestoredInPlace
PROOF
<1>1. RemovalInv'
  BY RemovalKeeps DEF HoldsInv
<1>2. LibraryOK' /\ KeptOK' /\ RestoredInPlace
  BY NextPreserves DEF Preserved
<1>3. RequestsOK'
  <2>1. RequestsOK /\ nextId \in Nat
    BY DEF HoldsInv, LibraryOK
  <2> QED
    BY <2>1, DialogRequests, WorkRequests, OtherRequests DEF RemovalNext, Work
<1>4. PathsOK' /\ LockOK'
  BY PathsKept, LockKept
<1> QED
  BY <1>1, <1>2, <1>3, <1>4 DEF HoldsInv

LEMMA HoldsStays == ASSUME HoldsInv, UNCHANGED removalVars PROVE HoldsInv'
PROOF
<1>1. RemovalInv'
  BY NothingKeeps DEF HoldsInv
<1>2. LibraryOK' /\ KeptOK'
  <2>1. LibraryOK /\ KeptOK /\ nextId \in Nat /\ UNCHANGED <<library, receipts, nextId>>
    BY DEF HoldsInv, LibraryOK, removalVars
  <2> QED
    BY <2>1, NothingMoves DEF Preserved
<1>3. PathsOK' /\ RequestsOK' /\ LockOK'
  BY DEF HoldsInv, PathsOK, RequestsOK, LockOK, removalVars, archives
<1> QED
  BY <1>1, <1>2, <1>3 DEF HoldsInv

\* However books are removed, restored, edited and imported again, and by whoever, the
\* collection is of books of the library; and the books of a removal that are all restored
\* before anything else happens to the collection are where they were in it (_commit_removal(),
\* restore()).
THEOREM CollectionHoldsTheorem == FairRemoval => CollectionHolds
PROOF
<1>1. RemovalInit => HoldsInv
  BY HoldsBegins
<1>2. HoldsInv /\ [RemovalNext]_removalVars => HoldsInv'
  BY HoldsKeeps, HoldsStays
<1>3. HoldsInv /\ [RemovalNext]_removalVars => [RestoredInPlace]_removalVars
  BY HoldsKeeps
<1>4. HoldsInv => RemovalTypeOK /\ MembersExist
  BY HoldsTypes
<1> QED
  BY <1>1, <1>2, <1>3, <1>4, PTL DEF FairRemoval, RemovalSpec, CollectionHolds
=============================================================================
