------------------------------- MODULE Ingest -------------------------------
(***************************************************************************)
(* The crash-safe import of src/mangacouch/ingest.py and files.py: an      *)
(* archive is staged, recorded as ready, published under its final path,   *)
(* registered in one transaction and unstaged; recovery finishes what the  *)
(* processes that died or met an error left behind.                        *)
(*                                                                         *)
(* Several processes and threads (Actors) import and recover under one     *)
(* file lock; meanwhile the user changes library files, the server         *)
(* compares them with their manifests, and books are removed.              *)
(* Abstracted: a file is the content it holds (Empty: no file, Junk:       *)
(* anything else, partial copies included); metadata, sidecars, pages and  *)
(* warnings; a stamp is what matters of it: whether the file changed since *)
(* the stamp was read.  Reading a whole file, by which a change meanwhile  *)
(* is detected, is one step; so is the sweep of the staging directory, and *)
(* so is a removal.                                                        *)
(***************************************************************************)
EXTENDS Naturals

CONSTANTS
    JobCount,   \* number of imports ever started
    Contents,   \* archive contents (sha256)
    Shelves,    \* library paths the user keeps files at
    Actors,     \* threads and processes that import or recover
    MaxTouches, \* number of times the user changes a file
    Empty, Junk, Nobody, Nowhere

Jobs == 1 .. JobCount
NoJob == 0
Managed(c) == <<c>>     \* Content.managed_path
Places == Shelves \cup {Managed(c) : c \in Contents}
File == Contents \cup {Empty, Junk}

JobStates == {"absent", "copying", "ready", "done", "failed"}
Job == [state: JobStates, kind: {"copy", "index"},
        content: Contents \cup {Empty}, path: Places \cup {Nowhere}]
NoBook == [in |-> FALSE, at |-> Nowhere, vouched |-> FALSE]

ASSUME CountAssumption == JobCount \in Nat /\ MaxTouches \in Nat
ASSUME NamesAssumption ==
    /\ Empty \notin Contents /\ Junk \notin Contents /\ Empty # Junk
    /\ Nobody \notin Actors /\ Nowhere \notin Places

VARIABLES
    disk,       \* the library's files
    stage,      \* the staged file <job id>.part of each import
    job,        \* import_job rows
    book,       \* book rows; vouched: the manifest holds the file's present stamp
    holder,     \* who holds .mangacouch-operation.lock
    op,         \* each actor's running operation
    (* History. *)
    touches,    \* changes the user has made
    slipped,    \* books whose file the user changed while they were being registered
    revoked     \* the imports begun before the last removal of each content's book

vars == <<disk, stage, job, book, holder, op, touches, slipped, revoked>>
history == <<touches, slipped, revoked>>

\* known: files whose stamp is still the one the operation verified; stageOK: so is
\* the stage's; copy: publish_file's temporary.  For the properties only, meddled: files
\* changed since the operation checked them, spoiled: so was the stage it publishes.
IdleOp == [pc |-> "idle", mode |-> "import", i |-> NoJob, digest |-> Empty, tgt |-> Nowhere,
           known |-> {}, stageOK |-> FALSE, sure |-> FALSE, ready |-> FALSE, err |-> "none",
           todo |-> {}, copy |-> Empty, meddled |-> {}, spoiled |-> FALSE]

Init ==
    /\ disk = [p \in Places |-> Empty]
    /\ stage = [i \in Jobs |-> Empty]
    /\ job = [i \in Jobs |-> [state |-> "absent", kind |-> "copy", content |-> Empty, path |-> Nowhere]]
    /\ book = [c \in Contents |-> NoBook]
    /\ holder = Nobody
    /\ op = [a \in Actors |-> IdleOp]
    /\ touches = 0 /\ slipped = {} /\ revoked = [c \in Contents |-> {}]

-----------------------------------------------------------------------------
(* Steps of an operation.                                                  *)
Kind(a) == job[op[a].i].kind
Goto(a, pc) == op' = [op EXCEPT ![a].pc = pc]
Become(a, o) == op' = [op EXCEPT ![a] = o]

\* An exception: import_file and recover have a handler each.
Raise(a, e) ==
    /\ Become(a, [op[a] EXCEPT !.err = e, !.pc = IF op[a].mode = "import" THEN "handle" ELSE "settle"])
    /\ UNCHANGED <<disk, stage, job, book, holder, history>>

\* import_file: the lock, the row; an index takes the stamp of the file it is given.
Begin(a, i, row) ==
    /\ op[a].pc = "idle" /\ holder = Nobody
    /\ job[i].state = "absent" /\ \A k \in Jobs : k < i => job[k].state # "absent"
    /\ holder' = a
    /\ job' = [job EXCEPT ![i] = row]
    /\ UNCHANGED <<disk, stage, book, history>>

BeginCopy(a, i, c) ==
    /\ Begin(a, i, [state |-> "copying", kind |-> "copy", content |-> Empty, path |-> Nowhere])
    /\ Become(a, [IdleOp EXCEPT !.pc = "stage", !.i = i, !.digest = c])

BeginIndex(a, i, p) ==
    /\ disk[p] # Empty
    /\ Begin(a, i, [state |-> "copying", kind |-> "index", content |-> Empty, path |-> Nowhere])
    /\ Become(a, [IdleOp EXCEPT !.pc = "stage", !.i = i, !.tgt = p, !.known = {p}])

\* _link stages a consumed source in one step, _copy by way of a partial file.
StageLinked(a) ==
    /\ op[a].pc = "stage" /\ Kind(a) = "copy"
    /\ stage' = [stage EXCEPT ![op[a].i] = op[a].digest]
    /\ Become(a, [op[a] EXCEPT !.pc = "validate", !.stageOK = TRUE])
    /\ UNCHANGED <<disk, job, book, holder, history>>

StageCopying(a) ==
    /\ op[a].pc = "stage" /\ Kind(a) = "copy"
    /\ stage' = [stage EXCEPT ![op[a].i] = Junk]
    /\ Goto(a, "fill")
    /\ UNCHANGED <<disk, job, book, holder, history>>

StageCopied(a) ==
    /\ op[a].pc = "fill"
    /\ stage' = [stage EXCEPT ![op[a].i] = op[a].digest]
    /\ Become(a, [op[a] EXCEPT !.pc = "validate", !.stageOK = TRUE])
    /\ UNCHANGED <<disk, job, book, holder, history>>

\* The file to index is hashed where it is; Junk is not an archive.
StageIndexed(a) ==
    /\ op[a].pc = "stage" /\ Kind(a) = "index"
    /\ disk[op[a].tgt] \in Contents
    /\ Become(a, [op[a] EXCEPT !.pc = "validate", !.digest = disk[op[a].tgt]])
    /\ UNCHANGED <<disk, stage, job, book, holder, history>>

\* inspect_archive, then: neither the source nor the validated file has changed.
Unchanged(a) == IF Kind(a) = "copy" THEN op[a].stageOK ELSE op[a].tgt \in op[a].known
Validated(a) ==
    /\ op[a].pc = "validate" /\ Unchanged(a)
    /\ job' = [job EXCEPT ![op[a].i].state = "ready", ![op[a].i].content = op[a].digest,
                          ![op[a].i].path = IF Kind(a) = "copy" THEN Managed(op[a].digest) ELSE op[a].tgt]
    /\ Become(a, [op[a] EXCEPT !.pc = "look", !.ready = TRUE])
    /\ UNCHANGED <<disk, stage, book, holder, history>>

-----------------------------------------------------------------------------
(* _publish.                                                               *)

\* The library may have a book of this content: its file, if it is still there
\* and whole, is the target; a missing one gives way to this import's own path.
Look(a) ==
    LET o == op[a] old == book[op[a].digest] IN
    /\ o.pc = "look" /\ job[o.i].state = "ready"
    /\ \/ /\ old.in /\ disk[old.at] = o.digest
          /\ Become(a, [o EXCEPT !.pc = "publish", !.tgt = old.at, !.sure = TRUE, !.meddled = {}])
       \/ /\ old.in => disk[old.at] = Empty
          /\ Become(a, [o EXCEPT !.pc = "publish", !.tgt = job[o.i].path])
    /\ UNCHANGED <<disk, stage, job, book, holder, history>>

\* Only a missing target is published, and only for a copy.
ToPublish(a) == Kind(a) = "copy" /\ disk[op[a].tgt] = Empty

\* Mutation: a stage is published as it is.
AnyStage(a) == TRUE
\* The staged file's stamp is the verified one, or it is hashed (again).
StageGood(a) == op[a].stageOK \/ stage[op[a].i] = op[a].digest

CheckStage(a) ==
    /\ op[a].pc = "publish" /\ ToPublish(a) /\ StageGood(a)
    /\ Become(a, [op[a] EXCEPT !.pc = IF op[a].stageOK THEN "link" ELSE "restamp"])
    /\ UNCHANGED <<disk, stage, job, book, holder, history>>

\* A stage that was hashed is known by the stamp it has by now.
Restamp(a) ==
    /\ op[a].pc = "restamp"
    /\ Become(a, [op[a] EXCEPT !.pc = "link", !.stageOK = TRUE])
    /\ UNCHANGED <<disk, stage, job, book, holder, history>>

\* publish_file.  Neither os.link nor _rename_new replaces a file: one that came to be
\* at the target is left, and looked at next.
Publish(a, x, known) ==
    /\ disk[op[a].tgt] = Empty
    /\ disk' = [disk EXCEPT ![op[a].tgt] = x]
    /\ Become(a, [op[a] EXCEPT !.pc = "verify", !.known = known, !.copy = Empty, !.spoiled = FALSE,
                               !.meddled = IF op[a].spoiled THEN {op[a].tgt} ELSE {}])
    /\ UNCHANGED <<stage, job, book, holder, history>>

\* A link has the stamp of the stage.
Link(a) ==
    /\ op[a].pc = "link"
    /\ Publish(a, stage[op[a].i], IF op[a].stageOK THEN {op[a].tgt} ELSE {})

\* The stage is copied where it cannot be linked.
CopyStage(a) ==
    /\ op[a].pc = "link" /\ disk[op[a].tgt] = Empty
    /\ Become(a, [op[a] EXCEPT !.pc = "rename", !.copy = stage[op[a].i]])
    /\ UNCHANGED <<disk, stage, job, book, holder, history>>

RenameCopy(a) == op[a].pc = "rename" /\ Publish(a, op[a].copy, {})

Occupied(a) ==
    /\ op[a].pc \in {"link", "rename"} /\ disk[op[a].tgt] # Empty
    /\ Become(a, [op[a] EXCEPT !.pc = "verify", !.copy = Empty, !.spoiled = FALSE])
    /\ UNCHANGED <<disk, stage, job, book, holder, history>>

Present(a) ==
    /\ op[a].pc = "publish" /\ ~ToPublish(a)
    /\ Goto(a, "verify")
    /\ UNCHANGED <<disk, stage, job, book, holder, history>>

\* Mutation: a file found at the target is taken for the archive.
FoundTarget(a) == disk[op[a].tgt] # Empty
\* The target's stamp is the verified one, or it is hashed (again).
Trusted(a) == op[a].sure \/ op[a].tgt \in op[a].known
TargetGood(a) == Trusted(a) \/ disk[op[a].tgt] = op[a].digest

Verify(a) ==
    /\ op[a].pc = "verify" /\ TargetGood(a)
    /\ Become(a, [op[a] EXCEPT !.pc = "stamp", !.meddled = IF Trusted(a) THEN @ \cap {op[a].tgt} ELSE {}])
    /\ UNCHANGED <<disk, stage, job, book, holder, history>>

\* _commit_import reads the stamp for the manifest before its transaction.
Stamp(a) ==
    /\ op[a].pc = "stamp" /\ disk[op[a].tgt] # Empty
    /\ Become(a, [op[a] EXCEPT !.pc = "commit", !.known = {op[a].tgt}])
    /\ UNCHANGED <<disk, stage, job, book, holder, history>>

Commit(a) ==
    LET o == op[a] IN
    /\ o.pc = "commit"
    /\ book' = [book EXCEPT ![o.digest] = [in |-> TRUE, at |-> o.tgt, vouched |-> o.tgt \in o.known]]
    /\ job' = [job EXCEPT ![o.i].state = "done"]
    /\ slipped' = IF o.tgt \in o.meddled THEN slipped \cup {o.digest} ELSE slipped \ {o.digest}
    /\ Goto(a, "tidy")
    /\ UNCHANGED <<disk, stage, holder, touches, revoked>>

\* _cleanup_stage gives up silently while the root is unavailable.
Unstaged(i) == stage' = [stage EXCEPT ![i] = Empty] \/ UNCHANGED stage

Tidy(a) ==
    /\ op[a].pc = "tidy"
    /\ Unstaged(op[a].i)
    /\ Goto(a, IF op[a].mode = "import" THEN "release" ELSE "next")
    /\ UNCHANGED <<disk, job, book, holder, history>>

-----------------------------------------------------------------------------
(* Errors.  ContentChanged, FileNotFoundError and invalid archives are     *)
(* final; an unavailable root, a full disk and SQLite errors are transient *)
(* and may come at any step.                                               *)
Wrong(a) ==
    \/ op[a].pc = "stage" /\ Kind(a) = "index" /\ disk[op[a].tgt] \notin Contents
    \/ op[a].pc = "validate" /\ ~Unchanged(a)
    \/ /\ op[a].pc = "look" /\ book[op[a].digest].in
       /\ disk[book[op[a].digest].at] \notin {Empty, op[a].digest}
    \/ op[a].pc = "look" /\ job[op[a].i].state # "ready"
    \/ op[a].pc = "publish" /\ ToPublish(a) /\ ~StageGood(a)
    \/ op[a].pc = "verify" /\ ~TargetGood(a)
    \/ op[a].pc = "stamp" /\ disk[op[a].tgt] = Empty
\* Errors the model does not look into: the source changed, was invalid or too large,
\* the caller cancelled; the stage changed while it was copied; the cleanup failed.
MayFail(a) == op[a].pc \in {"stage", "fill", "validate", "link", "tidy"}
Working == {"stage", "fill", "validate", "look", "publish", "restamp", "link", "rename",
            "verify", "stamp", "commit", "tidy"}

FailForGood(a) == (Wrong(a) \/ MayFail(a)) /\ Raise(a, "fatal")
FailForNow(a) == op[a].pc \in Working /\ Raise(a, "transient")

Keep(a) == op[a].ready /\ op[a].err = "transient"
\* Mutation: the reason is written where the state belongs.
EndedWithReason(a) == IF Keep(a) THEN "ready" ELSE op[a].err
\* Mutation: the handler does not see that the import was committed.
EndedAnyhow(a) == IF Keep(a) THEN "ready" ELSE "failed"
\* The handler's UPDATE: done stays done.
Ended(a) == IF job[op[a].i].state = "done" THEN "done" ELSE IF Keep(a) THEN "ready" ELSE "failed"

\* import_file's handler; its UPDATE may itself fail, which is suppressed.
Handle(a) ==
    /\ op[a].pc = "handle"
    /\ job' = [job EXCEPT ![op[a].i].state = Ended(a)] \/ UNCHANGED job
    /\ Goto(a, IF Keep(a) THEN "release" ELSE "discard")
    /\ UNCHANGED <<disk, stage, book, holder, history>>

Discard(a) ==
    /\ op[a].pc = "discard"
    /\ Unstaged(op[a].i)
    /\ Goto(a, "release")
    /\ UNCHANGED <<disk, job, book, holder, history>>

Release(a) ==
    /\ op[a].pc \in {"release", "swept"}
    /\ holder' = Nobody
    /\ Become(a, IdleOp)
    /\ UNCHANGED <<disk, stage, job, book, history>>

-----------------------------------------------------------------------------
(* recover.                                                                *)

\* Mutation: recovery does not take the operation lock.
UnlockedFree == TRUE
Free == holder = Nobody

Recover(a) ==
    /\ op[a].pc = "idle" /\ Free
    /\ holder' = a
    /\ Become(a, [IdleOp EXCEPT !.pc = "next", !.mode = "recover",
                                !.todo = {i \in Jobs : job[i].state \in {"copying", "ready"}}])
    /\ UNCHANGED <<disk, stage, job, book, history>>

\* The oldest of the rows it read: an unfinished copy fails, a ready one is published.
Oldest(a, i) == i \in op[a].todo /\ \A k \in op[a].todo : i <= k

RecoverCopying(a, i) ==
    /\ op[a].pc = "next" /\ Oldest(a, i) /\ job[i].state = "copying"
    /\ job' = [job EXCEPT ![i].state = "failed"]
    /\ op' = [op EXCEPT ![a].todo = @ \ {i}]
    /\ UNCHANGED <<disk, stage, book, holder, history>>

RecoverReady(a, i) ==
    /\ op[a].pc = "next" /\ Oldest(a, i) /\ job[i].state # "copying"
    /\ Become(a, [IdleOp EXCEPT !.pc = "look", !.mode = "recover", !.i = i, !.ready = TRUE,
                                !.digest = job[i].content, !.todo = op[a].todo \ {i}])
    /\ UNCHANGED <<disk, stage, job, book, holder, history>>

\* recover's handler: only a ready row is settled.
Settle(a) ==
    /\ op[a].pc = "settle"
    /\ job' = [job EXCEPT ![op[a].i].state = IF @ = "ready" /\ ~Keep(a) THEN "failed" ELSE @]
    /\ Goto(a, "next")
    /\ UNCHANGED <<disk, stage, book, holder, history>>

\* Mutation: only what failed is swept.
StaleFailed(i) == job[i].state = "failed"
\* Mutation: every stage is swept.
StaleAlways(i) == TRUE
Stale(i) == job[i].state # "ready"

Sweep(a) ==
    /\ op[a].pc = "next" /\ op[a].todo = {}
    /\ stage' = [i \in Jobs |-> IF Stale(i) THEN Empty ELSE stage[i]]
    /\ Goto(a, "swept")
    /\ UNCHANGED <<disk, job, book, holder, history>>

\* An error outside recover's handler ends the recovery where it is.
Abandon(a) ==
    /\ op[a].pc \in {"next", "settle"}
    /\ Goto(a, "release")
    /\ UNCHANGED <<disk, stage, job, book, holder, history>>

-----------------------------------------------------------------------------
(* Around the operations.                                                  *)

\* The process dies: the lock is released by the system.
Crash(a) ==
    /\ op[a].pc # "idle"
    /\ holder' = IF holder = a THEN Nobody ELSE holder
    /\ Become(a, IdleOp)
    /\ UNCHANGED <<disk, stage, job, book, history>>

\* The user puts, replaces or deletes a library file: its stamp changes.
Touch(p) ==
    /\ touches < MaxTouches /\ touches' = touches + 1
    /\ \E x \in File \ {disk[p]} : disk' = [disk EXCEPT ![p] = x]
    /\ op' = [a \in Actors |-> IF op[a].pc = "idle" THEN op[a]
                               ELSE [op[a] EXCEPT !.known = @ \ {p}, !.meddled = @ \cup {p}]]
    /\ book' = [c \in Contents |-> [book[c] EXCEPT !.vouched = @ /\ book[c].at # p]]
    /\ UNCHANGED <<stage, job, holder, slipped, revoked>>

\* The source a stage is a link to, or the stage itself, is written over.
Spoil(i) ==
    /\ touches < MaxTouches /\ touches' = touches + 1
    /\ stage[i] \in Contents
    /\ stage' = [stage EXCEPT ![i] = Junk]
    /\ op' = [a \in Actors |->
                [op[a] EXCEPT !.stageOK = @ /\ op[a].i # i,
                              !.spoiled = @ \/ (op[a].i = i /\ op[a].pc \in {"restamp", "link"})]]
    /\ UNCHANGED <<disk, job, book, holder, slipped, revoked>>

\* availability: a file with another stamp than the manifest's is hashed, and the
\* manifest takes the stamp of one that is whole.
Availability(c) ==
    /\ book[c].in /\ ~book[c].vouched /\ disk[book[c].at] = c
    /\ book' = [book EXCEPT ![c].vouched = TRUE]
    /\ UNCHANGED <<disk, stage, job, holder, op, history>>

\* Mutation: a removal does not look for imports to be recovered.
BlockedNever(c) == FALSE
\* Removals._preview: "import_recovery_pending".
Blocked(c) == \E i \in Jobs : job[i].state = "ready" /\ job[i].content = c

RemoveBook(c) ==
    /\ book[c].in /\ holder = Nobody /\ ~Blocked(c)
    /\ book' = [book EXCEPT ![c] = NoBook]
    /\ revoked' = [revoked EXCEPT ![c] = {i \in Jobs : job[i].state # "absent"}]
    /\ slipped' = slipped \ {c}
    /\ UNCHANGED <<disk, stage, job, holder, op, touches>>

Import(a) ==
    \/ \E i \in Jobs : (\E c \in Contents : BeginCopy(a, i, c)) \/ \E p \in Places : BeginIndex(a, i, p)
    \/ StageLinked(a) \/ StageCopying(a) \/ StageCopied(a) \/ StageIndexed(a) \/ Validated(a)
    \/ Handle(a) \/ Discard(a)
Publishing(a) ==
    \/ Look(a) \/ Present(a) \/ CheckStage(a) \/ Restamp(a)
    \/ Link(a) \/ CopyStage(a) \/ RenameCopy(a) \/ Occupied(a)
    \/ Verify(a) \/ Stamp(a) \/ Commit(a) \/ Tidy(a)
Recovering(a) ==
    \/ Recover(a) \/ Settle(a) \/ Sweep(a) \/ Abandon(a)
    \/ \E i \in Jobs : RecoverCopying(a, i) \/ RecoverReady(a, i)
User ==
    \/ \E p \in Places : Touch(p)
    \/ \E i \in Jobs : Spoil(i)
    \/ \E c \in Contents : Availability(c) \/ RemoveBook(c)

Next ==
    \/ \E a \in Actors :
          \/ Import(a) \/ Publishing(a) \/ Recovering(a)
          \/ FailForGood(a) \/ FailForNow(a) \/ Release(a) \/ Crash(a)
    \/ User

Spec == Init /\ [][Next]_vars

-----------------------------------------------------------------------------
(* Properties.                                                             *)

Op == [pc: Working \cup {"idle", "handle", "discard", "next", "settle", "release", "swept"},
       mode: {"import", "recover"}, i: Jobs \cup {NoJob}, digest: Contents \cup {Empty},
       tgt: Places \cup {Nowhere}, known: SUBSET Places, stageOK: BOOLEAN, sure: BOOLEAN,
       ready: BOOLEAN, err: {"none", "transient", "fatal"}, todo: SUBSET Jobs,
       copy: File, meddled: SUBSET Places, spoiled: BOOLEAN]

\* The types of the files, the rows, the lock and the operations.
TypeOK ==
    /\ disk \in [Places -> File]
    /\ stage \in [Jobs -> File]
    /\ job \in [Jobs -> Job]
    /\ book \in [Contents -> [in: BOOLEAN, at: Places \cup {Nowhere}, vouched: BOOLEAN]]
    /\ holder \in Actors \cup {Nobody}
    /\ op \in [Actors -> Op]
    /\ touches \in 0 .. MaxTouches /\ slipped \subseteq Contents
    /\ revoked \in [Contents -> SUBSET Jobs]

\* A manifest vouches only for the archive that was registered: while the file of a
\* book has the stamp on record it holds the book's content, unless the user changed
\* it, or the stage it is a link to, between the import's last check of it and its commit.
VouchedIsGenuine ==
    \A c \in Contents :
        book[c].in /\ book[c].vouched => disk[book[c].at] = c \/ c \in slipped

\* The importer writes to the user's library only whole archives, only at the path of
\* their content, and only where no file was: it never replaces or deletes one.  An
\* archive written over between the check of the stage and its publication is the one
\* exception; what was written over earlier, while the import waited, is no exception.
PublicationIsSafe ==
    [][touches' = touches =>
         \A p \in Places : disk'[p] # disk[p] =>
             /\ disk[p] = Empty
             /\ \E a \in Actors : /\ op[a].pc \in {"link", "rename"}
                                  /\ p \in {Managed(op[a].digest), book[op[a].digest].at}
                                  /\ disk'[p] = op[a].digest \/ op[a].spoiled]_vars

\* While an import works, no recovery and no other import settles its row or takes
\* its staged file away.
LiveImportIsSpared ==
    \A a \in Actors :
        LET o == op[a] IN
        o.mode = "import" =>
            /\ o.pc \in {"stage", "fill", "validate"} => job[o.i].state = "copying"
            /\ o.pc \in {"look", "publish", "restamp", "link", "rename", "verify", "stamp", "commit"} =>
                 job[o.i].state = "ready"
            /\ o.pc \in {"validate", "look", "publish"} /\ o.stageOK => stage[o.i] = o.digest
            /\ o.pc \in {"restamp", "link"} => stage[o.i] = o.digest \/ o.spoiled

\* A recovery that runs to its end leaves no unfinished row and no staged file but
\* those of imports that can still be published.
RecoveryLeavesNothing ==
    \A a \in Actors : op[a].pc = "swept" =>
        \A i \in Jobs : /\ job[i].state # "copying"
                        /\ stage[i] # Empty => job[i].state = "ready"

\* The staged archive of a ready import is kept until the import is settled: only
\* one that failed for good drops it.
ReadyKeepsStage ==
    [][\A i \in Jobs : job[i].state = "ready" /\ stage[i] # Empty /\ stage'[i] = Empty =>
         \E a \in Actors : op[a].i = i /\ op[a].pc = "discard" /\ op[a].err = "fatal"]_vars

\* Recoveries meet live imports and dead ones: they spare the first and settle the second.
Recovery == LiveImportIsSpared /\ RecoveryLeavesNothing

\* Archives in their places: whole ones only are published, and a stage that may still be
\* published stays.
Archives == PublicationIsSafe /\ ReadyKeepsStage

\* A removed book comes back only by an import begun after the removal, never by one
\* that had begun before, whether it was at work, waiting for a recovery or given up.
RemovedStaysRemoved ==
    [][\A c \in Contents : ~book[c].in /\ book'[c].in =>
         \E i \in Jobs \ revoked[c] :
             job[i].state = "ready" /\ job[i].content = c /\ job'[i].state = "done"]_vars

\* Imports keep the promise of Catalogue, through errors after the commit, crashes and
\* recoveries: settled once, and imported exactly when the book is registered.
Outcome == [absent |-> "new", copying |-> "open", ready |-> "open",
            done |-> "imported", failed |-> "refused"]
C == INSTANCE Catalogue WITH outcome <- [i \in Jobs |-> Outcome[job[i].state]],
                             books <- {c \in Contents : book[c].in}
KeepsCatalogue == C!Spec
=============================================================================
