------------------------------ MODULE Downloads ------------------------------
(***************************************************************************)
(* The download queue of src/mangacouch/downloads.py: job rows in SQLite,  *)
(* worker threads that run one phase of one job per step, user commands    *)
(* that arrive between any two steps, the remote site, crashes, restarts   *)
(* and the orderly shutdown.                                               *)
(*                                                                         *)
(* Every action is one transaction, one remote exchange or one file        *)
(* operation, so every interleaving the threads can produce is a           *)
(* behaviour.  Abstracted: gallery metadata, candidate lists, archive      *)
(* modes (a quote is the price of the selected mode), byte counts (the     *)
(* archive file is absent, partial, full or left over from another         *)
(* gallery, and a whole one may be the same file as the library's book),   *)
(* ETags, and the clock (a retry time is "held" until it comes).           *)
(* Two archives of different galleries are taken to differ in size.        *)
(***************************************************************************)
EXTENDS Naturals

CONSTANTS
    JobCount,   \* number of gallery URLs ever added
    NHJobs,     \* the jobs whose submitted URL is an nHentai gallery
    Workers,    \* WORKERS threads
    Prices,     \* GP prices the archiver page can show
    Free,       \* the price 0
    NoPrice,    \* no price known (a missing key)
    MaxAttempts, \* MAX_ATTEMPTS
    AutoFree,   \* values the auto_free setting takes
    Commands,   \* the user commands an instance offers
    Errors,     \* the error kinds an instance lets a phase raise
    Faults      \* which of "crash", "stop", "lapse" an instance lets happen

Jobs == 1 .. JobCount
NoJob == 0

(* SourceError codes by what step, _finish and retryable tell apart:       *)
(* transient = source_network, archive_preparing, source_unavailable with  *)
(* a retry time; limited = source_rate_limited; login = verification_      *)
(* required or source_login_required; key = nh_key_required; gp =          *)
(* insufficient_gp; too_large = download_too_large; fatal = all others,    *)
(* download_local_error included.  "none" is InterruptedError.             *)
ErrorKinds == {"transient", "limited", "login", "key", "gp", "too_large", "fatal"}
RefusedBeforeCharge == {"limited", "login", "gp"}
CredentialErrors == {"login", "key"}
Retryable(e) == e \in {"transient", "limited"}

Active == {"inspecting", "submitting", "downloading", "importing"}
Terminal == {"done", "cancelled", "skipped"}
Stopping == {"cancelling", "pausing"}
\* The states _update lets land on a job the user is cancelling or pausing.
Final == {"done", "cancelled", "paused", "needs_attention"}
Waiting == {"queued", "needs_choice", "needs_approval", "paused", "error",
            "verification_required", "needs_attention"}
States == {"absent"} \cup Active \cup Terminal \cup Stopping \cup Waiting

Phases == {"inspect", "submit", "uncertain", "transfer", "import", "recover", "done"}
Runnable == Phases \ {"uncertain", "done"}
Sites == {"eh", "nhentai"}
Entries == {"find_eh", "nh_direct"}
AnyPrice == Prices \cup {NoPrice}

\* The job's archive: linked is a full one the library's book is a hard link to,
\* aliased is such a file left over from what the job stood for before.
Whole == {"full", "linked"}
InLibrary == {"linked", "aliased"}
Files == {"none", "partial", "foreign"} \cup Whole \cup InLibrary

Details == [phase: Phases, uncertain: BOOLEAN, sha: BOOLEAN, selected: BOOLEAN,
            quote: AnyPrice, approved: AnyPrice, entry: Entries]
Row == [state: States, site: Sites, secret: BOOLEAN, details: Details,
        attempts: 0 .. MaxAttempts, held: BOOLEAN, book: BOOLEAN]

ASSUME CountAssumption == JobCount \in Nat /\ NHJobs \subseteq Jobs /\ MaxAttempts \in Nat
ASSUME PriceAssumption == Free \in Prices /\ NoPrice \notin Prices
ASSUME SettingAssumption == AutoFree \subseteq BOOLEAN /\ Errors \subseteq ErrorKinds

VARIABLES
    row,        \* download_job, one row per job
    file,       \* the job's archive in the downloads directory
    proc,       \* the server process: down, starting, up, stopping
    locked,     \* the job's lock is held by a cancel that still has files to remove
    pc, job, snap, heard, err, verdict,  \* the workers and their local variables
    working,    \* Downloads.working
    published,  \* the library holds the book imported for this job
    unlocked,   \* archives the site has charged for and still holds for this gallery
    (* History: what the user agreed to, and what was then asked of the site. *)
    page,       \* the price on the user's page, and whether its revision is current
    consent,    \* the price last agreed to (approve, or auto_free at price 0)
    sent        \* charging requests sent since that agreement

workerVars == <<pc, job, snap, heard, err, verdict, working>>
siteVars == <<unlocked, consent, sent>>
vars == <<row, file, proc, locked, workerVars, published, siteVars, page>>

Uncertain(d) == d.uncertain \/ d.phase = "uncertain"

NewDetails(entry) ==
    [phase |-> "inspect", uncertain |-> FALSE, sha |-> FALSE, selected |-> FALSE,
     quote |-> NoPrice, approved |-> NoPrice, entry |-> entry]
SiteOf(j) == IF j \in NHJobs THEN "nhentai" ELSE "eh"
NewRow(j, state, entry) ==
    [state |-> state, site |-> SiteOf(j), secret |-> FALSE, details |-> NewDetails(entry),
     attempts |-> 0, held |-> FALSE, book |-> FALSE]
NoSnap == [secret |-> FALSE, details |-> NewDetails("find_eh")]
NoQuote == [price |-> NoPrice, reusable |-> FALSE]
NoVerdict == [state |-> "paused", attempts |-> 0, held |-> FALSE]

Init ==
    /\ row = [j \in Jobs |-> NewRow(j, "absent", "find_eh")]
    /\ file = [j \in Jobs |-> "none"]
    /\ proc = "up"
    /\ locked = [j \in Jobs |-> FALSE]
    /\ pc = [w \in Workers |-> "idle"]
    /\ job = [w \in Workers |-> NoJob]
    /\ snap = [w \in Workers |-> NoSnap]
    /\ heard = [w \in Workers |-> NoQuote]
    /\ err = [w \in Workers |-> "none"]
    /\ verdict = [w \in Workers |-> NoVerdict]
    /\ working = {}
    /\ published = [j \in Jobs |-> FALSE]
    /\ unlocked = [j \in Jobs |-> 0]
    /\ page = [j \in Jobs |-> [price |-> NoPrice, fresh |-> FALSE]]
    /\ consent = [j \in Jobs |-> NoPrice]
    /\ sent = [j \in Jobs |-> 0]

-----------------------------------------------------------------------------
(* Writing a row.  Every write but a progress count raises the revision,   *)
(* so an open page of the job is no longer current.                        *)
Write(j, r) ==
    /\ row' = [row EXCEPT ![j] = r]
    /\ page' = [page EXCEPT ![j].fresh = FALSE]

\* Mutation: any state lands.
LandingAnything(now, next) == next
\* _update: while the user is cancelling or pausing only a final state lands.
Landing(now, next) == IF now \in Stopping /\ next \notin Final THEN now ELSE next
Update(j, r) == Write(j, [r EXCEPT !.state = Landing(row[j].state, r.state)])

\* _cancelled
Cancelled(j) == proc = "stopping" \/ row[j].state \in Stopping

-----------------------------------------------------------------------------
(* User commands, offered while the server serves requests.                *)
Offered(c, j) == c \in Commands /\ proc = "up" /\ ~locked[j]

\* The user starts over: the old agreement and the old book no longer count.
StartOver(j) ==
    /\ consent' = [consent EXCEPT ![j] = NoPrice]
    /\ sent' = [sent EXCEPT ![j] = 0]
    /\ published' = [published EXCEPT ![j] = FALSE]
    /\ file' = [file EXCEPT ![j] = IF @ = "none" THEN "none"
                                   ELSE IF @ \in InLibrary THEN "aliased" ELSE "foreign"]

Create(j, entry) ==
    /\ Offered("create", j)
    /\ \A k \in Jobs : k < j => row[k].state # "absent"
    /\ entry = "nh_direct" => j \in NHJobs
    /\ \/ row[j].state \in Terminal \cup {"absent"}
       \/ /\ row[j].state \in {"needs_choice", "needs_approval"}
          /\ row[j].details.entry # entry
    /\ Write(j, NewRow(j, "queued", entry))
    /\ StartOver(j)
    /\ UNCHANGED <<proc, locked, workerVars, unlocked>>

\* The common end of _act: the new state, and the retry budget starts again.
Act(j, state, r) == Write(j, [r EXCEPT !.state = state, !.held = FALSE, !.attempts = 0])

\* search and choose: what was learnt of the previous source is dropped.
Forget(d) == [d EXCEPT !.approved = NoPrice, !.quote = NoPrice, !.sha = FALSE, !.uncertain = FALSE]
Redirected(r, site, d) ==
    [r EXCEPT !.site = site, !.details = Forget(d), !.secret = FALSE, !.book = FALSE]

Search(j) ==
    /\ Offered("search", j)
    /\ row[j].state \in {"needs_choice", "done", "error", "cancelled", "skipped"}
    /\ Act(j, "queued", Redirected(row[j], SiteOf(j),
             [row[j].details EXCEPT !.entry = "find_eh", !.phase = "inspect"]))
    /\ StartOver(j)
    /\ UNCHANGED <<proc, locked, workerVars, unlocked>>

Choose(j, site) ==
    /\ Offered("choose", j)
    /\ row[j].state = "needs_choice"
    /\ site = "nhentai" => j \in NHJobs
    /\ Act(j, "queued", Redirected(row[j], site,
             [row[j].details EXCEPT !.entry = IF site = "nhentai" THEN "nh_direct" ELSE "find_eh",
                                    !.phase = "inspect", !.selected = FALSE]))
    /\ StartOver(j)
    /\ UNCHANGED <<proc, locked, workerVars, unlocked>>

Pause(j) ==
    /\ Offered("pause", j)
    /\ row[j].state \in Active \cup {"queued", "pausing"}
    /\ Act(j, IF row[j].state = "queued" THEN "paused" ELSE "pausing", row[j])
    /\ UNCHANGED <<file, proc, locked, workerVars, published, siteVars>>

Skip(j) ==
    /\ Offered("skip", j)
    /\ row[j].state = "needs_choice"
    /\ Act(j, "skipped", row[j])
    /\ UNCHANGED <<file, proc, locked, workerVars, published, siteVars>>

\* The user's page shows the job: its price and its revision.
Look(j) ==
    /\ Offered("approve", j)
    /\ row[j].state = "needs_approval"
    /\ page' = [page EXCEPT ![j] = [price |-> row[j].details.quote, fresh |-> TRUE]]
    /\ UNCHANGED <<row, file, proc, locked, workerVars, published, siteVars>>

\* Mutation: the page's revision is not compared.
AnyPage(j) == TRUE
\* The revision a page sends with its command is still the row's.
SamePage(j) == page[j].fresh

Approve(j) ==
    /\ Offered("approve", j)
    /\ SamePage(j)
    /\ row[j].state = "needs_approval"
    /\ row[j].details.quote # NoPrice
    /\ Act(j, "queued", [row[j] EXCEPT !.details.approved = row[j].details.quote,
                                       !.details.phase = "submit"])
    /\ consent' = [consent EXCEPT ![j] = page[j].price]
    /\ sent' = [sent EXCEPT ![j] = 0]
    /\ UNCHANGED <<file, proc, locked, workerVars, published, unlocked>>

\* Mutation: an approved job without a link resumes at its submission.
ResumeSubmission(r) ==
    IF ~r.secret THEN (IF r.details.approved # NoPrice THEN "submit" ELSE "inspect")
    ELSE IF r.details.sha THEN "import" ELSE "transfer"
\* Mutation: the link is taken for granted.
ResumeTransfer(r) ==
    IF r.state = "needs_attention" \/ Uncertain(r.details) THEN "recover"
    ELSE IF r.details.sha THEN "import" ELSE "transfer"
ResumePhase(r) ==
    IF r.state = "needs_attention" \/ Uncertain(r.details) THEN "recover"
    ELSE IF ~r.secret THEN "inspect"
    ELSE IF r.details.sha THEN "import" ELSE "transfer"

\* resume and recover are the same command.
Resume(j) ==
    /\ Offered("resume", j)
    /\ row[j].state \in {"paused", "error", "verification_required", "needs_attention",
                         "cancelled", "skipped"}
    /\ Act(j, "queued", [row[j] EXCEPT !.details.phase = ResumePhase(row[j])])
    /\ UNCHANGED <<file, proc, locked, workerVars, published, siteVars>>

\* Mutation: an import is not counted as running.
RunningTransfer(state) == state \in (Active \cup Stopping) \ {"importing"}
\* A worker runs the job and will settle a stop itself.
Running(state) == state \in Active \cup Stopping

\* A cancel of a job no worker runs keeps the job lock until the files are gone.
Cancel(j) ==
    LET owned == Running(row[j].state) IN
    /\ Offered("cancel", j)
    /\ row[j].state \notin {"absent", "done"}
    /\ IF owned THEN Act(j, "cancelling", row[j])
                ELSE Act(j, "cancelled", [row[j] EXCEPT !.details.sha = FALSE])
    /\ locked' = [locked EXCEPT ![j] = ~owned]
    /\ UNCHANGED <<file, proc, workerVars, published, siteVars>>

\* Mutation: the job lock is not released.
CancelFilesHolding(j) ==
    /\ locked[j]
    /\ file' = [file EXCEPT ![j] = "none"]
    /\ UNCHANGED <<row, proc, locked, workerVars, published, siteVars, page>>
CancelFiles(j) ==
    /\ locked[j]
    /\ file' = [file EXCEPT ![j] = "none"]
    /\ locked' = [locked EXCEPT ![j] = FALSE]
    /\ UNCHANGED <<row, proc, workerVars, published, siteVars, page>>

Command(j) ==
    \/ \E entry \in Entries : Create(j, entry)
    \/ \E site \in Sites : Choose(j, site)
    \/ Search(j) \/ Pause(j) \/ Skip(j) \/ Look(j) \/ Approve(j) \/ Resume(j) \/ Cancel(j)

\* The retry time of a job comes.
Due(j) ==
    /\ row[j].held
    /\ row' = [row EXCEPT ![j].held = FALSE]
    /\ UNCHANGED <<file, proc, locked, workerVars, published, siteVars, page>>

-----------------------------------------------------------------------------
(* Workers.  pc names the point a worker has reached; every step below is  *)
(* one transaction, exchange or file operation of _inspect, _submit, ...   *)
Goto(w, p) == pc' = [pc EXCEPT ![w] = p]
Locals == <<job, snap, heard, err, verdict, working>>
Rest == <<proc, locked, published>>

\* An exception leaves the phase for _finish; "none" is InterruptedError.
Raise(w, e) ==
    /\ Goto(w, "finish")
    /\ err' = [err EXCEPT ![w] = e]
    /\ UNCHANGED <<job, snap, heard, verdict, working>>

\* The phase ends: its last write, then the check after the handler.
Leave(w, r) ==
    /\ Update(job[w], r)
    /\ Goto(w, "check")
    /\ UNCHANGED Locals

\* Mutation: a job that still has a worker can be claimed.
ClaimableAgain(j) == row[j].state = "queued" /\ ~row[j].held
Claimable(j) == row[j].state = "queued" /\ ~row[j].held /\ j \notin working

\* step: the oldest due job; a worker past its loop test may claim while stopping.
Claim(w, j) ==
    /\ proc \in {"up", "stopping"} /\ pc[w] = "idle"
    /\ Claimable(j) /\ \A k \in Jobs : k < j => ~Claimable(k)
    /\ working' = working \cup {j}
    /\ job' = [job EXCEPT ![w] = j]
    /\ Goto(w, "begin")
    /\ Write(j, [row[j] EXCEPT !.state = "inspecting"])
    /\ UNCHANGED <<file, Rest, siteVars, snap, heard, err, verdict>>

\* Read the job, look for a stop, enter the handler of its phase.
Begin(w) ==
    /\ pc[w] = "begin"
    /\ \/ Cancelled(job[w]) /\ Raise(w, "none")
       \/ /\ ~Cancelled(job[w])
          /\ row[job[w]].details.phase \in Runnable
          /\ snap' = [snap EXCEPT ![w] = [secret |-> row[job[w]].secret,
                                          details |-> row[job[w]].details]]
          /\ Goto(w, row[job[w]].details.phase)
          /\ UNCHANGED <<job, heard, err, verdict, working>>
       \/ \* no handler of that name: KeyError
          /\ ~Cancelled(job[w])
          /\ row[job[w]].details.phase \notin Runnable
          /\ Raise(w, "fatal")
    /\ UNCHANGED <<row, file, Rest, siteVars, page>>

\* Mutation: a prepared archive is overlooked.
QuotesPriceOnly(j) ==
    IF row[j].site = "nhentai" THEN {[price |-> Free, reusable |-> FALSE]}
    ELSE [price: AnyPrice, reusable: {FALSE}]
\* What the archiver page answers: nHentai archives are free; an archive the
\* site has already prepared is listed with its link.
Quotes(j) ==
    IF row[j].site = "nhentai" THEN {[price |-> Free, reusable |-> FALSE]}
    ELSE IF unlocked[j] > 0 THEN {[price |-> Free, reusable |-> TRUE]}
    ELSE [price: AnyPrice, reusable: {FALSE}]

InspectStart(w) ==
    /\ pc[w] = "inspect"
    /\ Update(job[w], [row[job[w]] EXCEPT !.state = "inspecting"])
    /\ Goto(w, "fetch")
    /\ UNCHANGED <<Locals, file, Rest, siteVars>>

\* The gallery is fetched; an nHentai gallery to be found on EH is searched and
\* the user chooses, whether the search answered or failed for good.
InspectFetched(w) ==
    LET j == job[w] IN
    /\ pc[w] = "fetch"
    /\ IF row[j].site = "nhentai" /\ snap[w].details.entry = "find_eh"
         THEN Leave(w, [row[j] EXCEPT !.state = "needs_choice",
                                      !.details = [snap[w].details EXCEPT !.selected = TRUE]])
         ELSE Goto(w, "quote") /\ UNCHANGED <<Locals, row, page>>
    /\ UNCHANGED <<file, Rest, siteVars>>

\* A link the site already offers is saved at once, before the details.
InspectQuoted(w) ==
    LET j == job[w] IN
    /\ pc[w] = "quote"
    /\ \E q \in Quotes(j) :
         /\ heard' = [heard EXCEPT ![w] = q]
         /\ IF q.reusable THEN Update(j, [row[j] EXCEPT !.secret = TRUE])
                          ELSE UNCHANGED <<row, page>>
    /\ Goto(w, "price")
    /\ UNCHANGED <<job, snap, err, verdict, working, file, Rest, siteVars>>

InspectPriced(w) ==
    LET j == job[w]
        d == [snap[w].details EXCEPT !.selected = TRUE, !.quote = heard[w].price] IN
    /\ pc[w] = "price"
    /\ \E auto \in AutoFree :
         IF auto /\ heard[w].price = Free
           THEN /\ Leave(w, [row[j] EXCEPT !.state = "queued",
                               !.details = [d EXCEPT !.approved = Free, !.phase = "submit"]])
                /\ consent' = [consent EXCEPT ![j] = Free]
                /\ sent' = [sent EXCEPT ![j] = 0]
           ELSE /\ Leave(w, [row[j] EXCEPT !.state = "needs_approval", !.details = d])
                /\ UNCHANGED <<consent, sent>>
    /\ UNCHANGED <<unlocked, file, Rest>>

\* _submit: a job with a link goes on to its transfer; otherwise the price is
\* asked again, and a price that is not the approved one goes back to the user.
SubmitQuoted(w) ==
    LET j == job[w] IN
    /\ pc[w] = "submit"
    /\ IF snap[w].secret
         THEN Leave(w, [row[j] EXCEPT !.state = "queued",
                          !.details = [snap[w].details EXCEPT !.phase = "transfer"]])
         ELSE \E q \in Quotes(j) :
           IF ~q.reusable /\ q.price # snap[w].details.approved
             THEN Leave(w, [row[j] EXCEPT !.state = "needs_approval",
                              !.details = [snap[w].details EXCEPT !.quote = q.price]])
             ELSE /\ heard' = [heard EXCEPT ![w] = q]
                  /\ Goto(w, "commit")
                  /\ UNCHANGED <<job, snap, err, verdict, working, row, page>>
    /\ UNCHANGED <<file, Rest, siteVars>>

SubmitCheck(w) ==
    /\ pc[w] = "commit" /\ ~Cancelled(job[w])
    /\ Goto(w, "mark")
    /\ UNCHANGED <<Locals, row, page, file, Rest, siteVars>>

\* The durable boundary: an EH request is recorded as uncertain before it is sent.
SubmitMark(w) ==
    LET j == job[w]
        d == IF row[j].site = "nhentai" THEN snap[w].details
             ELSE [snap[w].details EXCEPT !.phase = "uncertain", !.uncertain = TRUE] IN
    /\ pc[w] = "mark"
    /\ Update(j, [row[j] EXCEPT !.state = "submitting", !.details = d])
    /\ snap' = [snap EXCEPT ![w].details = d]
    /\ Goto(w, IF heard[w].reusable THEN "link" ELSE "post")
    /\ UNCHANGED <<job, heard, err, verdict, working, file, Rest, siteVars>>

\* What a request does at the site: it is sent n times and charged c times.
Request(j, n, c) ==
    /\ sent' = [sent EXCEPT ![j] = @ + n]
    /\ unlocked' = [unlocked EXCEPT ![j] = @ + c]
    /\ UNCHANGED consent

PostAnswered(w) ==
    LET charged == IF row[job[w]].site = "eh" THEN 1 ELSE 0 IN
    /\ pc[w] = "post"
    /\ Request(job[w], charged, charged)
    /\ Goto(w, "link")
    /\ UNCHANGED <<Locals, row, page, file, Rest>>

\* Refused by the site, or by the cooldown before it was sent: nothing is charged.
PostRefused(w) ==
    /\ pc[w] = "post"
    /\ \E e \in RefusedBeforeCharge \cap Errors : Raise(w, e)
    /\ \E n \in IF row[job[w]].site = "eh" THEN 0 .. 1 ELSE {0} : Request(job[w], n, 0)
    /\ UNCHANGED <<row, page, file, Rest>>

\* No usable answer: not sent, sent and not charged, or sent and charged.
PostLost(w) ==
    /\ pc[w] = "post"
    /\ \/ \E e \in Errors \ (RefusedBeforeCharge \cup {"key", "too_large"}) : Raise(w, e)
       \/ Cancelled(job[w]) /\ Raise(w, "none")
    /\ \E n \in IF row[job[w]].site = "eh" THEN 0 .. 1 ELSE {0} : \E c \in 0 .. n :
         Request(job[w], n, c)
    /\ UNCHANGED <<row, page, file, Rest>>

SubmitLinked(w) ==
    LET j == job[w]
        d == [snap[w].details EXCEPT !.phase = "transfer", !.uncertain = FALSE] IN
    /\ pc[w] = "link"
    /\ Update(j, [row[j] EXCEPT !.secret = TRUE, !.details = d])
    /\ snap' = [snap EXCEPT ![w].details = d]
    /\ Goto(w, "linked")
    /\ UNCHANGED <<job, heard, err, verdict, working, file, Rest, siteVars>>

SubmitRecheck(w) ==
    /\ pc[w] = "linked" /\ ~Cancelled(job[w])
    /\ Goto(w, "requeue")
    /\ UNCHANGED <<Locals, row, page, file, Rest, siteVars>>

SubmitDone(w) ==
    /\ pc[w] = "requeue"
    /\ Leave(w, [row[job[w]] EXCEPT !.state = "queued"])
    /\ UNCHANGED <<file, Rest, siteVars>>

\* _recover never sends a request: it looks for a prepared archive, and only
\* nHentai, whose links are free, asks afresh.
Recover(w) ==
    LET j == job[w]
        d == [snap[w].details EXCEPT !.sha = FALSE] IN
    /\ pc[w] = "recover"
    /\ IF row[j].site = "nhentai"
         THEN Leave(w, [row[j] EXCEPT !.state = "queued", !.secret = FALSE,
                          !.details = [d EXCEPT !.uncertain = FALSE,
                             !.phase = IF d.approved # NoPrice THEN "submit" ELSE "inspect"]])
         ELSE \E q \in Quotes(j) :
           IF q.reusable
             THEN Leave(w, [row[j] EXCEPT !.state = "queued", !.secret = TRUE,
                              !.details = [d EXCEPT !.uncertain = FALSE, !.phase = "transfer"]])
           ELSE IF snap[w].secret /\ ~d.uncertain
             THEN Leave(w, [row[j] EXCEPT !.state = "queued", !.secret = FALSE,
                              !.details = [d EXCEPT !.phase = "inspect"]])
           ELSE Leave(w, [row[j] EXCEPT !.state = "needs_attention"])
    /\ UNCHANGED <<file, Rest, siteVars>>

\* The archive is whole: its hash is recorded and the job goes on to its import.
Fetched(w) ==
    Leave(w, [row[job[w]] EXCEPT !.state = "queued",
                !.details = [snap[w].details EXCEPT !.sha = TRUE, !.phase = "import"]])

TransferExpired(w) ==
    /\ pc[w] = "transfer"
    /\ Leave(w, [row[job[w]] EXCEPT !.state = "needs_attention",
                   !.details = [snap[w].details EXCEPT !.phase = "recover"]])
    /\ UNCHANGED <<file, Rest, siteVars>>

TransferComplete(w) ==
    /\ pc[w] = "transfer" /\ file[job[w]] \in Whole
    /\ Fetched(w)
    /\ UNCHANGED <<file, Rest, siteVars>>

TransferStart(w) ==
    /\ pc[w] = "transfer"
    /\ Update(job[w], [row[job[w]] EXCEPT !.state = "downloading"])
    /\ Goto(w, "stream")
    /\ UNCHANGED <<Locals, file, Rest, siteVars>>

\* The response's sizes are saved, then the file is opened at the agreed offset.
TransferOpen(w) ==
    /\ pc[w] = "stream"
    /\ Update(job[w], [row[job[w]] EXCEPT !.details = snap[w].details])
    /\ file' = [file EXCEPT ![job[w]] = "partial"]
    /\ Goto(w, "writing")
    /\ UNCHANGED <<Locals, Rest, siteVars>>

TransferWritten(w) ==
    /\ pc[w] = "writing"
    /\ file' = [file EXCEPT ![job[w]] = "full"]
    /\ Goto(w, "fetched")
    /\ UNCHANGED <<Locals, row, page, Rest, siteVars>>

TransferDone(w) ==
    /\ pc[w] = "fetched"
    /\ Fetched(w)
    /\ UNCHANGED <<file, Rest, siteVars>>

\* Mutation: a recorded hash is enough.
VerifiedByRecord(w) == snap[w].details.sha
\* The archive still has the recorded hash.
Verified(w) == file[job[w]] \in Whole /\ snap[w].details.sha

ImportVerified(w) ==
    LET j == job[w] IN
    /\ pc[w] = "import"
    /\ IF Verified(w)
         THEN /\ Update(j, [row[j] EXCEPT !.state = "importing"])
              /\ Goto(w, "publish")
              /\ UNCHANGED Locals
         ELSE Leave(w, [row[j] EXCEPT !.state = "paused",
                          !.details = [snap[w].details EXCEPT !.sha = FALSE, !.phase = "transfer"]])
    /\ UNCHANGED <<file, Rest, siteVars>>

\* import_file commits the book, whose file is a link to the archive where the
\* file system allows it; without the inspected metadata the phase fails.
ImportPublished(w) ==
    LET j == job[w] IN
    /\ pc[w] = "publish"
    /\ IF snap[w].details.selected
         THEN /\ published' = [published EXCEPT ![j] = TRUE]
              /\ \E f \in {file[j], "linked"} : file' = [file EXCEPT ![j] = f]
              /\ Goto(w, "apply")
              /\ UNCHANGED Locals
         ELSE Raise(w, "fatal") /\ UNCHANGED <<published, file>>
    /\ UNCHANGED <<row, page, proc, locked, siteVars>>

\* The observation is applied to the book and the job is done, cancelled or not.
ImportDone(w) ==
    LET j == job[w] IN
    /\ pc[w] = "apply"
    /\ Update(j, [row[j] EXCEPT !.state = "done", !.book = TRUE,
                    !.details = [snap[w].details EXCEPT !.phase = "done"]])
    /\ Goto(w, "tidy")
    /\ UNCHANGED <<Locals, file, Rest, siteVars>>

\* Mutation: the cleanup waits for the state it was called for.
CleanupWaiting(j, states) ==
    /\ ~locked[j] /\ row[j].state \in states
    /\ file' = [file EXCEPT ![j] = "none"]
\* _cleanup: under the job's lock, only while the job is still in that state.
Cleanup(j, states) ==
    /\ ~locked[j]
    /\ file' = [file EXCEPT ![j] = IF row[j].state \in states THEN "none" ELSE @]

ImportTidied(w) ==
    /\ pc[w] = "tidy"
    /\ Cleanup(job[w], {"done"})
    /\ Goto(w, "check")
    /\ UNCHANGED <<Locals, row, page, Rest, siteVars>>

-----------------------------------------------------------------------------
(* How a phase fails.                                                      *)
\* The worker is in an exchange with the site (an nHentai quote asks nothing).
AtSite(w) ==
    \/ pc[w] \in {"fetch", "stream", "writing"}
    \/ pc[w] \in {"quote", "recover"} /\ row[job[w]].site = "eh"
    \/ pc[w] = "submit" /\ row[job[w]].site = "eh" /\ ~snap[w].secret
\* It reads or imports the archive file.
AtFile(w) ==
    \/ pc[w] = "transfer" /\ file[job[w]] \in Whole
    \/ pc[w] \in {"import", "publish"}

Interrupt(w) ==
    /\ AtSite(w) \/ AtFile(w) \/ pc[w] \in {"commit", "linked"}
    /\ Cancelled(job[w])
    /\ Raise(w, "none")
    /\ UNCHANGED <<row, page, file, Rest, siteVars>>

Fail(w) ==
    /\ \E e \in Errors :
         /\ \/ AtSite(w) /\ e \in {"transient", "limited", "login", "fatal"}
            \/ /\ pc[w] \in {"quote", "submit"} /\ row[job[w]].site = "nhentai" /\ e = "key"
               /\ pc[w] = "submit" => ~snap[w].secret
            \/ pc[w] \in {"stream", "writing"} /\ e = "too_large"
            \/ (AtFile(w) \/ pc[w] = "apply") /\ e = "fatal"
         /\ Raise(w, e)
    /\ UNCHANGED <<row, page, file, Rest, siteVars>>

\* Mutation: a finished job is settled as interrupted.
StoppedEvenDone(j) == Cancelled(j)
StoppedAfter(j) == row[j].state # "done" /\ Cancelled(j)

\* After the handler: a stop that came meanwhile is settled by _finish.
AfterHandler(w) ==
    LET j == job[w] IN
    /\ pc[w] = "check"
    /\ IF StoppedAfter(j)
         THEN Raise(w, "none") /\ UNCHANGED row
         ELSE /\ row' = [row EXCEPT ![j].attempts = 0]
              /\ Goto(w, "exit")
              /\ UNCHANGED Locals
    /\ UNCHANGED <<page, file, Rest, siteVars>>

\* _finish decides from the row it reads here and writes in a later transaction.
\* Mutation: a refusal counts in any phase.
RefusedAnywhere(w) == err[w] \in RefusedBeforeCharge
Refused(w) == err[w] \in RefusedBeforeCharge /\ row[job[w]].details.phase = "uncertain"

\* Mutation: one retry too many.
SettledOffByOne(state, e, attempts, uncertain) ==
    LET stop(s) == [state |-> s, attempts |-> attempts, held |-> FALSE] IN
    IF uncertain THEN stop("needs_attention")
    ELSE IF state = "cancelling" THEN stop("cancelled")
    ELSE IF e = "none" THEN stop("paused")
    ELSE IF e = "transient" /\ attempts <= MaxAttempts
      THEN [state |-> "queued", attempts |-> attempts + 1, held |-> TRUE]
    ELSE stop("error")
Settled(state, e, attempts, uncertain) ==
    LET stop(s) == [state |-> s, attempts |-> attempts, held |-> FALSE] IN
    IF uncertain THEN stop("needs_attention")
    ELSE IF state = "cancelling" THEN stop("cancelled")
    ELSE IF e = "none" THEN stop("paused")
    ELSE IF e = "limited" THEN [stop("queued") EXCEPT !.held = TRUE]
    ELSE IF Retryable(e) /\ attempts < MaxAttempts
      THEN [state |-> "queued", attempts |-> attempts + 1, held |-> TRUE]
    ELSE IF e \in CredentialErrors THEN stop("verification_required")
    ELSE stop("error")

FinishRead(w) ==
    LET r == row[job[w]] IN
    /\ pc[w] = "finish"
    /\ verdict' = [verdict EXCEPT ![w] =
         Settled(r.state, err[w], r.attempts, Uncertain(r.details) /\ ~Refused(w))]
    /\ Goto(w, IF Refused(w) THEN "clear" ELSE "settle")
    /\ UNCHANGED <<job, snap, heard, err, working, row, page, file, Rest, siteVars>>

\* The site refused the request outright: nothing was charged.
FinishRefused(w) ==
    /\ pc[w] = "clear"
    /\ Update(job[w], [row[job[w]] EXCEPT !.details.phase = "inspect", !.details.uncertain = FALSE])
    /\ Goto(w, "settle")
    /\ UNCHANGED <<Locals, file, Rest, siteVars>>

FinishSettle(w) ==
    LET v == verdict[w] IN
    /\ pc[w] = "settle"
    /\ Update(job[w], [row[job[w]] EXCEPT !.state = v.state, !.attempts = v.attempts, !.held = v.held])
    /\ Goto(w, IF v.state = "cancelled" \/ err[w] = "too_large" THEN "clean" ELSE "exit")
    /\ UNCHANGED <<Locals, file, Rest, siteVars>>

FinishClean(w) ==
    /\ pc[w] = "clean"
    /\ Cleanup(job[w], IF verdict[w].state = "cancelled" THEN {"cancelled"} ELSE {"error", "paused"})
    /\ Goto(w, "exit")
    /\ UNCHANGED <<Locals, row, page, Rest, siteVars>>

\* Mutation: a pause that arrived during _finish is left alone.
LeftPausingNever(w) == FALSE
LeftPausing(w) == row[job[w]].state = "pausing"

\* finally: a pause nobody settled is settled here, then the job is released.
ExitRead(w) ==
    /\ pc[w] = "exit"
    /\ Goto(w, IF LeftPausing(w) THEN "unpause" ELSE "release")
    /\ UNCHANGED <<Locals, row, page, file, Rest, siteVars>>

ExitPause(w) ==
    /\ pc[w] = "unpause"
    /\ Update(job[w], [row[job[w]] EXCEPT !.state = "paused"])
    /\ Goto(w, "release")
    /\ UNCHANGED <<Locals, file, Rest, siteVars>>

\* Mutation: the job stays in the set of working jobs.
NotDiscarded(w) == working
Discarded(w) == working \ {job[w]}

Release(w) ==
    /\ pc[w] = "release"
    /\ working' = Discarded(w)
    /\ Goto(w, "idle")
    /\ job' = [job EXCEPT ![w] = NoJob]
    /\ snap' = [snap EXCEPT ![w] = NoSnap]
    /\ heard' = [heard EXCEPT ![w] = NoQuote]
    /\ err' = [err EXCEPT ![w] = "none"]
    /\ verdict' = [verdict EXCEPT ![w] = NoVerdict]
    /\ UNCHANGED <<row, page, file, Rest, siteVars>>

Inspecting(w) == InspectStart(w) \/ InspectFetched(w) \/ InspectQuoted(w) \/ InspectPriced(w)
Submitting(w) ==
    \/ SubmitQuoted(w) \/ SubmitCheck(w) \/ SubmitMark(w)
    \/ PostAnswered(w) \/ PostRefused(w) \/ PostLost(w)
    \/ SubmitLinked(w) \/ SubmitRecheck(w) \/ SubmitDone(w)
Transferring(w) ==
    \/ TransferExpired(w) \/ TransferComplete(w) \/ TransferStart(w)
    \/ TransferOpen(w) \/ TransferWritten(w) \/ TransferDone(w)
Importing(w) == ImportVerified(w) \/ ImportPublished(w) \/ ImportDone(w) \/ ImportTidied(w)
Ending(w) ==
    \/ AfterHandler(w) \/ FinishRead(w) \/ FinishRefused(w) \/ FinishSettle(w)
    \/ FinishClean(w) \/ ExitRead(w) \/ ExitPause(w) \/ Release(w)

\* One step of a worker that owns a job.
Work(w) ==
    \/ Begin(w) \/ Inspecting(w) \/ Submitting(w) \/ Recover(w) \/ Transferring(w)
    \/ Importing(w) \/ Interrupt(w) \/ Fail(w) \/ Ending(w)

-----------------------------------------------------------------------------
(* The process.                                                            *)
Idle == \A w \in Workers : pc[w] = "idle"

\* Threads, their variables and the locks vanish with the process.
Vanish ==
    /\ proc' = "down"
    /\ locked' = [j \in Jobs |-> FALSE]
    /\ pc' = [w \in Workers |-> "idle"]
    /\ job' = [w \in Workers |-> NoJob]
    /\ snap' = [w \in Workers |-> NoSnap]
    /\ heard' = [w \in Workers |-> NoQuote]
    /\ err' = [w \in Workers |-> "none"]
    /\ verdict' = [w \in Workers |-> NoVerdict]
    /\ working' = {}
    /\ UNCHANGED <<row, file, published, siteVars, page>>

Crash == "crash" \in Faults /\ proc # "down" /\ Vanish

\* close: requests have drained, workers see the flag at their next check.
Stop ==
    /\ "stop" \in Faults /\ proc = "up" /\ \A j \in Jobs : ~locked[j]
    /\ proc' = "stopping"
    /\ UNCHANGED <<row, file, locked, workerVars, published, siteVars, page>>
Closed == proc = "stopping" /\ Idle /\ Vanish

\* Mutation: a restart leaves interrupted imports alone.
RestartedButImports(r) ==
    IF r.state \notin (Active \cup Stopping \cup {"queued"}) \ {"importing"} THEN r
    ELSE IF r.state = "submitting" \/ Uncertain(r.details) THEN [r EXCEPT !.state = "needs_attention"]
    ELSE IF r.state = "cancelling" THEN [r EXCEPT !.state = "cancelled"]
    ELSE [r EXCEPT !.state = "paused"]
\* Mutation: an interrupted import counts as done.
RestartedAsDone(r) ==
    IF r.state = "importing" THEN [r EXCEPT !.state = "done"] ELSE r
\* start: one transaction settles every job the last process left running.
Restarted(r) ==
    IF r.state \notin Active \cup Stopping \cup {"queued"} THEN r
    ELSE IF r.state = "submitting" \/ Uncertain(r.details) THEN [r EXCEPT !.state = "needs_attention"]
    ELSE IF r.state = "cancelling" THEN [r EXCEPT !.state = "cancelled"]
    ELSE [r EXCEPT !.state = "paused"]

Start ==
    /\ proc = "down"
    /\ proc' = "starting"
    /\ row' = [j \in Jobs |-> Restarted(row[j])]
    /\ page' = [j \in Jobs |-> [page[j] EXCEPT !.fresh = @ /\ Restarted(row[j]) = row[j]]]
    /\ UNCHANGED <<file, locked, workerVars, published, siteVars>>

\* Mutation: start does not finish the cleanup of cancelled jobs.
StartedDirty ==
    /\ proc = "starting"
    /\ proc' = "up"
    /\ UNCHANGED <<row, file, locked, workerVars, published, siteVars, page>>
Started ==
    /\ proc = "starting"
    /\ proc' = "up"
    /\ file' = [j \in Jobs |-> IF row[j].state = "cancelled" THEN "none" ELSE file[j]]
    /\ UNCHANGED <<row, locked, workerVars, published, siteVars, page>>

\* The site no longer holds the archive it prepared.
Lapse(j) ==
    /\ "lapse" \in Faults /\ unlocked[j] > 0
    /\ unlocked' = [unlocked EXCEPT ![j] = 0]
    /\ UNCHANGED <<row, file, proc, locked, workerVars, published, consent, sent, page>>

Process == Crash \/ Stop \/ Closed \/ Start \/ Started

Next ==
    \/ \E w \in Workers : Work(w) \/ \E j \in Jobs : Claim(w, j)
    \/ \E j \in Jobs : Command(j) \/ CancelFiles(j) \/ Due(j) \/ Lapse(j)
    \/ Process

Spec == Init /\ [][Next]_vars

(* The threads run: a worker goes on with its job and takes the next one,  *)
(* a request that holds a job lock finishes, retry times come, and start   *)
(* and close run to their end.  A worker that waits for a job lock is not  *)
(* passed over forever by commands that take it again and again (strong    *)
(* fairness: the lock is free between any two of them).  Nothing makes a   *)
(* user act, the process stop or crash.                                    *)
Fairness ==
    /\ \A w \in Workers : WF_vars(Work(w)) /\ WF_vars(\E j \in Jobs : Claim(w, j))
    /\ \A w \in Workers : SF_vars(FinishClean(w)) /\ SF_vars(ImportTidied(w))
    /\ \A j \in Jobs : WF_vars(CancelFiles(j)) /\ WF_vars(Due(j))
    /\ WF_vars(Closed) /\ WF_vars(Start) /\ WF_vars(Started)
FairSpec == Spec /\ Fairness
-----------------------------------------------------------------------------
(* Properties.                                                             *)

PCs == {"idle", "begin", "inspect", "fetch", "quote", "price", "submit", "commit", "mark",
        "post", "link", "linked", "requeue", "recover", "transfer", "stream", "writing",
        "fetched", "import", "publish", "apply", "tidy", "check", "finish", "clear",
        "settle", "clean", "exit", "unpause", "release"}
\* The points at which a handler still means to write the details it read.
Handling == {"inspect", "fetch", "quote", "price", "submit", "commit", "mark", "post", "link",
             "linked", "requeue", "recover", "transfer", "stream", "writing", "fetched",
             "import", "publish", "apply"}

\* The types of the rows, the files, the process and the workers' variables.
TypeOK ==
    /\ row \in [Jobs -> Row]
    /\ file \in [Jobs -> Files]
    /\ proc \in {"down", "starting", "up", "stopping"}
    /\ locked \in [Jobs -> BOOLEAN]
    /\ pc \in [Workers -> PCs]
    /\ job \in [Workers -> Jobs \cup {NoJob}]
    /\ \A w \in Workers : pc[w] # "idle" => job[w] \in Jobs
    /\ snap \in [Workers -> [secret: BOOLEAN, details: Details]]
    /\ heard \in [Workers -> [price: AnyPrice, reusable: BOOLEAN]]
    /\ err \in [Workers -> ErrorKinds \cup {"none"}]
    /\ verdict \in [Workers -> [state: States, attempts: 0 .. MaxAttempts, held: BOOLEAN]]
    /\ working \subseteq Jobs
    /\ published \in [Jobs -> BOOLEAN]
    /\ unlocked \in [Jobs -> Nat]
    /\ page \in [Jobs -> [price: AnyPrice, fresh: BOOLEAN]]
    /\ consent \in [Jobs -> AnyPrice]
    /\ sent \in [Jobs -> Nat]

Owned(j) == \E w \in Workers : pc[w] # "idle" /\ job[w] = j

\* A job has at most one worker, and Downloads.working names exactly the jobs
\* that have one, whatever claims, releases, crashes and restarts interleave.
SingleOwner ==
    /\ \A v, w \in Workers : pc[v] # "idle" /\ pc[w] # "idle" /\ job[v] = job[w] => v = w
    /\ working = {j \in Jobs : Owned(j)}

\* While the server runs, a row in a working state, or being paused, has a worker
\* that will settle it: no state is left behind that only a restart can clear.
ActiveIsOwned ==
    proc \in {"up", "stopping"} =>
        \A j \in Jobs : row[j].state \in Active \cup {"pausing"} => Owned(j)

\* What a handler writes back is what the row still holds: the details it read
\* at the start are not stale when it saves them, whatever the user did since.
NoLostUpdate ==
    \A w \in Workers : pc[w] \in Handling => row[job[w]].details = snap[w].details

\* A job that waits for a worker is in a phase that has a handler, and has what
\* that handler reads: a link, a recorded hash, an approved price.  A job whose
\* payment is uncertain waits only for recovery.
Runnability ==
    \A j \in Jobs : row[j].state = "queued" =>
        LET r == row[j] d == row[j].details IN
        /\ d.phase \in Runnable
        /\ d.phase = "submit" => d.approved # NoPrice
        /\ d.phase = "transfer" => r.secret
        /\ d.phase = "import" => r.secret /\ d.sha
        /\ d.uncertain => d.phase = "recover"

\* One agreement pays at most once: after an approval (or an automatic approval
\* at price 0) at most one charging request is sent, and none without one,
\* through lost answers, retries, crashes, restarts, resumes and recoveries.
OneRequestPerConsent ==
    \A j \in Jobs : sent[j] <= IF consent[j] = NoPrice THEN 0 ELSE 1

\* The site is asked for a paid archive only at the price the user saw and agreed to.
RequestAtAgreedPrice ==
    \A w \in Workers :
        pc[w] = "post" /\ row[job[w]].site = "eh" => heard[w].price = consent[job[w]]

\* The user does not pay twice for an archive the site still holds, not even after
\* cancelling an uncertain request and adding the gallery again.
NeverPaidTwice == \A j \in Jobs : unlocked[j] <= 1

\* An uncertain payment is never forgotten by the queue: it ends when the site
\* answers or refuses the request, when recovery finds the archive, or when the
\* user starts the job over.
DoubtEndsByEvidence ==
    [][\A j \in Jobs : Uncertain(row[j].details) /\ ~Uncertain(row'[j].details) =>
         \/ consent'[j] = NoPrice
         \/ \E w \in Workers : /\ job[w] = j
                               /\ \/ pc[w] = "link"
                                  \/ pc[w] = "clear" /\ snap[w].details.phase = "uncertain"
                                  \/ pc[w] = "recover" /\ row'[j].secret]_vars

\* The archive imported is the whole archive of the gallery the job now stands
\* for: it is there, with the recorded hash, from the check to the commit.
ImportsOwnArchive ==
    \A w \in Workers : pc[w] \in {"publish", "apply"} =>
        file[job[w]] \in Whole /\ row[job[w]].details.sha

\* A cancelled job leaves no archive behind, once the request or worker that
\* cancelled it has released the job.
CancelledLeavesNothing ==
    proc \in {"up", "stopping"} =>
        \A j \in Jobs : row[j].state = "cancelled" /\ ~locked[j] /\ ~Owned(j) => file[j] = "none"

\* Done means in the library, and only a user who asks for a new search or adds
\* the gallery again takes a finished job out of done.
DoneIsImported == \A j \in Jobs : row[j].state = "done" => row[j].book /\ published[j]
DoneIsFinal ==
    [][\A j \in Jobs : row[j].state = "done" /\ row'[j].state # "done" =>
         row'[j].state = "queued" /\ row'[j].details.phase = "inspect" /\ ~row'[j].book]_vars

\* A job the user is stopping never goes back to work.
StopIsHonoured ==
    [][\A j \in Jobs : row[j].state \in Stopping =>
         row'[j].state \in Stopping \cup Final]_vars

\* A pause always takes effect, an owned job is always let go, a due job is
\* always taken unless someone else moves it, and a shutdown always completes.
PauseSettles == \A j \in Jobs : row[j].state = "pausing" ~> row[j].state # "pausing"
WorkersLetGo == \A w \in Workers : pc[w] # "idle" ~> pc[w] = "idle"
QueuedIsServed ==
    \A j \in Jobs : row[j].state = "queued" /\ proc = "up" ~> row[j].state # "queued" \/ proc # "up"
StopCompletes == proc = "stopping" ~> proc = "down"

\* The oldest due job always goes first, and yet a younger one is starved only by
\* a user who adds a finished older job again and again: never by its retries.
QueuedIsServedInTurn ==
    \/ QueuedIsServed
    \/ \E k \in Jobs : []<>(row[k].state \in Terminal) /\ []<>(row[k].state \notin Terminal)

\* The queue keeps the promise of Purchase; the doubt is the row's.
P == INSTANCE Purchase WITH doubt <- [j \in Jobs |-> Uncertain(row[j].details)]
KeepsPurchase == P!Spec

-----------------------------------------------------------------------------
(* What the runs check, a group of the above at a time.                    *)

\* Ownership: one worker runs a job at a time, and what it saves is never stale.
Ownership == SingleOwner /\ NoLostUpdate

\* Every row a worker may meet can be served: an active one has its worker, and a queued
\* one has what the handler of its phase needs.
Serviceable == ActiveIsOwned /\ Runnability

\* Payment: one charging request per agreement, at the agreed price.
PaidAsAgreed == OneRequestPerConsent /\ RequestAtAgreedPrice

\* Archives: none is paid for while the site keeps it, imported for another job's, left
\* behind by a cancelled job, or missing from the library when its job is done.
Archives ==
    NeverPaidTwice /\ ImportsOwnArchive /\ CancelledLeavesNothing /\ DoneIsImported

\* A worker's last step respects what happened meanwhile: done stays done, a job told to
\* stop stops, and a doubt about the paid request ends by evidence only.
EndsAsTold == DoneIsFinal /\ StopIsHonoured /\ DoubtEndsByEvidence

\* Pauses settle, workers let go of the jobs they have been told to leave, and so does a
\* process that is told to stop.
PausesEnd == PauseSettles /\ WorkersLetGo /\ StopCompletes

-----------------------------------------------------------------------------
(* What the documentation says of the queue and the code does not do.      *)

\* downloads.py:13 "cancelling/pausing  a worker owns the job".
CancellingIsOwned ==
    proc \in {"up", "stopping"} =>
        \A j \in Jobs : row[j].state \in Stopping => Owned(j)

\* downloads.py:14 "done/cancelled/skipped  terminal": a worker moves no job out of them.
TerminalIsFinal ==
    [][\A j \in Jobs : row[j].state \in Terminal /\ row'[j].state # row[j].state =>
         row'[j].state = "queued"]_vars

\* downloads.py:19 nHentai "submissions never enter needs_attention".
NHNeverInAttention ==
    [][\A j \in Jobs : row[j].site = "nhentai" /\ row[j].state = "submitting" =>
         row'[j].state # "needs_attention"]_vars

\* downloads.py:1 "inspect -> (choose/approve) -> submit -> transfer -> import":
\* what is imported has been inspected.
ImportIsInspected ==
    \A w \in Workers : pc[w] = "publish" => snap[w].details.selected

\* downloads.py:753 "A committed import wins over a cancellation".
CommittedImportWins == \A j \in Jobs : row[j].state = "cancelled" => ~published[j]

\* ingest.py:296 "the caller owns the source and will delete it afterwards": an
\* archive that became the library's own file is removed, never written again.
LinkedArchiveIsOnlyRemoved ==
    [][\A j \in Jobs : file[j] \in InLibrary => file'[j] \in InLibrary \cup {"none"}]_vars
=============================================================================
