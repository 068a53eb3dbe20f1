---------------------------- MODULE DownloadsProofs ----------------------------
(***************************************************************************)
(* Theorems about Downloads, for every number of jobs and workers, every   *)
(* set of prices and every choice of commands, errors and faults: types    *)
(* and ownership, what is paid and what was agreed to; rows can always be  *)
(* served, archives are the right ones and are left nowhere, a worker's    *)
(* last writes respect what happened meanwhile, Downloads implements       *)
(* Purchase, and a loss of power (PowerLoss) breaks none of what a restart *)
(* relies on.                                                              *)
(*                                                                         *)
(* The inductive invariant is PayInv and QueueInv, the one about           *)
(* agreements and payments, the other about rows, phases and files;        *)
(* neither is inductive without the other.                                 *)
(***************************************************************************)
EXTENDS PowerLoss, TLAPS

-----------------------------------------------------------------------------
(* Types of what the actions write.                                        *)

LEMMA NewRowType ==
    ASSUME NEW j \in Jobs, NEW s \in States, NEW entry \in Entries
    PROVE  NewRow(j, s, entry) \in Row /\ NewDetails(entry) \in Details
  <1>1. NewDetails(entry) \in Details
    BY DEF NewDetails, Details, Phases, AnyPrice
  <1>2. SiteOf(j) \in Sites
    BY DEF SiteOf, Sites
  <1>3. 0 \in 0 .. MaxAttempts
    BY CountAssumption
  <1> QED
    BY <1>1, <1>2, <1>3 DEF NewRow, Row

LEMMA WriteType ==
    ASSUME TypeOK, NEW j \in Jobs, NEW r \in Row, Write(j, r)
    PROVE  /\ row' \in [Jobs -> Row]
           /\ page' \in [Jobs -> [price: AnyPrice, fresh: BOOLEAN]]
  BY DEF TypeOK, Write

LEMMA LandingType ==
    ASSUME NEW s \in States, NEW t \in States
    PROVE  Landing(s, t) \in States
  BY DEF Landing

LEMMA UpdateType ==
    ASSUME TypeOK, NEW j \in Jobs, NEW r \in Row, Update(j, r)
    PROVE  /\ row' \in [Jobs -> Row]
           /\ page' \in [Jobs -> [price: AnyPrice, fresh: BOOLEAN]]
  <1>1. row[j].state \in States /\ r.state \in States
    BY DEF TypeOK, Row
  <1>2. [r EXCEPT !.state = Landing(row[j].state, r.state)] \in Row
    BY <1>1, LandingType DEF Row
  <1> QED
    BY <1>2, WriteType DEF Update

LEMMA ActType ==
    ASSUME TypeOK, NEW j \in Jobs, NEW r \in Row, NEW s \in States, Act(j, s, r)
    PROVE  /\ row' \in [Jobs -> Row]
           /\ page' \in [Jobs -> [price: AnyPrice, fresh: BOOLEAN]]
  <1>1. 0 \in 0 .. MaxAttempts
    BY CountAssumption
  <1>2. [r EXCEPT !.state = s, !.held = FALSE, !.attempts = 0] \in Row
    BY <1>1 DEF Row
  <1> QED
    BY <1>2, WriteType DEF Act

LEMMA StateNames ==
    /\ Active \subseteq States /\ Terminal \subseteq States /\ Stopping \subseteq States
    /\ {"queued", "needs_choice", "needs_approval", "paused", "error",
        "verification_required", "needs_attention", "absent"} \subseteq States
    /\ {"cancelling", "pausing", "cancelled", "skipped", "done", "inspecting", "submitting",
        "downloading", "importing"} \subseteq States
  BY DEF States, Active, Terminal, Stopping, Waiting

\* The values of a worker without a job.
LEMMA EmptyType ==
    /\ NoSnap \in [secret: BOOLEAN, details: Details]
    /\ NoQuote \in [price: AnyPrice, reusable: BOOLEAN]
    /\ NoVerdict \in [state: States, attempts: 0 .. MaxAttempts, held: BOOLEAN]
  <1>1. NewDetails("find_eh") \in Details
    BY DEF NewDetails, Details, Phases, AnyPrice, Entries
  <1>2. NoSnap \in [secret: BOOLEAN, details: Details]
    BY <1>1 DEF NoSnap
  <1>3. NoQuote \in [price: AnyPrice, reusable: BOOLEAN]
    BY DEF NoQuote, AnyPrice
  <1>4. NoVerdict \in [state: States, attempts: 0 .. MaxAttempts, held: BOOLEAN]
    BY StateNames, CountAssumption DEF NoVerdict
  <1> QED
    BY <1>2, <1>3, <1>4

-----------------------------------------------------------------------------
(* Type correctness: user commands.                                        *)

LEMMA StartOverType ==
    ASSUME TypeOK, NEW j \in Jobs, StartOver(j)
    PROVE  /\ consent' \in [Jobs -> AnyPrice]
           /\ sent' \in [Jobs -> Nat]
           /\ published' \in [Jobs -> BOOLEAN]
           /\ file' \in [Jobs -> Files]
  BY DEF TypeOK, StartOver, AnyPrice, Files, Whole, InLibrary

LEMMA RedirectedType ==
    ASSUME NEW r \in Row, NEW site \in Sites, NEW d \in Details
    PROVE  Redirected(r, site, d) \in Row
  <1>1. Forget(d) \in Details
    BY DEF Forget, Details, AnyPrice
  <1> QED
    BY <1>1 DEF Redirected, Row

LEMMA CreateType ==
    ASSUME TypeOK, NEW j \in Jobs, NEW entry \in Entries, Create(j, entry)
    PROVE  TypeOK'
  <1>1. NewRow(j, "queued", entry) \in Row
    BY NewRowType, StateNames
  <1>2. /\ row' \in [Jobs -> Row]
        /\ page' \in [Jobs -> [price: AnyPrice, fresh: BOOLEAN]]
    BY <1>1, WriteType DEF Create
  <1> QED
    BY <1>2, StartOverType DEF Create, TypeOK, workerVars

LEMMA SearchType ==
    ASSUME TypeOK, NEW j \in Jobs, Search(j)
    PROVE  TypeOK'
  <1> DEFINE d == [row[j].details EXCEPT !.entry = "find_eh", !.phase = "inspect"]
  <1>1. row[j] \in Row /\ row[j].details \in Details
    BY DEF TypeOK, Row
  <1>2. d \in Details
    BY <1>1 DEF Details, Entries, Phases
  <1>3. SiteOf(j) \in Sites
    BY DEF SiteOf, Sites
  <1>4. Redirected(row[j], SiteOf(j), d) \in Row
    BY <1>1, <1>2, <1>3, RedirectedType
  <1>5. /\ row' \in [Jobs -> Row]
        /\ page' \in [Jobs -> [price: AnyPrice, fresh: BOOLEAN]]
    BY <1>4, ActType, StateNames DEF Search
  <1> QED
    BY <1>5, StartOverType DEF Search, TypeOK, workerVars

LEMMA ChooseType ==
    ASSUME TypeOK, NEW j \in Jobs, NEW site \in Sites, Choose(j, site)
    PROVE  TypeOK'
  <1> DEFINE d == [row[j].details EXCEPT
                     !.entry = IF site = "nhentai" THEN "nh_direct" ELSE "find_eh",
                     !.phase = "inspect", !.selected = FALSE]
  <1>1. row[j] \in Row /\ row[j].details \in Details
    BY DEF TypeOK, Row
  <1>2. d \in Details
    BY <1>1 DEF Details, Entries, Phases
  <1>3. Redirected(row[j], site, d) \in Row
    BY <1>1, <1>2, RedirectedType
  <1>4. /\ row' \in [Jobs -> Row]
        /\ page' \in [Jobs -> [price: AnyPrice, fresh: BOOLEAN]]
    BY <1>3, ActType, StateNames DEF Choose
  <1> QED
    BY <1>4, StartOverType DEF Choose, TypeOK, workerVars

LEMMA PauseSkipType ==
    ASSUME TypeOK, NEW j \in Jobs, Pause(j) \/ Skip(j)
    PROVE  TypeOK'
  <1>1. row[j] \in Row
    BY DEF TypeOK
  <1>2. PICK s \in States : Act(j, s, row[j])
    BY StateNames DEF Pause, Skip
  <1>3. /\ row' \in [Jobs -> Row]
        /\ page' \in [Jobs -> [price: AnyPrice, fresh: BOOLEAN]]
    BY <1>1, <1>2, ActType
  <1> QED
    BY <1>3 DEF Pause, Skip, TypeOK, workerVars, siteVars

LEMMA ApproveType ==
    ASSUME TypeOK, NEW j \in Jobs, Look(j) \/ Approve(j)
    PROVE  TypeOK'
  <1>1. row[j] \in Row /\ row[j].details \in Details
    BY DEF TypeOK, Row
  <1>2. CASE Look(j)
    BY <1>1, <1>2 DEF Look, TypeOK, workerVars, siteVars, Details
  <1>3. CASE Approve(j)
    <2> DEFINE r == [row[j] EXCEPT !.details.approved = row[j].details.quote,
                                   !.details.phase = "submit"]
    <2>1. r \in Row
      BY <1>1 DEF Row, Details, Phases
    <2>2. /\ row' \in [Jobs -> Row]
          /\ page' \in [Jobs -> [price: AnyPrice, fresh: BOOLEAN]]
      BY <1>3, <2>1, ActType, StateNames DEF Approve
    <2>3. consent' \in [Jobs -> AnyPrice] /\ sent' \in [Jobs -> Nat]
      BY <1>3 DEF Approve, TypeOK
    <2> QED
      BY <1>3, <2>2, <2>3 DEF Approve, TypeOK, workerVars
  <1> QED
    BY <1>2, <1>3

LEMMA ResumeType ==
    ASSUME TypeOK, NEW j \in Jobs, Resume(j)
    PROVE  TypeOK'
  <1>1. row[j] \in Row /\ row[j].details \in Details
    BY DEF TypeOK, Row
  <1>2. ResumePhase(row[j]) \in Phases
    BY DEF ResumePhase, Phases
  <1>3. [row[j] EXCEPT !.details.phase = ResumePhase(row[j])] \in Row
    BY <1>1, <1>2 DEF Row, Details
  <1>4. /\ row' \in [Jobs -> Row]
        /\ page' \in [Jobs -> [price: AnyPrice, fresh: BOOLEAN]]
    BY <1>3, ActType, StateNames DEF Resume
  <1> QED
    BY <1>4 DEF Resume, TypeOK, workerVars, siteVars

LEMMA CancelType ==
    ASSUME TypeOK, NEW j \in Jobs, Cancel(j) \/ CancelFiles(j)
    PROVE  TypeOK'
  <1>1. row[j] \in Row /\ row[j].details \in Details
    BY DEF TypeOK, Row
  <1>2. CASE Cancel(j)
    <2>1. [row[j] EXCEPT !.details.sha = FALSE] \in Row
      BY <1>1 DEF Row, Details
    <2>2. /\ row' \in [Jobs -> Row]
          /\ page' \in [Jobs -> [price: AnyPrice, fresh: BOOLEAN]]
      BY <1>1, <1>2, <2>1, ActType, StateNames DEF Cancel
    <2>3. locked' \in [Jobs -> BOOLEAN]
      BY <1>2 DEF Cancel, TypeOK, Running
    <2> QED
      BY <1>2, <2>2, <2>3 DEF Cancel, TypeOK, workerVars, siteVars
  <1>3. CASE CancelFiles(j)
    BY <1>3 DEF CancelFiles, TypeOK, workerVars, siteVars, Files
  <1> QED
    BY <1>2, <1>3

-----------------------------------------------------------------------------
(* Type correctness: workers.                                              *)

LEMMA OwnerType ==
    ASSUME TypeOK, NEW w \in Workers, pc[w] # "idle"
    PROVE  /\ job[w] \in Jobs
           /\ row[job[w]] \in Row /\ row[job[w]].details \in Details
           /\ snap[w].details \in Details
           /\ heard[w].price \in AnyPrice
  BY DEF TypeOK, Row

LEMMA LeaveType ==
    ASSUME TypeOK, NEW w \in Workers, pc[w] # "idle", NEW r \in Row, Leave(w, r),
           UNCHANGED <<file, Rest, unlocked>>,
           consent' \in [Jobs -> AnyPrice], sent' \in [Jobs -> Nat]
    PROVE  TypeOK'
  <1>1. /\ row' \in [Jobs -> Row]
        /\ page' \in [Jobs -> [price: AnyPrice, fresh: BOOLEAN]]
    BY OwnerType, UpdateType DEF Leave
  <1>2. pc' \in [Workers -> PCs]
    BY DEF TypeOK, Leave, Goto, PCs
  <1> QED
    BY <1>1, <1>2 DEF Leave, Goto, TypeOK, Locals, Rest

LEMMA SettledLeaveType ==
    ASSUME TypeOK, NEW w \in Workers, pc[w] # "idle", NEW r \in Row, Leave(w, r),
           UNCHANGED <<file, Rest, siteVars>>
    PROVE  TypeOK'
  <1>1. consent' \in [Jobs -> AnyPrice] /\ sent' \in [Jobs -> Nat]
    BY DEF TypeOK, siteVars
  <1> QED
    BY <1>1, LeaveType DEF siteVars

LEMMA RaiseType ==
    ASSUME TypeOK, NEW w \in Workers, pc[w] # "idle", NEW e \in ErrorKinds \cup {"none"},
           Raise(w, e), UNCHANGED <<file, Rest, page>>, row' \in [Jobs -> Row],
           unlocked' \in [Jobs -> Nat], consent' \in [Jobs -> AnyPrice], sent' \in [Jobs -> Nat]
    PROVE  TypeOK'
  BY DEF Raise, Goto, TypeOK, Rest, PCs

\* A worker that writes its row and moves on.
LEMMA StepType ==
    ASSUME TypeOK, NEW w \in Workers, pc[w] # "idle", NEW p \in PCs, Goto(w, p),
           row' \in [Jobs -> Row], page' \in [Jobs -> [price: AnyPrice, fresh: BOOLEAN]],
           UNCHANGED <<job, err, working, Rest, siteVars>>,
           snap' \in [Workers -> [secret: BOOLEAN, details: Details]],
           heard' \in [Workers -> [price: AnyPrice, reusable: BOOLEAN]],
           verdict' \in [Workers -> [state: States, attempts: 0 .. MaxAttempts, held: BOOLEAN]],
           file' \in [Jobs -> Files]
    PROVE  TypeOK'
  BY DEF Goto, TypeOK, Rest, siteVars

LEMMA QuotesType ==
    ASSUME NEW j \in Jobs, NEW q \in Quotes(j)
    PROVE  q \in [price: AnyPrice, reusable: BOOLEAN]
  <1>1. Free \in AnyPrice
    BY PriceAssumption DEF AnyPrice
  <1>2. \/ q \in {[price |-> Free, reusable |-> FALSE]}
        \/ q \in {[price |-> Free, reusable |-> TRUE]}
        \/ q \in [price: AnyPrice, reusable: {FALSE}]
    BY DEF Quotes
  <1>3. CASE q \in {[price |-> Free, reusable |-> FALSE]}
    <2>1. [price |-> Free, reusable |-> FALSE] \in [price: AnyPrice, reusable: BOOLEAN]
      BY <1>1
    <2> QED
      BY <2>1, <1>3
  <1>4. CASE q \in {[price |-> Free, reusable |-> TRUE]}
    <2>1. [price |-> Free, reusable |-> TRUE] \in [price: AnyPrice, reusable: BOOLEAN]
      BY <1>1
    <2> QED
      BY <2>1, <1>4
  <1>5. CASE q \in [price: AnyPrice, reusable: {FALSE}]
    BY <1>5
  <1> QED
    BY <1>2, <1>3, <1>4, <1>5

LEMMA ClaimType ==
    ASSUME TypeOK, NEW w \in Workers, NEW j \in Jobs, Claim(w, j)
    PROVE  TypeOK'
  <1>1. [row[j] EXCEPT !.state = "inspecting"] \in Row
    <2>1. row[j] \in Row
      BY DEF TypeOK
    <2> QED
      BY <2>1, StateNames DEF Row
  <1>2. /\ row' \in [Jobs -> Row]
        /\ page' \in [Jobs -> [price: AnyPrice, fresh: BOOLEAN]]
    BY <1>1, WriteType DEF Claim
  <1> QED
    BY <1>2 DEF Claim, Goto, TypeOK, PCs, Rest, siteVars

LEMMA BeginType ==
    ASSUME TypeOK, NEW w \in Workers, Begin(w)
    PROVE  TypeOK'
  <1>1. job[w] \in Jobs /\ row[job[w]] \in Row /\ row[job[w]].details \in Details /\ pc[w] # "idle"
    BY OwnerType DEF Begin
  <1>2. CASE Raise(w, "none") \/ Raise(w, "fatal")
    BY <1>1, <1>2, RaiseType DEF Begin, ErrorKinds, TypeOK, siteVars
  <1>3. CASE ~(Raise(w, "none") \/ Raise(w, "fatal"))
    <2>1. row[job[w]].details.phase \in PCs
      BY <1>3 DEF Begin, Runnable, Phases, PCs
    <2>2. snap' \in [Workers -> [secret: BOOLEAN, details: Details]]
      <3>1. row[job[w]].secret \in BOOLEAN
        BY <1>1 DEF Row
      <3>2. snap' = [snap EXCEPT ![w] = [secret |-> row[job[w]].secret,
                                         details |-> row[job[w]].details]]
        BY <1>3 DEF Begin
      <3> QED
        BY <1>1, <3>1, <3>2 DEF TypeOK
    <2> QED
      BY <1>1, <1>3, <2>1, <2>2, StepType DEF Begin, TypeOK
  <1> QED
    BY <1>2, <1>3

LEMMA InspectingType ==
    ASSUME TypeOK, NEW w \in Workers, Inspecting(w)
    PROVE  TypeOK'
  <1> DEFINE j == job[w]
  <1>1. /\ j \in Jobs /\ row[j] \in Row /\ row[j].details \in Details
        /\ snap[w].details \in Details /\ heard[w].price \in AnyPrice /\ pc[w] # "idle"
    BY OwnerType DEF Inspecting, InspectStart, InspectFetched, InspectQuoted, InspectPriced
  <1>2. CASE InspectStart(w)
    <2>1. [row[j] EXCEPT !.state = "inspecting"] \in Row
      BY <1>1, StateNames DEF Row
    <2>2. /\ row' \in [Jobs -> Row]
          /\ page' \in [Jobs -> [price: AnyPrice, fresh: BOOLEAN]]
      BY <1>1, <1>2, <2>1, UpdateType DEF InspectStart
    <2>3. "fetch" \in PCs
      BY DEF PCs
    <2> QED
      BY <1>1, <1>2, <2>2, <2>3, StepType DEF InspectStart, TypeOK, Locals
  <1>3. CASE InspectFetched(w)
    <2> DEFINE r == [row[j] EXCEPT !.state = "needs_choice",
                                   !.details = [snap[w].details EXCEPT !.selected = TRUE]]
    <2>1. r \in Row
      BY <1>1, StateNames DEF Row, Details
    <2>2. CASE Leave(w, r)
      BY <1>1, <1>3, <2>1, <2>2, SettledLeaveType DEF InspectFetched
    <2>3. CASE Goto(w, "quote") /\ UNCHANGED <<Locals, row, page>>
      <3>1. "quote" \in PCs
        BY DEF PCs
      <3> QED
        BY <1>1, <1>3, <2>3, <3>1, StepType DEF InspectFetched, TypeOK, Locals
    <2> QED
      BY <1>3, <2>2, <2>3 DEF InspectFetched
  <1>4. CASE InspectQuoted(w)
    <2>1. PICK q \in Quotes(j) :
            /\ heard' = [heard EXCEPT ![w] = q]
            /\ IF q.reusable THEN Update(j, [row[j] EXCEPT !.secret = TRUE])
                             ELSE UNCHANGED <<row, page>>
      BY <1>4 DEF InspectQuoted
    <2>2. [row[j] EXCEPT !.secret = TRUE] \in Row
      BY <1>1 DEF Row
    <2>3. /\ row' \in [Jobs -> Row]
          /\ page' \in [Jobs -> [price: AnyPrice, fresh: BOOLEAN]]
      BY <1>1, <2>1, <2>2, UpdateType DEF TypeOK
    <2>4. heard' \in [Workers -> [price: AnyPrice, reusable: BOOLEAN]]
      BY <1>1, <2>1, QuotesType DEF TypeOK
    <2>5. "price" \in PCs
      BY DEF PCs
    <2> QED
      BY <1>1, <1>4, <2>3, <2>4, <2>5, StepType DEF InspectQuoted, TypeOK
  <1>5. CASE InspectPriced(w)
    <2> DEFINE d == [snap[w].details EXCEPT !.selected = TRUE, !.quote = heard[w].price]
               agreed == [row[j] EXCEPT !.state = "queued",
                            !.details = [d EXCEPT !.approved = Free, !.phase = "submit"]]
               asked == [row[j] EXCEPT !.state = "needs_approval", !.details = d]
    <2>1. d \in Details /\ [d EXCEPT !.approved = Free, !.phase = "submit"] \in Details
      BY <1>1, PriceAssumption DEF Details, AnyPrice, Phases
    <2>2. agreed \in Row /\ asked \in Row
      BY <1>1, <2>1, StateNames DEF Row
    <2>3. Leave(w, agreed) \/ Leave(w, asked)
      BY <1>5 DEF InspectPriced
    <2>4. consent' \in [Jobs -> AnyPrice] /\ sent' \in [Jobs -> Nat]
      <3>1. \/ /\ consent' = [consent EXCEPT ![j] = Free]
               /\ sent' = [sent EXCEPT ![j] = 0]
            \/ UNCHANGED <<consent, sent>>
        BY <1>5 DEF InspectPriced
      <3>2. Free \in AnyPrice
        BY PriceAssumption DEF AnyPrice
      <3>3. consent \in [Jobs -> AnyPrice] /\ sent \in [Jobs -> Nat]
        BY DEF TypeOK
      <3> QED
        BY <3>1, <3>2, <3>3
    <2>5. UNCHANGED <<file, Rest, unlocked>>
      BY <1>5 DEF InspectPriced
    <2> HIDE DEF agreed, asked
    <2> QED
      BY <1>1, <2>2, <2>3, <2>4, <2>5, LeaveType
  <1> QED
    BY <1>2, <1>3, <1>4, <1>5 DEF Inspecting

LEMMA SubmitQuotedType ==
    ASSUME TypeOK, NEW w \in Workers, SubmitQuoted(w)
    PROVE  TypeOK'
  <1> DEFINE j == job[w]
             transfer == [row[j] EXCEPT !.state = "queued",
                            !.details = [snap[w].details EXCEPT !.phase = "transfer"]]
             asked(q) == [row[j] EXCEPT !.state = "needs_approval",
                            !.details = [snap[w].details EXCEPT !.quote = q.price]]
  <1>1. /\ j \in Jobs /\ row[j] \in Row /\ snap[w].details \in Details /\ pc[w] # "idle"
    BY OwnerType DEF SubmitQuoted
  <1>2. transfer \in Row
    BY <1>1, StateNames DEF Row, Details, Phases
  <1>3. ASSUME NEW q \in Quotes(j)
        PROVE  asked(q) \in Row
    <2>1. q.price \in AnyPrice
      BY <1>1, QuotesType
    <2> QED
      BY <1>1, <2>1, StateNames DEF Row, Details
  <1>4. CASE Leave(w, transfer)
    BY <1>1, <1>2, <1>4, SettledLeaveType DEF SubmitQuoted
  <1>5. CASE \E q \in Quotes(j) : Leave(w, asked(q))
    BY <1>1, <1>3, <1>5, SettledLeaveType DEF SubmitQuoted
  <1>6. CASE \E q \in Quotes(j) : /\ heard' = [heard EXCEPT ![w] = q]
                                  /\ Goto(w, "commit")
                                  /\ UNCHANGED <<job, snap, err, verdict, working, row, page>>
    <2>1. heard' \in [Workers -> [price: AnyPrice, reusable: BOOLEAN]]
      BY <1>1, <1>6, QuotesType DEF TypeOK
    <2>2. "commit" \in PCs
      BY DEF PCs
    <2> QED
      BY <1>1, <1>6, <2>1, <2>2, StepType DEF SubmitQuoted, TypeOK
  <1> QED
    BY <1>4, <1>5, <1>6 DEF SubmitQuoted

LEMMA PostType ==
    ASSUME TypeOK, NEW w \in Workers, PostAnswered(w) \/ PostRefused(w) \/ PostLost(w)
    PROVE  TypeOK'
  <1>1. job[w] \in Jobs /\ pc[w] # "idle"
    BY OwnerType DEF PostAnswered, PostRefused, PostLost
  <1>2. PICK n \in 0 .. 1, c \in 0 .. 1 : Request(job[w], n, c)
    BY DEF PostAnswered, PostRefused, PostLost
  <1>3. /\ sent' \in [Jobs -> Nat] /\ unlocked' \in [Jobs -> Nat]
        /\ consent' \in [Jobs -> AnyPrice]
    BY <1>1, <1>2 DEF Request, TypeOK
  <1>4. CASE PostAnswered(w)
    BY <1>1, <1>3, <1>4 DEF PostAnswered, Goto, TypeOK, Locals, Rest, PCs
  <1>5. CASE PostRefused(w) \/ PostLost(w)
    <2>1. PICK e \in ErrorKinds \cup {"none"} : Raise(w, e)
      BY <1>5, SettingAssumption DEF PostRefused, PostLost
    <2>2. row' \in [Jobs -> Row] /\ UNCHANGED <<file, Rest, page>>
      BY <1>5 DEF PostRefused, PostLost, TypeOK
    <2> QED
      BY <1>1, <1>3, <2>1, <2>2, RaiseType
  <1> QED
    BY <1>4, <1>5

LEMMA SubmittingType ==
    ASSUME TypeOK, NEW w \in Workers, Submitting(w)
    PROVE  TypeOK'
  <1> DEFINE j == job[w]
  <1>1. /\ j \in Jobs /\ row[j] \in Row /\ row[j].details \in Details
        /\ snap[w].details \in Details /\ pc[w] # "idle"
    BY OwnerType DEF Submitting, SubmitQuoted, SubmitCheck, SubmitMark, PostAnswered, PostRefused,
                     PostLost, SubmitLinked, SubmitRecheck, SubmitDone
  <1>2. {"mark", "link", "post", "linked", "requeue"} \subseteq PCs
    BY DEF PCs
  <1>3. CASE SubmitCheck(w) \/ SubmitRecheck(w)
    <2>1. PICK p \in PCs : Goto(w, p)
      BY <1>2, <1>3 DEF SubmitCheck, SubmitRecheck
    <2> QED
      BY <1>1, <1>3, <2>1, StepType DEF SubmitCheck, SubmitRecheck, TypeOK, Locals
  <1>4. CASE SubmitMark(w)
    <2> DEFINE d == IF row[j].site = "nhentai" THEN snap[w].details
                    ELSE [snap[w].details EXCEPT !.phase = "uncertain", !.uncertain = TRUE]
    <2>1. d \in Details
      BY <1>1 DEF Details, Phases
    <2>2. [row[j] EXCEPT !.state = "submitting", !.details = d] \in Row
      BY <1>1, <2>1, StateNames DEF Row
    <2>3. /\ row' \in [Jobs -> Row]
          /\ page' \in [Jobs -> [price: AnyPrice, fresh: BOOLEAN]]
      BY <1>1, <1>4, <2>2, UpdateType DEF SubmitMark
    <2>4. snap' \in [Workers -> [secret: BOOLEAN, details: Details]]
      BY <1>4, <2>1 DEF SubmitMark, TypeOK
    <2>5. PICK p \in PCs : Goto(w, p)
      BY <1>2, <1>4 DEF SubmitMark
    <2> QED
      BY <1>1, <1>4, <2>3, <2>4, <2>5, StepType DEF SubmitMark, TypeOK
  <1>5. CASE SubmitLinked(w)
    <2> DEFINE d == [snap[w].details EXCEPT !.phase = "transfer", !.uncertain = FALSE]
    <2>1. d \in Details
      BY <1>1 DEF Details, Phases
    <2>2. [row[j] EXCEPT !.secret = TRUE, !.details = d] \in Row
      BY <1>1, <2>1 DEF Row
    <2>3. /\ row' \in [Jobs -> Row]
          /\ page' \in [Jobs -> [price: AnyPrice, fresh: BOOLEAN]]
      BY <1>1, <1>5, <2>2, UpdateType DEF SubmitLinked
    <2>4. snap' \in [Workers -> [secret: BOOLEAN, details: Details]]
      BY <1>5, <2>1 DEF SubmitLinked, TypeOK
    <2> QED
      BY <1>1, <1>2, <1>5, <2>3, <2>4, StepType DEF SubmitLinked, TypeOK
  <1>6. CASE SubmitDone(w)
    <2>1. [row[j] EXCEPT !.state = "queued"] \in Row
      BY <1>1, StateNames DEF Row
    <2> QED
      BY <1>1, <1>6, <2>1, SettledLeaveType DEF SubmitDone
  <1> QED
    BY <1>3, <1>4, <1>5, <1>6, SubmitQuotedType, PostType DEF Submitting

LEMMA RecoverType ==
    ASSUME TypeOK, NEW w \in Workers, Recover(w)
    PROVE  TypeOK'
  <1> DEFINE j == job[w]
             d == [snap[w].details EXCEPT !.sha = FALSE]
  <1>1. /\ j \in Jobs /\ row[j] \in Row /\ snap[w].details \in Details /\ pc[w] # "idle"
    BY OwnerType DEF Recover
  <1>2. d \in Details
    BY <1>1 DEF Details
  <1> HIDE DEF d
  <1>3. /\ [row[j] EXCEPT !.state = "queued", !.secret = FALSE,
              !.details = [d EXCEPT !.uncertain = FALSE,
                 !.phase = IF d.approved # NoPrice THEN "submit" ELSE "inspect"]] \in Row
        /\ [row[j] EXCEPT !.state = "queued", !.secret = TRUE,
              !.details = [d EXCEPT !.uncertain = FALSE, !.phase = "transfer"]] \in Row
        /\ [row[j] EXCEPT !.state = "queued", !.secret = FALSE,
              !.details = [d EXCEPT !.phase = "inspect"]] \in Row
        /\ [row[j] EXCEPT !.state = "needs_attention"] \in Row
    <2>1. /\ [d EXCEPT !.uncertain = FALSE,
                 !.phase = IF d.approved # NoPrice THEN "submit" ELSE "inspect"] \in Details
          /\ [d EXCEPT !.uncertain = FALSE, !.phase = "transfer"] \in Details
          /\ [d EXCEPT !.phase = "inspect"] \in Details
      BY <1>2 DEF Details, Phases
    <2> QED
      BY <1>1, <2>1, StateNames DEF Row
  <1>4. PICK r \in Row : Leave(w, r)
    BY <1>3 DEF Recover, d
  <1> QED
    BY <1>1, <1>4, SettledLeaveType DEF Recover

LEMMA FetchedType ==
    ASSUME TypeOK, NEW w \in Workers, pc[w] # "idle", Fetched(w),
           UNCHANGED <<file, Rest, siteVars>>
    PROVE  TypeOK'
  <1> DEFINE r == [row[job[w]] EXCEPT !.state = "queued",
                     !.details = [snap[w].details EXCEPT !.sha = TRUE, !.phase = "import"]]
  <1>1. job[w] \in Jobs /\ row[job[w]] \in Row /\ snap[w].details \in Details
    BY OwnerType
  <1>2. r \in Row
    BY <1>1, StateNames DEF Row, Details, Phases
  <1> QED
    BY <1>2, SettledLeaveType DEF Fetched

LEMMA TransferringType ==
    ASSUME TypeOK, NEW w \in Workers, Transferring(w)
    PROVE  TypeOK'
  <1> DEFINE j == job[w]
  <1>1. /\ j \in Jobs /\ row[j] \in Row /\ snap[w].details \in Details /\ pc[w] # "idle"
    BY OwnerType DEF Transferring, TransferExpired, TransferComplete, TransferStart, TransferOpen,
                     TransferWritten, TransferDone
  <1>2. {"stream", "writing", "fetched"} \subseteq PCs
    BY DEF PCs
  <1>3. CASE TransferExpired(w)
    <2> DEFINE r == [row[j] EXCEPT !.state = "needs_attention",
                       !.details = [snap[w].details EXCEPT !.phase = "recover"]]
    <2>1. r \in Row
      BY <1>1, StateNames DEF Row, Details, Phases
    <2> QED
      BY <1>1, <1>3, <2>1, SettledLeaveType DEF TransferExpired
  <1>4. CASE TransferComplete(w) \/ TransferDone(w)
    BY <1>1, <1>4, FetchedType DEF TransferComplete, TransferDone
  <1>5. CASE TransferStart(w)
    <2>1. [row[j] EXCEPT !.state = "downloading"] \in Row
      BY <1>1, StateNames DEF Row
    <2>2. /\ row' \in [Jobs -> Row]
          /\ page' \in [Jobs -> [price: AnyPrice, fresh: BOOLEAN]]
      BY <1>1, <1>5, <2>1, UpdateType DEF TransferStart
    <2> QED
      BY <1>1, <1>2, <1>5, <2>2, StepType DEF TransferStart, TypeOK, Locals
  <1>6. CASE TransferOpen(w)
    <2>1. [row[j] EXCEPT !.details = snap[w].details] \in Row
      BY <1>1 DEF Row
    <2>2. /\ row' \in [Jobs -> Row]
          /\ page' \in [Jobs -> [price: AnyPrice, fresh: BOOLEAN]]
      BY <1>1, <1>6, <2>1, UpdateType DEF TransferOpen
    <2>3. file' \in [Jobs -> Files]
      BY <1>6 DEF TransferOpen, TypeOK, Files, Whole, InLibrary
    <2> QED
      BY <1>1, <1>2, <1>6, <2>2, <2>3, StepType DEF TransferOpen, TypeOK, Locals
  <1>7. CASE TransferWritten(w)
    <2>1. file' \in [Jobs -> Files]
      BY <1>7 DEF TransferWritten, TypeOK, Files, Whole, InLibrary
    <2> QED
      BY <1>1, <1>2, <1>7, <2>1, StepType DEF TransferWritten, TypeOK, Locals
  <1> QED
    BY <1>3, <1>4, <1>5, <1>6, <1>7 DEF Transferring

LEMMA CleanupType ==
    ASSUME TypeOK, NEW j \in Jobs, NEW states, Cleanup(j, states)
    PROVE  file' \in [Jobs -> Files]
  BY DEF TypeOK, Cleanup, Files, Whole, InLibrary

LEMMA ImportingType ==
    ASSUME TypeOK, NEW w \in Workers, Importing(w)
    PROVE  TypeOK'
  <1> DEFINE j == job[w]
  <1>1. /\ j \in Jobs /\ row[j] \in Row /\ snap[w].details \in Details /\ pc[w] # "idle"
    BY OwnerType DEF Importing, ImportVerified, ImportPublished, ImportDone, ImportTidied
  <1>2. {"publish", "apply", "tidy", "check"} \subseteq PCs
    BY DEF PCs
  <1>3. CASE ImportVerified(w)
    <2> DEFINE again == [row[j] EXCEPT !.state = "paused",
                           !.details = [snap[w].details EXCEPT !.sha = FALSE, !.phase = "transfer"]]
               import == [row[j] EXCEPT !.state = "importing"]
    <2>1. again \in Row /\ import \in Row
      BY <1>1, StateNames DEF Row, Details, Phases
    <2>2. CASE Leave(w, again)
      BY <1>1, <1>3, <2>1, <2>2, SettledLeaveType DEF ImportVerified
    <2>3. CASE Update(j, import) /\ Goto(w, "publish") /\ UNCHANGED Locals
      <3>1. /\ row' \in [Jobs -> Row]
            /\ page' \in [Jobs -> [price: AnyPrice, fresh: BOOLEAN]]
        BY <1>1, <2>1, <2>3, UpdateType
      <3> QED
        BY <1>1, <1>2, <1>3, <2>3, <3>1, StepType DEF ImportVerified, TypeOK, Locals
    <2> QED
      BY <1>3, <2>2, <2>3 DEF ImportVerified
  <1>4. CASE ImportPublished(w)
    <2>1. CASE Raise(w, "fatal") /\ UNCHANGED <<published, file>>
      BY <1>1, <1>4, <2>1, RaiseType DEF ImportPublished, TypeOK, siteVars, Rest, ErrorKinds
    <2>2. CASE /\ published' = [published EXCEPT ![j] = TRUE]
               /\ \E f \in {file[j], "linked"} : file' = [file EXCEPT ![j] = f]
               /\ Goto(w, "apply") /\ UNCHANGED Locals
      <3>1. file' \in [Jobs -> Files]
        BY <1>1, <2>2 DEF TypeOK, Files, Whole, InLibrary
      <3> QED
        BY <1>1, <1>2, <1>4, <2>2, <3>1 DEF ImportPublished, Goto, TypeOK, siteVars, Locals
    <2> QED
      BY <1>4, <2>1, <2>2 DEF ImportPublished
  <1>5. CASE ImportDone(w)
    <2>1. [row[j] EXCEPT !.state = "done", !.book = TRUE,
             !.details = [snap[w].details EXCEPT !.phase = "done"]] \in Row
      BY <1>1, StateNames DEF Row, Details, Phases
    <2>2. /\ row' \in [Jobs -> Row]
          /\ page' \in [Jobs -> [price: AnyPrice, fresh: BOOLEAN]]
      BY <1>1, <1>5, <2>1, UpdateType DEF ImportDone
    <2> QED
      BY <1>1, <1>2, <1>5, <2>2, StepType DEF ImportDone, TypeOK, Locals
  <1>6. CASE ImportTidied(w)
    <2>1. file' \in [Jobs -> Files]
      BY <1>1, <1>6, CleanupType DEF ImportTidied
    <2> QED
      BY <1>1, <1>2, <1>6, <2>1, StepType DEF ImportTidied, TypeOK, Locals
  <1> QED
    BY <1>3, <1>4, <1>5, <1>6 DEF Importing

LEMMA FailingType ==
    ASSUME TypeOK, NEW w \in Workers, Interrupt(w) \/ Fail(w)
    PROVE  TypeOK'
  <1>1. pc[w] # "idle"
    BY DEF Interrupt, Fail, AtSite, AtFile
  <1>2. PICK e \in ErrorKinds \cup {"none"} : Raise(w, e)
    BY SettingAssumption DEF Interrupt, Fail
  <1>3. UNCHANGED <<row, page, file, Rest, siteVars>>
    BY DEF Interrupt, Fail
  <1> QED
    BY <1>1, <1>2, <1>3, RaiseType DEF TypeOK, siteVars

LEMMA SettledType ==
    ASSUME NEW s \in States, NEW e \in ErrorKinds \cup {"none"},
           NEW n \in 0 .. MaxAttempts, NEW doubt \in BOOLEAN
    PROVE  Settled(s, e, n, doubt) \in [state: States, attempts: 0 .. MaxAttempts, held: BOOLEAN]
  <1> DEFINE Verdicts == [state: States, attempts: 0 .. MaxAttempts, held: BOOLEAN]
             stop(t) == [state |-> t, attempts |-> n, held |-> FALSE]
  <1>1. ASSUME NEW t \in States
        PROVE  stop(t) \in Verdicts
    OBVIOUS
  <1>2. [stop("queued") EXCEPT !.held = TRUE] \in Verdicts
    BY StateNames
  <1>3. n < MaxAttempts => [state |-> "queued", attempts |-> n + 1, held |-> TRUE] \in Verdicts
    BY StateNames, CountAssumption
  <1>4. \/ \E t \in States : Settled(s, e, n, doubt) = stop(t)
        \/ Settled(s, e, n, doubt) = [stop("queued") EXCEPT !.held = TRUE]
        \/ /\ n < MaxAttempts
           /\ Settled(s, e, n, doubt) = [state |-> "queued", attempts |-> n + 1, held |-> TRUE]
    BY StateNames DEF Settled
  <1> QED
    BY <1>1, <1>2, <1>3, <1>4

LEMMA EndingType ==
    ASSUME TypeOK, NEW w \in Workers, Ending(w)
    PROVE  TypeOK'
  <1> DEFINE j == job[w]
             v == verdict[w]
             Rows == row' \in [Jobs -> Row]
             Pages == page' \in [Jobs -> [price: AnyPrice, fresh: BOOLEAN]]
  <1>1. /\ j \in Jobs /\ row[j] \in Row /\ row[j].details \in Details
        /\ err[w] \in ErrorKinds \cup {"none"}
        /\ v \in [state: States, attempts: 0 .. MaxAttempts, held: BOOLEAN] /\ pc[w] # "idle"
    BY OwnerType DEF Ending, AfterHandler, FinishRead, FinishRefused, FinishSettle, FinishClean,
                     ExitRead, ExitPause, Release, TypeOK
  <1>2. {"exit", "clear", "settle", "clean", "unpause", "release", "idle"} \subseteq PCs
    BY DEF PCs
  <1>3. CASE AfterHandler(w)
    <2>1. CASE Raise(w, "none") /\ UNCHANGED row
      BY <1>1, <1>3, <2>1, RaiseType DEF AfterHandler, TypeOK, siteVars
    <2>2. CASE row' = [row EXCEPT ![j].attempts = 0] /\ Goto(w, "exit") /\ UNCHANGED Locals
      <3>1. [row[j] EXCEPT !.attempts = 0] \in Row
        BY <1>1, CountAssumption DEF Row
      <3>2. row' = [row EXCEPT ![j] = [row[j] EXCEPT !.attempts = 0]]
        BY <2>2
      <3>3. Rows
        BY <3>1, <3>2 DEF TypeOK
      <3> QED
        BY <1>1, <1>2, <1>3, <2>2, <3>3, StepType DEF AfterHandler, TypeOK, Locals
    <2> QED
      BY <1>3, <2>1, <2>2 DEF AfterHandler
  <1>4. CASE FinishRead(w)
    <2> DEFINE doubt == Uncertain(row[j].details) /\ ~Refused(w)
               settled == Settled(row[j].state, err[w], row[j].attempts, doubt)
    <2>1. doubt \in BOOLEAN
      BY DEF Uncertain, Refused
    <2>2. row[j].state \in States /\ row[j].attempts \in 0 .. MaxAttempts
      BY <1>1 DEF Row
    <2> HIDE DEF doubt
    <2>3. settled \in [state: States, attempts: 0 .. MaxAttempts, held: BOOLEAN]
      BY <1>1, <2>1, <2>2, SettledType
    <2>4. verdict' = [verdict EXCEPT ![w] = settled]
      BY <1>4 DEF FinishRead, doubt
    <2>5. verdict' \in [Workers -> [state: States, attempts: 0 .. MaxAttempts, held: BOOLEAN]]
      BY <2>3, <2>4 DEF TypeOK
    <2>6. PICK p \in PCs : Goto(w, p)
      BY <1>2, <1>4 DEF FinishRead
    <2> QED
      BY <1>1, <1>4, <2>5, <2>6, StepType DEF FinishRead, TypeOK
  <1>5. CASE FinishRefused(w)
    <2>1. [row[j] EXCEPT !.details.phase = "inspect", !.details.uncertain = FALSE] \in Row
      BY <1>1 DEF Row, Details, Phases
    <2>2. Rows /\ Pages
      BY <1>1, <1>5, <2>1, UpdateType DEF FinishRefused
    <2> QED
      BY <1>1, <1>2, <1>5, <2>2, StepType DEF FinishRefused, TypeOK, Locals
  <1>6. CASE FinishSettle(w)
    <2>1. [row[j] EXCEPT !.state = v.state, !.attempts = v.attempts, !.held = v.held] \in Row
      BY <1>1 DEF Row
    <2>2. Rows /\ Pages
      BY <1>1, <1>6, <2>1, UpdateType DEF FinishSettle
    <2>3. PICK p \in PCs : Goto(w, p)
      BY <1>2, <1>6 DEF FinishSettle
    <2> QED
      BY <1>1, <1>6, <2>2, <2>3, StepType DEF FinishSettle, TypeOK, Locals
  <1>7. CASE FinishClean(w)
    <2>1. file' \in [Jobs -> Files]
      BY <1>1, <1>7, CleanupType DEF FinishClean
    <2> QED
      BY <1>1, <1>2, <1>7, <2>1, StepType DEF FinishClean, TypeOK, Locals
  <1>8. CASE ExitRead(w)
    <2>1. PICK p \in PCs : Goto(w, p)
      BY <1>2, <1>8 DEF ExitRead
    <2> QED
      BY <1>1, <1>8, <2>1, StepType DEF ExitRead, TypeOK, Locals
  <1>9. CASE ExitPause(w)
    <2>1. [row[j] EXCEPT !.state = "paused"] \in Row
      BY <1>1, StateNames DEF Row
    <2>2. Rows /\ Pages
      BY <1>1, <1>9, <2>1, UpdateType DEF ExitPause
    <2> QED
      BY <1>1, <1>2, <1>9, <2>2, StepType DEF ExitPause, TypeOK, Locals
  <1>10. CASE Release(w)
    BY <1>1, <1>2, <1>10, EmptyType DEF Release, Discarded, Goto, TypeOK, Rest, siteVars
  <1> QED
    BY <1>3, <1>4, <1>5, <1>6, <1>7, <1>8, <1>9, <1>10 DEF Ending

-----------------------------------------------------------------------------
(* Type correctness: the process.                                          *)

LEMMA ProcessType ==
    ASSUME TypeOK, Process
    PROVE  TypeOK'
  <1>1. CASE Crash \/ Closed
    <2>1. Vanish
      BY <1>1 DEF Crash, Closed
    <2>2. /\ pc' \in [Workers -> PCs] /\ \A w \in Workers : pc'[w] = "idle"
          /\ job' \in [Workers -> Jobs \cup {NoJob}]
          /\ err' \in [Workers -> ErrorKinds \cup {"none"}]
      BY <2>1 DEF Vanish, PCs
    <2>3. /\ snap' \in [Workers -> [secret: BOOLEAN, details: Details]]
          /\ heard' \in [Workers -> [price: AnyPrice, reusable: BOOLEAN]]
          /\ verdict' \in [Workers -> [state: States, attempts: 0 .. MaxAttempts, held: BOOLEAN]]
      BY <2>1, EmptyType DEF Vanish
    <2>4. proc' = "down" /\ locked' \in [Jobs -> BOOLEAN] /\ working' \subseteq Jobs
      BY <2>1 DEF Vanish
    <2> QED
      BY <2>1, <2>2, <2>3, <2>4 DEF Vanish, TypeOK, siteVars
  <1>2. CASE Stop
    BY <1>2 DEF Stop, TypeOK, workerVars, siteVars
  <1>3. CASE Start
    <2>1. ASSUME NEW j \in Jobs
          PROVE  Restarted(row[j]) \in Row
      <3>1. row[j] \in Row
        BY DEF TypeOK
      <3> QED
        BY <3>1, StateNames DEF Restarted, Row
    <2>2. row' \in [Jobs -> Row]
      BY <1>3, <2>1 DEF Start
    <2>3. page' \in [Jobs -> [price: AnyPrice, fresh: BOOLEAN]]
      <3>1. ASSUME NEW j \in Jobs
            PROVE  [page[j] EXCEPT !.fresh = @ /\ Restarted(row[j]) = row[j]]
                     \in [price: AnyPrice, fresh: BOOLEAN]
        BY DEF TypeOK
      <3> QED
        BY <1>3, <3>1 DEF Start
    <2> QED
      BY <1>3, <2>2, <2>3 DEF Start, TypeOK, workerVars, siteVars
  <1>4. CASE Started
    <2>1. file' \in [Jobs -> Files]
      BY <1>4 DEF Started, TypeOK, Files, Whole, InLibrary
    <2> QED
      BY <1>4, <2>1 DEF Started, TypeOK, workerVars, siteVars
  <1> QED
    BY <1>1, <1>2, <1>3, <1>4 DEF Process

LEMMA DueType ==
    ASSUME TypeOK, NEW j \in Jobs, Due(j) \/ Lapse(j)
    PROVE  TypeOK'
  <1>1. CASE Due(j)
    <2>1. [row[j] EXCEPT !.held = FALSE] \in Row
      <3>1. row[j] \in Row
        BY DEF TypeOK
      <3> QED
        BY <3>1 DEF Row
    <2>2. row' = [row EXCEPT ![j] = [row[j] EXCEPT !.held = FALSE]]
      BY <1>1 DEF Due
    <2>3. row' \in [Jobs -> Row]
      BY <2>1, <2>2 DEF TypeOK
    <2> QED
      BY <1>1, <2>3 DEF Due, TypeOK, workerVars, siteVars
  <1>2. CASE Lapse(j)
    BY <1>2 DEF Lapse, TypeOK, workerVars
  <1> QED
    BY <1>1, <1>2

LEMMA InitType == Init => TypeOK
  <1> SUFFICES ASSUME Init PROVE TypeOK
    OBVIOUS
  <1>1. "find_eh" \in Entries /\ "absent" \in States
    BY StateNames DEF Entries
  <1>2. row \in [Jobs -> Row]
    BY <1>1, NewRowType DEF Init
  <1>3. /\ pc \in [Workers -> PCs]
        /\ \A w \in Workers : pc[w] = "idle"
    BY DEF Init, PCs
  <1>4. page \in [Jobs -> [price: AnyPrice, fresh: BOOLEAN]] /\ consent \in [Jobs -> AnyPrice]
    BY DEF Init, AnyPrice
  <1> QED
    BY <1>2, <1>3, <1>4, EmptyType DEF Init, TypeOK, Files

LEMMA TypeStep == TypeOK /\ [Next]_vars => TypeOK'
  <1> SUFFICES ASSUME TypeOK, [Next]_vars PROVE TypeOK'
    OBVIOUS
  <1>1. CASE \E w \in Workers : Work(w)
    BY <1>1, BeginType, InspectingType, SubmittingType, RecoverType, TransferringType,
       ImportingType, FailingType, EndingType DEF Work
  <1>2. CASE \E w \in Workers, j \in Jobs : Claim(w, j)
    BY <1>2, ClaimType
  <1>3. CASE \E j \in Jobs : Command(j)
    BY <1>3, CreateType, SearchType, ChooseType, PauseSkipType, ApproveType, ResumeType,
       CancelType DEF Command
  <1>4. CASE \E j \in Jobs : CancelFiles(j) \/ Due(j) \/ Lapse(j)
    BY <1>4, CancelType, DueType
  <1>5. CASE Process
    BY <1>5, ProcessType
  <1>6. CASE UNCHANGED vars
    BY <1>6 DEF vars, workerVars, siteVars, TypeOK
  <1> QED
    BY <1>1, <1>2, <1>3, <1>4, <1>5, <1>6 DEF Next

\* TypeOK is an invariant: the rows, the archives, the process and the workers'
\* variables keep their types under every interleaving of commands, workers,
\* answers of the site, crashes and restarts; in particular a row's retry count
\* never passes MAX_ATTEMPTS and a worker past its claim always names a job.
THEOREM TypeCorrect == Spec => []TypeOK
  BY InitType, TypeStep, PTL DEF Spec

-----------------------------------------------------------------------------
(* One worker per job.  Only Claim, Release and the end of the process     *)
(* change who owns what; every other step of a worker keeps its job.       *)

Keeps(w) ==
    /\ \E p \in PCs \ {"idle"} : Goto(w, p)
    /\ UNCHANGED <<job, working>>

LEMMA BeginKeeps ==
    ASSUME NEW w \in Workers, Begin(w) \/ Inspecting(w) \/ Recover(w) \/ Interrupt(w) \/ Fail(w)
    PROVE  Keeps(w)
  <1>1. CASE Begin(w)
    <2>1. row[job[w]].details.phase \in Runnable => row[job[w]].details.phase \in PCs \ {"idle"}
      BY DEF Runnable, Phases, PCs
    <2> QED
      BY <1>1, <2>1 DEF Begin, Raise, Keeps, PCs
  <1>2. CASE Inspecting(w)
    BY <1>2 DEF Inspecting, InspectStart, InspectFetched, InspectQuoted, InspectPriced, Leave,
                Locals, Keeps, PCs
  <1>3. CASE Recover(w)
    BY <1>3 DEF Recover, Leave, Locals, Keeps, PCs
  <1>4. CASE Interrupt(w) \/ Fail(w)
    BY <1>4 DEF Interrupt, Fail, Raise, Keeps, PCs
  <1> QED
    BY <1>1, <1>2, <1>3, <1>4

LEMMA SubmittingKeeps ==
    ASSUME NEW w \in Workers, Submitting(w)
    PROVE  Keeps(w)
  <1>1. CASE SubmitQuoted(w) \/ SubmitCheck(w) \/ SubmitMark(w)
    BY <1>1 DEF SubmitQuoted, SubmitCheck, SubmitMark, Leave, Locals, Keeps, PCs
  <1>2. CASE PostAnswered(w) \/ PostRefused(w) \/ PostLost(w)
    BY <1>2 DEF PostAnswered, PostRefused, PostLost, Raise, Locals, Keeps, PCs
  <1>3. CASE SubmitLinked(w) \/ SubmitRecheck(w) \/ SubmitDone(w)
    BY <1>3 DEF SubmitLinked, SubmitRecheck, SubmitDone, Leave, Locals, Keeps, PCs
  <1> QED
    BY <1>1, <1>2, <1>3 DEF Submitting

LEMMA TransferringKeeps ==
    ASSUME NEW w \in Workers, Transferring(w) \/ Importing(w)
    PROVE  Keeps(w)
  <1>1. CASE Transferring(w)
    BY <1>1 DEF Transferring, TransferExpired, TransferComplete, TransferStart, TransferOpen,
                TransferWritten, TransferDone, Fetched, Leave, Locals, Keeps, PCs
  <1>2. CASE Importing(w)
    BY <1>2 DEF Importing, ImportVerified, ImportPublished, ImportDone, ImportTidied, Raise, Leave,
                Locals, Keeps, PCs
  <1> QED
    BY <1>1, <1>2

LEMMA EndingKeeps ==
    ASSUME NEW w \in Workers, Ending(w), ~Release(w)
    PROVE  Keeps(w)
  <1>1. CASE AfterHandler(w) \/ FinishRead(w) \/ FinishRefused(w) \/ FinishSettle(w)
    BY <1>1 DEF AfterHandler, FinishRead, FinishRefused, FinishSettle, Raise, Locals, Keeps, PCs
  <1>2. CASE FinishClean(w) \/ ExitRead(w) \/ ExitPause(w)
    BY <1>2 DEF FinishClean, ExitRead, ExitPause, Locals, Keeps, PCs
  <1> QED
    BY <1>1, <1>2 DEF Ending

LEMMA KeepsOwner ==
    ASSUME TypeOK, SingleOwner, NEW w \in Workers, pc[w] # "idle", Keeps(w)
    PROVE  SingleOwner'
  <1>1. job' = job /\ working' = working /\ pc \in [Workers -> PCs]
    BY DEF Keeps, TypeOK
  <1>2. \A v \in Workers : pc'[v] # "idle" <=> pc[v] # "idle"
    BY <1>1 DEF Keeps, Goto
  <1>3. \A j \in Jobs : Owned(j)' <=> Owned(j)
    BY <1>1, <1>2 DEF Owned
  <1> QED
    BY <1>1, <1>2, <1>3 DEF SingleOwner

LEMMA ClaimOwner ==
    ASSUME TypeOK, SingleOwner, NEW w \in Workers, NEW j \in Jobs, Claim(w, j)
    PROVE  SingleOwner'
  <1>1. /\ pc[w] = "idle" /\ j \notin working /\ working' = working \cup {j}
        /\ job' = [job EXCEPT ![w] = j] /\ pc' = [pc EXCEPT ![w] = "begin"]
    BY DEF Claim, Claimable, Goto
  <1>2. pc'[w] = "begin" /\ job'[w] = j
    BY <1>1 DEF TypeOK
  <1>3. \A v \in Workers : v # w => pc'[v] = pc[v] /\ job'[v] = job[v]
    BY <1>1 DEF TypeOK
  <1>4. ~Owned(j)
    BY <1>1 DEF SingleOwner
  <1>5. ASSUME NEW k \in Jobs
        PROVE  Owned(k)' <=> Owned(k) \/ k = j
    BY <1>1, <1>2, <1>3 DEF Owned
  <1>6. ASSUME NEW u \in Workers, NEW v \in Workers,
               pc'[u] # "idle", pc'[v] # "idle", job'[u] = job'[v]
        PROVE  u = v
    BY <1>2, <1>3, <1>4, <1>6 DEF Owned, SingleOwner
  <1>7. working' = {k \in Jobs : Owned(k)'}
    BY <1>1, <1>5 DEF SingleOwner
  <1> QED
    BY <1>6, <1>7 DEF SingleOwner

LEMMA ReleaseOwner ==
    ASSUME TypeOK, SingleOwner, NEW w \in Workers, Release(w)
    PROVE  SingleOwner'
  <1>1. /\ pc[w] # "idle" /\ working' = working \ {job[w]}
        /\ job' = [job EXCEPT ![w] = NoJob] /\ pc' = [pc EXCEPT ![w] = "idle"]
    BY DEF Release, Discarded, Goto
  <1>2. pc'[w] = "idle"
    BY <1>1 DEF TypeOK
  <1>3. \A v \in Workers : v # w => pc'[v] = pc[v] /\ job'[v] = job[v]
    BY <1>1 DEF TypeOK
  <1>4. \A v \in Workers : v # w /\ pc[v] # "idle" => job[v] # job[w]
    BY <1>1 DEF SingleOwner
  <1>5. ASSUME NEW k \in Jobs
        PROVE  Owned(k)' <=> Owned(k) /\ k # job[w]
    BY <1>1, <1>2, <1>3, <1>4 DEF Owned
  <1>6. ASSUME NEW u \in Workers, NEW v \in Workers,
               pc'[u] # "idle", pc'[v] # "idle", job'[u] = job'[v]
        PROVE  u = v
    BY <1>2, <1>3, <1>6 DEF SingleOwner
  <1>7. working' = {k \in Jobs : Owned(k)'}
    BY <1>1, <1>5 DEF SingleOwner
  <1> QED
    BY <1>6, <1>7 DEF SingleOwner

LEMMA VanishOwner ==
    ASSUME Vanish
    PROVE  SingleOwner'
  BY DEF Vanish, SingleOwner, Owned

LEMMA WorkBusy ==
    ASSUME NEW w \in Workers, Work(w)
    PROVE  pc[w] # "idle"
  <1>1. CASE Begin(w) \/ Inspecting(w) \/ Recover(w) \/ Interrupt(w) \/ Fail(w)
    BY <1>1 DEF Begin, Inspecting, InspectStart, InspectFetched, InspectQuoted, InspectPriced,
                Recover, Interrupt, Fail, AtSite, AtFile
  <1>2. CASE Submitting(w)
    BY <1>2 DEF Submitting, SubmitQuoted, SubmitCheck, SubmitMark, PostAnswered, PostRefused,
                PostLost, SubmitLinked, SubmitRecheck, SubmitDone
  <1>3. CASE Transferring(w) \/ Importing(w)
    BY <1>3 DEF Transferring, TransferExpired, TransferComplete, TransferStart, TransferOpen,
                TransferWritten, TransferDone, Importing, ImportVerified, ImportPublished,
                ImportDone, ImportTidied
  <1>4. CASE Ending(w)
    BY <1>4 DEF Ending, AfterHandler, FinishRead, FinishRefused, FinishSettle, FinishClean,
                ExitRead, ExitPause, Release
  <1> QED
    BY <1>1, <1>2, <1>3, <1>4 DEF Work

LEMMA OwnerStep == TypeOK /\ SingleOwner /\ [Next]_vars => SingleOwner'
  <1> SUFFICES ASSUME TypeOK, SingleOwner, [Next]_vars PROVE SingleOwner'
    OBVIOUS
  <1>1. CASE UNCHANGED workerVars
    <2>1. UNCHANGED <<pc, job, working>>
      BY <1>1 DEF workerVars
    <2> QED
      BY <2>1 DEF SingleOwner, Owned
  <1>2. ASSUME NEW w \in Workers, Work(w)
        PROVE  SingleOwner'
    <2>1. CASE Release(w)
      BY <2>1, ReleaseOwner
    <2>2. CASE ~Release(w)
      <3>1. Keeps(w)
        BY <1>2, <2>2, BeginKeeps, SubmittingKeeps, TransferringKeeps, EndingKeeps DEF Work
      <3> QED
        BY <1>2, <3>1, WorkBusy, KeepsOwner
    <2> QED
      BY <2>1, <2>2
  <1>3. ASSUME NEW w \in Workers, NEW j \in Jobs, Claim(w, j)
        PROVE  SingleOwner'
    BY <1>3, ClaimOwner
  <1>4. ASSUME NEW j \in Jobs, Command(j) \/ CancelFiles(j) \/ Due(j) \/ Lapse(j)
        PROVE  UNCHANGED workerVars
    BY <1>4 DEF Command, Create, Search, Choose, Pause, Skip, Look, Approve, Resume, Cancel,
                CancelFiles, Due, Lapse
  <1>5. Process => Vanish \/ UNCHANGED workerVars
    BY DEF Process, Crash, Stop, Closed, Start, Started
  <1>6. UNCHANGED vars => UNCHANGED workerVars
    BY DEF vars
  <1> QED
    BY <1>1, <1>2, <1>3, <1>4, <1>5, <1>6, VanishOwner DEF Next

\* SingleOwner is an invariant: however many workers claim and release, and
\* wherever the process dies, no job is ever run by two of them, and the set the
\* claim excludes is exactly the set of jobs being run.
THEOREM OwnershipCorrect == Spec => []SingleOwner
  <1>1. Init => SingleOwner
    BY DEF Init, SingleOwner, Owned
  <1> QED
    BY <1>1, OwnerStep, TypeCorrect, PTL DEF Spec

-----------------------------------------------------------------------------
(* The invariants of the queue.  QueueInv says of a row what its phase     *)
(* has, and of a worker what it may still write: in its handler the phase  *)
(* of its row is the one it serves; on its way out the row is in no        *)
(* working state; and only a worker about to clean up may leave the        *)
(* archive of a cancelled job behind.                                      *)

Busy == Handling \cup {"begin"}
\* The states in which a worker has the job or may claim it.
Live == Active \cup Stopping \cup {"queued"}
\* What _finish makes of a job.
Verdicts == {"needs_attention", "cancelled", "paused", "queued", "verification_required", "error"}

\* A cancelled job whose lock is free has no archive.
Swept(j) == row[j].state = "cancelled" /\ ~locked[j] => file[j] = "none"

\* What the phase of a row says of its link, hash, agreement and doubt.
RowOK(r) ==
    LET d == r.details IN
    /\ d.phase = "submit" => d.approved # NoPrice
    /\ d.phase \in {"transfer", "import"} => r.secret
    /\ d.phase = "import" /\ r.state \in Live => d.sha
    /\ d.phase = "uncertain" => d.uncertain /\ r.state # "queued"
    /\ d.uncertain => /\ d.phase \in {"uncertain", "recover"}
                      /\ r.site = "eh" /\ r.state # "needs_approval"
    /\ d.phase = "done" => r.state = "done"

QueueJobOK(j) ==
    /\ RowOK(row[j])
    /\ locked[j] => row[j].state \notin Live
    /\ unlocked[j] <= 1
    /\ row[j].state = "done" => row[j].book /\ published[j]
    /\ proc = "starting" => row[j].state \notin Active \cup Stopping
    /\ proc \in {"up", "stopping"} /\ ~Owned(j) =>
         row[j].state \notin Active \cup {"pausing"} /\ Swept(j)

\* The phase a worker's handler serves.
PhaseOK(p, phase) ==
    /\ p \in {"inspect", "fetch", "quote", "price"} => phase = "inspect"
    /\ p \in {"post", "link"} => phase \in {"uncertain", "submit"}
    /\ p \in {"linked", "requeue", "transfer", "stream", "writing", "fetched"} => phase = "transfer"
    /\ p = "recover" => phase = "recover"
    /\ p \in {"import", "publish", "apply"} => phase = "import"

\* A worker on its way out of the job with row r.
EndOK(w, r) ==
    /\ pc[w] = "finish" =>
         /\ r.state # "done"
         /\ err[w] # "none" => r.state \in Active \cup Stopping
         /\ err[w] \in RefusedBeforeCharge => r.details = snap[w].details
    /\ pc[w] = "clear" => /\ r.state \in Active \cup Stopping
                          /\ r.details.phase = "uncertain"
                          /\ snap[w].details.phase = "uncertain"
    /\ pc[w] = "settle" =>
         /\ r.state # "done"
         /\ verdict[w].state = "queued" => r.state \in Active \cup Stopping /\ ~Uncertain(r.details)
    /\ pc[w] \in {"clear", "settle", "clean"} => verdict[w].state \in Verdicts
    /\ pc[w] \in {"tidy", "check", "clean", "exit", "unpause", "release"} => r.state \notin Active
    /\ pc[w] = "unpause" => r.state \in Stopping
    /\ pc[w] = "release" => r.state # "pausing"

Sweeping(w) == pc[w] = "clean" /\ verdict[w].state = "cancelled"

\* What its handler relies on.
HandlerOK(w) ==
    LET j == job[w] IN
    /\ PhaseOK(pc[w], row[j].details.phase)
    /\ pc[w] = "submit" => row[j].secret = snap[w].secret
    /\ row[j].site = "eh" =>
         /\ pc[w] \in {"commit", "mark"} /\ ~heard[w].reusable => unlocked[j] = 0
         /\ pc[w] = "post" => unlocked[j] = 0
    /\ pc[w] \in {"publish", "apply"} => file[j] \in Whole /\ row[j].details.sha
    /\ pc[w] = "apply" => published[j]

QueueWorkerOK(w) ==
    /\ HandlerOK(w) /\ EndOK(w, row[job[w]])
    /\ ~Sweeping(w) => Swept(job[w])

QueueInv ==
    /\ \A j \in Jobs : QueueJobOK(j)
    /\ \A w \in Workers : pc[w] # "idle" => QueueWorkerOK(w)

-----------------------------------------------------------------------------
(* PayInv says, for a job, what its phase means: a job to be submitted has *)
(* an agreement that nothing has been sent for; and for a worker, that the *)
(* row stays in a running or stopping state while a handler runs - so      *)
(* every command that would change the details is refused - and that the   *)
(* worker holds a copy of the row's own details.                           *)

\* The agreement on job j is for its approved price and has not been used.
Clear(j) == consent[j] # NoPrice /\ consent[j] = row[j].details.approved /\ sent[j] = 0

\* What holds of a job at any time.
Billed(j) ==
    /\ page[j].fresh => page[j].price = row[j].details.quote
    /\ sent[j] <= IF consent[j] = NoPrice THEN 0 ELSE 1
\* A job a worker has or may claim for its submission has its agreement.
Ready(j) ==
    row[j].details.phase = "submit" /\ row[j].site = "eh" /\ row[j].state \in Live => Clear(j)
JobOK(j) == Billed(j) /\ Ready(j)

WorkerOK(w) ==
    /\ pc[w] \in Busy => row[job[w]].state \in Active \cup Stopping
    /\ pc[w] \in Handling => row[job[w]].details = snap[w].details
    /\ pc[w] \in {"submit", "commit", "mark"} => row[job[w]].details.phase = "submit"
    /\ pc[w] \in {"commit", "mark"} /\ ~heard[w].reusable =>
         heard[w].price = row[job[w]].details.approved
    /\ pc[w] = "post" /\ row[job[w]].site = "eh" =>
         /\ Clear(job[w]) /\ heard[w].price = consent[job[w]]
         /\ row[job[w]].details.phase = "uncertain"

PayInv ==
    /\ \A j \in Jobs : Billed(j) /\ (proc # "down" => Ready(j))
    /\ \A w \in Workers : WorkerOK(w)
    /\ proc \in {"down", "starting"} => Idle

\* A step of worker w on its job j touches nothing the invariant reads elsewhere.
Alone(w, j) ==
    /\ \A k \in Jobs : k # j => /\ row'[k] = row[k] /\ page'[k] = page[k]
                                /\ consent'[k] = consent[k] /\ sent'[k] = sent[k]
    /\ \A v \in Workers : v # w => /\ pc'[v] = pc[v] /\ job'[v] = job[v]
                                   /\ snap'[v] = snap[v] /\ heard'[v] = heard[v]
\* What has to be shown of such a step.
Sound(w, j) == Alone(w, j) /\ JobOK(j)' /\ WorkerOK(w)'

-----------------------------------------------------------------------------
(* What a write does, and which writes leave a job and a worker in order.  *)

LEMMA WriteEffect ==
    ASSUME TypeOK, NEW j \in Jobs, NEW r \in Row, Write(j, r)
    PROVE  /\ row'[j] = r /\ ~page'[j].fresh
           /\ \A k \in Jobs : k # j => row'[k] = row[k] /\ page'[k] = page[k]
  BY DEF Write, TypeOK

LEMMA UpdateEffect ==
    ASSUME TypeOK, NEW j \in Jobs, NEW r \in Row, Update(j, r)
    PROVE  /\ row'[j].details = r.details /\ row'[j].site = r.site
           /\ row'[j].state = Landing(row[j].state, r.state) /\ ~page'[j].fresh
           /\ \A k \in Jobs : k # j => row'[k] = row[k] /\ page'[k] = page[k]
  <1> DEFINE landed == [r EXCEPT !.state = Landing(row[j].state, r.state)]
  <1>1. row[j].state \in States /\ r.state \in States
    BY DEF TypeOK, Row
  <1>2. landed \in Row
    BY <1>1, LandingType DEF Row
  <1>3. /\ row'[j] = landed /\ ~page'[j].fresh
        /\ \A k \in Jobs : k # j => row'[k] = row[k] /\ page'[k] = page[k]
    BY <1>2, WriteEffect DEF Update
  <1>4. /\ landed.details = r.details /\ landed.site = r.site
        /\ landed.state = Landing(row[j].state, r.state)
    BY DEF Row
  <1> QED
    BY <1>3, <1>4

LEMMA ActEffect ==
    ASSUME TypeOK, NEW j \in Jobs, NEW r \in Row, NEW s \in States, Act(j, s, r)
    PROVE  /\ row'[j].details = r.details /\ row'[j].site = r.site
           /\ row'[j].state = s /\ ~page'[j].fresh
           /\ \A k \in Jobs : k # j => row'[k] = row[k] /\ page'[k] = page[k]
  <1> DEFINE acted == [r EXCEPT !.state = s, !.held = FALSE, !.attempts = 0]
  <1>1. acted \in Row
    <2>1. 0 \in 0 .. MaxAttempts
      BY CountAssumption
    <2> QED
      BY <2>1 DEF Row
  <1>2. /\ row'[j] = acted /\ ~page'[j].fresh
        /\ \A k \in Jobs : k # j => row'[k] = row[k] /\ page'[k] = page[k]
    BY <1>1, WriteEffect DEF Act
  <1>3. acted.details = r.details /\ acted.site = r.site /\ acted.state = s
    BY DEF Row
  <1> QED
    BY <1>2, <1>3

\* A job stays in order when its agreement, its price and its phase do.
LEMMA JobKept ==
    ASSUME NEW j \in Jobs, JobOK(j),
           row'[j].site = row[j].site,
           row'[j].details.approved = row[j].details.approved,
           row'[j].details.phase = "submit" /\ row'[j].site = "eh" /\ row'[j].state \in Live =>
             row[j].details.phase = "submit" /\ row[j].state \in Live,
           page'[j].fresh => page'[j].price = row'[j].details.quote,
           consent'[j] = consent[j], sent'[j] = sent[j]
    PROVE  JobOK(j)'
  BY DEF JobOK, Billed, Ready, Clear

LEMMA JobUntouched ==
    ASSUME NEW j \in Jobs, JobOK(j), row'[j].site = row[j].site, row'[j].details = row[j].details,
           row'[j].state \in Live => row[j].state \in Live,
           page'[j] = page[j], consent'[j] = consent[j], sent'[j] = sent[j]
    PROVE  JobOK(j)'
  BY JobKept DEF JobOK, Billed

\* While a worker has a job the process is up, and every job is in order.
LEMMA JobsInOrder ==
    ASSUME PayInv, NEW w \in Workers, pc[w] # "idle"
    PROVE  proc # "down" /\ \A k \in Jobs : JobOK(k)
  BY DEF PayInv, Idle, JobOK

\* A worker outside its handler has nothing to keep.
LEMMA WorkerFree ==
    ASSUME NEW w \in Workers, pc'[w] \notin Busy
    PROVE  WorkerOK(w)'
  BY DEF WorkerOK, Busy, Handling

\* A worker in its handler, before or after the part that asks for the archive.
LEMMA WorkerBusy ==
    ASSUME NEW w \in Workers, NEW j \in Jobs, job'[w] = j,
           pc'[w] \notin {"submit", "commit", "mark", "post"},
           row'[j].state \in Active \cup Stopping,
           pc'[w] \in Handling => row'[j].details = snap'[w].details
    PROVE  WorkerOK(w)'
  BY DEF WorkerOK

LEMMA LandingBusy ==
    ASSUME NEW s \in Active \cup Stopping, NEW t \in Active \cup Stopping
    PROVE  Landing(s, t) \in Active \cup Stopping
  BY DEF Landing

\* A worker no step of others reaches is as it was.
LEMMA WorkerKept ==
    ASSUME NEW v \in Workers, WorkerOK(v), pc'[v] = pc[v], job'[v] = job[v],
           snap'[v] = snap[v], heard'[v] = heard[v],
           pc[v] \in Busy =>
             /\ row'[job[v]].state \in Active \cup Stopping
             /\ row'[job[v]].site = row[job[v]].site
             /\ row'[job[v]].details = row[job[v]].details
             /\ consent'[job[v]] = consent[job[v]] /\ sent'[job[v]] = sent[job[v]]
    PROVE  WorkerOK(v)'
  <1>1. CASE pc[v] \in Busy
    BY <1>1 DEF WorkerOK, Clear
  <1>2. CASE pc[v] \notin Busy
    BY <1>2, WorkerFree
  <1> QED
    BY <1>1, <1>2

\* One sound step of one worker keeps the whole invariant.
LEMMA SoundStep ==
    ASSUME TypeOK, SingleOwner, PayInv, NEW w \in Workers, NEW j \in Jobs,
           pc[w] # "idle", job[w] = j, proc' = proc, Sound(w, j)
    PROVE  PayInv'
  <1>1. ASSUME NEW k \in Jobs, k # j
        PROVE  JobOK(k)'
    <2>1. JobOK(k)
      BY JobsInOrder
    <2>2. row'[k] = row[k] /\ page'[k] = page[k] /\ consent'[k] = consent[k] /\ sent'[k] = sent[k]
      BY <1>1 DEF Sound, Alone
    <2> QED
      BY <2>1, <2>2, JobUntouched
  <1>2. ASSUME NEW v \in Workers, v # w
        PROVE  WorkerOK(v)'
    <2>1. WorkerOK(v)
      BY DEF PayInv
    <2>2. pc'[v] = pc[v] /\ job'[v] = job[v] /\ snap'[v] = snap[v] /\ heard'[v] = heard[v]
      BY <1>2 DEF Sound, Alone
    <2>3. CASE pc[v] \notin Busy
      BY <2>2, <2>3, WorkerFree
    <2>4. CASE pc[v] \in Busy
      <3>1. pc[v] # "idle"
        BY <2>4 DEF Busy, Handling
      <3>2. job[v] # j /\ job[v] \in Jobs
        BY <1>2, <3>1 DEF SingleOwner, TypeOK
      <3>3. /\ row'[job[v]] = row[job[v]]
            /\ consent'[job[v]] = consent[job[v]] /\ sent'[job[v]] = sent[job[v]]
        BY <3>2 DEF Sound, Alone
      <3>4. row[job[v]].state \in Active \cup Stopping
        BY <2>1, <2>4 DEF WorkerOK
      <3> QED
        BY <2>1, <2>2, <3>3, <3>4, WorkerKept
    <2> QED
      BY <2>3, <2>4
  <1>3. JobOK(j)' /\ WorkerOK(w)'
    BY DEF Sound
  <1>4. proc' \notin {"down", "starting"}
    BY DEF PayInv, Idle
  <1> QED
    BY <1>1, <1>2, <1>3, <1>4 DEF PayInv, JobOK

-----------------------------------------------------------------------------
(* The forms most steps of a worker have.                                  *)

\* A step that leaves the rows and the site alone and ends outside the handler.
LEMMA QuietStep ==
    ASSUME TypeOK, PayInv, NEW w \in Workers, NEW j \in Jobs, pc[w] # "idle", job[w] = j,
           NEW p \in PCs \ Busy, Goto(w, p),
           \A v \in Workers : v # w => job'[v] = job[v] /\ snap'[v] = snap[v] /\ heard'[v] = heard[v],
           UNCHANGED <<row, page, consent, sent>>
    PROVE  Sound(w, j)
  <1>1. pc'[w] = p /\ \A v \in Workers : v # w => pc'[v] = pc[v]
    BY DEF Goto, TypeOK
  <1>2. Alone(w, j)
    BY <1>1 DEF Alone
  <1>3. JobOK(j)'
    BY JobUntouched, JobsInOrder
  <1> QED
    BY <1>1, <1>2, <1>3, WorkerFree DEF Sound

\* A write that ends outside the handler and leaves the agreement alone.
LEMMA EndStep ==
    ASSUME TypeOK, PayInv, NEW w \in Workers, NEW j \in Jobs, pc[w] # "idle", job[w] = j,
           NEW p \in PCs \ Busy, Goto(w, p), UNCHANGED <<job, snap, heard, consent, sent>>,
           NEW r \in Row, Update(j, r), r.site = row[j].site,
           r.details.approved = row[j].details.approved,
           r.details.phase = "submit" /\ r.site = "eh" => row[j].details.phase = "submit",
           r.state \in Live => row[j].state \in Live
    PROVE  Sound(w, j)
  <1>1. pc'[w] = p /\ \A v \in Workers : v # w => pc'[v] = pc[v]
    BY DEF Goto, TypeOK
  <1>2. /\ row'[j].details = r.details /\ row'[j].site = r.site /\ ~page'[j].fresh
        /\ row'[j].state = Landing(row[j].state, r.state)
        /\ \A k \in Jobs : k # j => row'[k] = row[k] /\ page'[k] = page[k]
    BY UpdateEffect
  <1>3. Alone(w, j)
    BY <1>1, <1>2 DEF Alone
  <1>4. JobOK(j)'
    <2>1. row'[j].state \in Live => row[j].state \in Live
      BY <1>2 DEF Landing, Live
    <2> QED
      BY <1>2, <2>1, JobKept, JobsInOrder
  <1> QED
    BY <1>1, <1>3, <1>4, WorkerFree DEF Sound

\* A write in the middle of a handler, outside the part that asks for the archive.
LEMMA MiddleStep ==
    ASSUME TypeOK, PayInv, NEW w \in Workers, NEW j \in Jobs, pc[w] \in Busy, job[w] = j,
           NEW p \in Handling \ {"submit", "commit", "mark", "post"}, Goto(w, p),
           job' = job, UNCHANGED <<consent, sent>>,
           \A v \in Workers : v # w => snap'[v] = snap[v] /\ heard'[v] = heard[v],
           NEW r \in Row, Update(j, r), r.site = row[j].site, snap'[w].details = r.details,
           r.state \in Active \cup Stopping,
           r.details.approved = row[j].details.approved,
           r.details.phase = "submit" => row[j].details.phase = "submit"
    PROVE  Sound(w, j)
  <1>1. pc'[w] = p /\ \A v \in Workers : v # w => pc'[v] = pc[v]
    BY DEF Goto, TypeOK
  <1>2. /\ row'[j].details = r.details /\ row'[j].site = r.site /\ ~page'[j].fresh
        /\ row'[j].state = Landing(row[j].state, r.state)
        /\ \A k \in Jobs : k # j => row'[k] = row[k] /\ page'[k] = page[k]
    BY UpdateEffect
  <1>3. Alone(w, j)
    BY <1>1, <1>2 DEF Alone
  <1>4. row[j].state \in Active \cup Stopping /\ pc[w] # "idle"
    BY DEF PayInv, WorkerOK, Busy, Handling
  <1>5. JobOK(j)'
    BY <1>2, <1>4, JobKept, JobsInOrder DEF Live
  <1>6. row'[j].state \in Active \cup Stopping
    BY <1>2, <1>4, LandingBusy
  <1>7. WorkerOK(w)'
    BY <1>1, <1>2, <1>6, WorkerBusy
  <1> QED
    BY <1>3, <1>5, <1>7 DEF Sound

\* A control step in the middle of a handler.
LEMMA ControlStep ==
    ASSUME TypeOK, PayInv, NEW w \in Workers, NEW j \in Jobs, pc[w] \in Handling, job[w] = j,
           NEW p \in Handling \ {"submit", "commit", "mark", "post"}, Goto(w, p),
           UNCHANGED <<job, snap, row, page, consent, sent>>,
           \A v \in Workers : v # w => heard'[v] = heard[v]
    PROVE  Sound(w, j)
  <1>1. pc'[w] = p /\ \A v \in Workers : v # w => pc'[v] = pc[v]
    BY DEF Goto, TypeOK
  <1>2. Alone(w, j)
    BY <1>1 DEF Alone
  <1>3. JobOK(j)'
    BY JobUntouched, JobsInOrder DEF Handling
  <1>4. row[j].state \in Active \cup Stopping /\ row[j].details = snap[w].details
    BY DEF PayInv, WorkerOK, Busy
  <1>5. WorkerOK(w)'
    BY <1>1, <1>4, WorkerBusy
  <1> QED
    BY <1>2, <1>3, <1>5 DEF Sound

-----------------------------------------------------------------------------
(* The steps of a worker.                                                  *)

\* What the invariant says of a worker in its handler.
LEMMA HandlerFacts ==
    ASSUME TypeOK, PayInv, NEW w \in Workers, NEW j \in Jobs, job[w] = j, pc[w] \in Handling
    PROVE  /\ pc[w] # "idle" /\ pc[w] \in Busy
           /\ row[j] \in Row /\ row[j].details \in Details /\ snap[w].details \in Details
           /\ row[j].details = snap[w].details
           /\ row[j].state \in Active \cup Stopping
  <1>1. WorkerOK(w)
    BY DEF PayInv
  <1> QED
    BY <1>1, OwnerType DEF WorkerOK, Busy, Handling

LEMMA FreePoints ==
    {"check", "finish", "tidy", "exit", "clear", "settle", "clean", "unpause", "release", "idle"}
      \subseteq PCs \ Busy
  BY DEF PCs, Busy, Handling

LEMMA LeaveSound ==
    ASSUME TypeOK, PayInv, NEW w \in Workers, NEW j \in Jobs, pc[w] \in Handling, job[w] = j,
           NEW r \in Row, Leave(w, r), UNCHANGED <<consent, sent>>, r.site = row[j].site,
           r.details.approved = row[j].details.approved,
           r.details.phase = "submit" /\ r.site = "eh" => row[j].details.phase = "submit"
    PROVE  Sound(w, j)
  <1>1. pc[w] # "idle" /\ row[j].state \in Live
    BY HandlerFacts DEF Live
  <1> QED
    BY <1>1, EndStep, FreePoints DEF Leave, Locals

LEMMA RaiseSound ==
    ASSUME TypeOK, PayInv, NEW w \in Workers, NEW j \in Jobs, pc[w] # "idle", job[w] = j,
           NEW e, Raise(w, e), UNCHANGED <<row, page, consent, sent>>
    PROVE  Sound(w, j)
  BY QuietStep, FreePoints DEF Raise

LEMMA BeginSound ==
    ASSUME TypeOK, PayInv, NEW w \in Workers, NEW j \in Jobs, job[w] = j, Begin(w)
    PROVE  Sound(w, j)
  <1>1. pc[w] = "begin" /\ pc[w] # "idle" /\ UNCHANGED <<row, page, consent, sent>>
    BY DEF Begin, siteVars
  <1>2. CASE Raise(w, "none") \/ Raise(w, "fatal")
    BY <1>1, <1>2, RaiseSound
  <1>3. CASE ~(Raise(w, "none") \/ Raise(w, "fatal"))
    <2> DEFINE p == row[j].details.phase
    <2>1. /\ p \in Runnable /\ Goto(w, p) /\ UNCHANGED <<job, heard>>
          /\ snap' = [snap EXCEPT ![w] = [secret |-> row[j].secret, details |-> row[j].details]]
      BY <1>3 DEF Begin
    <2>2. /\ snap'[w].details = row[j].details
          /\ \A v \in Workers : v # w => snap'[v] = snap[v]
      BY <2>1 DEF TypeOK
    <2>3. pc'[w] = p /\ \A v \in Workers : v # w => pc'[v] = pc[v]
      BY <2>1 DEF Goto, TypeOK
    <2>4. Alone(w, j)
      BY <1>1, <2>1, <2>2, <2>3 DEF Alone
    <2>5. JobOK(j)'
      BY <1>1, JobUntouched, JobsInOrder
    <2>6. row[j].state \in Active \cup Stopping
      BY <1>1 DEF PayInv, WorkerOK, Busy
    <2>7. p \notin {"commit", "mark", "post"}
      BY <2>1 DEF Runnable, Phases
    <2>8. WorkerOK(w)'
      BY <1>1, <2>1, <2>2, <2>3, <2>6, <2>7 DEF WorkerOK
    <2> QED
      BY <2>4, <2>5, <2>8 DEF Sound
  <1> QED
    BY <1>2, <1>3

LEMMA InspectingSound ==
    ASSUME TypeOK, PayInv, NEW w \in Workers, NEW j \in Jobs, job[w] = j, Inspecting(w)
    PROVE  Sound(w, j)
  <1> DEFINE old == snap[w].details
  <1>1. /\ pc[w] \in {"inspect", "fetch", "quote", "price"} /\ pc[w] \in Handling
        /\ {"fetch", "quote", "price"} \subseteq Handling \ {"submit", "commit", "mark", "post"}
    BY DEF Inspecting, InspectStart, InspectFetched, InspectQuoted, InspectPriced, Handling
  <1>2. /\ pc[w] # "idle" /\ pc[w] \in Busy /\ row[j] \in Row /\ row[j].details \in Details
        /\ old \in Details /\ row[j].details = old /\ row[j].state \in Active \cup Stopping
    BY <1>1, HandlerFacts
  <1>3. CASE InspectStart(w)
    <2> DEFINE r == [row[j] EXCEPT !.state = "inspecting"]
    <2>1. /\ r \in Row /\ r.site = row[j].site /\ r.details = row[j].details
          /\ r.state \in Active \cup Stopping
      BY <1>2, StateNames DEF Row, Active
    <2> HIDE DEF r
    <2>2. Update(j, r) /\ Goto(w, "fetch") /\ UNCHANGED <<job, snap, heard, consent, sent>>
      BY <1>3 DEF InspectStart, Locals, siteVars, r
    <2> QED
      BY <1>1, <1>2, <2>1, <2>2, MiddleStep
  <1>4. CASE InspectFetched(w)
    <2> DEFINE r == [row[j] EXCEPT !.state = "needs_choice",
                                   !.details = [old EXCEPT !.selected = TRUE]]
    <2>1. /\ r \in Row /\ r.site = row[j].site
          /\ r.details.approved = old.approved /\ r.details.phase = old.phase
      BY <1>2, StateNames DEF Row, Details
    <2>2. CASE Leave(w, r)
      BY <1>1, <1>2, <1>4, <2>1, <2>2, LeaveSound DEF InspectFetched, siteVars
    <2>3. CASE Goto(w, "quote") /\ UNCHANGED <<Locals, row, page>>
      BY <1>1, <1>4, <2>3, ControlStep DEF InspectFetched, Locals, siteVars
    <2> QED
      BY <1>4, <2>2, <2>3 DEF InspectFetched
  <1>5. CASE InspectQuoted(w)
    <2> DEFINE r == [row[j] EXCEPT !.secret = TRUE]
    <2>1. r \in Row /\ r.site = row[j].site /\ r.details = row[j].details /\ r.state = row[j].state
      BY <1>2 DEF Row
    <2>2. /\ Goto(w, "price") /\ UNCHANGED <<job, snap, consent, sent>>
          /\ Update(j, r) \/ UNCHANGED <<row, page>>
          /\ \A v \in Workers : v # w => heard'[v] = heard[v]
      BY <1>5 DEF InspectQuoted, TypeOK, siteVars
    <2> HIDE DEF r
    <2>3. CASE Update(j, r)
      BY <1>1, <1>2, <2>1, <2>2, <2>3, MiddleStep
    <2>4. CASE UNCHANGED <<row, page>>
      BY <1>1, <2>2, <2>4, ControlStep
    <2> QED
      BY <2>2, <2>3, <2>4
  <1>6. CASE InspectPriced(w)
    <2> DEFINE d == [old EXCEPT !.selected = TRUE, !.quote = heard[w].price]
               agreed == [row[j] EXCEPT !.state = "queued",
                            !.details = [d EXCEPT !.approved = Free, !.phase = "submit"]]
               asked == [row[j] EXCEPT !.state = "needs_approval", !.details = d]
    <2>1. heard[w].price \in AnyPrice /\ Free \in AnyPrice
      BY <1>2, OwnerType, PriceAssumption DEF AnyPrice
    <2>2. d \in Details /\ d.approved = old.approved /\ d.phase = old.phase
      BY <1>2, <2>1 DEF Details
    <2> HIDE DEF d
    <2>3. [d EXCEPT !.approved = Free, !.phase = "submit"] \in Details
      BY <2>1, <2>2 DEF Details, Phases
    <2>4. /\ agreed \in Row /\ agreed.site = row[j].site /\ agreed.details.approved = Free
          /\ asked \in Row /\ asked.site = row[j].site /\ asked.details = d
      BY <1>2, <2>2, <2>3, StateNames DEF Row, Details
    <2>5. CASE Leave(w, asked) /\ UNCHANGED <<consent, sent>>
      BY <1>1, <1>2, <2>2, <2>4, <2>5, LeaveSound
    <2>6. CASE /\ Leave(w, agreed)
               /\ consent' = [consent EXCEPT ![j] = Free]
               /\ sent' = [sent EXCEPT ![j] = 0]
      <3> HIDE DEF agreed
      <3>1. pc'[w] = "check" /\ \A v \in Workers : v # w => pc'[v] = pc[v]
        BY <2>6 DEF Leave, Goto, TypeOK
      <3>2. UNCHANGED <<job, snap, heard>>
        BY <2>6 DEF Leave, Locals
      <3>3. /\ row'[j].details = agreed.details /\ row'[j].site = agreed.site /\ ~page'[j].fresh
            /\ \A k \in Jobs : k # j => row'[k] = row[k] /\ page'[k] = page[k]
        BY <2>4, <2>6, UpdateEffect DEF Leave
      <3>4. /\ consent'[j] = Free /\ sent'[j] = 0
            /\ \A k \in Jobs : k # j => consent'[k] = consent[k] /\ sent'[k] = sent[k]
        BY <2>6 DEF TypeOK
      <3>5. Alone(w, j)
        BY <3>1, <3>2, <3>3, <3>4 DEF Alone
      <3>6. JobOK(j)'
        BY <2>4, <3>3, <3>4, PriceAssumption DEF JobOK, Billed, Ready, Clear
      <3>7. WorkerOK(w)'
        BY <3>1, FreePoints, WorkerFree
      <3> QED
        BY <3>5, <3>6, <3>7 DEF Sound
    <2> QED
      BY <1>6, <2>5, <2>6 DEF InspectPriced, d
  <1> QED
    BY <1>3, <1>4, <1>5, <1>6 DEF Inspecting

LEMMA SubmitQuotedSound ==
    ASSUME TypeOK, PayInv, NEW w \in Workers, NEW j \in Jobs, job[w] = j, SubmitQuoted(w)
    PROVE  Sound(w, j)
  <1> DEFINE old == snap[w].details
             transfer == [row[j] EXCEPT !.state = "queued", !.details = [old EXCEPT !.phase = "transfer"]]
             asked(q) == [row[j] EXCEPT !.state = "needs_approval",
                                        !.details = [old EXCEPT !.quote = q.price]]
  <1>1. pc[w] = "submit" /\ pc[w] \in Handling /\ UNCHANGED <<consent, sent>>
    BY DEF SubmitQuoted, Handling, siteVars
  <1>2. /\ pc[w] # "idle" /\ pc[w] \in Busy /\ row[j] \in Row /\ row[j].details \in Details
        /\ old \in Details /\ row[j].details = old /\ row[j].state \in Active \cup Stopping
    BY <1>1, HandlerFacts
  <1>3. CASE Leave(w, transfer)
    <2>1. /\ transfer \in Row /\ transfer.site = row[j].site
          /\ transfer.details.approved = old.approved /\ transfer.details.phase = "transfer"
      BY <1>2, StateNames DEF Row, Details, Phases
    <2> HIDE DEF transfer
    <2> QED
      BY <1>1, <1>2, <1>3, <2>1, LeaveSound
  <1>4. ASSUME NEW q \in Quotes(j), Leave(w, asked(q))
        PROVE  Sound(w, j)
    <2>1. q.price \in AnyPrice
      BY QuotesType
    <2>2. /\ asked(q) \in Row /\ asked(q).site = row[j].site
          /\ asked(q).details.approved = old.approved /\ asked(q).details.phase = old.phase
      BY <1>2, <2>1, StateNames DEF Row, Details
    <2> HIDE DEF asked
    <2> QED
      BY <1>1, <1>2, <1>4, <2>2, LeaveSound
  <1>5. ASSUME NEW q \in Quotes(j), q.reusable \/ q.price = old.approved,
               heard' = [heard EXCEPT ![w] = q], Goto(w, "commit"),
               UNCHANGED <<job, snap, row, page>>
        PROVE  Sound(w, j)
    <2>1. pc'[w] = "commit" /\ \A v \in Workers : v # w => pc'[v] = pc[v]
      BY <1>5 DEF Goto, TypeOK
    <2>2. heard'[w] = q /\ \A v \in Workers : v # w => heard'[v] = heard[v]
      BY <1>5 DEF TypeOK
    <2>3. Alone(w, j)
      BY <1>1, <1>5, <2>1, <2>2 DEF Alone
    <2>4. JobOK(j)'
      BY <1>1, <1>5, JobUntouched, JobsInOrder
    <2>5. row[j].details.phase = "submit"
      BY <1>1 DEF PayInv, WorkerOK
    <2>6. WorkerOK(w)'
      BY <1>2, <1>5, <2>1, <2>2, <2>5 DEF WorkerOK
    <2> QED
      BY <2>3, <2>4, <2>6 DEF Sound
  <1>6. \/ Leave(w, transfer)
        \/ \E q \in Quotes(j) : Leave(w, asked(q))
        \/ \E q \in Quotes(j) : /\ q.reusable \/ q.price = old.approved
                                /\ heard' = [heard EXCEPT ![w] = q] /\ Goto(w, "commit")
                                /\ UNCHANGED <<job, snap, row, page>>
    <2>1. CASE snap[w].secret
      BY <2>1 DEF SubmitQuoted
    <2>2. CASE ~snap[w].secret
      BY <2>2 DEF SubmitQuoted
    <2> QED
      BY <2>1, <2>2
  <1> QED
    BY <1>3, <1>4, <1>5, <1>6

LEMMA SubmitMarkSound ==
    ASSUME TypeOK, PayInv, NEW w \in Workers, NEW j \in Jobs, job[w] = j,
           SubmitCheck(w) \/ SubmitMark(w)
    PROVE  Sound(w, j)
  <1>1. /\ pc[w] \in Handling /\ pc[w] \in {"commit", "mark"}
        /\ UNCHANGED <<job, heard, consent, sent>>
    BY DEF SubmitCheck, SubmitMark, Handling, Locals, siteVars
  <1>2. /\ pc[w] # "idle" /\ pc[w] \in Busy /\ row[j] \in Row /\ row[j].details \in Details
        /\ snap[w].details \in Details /\ row[j].details = snap[w].details
        /\ row[j].state \in Active \cup Stopping
    BY <1>1, HandlerFacts
  <1>3. /\ row[j].details.phase = "submit"
        /\ ~heard[w].reusable => heard[w].price = row[j].details.approved
    BY <1>1 DEF PayInv, WorkerOK
  <1>4. CASE SubmitCheck(w)
    <2>1. pc'[w] = "mark" /\ (\A v \in Workers : v # w => pc'[v] = pc[v])
          /\ UNCHANGED <<row, page, snap>>
      BY <1>4 DEF SubmitCheck, Goto, TypeOK, Locals
    <2>2. Alone(w, j)
      BY <1>1, <2>1 DEF Alone
    <2>3. JobOK(j)'
      BY <1>1, <2>1, JobUntouched, JobsInOrder
    <2>4. WorkerOK(w)'
      BY <1>1, <1>2, <1>3, <2>1 DEF WorkerOK
    <2> QED
      BY <2>2, <2>3, <2>4 DEF Sound
  <1>5. CASE SubmitMark(w)
    <2> DEFINE d == IF row[j].site = "nhentai" THEN snap[w].details
                    ELSE [snap[w].details EXCEPT !.phase = "uncertain", !.uncertain = TRUE]
               r == [row[j] EXCEPT !.state = "submitting", !.details = d]
    <2>1. /\ d \in Details /\ d.approved = row[j].details.approved
          /\ row[j].site = "eh" => d.phase = "uncertain"
      BY <1>2 DEF Details, Phases
    <2> HIDE DEF d
    <2>2. /\ r \in Row /\ r.site = row[j].site /\ r.details = d
          /\ r.state \in Active \cup Stopping
      BY <1>2, <2>1, StateNames DEF Row, Active
    <2> HIDE DEF r
    <2>3. Update(j, r) /\ snap' = [snap EXCEPT ![w].details = d]
      BY <1>5 DEF SubmitMark, d, r
    <2>4. /\ row'[j].details = d /\ row'[j].site = row[j].site /\ ~page'[j].fresh
          /\ row'[j].state = Landing(row[j].state, r.state)
          /\ \A k \in Jobs : k # j => row'[k] = row[k] /\ page'[k] = page[k]
      BY <2>2, <2>3, UpdateEffect
    <2>5. snap'[w].details = d /\ \A v \in Workers : v # w => snap'[v] = snap[v]
      BY <2>3 DEF TypeOK
    <2>6. /\ pc'[w] = (IF heard[w].reusable THEN "link" ELSE "post")
          /\ \A v \in Workers : v # w => pc'[v] = pc[v]
      BY <1>5 DEF SubmitMark, Goto, TypeOK
    <2>7. Alone(w, j)
      BY <1>1, <2>4, <2>5, <2>6 DEF Alone
    <2>8. JobOK(j)'
      BY <1>1, <1>2, <1>3, <2>1, <2>4, JobKept, JobsInOrder DEF Live
    <2>9. row'[j].state \in Active \cup Stopping
      BY <1>2, <2>2, <2>4, LandingBusy
    <2>10. row[j].site = "eh" => Clear(j)
      BY <1>2, <1>3, JobsInOrder DEF JobOK, Ready, Live
    <2>11. row'[j].site = "eh" => Clear(j)' /\ consent[j] = row[j].details.approved
      BY <1>1, <2>1, <2>4, <2>10 DEF Clear
    <2>12. WorkerOK(w)'
      BY <1>1, <1>3, <2>1, <2>4, <2>5, <2>6, <2>9, <2>11 DEF WorkerOK
    <2> QED
      BY <2>7, <2>8, <2>12 DEF Sound
  <1> QED
    BY <1>4, <1>5

LEMMA PostSound ==
    ASSUME TypeOK, PayInv, NEW w \in Workers, NEW j \in Jobs, job[w] = j,
           PostAnswered(w) \/ PostRefused(w) \/ PostLost(w)
    PROVE  Sound(w, j)
  <1>1. pc[w] = "post" /\ pc[w] \in Handling /\ UNCHANGED <<row, page, job, snap, heard>>
    BY DEF PostAnswered, PostRefused, PostLost, Raise, Handling, Locals
  <1>2. row[j].details = snap[w].details /\ row[j].state \in Active \cup Stopping
    BY <1>1, HandlerFacts
  <1>3. PICK n \in 0 .. 1, c \in 0 .. 1 : Request(j, n, c) /\ (row[j].site = "eh" \/ n = 0)
    BY DEF PostAnswered, PostRefused, PostLost
  <1>4. /\ consent' = consent /\ sent'[j] = sent[j] + n
        /\ \A k \in Jobs : k # j => sent'[k] = sent[k]
    BY <1>3 DEF Request, TypeOK
  <1>5. PICK p \in {"link", "finish"} : Goto(w, p)
    BY DEF PostAnswered, PostRefused, PostLost, Raise
  <1>6. pc'[w] = p /\ \A v \in Workers : v # w => pc'[v] = pc[v]
    BY <1>5 DEF Goto, TypeOK
  <1>7. Alone(w, j)
    BY <1>1, <1>4, <1>6 DEF Alone
  <1>8. JobOK(j)'
    <2>1. CASE row[j].site = "eh"
      <3>1. Clear(j) /\ row[j].details.phase = "uncertain"
        BY <1>1, <2>1 DEF PayInv, WorkerOK
      <3>2. JobOK(j)
        BY <1>1, JobsInOrder
      <3>3. sent'[j] <= 1 /\ consent'[j] # NoPrice
        BY <1>4, <3>1 DEF Clear
      <3> QED
        BY <1>1, <1>4, <3>1, <3>2, <3>3 DEF JobOK, Billed, Ready
    <2>2. CASE row[j].site # "eh"
      <3>1. sent'[j] = sent[j]
        BY <1>3, <1>4, <2>2 DEF TypeOK
      <3> QED
        BY <1>1, <1>4, <3>1, JobUntouched, JobsInOrder
    <2> QED
      BY <2>1, <2>2
  <1>9. WorkerOK(w)'
    BY <1>1, <1>2, <1>6, WorkerBusy
  <1> QED
    BY <1>7, <1>8, <1>9 DEF Sound

LEMMA SubmittingSound ==
    ASSUME TypeOK, PayInv, NEW w \in Workers, NEW j \in Jobs, job[w] = j, Submitting(w)
    PROVE  Sound(w, j)
  <1>1. CASE SubmitLinked(w)
    <2> DEFINE d == [snap[w].details EXCEPT !.phase = "transfer", !.uncertain = FALSE]
               r == [row[j] EXCEPT !.secret = TRUE, !.details = d]
    <2>1. /\ pc[w] \in Handling /\ UNCHANGED <<job, heard, consent, sent>>
          /\ "linked" \in Handling \ {"submit", "commit", "mark", "post"}
      BY <1>1 DEF SubmitLinked, Handling, siteVars
    <2>2. /\ pc[w] \in Busy /\ row[j] \in Row /\ snap[w].details \in Details
          /\ row[j].details = snap[w].details /\ row[j].state \in Active \cup Stopping
      BY <2>1, HandlerFacts
    <2>3. d \in Details /\ d.approved = row[j].details.approved /\ d.phase = "transfer"
      BY <2>2 DEF Details, Phases
    <2> HIDE DEF d
    <2>4. r \in Row /\ r.site = row[j].site /\ r.details = d /\ r.state = row[j].state
      BY <2>2, <2>3 DEF Row
    <2> HIDE DEF r
    <2>5. Update(j, r) /\ Goto(w, "linked") /\ snap' = [snap EXCEPT ![w].details = d]
      BY <1>1 DEF SubmitLinked, d, r
    <2>6. snap'[w].details = d /\ \A v \in Workers : v # w => snap'[v] = snap[v]
      BY <2>5 DEF TypeOK
    <2> QED
      BY <2>1, <2>2, <2>3, <2>4, <2>5, <2>6, MiddleStep
  <1>2. CASE SubmitRecheck(w)
    <2>1. /\ pc[w] \in Handling /\ Goto(w, "requeue")
          /\ UNCHANGED <<job, snap, heard, row, page, consent, sent>>
          /\ "requeue" \in Handling \ {"submit", "commit", "mark", "post"}
      BY <1>2 DEF SubmitRecheck, Handling, Locals, siteVars
    <2> QED
      BY <2>1, ControlStep
  <1>3. CASE SubmitDone(w)
    <2> DEFINE r == [row[j] EXCEPT !.state = "queued"]
    <2>1. pc[w] \in Handling /\ UNCHANGED <<consent, sent>>
      BY <1>3 DEF SubmitDone, Handling, siteVars
    <2>2. pc[w] # "idle" /\ row[j] \in Row
      BY <2>1, HandlerFacts
    <2>3. r \in Row /\ r.site = row[j].site /\ r.details = row[j].details
      BY <2>2, StateNames DEF Row
    <2> HIDE DEF r
    <2>4. Leave(w, r)
      BY <1>3 DEF SubmitDone, r
    <2> QED
      BY <2>1, <2>2, <2>3, <2>4, LeaveSound
  <1> QED
    BY <1>1, <1>2, <1>3, SubmitQuotedSound, SubmitMarkSound, PostSound DEF Submitting

LEMMA RecoverSound ==
    ASSUME TypeOK, PayInv, NEW w \in Workers, NEW j \in Jobs, job[w] = j, Recover(w)
    PROVE  Sound(w, j)
  <1> DEFINE d == [snap[w].details EXCEPT !.sha = FALSE]
             again == [d EXCEPT !.uncertain = FALSE,
                          !.phase = IF d.approved # NoPrice THEN "submit" ELSE "inspect"]
             found == [d EXCEPT !.uncertain = FALSE, !.phase = "transfer"]
             fresh == [d EXCEPT !.phase = "inspect"]
  <1>1. pc[w] \in Handling /\ UNCHANGED <<consent, sent>>
    BY DEF Recover, Handling, siteVars
  <1>2. /\ pc[w] # "idle" /\ row[j] \in Row /\ snap[w].details \in Details
        /\ row[j].details = snap[w].details /\ row[j].site \in Sites
    BY <1>1, HandlerFacts DEF Row
  <1>3. d \in Details /\ d.approved = row[j].details.approved
    BY <1>2 DEF Details
  <1> HIDE DEF d
  <1>4. /\ again \in Details /\ found \in Details /\ fresh \in Details
        /\ again.approved = d.approved /\ found.approved = d.approved /\ fresh.approved = d.approved
        /\ found.phase # "submit" /\ fresh.phase # "submit"
    BY <1>3 DEF Details, Phases
  <1> HIDE DEF again, found, fresh
  <1> DEFINE OK(r) == /\ r \in Row /\ r.site = row[j].site
                      /\ r.details.approved = row[j].details.approved
                      /\ r.details.phase = "submit" /\ r.site = "eh" =>
                           row[j].details.phase = "submit"
  <1>5. \E r : OK(r) /\ Leave(w, r)
    <2>1. CASE row[j].site = "nhentai"
      <3> DEFINE r == [row[j] EXCEPT !.state = "queued", !.secret = FALSE, !.details = again]
      <3>1. OK(r)
        BY <1>2, <1>3, <1>4, <2>1, StateNames DEF Row
      <3> HIDE DEF OK
      <3>2. Leave(w, r)
        BY <2>1 DEF Recover, d, again
      <3> HIDE DEF r
      <3> QED
        BY <3>1, <3>2
    <2>2. CASE row[j].site # "nhentai"
      <3> DEFINE r1 == [row[j] EXCEPT !.state = "queued", !.secret = TRUE, !.details = found]
                 r2 == [row[j] EXCEPT !.state = "queued", !.secret = FALSE, !.details = fresh]
                 r3 == [row[j] EXCEPT !.state = "needs_attention"]
      <3>1. OK(r1)
        BY <1>2, <1>3, <1>4, StateNames DEF Row
      <3>2. OK(r2)
        BY <1>2, <1>3, <1>4, StateNames DEF Row
      <3>3. OK(r3)
        BY <1>2, StateNames DEF Row
      <3> HIDE DEF OK
      <3>4. Leave(w, r1) \/ Leave(w, r2) \/ Leave(w, r3)
        BY <2>2 DEF Recover, d, found, fresh
      <3> HIDE DEF r1, r2, r3
      <3> QED
        BY <3>1, <3>2, <3>3, <3>4
    <2> QED
      BY <2>1, <2>2
  <1> QED
    BY <1>1, <1>2, <1>5, LeaveSound

LEMMA FetchedSound ==
    ASSUME TypeOK, PayInv, NEW w \in Workers, NEW j \in Jobs, job[w] = j, pc[w] \in Handling,
           Fetched(w), UNCHANGED <<consent, sent>>
    PROVE  Sound(w, j)
  <1> DEFINE r == [row[j] EXCEPT !.state = "queued",
                     !.details = [snap[w].details EXCEPT !.sha = TRUE, !.phase = "import"]]
  <1>1. /\ pc[w] # "idle" /\ row[j] \in Row /\ snap[w].details \in Details
        /\ row[j].details = snap[w].details
    BY HandlerFacts
  <1>2. /\ r \in Row /\ r.site = row[j].site /\ r.details.approved = row[j].details.approved
        /\ r.details.phase = "import"
    BY <1>1, StateNames DEF Row, Details, Phases
  <1> HIDE DEF r
  <1>3. Leave(w, r)
    BY DEF Fetched, r
  <1> QED
    BY <1>1, <1>2, <1>3, LeaveSound

LEMMA TransferringSound ==
    ASSUME TypeOK, PayInv, NEW w \in Workers, NEW j \in Jobs, job[w] = j, Transferring(w)
    PROVE  Sound(w, j)
  <1>1. /\ pc[w] \in Handling /\ UNCHANGED <<consent, sent>>
        /\ {"stream", "writing", "fetched"} \subseteq Handling \ {"submit", "commit", "mark", "post"}
    BY DEF Transferring, TransferExpired, TransferComplete, TransferStart, TransferOpen,
           TransferWritten, TransferDone, Handling, siteVars
  <1>2. /\ pc[w] # "idle" /\ pc[w] \in Busy /\ row[j] \in Row /\ snap[w].details \in Details
        /\ row[j].details = snap[w].details /\ row[j].state \in Active \cup Stopping
    BY <1>1, HandlerFacts
  <1>3. CASE TransferExpired(w)
    <2> DEFINE r == [row[j] EXCEPT !.state = "needs_attention",
                       !.details = [snap[w].details EXCEPT !.phase = "recover"]]
    <2>1. /\ r \in Row /\ r.site = row[j].site /\ r.details.phase = "recover"
          /\ r.details.approved = row[j].details.approved
      BY <1>2, StateNames DEF Row, Details, Phases
    <2> HIDE DEF r
    <2>2. Leave(w, r)
      BY <1>3 DEF TransferExpired, r
    <2> QED
      BY <1>1, <1>2, <2>1, <2>2, LeaveSound
  <1>4. CASE TransferComplete(w) \/ TransferDone(w)
    BY <1>1, <1>4, FetchedSound DEF TransferComplete, TransferDone
  <1>5. CASE TransferStart(w)
    <2> DEFINE r == [row[j] EXCEPT !.state = "downloading"]
    <2>1. /\ r \in Row /\ r.site = row[j].site /\ r.details = row[j].details
          /\ r.state \in Active \cup Stopping
      BY <1>2, StateNames DEF Row, Active
    <2> HIDE DEF r
    <2>2. Update(j, r) /\ Goto(w, "stream") /\ UNCHANGED <<job, snap, heard>>
      BY <1>5 DEF TransferStart, Locals, r
    <2> QED
      BY <1>1, <1>2, <2>1, <2>2, MiddleStep
  <1>6. CASE TransferOpen(w)
    <2> DEFINE r == [row[j] EXCEPT !.details = snap[w].details]
    <2>1. /\ r \in Row /\ r.site = row[j].site /\ r.details = row[j].details
          /\ r.state = row[j].state
      BY <1>2 DEF Row
    <2> HIDE DEF r
    <2>2. Update(j, r) /\ Goto(w, "writing") /\ UNCHANGED <<job, snap, heard>>
      BY <1>6 DEF TransferOpen, Locals, r
    <2> QED
      BY <1>1, <1>2, <2>1, <2>2, MiddleStep
  <1>7. CASE TransferWritten(w)
    BY <1>1, <1>7, ControlStep DEF TransferWritten, Locals
  <1> QED
    BY <1>3, <1>4, <1>5, <1>6, <1>7 DEF Transferring

LEMMA ImportingSound ==
    ASSUME TypeOK, PayInv, NEW w \in Workers, NEW j \in Jobs, job[w] = j, Importing(w)
    PROVE  Sound(w, j)
  <1>1. UNCHANGED <<consent, sent>> /\ pc[w] # "idle"
    BY DEF Importing, ImportVerified, ImportPublished, ImportDone, ImportTidied, siteVars
  <1>2. CASE ImportTidied(w)
    BY <1>1, <1>2, QuietStep, FreePoints DEF ImportTidied, Locals
  <1>3. CASE ImportPublished(w)
    <2>1. CASE Raise(w, "fatal")
      BY <1>1, <1>3, <2>1, RaiseSound DEF ImportPublished
    <2>2. CASE Goto(w, "apply") /\ UNCHANGED Locals
      BY <1>1, <1>3, <2>2, ControlStep DEF ImportPublished, Locals, Handling
    <2> QED
      BY <1>3, <2>1, <2>2 DEF ImportPublished
  <1>4. CASE ImportVerified(w) \/ ImportDone(w)
    <2> DEFINE back == [row[j] EXCEPT !.state = "paused",
                          !.details = [snap[w].details EXCEPT !.sha = FALSE, !.phase = "transfer"]]
               import == [row[j] EXCEPT !.state = "importing"]
               done == [row[j] EXCEPT !.state = "done", !.book = TRUE,
                          !.details = [snap[w].details EXCEPT !.phase = "done"]]
    <2>1. pc[w] \in Handling /\ "publish" \in Handling \ {"submit", "commit", "mark", "post"}
      BY <1>4 DEF ImportVerified, ImportDone, Handling
    <2>2. /\ pc[w] \in Busy /\ row[j] \in Row /\ snap[w].details \in Details
          /\ row[j].details = snap[w].details /\ row[j].state \in Active \cup Stopping
      BY <2>1, HandlerFacts
    <2>3. /\ back \in Row /\ back.site = row[j].site /\ back.details.phase = "transfer"
          /\ back.details.approved = row[j].details.approved
      BY <2>2, StateNames DEF Row, Details, Phases
    <2>4. /\ import \in Row /\ import.site = row[j].site /\ import.details = row[j].details
          /\ import.state \in Active \cup Stopping
      BY <2>2, StateNames DEF Row, Active
    <2>5. /\ done \in Row /\ done.site = row[j].site /\ done.details.phase = "done"
          /\ done.details.approved = row[j].details.approved /\ done.state \notin Live
      BY <2>2, StateNames DEF Row, Details, Phases, Live, Active, Stopping
    <2> HIDE DEF back, import, done
    <2>6. CASE Leave(w, back)
      BY <1>1, <2>1, <2>3, <2>6, LeaveSound
    <2>7. CASE Update(j, import) /\ Goto(w, "publish") /\ UNCHANGED Locals
      BY <1>1, <2>1, <2>2, <2>4, <2>7, MiddleStep DEF Locals
    <2>8. CASE Update(j, done) /\ Goto(w, "tidy") /\ UNCHANGED Locals
      BY <1>1, <2>5, <2>8, EndStep, FreePoints DEF Locals
    <2> QED
      BY <1>4, <2>6, <2>7, <2>8 DEF ImportVerified, ImportDone, back, import, done
  <1> QED
    BY <1>2, <1>3, <1>4 DEF Importing

LEMMA FailingSound ==
    ASSUME TypeOK, PayInv, NEW w \in Workers, NEW j \in Jobs, job[w] = j, pc[w] # "idle",
           Interrupt(w) \/ Fail(w)
    PROVE  Sound(w, j)
  <1>1. \E e : Raise(w, e)
    BY DEF Interrupt, Fail
  <1>2. UNCHANGED <<row, page, consent, sent>>
    BY DEF Interrupt, Fail, siteVars
  <1> QED
    BY <1>1, <1>2, RaiseSound

LEMMA EndingSound ==
    ASSUME TypeOK, PayInv, QueueInv, NEW w \in Workers, NEW j \in Jobs, job[w] = j, pc[w] # "idle",
           Ending(w)
    PROVE  Sound(w, j)
  <1>1. UNCHANGED <<consent, sent>> /\ row[j] \in Row /\ row[j].details \in Details
    BY OwnerType DEF Ending, AfterHandler, FinishRead, FinishRefused, FinishSettle, FinishClean,
                     ExitRead, ExitPause, Release, siteVars
  <1>2. CASE AfterHandler(w)
    <2>1. CASE Raise(w, "none") /\ UNCHANGED row
      BY <1>1, <1>2, <2>1, RaiseSound DEF AfterHandler
    <2>2. CASE row' = [row EXCEPT ![j].attempts = 0] /\ Goto(w, "exit") /\ UNCHANGED Locals
      <3>1. pc'[w] = "exit" /\ \A v \in Workers : v # w => pc'[v] = pc[v]
        BY <2>2 DEF Goto, TypeOK
      <3>2. /\ row'[j].details = row[j].details /\ row'[j].site = row[j].site
            /\ row'[j].state = row[j].state
            /\ \A k \in Jobs : k # j => row'[k] = row[k]
        BY <1>1, <2>2 DEF TypeOK, Row
      <3>3. Alone(w, j)
        BY <1>1, <1>2, <2>2, <3>1, <3>2 DEF Alone, AfterHandler, Locals
      <3>4. JobOK(j)'
        BY <1>1, <1>2, <3>2, JobUntouched, JobsInOrder DEF AfterHandler
      <3>5. WorkerOK(w)'
        BY <3>1, FreePoints, WorkerFree
      <3> QED
        BY <3>3, <3>4, <3>5 DEF Sound
    <2> QED
      BY <1>2, <2>1, <2>2 DEF AfterHandler
  <1>3. CASE FinishRead(w) \/ FinishClean(w) \/ ExitRead(w)
    <2>1. PICK p \in PCs \ Busy : Goto(w, p)
      BY <1>3, FreePoints DEF FinishRead, FinishClean, ExitRead
    <2>2. UNCHANGED <<job, snap, heard, row, page>>
      BY <1>3 DEF FinishRead, FinishClean, ExitRead, Locals
    <2> QED
      BY <1>1, <2>1, <2>2, QuietStep
  <1>4. CASE Release(w)
    <2>1. /\ Goto(w, "idle") /\ UNCHANGED <<row, page>>
          /\ \A v \in Workers : v # w => /\ job'[v] = job[v] /\ snap'[v] = snap[v]
                                         /\ heard'[v] = heard[v]
      BY <1>4 DEF Release, TypeOK
    <2> QED
      BY <1>1, <2>1, QuietStep, FreePoints
  <1>5. CASE FinishRefused(w)
    <2> DEFINE r == [row[j] EXCEPT !.details.phase = "inspect", !.details.uncertain = FALSE]
    <2>1. /\ r \in Row /\ r.site = row[j].site /\ r.details.phase = "inspect"
          /\ r.details.approved = row[j].details.approved /\ r.state = row[j].state
      BY <1>1 DEF Row, Details, Phases
    <2> HIDE DEF r
    <2>2. Update(j, r) /\ Goto(w, "settle") /\ UNCHANGED <<job, snap, heard>>
      BY <1>5 DEF FinishRefused, Locals, r
    <2> QED
      BY <1>1, <2>1, <2>2, EndStep, FreePoints
  <1>6. CASE FinishSettle(w)
    <2> DEFINE v == verdict[w]
               r == [row[j] EXCEPT !.state = v.state, !.attempts = v.attempts, !.held = v.held]
    <2>1. v \in [state: States, attempts: 0 .. MaxAttempts, held: BOOLEAN]
      BY DEF TypeOK
    <2>2. r \in Row /\ r.site = row[j].site /\ r.details = row[j].details /\ r.state = v.state
      BY <1>1, <2>1 DEF Row
    <2>3. PICK p \in PCs \ Busy : Goto(w, p)
      BY <1>6, FreePoints DEF FinishSettle
    <2>4. Update(j, r) /\ UNCHANGED <<job, snap, heard>>
      BY <1>6 DEF FinishSettle, Locals
    <2>5. v.state \in Live => row[j].state \in Live
      BY <1>6 DEF FinishSettle, QueueInv, QueueWorkerOK, EndOK, Verdicts, Live, Active, Stopping
    <2> HIDE DEF r, v
    <2> QED
      BY <1>1, <2>2, <2>3, <2>4, <2>5, EndStep
  <1>7. CASE ExitPause(w)
    <2> DEFINE r == [row[j] EXCEPT !.state = "paused"]
    <2>1. /\ r \in Row /\ r.site = row[j].site /\ r.details = row[j].details
          /\ r.state \notin Live
      BY <1>1, StateNames DEF Row, Live, Active, Stopping
    <2> HIDE DEF r
    <2>2. Update(j, r) /\ Goto(w, "release") /\ UNCHANGED <<job, snap, heard>>
      BY <1>7 DEF ExitPause, Locals, r
    <2> QED
      BY <1>1, <2>1, <2>2, EndStep, FreePoints
  <1> QED
    BY <1>2, <1>3, <1>4, <1>5, <1>6, <1>7 DEF Ending

LEMMA WorkKeepsProc ==
    ASSUME NEW w \in Workers, Work(w)
    PROVE  proc' = proc
  <1>1. CASE Begin(w) \/ Inspecting(w) \/ Recover(w) \/ Interrupt(w) \/ Fail(w)
    BY <1>1 DEF Begin, Inspecting, InspectStart, InspectFetched, InspectQuoted, InspectPriced,
                Recover, Interrupt, Fail, Rest
  <1>2. CASE Submitting(w)
    BY <1>2 DEF Submitting, SubmitQuoted, SubmitCheck, SubmitMark, PostAnswered, PostRefused,
                PostLost, SubmitLinked, SubmitRecheck, SubmitDone, Rest
  <1>3. CASE Transferring(w) \/ Importing(w)
    BY <1>3 DEF Transferring, TransferExpired, TransferComplete, TransferStart, TransferOpen,
                TransferWritten, TransferDone, Importing, ImportVerified, ImportPublished,
                ImportDone, ImportTidied, Rest
  <1>4. CASE Ending(w)
    BY <1>4 DEF Ending, AfterHandler, FinishRead, FinishRefused, FinishSettle, FinishClean,
                ExitRead, ExitPause, Release, Rest
  <1> QED
    BY <1>1, <1>2, <1>3, <1>4 DEF Work

LEMMA WorkInv ==
    ASSUME TypeOK, SingleOwner, PayInv, QueueInv, NEW w \in Workers, Work(w)
    PROVE  PayInv'
  <1> DEFINE j == job[w]
  <1>1. pc[w] # "idle" /\ j \in Jobs
    BY WorkBusy DEF TypeOK
  <1>2. Sound(w, j)
    BY <1>1, BeginSound, InspectingSound, SubmittingSound, RecoverSound, TransferringSound,
       ImportingSound, FailingSound, EndingSound DEF Work
  <1> QED
    BY <1>1, <1>2, WorkKeepsProc, SoundStep

LEMMA ClaimInv ==
    ASSUME TypeOK, SingleOwner, PayInv, NEW w \in Workers, NEW j \in Jobs, Claim(w, j)
    PROVE  PayInv'
  <1> DEFINE r == [row[j] EXCEPT !.state = "inspecting"]
  <1>1. row[j] \in Row
    BY DEF TypeOK
  <1>2. /\ r \in Row /\ r.details = row[j].details /\ r.site = row[j].site
        /\ r.state \in Active \cup Stopping
    BY <1>1, StateNames DEF Row, Active
  <1> HIDE DEF r
  <1>3. /\ Write(j, r) /\ UNCHANGED <<consent, sent, proc, snap, heard>>
        /\ proc \in {"up", "stopping"}
    BY DEF Claim, r, Rest, siteVars
  <1>4. /\ row'[j] = r /\ ~page'[j].fresh
        /\ \A k \in Jobs : k # j => row'[k] = row[k] /\ page'[k] = page[k]
    BY <1>2, <1>3, WriteEffect
  <1>5. /\ pc'[w] = "begin" /\ job'[w] = j
        /\ \A v \in Workers : v # w => pc'[v] = pc[v] /\ job'[v] = job[v]
    BY DEF Claim, Goto, TypeOK
  <1>6. ~Owned(j)
    BY DEF Claim, Claimable, SingleOwner
  <1>7. ASSUME NEW k \in Jobs
        PROVE  JobOK(k)'
    <2>1. JobOK(k) /\ row[j].state \in Live
      BY <1>3 DEF PayInv, JobOK, Claim, Claimable, Live
    <2> QED
      BY <1>2, <1>3, <1>4, <2>1, JobKept, JobUntouched
  <1>8. ASSUME NEW v \in Workers
        PROVE  WorkerOK(v)'
    <2>1. CASE v = w
      BY <1>2, <1>4, <1>5, <2>1, WorkerBusy DEF Handling
    <2>2. CASE v # w /\ pc[v] \in Busy
      <3>1. job[v] \in Jobs /\ job[v] # j
        BY <1>6, <2>2 DEF Owned, TypeOK, Busy, Handling
      <3>2. WorkerOK(v) /\ row[job[v]].state \in Active \cup Stopping
        BY <2>2 DEF PayInv, WorkerOK
      <3> QED
        BY <1>3, <1>4, <1>5, <2>2, <3>1, <3>2, WorkerKept
    <2>3. CASE v # w /\ pc[v] \notin Busy
      BY <1>5, <2>3, WorkerFree
    <2> QED
      BY <2>1, <2>2, <2>3
  <1> QED
    BY <1>3, <1>7, <1>8 DEF PayInv, JobOK

-----------------------------------------------------------------------------
(* User commands.                                                          *)

\* A step on job j of someone other than a worker.
Outside(j) ==
    /\ UNCHANGED workerVars /\ proc' = proc
    /\ \A k \in Jobs : k # j => /\ row'[k] = row[k] /\ page'[k] = page[k]
                                /\ consent'[k] = consent[k] /\ sent'[k] = sent[k]

LEMMA OutsideStep ==
    ASSUME TypeOK, PayInv, NEW j \in Jobs, Outside(j), Billed(j)',
           proc # "down" => Ready(j)',
           row[j].state \in Active \cup Stopping =>
             /\ row'[j].state \in Active \cup Stopping
             /\ row'[j].site = row[j].site /\ row'[j].details = row[j].details
             /\ consent'[j] = consent[j] /\ sent'[j] = sent[j]
    PROVE  PayInv'
  <1>1. UNCHANGED <<pc, job, snap, heard>>
    BY DEF Outside, workerVars
  <1>2. ASSUME NEW k \in Jobs, k # j
        PROVE  Billed(k)' /\ (proc # "down" => Ready(k)')
    BY <1>2 DEF PayInv, Outside, Billed, Ready, Clear
  <1>3. ASSUME NEW v \in Workers
        PROVE  WorkerOK(v)'
    <2>1. WorkerOK(v)
      BY DEF PayInv
    <2>2. CASE pc[v] \in Busy
      <3>1. row[job[v]].state \in Active \cup Stopping
        BY <2>1, <2>2 DEF WorkerOK
      <3>2. job[v] \in Jobs
        BY <2>2 DEF TypeOK, Busy, Handling
      <3>3. CASE job[v] = j
        BY <1>1, <2>1, <3>1, <3>3, WorkerKept
      <3>4. CASE job[v] # j
        BY <1>1, <2>1, <3>1, <3>2, <3>4, WorkerKept DEF Outside
      <3> QED
        BY <3>3, <3>4
    <2>3. CASE pc[v] \notin Busy
      BY <1>1, <2>3, WorkerFree
    <2> QED
      BY <2>2, <2>3
  <1>4. proc' \in {"down", "starting"} => Idle'
    BY <1>1 DEF PayInv, Outside, Idle
  <1> QED
    BY <1>2, <1>3, <1>4 DEF PayInv, Outside

LEMMA StartOverEffect ==
    ASSUME TypeOK, NEW j \in Jobs, StartOver(j)
    PROVE  /\ consent'[j] = NoPrice /\ sent'[j] = 0
           /\ \A k \in Jobs : k # j => consent'[k] = consent[k] /\ sent'[k] = sent[k]
  BY DEF StartOver, TypeOK

\* Create, search and choose start over.
LEMMA StartOverInv ==
    ASSUME TypeOK, PayInv, NEW j \in Jobs, StartOver(j), UNCHANGED workerVars, proc' = proc,
           row[j].state \notin Active \cup Stopping,
           row'[j].details.phase = "inspect", ~page'[j].fresh,
           \A k \in Jobs : k # j => row'[k] = row[k] /\ page'[k] = page[k]
    PROVE  PayInv'
  <1>1. Billed(j)' /\ Ready(j)'
    BY StartOverEffect DEF Billed, Ready
  <1>2. Outside(j)
    BY StartOverEffect DEF Outside
  <1> QED
    BY <1>1, <1>2, OutsideStep

LEMMA AnewInv ==
    ASSUME TypeOK, PayInv, NEW j \in Jobs,
           \/ \E entry \in Entries : Create(j, entry)
           \/ \E site \in Sites : Choose(j, site)
           \/ Search(j)
    PROVE  PayInv'
  <1>1. row[j] \in Row /\ row[j].details \in Details
    BY DEF TypeOK, Row
  <1>2. /\ StartOver(j) /\ UNCHANGED workerVars /\ proc' = proc
        /\ row[j].state \notin Active \cup Stopping
    BY DEF Create, Choose, Search, Terminal, Active, Stopping
  <1>3. CASE \E entry \in Entries : Create(j, entry)
    <2>1. PICK entry \in Entries : Write(j, NewRow(j, "queued", entry))
      BY <1>3 DEF Create
    <2>2. NewRow(j, "queued", entry) \in Row /\ NewRow(j, "queued", entry).details.phase = "inspect"
      BY NewRowType, StateNames DEF NewRow, NewDetails
    <2> QED
      BY <1>2, <2>1, <2>2, WriteEffect, StartOverInv
  <1>4. CASE Search(j) \/ \E site \in Sites : Choose(j, site)
    <2>1. PICK site \in Sites, d \in Details :
            d.phase = "inspect" /\ Act(j, "queued", Redirected(row[j], site, d))
      <3>1. CASE Search(j)
        <4> DEFINE d == [row[j].details EXCEPT !.entry = "find_eh", !.phase = "inspect"]
        <4>1. d \in Details /\ d.phase = "inspect" /\ SiteOf(j) \in Sites
          BY <1>1 DEF Details, Entries, Phases, SiteOf, Sites
        <4> QED
          BY <3>1, <4>1 DEF Search
      <3>2. CASE \E site \in Sites : Choose(j, site)
        <4>1. PICK site \in Sites : Choose(j, site)
          BY <3>2
        <4> DEFINE d == [row[j].details EXCEPT
                           !.entry = IF site = "nhentai" THEN "nh_direct" ELSE "find_eh",
                           !.phase = "inspect", !.selected = FALSE]
        <4>2. d \in Details /\ d.phase = "inspect"
          BY <1>1 DEF Details, Entries, Phases
        <4> QED
          BY <4>1, <4>2 DEF Choose
      <3> QED
        BY <1>4, <3>1, <3>2
    <2> DEFINE r == Redirected(row[j], site, d)
    <2>2. r \in Row /\ r.details.phase = "inspect"
      <3>1. r \in Row
        BY <1>1, RedirectedType
      <3>2. Forget(d).phase = "inspect" /\ r.details = Forget(d)
        BY <1>1, <2>1 DEF Redirected, Forget, Row, Details
      <3> QED
        BY <3>1, <3>2
    <2> HIDE DEF r
    <2>3. Act(j, "queued", r)
      BY <2>1 DEF r
    <2> QED
      BY <1>2, <2>2, <2>3, ActEffect, StartOverInv, StateNames
  <1> QED
    BY <1>3, <1>4

LEMMA ApproveInv ==
    ASSUME TypeOK, PayInv, NEW j \in Jobs, Look(j) \/ Approve(j)
    PROVE  PayInv'
  <1>1. /\ UNCHANGED workerVars /\ proc' = proc /\ row[j].state \notin Active \cup Stopping
        /\ row[j] \in Row /\ row[j].details \in Details /\ JobOK(j)
    BY DEF Look, Approve, Offered, Active, Stopping, TypeOK, Row, PayInv, JobOK
  <1>2. CASE Look(j)
    <2>1. /\ UNCHANGED <<row, consent, sent>> /\ page'[j].price = row[j].details.quote
          /\ \A k \in Jobs : k # j => page'[k] = page[k]
      BY <1>2 DEF Look, TypeOK, siteVars
    <2>2. JobOK(j)'
      BY <1>1, <2>1, JobKept
    <2> QED
      BY <1>1, <2>1, <2>2, OutsideStep DEF Outside, JobOK
  <1>3. CASE Approve(j)
    <2> DEFINE r == [row[j] EXCEPT !.details.approved = row[j].details.quote,
                                   !.details.phase = "submit"]
    <2>1. r \in Row /\ r.details.approved = row[j].details.quote
      BY <1>1 DEF Row, Details, Phases
    <2> HIDE DEF r
    <2>2. Act(j, "queued", r)
      BY <1>3 DEF Approve, r
    <2>3. /\ row'[j].details = r.details /\ ~page'[j].fresh
          /\ \A k \in Jobs : k # j => row'[k] = row[k] /\ page'[k] = page[k]
      BY <2>1, <2>2, ActEffect, StateNames
    <2>4. /\ consent'[j] = page[j].price /\ sent'[j] = 0
          /\ \A k \in Jobs : k # j => consent'[k] = consent[k] /\ sent'[k] = sent[k]
      BY <1>3 DEF Approve, TypeOK
    <2>5. page[j].price = row[j].details.quote /\ row[j].details.quote # NoPrice
      BY <1>1, <1>3 DEF Approve, SamePage, JobOK, Billed
    <2>6. JobOK(j)'
      BY <2>1, <2>3, <2>4, <2>5 DEF JobOK, Billed, Ready, Clear
    <2> QED
      BY <1>1, <2>3, <2>4, <2>6, OutsideStep DEF Outside, JobOK
  <1> QED
    BY <1>2, <1>3

LEMMA StopInv ==
    ASSUME TypeOK, PayInv, NEW j \in Jobs, Pause(j) \/ Skip(j) \/ Resume(j) \/ Cancel(j)
    PROVE  PayInv'
  <1>1. /\ UNCHANGED <<workerVars, consent, sent>> /\ proc' = proc
        /\ row[j] \in Row /\ row[j].details \in Details /\ JobOK(j)
    BY DEF Pause, Skip, Resume, Cancel, Offered, TypeOK, Row, PayInv, JobOK, siteVars
  <1>2. PICK s \in States, r \in Row :
          /\ Act(j, s, r) /\ r.site = row[j].site
          /\ r.details.approved = row[j].details.approved
          /\ r.details.phase = "submit" /\ s \in Live =>
               row[j].details.phase = "submit" /\ row[j].state \in Live
          /\ row[j].state \in Active \cup Stopping => s \in Stopping /\ r = row[j]
    <2>1. CASE Pause(j) \/ Skip(j)
      <3>1. PICK s \in States : /\ Act(j, s, row[j])
                                /\ row[j].state \in Active \cup Stopping => s \in Stopping
                                /\ s \in Live => row[j].state \in Live
        BY <2>1, StateNames DEF Pause, Skip, Active, Stopping, Live
      <3> QED
        BY <1>1, <3>1
    <2>2. CASE Resume(j)
      <3> DEFINE r == [row[j] EXCEPT !.details.phase = ResumePhase(row[j])]
      <3>1. ResumePhase(row[j]) \in Phases /\ ResumePhase(row[j]) # "submit"
        BY DEF ResumePhase, Phases
      <3>2. /\ r \in Row /\ r.site = row[j].site /\ r.details.phase # "submit"
            /\ r.details.approved = row[j].details.approved
        BY <1>1, <3>1 DEF Row, Details
      <3>3. Act(j, "queued", r) /\ row[j].state \notin Active \cup Stopping
        BY <2>2 DEF Resume, Active, Stopping
      <3> HIDE DEF r
      <3> QED
        BY <3>2, <3>3, StateNames
    <2>3. CASE Cancel(j)
      <3> DEFINE r == [row[j] EXCEPT !.details.sha = FALSE]
      <3>1. /\ r \in Row /\ r.site = row[j].site /\ r.details.phase = row[j].details.phase
            /\ r.details.approved = row[j].details.approved
        BY <1>1 DEF Row, Details
      <3> HIDE DEF r
      <3>2. CASE Running(row[j].state)
        <4>1. Act(j, "cancelling", row[j]) /\ "cancelling" \in Stopping /\ row[j].state \in Live
          BY <2>3, <3>2 DEF Cancel, Stopping, Running, Live
        <4> QED
          BY <1>1, <4>1, StateNames
      <3>3. CASE ~Running(row[j].state)
        <4>1. /\ Act(j, "cancelled", r) /\ row[j].state \notin Active \cup Stopping
              /\ "cancelled" \notin Live
          BY <2>3, <3>3 DEF Cancel, Running, r, Live, Active, Stopping
        <4> QED
          BY <3>1, <4>1, StateNames
      <3> QED
        BY <3>2, <3>3
    <2> QED
      BY <2>1, <2>2, <2>3
  <1>3. /\ row'[j].details = r.details /\ row'[j].site = r.site /\ row'[j].state = s
        /\ ~page'[j].fresh
        /\ \A k \in Jobs : k # j => row'[k] = row[k] /\ page'[k] = page[k]
    BY <1>2, ActEffect
  <1>4. JobOK(j)'
    BY <1>1, <1>2, <1>3, JobKept
  <1>5. Outside(j)
    BY <1>1, <1>3 DEF Outside
  <1> QED
    BY <1>1, <1>2, <1>3, <1>4, <1>5, OutsideStep DEF JobOK

LEMMA OtherInv ==
    ASSUME TypeOK, PayInv, NEW j \in Jobs, CancelFiles(j) \/ Due(j) \/ Lapse(j)
    PROVE  PayInv'
  <1>1. /\ UNCHANGED <<workerVars, page, consent, sent>> /\ proc' = proc /\ row[j] \in Row
        /\ Billed(j) /\ (proc # "down" => Ready(j))
    BY DEF CancelFiles, Due, Lapse, siteVars, TypeOK, PayInv
  <1>2. /\ row'[j].details = row[j].details /\ row'[j].site = row[j].site
        /\ row'[j].state = row[j].state
        /\ \A k \in Jobs : k # j => row'[k] = row[k]
    BY <1>1 DEF CancelFiles, Due, Lapse, TypeOK, Row
  <1>3. Billed(j)' /\ (proc # "down" => Ready(j)')
    BY <1>1, <1>2 DEF Billed, Ready, Clear
  <1> QED
    BY <1>1, <1>2, <1>3, OutsideStep DEF Outside

LEMMA ProcessInv ==
    ASSUME TypeOK, PayInv, Process
    PROVE  PayInv'
  <1>1. CASE Crash \/ Closed
    <2>1. Vanish
      BY <1>1 DEF Crash, Closed
    <2>2. /\ UNCHANGED <<row, page, consent, sent>> /\ Idle'
      BY <2>1 DEF Vanish, Idle, siteVars
    <2>3. proc' = "down" /\ \A j \in Jobs : Billed(j)'
      BY <2>1, <2>2 DEF Vanish, PayInv, Billed
    <2>4. \A w \in Workers : WorkerOK(w)'
      BY <2>2, WorkerFree DEF Idle, Busy, Handling
    <2> QED
      BY <2>2, <2>3, <2>4 DEF PayInv
  <1>2. CASE Stop \/ Started
    <2>1. UNCHANGED <<row, page, consent, sent, pc, job, snap, heard>> /\ proc' \in {"up", "stopping"}
      BY <1>2 DEF Stop, Started, workerVars, siteVars
    <2>2. proc # "down"
      BY <1>2 DEF Stop, Started
    <2> QED
      BY <2>1, <2>2 DEF PayInv, Billed, Ready, WorkerOK, Clear
  <1>3. CASE Start
    <2>1. Idle /\ UNCHANGED <<pc, job, consent, sent>>
      BY <1>3 DEF Start, PayInv, workerVars, siteVars
    <2>2. ASSUME NEW j \in Jobs
          PROVE  Billed(j)' /\ Ready(j)'
      <3>1. row[j] \in Row /\ Billed(j) /\ page[j] \in [price: AnyPrice, fresh: BOOLEAN]
        BY DEF TypeOK, PayInv
      <3>2. /\ row'[j] = Restarted(row[j])
            /\ page'[j] = [page[j] EXCEPT !.fresh = @ /\ Restarted(row[j]) = row[j]]
        BY <1>3 DEF Start
      <3>3. row'[j].details = row[j].details /\ row'[j].state \notin Live
        BY <3>1, <3>2 DEF Restarted, Row, Live, Active, Stopping
      <3>4. page'[j].fresh => page'[j].price = row'[j].details.quote
        BY <3>1, <3>2, <3>3 DEF Billed
      <3> QED
        BY <2>1, <3>1, <3>3, <3>4 DEF Billed, Ready
    <2>3. \A w \in Workers : WorkerOK(w)'
      BY <2>1, WorkerFree DEF Idle, Busy, Handling
    <2> QED
      BY <2>1, <2>2, <2>3 DEF PayInv, Idle
  <1> QED
    BY <1>1, <1>2, <1>3 DEF Process

-----------------------------------------------------------------------------

LEMMA PayInvStep == TypeOK /\ SingleOwner /\ PayInv /\ QueueInv /\ [Next]_vars => PayInv'
  <1> SUFFICES ASSUME TypeOK, SingleOwner, PayInv, QueueInv, [Next]_vars PROVE PayInv'
    OBVIOUS
  <1>1. ASSUME NEW w \in Workers, Work(w) \/ \E j \in Jobs : Claim(w, j)
        PROVE  PayInv'
    BY <1>1, WorkInv, ClaimInv
  <1>2. ASSUME NEW j \in Jobs, Command(j) \/ CancelFiles(j) \/ Due(j) \/ Lapse(j)
        PROVE  PayInv'
    BY <1>2, AnewInv, ApproveInv, StopInv, OtherInv DEF Command
  <1>3. CASE Process
    BY <1>3, ProcessInv
  <1>4. CASE UNCHANGED vars
    <2>1. UNCHANGED <<row, page, consent, sent, pc, job, snap, heard, proc>>
      BY <1>4 DEF vars, workerVars, siteVars
    <2> QED
      BY <2>1 DEF PayInv, Billed, Ready, WorkerOK, Clear, Idle
  <1> QED
    BY <1>1, <1>2, <1>3, <1>4 DEF Next

LEMMA PayInvInit == Init => PayInv
  <1> SUFFICES ASSUME Init PROVE PayInv
    OBVIOUS
  <1>1. ASSUME NEW j \in Jobs
        PROVE  Billed(j) /\ Ready(j)
    BY DEF Init, Billed, Ready, NewRow, NewDetails
  <1>2. Idle /\ \A w \in Workers : WorkerOK(w)
    BY DEF Init, Idle, WorkerOK, Busy, Handling
  <1> QED
    BY <1>1, <1>2 DEF PayInv

-----------------------------------------------------------------------------
(* The queue: what its steps promise, job by job.                          *)

\* The three promises of EndsAsTold about one job.
DoneFinal(j) ==
    row[j].state = "done" /\ row'[j].state # "done" =>
        row'[j].state = "queued" /\ row'[j].details.phase = "inspect" /\ ~row'[j].book
Honoured(j) == row[j].state \in Stopping => row'[j].state \in Stopping \cup Final
Evident(j) ==
    Uncertain(row[j].details) /\ ~Uncertain(row'[j].details) =>
        \/ consent'[j] = NoPrice
        \/ \E w \in Workers : /\ job[w] = j
                              /\ \/ pc[w] = "link"
                                 \/ pc[w] = "clear" /\ snap[w].details.phase = "uncertain"
                                 \/ pc[w] = "recover" /\ row'[j].secret
Told(j) == DoneFinal(j) /\ Honoured(j) /\ Evident(j)

\* The steps of Purchase, for one job.
Doubt(j) == Uncertain(row[j].details)
SameDoubt(j) == Uncertain(row'[j].details) <=> Uncertain(row[j].details)
Stays(j) ==
    SameDoubt(j) /\ consent'[j] = consent[j] /\ sent'[j] = sent[j] /\ unlocked'[j] = unlocked[j]
Agrees(j) == /\ ~Doubt(j) /\ ~Doubt(j)' /\ consent'[j] \in Prices /\ sent'[j] = 0
             /\ unlocked'[j] = unlocked[j]
Arms(j) == /\ ~Doubt(j) /\ Doubt(j)' /\ consent[j] # NoPrice /\ sent[j] = 0
           /\ consent'[j] = consent[j] /\ sent'[j] = sent[j] /\ unlocked'[j] = unlocked[j]
Sends(j) == /\ Doubt(j) /\ Doubt(j)' /\ sent[j] = 0 /\ unlocked[j] = 0
            /\ sent'[j] = 1 /\ unlocked'[j] \in 0 .. 1 /\ consent'[j] = consent[j]
Learns(j) == /\ Doubt(j) /\ ~Doubt(j)'
             /\ consent'[j] = consent[j] /\ sent'[j] = sent[j] /\ unlocked'[j] = unlocked[j]
Anew(j) == ~Doubt(j)' /\ consent'[j] = NoPrice /\ sent'[j] = 0 /\ unlocked'[j] = unlocked[j]
Lapses(j) == SameDoubt(j) /\ consent'[j] = consent[j] /\ sent'[j] = sent[j] /\ unlocked'[j] = 0
Money(j) == Stays(j) \/ Agrees(j) \/ Arms(j) \/ Sends(j) \/ Learns(j) \/ Anew(j) \/ Lapses(j)

\* What every step has to keep.
Kept == QueueInv' /\ (\A j \in Jobs : Told(j)) /\ [P!Next]_(P!money)

\* Nothing happens to job k.
Untouched(k) ==
    /\ row'[k] = row[k] /\ file'[k] = file[k] /\ locked'[k] = locked[k]
    /\ published'[k] = published[k] /\ unlocked'[k] = unlocked[k]
    /\ consent'[k] = consent[k] /\ sent'[k] = sent[k]

-----------------------------------------------------------------------------
(* From one job, or one worker, to the whole queue.                        *)

LEMMA UntouchedKept ==
    ASSUME NEW k \in Jobs, Untouched(k)
    PROVE  Told(k) /\ Stays(k)
  BY DEF Untouched, Told, DoneFinal, Honoured, Evident, Stays, SameDoubt

\* A step of one job is a step of Purchase, or none.
LEMMA MoneyStep ==
    ASSUME TypeOK, TypeOK', NEW j \in Jobs, Money(j), \A k \in Jobs : k # j => Stays(k)
    PROVE  [P!Next]_(P!money)
  <1> DEFINE doubt == [k \in Jobs |-> Uncertain(row[k].details)]
             later == [k \in Jobs |-> Uncertain(row'[k].details)]
  <1>1. /\ consent \in [Jobs -> AnyPrice] /\ consent' \in [Jobs -> AnyPrice]
        /\ sent \in [Jobs -> Nat] /\ sent' \in [Jobs -> Nat]
        /\ unlocked \in [Jobs -> Nat] /\ unlocked' \in [Jobs -> Nat]
    BY DEF TypeOK
  <1>2. \A k \in Jobs : Uncertain(row[k].details) \in BOOLEAN /\ Uncertain(row'[k].details) \in BOOLEAN
    BY DEF TypeOK, Row, Details, Uncertain
  <1>3. \A k \in Jobs : k # j => /\ consent'[k] = consent[k] /\ sent'[k] = sent[k]
                                 /\ unlocked'[k] = unlocked[k] /\ later[k] = doubt[k]
    BY <1>2 DEF Stays, SameDoubt
  <1>4. /\ doubt[j] = Doubt(j) /\ later[j] = Doubt(j)'
    BY DEF Doubt
  <1>5. doubt \in [Jobs -> BOOLEAN] /\ later \in [Jobs -> BOOLEAN]
    BY <1>2
  <1> HIDE DEF doubt, later
  <1>6. /\ consent' = [consent EXCEPT ![j] = consent'[j]]
        /\ sent' = [sent EXCEPT ![j] = sent'[j]]
        /\ unlocked' = [unlocked EXCEPT ![j] = unlocked'[j]]
        /\ later = [doubt EXCEPT ![j] = later[j]]
    BY <1>1, <1>3, <1>5
  <1>7. /\ consent'[j] = consent[j] => consent' = consent
        /\ sent'[j] = sent[j] => sent' = sent
        /\ unlocked'[j] = unlocked[j] => unlocked' = unlocked
        /\ later[j] = doubt[j] => later = doubt
    BY <1>1, <1>3, <1>5
  <1>8. CASE Stays(j)
    <2>1. later[j] = doubt[j]
      BY <1>2, <1>8, <1>4 DEF Stays, SameDoubt, Doubt
    <2> QED
      BY <1>7, <1>8, <2>1 DEF Stays, P!money, doubt, later
  <1>9. CASE Agrees(j)
    <2>1. P!Agree(j, consent'[j])
      BY <1>4, <1>5, <1>6, <1>7, <1>9 DEF Agrees, P!Agree, doubt, later
    <2> QED
      BY <1>9, <2>1 DEF Agrees, P!Next
  <1>10. CASE Arms(j)
    <2>1. P!Arm(j)
      BY <1>4, <1>5, <1>6, <1>7, <1>10 DEF Arms, P!Arm, doubt, later
    <2> QED
      BY <2>1 DEF P!Next
  <1>11. CASE Sends(j)
    <2>1. P!Send(j)
      <3>1. later = doubt
        BY <1>4, <1>5, <1>7, <1>11 DEF Sends
      <3> QED
        BY <1>4, <1>6, <1>7, <1>11, <3>1 DEF Sends, P!Send, doubt, later
    <2> QED
      BY <2>1 DEF P!Next
  <1>12. CASE Learns(j)
    <2>1. P!Learn(j)
      BY <1>4, <1>5, <1>6, <1>7, <1>12 DEF Learns, P!Learn, doubt, later
    <2> QED
      BY <2>1 DEF P!Next
  <1>13. CASE Anew(j)
    <2>1. P!StartOver(j)
      BY <1>4, <1>5, <1>6, <1>7, <1>13 DEF Anew, P!StartOver, doubt, later
    <2> QED
      BY <2>1 DEF P!Next
  <1>14. CASE Lapses(j)
    <2>1. later[j] = doubt[j]
      BY <1>2, <1>14, <1>4 DEF Lapses, SameDoubt, Doubt
    <2>2. P!Lapse(j)
      BY <1>6, <1>7, <1>14, <2>1 DEF Lapses, P!Lapse, doubt, later
    <2> QED
      BY <2>2 DEF P!Next
  <1> QED
    BY <1>8, <1>9, <1>10, <1>11, <1>12, <1>13, <1>14 DEF Money

\* A step that leaves the money of every job alone.
LEMMA MoneyStill ==
    ASSUME TypeOK, TypeOK', \A k \in Jobs : Stays(k)
    PROVE  [P!Next]_(P!money)
  <1>1. \A k \in Jobs : Uncertain(row[k].details) \in BOOLEAN /\ Uncertain(row'[k].details) \in BOOLEAN
    BY DEF TypeOK, Row, Details, Uncertain
  <1>2. [k \in Jobs |-> Uncertain(row'[k].details)] = [k \in Jobs |-> Uncertain(row[k].details)]
    BY <1>1 DEF Stays, SameDoubt
  <1>3. consent' = consent /\ sent' = sent /\ unlocked' = unlocked
    BY DEF Stays, TypeOK
  <1> QED
    BY <1>2, <1>3 DEF P!money

\* What w does is about job j: no other job and no other worker changes.
Local(w, j) ==
    /\ proc' = proc /\ proc \in {"up", "stopping"}
    /\ \A k \in Jobs : k # j => Untouched(k)
    /\ \A v \in Workers : v # w => /\ pc'[v] = pc[v] /\ job'[v] = job[v] /\ snap'[v] = snap[v]
                                   /\ heard'[v] = heard[v] /\ err'[v] = err[v]
                                   /\ verdict'[v] = verdict[v]
                                   /\ pc[v] # "idle" => job[v] # j
    /\ pc[w] # "idle" => job[w] = j
    /\ pc'[w] # "idle" => job'[w] = j
\* What has to be shown of such a step.
Good(w, j) ==
    /\ Local(w, j) /\ Told(j) /\ Money(j)
    /\ QueueJobOK(j)'
    /\ pc'[w] # "idle" => QueueWorkerOK(w)'

LEMMA JobOKUntouched ==
    ASSUME QueueInv, NEW k \in Jobs, Untouched(k), proc' = proc, Owned(k)' <=> Owned(k)
    PROVE  QueueJobOK(k)'
  <1>1. QueueJobOK(k)
    BY DEF QueueInv
  <1> QED
    BY <1>1 DEF QueueJobOK, Untouched, Swept

LEMMA WorkerOKUntouched ==
    ASSUME NEW v \in Workers, QueueWorkerOK(v), Untouched(job[v]), pc'[v] = pc[v], job'[v] = job[v],
           snap'[v] = snap[v], heard'[v] = heard[v], err'[v] = err[v], verdict'[v] = verdict[v]
    PROVE  QueueWorkerOK(v)'
  BY DEF QueueWorkerOK, HandlerOK, Untouched, EndOK, Sweeping, Swept

LEMMA GoodStep ==
    ASSUME TypeOK, TypeOK', QueueInv, NEW w \in Workers, NEW j \in Jobs, Good(w, j)
    PROVE  Kept
  <1>0. Local(w, j)
    BY DEF Good
  <1>1. \A k \in Jobs : k # j => Untouched(k)
    BY <1>0 DEF Local
  <1>v. ASSUME NEW v \in Workers, v # w
        PROVE  /\ pc'[v] = pc[v] /\ job'[v] = job[v] /\ snap'[v] = snap[v]
               /\ heard'[v] = heard[v] /\ err'[v] = err[v] /\ verdict'[v] = verdict[v]
               /\ pc[v] # "idle" => job[v] # j
    BY <1>0, <1>v DEF Local
  <1>2. ASSUME NEW k \in Jobs, k # j
        PROVE  QueueJobOK(k)'
    <2>1. ASSUME NEW v \in Workers
          PROVE  pc'[v] # "idle" /\ job'[v] = k <=> pc[v] # "idle" /\ job[v] = k
      <3>1. CASE v = w
        BY <1>0, <1>2, <3>1 DEF Local
      <3>2. CASE v # w
        BY <1>v, <3>2
      <3> QED
        BY <3>1, <3>2
    <2>2. Owned(k)' <=> Owned(k)
      BY <2>1 DEF Owned
    <2>3. proc' = proc /\ Untouched(k)
      BY <1>0, <1>1, <1>2 DEF Local
    <2> QED
      BY <2>2, <2>3, JobOKUntouched
  <1>3. ASSUME NEW v \in Workers, v # w, pc'[v] # "idle"
        PROVE  QueueWorkerOK(v)'
    <2>1. pc[v] # "idle" /\ job[v] # j
      BY <1>3, <1>v
    <2>2. QueueWorkerOK(v) /\ job[v] \in Jobs
      BY <2>1 DEF QueueInv, TypeOK
    <2>3. Untouched(job[v])
      BY <1>1, <2>1, <2>2
    <2> QED
      BY <1>3, <1>v, <2>2, <2>3, WorkerOKUntouched
  <1>4. QueueInv'
    BY <1>2, <1>3 DEF QueueInv, Good
  <1>5. \A k \in Jobs : k # j => Told(k) /\ Stays(k)
    BY <1>1, UntouchedKept
  <1>6. [P!Next]_(P!money)
    BY <1>5, MoneyStep DEF Good
  <1> QED
    BY <1>4, <1>5, <1>6 DEF Kept, Good

-----------------------------------------------------------------------------
(* What a write does to the whole row.                                     *)

LEMMA UpdateRow ==
    ASSUME TypeOK, NEW j \in Jobs, NEW r \in Row, Update(j, r)
    PROVE  /\ row'[j] \in Row /\ row'[j].details = r.details /\ row'[j].site = r.site
           /\ row'[j].secret = r.secret /\ row'[j].book = r.book
           /\ row'[j].state = Landing(row[j].state, r.state)
           /\ \A k \in Jobs : k # j => row'[k] = row[k]
  <1> DEFINE landed == [r EXCEPT !.state = Landing(row[j].state, r.state)]
  <1>1. row[j].state \in States /\ r.state \in States
    BY DEF TypeOK, Row
  <1>2. landed \in Row
    BY <1>1, LandingType DEF Row
  <1>3. row'[j] = landed /\ \A k \in Jobs : k # j => row'[k] = row[k]
    BY <1>2, WriteEffect DEF Update
  <1>4. /\ landed.details = r.details /\ landed.site = r.site /\ landed.secret = r.secret
        /\ landed.book = r.book /\ landed.state = Landing(row[j].state, r.state)
    BY DEF Row
  <1> QED
    BY <1>2, <1>3, <1>4

LEMMA ActRow ==
    ASSUME TypeOK, NEW j \in Jobs, NEW r \in Row, NEW s \in States, Act(j, s, r)
    PROVE  /\ row'[j] \in Row /\ row'[j].details = r.details /\ row'[j].site = r.site
           /\ row'[j].secret = r.secret /\ row'[j].book = r.book /\ row'[j].state = s
           /\ \A k \in Jobs : k # j => row'[k] = row[k]
  <1> DEFINE acted == [r EXCEPT !.state = s, !.held = FALSE, !.attempts = 0]
  <1>1. acted \in Row
    <2>1. 0 \in 0 .. MaxAttempts
      BY CountAssumption
    <2> QED
      BY <2>1 DEF Row
  <1>2. row'[j] = acted /\ \A k \in Jobs : k # j => row'[k] = row[k]
    BY <1>1, WriteEffect DEF Act
  <1>3. /\ acted.details = r.details /\ acted.site = r.site /\ acted.secret = r.secret
        /\ acted.book = r.book /\ acted.state = s
    BY DEF Row
  <1> QED
    BY <1>1, <1>2, <1>3
-----------------------------------------------------------------------------
(* The forms the steps of a worker have.                                   *)

LEMMA WorkLocal ==
    ASSUME TypeOK, SingleOwner, PayInv, NEW w \in Workers, NEW j \in Jobs, pc[w] # "idle",
           job[w] = j, proc' = proc, NEW p, Goto(w, p), job' = job,
           \A v \in Workers : v # w => /\ snap'[v] = snap[v] /\ heard'[v] = heard[v]
                                       /\ err'[v] = err[v] /\ verdict'[v] = verdict[v],
           \A k \in Jobs : k # j => Untouched(k)
    PROVE  Local(w, j) /\ pc'[w] = p
  <1>1. pc'[w] = p /\ \A v \in Workers : v # w => pc'[v] = pc[v]
    BY DEF Goto, TypeOK
  <1>2. proc \in {"up", "stopping"}
    BY DEF PayInv, Idle, TypeOK
  <1>3. \A v \in Workers : v # w /\ pc[v] # "idle" => job[v] # j
    BY DEF SingleOwner
  <1> QED
    BY <1>1, <1>2, <1>3 DEF Local

\* A job that is not handled keeps its order: only its row matters.
LEMMA JobAtWork ==
    ASSUME TypeOK, NEW w \in Workers, NEW j \in Jobs, Local(w, j), pc[w] # "idle", pc'[w] # "idle",
           QueueInv, RowOK(row'[j]), locked'[j] = locked[j], unlocked'[j] <= 1,
           locked[j] => row'[j].state \notin Live,
           row'[j].state = "done" => row'[j].book /\ published'[j]
    PROVE  QueueJobOK(j)'
  <1>1. Owned(j)'
    BY DEF Local, Owned
  <1>2. proc' \in {"up", "stopping"}
    BY DEF Local
  <1> QED
    BY <1>1, <1>2 DEF QueueJobOK

\* A worker that raises keeps the row.
LEMMA RaiseGood ==
    ASSUME TypeOK, SingleOwner, PayInv, QueueInv, NEW w \in Workers, NEW j \in Jobs,
           pc[w] \notin {"idle", "clean"}, job[w] = j, NEW e, Raise(w, e),
           UNCHANGED <<row, file, Rest>>,
           \A k \in Jobs : k # j => /\ unlocked'[k] = unlocked[k]
                                    /\ consent'[k] = consent[k] /\ sent'[k] = sent[k],
           unlocked'[j] <= 1, Money(j), row[j].state # "done",
           e # "none" => row[j].state \in Active \cup Stopping,
           e \in RefusedBeforeCharge => row[j].details = snap[w].details
    PROVE  Good(w, j)
  <1>1. Local(w, j) /\ pc'[w] = "finish"
    BY WorkLocal DEF Raise, Rest, Untouched, TypeOK
  <1>2. Told(j)
    BY DEF Told, DoneFinal, Honoured, Evident
  <1>3. QueueJobOK(j) /\ QueueWorkerOK(w)
    BY DEF QueueInv
  <1>4. QueueJobOK(j)'
    BY <1>1, <1>3, JobAtWork DEF QueueJobOK, Rest
  <1>5. /\ err'[w] = e /\ job'[w] = j /\ snap'[w] = snap[w] /\ Swept(j)
    BY <1>3 DEF Raise, TypeOK, QueueWorkerOK, Sweeping
  <1>6. QueueWorkerOK(w)'
    BY <1>1, <1>5 DEF QueueWorkerOK, HandlerOK, PhaseOK, EndOK, Sweeping, Swept, Rest
  <1> QED
    BY <1>1, <1>2, <1>4, <1>6 DEF Good

\* A worker in its handler that raises has changed nothing.
LEMMA RaiseInHandler ==
    ASSUME TypeOK, SingleOwner, PayInv, QueueInv, NEW w \in Workers, NEW j \in Jobs,
           pc[w] \in Handling, job[w] = j, NEW e, Raise(w, e),
           UNCHANGED <<row, file, Rest, siteVars>>
    PROVE  Good(w, j)
  <1>1. /\ pc[w] \notin {"idle", "clean"} /\ row[j].details = snap[w].details
        /\ row[j].state \in Active \cup Stopping
    BY HandlerFacts DEF Handling
  <1>2. Money(j) /\ unlocked'[j] <= 1
    BY DEF Money, Stays, SameDoubt, siteVars, QueueInv, QueueJobOK
  <1>3. row[j].state # "done"
    BY <1>1 DEF Active, Stopping
  <1> QED
    BY <1>1, <1>2, <1>3, RaiseGood DEF siteVars

\* A worker in its handler holds a row that is at work and unlocked.
LEMMA AtWork ==
    ASSUME TypeOK, PayInv, QueueInv, NEW w \in Workers, NEW j \in Jobs, job[w] = j,
           pc[w] \in Busy
    PROVE  /\ pc[w] # "idle" /\ pc[w] # "clean" /\ row[j].state \in Active \cup Stopping
           /\ row[j].state \in Live /\ ~locked[j] /\ RowOK(row[j]) /\ unlocked[j] <= 1
           /\ row[j].state \notin {"done", "cancelled", "queued", "needs_approval"}
           /\ QueueJobOK(j) /\ QueueWorkerOK(w)
  <1>1. pc[w] # "idle" /\ pc[w] # "clean"
    BY DEF Busy, Handling
  <1>2. row[j].state \in Active \cup Stopping
    BY DEF PayInv, WorkerOK
  <1>3. QueueJobOK(j) /\ QueueWorkerOK(w)
    BY <1>1 DEF QueueInv
  <1>4. row[j].state \in Live
    BY <1>2 DEF Live
  <1>5. ~locked[j]
    BY <1>3, <1>4 DEF QueueJobOK
  <1> QED
    BY <1>1, <1>2, <1>3, <1>4, <1>5 DEF QueueJobOK, Active, Stopping

\* The row of a job that goes on to another phase, or waits.
NextRowOK(r, j) ==
    LET d == r.details IN
    /\ r \in Row /\ r.site = row[j].site
    /\ r.state \in {"queued", "needs_choice", "needs_approval", "needs_attention", "paused"}
    /\ d.phase \in Runnable
    /\ d.phase = "submit" => d.approved # NoPrice
    /\ d.phase \in {"transfer", "import"} => r.secret
    /\ d.phase = "import" => d.sha
    /\ d.uncertain => d.phase = "recover" /\ r.site = "eh" /\ r.state # "needs_approval"

\* The last write of a handler.
LEMMA LeaveGood ==
    ASSUME TypeOK, SingleOwner, PayInv, QueueInv, NEW w \in Workers, NEW j \in Jobs,
           pc[w] \in Handling, job[w] = j, NEW r, NextRowOK(r, j), Leave(w, r),
           UNCHANGED <<file, Rest, unlocked>>,
           \A k \in Jobs : k # j => consent'[k] = consent[k] /\ sent'[k] = sent[k],
           Doubt(j) /\ ~Uncertain(r.details) => pc[w] = "recover" /\ r.secret,
           \/ UNCHANGED <<consent, sent>> /\ (Uncertain(r.details) => Doubt(j))
           \/ Agrees(j)
    PROVE  Good(w, j)
  <1>1. /\ pc[w] # "idle" /\ row[j].state \in Active \cup Stopping /\ ~locked[j]
        /\ unlocked[j] <= 1 /\ row[j].state # "done"
    BY AtWork DEF Busy
  <1>2. /\ row'[j].details = r.details /\ row'[j].site = r.site /\ row'[j].secret = r.secret
        /\ row'[j].state = Landing(row[j].state, r.state)
        /\ \A k \in Jobs : k # j => row'[k] = row[k]
    BY UpdateRow DEF Leave, NextRowOK
  <1>3. Local(w, j) /\ pc'[w] = "check"
    BY <1>1, <1>2, WorkLocal DEF Leave, Locals, Rest, Untouched
  <1>4. /\ row'[j].state \in Stopping \cup {r.state}
        /\ row[j].state \in Stopping => row'[j].state \in Stopping \cup Final
    BY <1>2 DEF Landing
  <1>5. row'[j].state \notin Active \cup {"done", "cancelled"}
    BY <1>4 DEF NextRowOK, Stopping, Active
  <1>6. RowOK(row'[j])
    <2>1. row'[j].state = "needs_approval" => r.state = "needs_approval"
      BY <1>4 DEF Stopping
    <2> QED
      BY <1>2, <2>1 DEF NextRowOK, RowOK, Runnable, Phases
  <1>7. QueueJobOK(j)'
    BY <1>1, <1>3, <1>5, <1>6, JobAtWork DEF Rest
  <1>8. QueueWorkerOK(w)'
    BY <1>3, <1>5 DEF QueueWorkerOK, HandlerOK, PhaseOK, EndOK, Sweeping, Swept, Local
  <1>9. Told(j)
    BY <1>1, <1>2, <1>4 DEF Told, DoneFinal, Honoured, Evident, Doubt
  <1>10. Money(j)
    <2>1. CASE Agrees(j)
      BY <2>1 DEF Money
    <2>2. CASE UNCHANGED <<consent, sent>> /\ (Uncertain(r.details) => Doubt(j))
      <3>1. CASE Doubt(j) /\ ~Uncertain(r.details)
        BY <1>2, <2>2, <3>1 DEF Money, Learns, Doubt
      <3>2. CASE Doubt(j) <=> Uncertain(r.details)
        BY <1>2, <2>2, <3>2 DEF Money, Stays, SameDoubt, Doubt
      <3> QED
        BY <2>2, <3>1, <3>2
    <2> QED
      BY <2>1, <2>2
  <1> QED
    BY <1>3, <1>7, <1>8, <1>9, <1>10 DEF Good
\* A step inside a handler.
LEMMA HandlerGood ==
    ASSUME TypeOK, SingleOwner, PayInv, QueueInv, NEW w \in Workers, NEW j \in Jobs,
           pc[w] \in Busy, job[w] = j, NEW p \in Handling, Goto(w, p), job' = job, proc' = proc,
           \A v \in Workers : v # w => /\ snap'[v] = snap[v] /\ heard'[v] = heard[v]
                                       /\ err'[v] = err[v] /\ verdict'[v] = verdict[v],
           \A k \in Jobs : k # j => Untouched(k),
           RowOK(row'[j]), row'[j].state \in Active \cup Stopping,
           row[j].state \in Stopping => row'[j].state \in Stopping \cup Final,
           locked'[j] = locked[j], unlocked'[j] <= 1,
           Doubt(j) /\ ~Uncertain(row'[j].details) => pc[w] = "link",
           Money(j), HandlerOK(w)'
    PROVE  Good(w, j)
  <1>1. /\ pc[w] # "idle" /\ ~locked[j] /\ row[j].state # "done"
    BY AtWork
  <1>2. Local(w, j) /\ pc'[w] = p /\ p # "idle"
    BY <1>1, WorkLocal DEF Handling
  <1>3. row'[j].state \notin {"done", "cancelled"}
    BY DEF Active, Stopping
  <1>4. QueueJobOK(j)'
    BY <1>1, <1>2, <1>3, JobAtWork
  <1>5. EndOK(w, row[j])' /\ Swept(j)'
    BY <1>2, <1>3 DEF EndOK, Swept, Handling
  <1>6. QueueWorkerOK(w)'
    BY <1>2, <1>5 DEF QueueWorkerOK, Local
  <1>7. Told(j)
    BY <1>1 DEF Told, DoneFinal, Honoured, Evident, Doubt
  <1> QED
    BY <1>2, <1>4, <1>6, <1>7 DEF Good

\* A step inside a handler that leaves everything but its own variables alone.
LEMMA ControlGood ==
    ASSUME TypeOK, SingleOwner, PayInv, QueueInv, NEW w \in Workers, NEW j \in Jobs,
           pc[w] \in Busy, job[w] = j, NEW p \in Handling, Goto(w, p),
           UNCHANGED <<job, row, file, Rest, siteVars>>,
           \A v \in Workers : v # w => /\ snap'[v] = snap[v] /\ heard'[v] = heard[v]
                                       /\ err'[v] = err[v] /\ verdict'[v] = verdict[v],
           HandlerOK(w)'
    PROVE  Good(w, j)
  <1>1. RowOK(row'[j]) /\ row'[j].state \in Active \cup Stopping /\ unlocked'[j] <= 1
    BY AtWork DEF siteVars
  <1>2. Money(j)
    BY DEF Money, Stays, SameDoubt, siteVars
  <1>3. \A k \in Jobs : Untouched(k)
    BY DEF Untouched, Rest, siteVars
  <1> QED
    BY <1>1, <1>2, <1>3, HandlerGood DEF Rest, Doubt

\* A step inside a handler that writes the row and keeps or ends its doubt.
LEMMA SaveGood ==
    ASSUME TypeOK, SingleOwner, PayInv, QueueInv, NEW w \in Workers, NEW j \in Jobs,
           pc[w] \in Busy, job[w] = j, NEW p \in Handling, Goto(w, p),
           UNCHANGED <<job, Rest, siteVars>>,
           \A v \in Workers : v # w => /\ snap'[v] = snap[v] /\ heard'[v] = heard[v]
                                       /\ err'[v] = err[v] /\ verdict'[v] = verdict[v],
           \A k \in Jobs : k # j => file'[k] = file[k],
           NEW r \in Row, Update(j, r), r.state \in Active \cup Stopping,
           \A s \in Active \cup Stopping : RowOK([r EXCEPT !.state = s]),
           Uncertain(r.details) => Doubt(j),
           Doubt(j) /\ ~Uncertain(r.details) => pc[w] = "link",
           HandlerOK(w)'
    PROVE  Good(w, j)
  <1>1. /\ row[j].state \in Active \cup Stopping /\ unlocked[j] <= 1
    BY AtWork
  <1>2. /\ row'[j] = [r EXCEPT !.state = Landing(row[j].state, r.state)]
        /\ row'[j].details = r.details /\ row'[j].state = Landing(row[j].state, r.state)
        /\ \A k \in Jobs : k # j => row'[k] = row[k]
    <2>1. Landing(row[j].state, r.state) \in States
      BY LandingType DEF TypeOK, Row
    <2>2. [r EXCEPT !.state = Landing(row[j].state, r.state)] \in Row
      BY <2>1 DEF Row
    <2> QED
      BY <2>2, UpdateRow, WriteEffect DEF Update
  <1>3. row'[j].state \in Active \cup Stopping
    BY <1>1, <1>2, LandingBusy
  <1>4. RowOK(row'[j])
    BY <1>1, <1>2, LandingBusy
  <1>5. row[j].state \in Stopping => row'[j].state \in Stopping \cup Final
    BY <1>2 DEF Landing
  <1>6. Money(j)
    BY <1>2 DEF Money, Learns, Stays, SameDoubt, Doubt, siteVars
  <1>7. \A k \in Jobs : k # j => Untouched(k)
    BY <1>2 DEF Untouched, Rest, siteVars
  <1> QED
    BY <1>1, <1>2, <1>3, <1>4, <1>5, <1>6, <1>7, HandlerGood DEF Rest, siteVars

-----------------------------------------------------------------------------
(* The steps of a worker.                                                  *)

LEMMA BeginGood ==
    ASSUME TypeOK, SingleOwner, PayInv, QueueInv, NEW w \in Workers, NEW j \in Jobs,
           job[w] = j, Begin(w)
    PROVE  Good(w, j)
  <1>1. /\ pc[w] = "begin" /\ pc[w] \in Busy /\ UNCHANGED <<row, file, Rest, siteVars>>
    BY DEF Begin, Busy
  <1>2. /\ row[j].state \in Active \cup Stopping /\ row[j].state # "done" /\ unlocked[j] <= 1
        /\ pc[w] \notin {"idle", "clean"}
    BY <1>1, AtWork
  <1>3. CASE Raise(w, "none") \/ Raise(w, "fatal")
    <2>1. Money(j)
      BY <1>1 DEF Money, Stays, SameDoubt, siteVars
    <2>2. "fatal" \notin RefusedBeforeCharge /\ "none" \notin RefusedBeforeCharge
      BY DEF RefusedBeforeCharge
    <2> QED
      BY <1>1, <1>2, <1>3, <2>1, <2>2, RaiseGood DEF siteVars
  <1>4. CASE ~(Raise(w, "none") \/ Raise(w, "fatal"))
    <2> DEFINE p == row[j].details.phase
    <2>1. /\ p \in Runnable /\ Goto(w, p) /\ UNCHANGED <<job, heard, err, verdict>>
          /\ snap' = [snap EXCEPT ![w] = [secret |-> row[j].secret, details |-> row[j].details]]
      BY <1>4 DEF Begin
    <2>2. /\ snap'[w].secret = row[j].secret
          /\ \A v \in Workers : v # w => snap'[v] = snap[v]
      BY <2>1 DEF TypeOK
    <2>3. pc'[w] = p /\ p \in Handling
      BY <2>1 DEF Goto, TypeOK, Runnable, Phases, Handling
    <2>4. p \in {"inspect", "submit", "transfer", "import", "recover"}
      BY <2>1 DEF Runnable, Phases
    <2>5. HandlerOK(w)'
      BY <1>1, <2>1, <2>2, <2>3, <2>4 DEF HandlerOK, PhaseOK
    <2> QED
      BY <1>1, <2>1, <2>2, <2>3, <2>5, ControlGood
  <1> QED
    BY <1>3, <1>4
\* In the phases before a request the job is in no doubt.
LEMMA NoDoubt ==
    ASSUME NEW r, RowOK(r), r.details.phase \notin {"uncertain", "recover"}
    PROVE  ~r.details.uncertain /\ ~Uncertain(r.details)
  BY DEF RowOK, Uncertain

LEMMA InspectingGood ==
    ASSUME TypeOK, SingleOwner, PayInv, QueueInv, NEW w \in Workers, NEW j \in Jobs,
           job[w] = j, Inspecting(w)
    PROVE  Good(w, j)
  <1> DEFINE old == snap[w].details
  <1>1. /\ pc[w] \in {"inspect", "fetch", "quote", "price"} /\ pc[w] \in Handling /\ pc[w] \in Busy
        /\ {"fetch", "quote", "price"} \subseteq Handling /\ UNCHANGED <<file, Rest, unlocked>>
    BY DEF Inspecting, InspectStart, InspectFetched, InspectQuoted, InspectPriced, Handling, Busy,
           siteVars
  <1>2. /\ row[j] \in Row /\ row[j].details = old /\ old \in Details
        /\ row[j].state \in Active \cup Stopping /\ RowOK(row[j]) /\ QueueWorkerOK(w)
    BY <1>1, HandlerFacts, AtWork
  <1>3. old.phase = "inspect" /\ ~old.uncertain /\ ~Doubt(j) /\ ~Uncertain(old)
    BY <1>1, <1>2, NoDoubt DEF QueueWorkerOK, HandlerOK, PhaseOK, Doubt
  <1>4. CASE InspectStart(w)
    <2> DEFINE r == [row[j] EXCEPT !.state = "inspecting"]
    <2>1. /\ r \in Row /\ r.details = old /\ r.state \in Active \cup Stopping
      BY <1>2, StateNames DEF Row, Active
    <2>2. \A s \in Active \cup Stopping : RowOK([r EXCEPT !.state = s])
      BY <1>2, <1>3 DEF RowOK, Row
    <2> HIDE DEF r
    <2>3. /\ Update(j, r) /\ Goto(w, "fetch") /\ UNCHANGED <<job, snap, heard, err, verdict>>
          /\ UNCHANGED siteVars
      BY <1>4 DEF InspectStart, Locals, r
    <2>4. pc'[w] = "fetch" /\ row'[j].details = old
      BY <2>1, <2>3, UpdateRow DEF Goto, TypeOK
    <2>5. HandlerOK(w)'
      BY <1>3, <2>3, <2>4 DEF HandlerOK, PhaseOK
    <2> QED
      BY <1>1, <1>3, <2>1, <2>2, <2>3, <2>5, SaveGood
  <1>5. CASE InspectFetched(w)
    <2> DEFINE r == [row[j] EXCEPT !.state = "needs_choice",
                                   !.details = [old EXCEPT !.selected = TRUE]]
    <2>1. CASE Leave(w, r)
      <3>1. NextRowOK(r, j) /\ ~Uncertain(r.details)
        BY <1>2, <1>3, StateNames DEF NextRowOK, Row, Details, Uncertain, Runnable
      <3> HIDE DEF r
      <3> QED
        BY <1>1, <1>3, <1>5, <2>1, <3>1, LeaveGood DEF InspectFetched, siteVars
    <2>2. CASE Goto(w, "quote") /\ UNCHANGED <<Locals, row, page>>
      <3>1. pc'[w] = "quote"
        BY <2>2 DEF Goto, TypeOK
      <3>2. HandlerOK(w)'
        BY <1>2, <1>3, <2>2, <3>1 DEF HandlerOK, PhaseOK, Locals
      <3> QED
        BY <1>1, <1>5, <2>2, <3>2, ControlGood DEF InspectFetched, Locals
    <2> QED
      BY <1>5, <2>1, <2>2 DEF InspectFetched
  <1>6. CASE InspectQuoted(w)
    <2> DEFINE r == [row[j] EXCEPT !.secret = TRUE]
    <2>1. r \in Row /\ r.details = old /\ r.state = row[j].state
      BY <1>2 DEF Row
    <2>2. \A s \in Active \cup Stopping : RowOK([r EXCEPT !.state = s])
      BY <1>2, <1>3 DEF RowOK, Row
    <2>3. /\ Goto(w, "price") /\ UNCHANGED <<job, snap, err, verdict>> /\ UNCHANGED siteVars
          /\ Update(j, r) \/ UNCHANGED <<row, page>>
          /\ \A v \in Workers : v # w => heard'[v] = heard[v]
      BY <1>6 DEF InspectQuoted, TypeOK
    <2> HIDE DEF r
    <2>4. pc'[w] = "price"
      BY <2>3 DEF Goto, TypeOK
    <2>5. row'[j].details = old
      BY <1>2, <2>1, <2>3, UpdateRow
    <2>6. HandlerOK(w)'
      BY <1>3, <2>3, <2>4, <2>5 DEF HandlerOK, PhaseOK
    <2>7. CASE Update(j, r)
      BY <1>1, <1>2, <1>3, <2>1, <2>2, <2>3, <2>6, <2>7, SaveGood
    <2>8. CASE UNCHANGED <<row, page>>
      BY <1>1, <2>3, <2>6, <2>8, ControlGood
    <2> QED
      BY <2>3, <2>7, <2>8
  <1>7. CASE InspectPriced(w)
    <2> DEFINE d == [old EXCEPT !.selected = TRUE, !.quote = heard[w].price]
               agreed == [row[j] EXCEPT !.state = "queued",
                            !.details = [d EXCEPT !.approved = Free, !.phase = "submit"]]
               asked == [row[j] EXCEPT !.state = "needs_approval", !.details = d]
    <2>1. heard[w].price \in AnyPrice /\ Free \in AnyPrice /\ Free # NoPrice
      BY <1>1, OwnerType, PriceAssumption DEF AnyPrice, Handling
    <2>2. d \in Details /\ d.phase = "inspect" /\ ~d.uncertain
      BY <1>2, <1>3, <2>1 DEF Details
    <2> HIDE DEF d
    <2>3. CASE Leave(w, asked) /\ UNCHANGED <<consent, sent>>
      <3>1. NextRowOK(asked, j) /\ ~Uncertain(asked.details)
        BY <1>2, <2>2, StateNames DEF NextRowOK, Row, Uncertain, Runnable, Phases
      <3> HIDE DEF asked
      <3> QED
        BY <1>1, <1>3, <2>3, <3>1, LeaveGood
    <2>4. CASE /\ Leave(w, agreed)
               /\ consent' = [consent EXCEPT ![j] = Free]
               /\ sent' = [sent EXCEPT ![j] = 0]
      <3>1. [d EXCEPT !.approved = Free, !.phase = "submit"] \in Details
        BY <2>1, <2>2 DEF Details, Phases
      <3>2. NextRowOK(agreed, j) /\ ~Uncertain(agreed.details)
        BY <1>2, <2>1, <2>2, <3>1, StateNames DEF NextRowOK, Row, Details, Uncertain, Runnable, Phases
      <3> HIDE DEF agreed
      <3>3. row'[j].details = agreed.details
        BY <2>4, <3>2, UpdateRow DEF Leave, NextRowOK
      <3>4. /\ consent'[j] = Free /\ sent'[j] = 0
            /\ \A k \in Jobs : k # j => consent'[k] = consent[k] /\ sent'[k] = sent[k]
        BY <2>4 DEF TypeOK
      <3>5. Agrees(j)
        BY <1>1, <1>3, <3>2, <3>3, <3>4, PriceAssumption DEF Agrees, Doubt
      <3> QED
        BY <1>1, <1>3, <2>4, <3>2, <3>4, <3>5, LeaveGood
    <2> QED
      BY <1>7, <2>3, <2>4 DEF InspectPriced, d
  <1> QED
    BY <1>4, <1>5, <1>6, <1>7 DEF Inspecting
\* An archive the site holds is offered; so what it quotes otherwise is unpaid for.
LEMMA QuotedUnpaid ==
    ASSUME TypeOK, NEW j \in Jobs, row[j].site = "eh", NEW q \in Quotes(j), ~q.reusable
    PROVE  unlocked[j] = 0
  <1>1. CASE unlocked[j] > 0
    <2>1. q \in {[price |-> Free, reusable |-> TRUE]}
      BY <1>1 DEF Quotes
    <2> QED
      BY <2>1
  <1>2. unlocked[j] \in Nat
    BY DEF TypeOK
  <1> QED
    BY <1>1, <1>2

LEMMA SubmitQuotedGood ==
    ASSUME TypeOK, SingleOwner, PayInv, QueueInv, NEW w \in Workers, NEW j \in Jobs,
           job[w] = j, SubmitQuoted(w)
    PROVE  Good(w, j)
  <1> DEFINE old == snap[w].details
             transfer == [row[j] EXCEPT !.state = "queued", !.details = [old EXCEPT !.phase = "transfer"]]
             asked(q) == [row[j] EXCEPT !.state = "needs_approval",
                                        !.details = [old EXCEPT !.quote = q.price]]
  <1>1. /\ pc[w] = "submit" /\ pc[w] \in Handling /\ pc[w] \in Busy
        /\ UNCHANGED <<file, Rest, siteVars, unlocked, consent, sent>>
    BY DEF SubmitQuoted, Handling, Busy, siteVars
  <1>2. /\ row[j] \in Row /\ row[j].details = old /\ old \in Details
        /\ row[j].state \in Active \cup Stopping /\ RowOK(row[j]) /\ QueueWorkerOK(w)
    BY <1>1, HandlerFacts, AtWork
  <1>3. /\ old.phase = "submit" /\ row[j].secret = snap[w].secret
        /\ old.approved # NoPrice
    BY <1>1, <1>2 DEF QueueWorkerOK, HandlerOK, PayInv, WorkerOK, RowOK
  <1>4. ~old.uncertain /\ ~Doubt(j) /\ ~Uncertain(old)
    BY <1>2, <1>3, NoDoubt DEF Doubt
  <1>5. CASE snap[w].secret
    <2>1. Leave(w, transfer)
      BY <1>5 DEF SubmitQuoted
    <2>2. NextRowOK(transfer, j) /\ ~Uncertain(transfer.details)
      BY <1>2, <1>3, <1>4, <1>5, StateNames DEF NextRowOK, Row, Details, Uncertain, Runnable, Phases
    <2> HIDE DEF transfer
    <2> QED
      BY <1>1, <1>4, <2>1, <2>2, LeaveGood
  <1>6. CASE ~snap[w].secret
    <2>1. PICK q \in Quotes(j) :
            \/ Leave(w, asked(q))
            \/ /\ heard' = [heard EXCEPT ![w] = q] /\ Goto(w, "commit")
               /\ UNCHANGED <<job, snap, err, verdict, working, row, page>>
      BY <1>6 DEF SubmitQuoted
    <2>2. CASE Leave(w, asked(q))
      <3>1. q.price \in AnyPrice
        BY QuotesType
      <3>2. NextRowOK(asked(q), j) /\ ~Uncertain(asked(q).details)
        BY <1>2, <1>3, <1>4, <3>1, StateNames
           DEF NextRowOK, Row, Details, Uncertain, Runnable, Phases
      <3> HIDE DEF asked
      <3> QED
        BY <1>1, <1>4, <2>2, <3>2, LeaveGood
    <2>3. CASE /\ heard' = [heard EXCEPT ![w] = q] /\ Goto(w, "commit")
               /\ UNCHANGED <<job, snap, err, verdict, working, row, page>>
      <3>1. pc'[w] = "commit" /\ "commit" \in Handling
        BY <2>3 DEF Goto, TypeOK, Handling
      <3>2. heard'[w] = q /\ \A v \in Workers : v # w => heard'[v] = heard[v]
        BY <2>3 DEF TypeOK
      <3>3. row[j].site = "eh" /\ ~q.reusable => unlocked[j] = 0
        BY QuotedUnpaid
      <3>4. HandlerOK(w)'
        BY <1>1, <2>3, <3>1, <3>2, <3>3 DEF HandlerOK, PhaseOK
      <3> QED
        BY <1>1, <2>3, <3>1, <3>2, <3>4, ControlGood
    <2> QED
      BY <2>1, <2>2, <2>3
  <1> QED
    BY <1>5, <1>6

LEMMA SubmitCheckGood ==
    ASSUME TypeOK, SingleOwner, PayInv, QueueInv, NEW w \in Workers, NEW j \in Jobs,
           job[w] = j, SubmitCheck(w) \/ SubmitRecheck(w)
    PROVE  Good(w, j)
  <1>1. /\ pc[w] \in {"commit", "linked"} /\ pc[w] \in Busy
        /\ UNCHANGED <<Locals, row, file, Rest, siteVars>>
    BY DEF SubmitCheck, SubmitRecheck, Handling, Busy
  <1>2. PICK p \in {"mark", "requeue"} : Goto(w, p) /\ (p = "mark" <=> pc[w] = "commit")
    BY DEF SubmitCheck, SubmitRecheck
  <1>3. pc'[w] = p /\ p \in Handling
    BY <1>2 DEF Goto, TypeOK, Handling
  <1>4. HandlerOK(w)
    BY <1>1, AtWork DEF QueueWorkerOK
  <1>5. HandlerOK(w)'
    BY <1>1, <1>2, <1>3, <1>4 DEF HandlerOK, PhaseOK, Locals, siteVars
  <1> QED
    BY <1>1, <1>2, <1>3, <1>5, ControlGood DEF Locals

LEMMA SubmitMarkGood ==
    ASSUME TypeOK, SingleOwner, PayInv, QueueInv, NEW w \in Workers, NEW j \in Jobs,
           job[w] = j, SubmitMark(w)
    PROVE  Good(w, j)
  <1> DEFINE d == IF row[j].site = "nhentai" THEN snap[w].details
                  ELSE [snap[w].details EXCEPT !.phase = "uncertain", !.uncertain = TRUE]
             r == [row[j] EXCEPT !.state = "submitting", !.details = d]
  <1>1. /\ pc[w] = "mark" /\ pc[w] \in Handling /\ pc[w] \in Busy
        /\ UNCHANGED <<job, heard, err, verdict, file, Rest, siteVars>>
    BY DEF SubmitMark, Handling, Busy
  <1>2. /\ row[j] \in Row /\ row[j].details = snap[w].details /\ snap[w].details \in Details
        /\ row[j].state \in Active \cup Stopping /\ RowOK(row[j]) /\ HandlerOK(w) /\ ~locked[j]
    BY <1>1, HandlerFacts, AtWork DEF QueueWorkerOK
  <1>3. snap[w].details.phase = "submit" /\ (row[j].site = "eh" => Clear(j))
    <2>1. JobOK(j) /\ WorkerOK(w)
      BY <1>1, JobsInOrder DEF PayInv, Handling
    <2> QED
      BY <1>1, <1>2, <2>1 DEF WorkerOK, JobOK, Ready, Live
  <1>4. ~row[j].details.uncertain /\ ~Doubt(j) /\ ~Uncertain(row[j].details)
    BY <1>2, <1>3, NoDoubt DEF Doubt
  <1>5. /\ d \in Details
        /\ row[j].site = "nhentai" => d = row[j].details
        /\ row[j].site # "nhentai" => row[j].site = "eh" /\ d.phase = "uncertain" /\ d.uncertain
    BY <1>2 DEF Details, Phases, Row, Sites
  <1> HIDE DEF d
  <1>6. /\ r \in Row /\ r.site = row[j].site /\ r.details = d /\ r.state = "submitting"
    BY <1>2, <1>5, StateNames DEF Row
  <1> HIDE DEF r
  <1>7. /\ Update(j, r) /\ snap' = [snap EXCEPT ![w].details = d]
        /\ Goto(w, IF heard[w].reusable THEN "link" ELSE "post")
    BY DEF SubmitMark, d, r
  <1>8. /\ row'[j].details = d /\ row'[j].site = row[j].site
        /\ row'[j].state = Landing(row[j].state, "submitting")
        /\ \A k \in Jobs : k # j => row'[k] = row[k]
    BY <1>6, <1>7, UpdateRow
  <1>9. \A v \in Workers : v # w => snap'[v] = snap[v]
    BY <1>7 DEF TypeOK
  <1>10. /\ pc'[w] = (IF heard[w].reusable THEN "link" ELSE "post")
         /\ pc'[w] \in Handling
    BY <1>7 DEF Goto, TypeOK, Handling
  <1>11. /\ row'[j].state \in Active \cup Stopping
         /\ row[j].state \in Stopping => row'[j].state \in Stopping \cup Final
    BY <1>2, <1>8, LandingBusy DEF Landing, Active
  <1>12. RowOK(row'[j])
    <2>1. row'[j].state \notin {"queued", "needs_approval"}
      BY <1>11 DEF Active, Stopping
    <2>2. CASE row[j].site = "nhentai"
      BY <1>2, <1>3, <1>4, <1>5, <1>8, <2>1, <2>2 DEF RowOK
    <2>3. CASE row[j].site # "nhentai"
      BY <1>5, <1>8, <2>1, <2>3 DEF RowOK
    <2> QED
      BY <2>2, <2>3
  <1>13. Money(j)
    <2>1. CASE row[j].site = "nhentai"
      BY <1>1, <1>5, <1>8, <2>1 DEF Money, Stays, SameDoubt, siteVars
    <2>2. CASE row[j].site # "nhentai"
      <3>1. Doubt(j)' /\ Clear(j)
        BY <1>3, <1>5, <1>8, <2>2 DEF Doubt, Uncertain
      <3> QED
        BY <1>1, <1>4, <3>1 DEF Money, Arms, Clear, siteVars
    <2> QED
      BY <2>1, <2>2
  <1>14. HandlerOK(w)'
    BY <1>1, <1>2, <1>3, <1>5, <1>8, <1>10 DEF HandlerOK, PhaseOK, siteVars
  <1>15. unlocked'[j] <= 1
    BY <1>1 DEF QueueInv, QueueJobOK, siteVars
  <1>16. \A k \in Jobs : k # j => Untouched(k)
    BY <1>1, <1>8 DEF Untouched, Rest, siteVars
  <1> DEFINE p == IF heard[w].reusable THEN "link" ELSE "post"
  <1>17. p \in Handling /\ Goto(w, p)
    BY <1>7, <1>10
  <1> HIDE DEF p
  <1> QED
    BY <1>1, <1>4, <1>9, <1>11, <1>12, <1>13, <1>14, <1>15, <1>16, <1>17, HandlerGood DEF Rest

LEMMA PostGood ==
    ASSUME TypeOK, SingleOwner, PayInv, QueueInv, NEW w \in Workers, NEW j \in Jobs,
           job[w] = j, PostAnswered(w) \/ PostRefused(w) \/ PostLost(w)
    PROVE  Good(w, j)
  <1>1. /\ pc[w] = "post" /\ pc[w] \in Handling /\ pc[w] \in Busy
        /\ UNCHANGED <<row, file, Rest, job, snap, heard, verdict>>
    BY DEF PostAnswered, PostRefused, PostLost, Raise, Handling, Busy, Locals
  <1>2. /\ row[j].details = snap[w].details /\ row[j].state \in Active \cup Stopping
        /\ RowOK(row[j]) /\ HandlerOK(w) /\ pc[w] \notin {"idle", "clean"} /\ unlocked[j] <= 1
        /\ row[j].state # "done"
    BY <1>1, HandlerFacts, AtWork DEF QueueWorkerOK
  <1>3. PICK n \in 0 .. 1, c \in 0 .. 1 : /\ Request(j, n, c) /\ c <= n
                                          /\ row[j].site = "eh" \/ n = 0
    BY DEF PostAnswered, PostRefused, PostLost
  <1>4. /\ consent' = consent /\ sent'[j] = sent[j] + n /\ unlocked'[j] = unlocked[j] + c
        /\ \A k \in Jobs : k # j => /\ sent'[k] = sent[k] /\ consent'[k] = consent[k]
                                    /\ unlocked'[k] = unlocked[k]
    BY <1>3 DEF Request, TypeOK
  <1>5. sent[j] \in Nat /\ unlocked[j] \in Nat
    BY DEF TypeOK
  <1>6. Money(j) /\ unlocked'[j] <= 1
    <2>1. CASE n = 0
      <3>1. c = 0 /\ sent'[j] = sent[j] /\ unlocked'[j] = unlocked[j]
        BY <1>3, <1>4, <1>5, <2>1
      <3> QED
        BY <1>1, <1>2, <1>4, <3>1 DEF Money, Stays, SameDoubt
    <2>2. CASE n # 0
      <3>1. n = 1 /\ row[j].site = "eh" /\ unlocked[j] = 0
        BY <1>1, <1>2, <1>3, <2>2 DEF HandlerOK
      <3>2. Clear(j) /\ row[j].details.phase = "uncertain"
        BY <1>1, <3>1 DEF PayInv, WorkerOK
      <3>3. sent'[j] = 1 /\ unlocked'[j] \in 0 .. 1 /\ sent[j] = 0
        BY <1>3, <1>4, <3>1, <3>2 DEF Clear
      <3>4. Doubt(j) /\ Doubt(j)'
        BY <1>1, <3>2 DEF Doubt, Uncertain
      <3> QED
        BY <1>4, <3>1, <3>3, <3>4 DEF Money, Sends
    <2> QED
      BY <2>1, <2>2
  <1>7. CASE \E e \in ErrorKinds \cup {"none"} : Raise(w, e)
    BY <1>1, <1>2, <1>4, <1>6, <1>7, RaiseGood
  <1>8. CASE PostAnswered(w)
    <2>1. Goto(w, "link") /\ UNCHANGED err /\ "link" \in Handling
      BY <1>8 DEF PostAnswered, Locals, Handling
    <2>2. pc'[w] = "link"
      BY <2>1 DEF Goto, TypeOK
    <2>3. HandlerOK(w)'
      BY <1>1, <1>2, <2>2 DEF HandlerOK, PhaseOK
    <2>4. \A k \in Jobs : k # j => Untouched(k)
      BY <1>1, <1>4 DEF Untouched, Rest
    <2> QED
      BY <1>1, <1>2, <1>6, <2>1, <2>3, <2>4, HandlerGood DEF Rest, Doubt
  <1> QED
    BY <1>7, <1>8, SettingAssumption DEF PostRefused, PostLost
LEMMA SubmittingGood ==
    ASSUME TypeOK, SingleOwner, PayInv, QueueInv, NEW w \in Workers, NEW j \in Jobs,
           job[w] = j, Submitting(w)
    PROVE  Good(w, j)
  <1>1. CASE SubmitLinked(w)
    <2> DEFINE d == [snap[w].details EXCEPT !.phase = "transfer", !.uncertain = FALSE]
               r == [row[j] EXCEPT !.secret = TRUE, !.details = d]
    <2>1. /\ pc[w] = "link" /\ pc[w] \in Handling /\ pc[w] \in Busy /\ "linked" \in Handling
          /\ UNCHANGED <<job, heard, err, verdict, file, Rest, siteVars>>
      BY <1>1 DEF SubmitLinked, Handling, Busy
    <2>2. /\ row[j] \in Row /\ snap[w].details \in Details
          /\ row[j].state \in Active \cup Stopping
      BY <2>1, HandlerFacts
    <2>3. d \in Details /\ d.phase = "transfer" /\ ~d.uncertain /\ ~Uncertain(d)
      BY <2>2 DEF Details, Phases, Uncertain
    <2> HIDE DEF d
    <2>4. r \in Row /\ r.details = d /\ r.state = row[j].state /\ r.secret
      BY <2>2, <2>3 DEF Row
    <2>5. \A s \in Active \cup Stopping : RowOK([r EXCEPT !.state = s])
      BY <2>2, <2>3, <2>4 DEF RowOK, Row
    <2> HIDE DEF r
    <2>6. Update(j, r) /\ Goto(w, "linked") /\ snap' = [snap EXCEPT ![w].details = d]
      BY <1>1 DEF SubmitLinked, d, r
    <2>7. pc'[w] = "linked" /\ row'[j].details = d
          /\ \A v \in Workers : v # w => snap'[v] = snap[v]
      BY <2>4, <2>6, UpdateRow DEF Goto, TypeOK
    <2>8. HandlerOK(w)'
      BY <2>1, <2>3, <2>7 DEF HandlerOK, PhaseOK
    <2> QED
      BY <2>1, <2>2, <2>3, <2>4, <2>5, <2>6, <2>7, <2>8, SaveGood
  <1>2. CASE SubmitDone(w)
    <2> DEFINE r == [row[j] EXCEPT !.state = "queued"]
    <2>1. /\ pc[w] = "requeue" /\ pc[w] \in Handling /\ pc[w] \in Busy
          /\ UNCHANGED <<file, Rest, siteVars, unlocked, consent, sent>>
      BY <1>2 DEF SubmitDone, Handling, Busy, siteVars
    <2>2. /\ row[j] \in Row /\ RowOK(row[j]) /\ HandlerOK(w)
      BY <2>1, HandlerFacts, AtWork DEF QueueWorkerOK
    <2>3. row[j].details.phase = "transfer"
      BY <2>1, <2>2 DEF HandlerOK, PhaseOK
    <2>4. ~row[j].details.uncertain /\ ~Doubt(j)
      BY <2>2, <2>3, NoDoubt DEF Doubt
    <2>5. NextRowOK(r, j) /\ r.details = row[j].details
      BY <2>2, <2>3, <2>4, StateNames DEF NextRowOK, RowOK, Row, Runnable, Phases
    <2> HIDE DEF r
    <2>6. Leave(w, r)
      BY <1>2 DEF SubmitDone, r
    <2> QED
      BY <2>1, <2>4, <2>5, <2>6, LeaveGood DEF Doubt
  <1> QED
    BY <1>1, <1>2, SubmitQuotedGood, SubmitCheckGood, SubmitMarkGood, PostGood DEF Submitting

LEMMA RecoverGood ==
    ASSUME TypeOK, SingleOwner, PayInv, QueueInv, NEW w \in Workers, NEW j \in Jobs,
           job[w] = j, Recover(w)
    PROVE  Good(w, j)
  <1> DEFINE d == [snap[w].details EXCEPT !.sha = FALSE]
             again == [d EXCEPT !.uncertain = FALSE,
                          !.phase = IF d.approved # NoPrice THEN "submit" ELSE "inspect"]
             found == [d EXCEPT !.uncertain = FALSE, !.phase = "transfer"]
             fresh == [d EXCEPT !.phase = "inspect"]
  <1>1. /\ pc[w] = "recover" /\ pc[w] \in Handling /\ pc[w] \in Busy
        /\ UNCHANGED <<file, Rest, siteVars, unlocked, consent, sent>>
    BY DEF Recover, Handling, Busy, siteVars
  <1>2. /\ row[j] \in Row /\ snap[w].details \in Details
        /\ row[j].details = snap[w].details /\ row[j].site \in Sites
        /\ RowOK(row[j]) /\ HandlerOK(w)
    BY <1>1, HandlerFacts, AtWork DEF QueueWorkerOK, Row
  <1>3. /\ row[j].details.phase = "recover"
        /\ row[j].details.uncertain => row[j].site = "eh"
        /\ Doubt(j) <=> row[j].details.uncertain
    BY <1>1, <1>2 DEF HandlerOK, PhaseOK, RowOK, Doubt, Uncertain
  <1>4. /\ d \in Details /\ d.uncertain = row[j].details.uncertain /\ d.phase = "recover"
    BY <1>2, <1>3 DEF Details
  <1> HIDE DEF d
  <1>5. /\ again \in Details /\ found \in Details /\ fresh \in Details
        /\ ~again.uncertain /\ ~found.uncertain /\ fresh.uncertain = d.uncertain
        /\ again.approved = d.approved
        /\ again.phase = (IF d.approved # NoPrice THEN "submit" ELSE "inspect")
        /\ found.phase = "transfer" /\ fresh.phase = "inspect"
    BY <1>4 DEF Details, Phases
  <1> HIDE DEF again, found, fresh
  <1> DEFINE OK(r) == /\ NextRowOK(r, j)
                      /\ Doubt(j) /\ ~Uncertain(r.details) => r.secret
                      /\ Uncertain(r.details) => Doubt(j)
  <1>6. \E r : OK(r) /\ Leave(w, r)
    <2>1. CASE row[j].site = "nhentai"
      <3> DEFINE r == [row[j] EXCEPT !.state = "queued", !.secret = FALSE, !.details = again]
      <3>1. ~Doubt(j)
        BY <1>3, <2>1
      <3>2. OK(r)
        BY <1>2, <1>5, <2>1, <3>1, StateNames DEF NextRowOK, Row, Uncertain, Runnable, Phases
      <3> HIDE DEF OK
      <3>3. Leave(w, r)
        BY <2>1 DEF Recover, d, again
      <3> HIDE DEF r
      <3> QED
        BY <3>2, <3>3
    <2>2. CASE row[j].site # "nhentai"
      <3> DEFINE r1 == [row[j] EXCEPT !.state = "queued", !.secret = TRUE, !.details = found]
                 r2 == [row[j] EXCEPT !.state = "queued", !.secret = FALSE, !.details = fresh]
                 r3 == [row[j] EXCEPT !.state = "needs_attention"]
      <3>1. OK(r1)
        BY <1>2, <1>5, <2>2, StateNames DEF NextRowOK, Row, Uncertain, Runnable, Phases
      <3>2. ~d.uncertain => OK(r2)
        BY <1>2, <1>3, <1>4, <1>5, <2>2, StateNames
           DEF NextRowOK, Row, Uncertain, Runnable, Phases
      <3>3. OK(r3)
        BY <1>2, <1>3, <2>2, StateNames DEF NextRowOK, Row, Doubt, Runnable, Phases
      <3> HIDE DEF OK
      <3>4. Leave(w, r1) \/ (~d.uncertain /\ Leave(w, r2)) \/ Leave(w, r3)
        BY <2>2 DEF Recover, d, found, fresh
      <3> HIDE DEF r1, r2, r3
      <3> QED
        BY <3>1, <3>2, <3>3, <3>4
    <2> QED
      BY <2>1, <2>2
  <1> QED
    BY <1>1, <1>6, LeaveGood

LEMMA FetchedGood ==
    ASSUME TypeOK, SingleOwner, PayInv, QueueInv, NEW w \in Workers, NEW j \in Jobs,
           job[w] = j, pc[w] \in {"transfer", "fetched"}, Fetched(w),
           UNCHANGED <<file, Rest, siteVars>>
    PROVE  Good(w, j)
  <1> DEFINE r == [row[j] EXCEPT !.state = "queued",
                     !.details = [snap[w].details EXCEPT !.sha = TRUE, !.phase = "import"]]
  <1>1. pc[w] \in Handling /\ pc[w] \in Busy /\ UNCHANGED <<unlocked, consent, sent>>
    BY DEF Handling, Busy, siteVars
  <1>2. /\ row[j] \in Row /\ snap[w].details \in Details
        /\ row[j].details = snap[w].details /\ RowOK(row[j]) /\ HandlerOK(w)
    BY <1>1, HandlerFacts, AtWork DEF QueueWorkerOK
  <1>3. row[j].details.phase = "transfer" /\ row[j].secret
    BY <1>2 DEF HandlerOK, PhaseOK, RowOK
  <1>4. ~row[j].details.uncertain /\ ~Doubt(j)
    BY <1>2, <1>3, NoDoubt DEF Doubt
  <1>5. NextRowOK(r, j) /\ ~Uncertain(r.details)
    BY <1>2, <1>3, <1>4, StateNames DEF NextRowOK, Row, Details, Uncertain, Runnable, Phases
  <1> HIDE DEF r
  <1>6. Leave(w, r)
    BY DEF Fetched, r
  <1> QED
    BY <1>1, <1>4, <1>5, <1>6, LeaveGood

LEMMA TransferringGood ==
    ASSUME TypeOK, SingleOwner, PayInv, QueueInv, NEW w \in Workers, NEW j \in Jobs,
           job[w] = j, Transferring(w)
    PROVE  Good(w, j)
  <1>1. /\ pc[w] \in {"transfer", "stream", "writing", "fetched"}
        /\ pc[w] \in Handling /\ pc[w] \in Busy
        /\ {"stream", "writing", "fetched"} \subseteq Handling
        /\ UNCHANGED <<Rest, siteVars, unlocked, consent, sent>>
    BY DEF Transferring, TransferExpired, TransferComplete, TransferStart, TransferOpen,
           TransferWritten, TransferDone, Handling, Busy, siteVars
  <1>2. /\ row[j] \in Row /\ snap[w].details \in Details
        /\ row[j].details = snap[w].details /\ RowOK(row[j]) /\ HandlerOK(w)
        /\ row[j].state \in Active \cup Stopping
    BY <1>1, HandlerFacts, AtWork DEF QueueWorkerOK
  <1>3. row[j].details.phase = "transfer"
    BY <1>1, <1>2 DEF HandlerOK, PhaseOK
  <1>4. ~row[j].details.uncertain /\ ~Doubt(j) /\ ~Uncertain(row[j].details)
    BY <1>2, <1>3, NoDoubt DEF Doubt
  <1>5. CASE TransferExpired(w)
    <2> DEFINE r == [row[j] EXCEPT !.state = "needs_attention",
                       !.details = [snap[w].details EXCEPT !.phase = "recover"]]
    <2>1. NextRowOK(r, j) /\ ~Uncertain(r.details)
      BY <1>2, <1>4, StateNames DEF NextRowOK, Row, Details, Uncertain, Runnable, Phases
    <2> HIDE DEF r
    <2>2. Leave(w, r) /\ file' = file
      BY <1>5 DEF TransferExpired, r
    <2> QED
      BY <1>1, <1>4, <2>1, <2>2, LeaveGood
  <1>6. CASE TransferComplete(w) \/ TransferDone(w)
    BY <1>1, <1>6, FetchedGood DEF TransferComplete, TransferDone
  <1>7. CASE TransferStart(w) \/ TransferOpen(w)
    <2> DEFINE r1 == [row[j] EXCEPT !.state = "downloading"]
               r2 == [row[j] EXCEPT !.details = snap[w].details]
    <2>1. /\ UNCHANGED Locals /\ \A k \in Jobs : k # j => file'[k] = file[k]
          /\ \/ Update(j, r1) /\ Goto(w, "stream")
             \/ Update(j, r2) /\ Goto(w, "writing")
      BY <1>7 DEF TransferStart, TransferOpen, TypeOK
    <2>2. /\ r1 \in Row /\ r1.details = row[j].details /\ r1.state \in Active \cup Stopping
          /\ r1.secret = row[j].secret /\ r1.site = row[j].site
      BY <1>2, StateNames DEF Row, Active
    <2>3. /\ r2 \in Row /\ r2.details = row[j].details /\ r2.state \in Active \cup Stopping
          /\ r2.secret = row[j].secret /\ r2.site = row[j].site
      BY <1>2 DEF Row
    <2> HIDE DEF r1, r2
    <2>4. PICK r \in Row, p \in {"stream", "writing"} :
            /\ Update(j, r) /\ Goto(w, p) /\ r.state \in Active \cup Stopping
            /\ r.details = row[j].details /\ r.secret = row[j].secret /\ r.site = row[j].site
      BY <2>1, <2>2, <2>3
    <2>5. \A s \in Active \cup Stopping : RowOK([r EXCEPT !.state = s])
      BY <1>2, <1>3, <1>4, <2>4 DEF RowOK, Row
    <2>6. pc'[w] = p /\ row'[j].details = row[j].details
      BY <2>4, UpdateRow DEF Goto, TypeOK
    <2>7. HandlerOK(w)'
      BY <1>3, <2>1, <2>4, <2>6 DEF HandlerOK, PhaseOK, Locals
    <2> QED
      BY <1>1, <1>4, <2>1, <2>4, <2>5, <2>7, SaveGood DEF Locals
  <1>8. CASE TransferWritten(w)
    <2>1. Goto(w, "fetched") /\ UNCHANGED <<Locals, row>> /\ \A k \in Jobs : k # j => file'[k] = file[k]
      BY <1>8 DEF TransferWritten, TypeOK
    <2>2. pc'[w] = "fetched"
      BY <2>1 DEF Goto, TypeOK
    <2>3. HandlerOK(w)'
      BY <1>3, <2>1, <2>2 DEF HandlerOK, PhaseOK, Locals
    <2>4. Money(j) /\ unlocked'[j] <= 1
      BY <1>1, <2>1 DEF Money, Stays, SameDoubt, QueueInv, QueueJobOK
    <2>5. \A k \in Jobs : k # j => Untouched(k)
      BY <1>1, <2>1 DEF Untouched, Rest
    <2> QED
      BY <1>1, <1>2, <1>4, <2>1, <2>3, <2>4, <2>5, HandlerGood DEF Rest, Locals
  <1> QED
    BY <1>5, <1>6, <1>7, <1>8 DEF Transferring
LEMMA ImportVerifiedGood ==
    ASSUME TypeOK, SingleOwner, PayInv, QueueInv, NEW w \in Workers, NEW j \in Jobs,
           job[w] = j, ImportVerified(w)
    PROVE  Good(w, j)
  <1>1. /\ pc[w] = "import" /\ pc[w] \in Handling /\ pc[w] \in Busy /\ "publish" \in Handling
        /\ UNCHANGED <<file, Rest, siteVars, unlocked, consent, sent>>
    BY DEF ImportVerified, Handling, Busy, siteVars
  <1>2. /\ row[j] \in Row /\ snap[w].details \in Details
        /\ row[j].details = snap[w].details /\ RowOK(row[j]) /\ HandlerOK(w)
        /\ row[j].state \in Active \cup Stopping
    BY <1>1, HandlerFacts, AtWork DEF QueueWorkerOK
  <1>3. row[j].details.phase = "import" /\ row[j].secret
    BY <1>1, <1>2 DEF HandlerOK, PhaseOK, RowOK
  <1>4. ~row[j].details.uncertain /\ ~Doubt(j) /\ ~Uncertain(row[j].details)
    BY <1>2, <1>3, NoDoubt DEF Doubt
  <1>5. CASE Verified(w)
    <2> DEFINE r == [row[j] EXCEPT !.state = "importing"]
    <2>1. r \in Row /\ r.details = row[j].details /\ r.state \in Active \cup Stopping
      BY <1>2, StateNames DEF Row, Active
    <2>2. file[j] \in Whole /\ row[j].details.sha
      BY <1>2, <1>5 DEF Verified
    <2>3. \A s \in Active \cup Stopping : RowOK([r EXCEPT !.state = s])
      BY <1>2, <1>3, <1>4, <2>2 DEF RowOK, Row
    <2> HIDE DEF r
    <2>4. Update(j, r) /\ Goto(w, "publish") /\ UNCHANGED <<job, snap, heard, err, verdict>>
      BY <1>5 DEF ImportVerified, Locals, r
    <2>5. pc'[w] = "publish" /\ row'[j].details = row[j].details
      BY <2>1, <2>4, UpdateRow DEF Goto, TypeOK
    <2>6. HandlerOK(w)'
      BY <1>1, <1>3, <2>2, <2>4, <2>5 DEF HandlerOK, PhaseOK
    <2> QED
      BY <1>1, <1>4, <2>1, <2>3, <2>4, <2>6, SaveGood
  <1>6. CASE ~Verified(w)
    <2> DEFINE r == [row[j] EXCEPT !.state = "paused",
                       !.details = [snap[w].details EXCEPT !.sha = FALSE, !.phase = "transfer"]]
    <2>1. NextRowOK(r, j) /\ ~Uncertain(r.details)
      BY <1>2, <1>3, <1>4, StateNames DEF NextRowOK, Row, Details, Uncertain, Runnable, Phases
    <2> HIDE DEF r
    <2>2. Leave(w, r)
      BY <1>6 DEF ImportVerified, r
    <2> QED
      BY <1>1, <1>4, <2>1, <2>2, LeaveGood
  <1> QED
    BY <1>5, <1>6

LEMMA ImportPublishedGood ==
    ASSUME TypeOK, SingleOwner, PayInv, QueueInv, NEW w \in Workers, NEW j \in Jobs,
           job[w] = j, ImportPublished(w)
    PROVE  Good(w, j)
  <1>1. /\ pc[w] = "publish" /\ pc[w] \in Handling /\ pc[w] \in Busy /\ "apply" \in Handling
        /\ UNCHANGED <<row, proc, locked, siteVars, unlocked, consent, sent>>
    BY DEF ImportPublished, Handling, Busy, siteVars
  <1>2. HandlerOK(w) /\ RowOK(row[j]) /\ row[j].state \in Active \cup Stopping /\ unlocked[j] <= 1
    BY <1>1, AtWork DEF QueueWorkerOK
  <1>3. CASE snap[w].details.selected
    <2>1. /\ published' = [published EXCEPT ![j] = TRUE] /\ Goto(w, "apply") /\ UNCHANGED Locals
          /\ \E f \in {file[j], "linked"} : file' = [file EXCEPT ![j] = f]
      BY <1>3 DEF ImportPublished
    <2>2. /\ published'[j] /\ file'[j] \in {file[j], "linked"} /\ pc'[w] = "apply"
          /\ \A k \in Jobs : k # j => published'[k] = published[k] /\ file'[k] = file[k]
      BY <2>1 DEF Goto, TypeOK
    <2>3. file'[j] \in Whole
      BY <1>1, <1>2, <2>2 DEF HandlerOK, Whole
    <2>4. HandlerOK(w)'
      BY <1>1, <1>2, <2>1, <2>2, <2>3 DEF HandlerOK, PhaseOK, Locals
    <2>5. Money(j)
      BY <1>1 DEF Money, Stays, SameDoubt
    <2>6. \A k \in Jobs : k # j => Untouched(k)
      BY <1>1, <2>2 DEF Untouched
    <2> QED
      BY <1>1, <1>2, <2>1, <2>4, <2>5, <2>6, HandlerGood DEF Locals, Doubt
  <1>4. CASE ~snap[w].details.selected
    <2>1. Raise(w, "fatal") /\ UNCHANGED <<file, Rest>>
      BY <1>1, <1>4 DEF ImportPublished, Rest
    <2> QED
      BY <1>1, <2>1, RaiseInHandler
  <1> QED
    BY <1>3, <1>4

\* The last write of an import: done, whatever the user asked for meanwhile.
LEMMA ImportDoneGood ==
    ASSUME TypeOK, SingleOwner, PayInv, QueueInv, NEW w \in Workers, NEW j \in Jobs,
           job[w] = j, ImportDone(w)
    PROVE  Good(w, j)
  <1> DEFINE r == [row[j] EXCEPT !.state = "done", !.book = TRUE,
                     !.details = [snap[w].details EXCEPT !.phase = "done"]]
  <1>1. /\ pc[w] = "apply" /\ pc[w] \in Handling /\ pc[w] \in Busy
        /\ UNCHANGED <<Locals, file, Rest, siteVars>>
    BY DEF ImportDone, Handling, Busy
  <1>2. /\ row[j] \in Row /\ snap[w].details \in Details /\ pc[w] # "idle"
        /\ row[j].details = snap[w].details /\ RowOK(row[j]) /\ HandlerOK(w)
        /\ row[j].state \in Active \cup Stopping /\ ~locked[j] /\ row[j].state # "done"
        /\ unlocked[j] <= 1
    BY <1>1, HandlerFacts, AtWork DEF QueueWorkerOK
  <1>3. row[j].details.phase = "import" /\ published[j]
    BY <1>1, <1>2 DEF HandlerOK, PhaseOK
  <1>4. ~row[j].details.uncertain /\ ~Doubt(j)
    BY <1>2, <1>3, NoDoubt DEF Doubt
  <1>5. /\ r \in Row /\ r.state = "done" /\ r.book /\ r.details.phase = "done"
        /\ ~r.details.uncertain
    BY <1>2, <1>4, StateNames DEF Row, Details, Phases
  <1> HIDE DEF r
  <1>6. Update(j, r) /\ Goto(w, "tidy")
    BY DEF ImportDone, r
  <1>7. /\ row'[j].details = r.details /\ row'[j].book
        /\ row'[j].state = Landing(row[j].state, "done")
        /\ \A k \in Jobs : k # j => row'[k] = row[k]
    BY <1>5, <1>6, UpdateRow
  <1>8. row'[j].state = "done"
    BY <1>7 DEF Landing, Final
  <1>9. Local(w, j) /\ pc'[w] = "tidy"
    BY <1>1, <1>2, <1>6, <1>7, WorkLocal DEF Locals, Rest, Untouched, siteVars
  <1>10. RowOK(row'[j])
    BY <1>5, <1>7, <1>8 DEF RowOK
  <1>11. locked'[j] = locked[j] /\ unlocked'[j] <= 1 /\ published'[j]
    BY <1>1, <1>2, <1>3 DEF Rest, siteVars
  <1>12. QueueJobOK(j)'
    BY <1>2, <1>7, <1>9, <1>10, <1>11, JobAtWork
  <1>13. QueueWorkerOK(w)'
    BY <1>8, <1>9 DEF QueueWorkerOK, HandlerOK, PhaseOK, EndOK, Sweeping, Swept, Local, Active
  <1>14. Told(j)
    BY <1>2, <1>4, <1>8 DEF Told, DoneFinal, Honoured, Evident, Doubt, Final
  <1>15. Money(j)
    BY <1>1, <1>4, <1>5, <1>7 DEF Money, Stays, SameDoubt, Doubt, Uncertain, siteVars
  <1> QED
    BY <1>9, <1>12, <1>13, <1>14, <1>15 DEF Good
LEMMA FailingGood ==
    ASSUME TypeOK, SingleOwner, PayInv, QueueInv, NEW w \in Workers, NEW j \in Jobs,
           job[w] = j, Interrupt(w) \/ Fail(w)
    PROVE  Good(w, j)
  <1>1. pc[w] \in Handling /\ UNCHANGED <<row, file, Rest, siteVars>>
    BY DEF Interrupt, Fail, AtSite, AtFile, Handling
  <1>2. \E e : Raise(w, e)
    BY DEF Interrupt, Fail
  <1> QED
    BY <1>1, <1>2, RaiseInHandler

-----------------------------------------------------------------------------
(* On the way out of a job.                                                *)

Outward == {"tidy", "check", "clear", "settle", "clean", "exit", "unpause", "release"}

\* A step of a worker that has left its handler.
LEMMA EndGood ==
    ASSUME TypeOK, SingleOwner, PayInv, QueueInv, NEW w \in Workers, NEW j \in Jobs,
           pc[w] # "idle", job[w] = j, NEW p \in Outward, Goto(w, p), job' = job, proc' = proc,
           \A v \in Workers : v # w => /\ snap'[v] = snap[v] /\ heard'[v] = heard[v]
                                       /\ err'[v] = err[v] /\ verdict'[v] = verdict[v],
           \A k \in Jobs : k # j => Untouched(k),
           RowOK(row'[j]), locked'[j] = locked[j], unlocked'[j] <= 1,
           locked[j] => row'[j].state \notin Live,
           row'[j].state = "done" => row'[j].book /\ published'[j],
           Told(j), Money(j), EndOK(w, row[j])', Sweeping(w)' \/ Swept(j)'
    PROVE  Good(w, j)
  <1>1. Local(w, j) /\ pc'[w] = p /\ p # "idle"
    BY WorkLocal DEF Outward
  <1>2. QueueJobOK(j)'
    BY <1>1, JobAtWork
  <1>3. HandlerOK(w)'
    BY <1>1 DEF HandlerOK, PhaseOK, Outward
  <1>4. QueueWorkerOK(w)'
    BY <1>1, <1>3 DEF QueueWorkerOK, Local
  <1> QED
    BY <1>1, <1>2, <1>4 DEF Good

\* Such a step that keeps the row's state, details, link and book.
LEMMA EndStill ==
    ASSUME TypeOK, SingleOwner, PayInv, QueueInv, NEW w \in Workers, NEW j \in Jobs,
           pc[w] # "idle", job[w] = j, NEW p \in Outward, Goto(w, p), UNCHANGED <<job, Rest, siteVars>>,
           \A v \in Workers : v # w => /\ snap'[v] = snap[v] /\ heard'[v] = heard[v]
                                       /\ err'[v] = err[v] /\ verdict'[v] = verdict[v],
           \A k \in Jobs : k # j => row'[k] = row[k] /\ file'[k] = file[k],
           row'[j].state = row[j].state, row'[j].details = row[j].details,
           row'[j].secret = row[j].secret, row'[j].site = row[j].site, row'[j].book = row[j].book,
           EndOK(w, row[j])', Sweeping(w)' \/ Swept(j)'
    PROVE  Good(w, j)
  <1>1. QueueJobOK(j)
    BY DEF QueueInv
  <1>2. /\ RowOK(row'[j]) /\ unlocked'[j] <= 1
        /\ locked[j] => row'[j].state \notin Live
        /\ row'[j].state = "done" => row'[j].book /\ published'[j]
    BY <1>1 DEF QueueJobOK, RowOK, Rest, siteVars
  <1>3. Told(j) /\ Money(j)
    BY DEF Told, DoneFinal, Honoured, Evident, Money, Stays, SameDoubt, siteVars
  <1>4. \A k \in Jobs : k # j => Untouched(k)
    BY DEF Untouched, Rest, siteVars
  <1>5. locked'[j] = locked[j] /\ proc' = proc /\ job' = job
    BY DEF Rest
  <1> QED
    BY <1>2, <1>3, <1>4, <1>5, EndGood

LEMMA AfterHandlerGood ==
    ASSUME TypeOK, SingleOwner, PayInv, QueueInv, NEW w \in Workers, NEW j \in Jobs,
           job[w] = j, AfterHandler(w)
    PROVE  Good(w, j)
  <1>1. /\ pc[w] = "check" /\ pc[w] \notin {"idle", "clean"} /\ UNCHANGED <<file, Rest, siteVars>>
    BY DEF AfterHandler
  <1>2. QueueWorkerOK(w) /\ QueueJobOK(j) /\ row[j] \in Row
    BY <1>1 DEF QueueInv, TypeOK
  <1>3. row[j].state \notin Active /\ Swept(j)
    BY <1>1, <1>2 DEF QueueWorkerOK, EndOK, Sweeping
  <1>4. CASE StoppedAfter(j)
    <2>1. Raise(w, "none") /\ UNCHANGED row /\ row[j].state # "done"
      BY <1>4 DEF AfterHandler, StoppedAfter
    <2>2. Money(j) /\ unlocked'[j] <= 1 /\ "none" \notin RefusedBeforeCharge
      BY <1>1, <1>2, <2>1 DEF Money, Stays, SameDoubt, siteVars, QueueJobOK, RefusedBeforeCharge
    <2> QED
      BY <1>1, <2>1, <2>2, RaiseGood DEF siteVars
  <1>5. CASE ~StoppedAfter(j)
    <2>1. row' = [row EXCEPT ![j].attempts = 0] /\ Goto(w, "exit") /\ UNCHANGED Locals
      BY <1>5 DEF AfterHandler
    <2>2. /\ row'[j] = [row[j] EXCEPT !.attempts = 0]
          /\ \A k \in Jobs : k # j => row'[k] = row[k]
      BY <2>1 DEF TypeOK
    <2>3. /\ row'[j].state = row[j].state /\ row'[j].details = row[j].details
          /\ row'[j].secret = row[j].secret /\ row'[j].site = row[j].site
          /\ row'[j].book = row[j].book
      BY <1>2, <2>2 DEF Row
    <2>4. pc'[w] = "exit" /\ "exit" \in Outward
      BY <2>1 DEF Goto, TypeOK, Outward
    <2>5. EndOK(w, row[j])' /\ Swept(j)'
      BY <1>1, <1>3, <2>3, <2>4 DEF EndOK, Swept, Rest
    <2> QED
      BY <1>1, <2>1, <2>2, <2>3, <2>4, <2>5, EndStill DEF Locals
  <1> QED
    BY <1>4, <1>5

LEMMA SettledVerdict ==
    ASSUME NEW s, NEW e, NEW a, NEW u
    PROVE  /\ Settled(s, e, a, u).state \in Verdicts
           /\ Settled(s, e, a, u).state = "queued" => e # "none" /\ ~u
  BY DEF Settled, Verdicts

LEMMA FinishReadGood ==
    ASSUME TypeOK, SingleOwner, PayInv, QueueInv, NEW w \in Workers, NEW j \in Jobs,
           job[w] = j, FinishRead(w)
    PROVE  Good(w, j)
  <1> DEFINE v == Settled(row[j].state, err[w], row[j].attempts,
                          Uncertain(row[j].details) /\ ~Refused(w))
             p == IF Refused(w) THEN "clear" ELSE "settle"
  <1>1. /\ pc[w] = "finish" /\ pc[w] \notin {"idle", "clean"}
        /\ UNCHANGED <<job, snap, heard, err, row, file, Rest, siteVars>>
        /\ verdict' = [verdict EXCEPT ![w] = v] /\ Goto(w, p)
    BY DEF FinishRead
  <1>2. QueueWorkerOK(w)
    BY <1>1 DEF QueueInv
  <1>3. /\ Swept(j) /\ row[j].state # "done"
        /\ err[w] # "none" => row[j].state \in Active \cup Stopping
        /\ err[w] \in RefusedBeforeCharge => row[j].details = snap[w].details
    BY <1>1, <1>2 DEF QueueWorkerOK, EndOK, Sweeping
  <1>4. v.state \in Verdicts
    BY SettledVerdict
  <1>5. v.state = "queued" => err[w] # "none" /\ ~(Uncertain(row[j].details) /\ ~Refused(w))
    BY SettledVerdict
  <1> HIDE DEF v
  <1>6. verdict'[w] = v /\ pc'[w] = p /\ p \in Outward
        /\ \A u \in Workers : u # w => verdict'[u] = verdict[u]
    BY <1>1 DEF Goto, TypeOK, Outward
  <1>7. Refused(w) => /\ row[j].details.phase = "uncertain" /\ err[w] \in RefusedBeforeCharge
                      /\ err[w] # "none"
    BY DEF Refused, RefusedBeforeCharge
  <1>8. EndOK(w, row[j])'
    BY <1>1, <1>3, <1>4, <1>5, <1>6, <1>7 DEF EndOK
  <1>9. Swept(j)'
    BY <1>1, <1>3 DEF Swept, Rest
  <1> HIDE DEF p
  <1> QED
    BY <1>1, <1>6, <1>8, <1>9, EndStill

LEMMA FinishRefusedGood ==
    ASSUME TypeOK, SingleOwner, PayInv, QueueInv, NEW w \in Workers, NEW j \in Jobs,
           job[w] = j, FinishRefused(w)
    PROVE  Good(w, j)
  <1> DEFINE r == [row[j] EXCEPT !.details.phase = "inspect", !.details.uncertain = FALSE]
  <1>1. /\ pc[w] = "clear" /\ pc[w] \notin {"idle", "clean"}
        /\ UNCHANGED <<Locals, file, Rest, siteVars>> /\ "settle" \in Outward
    BY DEF FinishRefused, Outward
  <1>2. QueueWorkerOK(w) /\ QueueJobOK(j) /\ row[j] \in Row /\ row[j].details \in Details
    BY <1>1 DEF QueueInv, TypeOK, Row
  <1>3. /\ row[j].state \in Active \cup Stopping /\ row[j].details.phase = "uncertain"
        /\ snap[w].details.phase = "uncertain" /\ verdict[w].state \in Verdicts /\ Swept(j)
    BY <1>1, <1>2 DEF QueueWorkerOK, EndOK, Sweeping
  <1>4. /\ r \in Row /\ r.state = row[j].state /\ r.book = row[j].book
        /\ r.details.phase = "inspect" /\ ~r.details.uncertain /\ ~Uncertain(r.details)
    BY <1>2 DEF Row, Details, Phases, Uncertain
  <1> HIDE DEF r
  <1>5. Update(j, r) /\ Goto(w, "settle")
    BY DEF FinishRefused, r
  <1>6. /\ row'[j].details = r.details /\ row'[j].state = row[j].state
        /\ \A k \in Jobs : k # j => row'[k] = row[k]
    BY <1>4, <1>5, UpdateRow DEF Landing
  <1>7. pc'[w] = "settle"
    BY <1>5 DEF Goto, TypeOK
  <1>8. row[j].state # "done" /\ row[j].state \in Live /\ ~locked[j]
    BY <1>2, <1>3 DEF Active, Stopping, Live, QueueJobOK
  <1>9. EndOK(w, row[j])' /\ Swept(j)'
    BY <1>1, <1>3, <1>4, <1>6, <1>7, <1>8 DEF EndOK, Swept, Rest, Locals
  <1>10. RowOK(row'[j])
    BY <1>4, <1>6 DEF RowOK
  <1>11. Told(j)
    BY <1>1, <1>3, <1>6 DEF Told, DoneFinal, Honoured, Evident
  <1>12. Money(j)
    BY <1>1, <1>3, <1>4, <1>6 DEF Money, Learns, Doubt, Uncertain, siteVars
  <1>13. \A k \in Jobs : k # j => Untouched(k)
    BY <1>1, <1>6 DEF Untouched, Rest, siteVars
  <1>14. unlocked'[j] <= 1 /\ locked'[j] = locked[j] /\ proc' = proc /\ job' = job
    BY <1>1, <1>2 DEF QueueJobOK, Rest, Locals, siteVars
  <1> QED
    BY <1>1, <1>5, <1>6, <1>8, <1>9, <1>10, <1>11, <1>12, <1>13, <1>14, EndGood DEF Locals
LEMMA FinishSettleGood ==
    ASSUME TypeOK, SingleOwner, PayInv, QueueInv, NEW w \in Workers, NEW j \in Jobs,
           job[w] = j, FinishSettle(w)
    PROVE  Good(w, j)
  <1> DEFINE v == verdict[w]
             r == [row[j] EXCEPT !.state = v.state, !.attempts = v.attempts, !.held = v.held]
             p == IF v.state = "cancelled" \/ err[w] = "too_large" THEN "clean" ELSE "exit"
  <1>1. /\ pc[w] = "settle" /\ pc[w] # "idle" /\ UNCHANGED <<Locals, file, Rest, siteVars>>
        /\ Update(j, r) /\ Goto(w, p)
    BY DEF FinishSettle
  <1>2. QueueWorkerOK(w) /\ QueueJobOK(j) /\ row[j] \in Row
    BY <1>1 DEF QueueInv, TypeOK
  <1>3. /\ v.state \in States /\ v.attempts \in 0 .. MaxAttempts /\ v.held \in BOOLEAN
    BY DEF TypeOK
  <1>4. /\ row[j].state # "done" /\ v.state \in Verdicts
        /\ v.state = "queued" => row[j].state \in Active \cup Stopping /\ ~Uncertain(row[j].details)
    BY <1>1, <1>2 DEF QueueWorkerOK, EndOK
  <1>5. /\ r \in Row /\ r.state = v.state /\ r.details = row[j].details /\ r.site = row[j].site
        /\ r.secret = row[j].secret /\ r.book = row[j].book
    BY <1>2, <1>3 DEF Row
  <1> HIDE DEF r
  <1>6. /\ row'[j].details = row[j].details /\ row'[j].site = row[j].site
        /\ row'[j].secret = row[j].secret /\ row'[j].book = row[j].book
        /\ row'[j].state = Landing(row[j].state, v.state)
        /\ \A k \in Jobs : k # j => row'[k] = row[k]
    BY <1>1, <1>5, UpdateRow
  <1>7. /\ row'[j].state \in Stopping \/ row'[j].state = v.state
        /\ row'[j].state \in Stopping => row[j].state \in Stopping \/ row'[j].state = v.state
        /\ row[j].state \in Stopping => row'[j].state \in Stopping \cup Final
    BY <1>6 DEF Landing
  <1>8. row'[j].state \in Verdicts \cup Stopping /\ row'[j].state \notin Active \cup {"done"}
    BY <1>4, <1>7 DEF Verdicts, Stopping, Active
  <1>9. pc'[w] = p /\ p \in Outward
    BY <1>1 DEF Goto, TypeOK, Outward
  <1>10. row'[j].state \in Live => row[j].state \in Live
    BY <1>4, <1>7 DEF Live, Verdicts, Active, Stopping
  <1>11. RowOK(row'[j])
    <2>1. row'[j].state = "queued" => ~Uncertain(row[j].details)
      BY <1>4, <1>7 DEF Stopping
    <2>2. row'[j].state # "needs_approval"
      BY <1>8 DEF Verdicts, Stopping
    <2>3. RowOK(row[j])
      BY <1>2 DEF QueueJobOK
    <2> QED
      BY <1>4, <1>6, <1>10, <2>1, <2>2, <2>3 DEF RowOK, Uncertain
  <1>12. locked[j] => row'[j].state \notin Live
    BY <1>2, <1>10 DEF QueueJobOK
  <1>13. EndOK(w, row[j])'
    BY <1>1, <1>4, <1>8, <1>9 DEF EndOK, Locals
  <1>14. Sweeping(w)' \/ Swept(j)'
    <2>1. CASE v.state = "cancelled"
      BY <1>1, <1>9, <2>1 DEF Sweeping, Locals
    <2>2. CASE v.state # "cancelled"
      BY <1>7, <2>2 DEF Swept, Stopping
    <2> QED
      BY <2>1, <2>2
  <1>15. Told(j) /\ Money(j)
    BY <1>1, <1>4, <1>6, <1>7 DEF Told, DoneFinal, Honoured, Evident, Money, Stays, SameDoubt, siteVars
  <1>16. \A k \in Jobs : k # j => Untouched(k)
    BY <1>1, <1>6 DEF Untouched, Rest, siteVars
  <1>17. unlocked'[j] <= 1 /\ locked'[j] = locked[j] /\ proc' = proc /\ job' = job
    BY <1>1, <1>2 DEF QueueJobOK, Rest, Locals, siteVars
  <1> HIDE DEF p
  <1> QED
    BY <1>1, <1>8, <1>9, <1>11, <1>12, <1>13, <1>14, <1>15, <1>16, <1>17, EndGood DEF Locals

\* A cleanup removes the archive of a job it was called for.
LEMMA CleanupEffect ==
    ASSUME TypeOK, NEW j \in Jobs, NEW states, Cleanup(j, states)
    PROVE  /\ ~locked[j] /\ file'[j] = (IF row[j].state \in states THEN "none" ELSE file[j])
           /\ \A k \in Jobs : k # j => file'[k] = file[k]
  BY DEF Cleanup, TypeOK

LEMMA SweepGood ==
    ASSUME TypeOK, SingleOwner, PayInv, QueueInv, NEW w \in Workers, NEW j \in Jobs,
           job[w] = j, NEW states, NEW p \in {"exit", "check"}, pc[w] \in {"clean", "tidy"},
           Cleanup(j, states), Goto(w, p), UNCHANGED <<Locals, row, page, Rest, siteVars>>,
           Sweeping(w) => states = {"cancelled"}
    PROVE  Good(w, j)
  <1>1. pc[w] # "idle"
    OBVIOUS
  <1>2. QueueWorkerOK(w)
    BY <1>1 DEF QueueInv
  <1>3. row[j].state \notin Active /\ (~Sweeping(w) => Swept(j))
    BY <1>1, <1>2 DEF QueueWorkerOK, EndOK
  <1>4. pc'[w] = p /\ p \in Outward
    BY <1>1 DEF Goto, TypeOK, Outward
  <1>5. EndOK(w, row[j])'
    BY <1>1, <1>3, <1>4 DEF EndOK
  <1>6. Swept(j)'
    <2>1. file'[j] = (IF row[j].state \in states THEN "none" ELSE file[j])
      BY <1>1, CleanupEffect
    <2>2. CASE Sweeping(w)
      BY <1>1, <2>1, <2>2 DEF Swept, Rest
    <2>3. CASE ~Sweeping(w)
      BY <1>1, <1>3, <2>1, <2>3 DEF Swept, Rest
    <2> QED
      BY <2>2, <2>3
  <1>7. \A k \in Jobs : k # j => file'[k] = file[k]
    BY <1>1, CleanupEffect
  <1> QED
    BY <1>1, <1>4, <1>5, <1>6, <1>7, EndStill DEF Locals

LEMMA CleanGood ==
    ASSUME TypeOK, SingleOwner, PayInv, QueueInv, NEW w \in Workers, NEW j \in Jobs,
           job[w] = j, FinishClean(w) \/ ImportTidied(w)
    PROVE  Good(w, j)
  <1>1. CASE FinishClean(w)
    <2> DEFINE states == IF verdict[w].state = "cancelled" THEN {"cancelled"} ELSE {"error", "paused"}
    <2>1. /\ pc[w] = "clean" /\ Cleanup(j, states) /\ Goto(w, "exit")
          /\ UNCHANGED <<Locals, row, page, Rest, siteVars>>
      BY <1>1 DEF FinishClean
    <2>2. Sweeping(w) => states = {"cancelled"}
      BY DEF Sweeping
    <2> HIDE DEF states
    <2> QED
      BY <2>1, <2>2, SweepGood
  <1>2. CASE ImportTidied(w)
    <2>1. /\ pc[w] = "tidy" /\ Cleanup(j, {"done"}) /\ Goto(w, "check") /\ ~Sweeping(w)
          /\ UNCHANGED <<Locals, row, page, Rest, siteVars>>
      BY <1>2 DEF ImportTidied, Sweeping
    <2> QED
      BY <2>1, SweepGood
  <1> QED
    BY <1>1, <1>2

LEMMA ExitGood ==
    ASSUME TypeOK, SingleOwner, PayInv, QueueInv, NEW w \in Workers, NEW j \in Jobs,
           job[w] = j, ExitRead(w) \/ ExitPause(w)
    PROVE  Good(w, j)
  <1>1. /\ pc[w] \in {"exit", "unpause"} /\ pc[w] \notin {"idle", "clean"}
        /\ UNCHANGED <<Locals, file, Rest, siteVars>>
    BY DEF ExitRead, ExitPause
  <1>2. QueueWorkerOK(w) /\ QueueJobOK(j) /\ row[j] \in Row
    BY <1>1 DEF QueueInv, TypeOK
  <1>3. row[j].state \notin Active /\ Swept(j) /\ (pc[w] = "unpause" => row[j].state \in Stopping)
    BY <1>1, <1>2 DEF QueueWorkerOK, EndOK, Sweeping
  <1>4. CASE ExitRead(w)
    <2> DEFINE p == IF LeftPausing(w) THEN "unpause" ELSE "release"
    <2>1. Goto(w, p) /\ UNCHANGED row
      BY <1>4 DEF ExitRead
    <2>2. pc'[w] = p /\ p \in Outward
      BY <2>1 DEF Goto, TypeOK, Outward
    <2>3. \/ p = "unpause" /\ row[j].state \in Stopping
          \/ p = "release" /\ row[j].state # "pausing"
      BY DEF LeftPausing, Stopping
    <2> HIDE DEF p
    <2>4. EndOK(w, row[j])'
      BY <1>3, <2>1, <2>2, <2>3 DEF EndOK
    <2>5. Swept(j)'
      BY <1>1, <1>3, <2>1 DEF Swept, Rest
    <2> QED
      BY <1>1, <2>1, <2>2, <2>4, <2>5, EndStill DEF Locals
  <1>5. CASE ExitPause(w)
    <2> DEFINE r == [row[j] EXCEPT !.state = "paused"]
    <2>1. /\ pc[w] = "unpause" /\ Update(j, r) /\ Goto(w, "release")
      BY <1>5 DEF ExitPause
    <2>2. /\ r \in Row /\ r.state = "paused" /\ r.details = row[j].details /\ r.site = row[j].site
          /\ r.secret = row[j].secret
      BY <1>2, StateNames DEF Row
    <2> HIDE DEF r
    <2>3. /\ row'[j].details = row[j].details /\ row'[j].site = row[j].site
          /\ row'[j].secret = row[j].secret
          /\ row'[j].state = Landing(row[j].state, "paused")
          /\ \A k \in Jobs : k # j => row'[k] = row[k]
      BY <2>1, <2>2, UpdateRow
    <2>4. row'[j].state = "paused"
      BY <2>3 DEF Landing, Final
    <2>5. pc'[w] = "release" /\ "release" \in Outward
      BY <2>1 DEF Goto, TypeOK, Outward
    <2>6. RowOK(row'[j])
      <3>1. RowOK(row[j]) /\ row[j].state # "done"
        BY <1>2, <1>3, <2>1 DEF QueueJobOK, Stopping
      <3> QED
        BY <2>3, <2>4, <3>1 DEF RowOK, Live, Active, Stopping
    <2>7. EndOK(w, row[j])' /\ Swept(j)'
      BY <2>4, <2>5 DEF EndOK, Swept, Active
    <2>8. Told(j) /\ Money(j)
      BY <1>1, <1>3, <2>1, <2>3, <2>4
         DEF Told, DoneFinal, Honoured, Evident, Money, Stays, SameDoubt, siteVars, Stopping, Final
    <2>9. \A k \in Jobs : k # j => Untouched(k)
      BY <1>1, <2>3 DEF Untouched, Rest, siteVars
    <2>10. /\ unlocked'[j] <= 1 /\ locked'[j] = locked[j] /\ proc' = proc /\ job' = job
           /\ row'[j].state \notin Live
      BY <1>1, <1>2, <2>4 DEF QueueJobOK, Rest, Locals, siteVars, Live, Active, Stopping
    <2> QED
      BY <1>1, <2>1, <2>4, <2>5, <2>6, <2>7, <2>8, <2>9, <2>10, EndGood DEF Locals
  <1> QED
    BY <1>4, <1>5

LEMMA ReleaseGood ==
    ASSUME TypeOK, SingleOwner, PayInv, QueueInv, NEW w \in Workers, NEW j \in Jobs,
           job[w] = j, Release(w)
    PROVE  Good(w, j)
  <1>1. pc[w] = "release" /\ UNCHANGED <<row, file, Rest, siteVars>>
    BY DEF Release
  <1>2. QueueWorkerOK(w) /\ QueueJobOK(j)
    BY <1>1 DEF QueueInv
  <1>3. row[j].state \notin Active \cup {"pausing"} /\ Swept(j)
    BY <1>1, <1>2 DEF QueueWorkerOK, EndOK, Sweeping
  <1>4. /\ pc'[w] = "idle"
        /\ \A v \in Workers : v # w => /\ pc'[v] = pc[v] /\ job'[v] = job[v] /\ snap'[v] = snap[v]
                                       /\ heard'[v] = heard[v] /\ err'[v] = err[v]
                                       /\ verdict'[v] = verdict[v]
    BY DEF Release, Goto, TypeOK
  <1>5. proc' = proc /\ proc \in {"up", "stopping"}
    BY <1>1 DEF PayInv, Idle, TypeOK, Rest
  <1>6. \A v \in Workers : v # w /\ pc[v] # "idle" => job[v] # j
    BY <1>1 DEF SingleOwner
  <1>7. \A k \in Jobs : Untouched(k)
    BY <1>1 DEF Untouched, Rest, siteVars
  <1>8. Local(w, j)
    BY <1>4, <1>5, <1>6, <1>7 DEF Local
  <1>9. QueueJobOK(j)'
    BY <1>1, <1>2, <1>3, <1>5 DEF QueueJobOK, Swept, Rest, siteVars
  <1>10. Told(j) /\ Money(j)
    BY <1>7, UntouchedKept DEF Money
  <1> QED
    BY <1>4, <1>8, <1>9, <1>10 DEF Good

LEMMA WorkKept ==
    ASSUME TypeOK, TypeOK', SingleOwner, PayInv, QueueInv, NEW w \in Workers, Work(w)
    PROVE  Kept
  <1>1. pc[w] # "idle" /\ job[w] \in Jobs
    BY WorkBusy, OwnerType
  <1>2. Importing(w) => Good(w, job[w])
    BY <1>1, ImportVerifiedGood, ImportPublishedGood, ImportDoneGood, CleanGood DEF Importing
  <1>3. Ending(w) => Good(w, job[w])
    BY <1>1, AfterHandlerGood, FinishReadGood, FinishRefusedGood, FinishSettleGood, CleanGood,
       ExitGood, ReleaseGood DEF Ending
  <1>4. Good(w, job[w])
    BY <1>1, <1>2, <1>3, BeginGood, InspectingGood, SubmittingGood, RecoverGood, TransferringGood,
       FailingGood DEF Work
  <1> QED
    BY <1>1, <1>4, GoodStep

LEMMA ClaimKept ==
    ASSUME TypeOK, TypeOK', SingleOwner, PayInv, QueueInv, NEW w \in Workers, NEW j \in Jobs,
           Claim(w, j)
    PROVE  Kept
  <1> DEFINE r == [row[j] EXCEPT !.state = "inspecting"]
  <1>1. /\ proc \in {"up", "stopping"} /\ pc[w] = "idle" /\ row[j].state = "queued"
        /\ j \notin working /\ job' = [job EXCEPT ![w] = j] /\ Goto(w, "begin") /\ Write(j, r)
        /\ UNCHANGED <<file, Rest, siteVars, snap, heard, err, verdict>>
    BY DEF Claim, Claimable
  <1>2. row[j] \in Row /\ QueueJobOK(j)
    BY DEF TypeOK, QueueInv
  <1>3. /\ r \in Row /\ r.state = "inspecting" /\ r.details = row[j].details
        /\ r.site = row[j].site /\ r.secret = row[j].secret
    BY <1>2, StateNames DEF Row
  <1> HIDE DEF r
  <1>4. row'[j] = r /\ \A k \in Jobs : k # j => row'[k] = row[k]
    BY <1>1, <1>3, WriteEffect
  <1>5. /\ pc'[w] = "begin" /\ job'[w] = j
        /\ \A v \in Workers : v # w => pc'[v] = pc[v] /\ job'[v] = job[v]
    BY <1>1 DEF Goto, TypeOK
  <1>6. \A v \in Workers : pc[v] # "idle" => job[v] # j
    BY <1>1 DEF SingleOwner, Owned
  <1>7. \A k \in Jobs : k # j => Untouched(k)
    BY <1>1, <1>4 DEF Untouched, Rest, siteVars
  <1>8. Local(w, j)
    BY <1>1, <1>5, <1>6, <1>7 DEF Local, Rest
  <1>9. RowOK(row'[j])
    <2>1. RowOK(row[j])
      BY <1>2 DEF QueueJobOK
    <2> QED
      BY <1>1, <1>3, <1>4, <2>1 DEF RowOK, Live
  <1>10. ~locked[j] /\ unlocked[j] <= 1
    BY <1>1, <1>2 DEF QueueJobOK, Live
  <1>11. QueueJobOK(j)'
    <2>1. Owned(j)'
      BY <1>5 DEF Owned
    <2> QED
      BY <1>1, <1>3, <1>4, <1>9, <1>10, <2>1 DEF QueueJobOK, Rest, siteVars
  <1>12. QueueWorkerOK(w)'
    BY <1>3, <1>4, <1>5 DEF QueueWorkerOK, HandlerOK, PhaseOK, EndOK, Swept
  <1>13. Told(j) /\ Money(j)
    BY <1>1, <1>3, <1>4 DEF Told, DoneFinal, Honoured, Evident, Money, Stays, SameDoubt, Stopping,
                            siteVars
  <1> QED
    BY <1>8, <1>11, <1>12, <1>13, GoodStep DEF Good

-----------------------------------------------------------------------------
(* The steps of users, clocks and the site.                                *)

\* What such a step makes of the row of job j.
Becomes(j, s, r) ==
    /\ row'[j].details = r.details /\ row'[j].site = r.site /\ row'[j].secret = r.secret
    /\ row'[j].book = r.book /\ row'[j].state = s
    /\ \A k \in Jobs : k # j => row'[k] = row[k]

\* It leaves a job alone that a worker may be handling, except for stopping it.
Obeys(j) ==
    /\ UNCHANGED workerVars /\ proc' = proc
    /\ \A k \in Jobs : k # j => Untouched(k)
    /\ row[j].state \in Active \cup Stopping =>
         /\ row'[j].state \in {row[j].state} \cup Stopping
         /\ row'[j].details = row[j].details /\ row'[j].site = row[j].site
         /\ row'[j].secret = row[j].secret
         /\ file'[j] = file[j] /\ published'[j] = published[j]
    /\ row'[j].state \in Active => row[j].state = row'[j].state
    /\ row'[j].state = "pausing" => row[j].state \in Active \cup {"pausing"}
    /\ row'[j].state = "done" =>
         /\ row[j].state = "done" /\ row'[j].book = row[j].book /\ published'[j] = published[j]
    /\ proc # "up" => row'[j].state = row[j].state
    /\ RowOK(row'[j])
    /\ locked'[j] => row'[j].state \notin Live
    /\ unlocked'[j] <= unlocked[j] /\ unlocked'[j] \in Nat
    /\ Swept(j) => Swept(j)'
    /\ Told(j) /\ Money(j)

LEMMA ObeysWorker ==
    ASSUME TypeOK, PayInv, NEW j \in Jobs, Obeys(j), NEW w \in Workers, pc[w] # "idle",
           job[w] = j, QueueWorkerOK(w)
    PROVE  QueueWorkerOK(w)'
  <1>1. /\ pc'[w] = pc[w] /\ job'[w] = job[w] /\ snap'[w] = snap[w] /\ heard'[w] = heard[w]
        /\ err'[w] = err[w] /\ verdict'[w] = verdict[w]
    BY DEF Obeys, workerVars
  <1>2. unlocked[j] \in Nat /\ unlocked'[j] \in Nat /\ unlocked'[j] <= unlocked[j]
    BY DEF TypeOK, Obeys
  <1>3. HandlerOK(w)'
    <2>1. CASE pc[w] \in Handling
      <3>1. row[j].state \in Active \cup Stopping
        BY <2>1 DEF PayInv, WorkerOK, Busy
      <3>2. /\ row'[j].details = row[j].details /\ row'[j].site = row[j].site
            /\ row'[j].secret = row[j].secret /\ file'[j] = file[j] /\ published'[j] = published[j]
        BY <3>1 DEF Obeys
      <3>3. unlocked[j] = 0 => unlocked'[j] = 0
        BY <1>2
      <3> QED
        BY <1>1, <3>2, <3>3 DEF QueueWorkerOK, HandlerOK
    <2>2. CASE pc[w] \notin Handling
      BY <1>1, <2>2 DEF HandlerOK, PhaseOK, Handling
    <2> QED
      BY <2>1, <2>2
  <1>4. EndOK(w, row[j])'
    <2>1. EndOK(w, row[j])
      BY DEF QueueWorkerOK
    <2>2. row[j].state \in Active \cup Stopping =>
            /\ row'[j].state \in Active \cup Stopping
            /\ row'[j].details = row[j].details
            /\ row[j].state \in Stopping => row'[j].state \in Stopping
      BY DEF Obeys
    <2>3. /\ row'[j].state \in Active => row[j].state \in Active
          /\ row'[j].state = "pausing" => row[j].state \in Active \cup {"pausing"}
          /\ row'[j].state = "done" => row[j].state = "done"
      BY DEF Obeys
    <2>4. err[w] \in RefusedBeforeCharge => err[w] # "none"
      BY DEF RefusedBeforeCharge
    <2> QED
      BY <1>1, <2>1, <2>2, <2>3, <2>4 DEF EndOK
  <1>5. ~Sweeping(w)' => Swept(j)'
    BY <1>1 DEF QueueWorkerOK, Sweeping, Obeys
  <1> QED
    BY <1>1, <1>3, <1>4, <1>5 DEF QueueWorkerOK

LEMMA ObeysKept ==
    ASSUME TypeOK, TypeOK', PayInv, QueueInv, NEW j \in Jobs, Obeys(j)
    PROVE  Kept
  <1>1. \A k \in Jobs : Owned(k)' <=> Owned(k)
    BY DEF Obeys, workerVars, Owned
  <1>2. proc' = proc
    BY DEF Obeys
  <1>3. ASSUME NEW k \in Jobs, k # j
        PROVE  QueueJobOK(k)'
    <2>1. Untouched(k)
      BY <1>3 DEF Obeys
    <2> QED
      BY <1>1, <1>2, <2>1, JobOKUntouched
  <1>4. QueueJobOK(j)'
    <2>1. QueueJobOK(j)
      BY DEF QueueInv
    <2>2. unlocked'[j] <= 1
      BY <2>1 DEF QueueJobOK, Obeys, TypeOK
    <2>3. row'[j].state = "done" => row'[j].book /\ published'[j]
      BY <2>1 DEF QueueJobOK, Obeys
    <2>4. proc = "starting" => row'[j].state \notin Active \cup Stopping
      BY <2>1 DEF QueueJobOK, Obeys
    <2>5. proc \in {"up", "stopping"} /\ ~Owned(j) =>
            row'[j].state \notin Active \cup {"pausing"} /\ Swept(j)'
      BY <2>1 DEF QueueJobOK, Obeys
    <2>6. RowOK(row'[j]) /\ (locked'[j] => row'[j].state \notin Live)
      BY DEF Obeys
    <2> QED
      BY <1>1, <1>2, <2>2, <2>3, <2>4, <2>5, <2>6 DEF QueueJobOK
  <1>5. ASSUME NEW w \in Workers, pc'[w] # "idle"
        PROVE  QueueWorkerOK(w)'
    <2>1. /\ pc'[w] = pc[w] /\ job'[w] = job[w] /\ snap'[w] = snap[w] /\ heard'[w] = heard[w]
          /\ err'[w] = err[w] /\ verdict'[w] = verdict[w]
      BY DEF Obeys, workerVars
    <2>2. QueueWorkerOK(w) /\ job[w] \in Jobs
      BY <1>5, <2>1 DEF QueueInv, TypeOK
    <2>3. CASE job[w] = j
      BY <1>5, <2>1, <2>2, <2>3, ObeysWorker
    <2>4. CASE job[w] # j
      <3>1. Untouched(job[w])
        BY <2>2, <2>4 DEF Obeys
      <3> QED
        BY <2>1, <2>2, <3>1, WorkerOKUntouched
    <2> QED
      BY <2>3, <2>4
  <1>6. QueueInv'
    BY <1>3, <1>4, <1>5 DEF QueueInv
  <1>7. \A k \in Jobs : k # j => Told(k) /\ Stays(k)
    BY UntouchedKept DEF Obeys
  <1>8. Told(j) /\ Money(j)
    BY DEF Obeys
  <1>9. [P!Next]_(P!money)
    BY <1>7, <1>8, MoneyStep
  <1> QED
    BY <1>6, <1>7, <1>8, <1>9 DEF Kept

\* What a command has to check and to write.
LEMMA CommandObeys ==
    ASSUME TypeOK, QueueInv, NEW j \in Jobs, NEW s \in States, NEW r \in Row, Becomes(j, s, r),
           UNCHANGED <<workerVars, unlocked>>, proc = "up", proc' = proc,
           \A k \in Jobs : k # j => /\ file'[k] = file[k] /\ locked'[k] = locked[k]
                                    /\ published'[k] = published[k]
                                    /\ consent'[k] = consent[k] /\ sent'[k] = sent[k],
           s \notin Active \cup {"done"},
           s = "pausing" => row[j].state \in Active \cup {"pausing"},
           s = "cancelled" <=> locked'[j],
           row[j].state \in Active \cup Stopping =>
             s \in Stopping /\ r = row[j] /\ file'[j] = file[j] /\ published'[j] = published[j],
           RowOK([r EXCEPT !.state = s]),
           row[j].state = "done" => s = "queued" /\ r.details.phase = "inspect" /\ ~r.book,
           \/ consent'[j] = consent[j] /\ sent'[j] = sent[j] /\ (Uncertain(r.details) <=> Doubt(j))
           \/ consent'[j] \in Prices /\ sent'[j] = 0 /\ ~Uncertain(r.details) /\ ~Doubt(j)
           \/ consent'[j] = NoPrice /\ sent'[j] = 0 /\ ~Uncertain(r.details)
    PROVE  Obeys(j)
  <1>1. /\ row'[j].details = r.details /\ row'[j].site = r.site /\ row'[j].secret = r.secret
        /\ row'[j].book = r.book /\ row'[j].state = s
        /\ \A k \in Jobs : k # j => row'[k] = row[k]
    BY DEF Becomes
  <1>2. RowOK(row'[j])
    BY <1>1 DEF RowOK, Row
  <1>3. \A k \in Jobs : k # j => Untouched(k)
    BY <1>1 DEF Untouched
  <1>4. Told(j)
    BY <1>1 DEF Told, DoneFinal, Honoured, Evident, Doubt
  <1>5. Money(j)
    BY <1>1 DEF Money, Stays, SameDoubt, Agrees, Anew, Doubt
  <1>6. unlocked'[j] <= unlocked[j] /\ unlocked'[j] \in Nat
    BY DEF TypeOK
  <1>7. Swept(j)'
    BY <1>1 DEF Swept
  <1>8. locked'[j] => s \notin Live
    BY DEF Live, Active, Stopping
  <1> QED
    BY <1>1, <1>2, <1>3, <1>4, <1>5, <1>6, <1>7, <1>8 DEF Obeys

\* Create, search and choose.
LEMMA AnewObeys ==
    ASSUME TypeOK, QueueInv, NEW j \in Jobs, NEW r \in Row, Becomes(j, "queued", r), StartOver(j),
           UNCHANGED <<proc, locked, workerVars, unlocked>>, proc = "up", ~locked[j],
           row[j].state \notin Active \cup Stopping,
           r.details.phase = "inspect", ~r.details.uncertain, ~r.book
    PROVE  Obeys(j)
  <1>1. /\ consent'[j] = NoPrice /\ sent'[j] = 0
        /\ \A k \in Jobs : k # j => /\ file'[k] = file[k] /\ published'[k] = published[k]
                                    /\ consent'[k] = consent[k] /\ sent'[k] = sent[k]
    BY DEF StartOver, TypeOK
  <1>2. RowOK([r EXCEPT !.state = "queued"])
    BY DEF RowOK, Row
  <1>3. ~Uncertain(r.details)
    BY DEF Uncertain
  <1>4. "queued" \notin Active \cup {"done"} /\ ~locked'[j]
    BY DEF Active
  <1> QED
    BY <1>1, <1>2, <1>3, <1>4, CommandObeys, StateNames

LEMMA AnewKept ==
    ASSUME TypeOK, TypeOK', PayInv, QueueInv, NEW j \in Jobs,
           \/ \E entry \in Entries : Create(j, entry)
           \/ \E site \in Sites : Choose(j, site)
           \/ Search(j)
    PROVE  Kept
  <1>1. row[j] \in Row /\ row[j].details \in Details
    BY DEF TypeOK, Row
  <1>2. /\ StartOver(j) /\ UNCHANGED <<proc, locked, workerVars, unlocked>>
        /\ proc = "up" /\ ~locked[j] /\ row[j].state \notin Active \cup Stopping
    BY DEF Create, Choose, Search, Offered, Terminal, Active, Stopping
  <1>3. CASE \E entry \in Entries : Create(j, entry)
    <2>1. PICK entry \in Entries : Write(j, NewRow(j, "queued", entry))
      BY <1>3 DEF Create
    <2> DEFINE r == NewRow(j, "queued", entry)
    <2>2. r \in Row
      BY NewRowType, StateNames
    <2>3. /\ r.details.phase = "inspect" /\ ~r.details.uncertain /\ ~r.book /\ r.state = "queued"
      BY DEF NewRow, NewDetails
    <2> HIDE DEF r
    <2>4. Becomes(j, "queued", r)
      BY <2>1, <2>2, <2>3, WriteEffect DEF Becomes, r
    <2> QED
      BY <1>2, <2>2, <2>3, <2>4, AnewObeys, ObeysKept
  <1>4. CASE Search(j) \/ \E site \in Sites : Choose(j, site)
    <2>1. PICK site \in Sites, d \in Details :
            d.phase = "inspect" /\ Act(j, "queued", Redirected(row[j], site, d))
      <3>1. CASE Search(j)
        <4> DEFINE d == [row[j].details EXCEPT !.entry = "find_eh", !.phase = "inspect"]
        <4>1. d \in Details /\ d.phase = "inspect" /\ SiteOf(j) \in Sites
          BY <1>1 DEF Details, Entries, Phases, SiteOf, Sites
        <4> QED
          BY <3>1, <4>1 DEF Search
      <3>2. CASE \E site \in Sites : Choose(j, site)
        <4>1. PICK site \in Sites : Choose(j, site)
          BY <3>2
        <4> DEFINE d == [row[j].details EXCEPT
                           !.entry = IF site = "nhentai" THEN "nh_direct" ELSE "find_eh",
                           !.phase = "inspect", !.selected = FALSE]
        <4>2. d \in Details /\ d.phase = "inspect"
          BY <1>1 DEF Details, Entries, Phases
        <4> QED
          BY <4>1, <4>2 DEF Choose
      <3> QED
        BY <1>4, <3>1, <3>2
    <2> DEFINE r == Redirected(row[j], site, d)
    <2>2. r \in Row
      BY <1>1, RedirectedType
    <2>3. r.details = Forget(d) /\ ~r.book
      BY <1>1 DEF Redirected, Row
    <2>4. Forget(d).phase = "inspect" /\ ~Forget(d).uncertain
      BY <2>1 DEF Forget, Details
    <2> HIDE DEF r
    <2>5. Act(j, "queued", r)
      BY <2>1 DEF r
    <2>6. Becomes(j, "queued", r)
      BY <2>2, <2>5, ActRow, StateNames DEF Becomes
    <2> QED
      BY <1>2, <2>2, <2>3, <2>4, <2>6, AnewObeys, ObeysKept
  <1> QED
    BY <1>3, <1>4

\* A step that leaves the rows as they are, but for the retry time.
LEMMA StillObeys ==
    ASSUME TypeOK, QueueInv, NEW j \in Jobs, Becomes(j, row[j].state, row[j]),
           UNCHANGED <<workerVars, proc, published, consent, sent>>,
           \A k \in Jobs : k # j => /\ file'[k] = file[k] /\ locked'[k] = locked[k]
                                    /\ unlocked'[k] = unlocked[k],
           \/ file'[j] = file[j] /\ locked'[j] = locked[j]
           \/ locked[j] /\ ~locked'[j] /\ file'[j] = "none",
           unlocked'[j] = unlocked[j] \/ unlocked'[j] = 0
    PROVE  Obeys(j)
  <1>1. /\ row'[j].details = row[j].details /\ row'[j].site = row[j].site
        /\ row'[j].secret = row[j].secret /\ row'[j].book = row[j].book
        /\ row'[j].state = row[j].state
        /\ \A k \in Jobs : k # j => row'[k] = row[k]
    BY DEF Becomes
  <1>2. QueueJobOK(j) /\ unlocked[j] \in Nat
    BY DEF QueueInv, TypeOK
  <1>3. RowOK(row'[j]) /\ (locked'[j] => row'[j].state \notin Live)
    BY <1>1, <1>2 DEF QueueJobOK, RowOK
  <1>4. \A k \in Jobs : k # j => Untouched(k)
    BY <1>1 DEF Untouched
  <1>5. Told(j)
    BY <1>1 DEF Told, DoneFinal, Honoured, Evident
  <1>6. Money(j)
    BY <1>1 DEF Money, Stays, SameDoubt, Lapses
  <1>7. row[j].state \in Active \cup Stopping => file'[j] = file[j]
    BY <1>2 DEF QueueJobOK, Live
  <1>8. Swept(j) => Swept(j)'
    BY <1>1 DEF Swept
  <1>9. unlocked'[j] <= unlocked[j] /\ unlocked'[j] \in Nat
    BY <1>2
  <1> QED
    BY <1>1, <1>3, <1>4, <1>5, <1>6, <1>7, <1>8, <1>9 DEF Obeys

LEMMA StillKept ==
    ASSUME TypeOK, TypeOK', PayInv, QueueInv, NEW j \in Jobs,
           Look(j) \/ CancelFiles(j) \/ Due(j) \/ Lapse(j)
    PROVE  Kept
  <1>1. row[j] \in Row
    BY DEF TypeOK
  <1>2. UNCHANGED <<workerVars, proc, published, consent, sent>>
    BY DEF Look, CancelFiles, Due, Lapse, siteVars
  <1>3. Becomes(j, row[j].state, row[j])
    <2>1. CASE Due(j)
      BY <1>1, <2>1 DEF Due, Becomes, TypeOK, Row
    <2>2. CASE UNCHANGED row
      BY <2>2 DEF Becomes
    <2> QED
      BY <2>1, <2>2 DEF Look, CancelFiles, Lapse
  <1>4. /\ \A k \in Jobs : k # j => /\ file'[k] = file[k] /\ locked'[k] = locked[k]
                                    /\ unlocked'[k] = unlocked[k]
        /\ \/ file'[j] = file[j] /\ locked'[j] = locked[j]
           \/ locked[j] /\ ~locked'[j] /\ file'[j] = "none"
        /\ unlocked'[j] = unlocked[j] \/ unlocked'[j] = 0
    BY DEF Look, CancelFiles, Due, Lapse, siteVars, TypeOK
  <1> QED
    BY <1>2, <1>3, <1>4, StillObeys, ObeysKept

LEMMA ApproveKept ==
    ASSUME TypeOK, TypeOK', PayInv, QueueInv, NEW j \in Jobs, Approve(j)
    PROVE  Kept
  <1> DEFINE r == [row[j] EXCEPT !.details.approved = row[j].details.quote,
                                 !.details.phase = "submit"]
  <1>1. /\ row[j] \in Row /\ row[j].details \in Details /\ Billed(j) /\ RowOK(row[j])
    BY DEF TypeOK, Row, PayInv, QueueInv, QueueJobOK
  <1>2. /\ proc = "up" /\ ~locked[j] /\ row[j].state = "needs_approval" /\ page[j].fresh
        /\ row[j].details.quote # NoPrice /\ Act(j, "queued", r)
        /\ consent' = [consent EXCEPT ![j] = page[j].price] /\ sent' = [sent EXCEPT ![j] = 0]
        /\ UNCHANGED <<file, proc, locked, workerVars, published, unlocked>>
    BY DEF Approve, Offered, SamePage
  <1>3. /\ r \in Row /\ r.details.approved = row[j].details.quote /\ r.details.phase = "submit"
        /\ r.details.uncertain = row[j].details.uncertain
    BY <1>1 DEF Row, Details, Phases
  <1> HIDE DEF r
  <1>4. Becomes(j, "queued", r)
    BY <1>2, <1>3, ActRow, StateNames DEF Becomes
  <1>5. ~row[j].details.uncertain /\ row[j].details.phase # "uncertain"
    BY <1>1, <1>2 DEF RowOK
  <1>6. ~Uncertain(r.details) /\ ~Doubt(j)
    BY <1>3, <1>5 DEF Uncertain, Doubt
  <1>7. RowOK([r EXCEPT !.state = "queued"])
    BY <1>2, <1>3, <1>5 DEF RowOK, Row
  <1>8. consent'[j] \in Prices /\ sent'[j] = 0
    <2>1. page[j].price = row[j].details.quote
      BY <1>1, <1>2 DEF Billed
    <2> QED
      BY <1>1, <1>2, <2>1 DEF TypeOK, AnyPrice, Details
  <1>9. \A k \in Jobs : k # j => consent'[k] = consent[k] /\ sent'[k] = sent[k]
    BY <1>2 DEF TypeOK
  <1>10. "queued" \notin Active \cup {"done"} /\ row[j].state \notin Active \cup Stopping
    BY <1>2 DEF Active, Stopping
  <1>11. Obeys(j)
    BY <1>2, <1>3, <1>4, <1>6, <1>7, <1>8, <1>9, <1>10, CommandObeys, StateNames
  <1> QED
    BY <1>11, ObeysKept

LEMMA StopKept ==
    ASSUME TypeOK, TypeOK', PayInv, QueueInv, NEW j \in Jobs,
           Pause(j) \/ Skip(j) \/ Resume(j) \/ Cancel(j)
    PROVE  Kept
  <1>1. /\ row[j] \in Row /\ row[j].details \in Details /\ RowOK(row[j])
        /\ UNCHANGED <<file, proc, workerVars, published, siteVars>> /\ proc = "up" /\ ~locked[j]
    BY DEF Pause, Skip, Resume, Cancel, Offered, TypeOK, Row, QueueInv, QueueJobOK
  <1>2. UNCHANGED <<consent, sent, unlocked>>
    BY <1>1 DEF siteVars
  <1>3. CASE Pause(j) \/ Skip(j)
    <2>1. PICK s \in {"paused", "pausing", "skipped"} :
            /\ Act(j, s, row[j])
            /\ row[j].state \in Active \cup {"queued", "pausing", "needs_choice"}
            /\ row[j].state \in Active \cup {"pausing"} <=> s = "pausing"
      BY <1>3 DEF Pause, Skip, Active
    <2>2. s \in States /\ s \notin Active \cup {"done"} /\ s # "cancelled" /\ row[j].state # "done"
      BY <2>1 DEF States, Waiting, Stopping, Terminal, Active
    <2>3. Becomes(j, s, row[j])
      BY <1>1, <2>1, <2>2, ActRow DEF Becomes
    <2>4. row[j].state \in Active \cup Stopping => s \in Stopping
      BY <2>1 DEF Active, Stopping
    <2>5. RowOK([row[j] EXCEPT !.state = s])
      BY <1>1, <2>1 DEF RowOK, Row, Live, Stopping, Active
    <2>6. ~locked'[j] /\ \A k \in Jobs : locked'[k] = locked[k]
      BY <1>1, <1>3 DEF Pause, Skip
    <2>7. Obeys(j)
      BY <1>1, <1>2, <2>1, <2>2, <2>3, <2>4, <2>5, <2>6, CommandObeys DEF Doubt
    <2> QED
      BY <2>7, ObeysKept
  <1>4. CASE Resume(j)
    <2> DEFINE r == [row[j] EXCEPT !.details.phase = ResumePhase(row[j])]
    <2>1. /\ Act(j, "queued", r) /\ UNCHANGED locked
          /\ row[j].state \notin Active \cup Stopping \cup {"queued", "done"}
      BY <1>4 DEF Resume, Active, Stopping
    <2>2. /\ ResumePhase(row[j]) \in {"inspect", "import", "transfer", "recover"}
          /\ ResumePhase(row[j]) \in {"import", "transfer"} => row[j].secret
          /\ ResumePhase(row[j]) = "import" => row[j].details.sha
          /\ Uncertain(row[j].details) => ResumePhase(row[j]) = "recover"
      BY DEF ResumePhase
    <2>3. /\ r \in Row /\ r.details = [row[j].details EXCEPT !.phase = ResumePhase(row[j])]
          /\ r.secret = row[j].secret /\ r.site = row[j].site
      BY <1>1, <2>2 DEF Row, Details, Phases
    <2>4. /\ r.details.phase = ResumePhase(row[j]) /\ r.details.sha = row[j].details.sha
          /\ r.details.uncertain = row[j].details.uncertain
      BY <1>1, <2>3 DEF Details
    <2> HIDE DEF r
    <2>5. Becomes(j, "queued", r)
      BY <2>1, <2>3, ActRow, StateNames DEF Becomes
    <2>6. Uncertain(r.details) <=> Doubt(j)
      BY <1>1, <2>2, <2>4 DEF Uncertain, Doubt, RowOK
    <2>7. RowOK([r EXCEPT !.state = "queued"])
      BY <1>1, <2>2, <2>3, <2>4 DEF RowOK, Row, Uncertain
    <2>8. Obeys(j)
      BY <1>1, <1>2, <2>1, <2>3, <2>5, <2>6, <2>7, CommandObeys, StateNames DEF Active
    <2> QED
      BY <2>8, ObeysKept
  <1>5. CASE Cancel(j)
    <2>1. /\ row[j].state \notin {"absent", "done"}
          /\ locked' = [locked EXCEPT ![j] = ~Running(row[j].state)]
      BY <1>5 DEF Cancel
    <2>2. /\ locked'[j] = ~Running(row[j].state)
          /\ \A k \in Jobs : k # j => locked'[k] = locked[k]
      BY <2>1 DEF TypeOK
    <2>3. CASE Running(row[j].state)
      <3>1. Act(j, "cancelling", row[j]) /\ row[j].state \in Active \cup Stopping
        BY <1>5, <2>3 DEF Cancel, Running
      <3>2. Becomes(j, "cancelling", row[j])
        BY <1>1, <3>1, ActRow, StateNames DEF Becomes
      <3>3. /\ "cancelling" \in Stopping /\ "cancelling" \notin Active \cup {"done"}
            /\ "cancelling" \in States
        BY StateNames DEF Stopping, Active
      <3>4. RowOK([row[j] EXCEPT !.state = "cancelling"])
        BY <1>1, <3>1 DEF RowOK, Row, Live, Stopping, Active
      <3>5. Obeys(j)
        BY <1>1, <1>2, <2>1, <2>2, <2>3, <3>2, <3>3, <3>4, CommandObeys DEF Doubt
      <3> QED
        BY <3>5, ObeysKept
    <2>4. CASE ~Running(row[j].state)
      <3> DEFINE r == [row[j] EXCEPT !.details.sha = FALSE]
      <3>1. Act(j, "cancelled", r) /\ row[j].state \notin Active \cup Stopping
        BY <1>5, <2>4 DEF Cancel, Running
      <3>2. /\ r \in Row /\ r.site = row[j].site /\ r.secret = row[j].secret
            /\ r.details.phase = row[j].details.phase
            /\ r.details.uncertain = row[j].details.uncertain
            /\ r.details.approved = row[j].details.approved
        BY <1>1 DEF Row, Details
      <3> HIDE DEF r
      <3>3. Becomes(j, "cancelled", r)
        BY <3>1, <3>2, ActRow, StateNames DEF Becomes
      <3>4. "cancelled" \notin Active \cup Stopping \cup {"done", "queued", "needs_approval"}
        BY DEF Stopping, Active
      <3>5. RowOK([r EXCEPT !.state = "cancelled"])
        BY <1>1, <2>1, <3>2, <3>4 DEF RowOK, Row, Live
      <3>6. Uncertain(r.details) <=> Doubt(j)
        BY <3>2 DEF Uncertain, Doubt
      <3>7. Obeys(j)
        BY <1>1, <1>2, <2>1, <2>2, <2>4, <3>1, <3>2, <3>3, <3>4, <3>5, <3>6, CommandObeys, StateNames
      <3> QED
        BY <3>7, ObeysKept
    <2> QED
      BY <2>3, <2>4
  <1> QED
    BY <1>3, <1>4, <1>5

-----------------------------------------------------------------------------
(* The process.                                                            *)

\* No worker has a job after the step: only the rows and the files matter.
LEMMA IdleKept ==
    ASSUME TypeOK, TypeOK', QueueInv, Idle', UNCHANGED <<published, siteVars>>,
           \A j \in Jobs : /\ row'[j].details = row[j].details /\ row'[j].site = row[j].site
                           /\ row'[j].secret = row[j].secret /\ row'[j].book = row[j].book
                           /\ \/ row'[j].state = row[j].state
                              \/ row'[j].state \in Final \ {"done"} /\ row[j].state \in Live
                           /\ locked'[j] => row'[j].state \notin Live
                           /\ proc' # "down" => row'[j].state \notin Active \cup Stopping
                           /\ proc' \in {"up", "stopping"} => Swept(j)'
    PROVE  Kept
  <1>1. ASSUME NEW j \in Jobs
        PROVE  QueueJobOK(j)' /\ Told(j) /\ Stays(j)
    <2>1. /\ row'[j].details = row[j].details /\ row'[j].site = row[j].site
          /\ row'[j].secret = row[j].secret /\ row'[j].book = row[j].book
          /\ \/ row'[j].state = row[j].state
             \/ row'[j].state \in Final \ {"done"} /\ row[j].state \in Live
          /\ locked'[j] => row'[j].state \notin Live
          /\ proc' # "down" => row'[j].state \notin Active \cup Stopping
          /\ proc' \in {"up", "stopping"} => Swept(j)'
      OBVIOUS
    <2>2. QueueJobOK(j) /\ RowOK(row[j])
      BY DEF QueueInv, QueueJobOK
    <2>3. /\ row'[j].state \in Live => row'[j].state = row[j].state
          /\ row'[j].state = "done" => row[j].state = "done"
          /\ row[j].state = "done" => row'[j].state = "done"
          /\ row'[j].state \in {"queued", "needs_approval"} => row[j].state = row'[j].state
      BY <2>1 DEF Final, Live, Active, Stopping
    <2>4. RowOK(row'[j])
      BY <2>1, <2>2, <2>3 DEF RowOK
    <2>5. "pausing" \in Stopping /\ unlocked' = unlocked /\ published' = published
      BY DEF Stopping, siteVars
    <2>6. QueueJobOK(j)'
      BY <2>1, <2>2, <2>3, <2>4, <2>5 DEF QueueJobOK
    <2>7. Told(j)
      BY <2>1, <2>3 DEF Told, DoneFinal, Honoured, Evident
    <2>8. Stays(j)
      BY <2>1 DEF Stays, SameDoubt, siteVars
    <2> QED
      BY <2>6, <2>7, <2>8
  <1>2. QueueInv'
    BY <1>1 DEF QueueInv, Idle
  <1> QED
    BY <1>1, <1>2, MoneyStill DEF Kept

LEMMA ProcessKept ==
    ASSUME TypeOK, TypeOK', PayInv, QueueInv, Process
    PROVE  Kept
  <1>1. CASE Crash \/ Closed
    <2>1. Vanish
      BY <1>1 DEF Crash, Closed
    <2>2. /\ UNCHANGED <<row, published, siteVars>> /\ Idle' /\ proc' = "down"
          /\ \A j \in Jobs : ~locked'[j]
      BY <2>1 DEF Vanish, Idle
    <2> QED
      BY <2>2, IdleKept
  <1>2. CASE Start
    <2>1. /\ proc = "down" /\ proc' = "starting" /\ UNCHANGED <<pc, published, siteVars>>
          /\ \A j \in Jobs : row'[j] = Restarted(row[j])
      BY <1>2 DEF Start, workerVars
    <2>2. Idle'
      BY <2>1 DEF PayInv, Idle
    <2>3. ASSUME NEW j \in Jobs
          PROVE  /\ row'[j].details = row[j].details /\ row'[j].site = row[j].site
                 /\ row'[j].secret = row[j].secret /\ row'[j].book = row[j].book
                 /\ \/ row'[j].state = row[j].state
                    \/ row'[j].state \in Final \ {"done"} /\ row[j].state \in Live
                 /\ row'[j].state \notin Live
      <3>1. row[j] \in Row /\ row'[j] = Restarted(row[j])
        BY <2>1 DEF TypeOK
      <3>2. CASE row[j].state \notin Live
        BY <3>1, <3>2 DEF Restarted, Live
      <3>3. CASE row[j].state \in Live
        <4>1. PICK s \in {"needs_attention", "cancelled", "paused"} :
                row'[j] = [row[j] EXCEPT !.state = s]
          BY <3>1, <3>3 DEF Restarted, Live
        <4>2. s \in Final \ {"done"} /\ s \notin Live
          BY DEF Final, Live, Active, Stopping
        <4> QED
          BY <3>1, <3>3, <4>1, <4>2 DEF Row
      <3> QED
        BY <3>2, <3>3
    <2>4. \A j \in Jobs : row'[j].state \notin Active \cup Stopping
      BY <2>3 DEF Live
    <2> QED
      BY <2>1, <2>2, <2>3, <2>4, IdleKept
  <1>3. CASE Started
    <2>1. /\ proc = "starting" /\ UNCHANGED <<row, locked, pc, published, siteVars>>
          /\ \A j \in Jobs : file'[j] = IF row[j].state = "cancelled" THEN "none" ELSE file[j]
      BY <1>3 DEF Started, workerVars
    <2>2. Idle'
      BY <2>1 DEF PayInv, Idle
    <2>3. \A j \in Jobs : /\ row[j].state \notin Active \cup Stopping
                          /\ locked[j] => row[j].state \notin Live
      BY <2>1 DEF QueueInv, QueueJobOK
    <2>4. \A j \in Jobs : Swept(j)'
      BY <2>1 DEF Swept
    <2> QED
      BY <2>1, <2>2, <2>3, <2>4, IdleKept
  <1>4. CASE Stop
    <2>1. /\ proc = "up" /\ proc' = "stopping"
          /\ UNCHANGED <<row, file, locked, published, siteVars>>
          /\ UNCHANGED <<pc, job, snap, heard, err, verdict>>
      BY <1>4 DEF Stop, workerVars
    <2>2. \A j \in Jobs : Untouched(j)
      BY <2>1 DEF Untouched, siteVars
    <2>3. ASSUME NEW j \in Jobs
          PROVE  QueueJobOK(j)'
      <3>1. QueueJobOK(j)
        BY DEF QueueInv
      <3>2. Owned(j)' <=> Owned(j)
        BY <2>1 DEF Owned
      <3> QED
        BY <2>1, <3>1, <3>2 DEF QueueJobOK, Swept, siteVars
    <2>4. ASSUME NEW w \in Workers, pc'[w] # "idle"
          PROVE  QueueWorkerOK(w)'
      <3>1. QueueWorkerOK(w) /\ Untouched(job[w])
        BY <2>1, <2>2, <2>4 DEF QueueInv, TypeOK
      <3> QED
        BY <2>1, <3>1, WorkerOKUntouched
    <2>5. QueueInv'
      BY <2>3, <2>4 DEF QueueInv
    <2>6. \A j \in Jobs : Told(j) /\ Stays(j)
      BY <2>2, UntouchedKept
    <2> QED
      BY <2>5, <2>6, MoneyStill DEF Kept
  <1> QED
    BY <1>1, <1>2, <1>3, <1>4 DEF Process

-----------------------------------------------------------------------------
(* The queue.                                                              *)

LEMMA QueueInvInit == Init => QueueInv
  <1> SUFFICES ASSUME Init PROVE QueueInv
    OBVIOUS
  <1>1. \A w \in Workers : pc[w] = "idle"
    BY DEF Init
  <1>2. ASSUME NEW j \in Jobs
        PROVE  QueueJobOK(j)
    <2>1. /\ row[j] = NewRow(j, "absent", "find_eh") /\ file[j] = "none" /\ ~locked[j]
          /\ unlocked[j] = 0 /\ proc = "up"
      BY DEF Init
    <2>2. /\ row[j].state = "absent" /\ row[j].details.phase = "inspect"
          /\ ~row[j].details.uncertain
      BY <2>1 DEF NewRow, NewDetails
    <2> QED
      BY <2>1, <2>2 DEF QueueJobOK, RowOK, Swept, Active, Stopping
  <1> QED
    BY <1>1, <1>2 DEF QueueInv

LEMMA StepKept ==
    ASSUME TypeOK, TypeOK', SingleOwner, PayInv, QueueInv, [Next]_vars
    PROVE  Kept
  <1>1. ASSUME NEW w \in Workers, Work(w)
        PROVE  Kept
    BY <1>1, WorkKept
  <1>2. ASSUME NEW w \in Workers, NEW j \in Jobs, Claim(w, j)
        PROVE  Kept
    BY <1>2, ClaimKept
  <1>3. ASSUME NEW j \in Jobs, Command(j)
        PROVE  Kept
    BY <1>3, AnewKept, StillKept, ApproveKept, StopKept DEF Command
  <1>4. ASSUME NEW j \in Jobs, CancelFiles(j) \/ Due(j) \/ Lapse(j)
        PROVE  Kept
    BY <1>4, StillKept
  <1>5. CASE UNCHANGED vars
    <2>1. /\ UNCHANGED <<row, file, proc, locked, published, siteVars>>
          /\ UNCHANGED <<pc, job, snap, heard, err, verdict>>
      BY <1>5 DEF vars, workerVars
    <2>2. \A j \in Jobs : Untouched(j)
      BY <2>1 DEF Untouched, siteVars
    <2>3. \A j \in Jobs : QueueJobOK(j)'
      BY <2>1, <2>2, JobOKUntouched DEF Owned
    <2>4. ASSUME NEW w \in Workers, pc'[w] # "idle"
          PROVE  QueueWorkerOK(w)'
      <3>1. QueueWorkerOK(w) /\ Untouched(job[w])
        BY <2>1, <2>2, <2>4 DEF QueueInv, TypeOK
      <3> QED
        BY <2>1, <3>1, WorkerOKUntouched
    <2>5. QueueInv'
      BY <2>3, <2>4 DEF QueueInv
    <2>6. \A j \in Jobs : Told(j) /\ Stays(j)
      BY <2>2, UntouchedKept
    <2> QED
      BY <2>5, <2>6, MoneyStill DEF Kept
  <1> QED
    BY <1>1, <1>2, <1>3, <1>4, <1>5, ProcessKept DEF Next

\* The two invariants every promise below follows from.  Each needs the other:
\* the agreement stands because the row is where its worker left it, and a worker
\* may write because the row is still the one it read.
LEMMA QueueInvHolds == Spec => [](PayInv /\ QueueInv)
  <1>1. Init => PayInv /\ QueueInv
    BY PayInvInit, QueueInvInit
  <1>2. TypeOK /\ TypeOK' /\ SingleOwner /\ (PayInv /\ QueueInv) /\ [Next]_vars =>
          (PayInv /\ QueueInv)'
    BY PayInvStep, StepKept DEF Kept
  <1> QED
    BY <1>1, <1>2, TypeCorrect, OwnershipCorrect, PTL DEF Spec

LEMMA BilledOnce == PayInv => OneRequestPerConsent
  BY DEF PayInv, Billed, OneRequestPerConsent

\* One agreement pays at most once: however answers are lost, phases retried, the
\* process killed and restarted, and jobs resumed and recovered, no job sends more
\* than one charging request after the user's last agreement, and none without one.
THEOREM PaysOncePerConsent == Spec => []OneRequestPerConsent
  BY BilledOnce, QueueInvHolds, PTL

\* A paid archive is asked for only at the price on the page the user approved, or
\* at price 0 under the auto_free setting.
THEOREM PaysAgreedPrice == Spec => []RequestAtAgreedPrice
  <1>1. PayInv => RequestAtAgreedPrice
    BY DEF PayInv, WorkerOK, RequestAtAgreedPrice
  <1> QED
    BY <1>1, QueueInvHolds, PTL

\* No handler overwrites a decision made since it read the job: from the read to
\* its last write, the row's details are the ones it read or wrote itself.
THEOREM NothingLost == Spec => []NoLostUpdate
  <1>1. PayInv => NoLostUpdate
    BY DEF PayInv, WorkerOK, NoLostUpdate
  <1> QED
    BY <1>1, QueueInvHolds, PTL

\* Ownership of the jobs: one worker at a time, whose writes are never stale.
THEOREM OwnedByOne == Spec => []Ownership
  <1>1. SingleOwner /\ NoLostUpdate => Ownership
    BY DEF Ownership
  <1> QED
    BY <1>1, OwnershipCorrect, NothingLost, PTL

\* Payment as agreed: once per agreement, at the agreed price.
THEOREM PaysAsAgreed == Spec => []PaidAsAgreed
  <1>1. OneRequestPerConsent /\ RequestAtAgreedPrice => PaidAsAgreed
    BY DEF PaidAsAgreed
  <1> QED
    BY <1>1, PaysOncePerConsent, PaysAgreedPrice, PTL

\* A row that can be claimed can be run: RowOK is what its handler reads.
LEMMA RowsCanRun == TypeOK /\ QueueInv => Runnability
  <1> SUFFICES ASSUME TypeOK, QueueInv, NEW j \in Jobs, row[j].state = "queued"
               PROVE  LET r == row[j] d == row[j].details IN
                      /\ d.phase \in Runnable
                      /\ d.phase = "submit" => d.approved # NoPrice
                      /\ d.phase = "transfer" => r.secret
                      /\ d.phase = "import" => r.secret /\ d.sha
                      /\ d.uncertain => d.phase = "recover"
    BY DEF Runnability
  <1>1. RowOK(row[j]) /\ row[j].state \in Live /\ row[j].details.phase \in Phases
    BY DEF QueueInv, QueueJobOK, Live, TypeOK, Row, Details
  <1> QED
    BY <1>1 DEF RowOK, Runnable, Phases

LEMMA ArchivesFollow ==
    QueueInv => NeverPaidTwice /\ ImportsOwnArchive /\ CancelledLeavesNothing /\ DoneIsImported
  <1>1. QueueInv => NeverPaidTwice
    BY DEF QueueInv, QueueJobOK, NeverPaidTwice
  <1>2. QueueInv => ImportsOwnArchive
    BY DEF QueueInv, QueueWorkerOK, HandlerOK, ImportsOwnArchive
  <1>3. QueueInv => CancelledLeavesNothing
    BY DEF QueueInv, QueueJobOK, Swept, CancelledLeavesNothing
  <1>4. QueueInv => DoneIsImported
    BY DEF QueueInv, QueueJobOK, DoneIsImported
  <1> QED
    BY <1>1, <1>2, <1>3, <1>4

\* While the server runs, a working or pausing row has a worker: no interleaving
\* of commands, claims, failures, crashes and restarts leaves one behind.
THEOREM ActiveHasWorker == Spec => []ActiveIsOwned
  <1>1. QueueInv => ActiveIsOwned
    BY DEF QueueInv, QueueJobOK, ActiveIsOwned
  <1> QED
    BY <1>1, QueueInvHolds, PTL

\* A queued job is in a phase with a handler and has what that handler reads; a job
\* in doubt about its payment is queued for recovery only.
THEOREM QueuedCanRun == Spec => []Runnability
  BY RowsCanRun, QueueInvHolds, TypeCorrect, PTL

\* Every row a worker may meet can be served.
THEOREM AlwaysServiceable == Spec => []Serviceable
  <1>1. ActiveIsOwned /\ Runnability => Serviceable
    BY DEF Serviceable
  <1> QED
    BY <1>1, ActiveHasWorker, QueuedCanRun, PTL

\* The site never holds two charged archives of one gallery, whatever was cancelled,
\* added again, retried or recovered; the archive imported is the whole one that was
\* hashed; a cancelled job that is let go of has none; a finished one is in the library.
THEOREM ArchivesRight == Spec => []Archives
  <1>1. QueueInv => Archives
    BY ArchivesFollow DEF Archives
  <1> QED
    BY <1>1, QueueInvHolds, PTL

\* A worker's last writes respect what happened meanwhile: done is left only by the
\* user, a job told to stop never goes back to work, and the doubt about a paid
\* request ends by the site's answer, by recovery or by the user starting over.
THEOREM EndsRight == Spec => EndsAsTold
  <1>1. TypeOK /\ TypeOK' /\ SingleOwner /\ PayInv /\ QueueInv /\ [Next]_vars =>
          [\A j \in Jobs : row[j].state = "done" /\ row'[j].state # "done" =>
             row'[j].state = "queued" /\ row'[j].details.phase = "inspect" /\ ~row'[j].book]_vars
    BY StepKept DEF Kept, Told, DoneFinal
  <1>2. TypeOK /\ TypeOK' /\ SingleOwner /\ PayInv /\ QueueInv /\ [Next]_vars =>
          [\A j \in Jobs : row[j].state \in Stopping =>
             row'[j].state \in Stopping \cup Final]_vars
    BY StepKept DEF Kept, Told, Honoured
  <1>3. TypeOK /\ TypeOK' /\ SingleOwner /\ PayInv /\ QueueInv /\ [Next]_vars =>
          [\A j \in Jobs : Uncertain(row[j].details) /\ ~Uncertain(row'[j].details) =>
             \/ consent'[j] = NoPrice
             \/ \E w \in Workers : /\ job[w] = j
                                   /\ \/ pc[w] = "link"
                                      \/ pc[w] = "clear" /\ snap[w].details.phase = "uncertain"
                                      \/ pc[w] = "recover" /\ row'[j].secret]_vars
    BY StepKept DEF Kept, Told, Evident
  <1>4. Spec => DoneIsFinal
    BY <1>1, QueueInvHolds, TypeCorrect, OwnershipCorrect, PTL DEF Spec, DoneIsFinal
  <1>5. Spec => StopIsHonoured
    BY <1>2, QueueInvHolds, TypeCorrect, OwnershipCorrect, PTL DEF Spec, StopIsHonoured
  <1>6. Spec => DoubtEndsByEvidence
    BY <1>3, QueueInvHolds, TypeCorrect, OwnershipCorrect, PTL
       DEF Spec, DoubtEndsByEvidence
  <1> QED
    BY <1>4, <1>5, <1>6, PTL DEF EndsAsTold

\* The queue implements Purchase: every step of the queue, the site and the process
\* is a step of the purchase of at most one gallery.
THEOREM RefinesPurchase == Spec => KeepsPurchase
  <1>1. Init => P!Init
    <2> SUFFICES ASSUME Init PROVE P!Init
      OBVIOUS
    <2>1. \A j \in Jobs : Uncertain(row[j].details) = FALSE
      BY DEF Init, NewRow, NewDetails, Uncertain
    <2>2. [j \in Jobs |-> Uncertain(row[j].details)] = [j \in Jobs |-> FALSE]
      BY <2>1
    <2> QED
      BY <2>2 DEF Init, P!Init
  <1>2. TypeOK /\ TypeOK' /\ SingleOwner /\ PayInv /\ QueueInv /\ [Next]_vars =>
          [P!Next]_(P!money)
    BY StepKept DEF Kept
  <1> QED
    BY <1>1, <1>2, QueueInvHolds, TypeCorrect, OwnershipCorrect, PTL
       DEF Spec, KeepsPurchase, P!Spec

-----------------------------------------------------------------------------
(* The loss of power.  DurableOK says of the rows an outage brings back    *)
(* what the queue relies on; the site and the files are not taken back, so *)
(* of PayInv only what a dead process keeps has to hold of them.           *)

\* The rows and books the disk holds.
DurableOK ==
    /\ durable.rows \in [Jobs -> Row] /\ durable.books \in [Jobs -> BOOLEAN]
    /\ \A j \in Jobs : /\ RowOK(durable.rows[j])
                       /\ durable.rows[j].state = "done" =>
                            durable.rows[j].book /\ durable.books[j]
\* The locks are the process's.
LocksGone == proc = "down" => \A j \in Jobs : ~locked[j]

PowerInv == TypeOK /\ SingleOwner /\ PayInv /\ QueueInv /\ DurableOK /\ LocksGone

LEMMA LocksStep ==
    ASSUME PayInv, LocksGone, [Next]_vars
    PROVE  LocksGone'
  <1>1. ASSUME NEW w \in Workers, Work(w)
        PROVE  LocksGone'
    <2>1. proc # "down" /\ proc' = proc
      BY <1>1, WorkBusy, WorkKeepsProc, JobsInOrder
    <2> QED
      BY <2>1 DEF LocksGone
  <1>2. ASSUME NEW w \in Workers, NEW j \in Jobs, Claim(w, j)
        PROVE  LocksGone'
    <2>1. proc # "down" /\ proc' = proc
      BY <1>2 DEF Claim, Rest
    <2> QED
      BY <2>1 DEF LocksGone
  <1>3. ASSUME NEW j \in Jobs, Command(j)
        PROVE  LocksGone'
    <2>1. proc = "up" /\ proc' = proc
      BY <1>3 DEF Command, Create, Search, Choose, Pause, Skip, Look, Approve, Resume, Cancel,
                  Offered
    <2> QED
      BY <2>1 DEF LocksGone
  <1>4. ASSUME NEW j \in Jobs, CancelFiles(j) \/ Due(j) \/ Lapse(j)
        PROVE  LocksGone'
    <2>1. CASE CancelFiles(j)
      BY <2>1 DEF CancelFiles, LocksGone
    <2>2. CASE Due(j) \/ Lapse(j)
      BY <2>2 DEF Due, Lapse, LocksGone
    <2> QED
      BY <1>4, <2>1, <2>2
  <1>5. CASE Process
    BY <1>5 DEF Process, Crash, Closed, Vanish, Stop, Start, Started, LocksGone
  <1>6. CASE UNCHANGED vars
    BY <1>6 DEF vars, LocksGone
  <1> QED
    BY <1>1, <1>2, <1>3, <1>4, <1>5, <1>6 DEF Next

\* A step of the queue, written back now or later.
LEMMA QueueKeepsPower ==
    ASSUME PowerInv, Queue
    PROVE  PowerInv'
  <1>1. TypeOK' /\ SingleOwner' /\ PayInv' /\ QueueInv' /\ LocksGone'
    <2>1. Next /\ TypeOK /\ SingleOwner /\ PayInv /\ QueueInv /\ LocksGone
      BY DEF PowerInv, Queue
    <2>2. TypeOK'
      BY <2>1, TypeStep
    <2> QED
      BY <2>1, <2>2, OwnerStep, PayInvStep, StepKept, LocksStep DEF Kept
  <1>2. DurableOK'
    <2>1. CASE durable' = durable
      BY <2>1 DEF PowerInv, DurableOK
    <2>2. CASE durable' = OnDisk'
      <3>1. durable'.rows = row' /\ durable'.books = published'
        BY <2>2 DEF OnDisk
      <3>2. row' \in [Jobs -> Row] /\ published' \in [Jobs -> BOOLEAN]
        BY <1>1 DEF TypeOK
      <3>3. \A j \in Jobs : RowOK(row'[j]) /\ (row'[j].state = "done" => row'[j].book /\ published'[j])
        BY <1>1 DEF QueueInv, QueueJobOK
      <3> QED
        BY <3>1, <3>2, <3>3 DEF DurableOK
    <2> QED
      BY <2>1, <2>2 DEF Queue, Synced, Unsynced
  <1> QED
    BY <1>1, <1>2 DEF PowerInv

LEMMA OutageKeepsPower ==
    ASSUME PowerInv, Outage
    PROVE  PowerInv'
  <1>1. /\ TypeOK /\ SingleOwner /\ PayInv /\ QueueInv /\ DurableOK
        /\ proc = "down" /\ \A j \in Jobs : ~locked[j]
    BY DEF PowerInv, Outage, LocksGone
  <1>2. /\ row' = durable.rows /\ published' = durable.books
        /\ \A j \in Jobs : ~page'[j].fresh
        /\ UNCHANGED <<proc, locked, durable, consent, sent, unlocked>>
        /\ UNCHANGED <<pc, job, snap, heard, err, verdict, working>>
    BY <1>1 DEF Outage, workerVars, siteVars, TypeOK
  <1>3. TypeOK'
    <2>1. page' \in [Jobs -> [price: AnyPrice, fresh: BOOLEAN]]
      <3>1. ASSUME NEW j \in Jobs
            PROVE  [page[j] EXCEPT !.fresh = FALSE] \in [price: AnyPrice, fresh: BOOLEAN]
        BY <1>1 DEF TypeOK
      <3> QED
        BY <3>1 DEF Outage
    <2>2. file' \in [Jobs -> Files]
      BY <1>1 DEF Outage, TypeOK, Files, InLibrary
    <2> QED
      BY <1>1, <1>2, <2>1, <2>2 DEF TypeOK, DurableOK
  <1>4. SingleOwner'
    BY <1>1, <1>2 DEF SingleOwner, Owned
  <1>5. Idle /\ Idle'
    BY <1>1, <1>2 DEF PayInv, Idle
  <1>6. PayInv'
    <2>1. \A j \in Jobs : Billed(j)'
      BY <1>1, <1>2 DEF PayInv, Billed
    <2>2. \A w \in Workers : WorkerOK(w)'
      BY <1>5, WorkerFree DEF Idle, Busy, Handling
    <2> QED
      BY <1>1, <1>2, <1>5, <2>1, <2>2 DEF PayInv
  <1>7. QueueInv'
    <2>1. ASSUME NEW j \in Jobs
          PROVE  QueueJobOK(j)'
      <3>1. /\ RowOK(row'[j]) /\ ~locked'[j]
            /\ row'[j].state = "done" => row'[j].book /\ published'[j]
        BY <1>1, <1>2 DEF DurableOK
      <3>2. unlocked'[j] <= 1 /\ proc' = "down"
        BY <1>1, <1>2 DEF QueueInv, QueueJobOK
      <3> QED
        BY <3>1, <3>2 DEF QueueJobOK
    <2> QED
      BY <1>5, <2>1 DEF QueueInv, Idle
  <1>8. DurableOK' /\ LocksGone'
    BY <1>1, <1>2 DEF DurableOK, LocksGone
  <1> QED
    BY <1>3, <1>4, <1>6, <1>7, <1>8 DEF PowerInv

LEMMA PowerInvHolds == PowerSpec => []PowerInv
  <1>1. PowerInit => PowerInv
    <2> SUFFICES ASSUME PowerInit PROVE PowerInv
      OBVIOUS
    <2>1. Init /\ durable = OnDisk
      BY DEF PowerInit
    <2>2. TypeOK /\ PayInv /\ QueueInv
      BY <2>1, InitType, PayInvInit, QueueInvInit
    <2>3. SingleOwner /\ LocksGone
      BY <2>1 DEF Init, SingleOwner, Owned, LocksGone
    <2>4. DurableOK
      <3>1. durable.rows = row /\ durable.books = published
        BY <2>1 DEF OnDisk
      <3> QED
        BY <2>2, <3>1 DEF DurableOK, TypeOK, QueueInv, QueueJobOK
    <2> QED
      BY <2>2, <2>3, <2>4 DEF PowerInv
  <1>2. PowerInv /\ [Queue \/ Outage]_powerVars => PowerInv'
    <2> SUFFICES ASSUME PowerInv, [Queue \/ Outage]_powerVars PROVE PowerInv'
      OBVIOUS
    <2>1. CASE UNCHANGED powerVars
      <3>1. UNCHANGED vars /\ durable' = durable
        BY <2>1 DEF powerVars
      <3>2. TypeOK' /\ SingleOwner' /\ PayInv' /\ QueueInv' /\ LocksGone'
        BY <3>1, TypeStep, OwnerStep, PayInvStep, StepKept, LocksStep DEF PowerInv, Kept
      <3>3. DurableOK'
        BY <3>1 DEF PowerInv, DurableOK
      <3> QED
        BY <3>2, <3>3 DEF PowerInv
    <2> QED
      BY <2>1, QueueKeepsPower, OutageKeepsPower
  <1> QED
    BY <1>1, <1>2, PTL DEF PowerSpec

\* Whatever an outage takes back of the last transactions, the queue resumes from
\* rows it can run, the site never holds two charged archives of one gallery, no
\* second charging request goes out for one agreement, an import reads the archive
\* that was hashed, and a done job is in the library.
THEOREM SurvivesOutage == PowerSpec => []KeptThroughOutage
  <1>1. PowerInv => KeptThroughOutage
    BY RowsCanRun, ArchivesFollow, BilledOnce DEF PowerInv, KeptThroughOutage
  <1> QED
    BY <1>1, PowerInvHolds, PTL
=============================================================================
