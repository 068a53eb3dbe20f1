------------------------------ MODULE PowerLoss ------------------------------
(***************************************************************************)
(* The download queue on a machine that may lose power.  A connection that *)
(* is not opened as durable commits with synchronous=NORMAL: its           *)
(* transactions survive the end of the process, in order, but the last     *)
(* ones are lost with the machine unless they have reached the disk        *)
(* meanwhile.  Every transaction of the queue and of an import is such a   *)
(* one; archives are synced when they are written.                         *)
(***************************************************************************)
EXTENDS Downloads

CONSTANT MaxLag  \* bound: transactions an outage can take back

VARIABLES
    durable,  \* the queue's rows and the imported books as the disk has them
    moved,    \* jobs that were started over since that state
    lag       \* transactions since that state

powerVars == <<vars, durable, moved, lag>>

OnDisk == [rows |-> row, books |-> published]

PowerInit == Init /\ durable = OnDisk /\ moved = {} /\ lag = 0

StartedOver(j) ==
    \/ \E entry \in Entries : Create(j, entry)
    \/ \E site \in Sites : Choose(j, site)
    \/ Search(j)

\* The log reaches the disk up to this step.
Synced ==
    /\ durable' = OnDisk'
    /\ moved' = {}
    /\ lag' = 0
\* A transaction is committed and has not reached the disk.
Unsynced ==
    /\ lag < MaxLag /\ OnDisk' # OnDisk
    /\ lag' = lag + 1
    /\ moved' = moved \cup {j \in Jobs : StartedOver(j)}
    /\ UNCHANGED durable
Queue ==
    /\ Next
    /\ Synced \/ Unsynced \/ (OnDisk' = OnDisk /\ UNCHANGED <<durable, moved, lag>>)

\* The machine stopped: the transactions that had not reached the disk are gone.
\* An archive fetched since a job was started over is not the old row's.
Outage ==
    /\ proc = "down" /\ lag > 0
    /\ row' = durable.rows
    /\ published' = durable.books
    /\ page' = [j \in Jobs |-> [page[j] EXCEPT !.fresh = FALSE]]
    /\ file' = [j \in Jobs |-> IF j \notin moved \/ file[j] = "none" THEN file[j]
                               ELSE IF file[j] \in InLibrary THEN "aliased" ELSE "foreign"]
    /\ moved' = {} /\ lag' = 0
    /\ UNCHANGED <<proc, locked, workerVars, siteVars, durable>>

PowerSpec == PowerInit /\ [][Queue \/ Outage]_powerVars

-----------------------------------------------------------------------------
(* What an outage must not break is stated in Downloads: a payment is not  *)
(* repeated while the site holds the archive (NeverPaidTwice), the queue   *)
(* resumes from the old rows with the files and the site as they are now   *)
(* (Runnability, ImportsOwnArchive), and the books are as old as the rows  *)
(* (DoneIsImported).                                                       *)

\* What holds although rows, files and the site are of different times.
KeptThroughOutage ==
    Runnability /\ NeverPaidTwice /\ OneRequestPerConsent /\ ImportsOwnArchive /\ DoneIsImported

\* downloads.py:574 "Durable boundary before the only potentially charging remote
\* request": when the request is sent, the disk already has its mark.
DurableBoundary ==
    \A w \in Workers : pc[w] = "post" /\ row[job[w]].site = "eh" =>
        Uncertain(durable.rows[job[w]].details)
=============================================================================
