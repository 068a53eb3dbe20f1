------------------------------- MODULE Purchase -------------------------------
(***************************************************************************)
(* What the download queue promises about money: a paid archive request is *)
(* sent only under an agreement, at most once per agreement, only after it *)
(* was recorded as doubtful, and never for an archive the site still holds *)
(* for the user.                                                           *)
(***************************************************************************)
EXTENDS Naturals

CONSTANTS Jobs, Prices, NoPrice

VARIABLES
    consent,   \* the price agreed to, or NoPrice
    doubt,     \* it is recorded that a request may be under way
    sent,      \* requests sent under the present agreement
    unlocked   \* archives charged for that the site still holds

money == <<consent, doubt, sent, unlocked>>

Init ==
    /\ consent = [j \in Jobs |-> NoPrice]
    /\ doubt = [j \in Jobs |-> FALSE]
    /\ sent = [j \in Jobs |-> 0]
    /\ unlocked = [j \in Jobs |-> 0]

\* The user (or the setting for free archives) agrees to a price.
Agree(j, p) ==
    /\ ~doubt[j]
    /\ consent' = [consent EXCEPT ![j] = p]
    /\ sent' = [sent EXCEPT ![j] = 0]
    /\ UNCHANGED <<doubt, unlocked>>

\* Before anything is sent the doubt is made durable.
Arm(j) ==
    /\ consent[j] # NoPrice /\ sent[j] = 0 /\ ~doubt[j]
    /\ doubt' = [doubt EXCEPT ![j] = TRUE]
    /\ UNCHANGED <<consent, sent, unlocked>>

\* The request: the site charges for it or not.
Send(j) ==
    /\ doubt[j] /\ sent[j] = 0 /\ unlocked[j] = 0
    /\ sent' = [sent EXCEPT ![j] = 1]
    /\ \E c \in 0 .. 1 : unlocked' = [unlocked EXCEPT ![j] = c]
    /\ UNCHANGED <<consent, doubt>>

\* The outcome becomes known.
Learn(j) ==
    /\ doubt[j]
    /\ doubt' = [doubt EXCEPT ![j] = FALSE]
    /\ UNCHANGED <<consent, sent, unlocked>>

\* The user starts over with this gallery.
StartOver(j) ==
    /\ consent' = [consent EXCEPT ![j] = NoPrice]
    /\ sent' = [sent EXCEPT ![j] = 0]
    /\ doubt' = [doubt EXCEPT ![j] = FALSE]
    /\ UNCHANGED unlocked

\* The site no longer holds the archive.
Lapse(j) ==
    /\ unlocked' = [unlocked EXCEPT ![j] = 0]
    /\ UNCHANGED <<consent, doubt, sent>>

Next ==
    \E j \in Jobs :
        \/ \E p \in Prices : Agree(j, p)
        \/ Arm(j) \/ Send(j) \/ Learn(j) \/ StartOver(j) \/ Lapse(j)

Spec == Init /\ [][Next]_money
=============================================================================
