----------------------------- MODULE PageCache ------------------------------
(***************************************************************************)
(* The reader's page cache (Pages), the two viewers of the page on screen  *)
(* (the reader's reservation and the image slot) and the warm-up loop that *)
(* fetches the pages around it.  Requests for one page share a task; at    *)
(* most two tasks download at a time, and only one of them for warm-up.  A *)
(* task nobody waits for is aborted half a second later.                   *)
(*                                                                         *)
(* React's commit of a page turn and the effects it runs are one step.     *)
(***************************************************************************)
EXTENDS Integers, Sequences, SequencesExt, FiniteSets, Ordering

CONSTANTS Count,      \* pages of the book, 0 .. Count - 1
          Behind,     \* pages kept behind the one on screen (3)
          Ahead,      \* pages kept ahead of it (8)
          Capacity,   \* pages the cache holds (12)
          Budget,     \* bytes the cache holds
          Size,       \* the size of each page
          MaxTurns,   \* bound: page turns
          MaxFaults   \* bound: failed downloads, decodes and retries of them

PageNo == 0 .. Count - 1

ASSUME PageCacheAssumption ==
    /\ Count \in Nat \ {0} /\ Behind \in Nat /\ Ahead \in Nat
    /\ Capacity \in Nat \ {0} /\ Budget \in Nat
    /\ Size \in [PageNo -> Nat \ {0}]
    /\ MaxTurns \in Nat /\ MaxFaults \in Nat

\* reserve: Reader's own request; view: useObjectUrl's; warm: useWarmPages'.
Requester == {"reserve", "view", "warm"}

VARIABLES
    pages,    \* Pages: tasks and cache in their order, marks, aborted loads replaced in tasks
    closed,   \* Pages.closed
    page,     \* the page on screen
    want,     \* the page each requester waits for, or -1
    image,    \* the image slot: off, waiting, got, shown, failed
    warming,  \* pages the warm-up loop has left, or <<>>
    halted,   \* the loop stopped on 401, 403 or 503
    rapid,    \* pages are flipped too fast to load
    turning,  \* the 180 ms since the last turn are not over
    visible,  \* the tab is shown
    turns, faults

vars == <<pages, closed, page, want, image, warming, halted, rapid, turning,
          visible, turns, faults>>

Task(p, background) ==
    [page |-> p, background |-> background, started |-> FALSE, aborted |-> FALSE,
     expiring |-> FALSE, waiters |-> {}]

At(c, p) == SelectInSeq(c.tasks, LAMBDA t : t.page = p)
Started(c) == {i \in DOMAIN c.tasks : c.tasks[i].started}
Active(c) == Cardinality(Started(c)) + Len(c.replaced)

-----------------------------------------------------------------------------
(* Pages, as functions from its state to its state.                        *)

\* The next task pump() starts: what the reader waits for, else one for warm-up.
NextTask(c) ==
    LET reader == SelectInSeq(c.tasks, LAMBDA t : ~t.started /\ ~t.background)
        any == SelectInSeq(c.tasks, LAMBDA t : ~t.started)
    IN  IF reader # 0 THEN reader
        ELSE IF \E i \in Started(c) : c.tasks[i].background THEN 0 ELSE any

Start(c) ==
    LET i == NextTask(c) IN
    IF Active(c) >= 2 \/ i = 0 THEN c
    ELSE [c EXCEPT !.tasks[i].started = TRUE, !.marks[c.tasks[i].page] = "none"]

Pump(c) == Start(Start(c))

\* Mutant: a request joins a task that was aborted.
JoinAborted(c, r, p, background) ==
    LET i == At(c, p)
        joined == [(IF i = 0 THEN Task(p, background) ELSE c.tasks[i])
                     EXCEPT !.waiters = @ \cup {r}, !.expiring = FALSE,
                            !.background = @ /\ background]
    IN  IF i = 0 THEN [c EXCEPT !.tasks = Append(@, joined)] ELSE [c EXCEPT !.tasks[i] = joined]

\* get() past the cache: join the page's task, or make one where it has none alive.
Join(c, r, p, background) ==
    LET i == At(c, p)
        alive == i # 0 /\ ~c.tasks[i].aborted
        t == IF alive THEN c.tasks[i] ELSE Task(p, background)
        joined == [t EXCEPT !.waiters = @ \cup {r}, !.expiring = FALSE,
                            !.background = @ /\ background]
    IN  IF i = 0 THEN [c EXCEPT !.tasks = Append(@, joined)]
        ELSE [c EXCEPT !.tasks[i] = joined,
                       !.replaced = IF alive THEN @ ELSE Append(@, c.tasks[i])]

\* The pages of a cache but one.
Others(held, p) == Picked(held, {i \in DOMAIN held : held[i] # p})

Get(c, r, p, background) ==
    IF Contains(c.cache, p) THEN [c EXCEPT !.cache = Append(Others(@, p), p)]
    ELSE Pump(Join(c, r, p, background))

\* Mutant: a download is aborted as soon as nobody waits.
CancelAtOnce(c, r) ==
    LET i == SelectInSeq(c.tasks, LAMBDA t : r \in t.waiters)
        left == c.tasks[i].waiters \ {r}
    IN  IF i = 0 THEN c
        ELSE Pump(IF left = {} /\ ~c.tasks[i].started
                  THEN [c EXCEPT !.tasks = RemoveAt(@, i)]
                  ELSE [c EXCEPT !.tasks[i].waiters = left, !.tasks[i].aborted = (left = {})])

\* The abort of one request: its task goes if it has not started, else it may expire.
Cancel(c, r) ==
    LET i == SelectInSeq(c.tasks, LAMBDA t : r \in t.waiters)
        left == c.tasks[i].waiters \ {r}
    IN  IF i = 0 THEN c
        ELSE Pump(IF left = {} /\ ~c.tasks[i].started
                  THEN [c EXCEPT !.tasks = RemoveAt(@, i)]
                  ELSE [c EXCEPT !.tasks[i].waiters = left,
                                 !.tasks[i].expiring = (left = {})])

Bytes(held) == FoldLeft(LAMBDA sum, p : sum + Size[p], 0, held)

\* The newest pages that fit: the oldest are evicted until the rest does, as none do.
Evicted(held) ==
    LET fits(n) == \/ n = Len(held)
                   \/ /\ Len(held) - n <= Capacity
                      /\ Bytes(SubSeq(held, n + 1, Len(held))) <= Budget
        n == CHOOSE m \in 0 .. Len(held) : fits(m) /\ \A k \in 0 .. m - 1 : ~fits(k)
    IN  SubSeq(held, n + 1, Len(held))

Stored(c, p) ==
    [c EXCEPT !.cache = IF Size[p] <= Budget THEN Evicted(Append(Others(@, p), p)) ELSE @,
              !.marks[p] = "done"]

Focus(c, p) ==
    [c EXCEPT !.cache = Picked(@, {i \in DOMAIN @ : @[i] \in p - Behind .. p + Ahead})]

WarmEnough(c) == Len(c.cache) >= Capacity - 2 \/ 10 * Bytes(c.cache) >= 7 * Budget

-----------------------------------------------------------------------------
(* The viewers.                                                            *)

\* useWarmPages' order: alternately after and before the page, then only after it.
Nearby(p) ==
    LET near == [i \in 1 .. 2 * Behind |->
                   IF i % 2 = 1 THEN p + (i + 1) \div 2 ELSE p - i \div 2]
        far == [i \in 1 .. Ahead - Behind |-> p + Behind + i]
        all == <<p>> \o near \o far
    IN  Picked(all, {i \in DOMAIN all : all[i] \in PageNo})

Warms(fast, shown, stopped) == shown /\ ~fast /\ ~stopped

\* The clean-ups and effects of a commit that shows page p, `fast` or not.
Shows(c, p, fast) ==
    LET reserved == IF fast THEN Cancel(c, "reserve")
                    ELSE Get(Cancel(c, "reserve"), "reserve", p, FALSE)
        idle == Cancel(Cancel(reserved, "view"), "warm")
        viewed == IF fast THEN idle ELSE Get(idle, "view", p, FALSE)
    IN  IF Warms(fast, visible, halted) THEN Focus(viewed, p) ELSE viewed

Waits(c, r, p) == IF \E i \in DOMAIN c.tasks : r \in c.tasks[i].waiters THEN p ELSE -1

Commits(p, fast) ==
    LET c == Shows(pages, p, fast) IN
    /\ pages' = c
    /\ want' = [r \in Requester |-> Waits(c, r, p)]
    /\ image' = IF fast THEN "off" ELSE IF Waits(c, "view", p) = -1 THEN "got" ELSE "waiting"
    /\ warming' = IF Warms(fast, visible, halted) THEN Nearby(p) ELSE <<>>

Init ==
    LET empty == [tasks |-> <<>>, replaced |-> <<>>, cache |-> <<>>,
                  marks |-> [p \in PageNo |-> "none"]]
        reserved == Get(empty, "reserve", 0, FALSE)
    IN  /\ pages = Get(reserved, "view", 0, FALSE)
        /\ closed = FALSE /\ page = 0
        /\ want = [r \in Requester |-> IF r = "warm" THEN -1 ELSE 0]
        /\ image = "waiting" /\ warming = Nearby(0)
        /\ halted = FALSE /\ rapid = FALSE /\ turning = FALSE /\ visible = TRUE
        /\ turns = 0 /\ faults = 0

\* A page turn; one within RAPID_TURN_MS of the last is part of a rapid flip.
Turn(p) ==
    /\ ~closed /\ p # page /\ turns < MaxTurns
    /\ turns' = turns + 1
    /\ page' = p /\ rapid' = turning /\ turning' = TRUE
    /\ Commits(p, turning)
    /\ UNCHANGED <<closed, halted, visible, faults>>

Settle ==
    /\ ~closed /\ turning
    /\ turning' = FALSE /\ rapid' = FALSE
    /\ IF rapid THEN Commits(page, FALSE) ELSE UNCHANGED <<pages, want, image, warming>>
    /\ UNCHANGED <<closed, page, halted, visible, turns, faults>>

\* The warm-up effect starts over: the old loop's request is aborted first.
Rewarm(c, fast, shown, stopped) ==
    /\ pages' = IF Warms(fast, shown, stopped) THEN Focus(Cancel(c, "warm"), page)
                ELSE Cancel(c, "warm")
    /\ warming' = IF Warms(fast, shown, stopped) THEN Nearby(page) ELSE <<>>
    /\ want' = [want EXCEPT !["warm"] = -1]

Visibility ==
    /\ ~closed /\ turns < MaxTurns
    /\ turns' = turns + 1
    /\ visible' = ~visible
    /\ Rewarm(pages, rapid, visible', halted)
    /\ UNCHANGED <<closed, page, image, halted, rapid, turning, faults>>

\* One turn of the warm-up loop: skip what is cached or has failed, stop when it is enough.
WarmNext ==
    /\ ~closed /\ warming # <<>> /\ want["warm"] = -1
    /\ LET i == SelectInSeq(warming, LAMBDA p : ~Contains(pages.cache, p)
                                               /\ pages.marks[p] # "failed")
       IN  IF i = 0 \/ (WarmEnough(pages) /\ warming[i] > page + 1)
           THEN /\ warming' = <<>>
                /\ UNCHANGED <<pages, want>>
           ELSE /\ warming' = SubSeq(warming, i + 1, Len(warming))
                /\ pages' = Get(pages, "warm", warming[i], TRUE)
                /\ want' = [want EXCEPT !["warm"] = warming[i]]
    /\ UNCHANGED <<closed, page, image, halted, rapid, turning, visible, turns, faults>>

-----------------------------------------------------------------------------
(* The end of a download.                                                  *)

Ends(i) == /\ ~closed /\ i \in Started(pages)
\* Mutant: nothing is started in place of what ended.
WithoutPump(c, i) == [c EXCEPT !.tasks = RemoveAt(@, i)]

Without(c, i) == Pump([c EXCEPT !.tasks = RemoveAt(@, i)])
Answered(waiters) == [r \in Requester |-> IF r \in waiters THEN -1 ELSE want[r]]

Loaded(i) ==
    /\ Ends(i) /\ ~pages.tasks[i].aborted
    /\ LET t == pages.tasks[i] IN
       /\ pages' = Without(Stored(pages, t.page), i)
       /\ want' = Answered(t.waiters)
       /\ image' = IF "view" \in t.waiters THEN "got" ELSE image
    /\ UNCHANGED <<closed, page, warming, halted, rapid, turning, visible, turns, faults>>

\* An error; 401, 403 and 503 end the warm-up loop, any other lets it go on.
LoadFails(i, fatal) ==
    /\ Ends(i) /\ ~pages.tasks[i].aborted /\ faults < MaxFaults
    /\ faults' = faults + 1
    /\ LET t == pages.tasks[i]
           stops == fatal /\ "warm" \in t.waiters
       IN  /\ pages' = Without([pages EXCEPT !.marks[t.page] = "failed"], i)
           /\ want' = Answered(t.waiters)
           /\ image' = IF "view" \in t.waiters THEN "failed" ELSE image
           /\ halted' = (halted \/ stops)
           /\ warming' = IF stops THEN <<>> ELSE warming
    /\ UNCHANGED <<closed, page, rapid, turning, visible, turns>>

AbortedEnds(i) ==
    /\ Ends(i) /\ pages.tasks[i].aborted
    /\ pages' = Without(pages, i)
    /\ UNCHANGED <<closed, page, want, image, warming, halted, rapid, turning,
                   visible, turns, faults>>

\* A replaced load ends, or, after dispose(), any load that was running.
ReplacedEnds ==
    /\ pages.replaced # <<>>
    /\ LET rest == [pages EXCEPT !.replaced = Tail(@)] IN
       pages' = IF closed THEN rest ELSE Pump(rest)
    /\ UNCHANGED <<closed, page, want, image, warming, halted, rapid, turning,
                   visible, turns, faults>>

\* Half a second without a waiter.
Expire(i) ==
    /\ Ends(i) /\ pages.tasks[i].expiring
    /\ pages' = [pages EXCEPT !.tasks[i].expiring = FALSE, !.tasks[i].aborted = TRUE]
    /\ UNCHANGED <<closed, page, want, image, warming, halted, rapid, turning,
                   visible, turns, faults>>

-----------------------------------------------------------------------------
(* The image slot, and the end of the view.                                *)

Decoded ==
    /\ ~closed /\ image = "got"
    /\ image' = "shown"
    /\ UNCHANGED <<pages, closed, page, want, warming, halted, rapid, turning,
                   visible, turns, faults>>

\* fail(): what decoded to nothing is thrown out of the cache and marked.
DecodeFails ==
    /\ ~closed /\ image = "got" /\ faults < MaxFaults
    /\ faults' = faults + 1
    /\ image' = "failed"
    /\ pages' = [pages EXCEPT !.cache = Others(@, page), !.marks[page] = "failed"]
    /\ UNCHANGED <<closed, page, want, warming, halted, rapid, turning, visible, turns>>

\* "Retry page".
RetryImage ==
    /\ ~closed /\ image = "failed"
    /\ pages' = Get(pages, "view", page, FALSE)
    /\ want' = [want EXCEPT !["view"] = Waits(pages', "view", page)]
    /\ image' = IF want'["view"] = -1 THEN "got" ELSE "waiting"
    /\ UNCHANGED <<closed, page, warming, halted, rapid, turning, visible, turns, faults>>

\* The settings' retry of failed or paused warm-up.
RetryWarming ==
    /\ ~closed /\ (halted \/ \E p \in PageNo : pages.marks[p] = "failed")
    /\ halted' = FALSE
    /\ Rewarm([pages EXCEPT !.marks = [p \in PageNo |-> IF @[p] = "failed" THEN "none" ELSE @[p]]],
              rapid, visible, FALSE)
    /\ UNCHANGED <<closed, page, image, rapid, turning, visible, turns, faults>>

Dispose ==
    /\ ~closed /\ closed' = TRUE
    /\ pages' = [tasks |-> <<>>, cache |-> <<>>, marks |-> [p \in PageNo |-> "none"],
                 replaced |-> pages.replaced
                              \o Picked(pages.tasks, Started(pages))]
    /\ want' = [r \in Requester |-> -1]
    /\ warming' = <<>> /\ image' = "off"
    /\ UNCHANGED <<page, halted, rapid, turning, visible, turns, faults>>

Slots == 1 .. Cardinality(PageNo)
Network == \/ \E i \in Slots : \/ Loaded(i) \/ AbortedEnds(i) \/ Expire(i)
                               \/ \E fatal \in BOOLEAN : LoadFails(i, fatal)
           \/ ReplacedEnds
Viewer == Settle \/ WarmNext \/ Decoded \/ DecodeFails \/ RetryImage \/ RetryWarming
Reader == (\E p \in PageNo : Turn(p)) \/ Visibility \/ Dispose

Next == Network \/ Viewer \/ Reader

Spec == Init /\ [][Next]_vars

-----------------------------------------------------------------------------
TypeOK ==
    /\ \A i \in DOMAIN pages.tasks :
         /\ pages.tasks[i].page \in PageNo
         /\ pages.tasks[i].waiters \subseteq Requester
    /\ ToSet(pages.cache) \subseteq PageNo
    /\ pages.marks \in [PageNo -> {"none", "done", "failed"}]
    /\ page \in PageNo /\ want \in [Requester -> PageNo \cup {-1}]
    /\ image \in {"off", "waiting", "got", "shown", "failed"}
    /\ warming \in Seq(PageNo)
    /\ <<closed, halted, rapid, turning, visible>> \in [1 .. 5 -> BOOLEAN]

\* A request that waits is a waiter of one live task of its page: no abort, replacement or
\* expiry of a task shared with others leaves it waiting for an answer nobody will give.
NoLostWaiter ==
    \A r \in Requester : want[r] # -1 =>
        \E i \in DOMAIN pages.tasks :
            /\ pages.tasks[i].page = want[r] /\ r \in pages.tasks[i].waiters
            /\ ~pages.tasks[i].aborted
            /\ \A j \in DOMAIN pages.tasks \ {i} : pages.tasks[j].page # want[r]

\* What the reader waits for is downloading unless both downloads are taken, and warm-up
\* never takes both.
ReaderFirst ==
    /\ Active(pages) <= 2 \/ closed
    /\ Cardinality({i \in Started(pages) : pages.tasks[i].background}) <= 1
    /\ (\E i \in DOMAIN pages.tasks : ~pages.tasks[i].started /\ ~pages.tasks[i].background)
          => Active(pages) = 2

\* While pages are flipped rapidly the reader asks for none of them.
RapidAsksNothing == rapid => \A r \in Requester : want[r] = -1

\* A download under way is neither given up early nor begun again: until it ends, or has been
\* left without a request for a while, or the view closes, its one task keeps running, whatever
\* turns and returns there are, and takes any new request for the page on.
Downloads(c, p) ==
    Cardinality({i \in Started(c) : c.tasks[i].page = p})
    + Cardinality({i \in DOMAIN c.replaced : c.replaced[i].page = p})
LoadsCarryOver ==
    [][\A i \in Started(pages) :
         LET t == pages.tasks[i]
             wanted == \E r \in Requester : want'[r] = t.page
             ended == pages'.marks[t.page] # "none"
         IN  ~t.aborted /\ ~closed' /\ ~ended /\ (wanted \/ ~t.expiring) =>
               /\ \E j \in Started(pages') : pages'.tasks[j].page = t.page /\ ~pages'.tasks[j].aborted
               /\ Downloads(pages', t.page) <= Downloads(pages, t.page)]_vars

\* Warm-up does not evict the page on screen: once cached it stays until the page turns, the
\* image proves undecodable or the view closes.  Pages take three tenths of the budget, the
\* share warmEnough() leaves free, or more than all of it.
SmallPages == \A p \in PageNo : 10 * Size[p] <= 3 * Budget \/ Size[p] > Budget
ScreenKept ==
    [][(SmallPages /\ ~closed' /\ page' = page /\ Contains(pages.cache, page))
         => Contains(pages'.cache, page) \/ image' = "failed"]_vars

\* When no download, timer, decode or loop is left to run, the page on screen is shown or
\* has visibly failed: the reader never waits for something that is not coming.
Busy == \/ Started(pages) # {} \/ pages.replaced # <<>> \/ turning \/ image = "got"
        \/ warming # <<>> /\ want["warm"] = -1
QuietMeansShown == closed \/ Busy \/ image \in {"shown", "failed"}

\* Requests: each is served by one live download, the reader's before warm-up's, and none
\* is made for pages that are only flipped past.
RequestsServed == TypeOK /\ NoLostWaiter /\ ReaderFirst /\ RapidAsksNothing
=============================================================================
