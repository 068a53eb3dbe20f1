------------------------------- MODULE Reader -------------------------------
(***************************************************************************)
(* The reader of one book: the page it is on, the stage it shows (a page,  *)
(* a spread, or the scrolled column), the view's report of what is on      *)
(* screen, autoplay, and the reading progress it records.                  *)
(*                                                                         *)
(* A render's effects run after it as one step (Effects): first the view's *)
(* report, then the reader's own, in the order of the code.  The autoplay  *)
(* timer and the image decoder may come in between; a user's event may     *)
(* not, because React runs the effects of an earlier render before it.     *)
(***************************************************************************)
EXTENDS Integers, Sequences, SequencesExt

CONSTANTS Count,     \* pages of the book
          Layouts,   \* the column's rows, one for each page: their bottom edges, from the top down
          Width,     \* how wide the column is: a page wider than tall has a row lower than this
          Viewport,  \* how much of the column is on screen
          Step,      \* how far autoplay moves the column: less than a viewport
          Lead,      \* how far below the top of the screen the page being read is looked for
          MaxSteps   \* bound: commands of the user and changes around the reader

PageNo == 0 .. Count - 1
LastPage == Count - 1

ASSUME ReaderAssumption ==
    /\ Count \in Nat \ {0} /\ MaxSteps \in Nat /\ Width \in Nat
    /\ Viewport \in Nat \ {0} /\ Step \in 1 .. Viewport /\ Lead \in 0 .. Viewport - 1
    /\ Layouts \subseteq [PageNo -> Nat]
    /\ \A b \in Layouts : b[0] > 0 /\ \A p \in PageNo : p # 0 => b[p] > b[p - 1]

Mode == {"single", "spread", "scroll"}
None == -1

VARIABLES
    page, mode, coverSolo,
    rtl,        \* the reading direction is from right to left
    bottom,     \* the column's layout, fixed by the book
    top,        \* scroll mode: the offset of the viewport in the column
    advances,   \* scroll mode: autoplay's steps, modulo 2
    image,      \* what is on screen, all of it: loading, ready, or some of it failed
    active,     \* scroll mode: the page being read is ready, whatever else is on screen
    view,       \* the last report of a view
    settings, visible, status, startRequested,
    playing,    \* React's copy of Autoplay.playing
    player,     \* Autoplay: playing, context, and whether its timer is set
    given,      \* the dependencies of the last playback effect
    effects,    \* a render's effects have not run yet
    recorded,   \* the last progress edit given to the queue
    steps

vars == <<page, mode, coverSolo, rtl, bottom, top, advances, image, active, view, settings,
          visible, status, startRequested, playing, player, given, effects, recorded, steps>>

-----------------------------------------------------------------------------
(* The column of scroll mode.                                              *)

LeastOf(S) == CHOOSE x \in S : \A y \in S : x <= y
GreatestOf(S) == CHOOSE x \in S : \A y \in S : x >= y

Above(p) == IF p = 0 THEN 0 ELSE bottom[p - 1]
Maximum == IF bottom[LastPage] > Viewport THEN bottom[LastPage] - Viewport ELSE 0
Clamped(t) == IF t < Maximum THEN t ELSE Maximum
OnScreen(t) == {p \in PageNo : Above(p) < t + Viewport /\ bottom[p] > t}
\* The page being read, with the viewport at offset t: the row a little below its top.
ActiveAt(t) == GreatestOf({p \in PageNo : Above(p) <= t + Lead})

-----------------------------------------------------------------------------
(* Spreads: pages are paired from the front, except wide ones and a solo cover. *)

Wide == {p \in PageNo : bottom[p] - Above(p) < Width}
Solo(p, cover) == \/ cover /\ p = 0
                  \/ p \in Wide
                  \/ p = LastPage
                  \/ p + 1 \in Wide

\* Whether page p begins a group: so does page 0, and what follows a group.
Begins(cover) ==
    LET begins[p \in PageNo] == \/ p = 0
                                \/ ~begins[p - 1]
                                \/ Solo(p - 1, cover)
    IN  begins

Group(p, cover) ==
    LET first == IF Begins(cover)[p] THEN p ELSE p - 1
    IN  IF Solo(first, cover) THEN {first} ELSE {first, first + 1}

Displayed(p) == IF mode = "spread" THEN Group(p, coverSolo) ELSE {p}

NextOf(p) == LET q == GreatestOf(Displayed(p)) + 1 IN IF q \in PageNo THEN q ELSE None

\* Mutant: going back does not look for the start of the spread.
PreviousPage(p) ==
    LET q == LeastOf(Displayed(p)) - 1 IN IF q \in PageNo THEN q ELSE None

PreviousOf(p) ==
    LET q == LeastOf(Displayed(p)) - 1 IN IF q \in PageNo THEN LeastOf(Displayed(q)) ELSE None

-----------------------------------------------------------------------------
(* What is shown, and the view's report of it.                             *)

StageOf(p, m) == IF m = "scroll" THEN <<m>> ELSE <<m, Displayed(p)>>
Stage == StageOf(page, mode)

NoView == [stage |-> <<>>, position |-> <<>>, page |-> None, ready |-> FALSE,
           activeReady |-> FALSE, failed |-> FALSE, atEnd |-> FALSE, completed |-> FALSE]

\* Mutant: autoplay's step within one tall page is not a new position.
PositionOfRows == IF mode = "scroll" THEN <<"scroll", OnScreen(top)>> ELSE Stage

\* What the view tells apart: in the column the rows on screen and autoplay's steps.
Position == IF mode = "scroll" THEN <<"scroll", OnScreen(top), advances>> ELSE Stage

\* PagedView's and ScrollView's report.
Report ==
    LET scroll == mode = "scroll"
        ready == image = "ready"
        ends == IF scroll THEN top >= Maximum ELSE LastPage \in Displayed(page)
    IN  [stage |-> Stage, position |-> Position,
         page |-> IF scroll THEN ActiveAt(top) ELSE page,
         ready |-> ready, activeReady |-> IF scroll THEN active ELSE ready,
         failed |-> image = "failed",
         atEnd |-> IF scroll THEN top >= Maximum ELSE NextOf(page) = None,
         completed |-> ready /\ ends]

\* Mutant: a report of another stage counts.
CurrentOfAny == view

\* The report counts only for the stage that is rendered.
Current == IF view.stage = Stage THEN view ELSE NoView

AtEnd == IF mode = "scroll" THEN Current.atEnd ELSE NextOf(page) = None

Context ==
    [key |-> IF Current.stage = Stage THEN Current.position ELSE Stage,
     ready |-> Current.ready, atEnd |-> AtEnd, visible |-> visible,
     blocked |-> Current.failed \/ settings \/ status = "error"]

-----------------------------------------------------------------------------
(* Autoplay, as functions from its state to its state.                     *)

Scheduled(a) == [a EXCEPT !.armed = a.playing /\ a.context.ready]
Paused(a) == [a EXCEPT !.armed = FALSE, !.playing = FALSE]
Halting(c) == c.atEnd \/ ~c.visible \/ c.blocked

\* update(): a new context, which pauses or restarts the timer.
Updated(a, c) ==
    LET b == [a EXCEPT !.context = c]
    IN  IF Halting(c) THEN Paused(b) ELSE IF c # a.context THEN Scheduled(b) ELSE b

Begun(a) == IF Halting(a.context) THEN a ELSE Scheduled([a EXCEPT !.playing = TRUE])

Init ==
    /\ bottom \in Layouts /\ coverSolo \in BOOLEAN /\ mode \in Mode /\ rtl \in BOOLEAN
    /\ page \in PageNo                         \* startingPage: the saved position
    /\ top = (IF mode = "scroll" THEN Clamped(Above(page)) ELSE 0) /\ advances = 0
    /\ image = "loading" /\ active = FALSE /\ view = NoView
    /\ settings = FALSE /\ visible = TRUE /\ status = "saved" /\ startRequested = FALSE
    /\ playing = FALSE
    /\ given = [key |-> <<>>, ready |-> FALSE, atEnd |-> FALSE, visible |-> TRUE,
                blocked |-> FALSE]
    /\ player = [playing |-> FALSE, armed |-> FALSE, context |-> given]
    /\ effects = TRUE
    /\ recorded = [page |-> None, completed |-> FALSE]
    /\ steps = 0

-----------------------------------------------------------------------------
(* Effects and the events between renders and them.                        *)

\* The view reports what is new; in the column, the page of a new report is the reader's.
Effects ==
    /\ effects
    /\ view' = Report
    /\ page' = IF mode = "scroll" /\ Report # view THEN Report.page ELSE page
    /\ LET updated == IF Context = given THEN player ELSE Updated(player, Context)
           started == IF startRequested /\ ~settings THEN Scheduled(Begun(updated))
                      ELSE updated
       IN  /\ player' = started
           /\ playing' = started.playing
    /\ given' = Context
    /\ startRequested' = (startRequested /\ settings)
    /\ recorded' = IF Current.activeReady /\ visible
                   THEN [page |-> Current.page,
                         completed |-> recorded.completed \/ Current.completed]
                   ELSE recorded
    /\ effects' = (view' # view)
    /\ UNCHANGED <<mode, coverSolo, rtl, bottom, top, advances, image, active, settings, visible,
                   status, steps>>

Images == {"loading", "ready", "failed"}

\* What all rows on screen are and what the active one is go together.
Together(i, a, t) == /\ i = "ready" => a
                     /\ a /\ OnScreen(t) = {ActiveAt(t)} => i = "ready"

\* What is found on screen at page p, with the column at offset t: a stage other than the
\* one shown has to load, a row of the column may have been loaded before it came into view.
Found(p, t) ==
    IF mode = "scroll"
    THEN /\ image' \in (IF OnScreen(t) = OnScreen(top) THEN {image} ELSE Images)
         /\ active' \in (IF ActiveAt(t) = ActiveAt(top) THEN {active} ELSE BOOLEAN)
         /\ Together(image', active', t)
    ELSE image' = (IF StageOf(p, mode) = Stage THEN image ELSE "loading") /\ UNCHANGED active

\* Autoplay's timer: it advances by one page, one spread, or most of a viewport, which in a
\* tall page leaves the same page on screen.
TimerFires ==
    /\ player.armed
    /\ IF ~player.playing \/ ~player.context.ready \/ Halting(player.context)
       THEN /\ player' = [player EXCEPT !.armed = FALSE]
            /\ UNCHANGED <<page, top, advances, image, active, effects>>
       ELSE /\ player' = [player EXCEPT !.armed = FALSE, !.context.ready = FALSE]
            /\ IF mode = "scroll"
               THEN /\ top' = Clamped(top + Step)
                    /\ advances' = 1 - advances
                    /\ UNCHANGED page
               ELSE /\ page' = IF NextOf(page) = None THEN page ELSE NextOf(page)
                    /\ UNCHANGED <<top, advances>>
            /\ Found(page', top')
            /\ effects' = TRUE
    /\ UNCHANGED <<mode, coverSolo, rtl, bottom, view, settings, visible, status, startRequested,
                   playing, given, recorded, steps>>

\* An image decodes, or its load or decoding fails; in the column, one row at a time.
ImageSettles ==
    /\ image' \in (IF image = "loading" THEN Images ELSE {image})
    /\ active' \in (IF mode = "scroll" /\ ~active THEN BOOLEAN ELSE {active})
    /\ mode = "scroll" => Together(image', active', top)
    /\ <<image', active'>> # <<image, active>>
    /\ effects' = TRUE
    /\ UNCHANGED <<page, mode, coverSolo, rtl, bottom, top, advances, view, settings, visible,
                   status, startRequested, playing, player, given, recorded, steps>>

-----------------------------------------------------------------------------
(* Commands; each is one event, after the effects of the renders before it. *)

Command ==
    /\ ~effects /\ effects' = TRUE
    /\ steps < MaxSteps /\ steps' = steps + 1
    /\ UNCHANGED <<bottom, view, given, recorded>>

Stops == player' = Paused(player) /\ playing' = FALSE

\* move(): a page to go to, or none, which only stops autoplay.
MoveTo(p) ==
    /\ Stops
    /\ page' = IF p = None THEN page ELSE p
    /\ top' = IF p # None /\ mode = "scroll" THEN Clamped(Above(p)) ELSE top
    /\ Found(page', top')
    /\ UNCHANGED <<mode, coverSolo, rtl, advances, visible, status, startRequested>>

\* The left and right sides of the screen; their meaning follows the reading direction.
Side(left) == IF left = rtl THEN NextOf(page) ELSE PreviousOf(page)

\* Keys: the left and right ones always turn, the others are the column's in scroll mode.
Keys == {"left", "right", "next", "previous", "first", "last"}
Destination(key) ==
    CASE key = "left" -> Side(TRUE)
      [] key = "right" -> Side(FALSE)
      [] key = "next" -> NextOf(page)
      [] key = "previous" -> PreviousOf(page)
      [] key = "first" -> IF page = 0 THEN None ELSE 0
      [] key = "last" -> IF LastPage \in Displayed(page) THEN None ELSE LastPage
Press(key) ==
    /\ Command
    /\ mode = "scroll" => key \in {"left", "right"}
    /\ MoveTo(Destination(key)) /\ UNCHANGED settings
Escape ==
    /\ Command /\ Stops
    /\ settings' = FALSE
    /\ UNCHANGED <<page, mode, coverSolo, rtl, top, advances, image, active, visible, status,
                   startRequested>>

\* A swipe by one finger, or a tap on one side; a pinch is neither.
Swipe(left) == Command /\ mode # "scroll" /\ MoveTo(Side(~left)) /\ UNCHANGED settings
Tap(left) == Command /\ mode # "scroll" /\ MoveTo(Side(left)) /\ UNCHANGED settings

\* The scrubber, which the settings hide, and the page numbers of a spread.
Scrub(p) == Command /\ ~settings /\ p # page /\ MoveTo(p) /\ UNCHANGED settings
SelectPage(p) ==
    /\ Command /\ mode = "spread" /\ image = "ready" /\ p \in Displayed(page)
    /\ MoveTo(p) /\ UNCHANGED settings

\* Scroll mode: the reader moves the column to offset t, which pauses autoplay first.
Scroll(t) ==
    /\ Command /\ Stops
    /\ mode = "scroll" /\ t # top
    /\ top' = t
    /\ Found(page, t)
    /\ UNCHANGED <<page, mode, coverSolo, rtl, advances, settings, visible, status, startRequested>>

\* The space key: pause, or start unless the settings are open.
TogglePlayback ==
    /\ Command
    /\ player' = IF playing THEN Paused(player) ELSE IF settings THEN player ELSE Begun(player)
    /\ playing' = player'.playing
    /\ UNCHANGED <<page, mode, coverSolo, rtl, top, advances, image, active, settings, visible, status,
                   startRequested>>

\* The scrubber's interval buttons close the settings and start after that render.
PlayEvery ==
    /\ Command
    /\ ~(Current.failed \/ status = "error" \/ (AtEnd /\ Current.ready))
    /\ settings' = FALSE /\ startRequested' = TRUE
    /\ UNCHANGED <<page, mode, coverSolo, rtl, top, advances, image, active, visible, status,
                   playing, player>>

\* The settings: opened or closed, a mode, or the cover on its own.
ToggleSettings ==
    /\ Command /\ Stops
    /\ settings' = ~settings
    /\ UNCHANGED <<page, mode, coverSolo, rtl, top, advances, image, active, visible, status,
                   startRequested>>

SetMode(m) ==
    /\ Command /\ Stops
    /\ settings /\ m # mode
    /\ mode' = m
    /\ top' = IF m = "scroll" THEN Clamped(Above(page)) ELSE 0
    /\ image' = "loading" /\ active' = FALSE
    /\ UNCHANGED <<page, coverSolo, rtl, advances, settings, visible, status, startRequested>>

\* The other direction is not drawn anew and does not stop autoplay.
SetDirection ==
    /\ Command
    /\ settings /\ mode # "scroll"
    /\ rtl' = ~rtl
    /\ UNCHANGED <<page, mode, coverSolo, top, advances, image, active, settings, visible, status,
                   startRequested, playing, player>>

SetCoverSolo ==
    /\ Command /\ Stops
    /\ settings /\ mode = "spread"
    /\ coverSolo' = ~coverSolo
    /\ image' = IF Group(page, ~coverSolo) # Group(page, coverSolo) THEN "loading" ELSE image
    /\ UNCHANGED <<page, mode, rtl, top, advances, active, settings, visible, status, startRequested>>

\* One image is loaded again; another row on screen may have failed as well.
RetryImage ==
    /\ Command /\ Stops
    /\ image = "failed"
    /\ \/ image' = "loading"
       \/ mode = "scroll" /\ OnScreen(top) # {ActiveAt(top)} /\ UNCHANGED image
    /\ UNCHANGED <<page, mode, coverSolo, rtl, top, advances, active, settings, visible, status,
                   startRequested>>

\* useReaderLifecycle: a hidden tab pauses playback at once.
ToggleVisible ==
    /\ Command
    /\ visible' = ~visible
    /\ IF visible THEN Stops ELSE UNCHANGED <<player, playing>>
    /\ UNCHANGED <<page, mode, coverSolo, rtl, top, advances, image, active, settings, status,
                   startRequested>>

\* The save queue's status, which reaches the reader as a property at any time.
StatusChanges ==
    /\ steps < MaxSteps /\ steps' = steps + 1
    /\ status' \in {"saved", "saving", "error"} \ {status}
    /\ effects' = TRUE
    /\ UNCHANGED <<page, mode, coverSolo, rtl, bottom, top, advances, image, active, view,
                   settings, visible, startRequested, playing, player, given, recorded>>

User == \/ \E p \in PageNo : Scrub(p) \/ SelectPage(p)
        \/ \E t \in 0 .. Maximum : Scroll(t)
        \/ \E key \in Keys : Press(key)
        \/ \E left \in BOOLEAN : Swipe(left) \/ Tap(left)
        \/ Escape \/ SetDirection
        \/ TogglePlayback \/ PlayEvery \/ ToggleSettings
        \/ \E m \in Mode : SetMode(m)
        \/ SetCoverSolo \/ RetryImage \/ ToggleVisible

Next == Effects \/ TimerFires \/ ImageSettles \/ User \/ StatusChanges

Spec == Init /\ [][Next]_vars /\ WF_vars(Effects) /\ WF_vars(TimerFires)

-----------------------------------------------------------------------------
TypeOK ==
    /\ page \in PageNo /\ top \in 0 .. Maximum /\ mode \in Mode /\ bottom \in Layouts
    /\ image \in Images /\ status \in {"saved", "saving", "error"}
    /\ {coverSolo, rtl, settings, visible, startRequested, playing, effects, player.playing,
        player.armed, active} \subseteq BOOLEAN
    /\ recorded.page \in PageNo \cup {None}

\* Autoplay leaves only a screen that was shown: never one with a page on it that had not
\* loaded, whatever report, mode change or late effect came between.
AutoplayShowsEachPage ==
    [][(TimerFires /\ <<page', top'>> # <<page, top>>) => (image = "ready" /\ visible)]_vars

\* Autoplay never hangs, in the middle of a page taller than the screen neither: with nothing
\* left to run it is off, or its timer is set, or something on screen is still loading.
PlayingGoesOn ==
    (~effects /\ player.playing) => (player.armed \/ image = "loading")

\* With effects settled, autoplay is off at the end, in a hidden tab, behind the settings,
\* on a failed page and on an unsaved change.
AutoplayYields ==
    (~effects /\ player.playing) =>
        /\ visible /\ ~settings /\ status # "error" /\ image # "failed"
        /\ IF mode = "scroll" THEN top < Maximum ELSE NextOf(page) # None

\* What is recorded as read has been on screen: the page was shown and ready, and the book
\* counts as finished only when its last page was there, with all that was shown.
RecordsWhatWasShown ==
    [][recorded' # recorded =>
        LET shown == IF mode = "scroll" THEN view.position[2] ELSE Displayed(page)
        IN  /\ Current.activeReady /\ recorded'.page \in shown
            /\ recorded'.completed => \/ recorded.completed
                                      \/ Current.ready /\ LastPage \in shown]_vars

\* And nothing shown goes unrecorded: when effects have settled, the progress given to the
\* queue is the page being read, once it is ready, and the end of the book, once it is shown.
ShownIsRecorded ==
    (~effects /\ visible) =>
        IF mode = "scroll"
        THEN /\ active => recorded.page = ActiveAt(top)
             /\ image = "ready" /\ top = Maximum => recorded.completed
        ELSE image = "ready" =>
                 recorded.page = page /\ (LastPage \in Displayed(page) => recorded.completed)

\* Spreads: every page is in one group, of itself or of two pages in a row; a pair holds no
\* wide page nor the solo cover; and a page stands alone only if it is one of these, the last,
\* or before a wide one.
SpreadsFit ==
    \A cover \in BOOLEAN : \A p \in PageNo :
        LET g == Group(p, cover) IN
        /\ p \in g /\ \A q \in g : Group(q, cover) = g
        /\ \/ g \in {{p - 1, p}, {p, p + 1}} /\ g \cap Wide = {} /\ ~(cover /\ 0 \in g)
           \/ g = {p} /\ (p \in Wide \cup {LastPage} \/ (cover /\ p = 0) \/ p + 1 \in Wide)

\* Going on and back again returns to the same spread.
TurnsReturn ==
    (mode = "spread" /\ NextOf(page) # None) =>
        PreviousOf(NextOf(page)) = LeastOf(Displayed(page))

\* Autoplay goes on when it should and yields when it must.
Autoplay == PlayingGoesOn /\ AutoplayYields

\* What is shown: spreads are sound, turns lead back, and it is what the record says.
ShownPages == TypeOK /\ ShownIsRecorded /\ SpreadsFit /\ TurnsReturn

\* No step leaves or records a page that was not on screen.
StepsFollowTheScreen == AutoplayShowsEachPage /\ RecordsWhatWasShown
=============================================================================
