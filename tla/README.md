# A verification model of MangaCouch

MangaCouch is a self-hosted library for comic archives: a Python server over one
SQLite database and one directory of archives, with a download queue for three
remote sites, a browser client with a reader, and OPDS/Komga feeds. This
directory holds TLA+ models of its stateful parts, the TLC configurations that
check them on small instances, and proofs, checked by TLAPS, of properties that
should hold for every instance. Python files named below are in
`src/src/mangacouch/`, TypeScript ones in `src/web/src/`.

## 1. The system

### 1.1 Components

On the server:

| Component | State it keeps | Operations that change it | Hard behaviour | What makes it correct |
|---|---|---|---|---|
| Download queue (`downloads.py`) | `download_job` rows, `downloads/<id>.zip`, `working`, `hashed`, job locks, four worker threads | create, choose, search, approve, resume/recover, pause, skip, cancel; the phases inspect, submit, transfer, import, recover; settle, start, close | commands between any two steps of a worker; lost answers of a paid request; crash, power loss and orderly stop anywhere; retries | one worker per job, no stale write, at most one paid request per agreement and at the agreed price, imports only its own whole archive, every state is left again |
| Crash-safe import (`ingest.py`, `files.py`) | `import_job` rows, staged `.part` files, library files, `book` and `archive_manifest` rows, the operation lock | import_file, index, publish, commit, recover, clear staging, refresh availability | processes that share the library; crash between file and row; the user's own changes to library files; transient and permanent errors | a book's file held its content when it was registered, nothing is overwritten, a ready import is never lost, recovery leaves nothing behind |
| Removals (`removals.py`) | `removal` receipts, captured rows, the files that stay behind | preview, remove, finish_deletion, cancel_deletion, restore, purge | crash between unlink and receipt; the content is imported again meanwhile; stale previews | only a removed book's own unchanged file is deleted, a receipt says what is true, restore does not duplicate a book |
| Metadata, review, online (`database.py`, `review.py`, `online.py`) | metadata under a revision, candidates and their decisions, review events | edit, fill, apply an observation, decide, complete | an edit between an answer and the decision made on it | nothing is changed but what was seen; protected fields stay |
| Sidecars (`sidecars.py`) | `sidecar_sync` (baseline, observed, pending), the metadata file beside each archive | sync_one, resolve, retry | edits on both sides; crash between file and row | no edit of the file is overwritten without a conflict being recorded |
| Collections (`collections.py`) | ordered membership, revisions, rules | add, remove, move, rename, freeze, delete | concurrent edits from several devices; pages of one list read at different times | positions never clash; an edit does what the user saw |
| Organisation (`organization.py`) | personal state, bulk jobs and their frozen selections | save_personal, bulk submit, step, cancel | a long action over books that change meanwhile | a book is changed only as it was seen |
| Library scan (`scanning.py`) | `scan_run`, `scan_item`, `import_receipt`, the scan lock | start, step, pause, resume, retry | a pause seen late; sources deleted after import; partial failure of the cleanup | a source is deleted only when its content is in the library |
| Source checks (`source_checks.py`) | `source_check` rows with generations | enqueue, step, pause, resume | a check that ends after it was paused and queued again | an outcome is recorded for the generation it was made for |
| Authentication (`auth.py`) | passcode hash, sessions and their secrets, limiter | login, rotate, change passcode, logout | rotation by two requests at once; passcode changed during a login | no session outlives a passcode change |
| Source settings and HTTP client (`source_config.py`, `source_http.py`) | vault, settings revision, HTTP clients, cooldowns, slots | save, verify, stream, retire | two saves at once; a client retired while in use | rows, running client and revision agree |
| Image cache, snapshots, lifecycle, maintenance, uploads | disk entries, snapshot files, markers, wake-ups, reservations | get and evict; backup and restore; pass and wake; receive | crash during a restore; a wake during a pass | bounds hold; a half-restored database is never opened |
| The others (search, feeds, exports, duplicates, archives, preferences, HTTP handlers) | none across requests, or one row written in one transaction | | | |

In the browser:

| Component | State it keeps | Operations that change it | Hard behaviour | What makes it correct |
|---|---|---|---|---|
| Navigation and session (`App.tsx`, `navigation.ts`, `Login.tsx`) | numbered history entries, the route on screen, the trail, the guard, the session | link, Back, Forward, hashchange, refuse, lock, sign in and out, reload | the browser moves first and tells later; the guard answers after the next move | one place: address, page and trail agree; no page goes before its saves |
| Personal state (`personal.ts`, `BookView.tsx`) | the queue of edits, one request, its failures | edit, defer, flush, retry, clear, conflict | a save abandoned by the client still reaches the server; two devices | no accepted edit is forgotten or overwrites another's field |
| Metadata page (`Detail.tsx`, `TagEditor.tsx`, `Review*.tsx`, `SourceDetail.tsx`) | the form, its draft, the review's preview, requests under way | edit, save, review, decide, update from sources | answers after the page was left or the book reloaded | acts on what was seen; drafts stay until they are let go |
| Reader (`Reader.tsx`, `PagedView.tsx`, `ScrollView.tsx`, `readerInput.ts`, `readerLifecycle.ts`, `reading.ts`) | page, mode, view report, autoplay's timer, progress | turn, jump, scroll, mode, play, pause, hide | React's effects, timers and decoders between two renders | autoplay goes on and stops when it should; what is recorded was on screen |
| Page cache (`pages.ts`, `preload.ts`, `PageImage.tsx`) | tasks, waiters, cached images | request, abandon, retry, evict, warm up | requests shared and aborted in every order | every waiter is answered; no download is begun twice |
| Downloads page (`Downloads.tsx`, `polling.ts`, `downloadState.ts`) | the list, a poller, one operation, the text box | poll, turn, act, batch, submit | refreshes overtaken by actions | the list is what was asked for; actions mean what was seen |
| Library shelf (`Library.tsx`, `BookShelf.tsx`, `BulkActions.tsx`, filters) | the list, the selection, a dialog, an upload | query, turn, select, act, upload | lists answered out of order while other devices edit | an action reaches only what was asked for |
| Collections page, removal dialog, recycle bin (`Collections.tsx`, `RemovalDialog.tsx`, `RecycleBin.tsx`) | pages of a list, a draft name, previews | the operations of the server's parts | the same | the same |
| Settings and administration pages, search box, activity | forms sent once | | | |

### 1.2 How they interact

- `Downloads._import` hands its archive to `FileLibrary.import_file` with
  `consume=True`, then applies the observation (`online`), synchronises the
  sidecar and marks the job done. `Scanner._import` and the upload handler call
  the same `import_file`.
- `Downloads.start` takes the worker lock, runs `startup` (import recovery,
  stale spools) and `checks.recover`, settles the rows the last process left,
  and starts the worker threads and the source-check thread.
- Imports, removals, scans' cleanups and recoveries of all processes exclude
  each other by a file lock in the library root (`LibraryRoot.mutation`);
  removals and scans take a second one.
- A committed import enqueues a source check; edits of metadata mark the
  sidecar pending; the maintenance pass purges settled rows of all of them.
- Everything meets in one SQLite database: each `transaction()` is a
  `BEGIN IMMEDIATE ... COMMIT`, hence one atomic step of the models. A
  transaction not opened as `durable` survives the end of the process but not,
  by itself, the loss of power.
- The client knows the server by revisions: it sends the revision it saw, and a
  write under an old one is refused. Where a request can be repeated it
  carries an identifier the server remembers.
- The App asks the guard of the page on screen before it leaves it. For a
  book's page the guard waits for the personal state's saves and refuses while
  the editor has a draft.
- A removal takes books out of collections and lists; the shelf, the
  collections page and the reader learn it at their next request.

### 1.3 What is hard

- *Interleavings.* Four workers, the HTTP handlers, the source-check thread and
  other processes on the same library take turns between any two transactions.
  Most handlers read a row, talk to a site or a disk for seconds, and write
  afterwards.
- *Money.* The archive request of E-Hentai may charge. Its answer can be lost,
  and the process or the machine can stop while it is under way.
- *Files beside rows.* Archives, staged files, library files, sidecars and
  snapshots change outside the transactions, so a crash can separate them; hard
  links make two of them one file; and the user edits the library with other
  tools.
- *Stops.* Cancel, pause, close and crash arrive at every point and are seen at
  the next check only.
- *Time.* Retry times, cooldowns, grace periods and leases expire whenever the
  machine likes; the models let them expire at any moment.
- *Answers.* In the browser every request is answered late, refused, or lost,
  and the page that sent it may be gone. A request that was given up on may
  still be carried out.
- *Renders.* React runs effects after it has shown a state, and timers,
  decoders and history events come between.

Every such point is listed with its line under `hazards` in `PROJECT.json`,
together with the properties that watch it, or a note why none does.

## 2. Plan and status

The order was: money and archives first, then files, then what several devices
do to one book, then the pages. Done, in that order:

1. `Downloads`, with the abstract `Purchase`, and `PowerLoss`.
2. `Ingest`, with the abstract `Catalogue`.
3. `Removal`: dialog, receipts, deletion, recycle bin.
4. `Metadata`: review, online observations, sidecars, and the page that edits
   them; `Navigation`; `BookPage`, which composes the two.
5. `Progress`, `Collections`, `Shelf`, `DownloadsPage`, `Reader`, `PageCache`.
6. Proofs about `Downloads`, `PowerLoss`, `Ingest`, `Removal`, `Navigation`,
   `BookPage`, `Shelf`, `DownloadsPage`, `Collections`, `PageCache`, `Reader` and
   `Progress`.

Left, in order of worth: the library scan (composed with the import as
`Catalogue` promises it), the queue of source checks, authentication, source
settings, lifecycle and restore. Of the runs' properties only the liveness ones are
without a theorem.
Section 7 says what stands in the way.

## 3. The modules

| Module | Models | State ↔ code |
|---|---|---|
| `Downloads` | `downloads.py`, and of `source_adapters.py` and `source_http.py` the answers a phase can get | `row`: `download_job`; `file`: `downloads/<id>.zip`; `working`: `Downloads.working`; `locked`: the job locks of `_cleanup` and cancel; `pc`, `snap`, `heard`, `err`, `verdict`: a worker's place and its local variables; `proc`: the server |
| `Purchase` | abstract: what the queue promises about money | agreement, doubt, requests sent, archives the site holds |
| `PowerLoss` | `Downloads` on a machine that can lose its last transactions (`database.py`, `synchronous=NORMAL`) | `durable`: what the disk has of rows and books |
| `Ingest` | `ingest.py`, `publish_file` and `mutation` of `files.py`, `Removals._remove` as far as a record goes | `job`: `import_job`; `stage`: `<job>.part`; `disk`: library files; `book`: `book` and `archive_manifest`; `holder`: the operation lock; `op`: an operation's place and local variables |
| `Catalogue` | abstract: what an import promises | outcome of each import, contents with a book |
| `Removal` | `removals.py`, `RemovalDialog.tsx`, `RecycleBin.tsx`, the round of `maintenance.py` that finishes deletions | `receipts`: `removal` rows with their items; `file`, `stamp`: what is at a content's path; `lock`: the mutation lock; `tasks`: requests on the server; `dialog`: the dialog's step, batches and tokens |
| `Metadata` | `Detail.tsx`, `TagEditor.tsx`, `ReviewPanel.tsx` and its parts, `SourceDetail.tsx`; `review.py`, `online.py`, `sidecars.py`, `write_metadata` | `meta`, `rev`: the book's metadata; `cand`: candidates and decisions; `file`, `base`, `pending`, `sync`: the sidecar, its baseline, conflict and running sync; `form`, `tagging`, `dialog`, `preview`, `tasks`: the page and its requests |
| `Navigation` | `App.tsx`, `navigation.ts`, `Login.tsx`, `Modal.tsx` | `entries`, `index`, `events`, `going`: the browser; `active`, `position`, `trail`: the App; `asks`: questions to the guard; `auth`: the session |
| `BookPage` | `Navigation` with its first book's page in full: `M == INSTANCE Metadata`; each action of one is joined with the step it means for the other | both |
| `Progress` | `personal.ts`, `BookView.tsx`, `save_personal` | `pending`, `deferred`, `call`, `srv`, `broken`: `PersonalQueue`; `row`, `revision`: the server's; `late`: saves the browser gave up on |
| `Collections` | `Collections.tsx`, `collections.py` | `place`: positions with their gaps; `coll`: the pages on screen; `task`: the one task |
| `Shelf` | `Library.tsx`, `BookShelf.tsx`, `BulkActions.tsx`, `LibraryFilters.tsx`, `LibraryControls.tsx`, the bulk part of `organization.py` | `requests`, `asked`: the list's requests; `books`, `total`: the screen; `all`, `selected`, `excluded`: the selection; `jobs`, `posts`, `bulk`: actions |
| `DownloadsPage` | `Downloads.tsx`, `polling.ts`, `downloadState.ts` over an abstract queue | `run`, `queued`, `timer`: the poller; `jobs`, `scope`, `pages`, `cursor`, `pinned`: the list; `op`: the operation of the user |
| `Ordering` | the order of the rows of a list and a part of it, for `Shelf`, `DownloadsPage`, `PageCache` and `Metadata`; positions of a list, for `Collections` and `Removal` | |
| `Reader` | `Reader.tsx`, `PagedView.tsx`, `ScrollView.tsx`, `readerInput.ts`, `readerLifecycle.ts`, `reading.ts` | `page`, `mode`, `top`, `image`, `view`: the stage; `playing`, `player`, `given`: autoplay; `effects`: a render whose effects have not run |
| `PageCache` | `pages.ts`, `preload.ts`, `PageImage.tsx`, the reader's own request | `pages`: tasks, cache and marks of `Pages`; `want`: who waits for which page; `warming`: the warm-up loop |
| `MC...` | instances for TLC | symmetry, sizes, and the plans of `BookPage` |
| `DownloadsProofs`, `LibraryProofs`, `BookPageProofs`, `ShelfProofs`, `ListingProofs`, `PageCacheProofs`, `ReadingProofs`, `OrderingProofs` | theorems; `LibraryProofs` extends `Ingest` and `Removal` and uses `OrderingProofs`, `ListingProofs` extends `DownloadsPage` and `Collections`, `ReadingProofs` extends `Reader` and `Progress` | |

On the server an action is one transaction, one exchange with a site, or one
file operation; in the browser it is one event handler, timer, or answer,
together with the render and the effects it causes, except in `Reader`, where
effects are a step of their own because timers come before them. The handlers of
a phase are sequences of actions: `_submit`, for instance, is
`SubmitQuoted` (price asked again) → `SubmitCheck` (cancel check) → `SubmitMark`
(the row says "uncertain") → `PostAnswered`, `PostRefused` or `PostLost` →
`SubmitLinked` → `SubmitRecheck` → `SubmitDone`. `Update` is `_update` with its
rule for jobs being stopped (`Landing`), `Act` the common end of `_act`.
Operators under a comment "Mutant:" or "Mutation:" are not part of the model:
they are the faulty variants listed in `PROJECT.json` that show each property
can fail. Variables marked "history" are read by properties only.

### 3.1 Abstractions in Downloads

- A quote is one price, that of the mode that would be selected; titles, search
  ranking and candidates are left out. A search offers both sites when the job
  was submitted with an nHentai URL.
- An archive is absent, partial, whole, or left over from what the job stood for
  before; a whole one may be the library's own file (hard link). Archives of
  different galleries are taken to differ in size, so a leftover is not whole
  for its successor. Writing over a linked archive makes it an ordinary
  partial file: the model reports the write (`LinkedArchiveIsOnlyRemoved`) and
  does not follow the damage into the book.
- Retry times come at any moment (`Due`). The resume command's wait for a source
  cooldown is left out: it only delays.
- `import_file` is one step. `Ingest` refines that step: a crash inside it whose
  import is later published by recovery is here `ImportPublished` followed by a
  crash.
- A worker may claim a job after the stop flag is set, because the flag is
  tested before the transaction.
- Restoring a snapshot, which rewrites job states, is not part of the model.
- History variables: `consent` and `sent` (what the user agreed to and what was
  then requested), `page` (the price the user's browser shows). Nothing in the
  code reads them; `page.fresh` stands for the revision sent with `approve`.

### 3.2 Abstractions in Ingest

- A file is the content it holds; `Junk` is anything that is not one of the
  archives, partial copies included. A stamp (`st_mtime_ns`, size, inode) is
  represented by what the code learns from it: a change by the user takes the
  path out of the operation's `known` set and makes a book's manifest stale.
- The check of the stage (`CheckStage`), its new stamp (`Restamp`), the link
  (`Link`) or the copy and its renaming (`CopyStage`, `RenameCopy`) are steps of
  their own, with the user's changes between them. The sweep of the staging
  directory is one step, and so is a removal. The temporary file of the copy is
  `op.copy`; what is left of it after a crash is a hazard without a property.
- A staged link whose source is written over becomes `Junk` (`Spoil`); that the
  published target is then changed too is a `Touch` of its own. When it happens
  after the check and before the link (`spoiled`), the importer publishes junk:
  `PublicationIsSafe` excepts this one window. `Verify` looks at the target again
  and fails the import, unless the stage was hashed and got its stamp after it
  was written over (`Restamp`); then the target is believed, the book is
  registered, and it counts as `slipped`.
- `FailForNow` may strike at any step: it stands for an unavailable root, a full
  disk, and SQLite errors. `FailForGood` strikes where the code raises
  `ContentChanged`, `FileNotFoundError` or an archive error.
- `availability` is one step; its result is not stored in the model.
- `slipped` names the books whose file, or the stage it was made from, the user
  changed between the importer's last check of it and the commit. The code's stamp for the manifest is read in
  that window (`ingest.py:463`), so for these alone the manifest may vouch for
  another content.

### 3.3 Abstractions in the other modules

- *Removal.* A content is told by the path of its archive. A file put there by
  hand is "other" and never registered; sidecar files are not tracked; captured
  metadata is the number of edits it has seen. A scan is whether one is active.
  A restore brings back any of a receipt's books (`Restore(id, S)`). A deletion
  may fail at its check, at each unlink, and at its last write (`DeletionFails`).
  The recycle bin's paging is left out, and so are the expiry of captured records
  (`removals.py:366`, `:629`) and their purge (`:410`), which end what can be
  restored and take nothing else.
- *Metadata.* One title with its protection, and tags; other devices set the
  title, and no tags or all. A source offers one title. BookView's load and its
  answer are one step. The review's checks of availability and size are left
  out, and the dialogs cover the links of the page, so a move under an open
  dialog comes from the browser. A conflict is resolved field by field
  (`Resolved`). A sync that meets an error ends without a record while it replaces
  the file (`BrokenOff`); one that fails earlier only writes `last_error`, which
  nothing modelled reads, and is left out. `_conflict` reads the file again before
  it records the conflict (`sidecars.py:95`): the two reads are one here.
- *Navigation.* Routes are the library, a book and its reader. A page's saves and
  its draft are what `Metadata` and `Progress` have; alone, `Navigation` lets
  them begin and end at any time. Two histories restrict what is said of the
  address: `numbered`, that the numbers in the history entries have always been
  theirs, and `calm`, that the browser and the App took turns, the user moving
  only when no event is unhandled and no `history.go()` under way. A sign-out
  carries along whether another was under way when it was asked for, as
  `logout()`'s closure does. `advanceTrail()` keeps the last 62 routes of a longer
  trail and `restoreTrail()` drops one of more than 64: both limits are left out, so
  `TrailLeads` and its theorem speak of trails that never grow beyond them.
- *Progress.* An edit is a page, completion, or a rating; timeouts, retries and
  delays come at any moment.
- *Collections.* A request's turn on the server and its answer are one step,
  since the page does one thing at a time; others act before or after. They edit
  the list, delete the collection, remove books from the library and restore
  them, at any place of the list.
- *Shelf.* A query finds all books or the unread ones. Leaving the page and coming back
  is one step. Of the bulk actions the model has "completed", whose books carry the
  revision they are expected at. `add_collection` (`organization.py:268`) compares no
  revision of a book, so `ReachesWhatWasAsked` and `ChangesWhatWasSeen` say nothing of
  it, and the kinds of sources and removals have checks of their own. The identifier
  by which the server knows a repeated request is left out: the dialog draws a new
  one for each.
- *DownloadsPage.* A job's state is what decides the list it is on and the
  commands it allows; workers change it at any time. `ListHolds` speaks of a page
  at rest (`Settled`): nothing under way, the last refresh did not fail, the tab is
  shown, and for the pinned job no banner tells of an action's error (`error`).
  Section 6 says why each is needed.
- *Reader.* Images become ready or fail at any time (`PageCache` says when). The
  column of scroll mode is a layout of rows, each page's with its bottom edge
  (`bottom`), under a viewport at an offset (`top`). Autoplay moves it by `Step`, less than a
  viewport, which may leave the same tall page on screen; the report then differs
  by `advances` alone. What is on screen, which page is being read, and where
  the column ends follow from the offset. `activeReady`, which recording goes by, is
  apart from `ready`, which autoplay waits for. Scrolling to other rows may find
  their images in any state that fits. The layout is fixed: a resize, another fit, gaps between rows,
  and rows measured late are left out, as are zoom, panning, momentum that goes
  on after autoplay's next start, and the column's first report, made before its
  position is set. What a spread takes for wide is a row lower than `Width`.
  The playback effect depends on `error`, `settings` and `status` one by one
  (`Reader.tsx:160-170`); `given` holds what they come to. So the code may set the
  timer again for the old report when one of them changes while a render is
  pending; the render replaces that timer before its two seconds or more are over.
- *PageCache.* A page is its size; object URLs and progress of a download are
  left out.

## 4. The runs

| Run | Bounds | Shows |
|---|---|---|
| `downloads_safety` | one job, two workers, prices free and paid, one retry, all commands, errors and faults | ownership (`Ownership`, `Serviceable`), payment (`PaidAsAgreed`), archives and stops (`Archives`, `EndsAsTold`); `Downloads` implements `Purchase` (`KeepsPurchase`) |
| `downloads_live` | one job, two workers, crash and stop, two retryable errors | pauses settle, workers let go, shutdown completes (`PausesEnd`), due jobs are served (`QueuedIsServed`) |
| `power_kept` | one worker, up to four transactions lost | what survives a power loss (`KeptThroughOutage`) |
| `ingest` | two imports, two processes, two contents, one shelf beside the managed paths, two user changes | publication, registration and recovery are safe; `Ingest` implements `Catalogue` |
| `removal` | three contents, batches of two, four acts, two edits, one fault | a file goes only as confirmed and receipts account for it (`OnlyAsConfirmed`); members exist and return to their places (`CollectionHolds`); a deletion ends (`DeletionEnds`) |
| `book_page` | two books, two titles, two tags, one source; by plans of up to three moves, two acts, three acts of others and one fault, see below | the place is one (`PageIsPlace`); no page goes before its saves, by a move or by a sign-out of its session (`SavesFirst`); decisions are about what was seen (`ActsOnWhatWasSeen`); drafts stay (`DraftStays`); the metadata file keeps what others wrote (`FileKept`) |
| `progress` | two devices, two edits, one failure, one opening | no edit is forgotten or overwritten (`KeepsEdits`); saving and leaving end (`SavingSettles`) |
| `collections` | three books, pages of two, two names, three acts, two edits, one fault | the list is one snapshot, positions never clash (`ListIsSound`); an edit does what was on screen (`EditsAsSeen`) |
| `shelf` | three books, pages of two, four commands, one edit, one fault | the list answers the newest query (`ShelfIsCurrent`); actions on all results reach what was asked (`ReachesWhatWasAsked`) and change what was seen (`ChangesWhatWasSeen`) |
| `downloads_page` | two jobs, pages of one, two steps of workers, three commands, one fault (7.8 million states) | the list is not behind the user's own actions and has the pinned job (`ListHolds`); polling goes on (`PollGoesOn`); actions mean what was seen (`ActsAsSeen`) |
| `reader` | three pages, each of one row or three, a viewport of two, autoplay by one row, three steps | autoplay's context and timer (`Autoplay`); what is recorded was on screen (`ShownPages`); a step forward shows what follows the screen (`StepsFollowTheScreen`) |
| `page_cache` | four pages, a cache of three, one page larger than the budget, three turns, two faults | waiters have a task (`RequestsServed`); a quiet reader shows its page (`QuietMeansShown`); a download under way is kept (`LoadsCarryOver`) |

Why the bounds are enough:

- *One job* (`downloads_safety`). Rows of different jobs meet only in `Claim` (the
  oldest due one first) and in `working`; `DownloadsQueue.cfg` has a second job
  for the order of claims, and the theorems hold for every number of jobs.
  *Two workers* race for the one job; a third would do what the second does.
  The job is an *nHentai* one, which may be fetched directly, or searched and
  redirected to a paid gallery: both sites' paths are in one instance. *One
  retry* gives a retried, a last and an exhausted attempt. *Four lost
  transactions* are as many as lie between the agreement and the link
  (approve, claim, mark, link).
- *Ingest*: two processes are an import and a recovery, or two recoveries, around
  one lock; two imports are the same content twice or two contents meeting in
  one removal; two user changes are a change and its reversal, or one on each
  side of a publication.
- *Removal*: three contents in batches of two give a second batch, whose token
  the first can make stale; four acts are a removal, its repetition, a restore
  and a new import.
- *book_page*: the product of every kind of trouble is out of reach, so each
  behaviour uses one plan of `MCPlans`, a bound for each counter: moves with
  links, locks and reloads (three moves, or two with an act of the editor), acts
  with the acts of others, acts with faults, both once, and syncs among others
  and crashes. A second source is in `BookPageSources.cfg`.
- *Pages*: two devices, or one and the server's workers, are what it takes to
  make a seen state stale; pages of one or two with one book more give a next
  page; one fault is a lost answer or a failed request at any place, and a
  second only repeats the first's recovery, except in the page cache, where two
  failures make a retry fail.
- Deadlock is checked in the server's runs but `removal`. There, and in the
  browser's, users and other devices have a bounded number of acts, and the
  system may come to rest when they are spent: nothing else runs by itself.

*Fairness.* `downloads_live`: worker threads go on (weak, for `Work` and `Claim`:
they are operating-system threads in a loop), a request that holds a job lock
removes its files, retry times come, and start and close run to their end. A
worker waiting for a job lock in `_cleanup` gets it although cancels take it
again and again: strong fairness for `FinishClean` and `ImportTidied`, which an
unfair lock does not guarantee in theory but the gap between two requests does
in practice. `progress`: a request ends, by its answer or by its timeout,
the queue's continuations and timers run, and the App goes on when the guard has
answered, each for its device. `removal`: a task on the server goes on, and the
hourly round comes (`maintenance.py`). `Reader` states that effects run and the
timer fires. Nothing makes a user act, a site answer well, or a process stop;
the other modules have no fairness, and their progress is stated as what must be
true when nothing is left to run (`QuietMeansShown`, `PollGoesOn`).

`PowerLoss`: an outage takes back the transactions since the last one that
reached the disk, in order, and leaves files and the site as they are. The
properties checked there are those of `Downloads` that should survive that;
those about the agreement in the very request (`KeepsPurchase`) cannot, see
section 6.

## 5. What is proved

For every value of the constants, by TLAPS; `theorems` in `PROJECT.json` lists
them. Assumptions are those stated in the modules (`CountAssumption`,
`PriceAssumption`, `SettingAssumption` in `Downloads`; `CountAssumption`,
`NamesAssumption` in `Ingest`; one such assumption in each of the others); they
say that numbers are numbers and that the special values are none of the
ordinary ones. No finiteness is assumed of workers, prices, processes, contents
or paths.

*Downloads* (`DownloadsProofs`). `TypeOK` and `SingleOwner` are
inductive as they stand: `working` is exactly the set of owned jobs, so a claim,
which looks at `working` only, cannot give a job a second owner. Everything else
rests on `TypeOK /\ SingleOwner /\ PayInv /\ QueueInv`. `PayInv` says what a phase
means (a job to be submitted has an agreement nothing was sent for), what a worker
knows at each point (the row it works on is in a running or stopping state, and
its copy of the details is the row's), and that the page's price is the row's
while its revision is current. The second is the heart: commands that would
change the details refuse running rows, so nothing changes them under the worker;
that is `NoLostUpdate`, and without it neither `OneRequestPerConsent` nor
`RequestAtAgreedPrice` can be carried through `SubmitMark`. `SingleOwner` is what
keeps another worker from doing so. `QueueInv` says which state, phase, secret and
archive of a job go together, and how far the worker at each place has brought
them. The two are inductive only jointly: which phase a failed handler leaves
behind decides what was agreed, and whether an agreement was used decides in which
phase a job can be taken up again. From them follow ownership, `Serviceable`,
`Archives`, the action property `EndsAsTold` (the last writes of a worker respect
what was asked meanwhile), and step by step the refinement of `Purchase`. For
`PowerLoss` the invariant also says (`PowerInv`) that the rows on disk are rows whose
fields fit together, with their book where they say done (`DurableOK`), and that no
lock outlives the process; so after an outage there is nothing a restart could not
serve.

*Ingest* (`LibraryProofs`). `IInv` says that only the lock's holder is at work (`Exclusive`), what a
ready row has recorded (`JobOK`), and for the operation at work: the state its
row is in (`RowOK`), where its target is (`TargetOK`), what its stamps and
checks say of the files (`StampsOK`), that a recovery still has before it every
row it must settle (`TodoOK`), and what a handler knows of its error
(`ErrorOK`). Exclusion makes each step a matter of one actor: lemma `Frame`
passes the invariant on for the others, who are idle. The user's changes are the
only interference, and they are the reason `StampsOK` speaks of `known` and
`meddled`. From `IInv` follow the four invariants, the two action properties,
and the refinement of `Catalogue` (each action maps to one of its actions or to
a stutter). `RemovedStaysRemoved` is about the imports that had begun when a book was
removed, at work, waiting for a recovery, or given up by a crashed process. That none
is ready for the book is the guard of `RemoveBook` (`removals.py:180`); `RemovalLasts`
says that it stays so: a row that was copying then is settled without
becoming ready unless its importer is still at work, and that importer holds the
lock, so a removal cannot have come in between.

*Removal* (`LibraryProofs`). `RemovalInv` says: the lock is held by at most one
deletion, whose receipt is pending, and what it has left is exactly what its
receipt does not record as deleted, all of it of books that are not registered
(`TasksOK`); a pending receipt asked for deletion and was not stopped, and a
finished one has nothing left (`ReceiptsOK`); a file unlinked for a receipt is
one of its items, recorded as deleted unless the deletion is unfinished or was
stopped (`TakenOK`). The lock is what keeps an import from registering the
content between the check and the unlink. Nothing is assumed of the dialog:
`OnlyAsConfirmed` holds whatever requests reach the server. `CollectionHolds` needs
`HoldsInv` besides. A receipt keeps the order of before, and as long as nothing else has
changed the collection the list is that order without the receipt's books
(`ReceiptFits`). What remains of a list without some of its members is again such a
list, of its own (`Remains`, `RankedRemains`); and when the books that are missing are
put back from the first to the last, each finds before it exactly what was before it,
so its recorded position is the place for it (`RemainsGrows`), as long as the positions
had no gaps (`WithoutGaps`; section 6 has what happens otherwise). This is why `restore()`
sorts by position before it inserts. The rest of `HoldsInv` types the library
(`LibraryOK`, `PathsOK`), the dialog and the requests (`RequestsOK`) and the
receipts (`KeptOK`).

*BookPage* (`BookPageProofs`). A move that leaves a page is let go by an answer of
its guard; `LeaveInv` says that a question still alive was asked of the page on
screen, so the saves it waited for are that page's (`SavesFirst`, of moves within a
session). A sign-out waits for the same guard; excepted is one asked for before a lock,
which is answered in the next session (section 6). `BookPage` adds
steps that leave the App alone or are one of its own, so such theorems carry over.
`FileInv` says that a sync about to publish found the file missing or as last
agreed, unless another program has written it since (`raced`). `PlaceInv` is the
place of `PlaceIsOne`: the numbers of the entries, the trail, and with `InTurn` how
far an unhandled event or a `history.go()` still is from the page on screen; the
page mounted is the one the App has active. `SeenInv` says of
every copy of the book on screen and every request under way that a copy with the
library's revision is the library's copy, which is why a request taken under its
revision does what was seen (`ActsOnWhatWasSeen`). `DraftInv` says that the App's
guard knows of a draft exactly when the editor has one (`DraftStays`). `TypesInv`
types what the library, the metadata file, the form and the requests hold: a form's
tags are made from a set and edited by place, what comes back from a conflict or a
sync was the library's or the file's. With `PlaceInv` and `DraftInv` it gives
`PageIsPlace`, invariant and types together.

*Shelf* (`ShelfProofs`): `IInv == RowOK /\ SeenOK /\ JobsOK`. No other device's
revision is newer than the row's; a book on screen, in a request, a dialog or a
post carries the revision it was seen at; and what a bulk job expects of its books
is what was seen, of all results no more than were counted and none that was
unticked. `ShelfIsCurrent` needs `Current` besides: the request that is not dropped is the
newest, for the query, page and version the shelf stands at, and what it has read
holds no book older than the actions the user saw through; and those actions wrote
what the page believes they wrote.

*DownloadsPage* (`ListingProofs`). `PollInv` relates the poller's timer, its
run and who waits; `LinksInv` the text box and the submission. `SeenInv` adds that
the rows the page, a run or an operation holds are rows as the server sent them,
which gives `ActsAsSeen`. `HoldInv` adds (`FreshOK`) that no list is behind the user's own actions
but one that a run will still replace, or that a failure, a queued refresh or a
hidden tab accounts for: an action queues its refresh behind a run already under
way, and the answer that run brings is not the last. `PinOK` says the same of
the pinned job (`ListHolds`).

*Collections* (`ListingProofs`). `Ranked` puts the books of a collection in order by how
many stand no later; the lemmas of `OrderingProofs` say that this is the one list
of its members in the order of their positions (`OrderIsRanked`), that numbering a list
gives positions whose list it is (`IndexedLists`), and that taking a book out,
appending one and putting one before another each do to the positions what they do
to the list. The hard one is `Renumbered`, which rewrites only the rows that do not
hold their index: no two of the rows clash because every row ends at its index.
`CollectionInv` adds to soundness of the table (`ServerOK`) what each answer the page
holds is worth: the first books of the list that its revision or its token names
(`PageOK`), so that the next page continues it exactly when the server still has that
revision and that token (`FollowingPageIs`). `Goes` says that an edit on its way is
of the page on screen and asks for what that page allowed, and what the answers read
so far are worth; `AckOK` that no page at rest is older than an answered edit, since
a load ends at the revision of the moment. `EditsAsSeen` then needs that an edit of a list does the same
to a beginning of it (`InsertLeads`, `MinusLeads`): the revision check makes the
screen a beginning of the server's list, and a move to the end is offered only when
the beginning is all of it. Of the books that are not loaded it says which
they are, not in what order they follow.

*PageCache* (`PageCacheProofs`). `Get`, `Cancel`, `Pump` and the others are functions
of the state of `Pages`; a lemma about each says that it keeps that state `Sound` (one
task a page, a requester waits at one page, a task being given up has no waiter, two
downloads at most and one of them for warm-up) and `Served` (what the reader waits
for is started while there is room), what it changes of who waits where, and that
it carries on every download under way (`Carries`). The effects of a page turn are
five of these functions in a row. `Inv` adds that what `Pages` has the requesters
wait for is what they wait for (`Ties`), and what the image slot, a rapid flip and
the loop say of each other. `Lasts`, an action property, says when a download under way
may stop: when it ends, or has been aborted or left for a while. All three properties of the run
follow.

*Reader* (`ReadingProofs`), for any layout of the column and any step of at most a
viewport. That every page has one group, and which, follows from the
recursion of `Begins`; that this recursion has a solution is itself proved, by the
least page without one (`BeginsTo`). `IInv` relates what is rendered, the view's
report of it, the context last given to autoplay (`given`) and the one autoplay
holds. With the effects run all agree (`Settled`). In between, a report of the
stage on screen is never more hopeful than the screen (`Fresh`); a timer that is set
is for the page on screen (`OnTime`); one that has fired has used up its context,
and the effects still to run bring one with another key, or the timer would not be
set again (`Pending`). The column is the hard case: its stage stays the same while
it scrolls, so the old report still counts (`Stale`), and `StaleOK` says that it
can do no more than stop autoplay. A step that stays within one tall page is told by
`advances`; one that moves nothing is at the end of the column, where the report says
so (`EndKnown`), and no timer is set. `PlayingGoesOn` and `AutoplayYields` are these
facts with no effects left; `StepsFollowTheScreen` takes `OnTime` for the timer and
`ViewOK` for the record.

*Progress* (`ReadingProofs`). `QueueInv` says what a request is worth. What was
received from the server is the row as it was at its revision (`Seen`). A save
under way stands for the front part of the queue that its count says, which stays
the front part while edits are pushed behind it (`CallsGrow`); its body differs from
the state it was computed from only in the fields of those edits (`Touches`), and
once committed they are stored. So an answer removes from the queue only what is
stored, and a save whose revision is still the row's was computed from the row it
replaces, however late it arrives and whoever has given up on it (`Safe`); a commit
makes a new revision, and every older save harmless. That nothing runs and nothing
failed means an empty queue (`Places`), which is why the flush before a close sends
everything the view still held (`CleanupSends`). What a list of edits makes of a
state, and which of them are pushed, are recursive functions; that they have values
is proved by induction on the length (`StepsExist`). The effect of a step on the
other devices is one lemma (`OthersKeep`).

*Ordering.* The lists of the shelf and of the downloads, what the page cache keeps and
the tags of a form are built by `InOrder`, the ascending enumeration of a set of
numbers; that such a set has one is proved in `OrderingProofs` by well-founded
induction on its largest member. A list kept as positions is `Ranked`; its lemmas
are those of `Collections` and `Removal` above.

*Only model-checked:* the liveness properties (`PausesEnd`, `QueuedIsServed`,
`SavingSettles`, `DeletionEnds`). Liveness under fairness is out of the prover's
reach. So are the library's operators on sequences that take an operator
(`SelectSeq`, `SortSeq`, `SetToSortSeq`), whose definitions the provers cannot
expand, and induction theorems with an operator parameter; the modules proved
about use enumerations of sets instead, and induction over sets of numbers. No
module that is proved about declares a recursive operator.

## 6. Where the code and its words part

No run of `PROJECT.json` shows these; the configurations named are kept beside
the runs, and TLC finds each property they name violated. Each property quotes
the line it is taken from.

`DownloadsGaps.cfg`:

- `LinkedArchiveIsOnlyRemoved`: an archive is the library's own file, by hard
  link, from the commit of its import until `_cleanup` (`downloads.py:741`). If
  the cleanup is missed, a new search or addition of that gallery truncates the
  book's file (`:661`), against `ingest.py:296-297`.
- `CancellingIsOwned`: a cancel between `_finish`'s read and write is lost and the
  job stays "cancelling" with no worker (`downloads.py:787` against `:13`).
- `TerminalIsFinal`: a shutdown seen after the handler turns a job just cancelled
  or skipped into a paused one (`:820` against `:14`).
- `ImportIsInspected`: a crash between saving a reusable link and saving the
  inspection sends the job to an import that fails each time (`:540`, `:713`).
- `NHNeverInAttention`, `CommittedImportWins`: the code is more cautious (`:851`
  against `:18-19`), or more obedient (`:749`, `:773` against `:753`), than its
  comments say.

`PowerLossBoundary.cfg`, `DurableBoundary`: the "durable boundary" before a paid
request (`downloads.py:574`) is not durable against power loss, because its
transaction is not opened with `durable=True` (`:577`). After an outage the job
is paused instead of awaiting attention.

`NavigationGaps.cfg`:

- `BlockedReturns`: after a reload the App numbers its entry anew, and
  `history.go(historyPosition.current - position)` (`App.tsx:130`) does not
  return to the page that refused the move, which
  `src/web/tests/browser/app.spec.ts:467` expects without a reload. Without one it
  fails for a user who follows a link while that `history.go()` is under way:
  the browser applies it to the new entry.
- `DraftKept`: the guard looks at the draft before it waits for the saves
  (`BookView.tsx:141`), so a draft begun while they are under way goes with the
  page, against the words of `App.tsx:134`.

`BookPageGaps.cfg`:

- `TypingSurvivesSaving`: what is typed while a save is under way is replaced by
  the saved form (`Detail.tsx:150`).
- `CopyGoesForward`: `update()` (`BookView.tsx:228`) compares no revisions, so a
  late answer can put an older copy on screen.

`PageCacheEviction.cfg`, `ScreenKept`: the warm-up loads the page before the
current one even when the cache holds enough (`preload.ts`: only pages past the
next are held back), and with one more page in the cache, such as a download
left over from the last turn, the byte budget is exceeded and the oldest entry,
the page on screen, is evicted (`pages.ts:241-243`). The image stays shown; the
cost is a second download when the page is shown anew.

Three more are named in the configurations they belong to: `FailureIsTold`
(`Shelf.cfg`: an import clears the list's error, `Library.tsx:173`, and the books
of the old query stay with no word), `RestoredAnyhow` (`Removal.cfg`: a book is put back
by its recorded position, `removals.py:683`, as if positions were places in the
list, which they are not after others left, by the comment at
`collections.py:276`; `RestoredInPlace` is the part that holds, of collections
without gaps), `FlushBeforeCloseSends` (`ProgressLive.cfg`: reading
progress flushed just before the close is sent only if no other save is under
way, `personal.ts:70` and the comment at `BookView.tsx:150`).

`DownloadsQueue.cfg`, `ProgressSafety.cfg`, `ProgressLive.cfg`, `Navigation.cfg` and
`BookPageSources.cfg` hold: they check finer or larger instances than the runs.
`QueuedIsServedInTurn` (`DownloadsQueue.cfg`) excepts one behaviour, which the
code really has: the oldest due job always goes first, so a user who adds the
same finished older job again and again keeps the younger ones waiting.

What the models show besides, and no comment of the source denies:

- *Metadata.* The refresh after a save (`Detail.tsx:178`) may bring another
  device's change under the old form, and a second save then reverts it without
  a notice. A tag edited by its index (`TagEditor.tsx:83`) replaces another tag
  when the form's tags were sorted anew meanwhile. Discard stays enabled during
  a save. What another program writes between a sync's look at the file and its
  write is lost: the window `raced` stands for. A crash between
  publication and record, followed by another edit, reports a conflict where
  there is none (`sidecars.py:188-189`).
- *Navigation.* A lock while the guard is asked leaves an address that is not the
  route on screen, and its link then does nothing; so does a move made while a
  `history.go()` is under way. `history.go` past the end
  does nothing. A sign-out asked for before a lock is answered in the session
  entered since and ends it, whatever that session's saves (`logout()`): the
  exception in `SavesFirst`. The
  Back button does nothing when two neighbours of the trail are the same book
  and its reader.
- *Downloads page.* What is typed during a submission is overwritten by what is
  left of it; Next pressed twice turns to one page twice; a pin set on one scope
  is lost on the other; after a change of scope during an action the old list
  stays, with its buttons. A change of scope aborts the refresh a submission waits
  for; if that submission then ends in a hidden tab, the list is behind it until
  the tab is shown. A search that was refused pins its job and refreshes nothing,
  so the list may lack the pinned job; the banner tells of the refusal only.
- *Shelf.* Books ticked while a new list loads are counted but are not in the
  dialog's selection; a second action from one open dialog meets the first's
  revisions and is refused; a retry after a lost answer is a new action; an
  action on all results reaches more books than the dialog counts when an
  unticked one leaves the results.
- *Collections.* A reload after an own edit overwrites a name being typed; clicks
  during another task are ignored silently; freeze states no expected members
  and may freeze others than shown; a creation repeated after a lost answer
  makes two.
- *Removal.* The second batch's token is stale when the first removed books of a
  shared collection, so such a removal ends only by opening the dialog again.
  After a crash between unlink and record, and a cancel, the receipt says
  "kept" of a file that is gone. After a lost answer, changing the choice to
  delete files makes every repetition a conflict.

## 7. What is not modelled

`PROJECT.json` lists every component with its status and the reason. In short:

- *Library scan.* A faithful model needs the steps of `import_file` inside each
  item; with `Catalogue` in their place its runs, items, pauses, receipts and
  cleanups are still as large as the removals, and it is the first thing to add.
  Its hazard (`scanning.py:175`) is listed without a property.
- *Source checks, authentication, source settings.* Only what other parts see of
  them is modelled: observations by others in `Metadata`, sessions that are
  accepted, expire and end in `Navigation`, answers of a site in `Downloads`.
- *Snapshots and lifecycle* run while nothing else does. *Image cache, uploads,
  exports, maintenance's wake-ups* cost time or space and change no row
  modelled here; `Removal` and `Shelf` have the hourly round and an upload's
  outcome.
- *Text and numbers*: search, translations, parsing of sources and archives,
  perceptual hashes. *Rendering*: feeds, layout, HTTP routing. *Single
  transactions without a protocol*: preferences, settings forms. *Build
  scripts and the browser extension.*

## 8. Running the checks

`tlc -config Ingest.cfg MCIngest.tla` and so on check a run; `PROJECT.json` names
the module of each, and a configuration kept beside the runs goes with the MC
module of its prefix. `tlapm LibraryProofs.tla` checks a module of proofs. The
longest runs (`downloads_page`, `removal`, `book_page`, `downloads_safety`) take one
to three minutes with two workers.
