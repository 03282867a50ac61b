# A formal model of airbg (Kanarche)

TLA+ specifications, TLC model checks and TLAPS proofs of the air-quality
service: the Go daemon (`cmd/`, `internal/`) that collects sensor readings into
PostgreSQL/TimescaleDB, rolls them up by the hour, keeps a snapshot in memory and
serves it behind its limits; the browser code in `web/src` that fetches it, draws
it and answers the reader's hands; and the prototype page of `design-kit`.

    tlc -workers 2 -config Timelapse_cycles.cfg MCTimelapse.tla    # a run
    tlapm ControlsProofs.tla                                       # proofs

`PROJECT.json` lists the runs, the mutants that show each property can fail,
the source lines of every definition, the findings, the hazards and the
theorems.

## 1. The system

The server:

| Component | State | Operations | Talks to |
|---|---|---|---|
| ingest cycle (`internal/ingest`) | the quality history | `RunOnce` on every poll (5 min), `Loop`, backlog alert | sensor.community, `area`, `quality`, store, publisher |
| hourly rollup (`internal/store/rollup.go`) | tables `reading`, `reading_hourly`, `rollup_watermark` | `RollupBacklog`, `RollupAll`, `Watermark`; raw retention | PostgreSQL, READ COMMITTED |
| replay frames and publisher (`internal/snapshot`, `internal/server/publisher.go`) | the served snapshot and its ring of hourly frames | `Build`, `extendRing`, `Publish` | the store; handlers read the holder without a lock |
| EEA collector (`internal/upstream/eea`) | what it remembers of each file (`lastFileFetch`) | `RunOnce` (hourly), `Loop` | the agency's blob storage, `WriteStationReadings` |
| admission semaphore (`internal/admit`) | a channel and a counter | `TryAcquire`, `release` | the series and locate handlers |
| connection cap (`internal/httpx/limitlistener.go`) | a channel, a `once` per connection | `Accept`, `Close` | net/http |
| token buckets (`internal/ratelimit/bucket.go`) | a bucket per client key, sharded | `Allow`, `Evict` | `httpx.RateLimit`, the series handler |
| enumeration breadth (`internal/ratelimit/enumerate.go`) | two sets and two times per client key | `ObserveArea`, `ObserveSensor`, `Evict` | the area and sensor handlers |
| quality (`internal/quality`) | the last values of each series | `Record`, `IsStuck`, scoring, seeding at start | the ingest cycle, the store |
| areas (`internal/area`) | tables `area`, `sensor.area_id` | import, `AssignSensors`, `PurgeOutside` | PostgreSQL |
| serve lifecycle (`cmd/airbg`, `internal/server`) | goroutines, listeners | start, poll, shut down | all of the above |
| visitor statistics, wind, backfill | one table each | fetch and upsert | Cloudflare, forecast, archive |
| pages, i18n, router, configuration, metrics, tiles | none, or read-only after start | pure handlers | the snapshot |

The browser (`web/src`):

| Component | State | Operations | Talks to |
|---|---|---|---|
| fetch policy (`lib/api.js`) | an LRU cache and the requests in flight | `getJSON`, `clearCache` | `fetch`, every island |
| map data loading (`mapdata.js`, `mapload.js`, `islands/map.js`) | `tierKey`, `hexUrl`, `hexAbort`, the registry | `refresh`, `refreshHexes`, the opening, `moveend` | fetch policy, view state, placement |
| replay player (`timelapse-island.js`) | the held body, the playhead, the clock | load, play, pause, scrub, speed, exit | fetch policy, map |
| marks (`hexes.js`, `ramp.js`, `mappaint.js`, `hexrise.js`) | cells, raised columns | bin, combine, label, raise | map data |
| overlays (`maplayers.js`, `mapwind.js`, `windstreaks.js`) | boxes, layers, the animation | tick, fetch, import, animate | storage, fetch |
| page furniture (`chrome.js`, `mapcontrols.js`) | the key's fold, menus, the refresh store | fold, open, close, refresh | storage |
| sensor card (`panel.js`, `sidedock`, `sensorsheet`) | the card's home, full screen | resize, expand, move | registry |
| view state (`viewstate.svelte.js`) | metric, sensor, sources, the hash | set, write, hear a hash change | history |
| remembered choices (`storage.js`, `favourite.js`, `lastview.js`) | local storage under two names | get, set, remove | storage |
| charts, table, finder, stations, readouts | a selection and what it shows | the reader's clicks and keys | fetch policy |
| page start (`main.js`, `disclosure.js`) | the wait, the islands | mount, open a menu | all islands |

And `design-kit/ui_kits/app`, a page of its own: a table, a refresh with a bundled
snapshot behind it, a camera and pointer gestures.

How they meet. `serve` runs the ingest loop, an EEA loop, the wind and visitor
loops and the listeners; `collect` may run an ingest and an EEA loop beside it.
They share only the database. A cycle writes raw rows in chunks, drains the
rollup's backlog one transaction per hour, and, if every stage succeeded,
builds the next snapshot from the served one and swaps it in. A request
passes the connection cap, the token bucket of its route, for areas and sensors
the breadth counter, and for database queries the semaphore. In the browser,
islands call `getJSON`, which shares one request among its callers; they meet in
the view state and in events on `document`.

What is hard:

* **The watermark against the rows.** The rollup trusts a single row to say
  which hours are done, while samples arrive late, transactions fail, cycles
  die, an operator re-runs everything and two processes may drain at once.
* **Once-only reads.** The replay ring never reads an hour twice, so what it
  takes must be final; the EEA collector never downloads a revision twice, so
  what it remembers must have been stored.
* **Times read before a lock.** Both limiters read the clock and then wait for
  a mutex: refills, windows and evictions act on times in any order.
* **Two records of one fact.** A channel and a counter; a channel and a
  `once`; a reference count and the callers that remain; a box and its layer; a
  view and its hash; a key's fold and the event that reports it.
* **Shared promises.** Coalesced requests, aborts, a retry, a cleared cache and
  an LRU limit, with continuations in microtask order.
* **State read before an `await` and used after it.** The replay's load, the
  map's refreshes, the wind layer's fetch and import, the charts' answers.

The hazards of `PROJECT.json` give each of these its line and its properties.

## 2. Modules

| Module | Models | Correspondence |
|---|---|---|
| `Rollup` | the ingest cycle's writes and rollup, `RollupAll`, retention | see 2.1 |
| `Timelapse` | extends `Rollup` with the snapshot and its ring | see 2.2 |
| `EeaCollector` | the hourly poll of the agency | see 2.3 |
| `ApiCache` | `web/src/lib/api.js` | see 2.4 |
| `Slots` | what an admission control promises | abstract |
| `Admission`, `ConnLimit` | the two controls, each implementing `Slots` | see 2.5 |
| `TokenBucket`, `Breadth` | the two limiters | see 2.6 |
| `Lifecycle` | the end of `airbg serve` | see 2.9 |
| `Areas` | boundaries, memberships, the purge | see 2.10 |
| `StuckHistory`, `BodyCache`, `VisitorDays` | three memories of the server | see 2.11 |
| `MapData`, `Replay`, `Overlays`, `Chrome`, `Sheets`, `ViewState`, `Remembered`, `Charts`, `Lists`, `Stations`, `Boot`, `Cells` | the parts of the browser's page | see 2.7 |
| `OblastTable`, `KitRefresh`, `KitCamera`, `KitHands` | the design kit's page | see 2.8 |
| `MC*` | instances for TLC; `MCControls`, `MCLoops`, `MCStores` and `MCBrowser` each put parts that share no variable in one run | |
| `Sorting` | what the sorts and filters return, for `StuckHistory`, `Lists`, `Stations`, `Cells` and `OblastTable` | see 2.12 |
| `Counting`, `TimelapseProofs` (with the rollup's), `ControlsProofs`, `ServerProofs`, `StoresProofs` (with the fetch policy's), `PageProofs`, `MarksProofs`, `BrowserProofs` | theorems | section 5 |

### 2.1 Rollup

A drainer is a process running `ingest.Loop`. `Fetch`, `WriteChunk` and
`StartRollup` are the head of `RunOnce` (any number of chunks is written, none
when the fetch or the boundary filter failed; the rollup runs in every case).
`RollupBacklog` is `ReadWatermark`, then `SelectRows` and `CommitDrain` for each
bucket, `FinishDrain` (the watermark read back, the previous hour reconciled
once the watermark has reached it), `SelectRows` and `CommitReconcile`.
`rollupSQL` takes its snapshot in `SelectRows` and becomes visible with the
watermark in one commit, which is what READ COMMITTED gives
`INSERT ... SELECT`. `TxFails` is a transaction that rolls back, `Crash` a
process that dies or a watermark that cannot be read. `RollupAllSelect` and
`RollupAllCommit` are `airbg rollup`, `WriteStations` the rows of the EEA
collector, `DropRaw` the retention policy of migration 00003.

Data: all raw rows of one series in one hour are one *version*; a write
replaces it. Versions the quality filter admits are `UsableVersions`; the
averages are functions of the version, so the hourly row is the version it was
computed from. Time is counted in hours, the unit of every decision made here.

### 2.2 Timelapse

One drainer serves. `Build` is `snapshot.Build` as far as the ring goes,
`Swap` is `Publisher.Publish` storing the pointer, `KeepServed` a cycle one of
whose stages failed, `Restart` a new process with an empty holder that
publishes before it polls (`runServe`). `Extend` is `extendRing`: hours kept
are never read again, hours after the last kept one are read, the hour in
progress is left out.

### 2.3 EeaCollector

A cycle walks the files of the list: `FetchFails`, `NotModified` (304),
`Download`; then `Prune`, `WriteFileChunk` per chunk of rows, or `WriteFails`.
What a file contains is its revision, whose parts are written in separate
transactions. `Remember` is the assignment at collector.go:149-155, which
happens *before* the rows are decoded and written. `Revise` is the agency, and
the only external action.

### 2.4 ApiCache

One action per continuation the event loop may run: the call, a hit, a join, a
start, an abort, `clearCache`, the answer of the network, the timer of the
retry, the settlement of the shared promise, its clean-up and the delivery to
each caller. Bodies are identified with the request that brought them.

### 2.5 Slots, Admission, ConnLimit

`Slots` says: at most `Size` clients are inside, a client is let in or turned
away on the spot, and turned away only when `Size` are inside. In `Admission`
the send on the channel, the count, the count down and the receive are four
steps, and other goroutines run in between. In `ConnLimit` the Accept loop takes a
connection from the kernel, which is a descriptor, before it tries for a slot
(`AcceptFd`, then `TakeSlot` or `Shed`, and `CloseShed`): while it turns a connection
away the process holds one descriptor more than the cap, and `DescriptorsBounded`
says `MaxConns + 1`. net/http calls Accept from one goroutine, so one connection at
a time is in its hand. `Close` closes the descriptor and then runs the `once`, from
any of several goroutines.

### 2.6 TokenBucket, Breadth

One client each, since keys share nothing but locks. A request reads the clock
(`Arrive`, `Ask`) and later, under the lock, acts on what it read; so does the
sweep. Tokens are counted in fractions that make the refill exact, so the
float arithmetic is abstracted; the rounding of the `Retry-After` is not.
`allowed`, `mark`, `told` and `served` are history variables.

### 2.7 The parts of the page

One action per event handler, timer and continuation after an `await`. A request
that was sent is a record; its answer or failure is an action that may come at
any time, in any order.

* `MapData`: a pass is one run of a handler, with at most one refresh of the
  markers and one of the grid. A grid request aborts the one before it
  (`hexAbort`), a marker request does not. The opening waits for the scales, places
  the camera and may be overtaken by a late geolocation.
* `Replay`: `load` reads the URL it wants, awaits the body and installs it; the
  tick, the visibility of the page and the zoom come between.
* `Overlays`: `setWind` awaits a fetch and then an import; the canvas loop is a
  set of frame requests, so a loop nobody can stop is visible as a member.
* `Chrome`: a write of a `<details>`' open state queues one `toggle` event which
  later writes share; the page's own folds are marked (`autoTarget`) for it.
* `Sheets`: panel, dock and sheet, and the two kinds of full screen, native (granted
  or refused later) and imitated.
* `ViewState`: a hash per history entry; moves of the browser are heard later as
  an event, and the page's own writes may be refused.
* `Remembered`: storage that is open, full or blocked, with the former key names.
* `Charts`, `Lists`, `Stations`: the selection and the answers of a chart, the
  province table and the finders, and four readers of one body.
* `Boot`: the wait for the first paint, the islands and the masthead's menus.
* `Cells`: algorithms over bounded inputs (binning, combining networks, the ramp with the
  gauges and the key drawn from its table, the replay's frames), and the hand-over of printed numbers between markers and cells.

### 2.8 The design kit's page

`OblastTable` is the table's order, filters, pages and combobox; `KitRefresh` the one
fetch with its fallback, several of them under way; `KitCamera` the arithmetic of
the camera and who drives it, buttons or tiles. The handlers divide CSS pixels by the
scale of the drawing and never ask how many pixels a unit of it is, so `Pan` and `ZoomAt` take a
pixel for a unit, as the code does: `CameraKeepsPlace` therefore speaks of units, and
`PanFollowsPointer`, of a drawing `ScreenWidth` pixels across, of pixels. `KitHands` the
press that becomes a drag, the pinch and the pinned page.

### 2.9 Lifecycle

`runServe` is one thread (`main`): it waits in `Server.Run` for a signal or for a
listener that reported its end, drains the listeners one after the other under one
grace period, stops the loops, waits for them and closes the pools. The listeners'
goroutines (`ServeReturns`, `Reports`) send on `errCh`, which holds one message per
listener because `Run` reads at most one. A loop is in a cycle, between two, or gone;
its `select` may take a tick although its context is done.

### 2.10 Areas

`Import`, the ingest cycle's `FilterJoin`, `FilterPresent`, `UpsertSensors` and
`WriteReadings`, the two statements of `AssignSensors` (run by the cycle and by the
operator) and the five of `PurgeOutsideBoundary`, each a statement with its own
snapshot. `withdrawn` and `removed` are what a transaction has done and not
committed. A geometry is the set of places it covers; a device stands at one of them
or is not stored.

### 2.11 StuckHistory, BodyCache, VisitorDays

`StuckHistory`: a poll observes what upstream serves before the write that may fail,
the oldest device is evicted over the cap, and a start seeds the windows from the
rows of the table. `BodyCache`: a request takes the current snapshot, looks its key
up, encodes outside the lock and puts the body, while publishes replace the snapshot;
the cache is bounded by entries and by bytes and cleared whole. `VisitorDays`: a pull
reads the last stored day, asks for a window sized from it and upserts the answer, any
number of pulls at once, with midnights in between and an operator's seed of the gaps.

### 2.12 Sorting

`Array.prototype.sort`, `filter`, `ORDER BY` and the collator's order are one operator each: `Sorted`
chooses the element with k-1 elements before it, `Ascending` does so for numbers, and `Only` keeps the
rows at some places in the order they stood. The comparison each caller passes is its own code's, ties
broken the way a stable sort does.

## 3. Runs

Every property of a passing run has a mutant of the code under which TLC finds
it violated with the same bounds.

| Run | Bounds | Shows |
|---|---|---|
| `timelapse_cycles` | 1 process, 1 series, 2 versions, hours 0-4, 1 bucket per call, retention 1 h, 1 fault, 1 late official row, ring of 2 h | `CoveredHoursFresh`, `AlertBeforeLoss`, `FramesFresh`, `FramesComplete` (the ring has its shape and no hole) |
| `rollup_two` | 2 processes, hours 0-3, 1 bucket per call, retention 2 h, 1 fault, 1 `RollupAll`, 1 late official row, rows the filter rejects | `GapFree` |
| `rollup_official` (violated) | 1 late official row, no fault | finding 1 |
| `timelapse_late` (violated) | samples up to 1 h late, no fault | finding 2 |
| `progress` | rollup: 1 process, hours 0-3, 1 bucket per call, 1 fault, 1 `RollupAll`. EEA: 2 collectors, 1 file of 2 parts, 3 revisions, 3 faults, 1 lost body (after which the properties but `NoNeedlessDownload` promise nothing). Shutdown: 3 listeners, 1 loop, 1 tick, 1 request. The page's requests: 2 calls of 1 URL, 2 clears | `BacklogAlwaysDrains`, `RecentHourHeals`; `MemoryIsSound` (types, and what is remembered is stored or about to be), `NoNeedlessDownload`, `FilesSettle`; `ExitIsClean` (no half-written cycle, the grace is given, a death is reported, nobody blocks on `errCh`), `ShutdownEnds`; `EveryCallEnds` |
| `eea_drop` (violated) | 1 collector, 1 revision, 1 lost body | finding 3 |
| `stores` | below | `OneRequestHeldByItsCallers`, `NoForeignAbort`, `CacheIsSound` (shape, nothing from before a clear, the URLs used last), `SentForSomebody`; `MemoriesHold` (the bodies of a snapshot, the stuck windows); `AreasAgree`; `StillAsked` |
| `purge_race` (violated) | 1 slug, 2 imports, 1 purge | finding 5 |
| `controls_front` | 3 requests for 2 slots, 3 connections for 2, each closed by 2 goroutines; 2 concurrent callers of a bucket over 8 ticks; 2 concurrent observers of 3 areas and a sensor with a limit of 1 over 8 ticks | types, `CapHolds`, `Accounts`, `DescriptorsBounded`, both refinements of `Slots`, `WindowBound`, `TwiceTheLimit`, `RefusalsAreTrue` (a truthful `Retry-After`, no refusal before the limit) |
| `browser` | below | `BrowserTypeOK` and ten properties of the parts of the two pages |
| `replay_stale` (violated) | 2 animations, 1 load in flight | finding 4 |
| `kit_drag` (violated) | a drawing 463 pixels across, 1 pan | finding 6 |

The properties of `browser`, part by part:

* `Replay`: `PlaybackCoherent` (one clock, running for a visible page and a held body,
  with its playhead inside it), `LandingRespectsPause`.
* `MapData`: `MapDataHolds` (one grid request at a time; the banner is the one hint that
  applies).
* `Overlays`: `OneAnimation`. `Chrome`: `FoldIsReaders`. `Sheets`: `GaugesAreWhereSeen`.
  `Boot`: `BootsOnce`.
* `ViewState` and `Remembered`: `ChoicesComeBack` (the address brings the view back, the
  storage the last choice).
* `Cells`, `Charts`, `Lists`, `Stations`: `PagesTellTheTruth` (every device of a ticked
  network counted once; a marker in the cells' colour at the ramp's
  stops and between them mixed from the same two in the same proportion, the needle of an arc in
  the band whose colour the card takes, the key's numbers on the seams of the ramp; a replayed
  number only where one was measured; no reading printed twice or not at all; columns of
  the cells painted; a chart panel names what it shows; the table and the finder answer;
  markers, counts, panel and strip agree on one body).
* the design kit: `KitPagesHold` (its camera in units of the drawing; `kit_drag` asks about pixels).

Why the bounds are enough.

* *Rollup, Timelapse.* One bucket per call makes a backlog form as soon as one
  cycle is lost. Five hours hold the start, a lost hour, the backlog, the
  reconcile and a ring that drops its oldest frame. Two versions tell a stale
  aggregate from a fresh one; series do not interact, so one stands for all.
  Rows the filter rejects are covered by the theorem on types.
* *EeaCollector.* Two collectors are what the deployment has; files do not
  interact; two parts make a file half-written; a third revision lets an old
  one be written over a newer one and a last one follow.
* *Lifecycle.* The listeners are the three of the code; a loop in a cycle and one
  between cycles are two behaviours, and loops do not interact.
* *ApiCache* (in `stores`: 3 calls, 3 URLs, room for 2, 1 clear). Three calls of one URL
  are a starter, a joiner and the one that comes after both have gone; three URLs with
  room for two evict. In `progress`: what a call waits for is the request it joined, which
  ends by its answer, its retry or the abort of its last caller, or a clear; a maker and a
  joiner (or a second maker) and two clears bring each of these about.
* *BodyCache* (2 requests at once, 2 snapshots, 4 keys, room for 2 entries and 4 bytes).
  Two requests of one key meet, a publish comes between a look-up and its put, and
  either bound is hit first.
* *StuckHistory* (2 devices, 2 values, windows of 2, room for 1 device, 3 measurements,
  1 restart). Each poll may fetch an observation again, evict and be followed by a restart.
* *Areas* (2 slugs, 1 device, 2 places, 2 imports, 2 cycles, 1 purge). Two slugs give a
  country and a city or none; every statement of one transaction falls between any two
  of another.
* *VisitorDays* (2 collectors, a lookback of 3 to 5 days, figures that shift for 2, 7 days,
  1 seed). An outage may be longer than the lookback; two pulls may straddle a midnight.
* *Controls.* One client more than there are slots makes a refusal; one more
  closer than needed makes a double close. Ticks cover two windows and an
  eviction (six ticks) and what follows. `Stall` and `Delay` of one tick
  let reads be acted on in the opposite order. The controls share no
  variable, so each behaviour of `MCControls` moves only one of them: the run
  checks the sum of their states.
* *Browser.* `MCBrowser` does the same with the sixteen parts: each behaviour moves
  one, chosen at its start, with the others at one of their first states. A part
  takes what another part owns (the paint, the metric, the camera) as an input
  of its own, so nothing is lost by that. In every part two requests can be
  under way and overtake each other, which takes two passes of the map (three,
  so that a third is sent while two are out), two loads, two streak loads, two asks of
  a chart. `Max*` bounds cap the reader's gestures, two to six per part: enough
  for a change, its opposite and a third while the first's answer is still
  out. Every property has a mutant that is found within these bounds.

`CHECK_DEADLOCK FALSE` appears where the model stops by its bounds or the process
ends: no call is left in `ApiCache`, the clock of the limiters, the revisions of the
agency and the runs of the operator end, the reader's gestures are counted, and a
server that was told to stop stops.

## 4. Fairness and liveness

* `Rollup!FairSpec`: weak fairness of each drainer's `Cycle`. `ingest.Loop` runs
  `RunOnce` at every tick until it is cancelled and only logs a failed cycle
  (ingest.go:421-437). Writes, the operator, the clock, retention and faults
  have no fairness; faults are finite by the bound.
* `EeaCollector!FairEeaSpec`: weak fairness of the collector's own steps, for the
  same reason (collector.go:302-328). Nothing obliges the agency to revise.
* `Lifecycle!LifecycleFair`: goroutines are scheduled, the grace timer fires, a
  statement has its timeout and every call of a cycle its deadline. Nothing is assumed
  of the signal, the ticks or the requests, which may never be answered.
* `MCLoops!LoopsFair` is these and the next, each for the behaviours that move its part.
* `ApiCache!FairSpec`: a request that was sent ends, with an answer or an error,
  timers fire and microtasks run. Callers need not abort and nobody need
  clear the cache.

The controls state no liveness: a handler that never returns would hold its slot,
and nothing in the code bounds it but the database's statement timeout.
Their safety properties say that a `Close` finds its slot in the channel.

The parts of the page state no liveness either: an answer may never come, and the
code gives none of these fetches a deadline. What must not be left behind
(a loop, a clock, a spinner without a request) is stated as safety.

## 5. Proofs

| Theorem | For every | Argument |
|---|---|---|
| `TimelapseProofs!TypeCorrect` | number of drainers, series, hours, versions | `TypeOK` with `PhaseOK` is inductive |
| `TimelapseProofs!NoGap` | the same, and any interleaving of drainers, faults and caps | below |
| `ControlsProofs!TypeCorrect`, `AccountsKept`, `CapAlwaysHolds` | number of requests and size | `Accounts` is inductive with the types: a step moves one request into or out of the set of holders or of the counted |
| `ControlsProofs!ImplementsSlots`, `ConnImplementsSlots` | the same | every step maps to `Admit`, `Refuse`, `Leave` or a stutter |
| `ControlsProofs!DescriptorsAlwaysBounded` | number of connections, closers and size | `ClosersOwn`: a closer at work is on an accepted connection whose descriptor it closed, so it gives back a slot that is there; at most one connection is in the Accept loop's hand |
| `ControlsProofs!WindowAlwaysBounded` | rate, burst, idle time, delay before the lock | below |
| `ControlsProofs!NeverMoreThanTwice` | limits, window, delay | below |
| `ControlsProofs!ControlsTypeCorrect` | all constants of the four controls | each part's invariant implies its types, but for the limiter's sets, which stay within their limits because an id is added only below the limit |
| `ControlsProofs!RefusalsAlwaysTrue` | limits, window, delay; a token a second at least | below |
| `TimelapseProofs!AlertAlwaysBeforeLoss` | retention, threshold, silence and cap, one process | below |
| `TimelapseProofs!CoveredAlwaysFresh` | the same, series and versions | below |
| `TimelapseProofs!RollupStillHolds` | the same, beside a publishing and restarting server | a step of the server is a step of the rollup or leaves its variables alone |
| `TimelapseProofs!FramesAlwaysComplete`, `FramesAlwaysFresh` | ring length, cap, missed publishes, crashes, restarts | below |
| `ServerProofs!MemoryAlwaysSound` | number of collectors, files, revisions, parts | a remembered revision is stored, or a collector holds its unwritten parts (`Answers`), and what it holds is what it downloaded last (`BatchIsNewest`) |
| `ServerProofs!ExitAlwaysClean` | set of loops, ticks, requests | `ErrChCounts`: what `errCh` holds is what was reported and not read, so it has room; `DrainOrder` and `WayDown`: where `main` is says which listeners were shut, and that a drained one has nothing in hand or the grace is over |
| `StoresProofs!AreasAlwaysAgree` | slugs, devices, places, runs | `SettledWithdraws`: what an assignment's DELETE left and its INSERT adds is containment, unless a row moved; `UpsertedStays`, `BoundaryStays` |
| `StoresProofs!DaysStillAsked` | lookback, shift, collectors, days | `PullsInStep`: a window fetched reaches back to the days that were missing or shifting when it was sized; `NoneLeftBehind`: a day outside the next window is final, expired or leapt over |
| `ServerProofs!DownloadsAlwaysNeeded` | collectors, files, revisions | `Unfailing`: before the first fault what a collector downloaded is what it remembers, and a file that waits for an answer has been quiet for no cycle |
| `StoresProofs!BodiesAlwaysOwn` | bounds, requests, snapshots, handlers | `Shelf`: every body on a shelf is of its snapshot and of a request with its key; a key tells tier, box and kind, so what is found is what would be encoded; the bytes counted are the sum of the sizes (`Counting`) |
| `StoresProofs!StuckMemoryAlwaysHolds`, `MemoriesAlwaysHold` | devices, values, spacings, limits | below |
| `StoresProofs!OneRequestHeld`, `NobodyCutOff`, `CacheAlwaysSound`, `AlwaysSentForSomebody` | calls, URLs, clears, ceiling | below |
| `PageProofs!ReplayTypeCorrect`, `PlaybackAlwaysCoherent`, `LandingAlwaysRespectsPause` | animations, tiers, loads | the clock belongs to the player's state (`ClockOf`) and the frame count to the body held (`CountsHeld`) |
| `PageProofs!AlwaysOneAnimation` | number of calls, imports, clicks | a frame is asked for by the streaks that stand, and only while the page shows them |
| `PageProofs!FoldAlwaysReaders` | number of gestures, providers | `UnmarkedIsReaders`: an event in the queue without the page's mark reports a fold of the reader's |
| `PageProofs!GaugesAlwaysWhereSeen` | sensors, panels | what the homes were last told is what the screen is, in every state between two handlers (`SheetsInv`) |
| `PageProofs!TableAlwaysKeepsRules` | feeds, names, searches, saved columns | below |
| `PageProofs!CameraAlwaysKeepsPlace`, `DragFollowsAtFrameWidth` | frames, subjects, gestures, answers of the tiles; for the second a canvas of the drawing's width | below |
| `PageProofs!ListsAlwaysAnswer`, `ListsTypeCorrect` | rows, names, texts, area lists, gestures | below |
| `PageProofs!ChromeTypeCorrect`, `SheetsTypeCorrect`, `OverlaysTypeCorrect` | all constants of the three | the invariants of the theorems above, with what is awaited: an answer under way belongs to a layer that is loading, a queued event to a box there is |
| `PageProofs!AlwaysBootsOnce` | islands, visits | `Stage`: where the wait stands says what was mounted |
| `BrowserProofs!MapDataAlwaysHolds` | passes, cameras, areas, windows | `MapInv`: the sticky error is only set with its text, and no pass of the opening is in flight before the opening has asked for it |
| `BrowserProofs!ChoicesAlwaysComeBack` | metrics, sensors, layers, keys, values, moves through the history | `HashRoundTrip`: parsing what was serialised gives the view, for every view; each entry of the history, and each name of a key, holds what was written last |
| `BrowserProofs!DragsAreNeverClicks` | fingers, gestures | the guard is armed exactly by a gesture that moved, until its click or its timer |
| `BrowserProofs!RefreshAlwaysNamed` | loads, sources, issues of the data | `RefreshInv`: what is drawn, reported and inherited was published together (`PublishKeeps`), and every way a load can end sets the next one going; the cards' median halves the values (`Counting`) |
| `MarksProofs!StationsAlwaysAgree` | bodies, flags, area lists, gestures | below |
| `MarksProofs!MarksAlwaysTell` | networks, spots, readings, band tables, floors, sizes of a body, gestures | below |
| `BrowserProofs!PagesAlwaysTellTheTruth` | all of the page's constants | `BrowserIsParts` and the theorems about cells, charts, lists and stations |
| `BrowserProofs!KitPagesAlwaysHold` | all of the kit's constants | `BrowserIsParts` and the four theorems about the kit's parts |
| `BrowserProofs!ChartsAlwaysTrue` | metrics, units, periods, nearby keys, bodies, gestures | `ChartsInv`: a run whose number its chart still bears asked for the lines wanted now; the metrics selected are distinct and offered |
| `BrowserProofs!MapTypeCorrect`, `ViewStateTypeCorrect`, `RememberedTypeCorrect`, `ChartsTypeCorrect`, `MarksProofs!CellsTypeCorrect`, `BrowserProofs!BrowserTypeCorrect` | all constants of the page | each part's types with what makes them inductive (what is stored is acceptable, an entry of the history is a hash there is); `BrowserIsParts` for the whole |

*Types.* `TypeOK` of the rollup alone is not inductive: `PhaseOK` adds where each
phase's loop variable may stand (a drain at most one hour past the clock it read
and, inside a transaction, at it; a reconcile at the hour before), so that neither
the loop nor the reconcile leaves the table's hours.

*No gap.* `GapFree` says nothing of a drainer that is about to commit. `GapInv` adds
`Cursor`: a drainer that found a watermark stands at most one hour past the one
stored *now*, however far others have moved it since, and one that reconciles
stands behind it; and `OriginOK`: a watermark has an hour it started from.
Watermarks only grow, so what the others commit preserves it, and a commit
extends the coverage by one hour, repeats an hour of it, or starts it afresh.

*The alert before a loss.* `BacklogAnnounced` ties the alert to the length of the backlog
at the last check, `ChecksInTime` bounds how long ago that check was, and `StartsAtClock`
says that a first watermark starts at the clock. A row can only be dropped `Retention`
hours behind the clock, and by then a check has seen the threshold passed.

*Fresh aggregates.* `FreshInv` follows one process through a cycle: `InOrder` says which
hours a drain has passed, `Owes` that only the current and the previous hour can be stale
and that a reconcile of the latter is still to come, `Holding` that the rows a transaction
selected are still the hour's rows when it commits. It needs samples no later than the
next hour (`Orderly`); `CommitFresh` is the lemma about the upsert.

*The frames.* `Whole` says that a ring being built, or served, has every hour with an
aggregate between its span's start and its last frame, those before the watermark's
origin included; a step of the rollup only gives an aggregate to hours no frame has
passed. `LifeOK` says that the process serves only what it built. For freshness, `Settled`
says that an hour behind the watermark keeps its rows, and `Reconciled` that a cycle
publishes only after its reconcile.

*The fetch policy.* A request is *under* way between its start and its clean-up unless it
was aborted. `Installed` says that these are exactly the requests in `inFlight`, each
under its own URL and made since the last clear; so there is one per URL, and only it can
be joined. `CallerSays` says that a caller waits for a request made since the same clear,
and that if it was aborted under the caller the cache has been cleared since. With
`Held` (the refcount is the number of callers, and what is under way has one) the
first two theorems and the last follow. `Ordered` says that the cache is the end of the
URLs by last use, each entry under its URL: a hit moves one to the end of both
(`MoveOld`), an answer appends to both and drops the first (`MoveNew`), which takes
`Missing`: what is under way is not in the cache. `Dated` gives every body the clear it
was asked for in.

*The window of a bucket.* `WindowBound` says nothing of the tokens that are left.
`Paid` is an account: since any instant, what was allowed and what the bucket
holds are at most one burst and the refill up to the *last refill*, whose time was
read and may be `Stall` ticks old. A request that refills and takes a token keeps
the account; a sweep closes it, because a bucket is forgotten only after an
idle time that refills a burst and twice the stall (`BucketAssumption`), so the
full bucket made next owes nothing.

*Twice the limit.* `Tells` is what an entry knows of a kind: what it counts is within
the limit; what it does not count was served before its window began, give or take
the delay; and the values among these that are still recent were counted by one
entry before it. A rollover comes a window later, so what that older entry did
not count has ceased to be recent; an eviction comes two windows after the last
visit, and nothing is recent.

*Refusals.* For the bucket, `Promised` says that the time a refused client was told to come
back at is at least a second after the last refill, as long as nothing else of its was allowed:
a later refill that yields a token is what it was told to wait for. With a token a second
(`Unit <= Refill * TicksPerSecond`, the slowest shipped rate; a hypothesis of the theorem) a second
is enough. For the breadth limiter, `CountedIsServed` says that whatever an entry counts was
shown to the reader within the entry's window, so a full entry is a limit really reached.

*The charts.* Every request for a chart's lines is a numbered run, and the chart bears the
number of its last one. `Tells` says that a run whose number the chart still bears asked for
exactly the lines that are wanted now, and that a loading chart has such a run; so a
late body either is of the present selection or is dropped. That two lines share a scale
exactly when their metrics share a unit (`ScalesAreUnits`) rests on the least index of a unit,
and that unticking a metric leaves only others, each once (`WithoutKeeps`), on what a
recursive function computes. The library's induction theorems take an operator, which the provers cannot be
given; `LeastNat` takes a least element of a nonempty set of naturals from
`WFMin` instead, `UpTo` is induction over a *set* of naturals that follows from it, and
`IterationExists` gives the function a recursion defines.

*Counting.* What the code does with sorted rows, middles and sums is proved about in
`Counting`, by induction over a set of naturals (`UpTo`): a set of n elements under a strict
total order has exactly one element with k before it for each k below n (`SortedInTurn`), so that
what `Sorting` chooses exists, and visits every element once and in order; a middle
has at most half of the values below it and at most half above (`MiddleHalves`); and a sum over a
function's domain changes by exactly what was put or taken (`SumPut`).

*The stuck windows.* A batch is observed row by row: `ObservedKeeps` shows that a telling in the order
of the instants leaves each device the newest of what it was told, whatever of the other devices stands
between its rows (`ObserveKeeps` is one observation, evictions included). `HistoryInv` says that
upstream serves at most one observation of a device and never a future one (`Serves`), that what is
stored is what is served or older (`StoresHistory`), and that a window holds the newest usable rows until
a write or a seed is lost (`RemembersNewest`). The seed is such a telling, device by device
(`SeedOrders`); a full window that reaches no further back than the seed holds the same rows
(`WindowIsSeed`), which is what a restart may change and what it may not (`RestartAgrees`).

*The lists.* The rows kept are distinct rows of the table; a sort permutes them and leaves the
silent ones last (`SortReorders`); page p of n rows holds the places from (p-1)*size+1 to the least
of p*size and n, so that each place is on exactly one page (`OnePageEach`, division by the size) and
the page shown is clamped to those there are (`PageEnds`). `ListsInv` adds that the
area picked was among those listed, by the cursor, by its whole name or as the only one.

*The kit's table and camera.* The table's theorem is the same page arithmetic under a different rule:
a page size is only offered when it divides into full pages, and what is drawn was rendered from the
rows that matched then (`render` re-establishes it after every gesture). The camera's theorem is arithmetic
on scaled integers: the clamp is applied after every move, so the view holds what was drawn; what a
zoom leaves so many units from the middle differs from what was there by the roundings of two divisions,
which the proof bounds one by one. `DragFollowsAtFrameWidth` has the width of the canvas for its hypothesis,
under which a unit is a pixel; on another width the claim is false (`kit_drag`).

*The stations.* What the readers share is a partition: the members of the sites with a device are disjoint and
cover the body, so a count over sites is a count over stations (`StationsAlwaysAgree` proves the one operator at
a time: markers and line, panel and marker, strip, near me). The strip's extremes exist because a
finite nonempty set of naturals has them, its median halves the markers that report (`MiddleHalves`), and a
rank is one more than the number of those below it.

*The cells.* `MarksAlwaysTell` takes one sample at a time, of any size. The cells drawn stand for blocks
of devices: the first device of each (`FirstOfIs`) heads one, in the order of first appearance, and the blocks
under the heads are disjoint and cover the devices of the ticked networks (`HeadBlocks`), so that their counts add up
to all of them (`BlocksCount`, induction over the number of blocks). A mean is a pair of a total and a
weight, so that it lies between two readings as its total lies between so many times each (`SumBetween`,
`MeanBetween`). Combining networks is a recursion over them whose running total, over the
product of the weights so far, stays between the bounds at every step (`WeighedOK`, `TalliesLie`), and it is
Absent exactly when no part has a reading (`CombineIs`). On the ramp every pair of
neighbouring stops lies in one half of one band, where the cell's place between the two colours is a straight
line of the reading, which is the share the marker's interpolation takes; the open last band
is given the width of the one before (`RampHolds`). The tables are the served ones
(internal/api/scales.go), whose bounds ascend strictly: with a band of no width the proportions differ, and the
filter of ramp.js:166-168, which drops a repeated stop, has nothing to drop.
That the needle stands in the card's band, and the key's numbers on the seams, is arithmetic on the same bands
(`GaugesHold`, `KeyHolds`). A replayed number is the one of the last hour measured
(`ReplayHolds`), which exists as the greatest of a finite set. The zooms at which the printed number is handed over and
the columns need an inductive invariant of their own: `CellsInv` says which zoom each label layer was given for which toggle
and tier, and that the columns are raised over the cells painted last.

*The parts together.* `BrowserSpec` interleaves the parts of the page, and a part that is not the run's
subject stands still. `BrowserIsParts` shows once that a behaviour of the whole is one of each part's own
specification; the theorems about the parts then say of the whole what they say of themselves.

Assumptions: those named in the modules (`ConstantsAssumption`, `AdmissionAssumption`,
`BucketAssumption`, `BreadthAssumption` and their like) and the hypotheses named above; TLC
evaluates the assumptions in the runs.

*What stays with TLC.*

* Everything under fairness (`BacklogAlwaysDrains`, `RecentHourHeals`, `FilesSettle`,
  `ShutdownEnds`, `EveryCallEnds`): liveness is out of the provers' reach.

Every safety invariant and action property of a passing run is stated by a theorem. What the provers cannot
do by the library's induction, which takes an operator, is done by the induction over sets of *The charts*.

## 6. Findings and observations

Findings, each with a run whose counterexample shows it:

1. `rollup_official`: official rows arrive 6 to 12 hours late, and no cycle
   re-rolls an hour older than the previous one, so they never reach
   `reading_hourly` unless an operator runs `airbg rollup`; main.go:132-134
   counts on it.
2. `timelapse_late`: a sample that arrives in the next hour is reconciled
   into `reading_hourly` and never into the frame; timelapse.go:85-86 says "a past
   hour's rollup does not change".
3. `eea_drop`: a file is remembered as fetched before it is decoded and written;
   if that fails, later cycles are answered 304 and the revision is skipped
   until it changes again, its URL rotates or the process restarts.
4. `replay_stale`: `load` (timelapse-island.js) installs the body it asked for,
   whatever was asked for meanwhile. Press play, change the metric while the frames
   are on their way, and the old metric's body is installed and played under the
   new choice, although the file says that "a different window or metric is a
   different animation and what is held is stale".
5. `purge_race`: the purge's check of the boundary and its join are two statements at
   READ COMMITTED, each with a snapshot of its own, although purge.go:84-90 counts on a
   shared one: an import that turns the country's row into another kind between them
   leaves the join without a boundary, and every sensor is selected for deletion.
6. `kit_drag`: `AIRBG_MAP_PAN` (map-render.js:207) takes the pointer's pixels for units of a drawing that
   is 926 units across on a canvas of any width, although "a drag moves the map exactly as far as
   the pointer moved, at any zoom" (204-206). On half the width it moves half as far.

Observations made while modelling, without a run of their own. On the server:

* One lost cycle at an hour's end, and no cycle in the next hour, leaves rows
  behind a watermark that says the hour is done: the reconcile reaches back one
  hour only (`Orderly` excludes faults for this reason).
* A series whose rows are all flagged after their hour was rolled up keeps its
  old aggregate: the re-run finds no group to write (`Upsert`).
* The release of a database slot is not deferred (series.go:329, 409, 420;
  locate.go:77): a query that panics keeps it, while `httpx.Recover` keeps the
  process alive. `Accounts` counts such a request as a holder.
* `Retry-After` is rounded to the nearest second (bucket.go:145). With less than
  one token a second it may end before the next token; it is checked at one a
  second, the slowest shipped rate, and `RefusalsAlwaysTrue` has that for a hypothesis.
* `WindowBound` needs `ttl` to refill a whole burst (`BucketAssumption`).
  validate.go does not relate them; the shipped values do, by far.
* docs/operations.md:267 speaks of 30 days of raw retention; migration 00003
  keeps 32.

* A `seed-visitor-daily` whose last day is a partial one moves the last stored day, from
  which pulls are sized: after an outage longer than the lookback the days before
  it keep the figures they have (`leapt`).
* The stuck window counts an observation that is fetched twice as two; the table has it
  once. A restart may therefore clear a stuck flag (`StuckHistory`).

In `web/src`:

* A layers box and its layer may part: `setWind` of a box that was ticked turns the
  layer on after an await, when the box has been unticked meanwhile
  (maplayers.js:207; mapwind.js:35-38 speaks of the drop as covering it).
* The grid on the map may be of an older view than the markers: a failed grid
  request leaves it (mapdata.js:369, mapload.js:457-459).
* A press on a folded key while the layers list is open restores it and folds it
  again at once, and the fold is stored (`Chrome`).
* `lastview.js` saves the moves the page makes itself; the source boxes are written
  from the sources once and can differ after a refused write; `setMetric`'s refused
  write skips the listeners.
* The count line counts the stations of unticked networks (sensorcount.js:3 against
  mapdata.js:227, 301). The area strip groups rows by their order, `stations.js` by
  id: they agree because the server orders by id.
* main.js:62 says that a hidden tab never paints and must still mount. The timer that mounts it
  (95) is only set after two animation frames (99-101), which a hidden tab does not run: a tab
  hidden from the start mounts when it is first shown. The timer serves one hidden
  after the second frame. `BootsOnce` asks for one mount at most.
* ramp.js:150-156 says that interpolating the marker's stops "reproduces" the cell's colour, and
  mappaint.js:316-318 that "a dot and the cell under it agree". Cells mix in OKLab
  (ramp.js:141, 197-218) and MapLibre's `interpolate` mixes the stops in RGB: the two agree at the
  stops, which stand at every band's middle and bound. Between two of them both mix the same two
  colours in the same proportion (`MarkersBlendAsCells`) and differ by the space. The gradient of
  the key (ramp.js:173-183), which CSS interpolates, stands to the cells as the markers do.
* The arc of the panel takes its colour without the scale's ceiling (gauge.js:37, 43; the map's table has
  it). In the open band arc and cell may therefore differ: PM2.5 at 200 is still between the last two
  colours on a map drawn to 500, and already the last one on the arc. `GaugesNameTheBand`
  claims the cell's blend below the last band only.
* An arc blends and a card does not: the arc's colour is within half a band of the band's own, which
  the card takes (gauge.js:43 against areacards.js:28).
* TableView.svelte:154-161: Enter with a cursor left over from a longer list raises a
  `TypeError` (`threw` in `Lists`).

In the design kit:

* oblast-table.js:632-638 rebuilds an open list in the other language and leaves the highlight where it
  was. The picker of the language takes the focus from the field, which closes the list, before it
  can change the language; so this is not reached (`LanguageChange`).
* oblast-table.js:189-195 sorts a copy, so pages are cut from the served order; an
  inline completion leaves the field's text and the filter apart; an empty
  `data-pm10` compares as `NaN`.
* airbg-data.js:1 says "Nothing on a timer"; `schedule` (271-278) is one, which a return
  to the tab or the switch starts (288, 298).
* airbg-data.js: a load that rejects leaves the refresh disabled and the timer
  unarmed (217-237, 271-278); with the metadata failing, live data has no
  attribution (175-181); cards stay when no province has the metric (115); the
  switch is read before a fetch and its answer published after (274-276); of two
  loads under way the older may win and the first to end enables the button.
* map-zoom.js:138 disables plus at 8, while map-render.js:64 allows 24; its
  way back is disabled when the map was only panned; a change of province draws
  without the event that repaints the buttons (map-render.js:2428-2432).
* map-render.js:217-225 and map-pan.js: a pinch, a double-click and the wheel zoom about a point given in
  pixels, which `AIRBG_MAP_ZOOM_AT` takes for units as the drag of finding 6 does.
* map-tiles.js: `__airbgTileMap` stays set after an error (365 against 354-363);
  `fitSubject` may run before the draw it waits for.
* map-pan.js: a button released outside before the press travelled is never heard
  (`missed` in `KitHands`).

## 7. Not modelled

Pure functions and I/O: decoding, rendering, i18n, the router, configuration,
metrics, tiles, the wind grid. Scoring is a choice of which rows a cycle writes; the
range, clamp and neighbourhood checks are arithmetic on one batch. The binning and
clipping of a snapshot's bodies and the read-out of the visitor figures are left out. PostgreSQL is modelled by READ COMMITTED
statements; its failures are a rollback or a lost connection. The listener of a
`max` below one is no listener at all (limitlistener.go:37-39) and is left out.
In the browser, the geometry of hexagons and projections, the bytes of a mixed colour
(a colour is which two are mixed, in which share and in which space; how far apart OKLab and RGB
are is not modelled), placement in pixels, MapLibre's layers beyond their zoom ranges, and the drawing of
plots; of `map-render.js` what it draws, its catalogue and its finder.

