# TLA+ models of cloudcmder

cloudcmder takes an inventory of cloud projects. A *scan* streams the resources
of one scope (a GCP project) from several Google APIs into a local SQLite
database, under a *run* row; terminal screens and Excel workbooks read that
database afterwards. This directory holds TLA+ modules of the parts of the
program where order, failure and interruption matter, the TLC configurations
that check them, and TLAPS proofs of what matters most.

Every module says in its header which code it models; `PROJECT.json` maps each
definition to the lines it stands for.

## 1. The system

| Component | Code | State it keeps | Operations | Interacts with |
|---|---|---|---|---|
| Scan command | `cmd/cloudcmder/main.go` (`runScan`, `drainAndWrite`, `scanOneScope`) | batch of received resources, the scan's error | open run, drain the channel, flush, finish the run | reads the provider's channel; calls the store; cancelled by a signal |
| Scan of many scopes | `main.go` (`runScanMany`), `scanui.go` | loop position, failed scopes; on a terminal a Bubble Tea model (rows, active row, recent, failed) | next scope, report, quit key, exit code | goroutine to program by messages; closes the store at its end |
| Resource stream | `internal/providers/gcp/asset.go` and the per-kind files | channel, semaphore, WaitGroup, each enricher's position | phase 1 stubs, phase 2 enrichers, close | sends on the channel, stops on the context |
| Store, writing | `internal/store/store.go` | run rows, resource rows, edges | `OpenRun`, `WriteBatch`, `FinishRun` | SQLite transactions |
| Store, schema | `internal/store/schema.go`, `migrations/0001_initial.sql` | schema version | `migrate` | every command opens the file |
| Store, reading | `internal/store/reads.go`, `main.go` (`resolveRunsForExport`) | none | newest-first runs, latest run of a scope, resources, edges, counts | TUI and export |
| Identities | `refs.go`, `stubs.go`, `inventory/resource.go`, `parseRef` | none | stub ids, enriched ids, references | rows are keyed by them |
| Caches | `machinetypes.go`, `assetClient` | map behind a `singleflight`, `sync.Once` | get or fetch | enrichers |
| TUI router and frame | `internal/tui/app.go`, `screens/frame.go`, `components/cmdbar.go` | stack of screens, command bar and its suggestions, toasts; panes, history, focus; the window's size | push, pop, swap, switch run, resize, keys | loads run as commands, results come back as messages |
| TUI screens | `internal/tui/screens/*` | rows, cursor, filter, sort | load, navigate | store reads |
| Export | `internal/export/*`, `exportall.go` | workbook or zip under construction | sheets per kind, combined workbook, bundle | store reads; the database's files |
| Side services | `preflight.go`, `monitoring.go`, `marketplace.go`, `auth.go` | none that outlives a call | lookups | used by commands and enrichers |

What makes each correct:

- *Scan command*: a run marked `ok` is complete; an interrupted or failed scan
  is never mistaken for a complete one; what was received is stored up to one
  batch; the command returns.
- *Scan of many*: a failed scope shows in the exit code, `--fail-fast` stops,
  at most one run stays `running`, the view tells the truth.
- *Identities*: a resource has one row, a row one resource, and an edge ends at
  the resource it names.
- *Export*: a workbook says of a run what the database says, and takes the run
  it claims to take; a bundle has what was committed.
- *Stream*: bounded concurrency, no send on the closed channel, stubs before
  details, a closed channel is a complete answer, it closes at all.
- *Store*: a run's rows only gain detail while it is running and are sealed by
  its final status; the order of runs is right with several processes, and so
  is the version of the schema.
- *TUI*: what a pane shows belongs to the run and kind it names; a result
  reaches the pane that asked for it; a list has the rows and the order its
  filter and sort say, in the room the window leaves it; what Enter commits is
  what is highlighted, on the screen.

Hard behaviours: goroutines racing on a bounded channel and a semaphore;
cancellation at any step, including inside SQLite transactions; errors that
look alike (`context.Canceled`, a gRPC status `Canceled`, `ErrTxDone`);
failing enrichers of different tolerance; `INSERT OR REPLACE` with last writer
wins; a program that ends while its goroutine still works; results that arrive
after the screen that asked for them is gone. `PROJECT.json` lists these as
hazards at the line where each bites.

## 2. Modules

| Module | Models | Depends on |
|---|---|---|
| `Provider` | `ListResources`: the lister goroutine (phase 1, enricher loop, close), the enricher goroutines, semaphore, channel, cancellation | |
| `RunOutcome` | summary of `scanOneScope`: what it returns and what it leaves in the run row | |
| `RunLedger` | abstract specification: what readers of the database may see of one run | |
| `Scan` | `runScan`/`scanOneScope` with `drainAndWrite`, `WriteBatch`, `FinishRun`, composed with `Provider` | `Provider`, `RunOutcome`, `RunLedger` |
| `ScanMany` | `runScanMany` and `runScanManyUI`: loop, messages, view model, quit key, signal, exit | `RunOutcome` |
| `Database` | the file under several processes, statement by statement: `Open`, `migrate`, `OpenRun`, `writeChunk`, `FinishRun`, kills and failures; shown to be a `RunLedger` for each run | `RunLedger` |
| `Bundle` | `runExportAll`: the database's files copied one after another beside those processes | `Database` |
| `Panes` | the parts screens are built from: `Overview`, `ResourceList`, `Detail` | |
| `Tui` | `App.Update` over the stack of screens (`Scopes`, `Frame`, `RunHistory`, `GraphView`), the palette, and the commands and messages between them | `Panes` |
| `PaneList` | abstract specification: what the models of the screens take a resource list to be | `Panes` |
| `ListView` | `ResourceList`: filter, sort, cursor, jump, columns, height; shown to implement `PaneList` | `Panes`, `PaneList` |
| `Palette` | `Cmdbar`: suggestions, highlight, window | `Panes` |
| `Lookup` | a list in a Frame with the palette over it, and the window's size handed down | `ListView`, `Palette` |
| `SingleView` | the single-screen mode: `SingleView` and its `ScopeListPane` as the root of the same router | `Panes` |
| `Inventory` | the ids and references the provider makes up (`translateResult`, the `build...Resource` functions), the rows they key and the edges between them | |
| `Export` | `ListRuns`, `LatestRunForScope`, `resolveRunsForExport`, and the queries of `WriteWorkbook` and `WriteMultiWorkbook` beside running scans | |
| `MC...` | constants of the checked instances | the module they are named after |
| `ScanProofs` | theorems and proofs about `Provider` and `Scan` | `Scan`, `TLAPS` |
| `ScanManyProofs`, `TuiProofs`, `SingleViewProofs`, `ExportProofs` | theorems and proofs | the module they are named after, `TLAPS` |
| `StoreProofs` | theorems and proofs about `Inventory`, `Database` and `Bundle` | `Inventory`, `Bundle`, `TLAPS` |
| `LookupProofs` | theorems and proofs about `ListView`, `Palette` and `Lookup` | `Lookup`, `TLAPS` |
| `TuiLemmas` | what the handlers of the parts preserve, cited by the proofs of both views | `Tui`, `TLAPS` |

### Provider

`lpc` is the lister's program counter: `search` (one `searchAssetPage` for the
asset type `cur`), `stubs` (the loop over the stub types), `loop`/`select` (the
head and the select of `runEnrichersWith`), `wait` (`wg.Wait`), `closed`.
`wk[e]` is the goroutine of enricher e: `idle` before it is spawned, `ready`,
`run`, `release` (the deferred `<-sem`), `done`. `sem` is the number of tokens
in the semaphore channel and `ch` the buffered resource channel.

An enricher is a sequence of listings (`Parts[e]`): `enrichVMs` has one,
`enrichLoadBalancers` two and gives up at the first error, `enrichFunctions`
two and goes on (`Tolerant`). A listing hands its resources over one by one, in
any order. Where it fails, `why[c]` records the error: `denied`
(`IsRecoverableScanErr`), `invalid` (an asset type Asset Inventory cannot
search; a graceful search drops it), `fatal`, and after a cancellation
`canceled` (an error that wraps `context.Canceled`) or `rpcCanceled` (a gRPC
status with code Canceled, which does not). A resource is its reference and its
level of detail, `stub` or `full`. A client constructor that fails is a listing
that fails before its first resource. The `kinds` argument is always nil in
this program and is left out.

The `break` in the select of `runEnrichersWith` is modelled as Go executes it:
it leaves the select, and the goroutine is spawned without a token
(`AcquireCancelled`).

### Scan

`dpc` is the scanning goroutine: `open`, `list`, `drain` (the select of
`drainAndWrite`), `begin`/`insert` (`flush`, `WriteBatch`, `writeChunk`),
`finish`, `fail` (the two `FinishRun`), `returned`. `rows` and `status` are what
is committed; `tx` is the table as the open transaction sees it. A batch fits
in one chunk because `scanBatchSize` (200) is below the store's `batchSize`
(500). Statements check the context first; a statement or commit under way when
the context is cancelled ends with an error that wraps `context.Canceled` or
does not (`ChunkCancelled`). The check of the context by `Commit` is one step
with the commit.

A killed process keeps exactly `rows` and `status`, so every invariant over
them is also a statement about crashes; there is no separate crash action.

`ReturnsOutcome` is the bridge to `ScanMany`: whatever ends a scan, the pair of
returned error and run status is one of `RunOutcome!Outcomes`.

### ScanMany

One loop serves both modes, as the code has the same loop twice: `terminal`
chooses between `runScanMany` itself (which does not look at the context at the
head of its loop and computes the verdict) and the goroutine of
`runScanManyUI` (which does, and reports by messages). A scan is one step that
ends with an outcome of `RunOutcome`. Bubble Tea is external and modelled from
its use: `Send` hands a message to the event loop, or drops it when the program
is over or its context cancelled. A message handed over is handled in the same
step: the short time in which a run is open and the view does not show it yet,
which `Send` on an unbuffered channel allows, is not seen. `tea.Quit` is a message that takes effect
later (`upc = "quit"`), and messages in between are still handled; `Run`
returns an error when the context it was given is cancelled. The deferred
`st.Close` may run while the goroutine is inside a scan, whose writes then meet
a closed handle.

### Database and Bundle

`pc[p]` is the statement process p runs next: `pragma`, `version`, `script` (a
`CREATE TABLE IF NOT EXISTS` for each name in `Script`, then the row of the
version), `record` (migrate's own `INSERT OR REPLACE`); then `open` (OpenRun and
the choice to scan on or exit), `scopeRow`, `commitRun`, `scan`, `chunk`,
`fail`. A statement outside a transaction commits at once; a transaction takes
`lock` with its first write, and others see `runs`, not its `draft`. A statement
that meets the lock waits or fails (the program sets no busy timeout; a waiting
statement is one that is not taken yet). Any statement may fail and any process
may be killed between two of them (`Crash`), after which SQLite keeps what was
committed. `currentSchemaVersion` takes every error for version 0, so a process
may run the script again at any time. What rows a scan writes is `Scan`'s; here
it is any growth of its run, and `ImplementsLedgers` shows that what `Scan`
promises for one process holds for every run of a shared file.

In `Bundle` the database is two files. A commit goes to the `-wal` file
(`behind`); a checkpoint brings the `.db` file up to date, after which a commit
may write the `-wal` file from its start (`Uncover`); the last process to close
checkpoints and deletes it, a killed one does not. `lacks` says that the copy
made so far lacks a commit, `covered` that the `-wal` file still has all of
those. The copy of one file is taken as one step. The `-shm` file is an index
SQLite makes again, and the log and the newest workbook are plain files.

### Panes and Tui

A screen is a record of `stack`, the top last; a Frame holds its left pane, the
panes before it (`leftHistory`), its Detail (`right`, `NoDetail` for nil), focus
and zoom. The operators of `Panes` are the handlers of the parts, from a part to
the parts it may become: the cursor of a bubbles table is external, and
`SetRows` may leave it on any row or on none.

A handler returns commands; Bubble Tea runs each in its own goroutine and puts
its result into the queue. `msgs` is the bag of both, commands under way and
messages not yet taken, so results arrive in any order, between any two keys. A
message carries what the program's message carries; the run and kind in a load's
result are what its rows are *of*, and no handler looks at them, as no handler
can. `tea.Sequence(Pop, SwitchRun)` is one message that sends the second only
after the first is taken (`PopThenSwitch`).

- `AppMessage`: what `App.Update` handles whatever is on top and whether or not
  the palette is open (push, pop, switch, the palette's choices, quit).
- `ScreenMessage`: everything else goes to the palette while that is open
  (`BarSwallows`), otherwise to the top screen only. A Frame gives it to both
  of its panes and looks at the selection again (`FrameTakes`).
- `Key`: the palette first, then the router's q and :, then the top screen. A
  Frame leaves its own keys alone while the left pane absorbs them.
- `Tick`: the tick of a spinner, which Frame treats as any message.

`corpus` and `bar.run` are the run whose resources the palette suggests.
History variables, read by properties and never by a handler: `asked` (where the
quit key was pressed), a list's `goal` (the row the palette asked for), a
graph's `loaded` and a Frame's `counted` (the run its totals were counted for).

Left out of both: sizes, help, toasts and what only makes a toast, exports, the
text typed into palette and filter (any suggestion, any subset of the rows), the
order of the rows and a Detail's tabs. `NewFrame` reads the totals when it is built; a
failure of that query only changes two numbers and is left out.

### ListView, Palette and Lookup

`ListView` is what `Panes` abstracts from: `visible` is the sequence of rows in
the table, `cursor` a place in it (0 when SetRows has lost it), `sort` the column
and direction, `filterIn` the text of the input, which Esc leaves there when it
closes it, `widths` the columns and `tall` the table's lines. A stable sort is
modelled by what it guarantees (`Arranged`): ordered where the order decides,
otherwise as the rows were. Scores of fuzzy search and cells of columns are
constants. `shown` is a history variable, the pattern last applied: it is not
always the text of the input, which Esc leaves there, / empties, and an answer
that shows all rows does not touch. `AsPane` maps the list on the screen, and
`Under` those it was put over, to the records of `Panes`, and `ImplementsPane`
shows that every step is one of `PaneList`, that is, one of the handlers `Tui`
and `SingleView` are built from, with a history that grows by a swap, is gone
back by Esc and forgotten by a switch of runs, or invisible.

`Palette` is the command bar: `Found` is the pool of suggestions for a text,
aliases first; `selected` an index into it and `offset` the window's. `Lookup`
puts both under `App.Update`: an open bar has the keys and all messages but the
router's. `window` is App's size, `frame` what the Frame was told and
`lastBodyShrink` the bar's lines at that time. Sizes travel on a resize
(`WindowSize`), when the bar opens or closes (`syncBodyShrink`), and to a list
that is built (`NewList`'s last parameter, `initLeftWithSize`). A list in
`leftHistory` is told none: `CommitList` keeps the list as it is once the bar's
closing has reached it (`Told`, `Leave`), and `FrameEsc` puts it back with the
lines it had (`Show`). `sizedFor` is a history variable, the window of the last
size the list on the screen was told. Drawing is an action (`Draw`), since it
hands the list its width. One Frame is on the stack, with the focus on the list.
The Overview at the bottom of the history has no size that matters here: Esc on
the last list and Enter on a kind are one step (`DrillAgain`), a suggestion
committed on the Overview keeps no list (the second disjunct of `Leave`), and the
messages between a suggestion and the new list are `Tui`'s.

### SingleView

`sv` is the screen: the list of scopes, the overview, the resource list and the
Detail, with what each was built for (`run`, `listFor`, `detailFor`) and the
focus. `NoPane` and `NoDetail` stand for nil. A pane does not call the next one.
After any message or key that is not one of its own, the view compares each
cursor with what the pane below was built for, and sends a message where they
differ (`Cascade`, the code's `syncFromSelections`); the message replaces the
pane below (`ScopeSelected`, `WithList`, `WithDetail`), whose load is again a
message, and so on down. `tea.Sequence` is a sequence in the bag `msgs`: its tail
is sent once its head is taken.

A tick of a spinner is a message like any other here, because it too runs the
cascade; a pane that waits for its load has one tick on its way, which
`StillLoading` sends again. A tick does not name its pane. A scope is identified
with its latest run, the only one this mode shows; at most one screen is above
the view. `wanted` is a history variable: the kind the palette asked for last,
until a cursor above the list moves.

### Inventory

The constants are a project: its resources with type, name, location and what
they refer to (`Uses`). `InventoryAssumption` says what the cloud guarantees of
them: which types are named within the project, which within a location. An id
is a path of segments and a reference the sequence of pieces between its colons
(`RefString`), so that two references are equal here when their texts are; a
reader splits it again (`parseRef`).

`translateResult` is the stub of a resource and `Enriched` what the enricher of
its type sends. `Stub` and `Detail` insert them, in any order within a phase, and
a listing may fail at any point (`StrictSearchFails`, `GracefulSearchFails`,
`EnricherFails`). Batches are left to `Scan` and goroutines to `Provider`: no
property here depends on them. `Resource.of` is a history variable, the
resource a row was made from; no code reads it.

### Export

`runs` is the table of runs with their resources and edges. Scans of other
processes are what `RunLedger` allows (`WriteRow`, `WriteEdges`, `FinishRun`),
and `OpenRun` takes the start before the row is inserted, so rows may come in
another order than starts. An instant is a number of hundredths; its text
(RFC3339Nano) is modelled by `Second` and `Digits`, as SQLite compares it.

`Resolve` answers one question of `ask`, the run or scope an option named,
`Every` for `--export-multi` alone, `Newest` for `--export`. A workbook is then
read by `todo`, one query a step. `Fail` stands for every failing query, the
saving of the file and a cancelled context: no workbook.

## 3. Runs

| Run | Instance | Shows |
|---|---|---|
| `provider_cancel` | 2 enrichers, 1 token, buffer 1 | violation: after a cancellation the channel may never close |
| `scan` | 3 resources, 5 listings, batch of 2, buffer 1, failing API and database, one signal | `CapRespected`, `ClosedIsQuiet`, `ClosedIsComplete` of the provider inside it; `OkRunComplete`, `AtMostOneBatchAtRisk`, `ReturnsOutcome`, refinement of `RunLedger`, `NeverClobber`; a scan with only denied APIs succeeds; the command returns |
| `scan_interrupt` | the same | violation: an interrupt may mark the run `failed` |
| `scan_many` | 3 scopes, both modes, with and without `--fail-fast` | `OneInterrupted`, `FailFastStops`, `ExitZeroMeansComplete`, `ViewFollowsRuns`; the command ends |
| `tui_patient` | 2 runs of unequal size, 2 kinds, queries that may fail, 4 screens, history of 1; the user waits | `EveryLoadArrives`, `PartsShowTheirOwn`, `JumpLands`, `EndsOnlyWhenAsked` |
| `tui_hasty` | 2 runs, 1 kind with 1 row, 2 messages pending when a key comes, 3 screens, ticks | `FrameIsOneRun`, `DetailIsSelected` |
| `single_patient` | 2 scopes, 2 kinds with one row each, one kind missing from a scope, queries that may fail; the user waits | `PanesAreOneRun`, `CascadeSettles`, `SvShowsItsOwn`, `CascadeEnds` |
| `inventory` | 9 resources of one project and a subnetwork of a host project, listings that fail | `StubsAreReplaced`, `RowsTellApart`, `EdgesEndAtRows` |
| `inventory_twice` | the same | violation: a cluster has two rows |
| `export` | 2 scopes, 3 runs, 2 resources with an edge, starts of which two share a second; at most 4 rows in all | `BookIsSound`, `LatestIsOne` |
| `lists` | 1 kind with 3 rows in one run and 2 in the other, 2 filter patterns, 4 windows, a palette with 2 texts that shows 2 of at most 3 suggestions, 1 list under the one on the screen | `RowsAreCurrent`, `HighlightOnScreen`, `ColumnsFillPane`, `OnlyEscBringsOldLines`, refinement of `PaneList` |
| `database` | 2 processes at a time, the 5 tables of the schema, at most 3 starts, 2 runs, 2 scopes, one bundle, a kill or failure at any statement | `SchemaIsWhole`, `RunsAreWhole`, `LockIsBrief`, `QuietBundleIsWhole`, refinement of `RunLedger` for each run |

Type invariants, `RootStays`, `TableFollowsWindow` (which `OnlyEscBringsOldLines`
implies for states a step leads to) and `PickSurvives` (one operation, which the
repository also tests) have no run: section 4 has them proved.

The bounds are the smallest that make the interesting cases happen. `scan` and
`provider_cancel` have one enricher more than tokens, so a goroutine waits for a
token, is spawned without one after a cancellation, and blocks in its release;
with a buffer of 1 a second send blocks, and the sends of both enrichers reach
the channel in either order. A resource is listed by both phases (clobbering
needs that), one by phase 1 only, one by a second listing only (an enricher that
stops early loses exactly that). `scan` has a batch of 2 with 3 resources, so
there is a full batch, a partial last batch and an empty flush, and a stub and a
detail of one resource may share a batch or not. `scan_many` has 3 scopes: one before, at and after the one that
fails, is interrupted or is quit; `RecentCap` 2 overflows with the third;
`MaxCount` bounds only the resources a row counts. `MCTui` has a run where a kind
is missing from the overview and a row that only the newer run has. With two
runs there is one to come from and one to switch to. The bounds of `Tui` apply
when a key is pressed: `MaxPending` messages pending, `MaxStack` screens (pushes
under way included), `MaxHistory` panes to go back to; what handlers then do is
unbounded. Two pending messages are what two quick keys leave behind, and every
violation below needs no more. A *patient* user presses a key only when `msgs` is
empty and every spinner has stopped.

The properties of `tui_patient` and `single_patient`, but for `PanesAreOneRun`,
are about that user only. The overlaps that make them hard for any other (a
palette opened or a screen covered during a load, a late answer to a pane that
was swapped out, a jump used up by another list's answer, two quick Esc) are
excluded there; the second table below and the list after it say what they do.
`FrameIsOneRun`, `DetailIsSelected` and `PanesAreOneRun` hold for any user:
`tui_hasty` checks the first two so, and `PanesAreOneRun`, which TLC checks for a
patient user, is proved for any (`PanesFollowTheRun`).

In the single view `MaxPending` also bounds the ticks that send more: without it
the ticks of one slow query could fill the bag.  One row for each kind is
enough for a list's cursor to be on the row or on none, and a kind the second
scope lacks makes the overview's cursor move by itself.
`inventory` has a VM, a disk and a cluster of one name, a network and a
subnetwork of one name, and functions of one name on two platforms and in two
regions: whatever a key leaves out makes two of them meet. `export` has two
starts where the digits of one begin the other's, which is where text and time
disagree, and a third in a later second. Two runs are enough for a workbook that
is read while either is written; the third run, without rows, is for the order
of three and for a scope with two runs beside one of the other scope
(`MCExporting`). Four rows are two runs with a resource each, or one run with
both resources and their edge; scopes are interchangeable (`MCSymmetry`).
In `lists` three windows are of one height: one where a column is at the floor of
four cells and the table too wide for the pane, one where the columns share the
width and rounding leaves a cell over, and one where they fit. The fourth is so
low that the floor of the body's height applies: in the others the table has a
line for each of three rows, in this one, and under the open bar, it has not. Of
the filter patterns one ranks two rows and hides the third, the other finds two
equally well; two rows share a cell, so a stable sort has something to keep. A
suggestion more than the palette's window makes the window move. One list in the
history (`MaxHistory`, which bounds `Leave`) is enough to be restored wrongly once,
and more differ only in how often. `MCBounded` keeps the instance small: filters,
sorts, redraws and answers of other lists do not meet a list in the history, one
restored in another window, the low window or a text in the palette. What each of
them does there is independent of the others in the code, and the theorems of
section 4, which have no such bound, cover the rest.
In `database` two processes are alike (`MCAlike`), and a process that is gone is
started again: three starts are two racing ones and one that opens what a killed
one left. Two runs are one of each of two processes or two of one; one resource
is enough for rows to be missed in a copy.
`tui_hasty` leaves out the quit key (`MayQuit`), since its properties are about a
program that goes on.

Deadlock is checked in `lists`, and not in the others: a scan that has returned,
a command and a program that have ended stop by design, as do a listing that is
over, an export that has saved or failed and processes that have all exited; the
stuck goroutine of `provider_cancel` is the subject of that run.

### Fairness

`PFairness`, `Fairness`: weak fairness of the lister, of each enricher, of the
scanning goroutine and of the event loop: Go schedules runnable goroutines, and
remote calls and SQL statements are taken to end, with an answer or an error.
`FairSpec` of `Tui`: weak fairness of taking messages, that is, queries end and
the event loop does not stop while something is in its queue.
`FairSpec` of `SingleView` is the same.
No fairness is assumed for a signal, a key or a failure. The violation run
`provider_cancel` is a temporal property and holds the code to its claim under
the same fairness, with a reader that keeps reading.

### What the violations mean

Each is listed under `findings` in `PROJECT.json` with the line it contradicts.
The semaphore's `break` only bites after a cancellation and the command still
returns (`ScanReturns`), so a user sees it only as a leaked goroutine. The
classification of interrupts decides what a user finds in the database after
Ctrl-C. Every GKE cluster is stored, counted and exported twice.

The modules also state properties that documentation or comments promise and
that the program does not keep; their behaviours were found with the instances
above, and they have no run of their own:

| Property | How it fails |
|---|---|
| `InterruptCommitsReceived` (`Scan`) | on a cancellation `drainAndWrite` flushes with the context that was just cancelled, so the flush fails and up to a batch of received resources is dropped (`main.go:335`, against `main.go:34` "so a Ctrl-C during a slow Asset listing still commits recent rows") |
| `ExitTellsFailure` (`ScanMany`) | the quit key ends the terminal mode with exit code 0 although a run failed (`scanui.go:351`, against README.md:584 "Exit code is non-zero if any project failed") |
| `PartsShowTheirOwn`, hasty user | a list takes the rows another list asked for: the message names neither (`resources.go:213`, against `frame.go:213-215`) |
| `EveryLoadArrives`, hasty user | while the palette is open a load's result goes to it, and it drops it; the pane waits for ever (`app.go:206`, against `frame.go:213-215`) |
| `QuitAlwaysWins` | q is text while the palette is open (`app.go:206`, against README.md:417 "always wins, even with the cmdbar open") |
| `JumpLands`, hasty user | `pendingJumpID` is used up by the first `resourcesLoadedMsg`, which may answer another list; the list's own answer leaves the cursor elsewhere (`resources.go:221`, against `core/screen.go:75-77`) |
| `GraphIsLoaded`, hasty user | g before the edges have come opens a graph without any, and `GraphView` ignores `edgesLoadedMsg` (`frame.go:202`, against `graph.go:22`) |
| `EndsOnlyWhenAsked`, hasty user | two quick Esc at the root pane send two pops; the second finds one screen left and quits (`app.go:149`, against README.md:414) |
| `FilterKeepsKeys` | the router takes q, ? and : although the pane absorbs keys (`app.go:218`, against `leftpane.go:29-30`) |
| `AbsorbingPaneHasFocus` (`MaxHistory` 2) | Esc restores a list whose filter input is open while the Detail has the focus, and then no key closes the filter or moves the focus (`frame.go:189`) |
| `StatusbarIsLive` | a switch of runs keeps the totals of the run before (`frame.go:145`, against `core/screen.go:19`) |
| `DetailIsLive` | Esc restores a list and sets `right` to nil; there is no Detail until the next key (`frame.go:193`, against README.md:192-193) |
| `CorpusFollowsRun` | a pop uncovers a Frame of another run and the palette keeps the corpus of the popped one (`app.go:152`, against `app.go:140-141`) |
| `OneFrame` | a run picked from the history above the scopes modal makes the modal push a second Frame (`scopes.go:132`, against `core/screen.go:89-91`) |
| `SwapReachesFrame` | with a modal over the Frame the swap goes to the modal, which drops it (`app.go:235`, against `core/screen.go:74`) |
| `AliasStays` (`SingleView`), any user | a kind picked in the palette is replaced by the overview's with the next message: the pane differs from the cursor above it, so the cascade rebuilds it (`singleview.go:400`, against README.md:244-246 "`:alias` still jumps the resource pane to that kind") |
| `SortHidesNothing` (`ListView`) | Esc closes the filter and shows all rows but leaves its text, and the next s filters by it again (`resources.go:375`, against `resources.go:360` "the visible rows pick up the new ordering") |
| `NothingHiddenSilently` (`ListView`) | from then on rows are hidden and no line of the screen says so: the filter is drawn only while it is open (`resources.go:467`) |
| `ColumnsFit` (`ListView`) | the floor of four cells makes the columns wider than the room when one of them is much narrower than its share (`columns.go:113`, against `columns.go:87-88` "fits inside availableWidth") |
| `TableFitsTerminal` (`Lookup`) | Esc restores a list from `leftHistory` and tells it no size (`frame.go:189`; a resize goes to the panes on the screen only, `frame.go:152-162`): left in a higher window, its table has lines, and maybe the cursor, below the end of the terminal until the next resize or the palette's next opening; left in a lower one, it leaves lines unused (against `scopes.go:292-293` "never more than the terminal can actually show"). `OnlyEscBringsOldLines` says that this is the only way |
| `TableIsOnScreen` (`Lookup`) | in a window below 100 columns the panes are one above the other and the list's box has half the body, but the table is as tall as the whole body; the rows and the cursor below the box are clipped (`frame.go:385`, against `scopes.go:292-295`) |
| `SuggestsCurrentRun` (`Palette`) | a load that ends while the palette is open changes the corpus and not the suggestions (`cmdbar.go:122`); Enter then picks a resource of the run before |
| `BundleIsAState` (`Bundle`) | the files of the database are copied one after another while a scan may commit, checkpoint and write the `-wal` file from its start: the copy may lack what was committed before it began (`exportall.go:46`) |
| `RefRoundTrips` (`Inventory`, `ScopePieces` = `MCDomain`) | the id of a project of a domain has a colon, and `parseRef` splits it in two and takes kind and id together for the id (`reads.go:394`); for other projects it holds |
| `NewestFirst` (`Export`) | of two runs of one second the older is listed first when its digits begin the other's: RFC3339Nano drops trailing zeros and Z follows every digit (`store.go:82`, against `main.go:488` "newest-first") |

`SingleView` does not keep these for a hasty user:

- `PanesAreOneRun` holds, but `CascadeSettles` does not: of two quick moves the
  answer for the older scope may come last (`singleview.go:418`), and an answer
  that the open palette swallows is never asked for again, because
  `ScopeListPane` recorded the cursor when it asked (`scopelistpane.go:105`).
- `SvShowsItsOwn`: as in the Frame, rows name neither run nor kind.
- A run picked in the scopes modal sends `SwitchRunMsg`, which `SingleView` does
  not handle (`TakeSwitchRun`): the panes stay as they are, for any user.
- The palette has no resources to suggest before a first push or switch, since
  only these load its corpus (`app.go:140`).

Read in the code beside the modelled parts, and not checked:

- A Detail that a moved cursor builds is told no size until the next resize or
  the palette's next opening or closing (`frame.go:302`, `detail.go:201`); its
  viewport is taller than the Frame's box, so its last lines are clipped
  (`detail.go:144`). A pop does not resize the screen it uncovers (`app.go:148`).
- With a second migration, `currentSchemaVersion`, which takes a failed query for
  version 0, could set the recorded version back; today there is only one.
- `runCheck` exits with 0 when the preflight itself fails (`main.go`, `runCheck`).

`Inventory`, beyond the cluster:

- `RowsTellApart` is claimed for the types in `ToldApart` only. VMs and disks of
  one name in two zones, subnetworks and load balancers of one name in two
  regions, and stub-only resources of one name share a row: the last one written
  wins, and the edges of all of them start there (`compute.go:248`,
  `disks.go:139`, `networks.go:228`, against `inventory/resource.go:3` "canonical
  cross-provider identifier").
- `EdgesEndAtRows` excepts a host project's resources. A VM's edge to a subnetwork
  of a Shared VPC is written with the VM's own project (`refs.go:9`): it ends
  nowhere, or at a local subnetwork that has the same name.

`Export`, seen while modelling, by design or by neglect:

- The workbook of a run that is still running mixes moments: its sheets may have
  more than its counts. `BookIsSound` promises only "at least".
- A combined workbook lists the edges of runs whose rows it leaves out.
- `--export-multi` with one run or scope named twice has it twice, and twice in
  the total.
- A newer run that failed or is running hides the last complete one of its scope.

## 4. Proofs

TLAPS checks every theorem below for all values of the constants (any set of
resources and listings, any number of enrichers and scopes, any capacity),
under the assumptions `ProviderAssumption`, `ScanAssumption`,
`ScanManyAssumption`, `PanesAssumption`, `TuiAssumption`, `SingleViewAssumption`,
`InventoryAssumption`, `DatabaseAssumption`, `ListViewAssumption`,
`PaletteAssumption`, `LookupAssumption`, `ExportAssumption` and
`FirstKindAssumption` (some kind of a run has the most resources), which TLC
evaluates in the runs. They say what type a constant has and what the code's own
constants are (a capacity is at least 1, a column has a natural width); none
bounds the size of an instance.

| Theorem | States |
|---|---|
| `ProviderTypeCorrect`, `PoolCorrect`, `NoSendAfterClose`, `ClosedMeansComplete` | types; at most `EnrichCap` running; no send after the close; a closed channel of an uncancelled scan is complete |
| `ScanRunsProvider` | a scan is a behaviour of `Provider`, so the above holds inside it |
| `ScanTypeCorrect`, `DetailNeverLost`, `OkMeansComplete`, `ScanImplementsLedger`, `RiskIsBounded`, `ScanReturnsOutcome` | the safety properties of `scan` |
| `ScanManyTypeCorrect`, `FailFastCorrect`, `OneInterruptedCorrect`, `ExitZeroCorrect`, `ViewCorrect` | the safety properties of `scan_many` |
| `TuiTypeCorrect`, `RootCorrect`, `OneRunCorrect`, `DetailCorrect` | types; the root screen stays; a Frame is of one run; the Detail is of the row under the cursor, for any user and any number of pending messages |
| `PatientInvariant`, `LoadsReachTheirOwner`, `PartsAreTheirOwn`, `JumpsLand`, `EndsWhenAsked`, `GraphsAreLoaded` | for a patient user, whatever is on the stack and whichever queries fail: what the one pending message is for; every load arrives, every part shows its own, a jump lands, only the quit key ends the program, a graph is drawn from loaded edges |
| `SvTypes`, `PanesFollowTheRun` | types of the single view; its panes are of the run it shows and its list of the kind it was built for, for any user |
| `CascadeInvariant`, `CascadeReachesTheBottom`, `PanesShowTheirOwn` | for a patient user: the phases of the cascade; when nothing is pending every pane has loaded and follows the one above it, and shows what it was built for |
| `TypeCorrect`, `StubsReplaced`, `RowsApart`, `EdgesEnd` | the properties of `inventory`, for any project |
| `SchemaWhole`, `RunsWhole`, `LockBrief`, `DatabaseLedgers`, `QuietBundle` | the properties of `database`, for any number of processes, tables, scopes, starts and runs; `DbInvariant` is the invariant and `BundleIsDatabase` says that a bundle leaves the database alone |
| `RowsCurrent`, `HighlightShown`, `ColumnsFill`, `TableFollows`, `OldLinesByEsc`, `PickKept`, `ListIsPane` | the properties of `lists`, `TableFollowsWindow` and `PickSurvives`, for any runs, kinds, rows, filter patterns, columns, windows, palette and history: the rows are those of the pattern last applied; a suggestion the user moved to is kept; the lines are those of the window the list was last told of |
| `ExportInvariant`, `Sound`, `OneLatest` | types and the invariant of `export`, and its properties, for any scopes, resources, kinds, edges, starts and number of runs |

The arguments, in the order they depend on each other:

- *Pool.* Up to the cancellation the number of tokens in the semaphore equals
  the number of goroutines that hold one (`TokensMatch`); after it no goroutine
  enters `run` any more, because each looks at the context first. So the bound
  survives the token that the broken select never takes. `Spawned` ties the
  loop counter to the goroutines and gives `ClosedIsQuiet`.
- *Order.* No stub is behind a detail in the channel, in the batch, between
  the two or between transaction and table (`OrderInv`), since phase 1 is over
  before an enricher runs. `INSERT OR REPLACE` in that order never replaces a
  detail, inside a transaction or across them: `NeverClobber`.
- *Completeness.* Everything a listing has handed over is in the channel, the
  batch, the transaction or the table (`NothingLost`), the last flush empties
  the batch (`LastFlush`), an open transaction extends the table (`TxInv`), and
  a run reaches `finish` only from a closed channel with the context live.
  With `Progress` of the provider this gives `OkRunComplete`.
- *Ledger.* With the order invariant every commit is a `Write` of `RunLedger`,
  opening and finishing map to `Open` and `Finish`, everything else stutters.
- *Outcome.* `CancelInv`: an error that wraps a cancellation needs one.
- *Many scopes.* `LoopInv` says that scopes behind the loop have no row and the
  current one has the status its position implies; `FailFastInv` and
  `InterruptInv` extend it. For the exit code, `PlainInv` and `ViewInv` say that
  a scanned scope is complete or on the list of failed ones, in the plain loop
  at any time and in the program's model as long as nobody quits or signals;
  the program returns only after the goroutine's last message in that case.
- *Screens.* The invariant of `TuiProofs` speaks of the screens on the stack and
  of those in a push that is still pending, because a Frame is built before it
  is pushed; the lemmas about a single Frame (drill, restore, switch, swap, what
  a message does to both panes) carry it through every handler. A stale answer
  changes what a list holds, so `DetailIsSelected` needs that every handler that
  may move the cursor ends in `Synced`.
- *Waiting.* For a user who waits, a message is handled before the next key, and a
  handler returns one command at most; the two commands of a pop would need the
  root on top, where no key pops. So `msgs` is empty or one message, and `PatientInv`
  says which: either all screens are settled and the message is to change them
  (`Asking`), or all but the one on top are and that one waits for just this
  message (`Answering`). A part that waits is as it was built, which is why its
  answer cannot be another's, and why a jump still pending is the goal
  (`FrameWaits`). While the palette is open nothing is pending, so it swallows
  nothing. Each handler is followed from settled panes to settled panes or to a
  load (`SyncSettles`). `Patient` is the only hypothesis of these theorems; section 3
  says how a hasty user breaks each of the properties.
- *Single view.* `PanesAreOneRun` is inductive with the types alone, because every
  handler that sets `run` clears or rebuilds what is below and every other
  builds from `run` as it is when the message is taken. What the messages say
  matters only for their type, so of `msgs` the invariant says that it is a bag
  of typed sequences and everything else is about `sv`.
- *Cascade.* For a user who waits the types are not enough: a pane is right once
  the messages it waits for have come. `CascadeInv` gives the phases of a cascade
  and what may be pending in each. Up to the overview one message and ticks are
  (`Starting`, `Resolving`, `Counting`); below it (`Filling`) any messages are, but
  each is for the view's run, a pane that is not loaded has its answer pending
  (`Awaits`), and a cursor not yet followed has a message pending after which the
  cascade looks again (`Follows`). A message for `App` itself comes alone, to a
  view that has settled (`Handing`), and so does all that a screen above or the
  palette swallows (`Covered`). A key finds nothing pending, hence a settled view;
  each handler is then followed from phase to phase. The step that is needed
  everywhere is `Looked`: after a look at the cascade, what does not follow has
  been asked for. A list the palette asked for breaks the kinds of the answers, not
  the runs (`Unasked`), which is why `SvShowsItsOwn` leaves it out. `Patient` is a
  constant of the model: the theorems have it as hypothesis, `single_patient` sets
  it, and section 3 names what a hasty user sees instead.
- *Inventory.* A reference determines kind and id (`RefIsUnique`), whatever the
  project's id is split into. `Origin` says that a row is a stub or the details
  of a resource with that key; `Phase` that no stub is written once details have
  come; `Kept` that then the row of what was enriched is detailed and its edges
  are there. What remains is about ids alone: stub and details agree on every
  type but clusters (`Ids`), and no other resource has the id of one in
  `ToldApart` (`IdsApart`); this is where the guarantees of the cloud are used.
- *Database.* `DbInv` ties each process's position to what it holds: only the
  holder of `lock` has a draft, the draft is the table as committed but for the
  holder's own run, and every run that a process scans is its own and running.
  So a commit changes one run, by a step its ledger allows, whatever the others
  do meanwhile. For the schema, a process beyond `script` has seen every table,
  and none is ever dropped; for the lock, only positions inside a transaction
  hold it. A bundle's steps leave the variables of `Database` unchanged, so what
  is proved of it carries over. For the bundle itself, as long as no process has
  been there since the copy began (`quiet`), no commit is made, and the two
  files together have everything.

- *The view.* While messages are delivered the view is where the loop is
  (`FollowInv`): scopes behind it are shown as done, those ahead as queued, and the
  active one is the loop's as long as it is under way. After a signal messages may be
  dropped; a row shown as ok is then still behind the loop, where nothing is written
  any more (`ShownInv`).
- *Lists.* `LookupInv` is four invariants side by side. `ListInv`: the rows in the
  table are what the pattern last applied and the sort make of the answer, the cursor is no further than
  they reach, and the columns and the lines of the table are those computed for the
  sizes last told. `BarInv`: the highlight is a suggestion, and in the window.
  `SizesAgree`: every size handed down agrees with the one above, and the list's
  height with them if it was last told a size of the present window (`sizedFor`).
  `HistoryOK`: the same of each list in `leftHistory`, for the window it was left in
  and the bar closed, which it is again whenever Esc can restore the list; so Esc
  within one window restores the right lines (`TableFollows`), and any other step
  that leaves the window, the bar and the history alone leaves `sizedFor` alone
  or makes it right (`OldLinesByEsc`). That the stable
  sort keeps each row once is a lemma about permutations; that columns fill the room
  is one about sums, in which the scaled widths are compared column by column. The
  refinement of `PaneList` follows from `ListInv` handler by handler; to Esc it is
  enough that `leftHistory` has the lists as they were left.
- *Export.* `ExportInv` follows a workbook from its question to its file: what
  remains in `todo` is the end of the queries of the runs it took
  (`Progress`), and what has been read is what those runs have, or less where the
  run had not ended (`CountsAgree`, `SheetsAgree`, `NothingElse`). It survives the
  scans beside it because a run only grows and an ended one stays (`Grew`).
- *Order.* A start's text compares as a number does that is put together from its
  second and its digits, Z behind all of them. So `Before` is a strict total order on
  the starts, the runs of a scope can be ranked, and a rank that tells every two
  runs apart hits every place (an injection of a finite set into itself is onto):
  `ListRuns` has every run once, in order, and the walk of `resolveRunsForExport`
  over it keeps the first of each scope (`Walked`).

Where a proof needs induction over numbers or over a finite set, it takes the least
element of the set of counterexamples: the library's induction theorems have an
operator as a parameter, which the provers cannot instantiate.

Only model-checked: liveness (`GracefulScanSucceeds`, `ScanReturns`,
`CommandEnds`, `CascadeEnds`), which needs `ENABLED`. Every other property of a
passing run is a theorem.

## 5. Not modelled

- What a record's columns say: the translation of API records beyond ids and
  references; the columns and sheets' layout of workbooks.
- The cache of machine types and the clients made on first use. Within a scan
  each is used by one goroutine, so there is nothing to order. `sync.Once` keeps
  the first error for the provider's life: in a scan of many scopes a failed
  constructor then fails the later scopes too, while `Provider` lets each scan
  fail on its own, which includes that.
- Sizes of a Detail, of the single view and of screens that are not on top; a
  Detail's tabs; toasts and help. Rendering otherwise has no state.
- Loss of power: `synchronous=NORMAL` lets SQLite lose the last commits then; a
  killed process loses none.
- Preflight, metrics, marketplace lookups and authentication: calls that leave
  no state behind. The network below the client libraries.
- Version, about, support and banner commands, logging.

## 6. Plan

What is left, the most consequential first:

1. Sizes of a Detail, of the single view's four panes and of modals, as `Lookup`
   has them for a list; the two defects named in section 3 are the first
   properties.
2. A Detail's tabs and the toasts with their timers.
