# A TLA+ model of ayame-editor

ayame-editor is a text editor for very large files: a Rust core (`crates/ayame-core`)
that maps a file read-only and lays edits over it, an HTTP server
(`crates/ayame-cli/src/serve`) that keeps the open tabs and runs long jobs in child
processes, a command line, and a web client. What it promises is in
`docs/DATA_INTEGRITY.md` and `docs/ARCHITECTURE.md`. These modules model the parts that
keep those promises when edits, saves, jobs, other programs, crashes and power losses
meet, and the engines that read and rewrite files; TLC checks them on small instances
and TLAPS proves the main properties for every value of the constants.

## 1. Inventory

### Components, their state and operations

| Component (source) | State | Operations that change it | Module |
|---|---|---|---|
| Edit session (`edit/mod.rs`, `history.rs`) | content generation, undo and redo stacks (capped), saved marker, revision | every mutation, undo, redo, mark saved, restore | `EditHistory` |
| Overlay (`edit/overlay.rs`, `mutate.rs`, `change.rs`) | per original line: deletions, replacements, insertions before it | replace, insert and delete a line, range, rectangle, batch, rebase, change markers | `Overlay` |
| Crash log, contents (`wal.rs`, `edit/wal.rs`) | header, snapshot, transactions; the writer's replay depths and rebase source | append, snapshot, reset for a save, stage and install a compaction, inspect, replay | `CrashLog` |
| Crash log, files (`wal.rs`, `fsync.rs`) | log, temporary files, aside copy; what is synced | append, sync, staged rewrite, rename, rename aside, delete | `WalFile` |
| Crash-log policy (`serve/state/wal_policy.rs`) | writer attached or not, `recoverable`, the policy thread | open, attach, tick (sync, compact), disable, clean up, recover, discard | `CrashLog` |
| In-place save (`serve/edit.rs`, `serve/state.rs`) | snapshot, stage file, aside files, disk baseline | save, confirm, swap, commit, roll back | `CrashLog`, `SaveSwap` |
| Workspace and tabs (`serve/state/tabs.rs`, `serve/workspace.rs`) | tab order, active tab, parked tabs, find snapshot | open, switch, reorder, close, detach, save-as, sort in place, revert, recover | `Workspace` |
| External change and tail follow (`serve/state/tail.rs`, `state.rs`) | disk baseline, followed document | check, poll, install | `SaveSwap`, `Workspace` |
| Long operations (`serve/ops.rs`, `serve/actions.rs`, `worker.rs`, `temp_paths.rs`) | registry, cancel flag, child, private directories, the cached view and its guards | request, materialize or share a view, spawn, cancel, time out, drain, tidy, invalidate, sweep | `Operations` |
| User markers (`markers.rs`, `serve/markers.rs`) | line numbers, a history of their own, an export in flight | transform with an edit, undo, redo, toggle, add, clear, export | `Markers` |
| Updater (`cli/update.rs`) | release, stage directory, installed path and its siblings | resolve, fetch, verify, install, remove | `Updater` |
| Batch engines (`ops/`) | keys in memory, spilled runs, result files | read, spill, merge, publish, clean up | `Batch` |
| Line index (`index.rs`, `document.rs`) | checkpoints, count of lines | build by chunks, extend, locate | `Index` |
| Search, grep, log analysis (`search.rs`, `grep.rs`) | none beyond a finished analysis | search both ways, grep, analyse, merge a tail | `Search` |
| Analysis endpoints (`serve/analysis.rs`) | analyses with phase, source, result; their store | start, poll, cancel, navigate, tail update, evict | `Analysis` |
| Transform, split (`transform.rs`, `split.rs`) | none | replace, convert case, grep to a file, split | `Rewrite` |
| File publication (`fsync.rs`, `transform.rs`, `split.rs`, `edit/save.rs`) | stages, targets, asides | check, stage, rename, the way through the aside and back, take parts back | `Publish` |
| UI state, reuse, GUI, web client, packaging | small files, native windows, caches | see section 8 | – |

### How they interact

* A request handler takes the workspace lock for one closure and never across an await.
  Transitions that must span an await (in-place save, open, close, switch, reload,
  recover) also hold the `transitions` lock. **Edits do not**: an edit may land at any
  point of a save, of a reload's reopening, or of a compaction.
* Every committed edit mirrors one record into the attached `WalWriter` under the
  workspace lock. The policy thread stages a compacted log off the lock and installs it
  only if the document and the revision are still the ones it read.
* An in-place save does not remap the document: the session goes on over the old inode
  (under its aside name or unlinked) while the path names the saved bytes. From then on
  log snapshots are re-anchored from the mapped lines to the saved ones.
* Other programs write the path at any time; `disk_baseline` is what the session
  compares the path with.
* Searches, finds, analyses and actions that ask for a snapshot read a *view*: the mapped
  file when there are no edits, else a materialized snapshot that `find_snapshot` caches
  and they share; its directory goes with the last guard of it. They judge by document and
  revision whether what they found still speaks of the live view. Rewrites have an input
  of their own, which goes with the request.
* Long jobs run this same binary again as a child. The handler waits for its exit, a
  timeout or a cancel, then for its pipes, then cleans up. A newer build may replace the
  binary under a running server.
* A followed file grows: the index is extended from its last line, and a finished
  analysis is merged with that of the new tail.

### What is hard

Concurrency: edits against saves, reloads, compactions, analyses and exports; a save
against other programs; two updaters of one installation. Failure: an append, sync,
rename, spill or merge that fails half way; a crash or power loss between two file
operations; a client that hangs up where its handler awaits. Ordering: header reset after
the file swap, check after the streaming, cancel against timeout against exit, a release
uploaded anew between two downloads. State used after it may have changed: snapshots
taken under a lock and used without it, a baseline read later than the file, a result
judged again before it is answered. Boundaries: an unterminated last line, a hit across
a chunk, half of a two-byte character, undo past the stack limit, more runs than a merge
takes. Liveness: every started analysis and job must end. `PROJECT.json` lists each
hazard at its line.

### What makes each component correct

* Edit session: a clean session shows what is on disk; undo and redo retrace the views.
* Overlay: the view equals a sequence of lines edited in the obvious way.
* Crash log: a restart offers exactly what was being edited, with its history, and
  nothing else; compaction is invisible; a log never replays onto other bytes.
* Log files: whatever interrupts a rewrite, a reader finds one complete log, never older
  than what was committed (crash) or synced (power loss).
* In-place save: neither the file nor the saved bytes are ever without a name; other
  programs' writes are not buried.
* Tabs: edits leave a tab only into a file, a log, or on request; readers see the view
  they asked about; a live session's log would give its view back.
* Long operations: an answer is true of its child and target; what a child reads stays
  while it runs; nothing of a request outlives it but a shared view that others hold; a
  request to a living server is answered.
* Markers: a bookmark stays with its line through every edit and its undo.
* Updater: the installed path holds a whole, verified build at every moment.
* Publication: whatever fails, a complete old or new copy stays, and the answer is true.
* Engines: independent of memory, chunking and growth, equal to the plain definition;
  search, grep, analysis and rewriting agree on what matches.
* Analyses: an answer speaks of the live text; every scan ends in a phase a poll shows.

## 2. Plan and state of it

| Modules | Abstract specification | State |
|---|---|---|
| `EditHistory`, `CrashLog` | – | checked and proved |
| `WalFile` | `AtomicLog`: one log that moves forward | checked, refinement proved |
| `SaveSwap` | – | checked and proved |
| `Overlay` | `ViewHistory`: a history of whole views | checked, refinement proved |
| `Workspace` | – | checked and proved |
| `Operations`, `Markers`, `Updater`, `Batch` | sequential definitions in `ResultExact`, line identities in `BookmarksFollow` | checked and proved |
| `Index`, `Search`, `Rewrite` | tables of lines, the hits of the whole file | checked; the index, the searches, the merging and the pieces proved |
| `Analysis`, `Publish` | – | checked and proved |

What could still be added, in this order: proofs about the rewrites of matches and the
conversions; power loss in `SaveSwap` and `Publish`; several rules in one analysis.

## 3. Modules

| Module | Models | Used by |
|---|---|---|
| `EditHistory` | one `EditSession` without its lines, as operators on a record | `CrashLog`, `ViewHistory`, `Overlay` |
| `ViewHistory` | what a session promises of its history: views left behind come back exactly | `Overlay` |
| `Overlay` | the lines: sparse events per original line, edits and their inverse steps, save streams, re-anchoring, change markers | `MCOverlay`, `OverlayProofs` |
| `CrashLog` | one file: session, writer, log contents, in-place save, compaction, tab parking, close, shutdown, crash, recovery | `MCCrashLog`, `CrashLogProofs` |
| `AtomicLog` | what the log's files promise: versions `held` and `secured` that only move forward | `WalFile` |
| `WalFile` | the log's directory entries and file contents, file operation by file operation | `MCWalFile`, `WalFileProofs` |
| `SaveSwap` | the file, stages and asides of an in-place save, with another program writing the file | `SaveSwapProofs` |
| `Workspace` | tabs, logs, files, and the requests that work on them, await by await | `MCWorkspace`, `WorkspaceProofs` |
| `Operations` | requests with a child process, their registry entries and directories, and the view they share | `MCServices`, `MCSearch`, `RequestProofs` |
| `Markers` | bookmarks beside a session's history, and their paged export | `MCServices`, `RequestProofs` |
| `Updater` | update and remove, several at once, over one installation and one release | `MCServices`, `OutputProofs` |
| `Batch` | sort, group and top with spilled runs | `MCServices`, `OutputProofs` |
| `Publish` | finished files taking their names, several writers at once | `MCServices`, `OutputProofs` |
| `Index` | the sparse line index, as operators | `Search`, `SearchProofs` |
| `Search` | search, grep, analysis and merge over a file that grows | `Rewrite`, `SearchProofs` |
| `Rewrite` | replace, case, grep to a file, split, streamed and by chunks | `MCSearch`, `SearchProofs` |
| `Analysis` | the server's analyses under clients, scans and a changing document | `MCSearch`, `SearchProofs` |

`MCServices` and `MCSearch` put modules that share nothing but the process side by side;
one of them runs in each behaviour (`part`), so one run checks them all and its states
are the sum and not the product of theirs.

### `EditHistory` and `CrashLog`

A view stands for everything a document shows; a history entry holds the view it
restores instead of the inverse steps. `revision` is replaced by `raced` flags on
whatever compares it (save snapshot, staged compaction). A file is `[ver, view]`, where
`ver` stands for the header's length, mtime and encoding: every save makes a new one.

The log is kept as what a reader would make of it: `header`, whether there are
transactions, and `replay`, the session that replaying it yields. `Appended` applies one
record to `replay` the way `wal::replay` does, so an undo record on an empty stack does
nothing and a transaction over the wrong view gives `Corrupt`. `LaidOver` is the heart of
re-anchoring: an overlay expressed in lines of one base, laid over another, is right only
if the bases are equal or it is empty.

Actions are the handlers: `Edit`, `Undo`, `Redo` (each with its log record, its snapshot
when the record cannot be replayed, or its failure), `SaveBegin`, `SaveConfirm`,
`SaveAbort`, `SaveSwap`, `SaveCommit`, `SyncFails`, `StageCompaction`,
`InstallCompaction`, `Refocus` (park and focus), `Reload`, `Close`, `Shutdown`, `Crash`,
`CrashInAttach` (between `WalWriter::create` and the snapshot), `Open`, `Recover`,
`Discard`. A write that fails drops the writer and leaves the old or the new log.

`Spec` attaches a writer (`Refocus`, `Discard`) only while the mapped document is the
file on disk. The code has no such guard; `SpecAttachAnywhere` is the code as it is, and
run `stale_attach` shows what goes wrong. Everything else is as the code has it.

### `AtomicLog` and `WalFile`

A version counts what the log was told (an append or a rewrite), what it means is
`CrashLog`'s business. A file has `upto` (what it holds), `durable` (what of it is on the
platter) and a `shape`. `dirs` is the set of directories a power loss may leave: every
rename or unlink adds one, a directory fsync leaves one. The request and the policy
thread rewrite through their own temporary files; `rename_via_aside` is stepped
through, each operation may be refused, and a crash or a power loss may come between any
two. `Reader`, what `open_wal_file` would open, is the refinement mapping: `held` is its
`upto`.

### `SaveSwap`

A version is what one write put together. `target`, `stages` and `asides` are the names
in the directory; `tracked` is `aside_files`; `baseline` is `disk_baseline`. `External`
writes or deletes the file in any state. `Open` sweeps the asides, then loads; `Install`
takes the baseline from the path, as `set_doc` does. `lost` collects versions whose last
copy this program removed, `known` those the session read or was told to overwrite,
`missed` those that landed while nobody looked (`Unwatched`): between the last check and
the new baseline of a save, between opening a document and installing it, or in a session
whose baseline could not be read.

### `ViewHistory` and `Overlay`

`CrashLog` takes for granted that a history entry restores a view; `Overlay` is where the
code earns it. `events` is the code's map from an original line (the append anchor
included) to `[inserts, replacement, deleted]`; `undo` and `redo` hold the code's inverse
steps. An edit works on a pair, the overlay so far and the inverses so far, through the
code's `_inner` functions (`ReplaceLineInner`, `InsertLineInner`, `DeleteLineInner`,
`ReplaceRangeInner`); `Commit` is `finish_change`. `ReplaceBatch` unwinds its record when
the upper edit is refused, which the code's own comment calls unreachable and a common
line grown beyond the view cap reaches. The refinement mapping gives `ViewHistory` the
view the overlay shows and, for each history entry, the view that applying the records
down to it yields.

A line's text is one of three: empty, ordinary, beyond the view cap. Columns are left
out: the ends of a range become whole lines, so that a replaced range may produce any
text there. `Written` is the byte-preserving stream, `Converted` the converting one,
`Reopened` what a reader finds in either; a line copied from the document is judged
terminated by its last byte (`NewlineByte`), as in the code. `Rebased` says for each line
of the saved file what `RebaseSource::rebase` puts there, where the code walks the
anchors and keeps running counts. `Marks` is `change_history`.

`Spec` lets a rectangle edit run only over lines that can be edited. The code stops in the
middle; `SpecRectStops` is the code as it is, and run `rect_stops` shows what that does.

### `Workspace`

`live`, `order`, `active`, `inactive` are `TabList` and the live slot, `disk` and `log`
the machine's files, `lock` the holder of `transitions`, `cache` the `find_snapshot`.
`req` holds, for each request, the handler and the await it stands at with what it took
along. What a handler does under the workspace lock is one step, what it does off the
lock between two awaits is another: `OpenStart`, `OpenLoad`, `OpenInstall`; `SaveStart`,
`SaveConfirm`, `SaveSwap`, `SaveCommit`; `SaveAsStart`, `SaveAsWrite`, `SaveAsConfirm`,
`Reload`, `ReloadPut`; `SortStart`, `SortRun`, `SortDetach`, `SortReplace`;
`RecoverStart`, `Replay`, `RecoverInstall`, `Discarded`; `TailLook`, `TailInstall`;
`ViewLook`, `ViewStore`; and `Switch`, `Reorder`, `Close`, `Detach` in one step each.
`Edit` and `OtherWrites` come at any time. A document has an identity of its own (the
code's `Arc`), a path and the file it mapped, so that a stale answer is told from a
current one the way the code does (`Unchanged`).

`LogOfLive` speaks of every live writer's log, also while the file has changed: it is
there, it gives back unsaved edits and nothing else, and its anchors count in the lines
the session mapped or saved; only that it is *on* the file needs the file to be as the
session knows it. A document that `poll_tail` mapped (`TailFollowed`) has a log with the
header and the lines of the shorter file, so of it only the unsaved edits are claimed.
`EditsKept` says of each tab with unsaved edits and of each step that the edits go on
(`GoesOn`: the same, newer, or followed by what the file gained), are in a file or a log
(`Elsewhere`), or that the step is what the user asked to do to *that* tab (`Asked`).

### `Operations`

`job[r]` is where the handler of a request stands and what it answered: input, write,
select, copy, plan, spawn, run, drain, tidy. `child` is its process, `pipe` whether anything
still holds its output, `op` and `watch` are the cancel flag and the waiter on it (`Look`
reads the flag, `Listen` starts to listen, in that order), `scratch` the private directories
by owner.

A directory is removed when the last guard of it is dropped. `holds[r]` are the guards in a
request's frame, `cache` is the one in `find_snapshot`, `others` those of finds, analyses
and tasks whose request is over; `Freed` is what a drop removes. `Materialize` gives a
rewrite an input of its own (`dirty_aware_input`); `PinView` is `dirty_view`, which a search
and an action with a snapshot use: a clean session drops the cached view, one of this
revision is shared, a stale one is dropped and a new one is written. Whether the cached view
is stale is a choice, since edits come at any time; so `Invalidate` may drop it at any time.
`Written` is the end of the task that writes, and for a view `store_dirty_snapshot`, which
replaces what another reader stored meanwhile. `Pins` and `LetGo` are a find or an analysis
that takes the cached view and ends. `Select` and `Copied` write an action's selection.

`GivesUp` is every early return before a child is planned, `Blocked` the two reasons not to
spawn a worker. `Waited`, `TimesOut` and `Canceled` are the three arms of the select;
`HangUp` drops the handler wherever it awaits, with its guards; a task that writes an input
or a view then keeps its own until it ends, and one that writes a selection has none.
`Update` replaces the binary under the server; `Crash`, `SiblingEnds` and `Restart` with
`Swept` are the sweep of dead processes' directories. An external action differs from a
worker by its process group, by descendants that may keep its pipes, and by being
registered earlier.

### `Markers`

The text is a sequence of line identities, so that "the same line" has a meaning the
line numbers do not. `Apply` is `MarkerSet::apply`,
`Replayed` one transform after another, and `Begin`, `ApplyRecord` the two directions; a batch goes from the bottom up while its markers are moved with the numbers
of the text before it. `EditFails` and `EditIsNoOp` are the roll-backs. The marker stacks
run beside the session's with the same limit. The export pins both revisions
(`PinMatches`) and reads page after page; `Lines` are the marked lines in order, `Nth` by
`Nth`.

### `Updater`

Each process has an errand, a position, what it fetched, sibling names and a staging
directory; `release` says of which upload each of the release's three files is, and
`Upload` replaces them one after another. `Signed` and `Hashed` are the two checks.
Linux renames over the binary, macOS moves the bundle aside and the new one in
(`MoveAside`, `MoveIn`), Windows copies over or leaves the work to a helper that outlives
the process. Any step may fail and any process may be killed.

### `Batch`

A line is `[odd, cells, num]`. `Read` takes one line, joins the lines of a CSV record as
`try_for_each_csv_record` does, and hands a record to `Sorting`, `Grouping` or
`Choosing`; a full memory is spilled. `BeginMerge`, `Pump` or `Fold`, `EndChunk` and
`EndMerge` are the passes of the merge with at most `FanIn` runs. `Fail` may come at any
step. `disk` is the set of files. Numbers are modelled by the order their keys have, sums
as the integers they exactly stand for.

### `Publish`

`named`, `aside` and `staged` are what each name, its aside name and each writer's stage
hold; `pub[w]` is the publication a writer is at: its manner (over a file, to a new one,
with a stage that is kept, the parts of a split), the target at hand, and where it stands
in `replace_with_staged`: `Check`, `Write`, `Rename`, and where the rename is refused
`ClearAside`, `PutAside`, `Promote`, `Restore`, `DropAside`. `DropStage` and `TakeBack` are
the callers' tidying. Each rename and removal may fail, and `PubDies` anywhere. `last`,
`before`, `owner` and `met` are history, read by the properties only.

### `Index`, `Search`, `Rewrite`

Pure algorithms over a buffer of bytes in three encodings: single bytes, lead and trail
bytes (Shift_JIS's hazards), two bytes little endian. `Build` and `Extended` are the index,
`LineStart`, `LineRange`, `LineOfByte` its readers. `Plan` is `MatchPlan`; `Hits`,
`FindNext`, `FindPrev`, `LineHits` and `Analyzed` the readers of the file, `Merged` the
merge with a new tail. `ReplacedLine`, `GreppedLine`, `CasedLine` rewrite a line,
`Streamed` and `Chunked` a file, `Parts` splits it. The one action, `Grow`, appends bytes,
extends the index and merges each finished analysis; every property compares with a plain
definition over the whole buffer. Recursion is by recursive functions.

### `Analysis`

`an[o]` is `AnalysisOperation`, `store` the bounded store, `scan[o]` the spawned worker
of an analysis, `h[c]` the handler of a client, one step per lock it takes: status reads
and then judges, navigation and hits check, work and check again, a tail update pins,
judges, un-cancels, takes the result out, scans, checks and merges. A scan may also fail or
panic: the spawned one marks the error (`ScanFails`), that of a tail returns through `?` and
leaves the update as it is (`TailPanics`). `live` is typed into,
replaced, followed (also over a file that was rewritten in place) and closed meanwhile.
A text is the original it grew from and its length; `Mixed` is a merge of parts of two.

## 4. Runs

| Run | Checks | Shows |
|---|---|---|
| `crash_log` | `RecoveryFaithful`, `HistoryFaithful`, `CountersExact`, `NoCorruptRestore`, `CleanMeansSaved`, `NoFalseOffer`, `CompactionInvisible` | A restart would offer exactly the live view, with a history that undoes and redoes through the same views; a log that still matches the file never restores a view nobody made; a clean session shows the file; nothing is offered when nothing is unsaved; installing a compaction changes nothing recoverable. |
| `stale_attach` | `NoCorruptRestore` under `SpecAttachAnywhere` | *Violated.* Parking a tab that was saved in place and focusing it again logs old anchors under the new header; after a crash they are replayed onto other lines. |
| `wal_file` | `CommittedIsRead`, `SyncedSurvives`, `LogIsAtomic` | A reader finds what was committed after a crash and what was synced after a power loss; the files implement `AtomicLog`. |
| `save_swap` | `NothingBuried`, `SwapLosesNothing` | While the file is open neither it nor a confirmed save's bytes lose their last name; a watched external write that was not read is never removed. |
| `original_swept` | `FileThere` | *Violated.* A crash between the two renames of a save leaves the original under its aside name only, and opening the path sweeps it. |
| `overlay` | `WalksAgree`, `EditsAreSplices`, `SavedReopens`, `RebaseFaithful`, `CleanShowsSaved`, `MarkersFaithful`, `HistoryRetraces` | Whatever the overlay holds, the next edit changes the view as it would change a list of lines; the separate walks agree; undo and redo retrace the views and a refused batch leaves no trace; a saved file reopens to the view; re-anchoring shows the same view over the saved file; a clean session shows what was saved, and the markers miss no change. |
| `rect_stops` | `CleanShowsSaved` under `SpecRectStops` | *Violated.* A rectangle edit refused at one row keeps the rows above it replaced, unrecorded and not dirty. |
| `wide_append` | `SavedReopens` in UTF-16LE | *Violated.* Lines appended to a UTF-16LE file are saved behind an extra newline. |
| `workspace` | `ReadIsView`, `LogOfLive`, `EditsKept` | With two files, tabs from opening and from racing opens, and three requests interleaved with typing and other programs: readers see the view that was live when they looked, the live session's log would give its edits back over the lines they were made on, and unsaved edits go only to a file, a log, or where the user said. |
| `services` | `NothingLeft`, `AnswerIsTrue`, `WorkersEnd`, `BookmarksFollow`, `ExportIsOneView`, `InstalledWhole`, `ResultExact`, `NothingStranded`, `PublishedWhole` | Long operations clean up, answer truly and end; bookmarks follow their lines and an export is of one view; racing updaters leave a whole build; sort, group and top give the exact result whatever is spilled, and leave no files; a publication that fails or is killed costs no copy, and its answer is true of the disk. |
| `search` | `IndexFollows`, `MergesExact`, `SearchesAgree`, `RewritesFollowSearch`, `PiecesMakeWhole`, `CasesKeepText`, `ServedIsLive`, `AnalysesEnd`, `InputStays` | A grown index and a merged analysis are those of the whole file; every way to look for a needle sees the same hits and a replacement rewrites exactly these; pieces are the whole; conversions keep characters; answers speak of the live text and every scan ends; two readers of the cached view build it, share it and replace each other's, while finds take it and the cache lets go: what a running child reads stays. |
| `wide_replace` | `ReplaceIsSearch` | *Violated.* A literal replacement in UTF-16 rewrites halves of two characters that searching does not find. |

### Bounds

* `crash_log`: two contents (symmetric), `HistoryLimit` 2, so both stacks overflow;
  `MaxGen` 4, so an edit can follow an undo past a save past an edit; `MaxVer` 2, so a
  snapshot can be re-anchored twice. About 940 000 states. One save and one staged
  compaction are in flight at a time; the transition lock and the single policy thread
  justify it, except that two saves may stream at once, and then the second is refused or
  saves the same bytes.
* `wal_file`: `MaxTold` 4, enough for an append under a staged compaction, its install
  and a rewrite that meets the aside of a failed one.
* `save_swap`: `MaxVersion` 3, two external writes around a save or two saves around one.
* `overlay`: a document of two lines, the second beyond the view cap and unterminated,
  views of up to three lines (`MaxLines`), pastes of one and two lines, two committed
  changes (`MaxEdits`) with undo, redo and a save at any point between them. A property of
  an edit is stated for *every* edit from every such state, so three edits in a row are
  covered; two changes make the saved and the live overlay diverge in both directions. The
  stacks do not overflow here: `crash_log` covers that.
* `workspace`: two paths; one request that opens, one of any other kind, one of any other
  kind but reordering; two new contents (`MaxText`) typed or written, so an edit and a
  foreign write, or two of either, fall between any two awaits of any two handlers. About
  2.85 million states.
* `services`: one request of each of six kinds (requests share the registry, in which an id
  is fresh, and the cached view, which two readers share in `search`); texts of up to three lines and four line identities, marker limit,
  history and page size 2, 2 and 1, so each overflows; two updaters, on three platforms,
  with and without a key; every document of up to five lines of three kinds, memory of two
  keys and merges of two runs, so a sort of five needs two passes; two
  writers, two names (the parts of a split), two publications over names with and without
  a file and a forgotten aside copy, so a publication follows one that died, or runs
  beside another over the same name or the other one. About 1.5 million states, 1.2
  million of them of `Publish`.
* `search`: files of up to six bytes (eight in UTF-16) that grow by pieces which split
  lines, characters and newlines; a checkpoint every second line, chunks of two bytes, so
  every boundary falls inside something; two bins and two hits, so both overflow. Two
  analyses in a store of one push each other out, or two clients race for one, over two
  mapped documents. Two readers of one view, a search beside another search or an action
  with a snapshot, on a server that nobody cancels, updates or kills, whose actions leave no
  process behind (`Calm`): a view built by one can be shared by the other, replaced by the
  other's, pinned by a third reader (a find, `others`) and dropped by the cache, and the one
  who built it may end first. About 142 000 states; one of these parts per behaviour.

### Fairness

Two runs claim liveness, under weak fairness of the server's own steps only.
`WorkersEnd`: the steps of a handler in a living server, its timeout among them
(`Handles`), because the async runtime polls a task that can go on and its timer fires.
Not fair: the client's requests, cancels and hang-ups, the child, the crash, the update.
`AnalysesEnd`: the steps of a spawned blocking scan (`ScanSteps`) and of a tail update
that has begun its scan (`TailSteps`), because these run on threads of their own to their
end; the clients, the document and their other handlers are not fair. A tail update whose
client hangs up, or whose scan panics, is never ended by anyone, and `AnalysesEnd` says so.

## 5. Theorems

The proofs assume what the modules assume of their constants and no more: the contents
do not include `Corrupt`, `None` is no record or number, the bounds are naturals, a merge
takes at least one run (`MERGE_FAN_IN` is 64), there is at least one analysis; a replaced
range ends no earlier than it begins (`range_line_edit` and `batch_line_edits` refuse the
others with `checked_sub`) and its text has at least one line (`split('\n')` gives one);
the marker history keeps at least one record (`MARKER_HISTORY_LIMIT`), and a text may have
the two lines the first state has; in `Overlay`, `None` is no text, texts put in are sequences of
texts, a last line without bytes is an ended one (`index.rs` counts no other), and the stacks
hold at least one entry (`OverlayBoundsAssumption`; `HISTORY_LIMIT` is 256); in `Search`,
the stride of checkpoints and the chunk of a build are at least one (`.max(1)` in
`index.rs:123,142,203`) and so is that of a backward search (`FIND_PREV_CHUNK`, 64 MiB), what is appended to a file are bytes, a histogram has a bin
(`ANALYSIS_HISTOGRAM_BINS`), and a query has at least one character, each of at least one byte
(`search.rs:192` and `search.rs:469` refuse the empty one), in UTF-16 whole units; in `Rewrite`, at least one line
is taken from the index at once (`BATCH` is 8192); in `Batch`, a line is cells of bytes and
either a number or `NoNumber`, a record may be left open for at least one line
(`MAX_RECORD_LINES`), and a task has at least one column, one only to group or to choose by
(`fields.rs:12-32`), while it may ask for the first *none* (`top.rs:49`). Each property below is proved for all values of the
constants.
None of them is inductive as it stands; the invariant that is, is named here.

* `CrashLogProofs`. Every property of run `crash_log`: nine theorems,
  `RecoveryIsFaithful`, `HistoryIsFaithful`, `NothingCorruptRestored`, `CleanIsSaved` and
  `CompactionIsInvisible` the most telling. What an undo restores depends on what the
  generations in the stacks meant when they were pushed, and a log without a writer
  becomes the session again when it is recovered. So the invariant says that a session's
  entries of one generation show one view (`Sane`, `Pinned` to the file for the saved
  generation); that *every* log, with a writer or not, replays to such a session over the
  bytes its header names (`LogOK`); that a writer's log mirrors the live session, equal on
  top and with stacks that are what is left of the live ones when older entries are
  forgotten (`Aligned`), its snapshots anchored in the bytes of its header; and what a
  save, a staged compaction and an undecided recovery remember as long as nothing raced
  them. One lemma per action keeps it.
* `OverlayProofs`. `HistoryIsRetraced`: `Overlay` implements `ViewHistory`; and
  `WalksAlwaysAgree`, `EditsSplice`, `OverlayStaysNormal`, `CleanShowsTheSaved` and
  `SavesReopen`, for any document, any texts and any edits; `NormalForm` (of
  `OverlayStaysNormal`) is proved and no run repeats it. The invariant (`Sound`) says that
  there is one overlay for each generation, `v[g]`, such that the live and the saved one, a
  snapshot being written and every entry of both stacks are those of their generations, and
  that the record of each entry leads from the overlay above it to its own (`Chained`). The
  stacks alone are not enough: an undo moves an entry to the other stack with a record made
  anew, so what must stay fixed is the overlay a generation *had*. Every overlay is `Tidy`:
  events within the document, none of which says nothing. This is what makes a record exact
  (`SetBack`): two tidy overlays that hold the same at every anchor are equal
  (`SameOverlay`), so `apply_op` and the inverse it returns cancel (`Step`, `LeadsBack`), and
  so does a batch that is refused. For the views: the running count of the regions before an
  anchor is where its lines begin in the view (`ViewFacts`, `LocateIs`, `LocateFinds`), an
  event that changes in one place changes the view in one place (`LocalSwap`), and two such
  changes, the second beside or within what the first put in, are one (`SwapsThen`): by
  induction over the lines of a paste or a range (`InsertsInTurn`, `DeletesInTurn`,
  `RowsInTurn`) the edit is one splice (`RangeReplaces`). `SavesReopen` has a hypothesis,
  `OneByteNewlines`: the last byte of a line tells whether it is ended, as it does in every
  encoding but UTF-16; run `wide_append` shows why it is needed. `RebasesFaithfully`, under
  the same hypothesis: what the live overlay has at an anchor beyond the saved one
  (`SurplusIs`) goes, as insertions, before the saved line that follows the rows of that
  anchor, in the order of the anchors (`RowsFacts`, `RowsJoin`); each saved row is kept,
  replaced or deleted as it now is (`RebasedInsert`, `RebasedOwn`). By induction over the
  anchors, what the re-anchored overlay shows up to the rows of an anchor is the live view
  up to its region (`RegionCarries`, `RebasedJoins`). `MarksFaithful`: an unmarked line of a region is an
  original line neither overlay changed, or one of the shared beginning or end of the two
  lists of insertions there, which do not meet (`PreFacts`, `SufFacts`, `PlaceFacts`); its
  place within the region's saved rows grows with its place in the live ones
  (`UnmarkedFacts`), and regions do not overlap (`UnmarkedLinesInOrder`).
* `WalFileProofs`. `CommittedSurvivesCrash`, `SyncedSurvivesPowerLoss`, and
  `FilesAreAtomic`: `WalFile` implements `AtomicLog`. The invariant quantifies over every
  directory in `dirs`: each names only finished, synced files, and the one a reader would
  open holds all that is safe. The current directory alone is not inductive, because a
  power loss may bring an earlier one back.
* `SaveSwapProofs`. `WatchedWritesSurvive` and `SwapKeepsBoth`. The invariant says where a
  version may be: no two names hold the same one, an aside, a baseline and, past the
  check, the target are *seen*, and an open file is under its name or an aside that
  nothing tracks.
* `RequestProofs`, `Operations`: `OverLeavesNothing`, `InputsStay` and `AnswersAreTrue`, for
  any number of requests at once. The invariant says for each position of a handler which
  registry entry, child and private directory of its request there can be, that a directory
  made by this server carries its process, that an answer given is already true of the
  child and the target, and that a server that is gone runs no handler (`AliveInv`): without
  it a crash between two steps would leave a handler that goes on. Directories are counted
  by who holds them: what is there is held, the spill directory and what `NothingLeft` names
  apart (`DirInv`), what is held is there, and it is the request's own or a view if a request
  holds it (`HoldInv`), a view if the cache does, a view or the input of one that hung up
  elsewhere (`SharedInv`). So a guard that is dropped removes nothing that a running child reads,
  and the last one removes it.
* `OutputProofs`, `Updater`: `InstalledStaysWhole`, for any number of updaters. A checked build must
  stay trusted while it waits to be moved in; it does because a release's files only ever
  go forward, the checksum after the asset and the signature after the checksum
  (`OrderInv`). A sibling that may move back was sound when it was set aside (`Siblings`),
  and only Windows or a removal works in place (`Placed`).
* `OutputProofs`, `Publish`: `PublicationsAreWhole`, for any number of writers, names, parts and
  publications. The invariant says for each position of a publication what its names and
  their asides hold of what they held before (`Fits`). It may speak of the names it is
  the last to have taken (`Own`): over a name where none met, whoever runs is that one
  (`RunnerOwns`), so no other step touches it (`Apart`).
* `SearchProofs`, `Analysis`: `AnswersAreLive`, for any number of analyses and clients. A view with
  the live document and revision has the live text (`Seen`), a result that can be read is
  of its source or `Mixed` (`Sure`), and what a reader carries between its locks is what it
  read with the view it will be judged by (`Carried`). Of all steps only the second check
  answers (`OnlyChecked`), and it looks at the live view.
* `SearchProofs`, `Index` and `Search`: `IndexStaysTrue`, for any bytes appended in any
  pieces, any stride and any chunk, in one- and two-byte newlines. The property, that every
  line and every byte is found, is not inductive: extending an index keeps checkpoints of
  the old file, so one must know what each of them says. The invariant (`IndexIs`) is that
  a checkpoint bears the rank of its offset among all lines of the file, and that the first
  line has one. Lines and bytes are then counted from the checkpoint before them
  (`LineStartIs`, `LineOfByteIs`): the terminators between two lines are as many as the
  lines between (`EndsBetween`), since no two terminators overlap (`Grid`). A build keeps it
  because a chunk begins at a line (`SnappedIs`) and the chunks before a line hold exactly
  the lines before it (`ChunksCover`); an extension because appending takes no terminator
  and no line away, and counting again from the last line, which may have grown, counts on
  (`EndsGrow`, `LastLine`, `RankFrom`, `ExtendedIs`).
* `SearchProofs`, `Rewrite`: `PiecesAreTheWhole`, from the same invariant, for any file and
  any batch. Every line converts to some list of bytes (`CasedLineIn`, which first shows
  that the recursive functions of the conversion exist, `UnrolledExists`), so there is what
  is written for the first `i` lines (`Yields`); a chunk written in batches leads from what
  is written before its first line to what is written behind its last (`ChunkRuns`), and
  chunks meet (`CutFacts`), one or many. The parts of a split meet in the same way at the
  offsets of their first lines (`OffsetFacts`, `Stretches`).
* `SearchProofs`, `Search`: `MergedIsWhole`, that merging the analysis of each tail into the
  old one is analysing the whole file, for any queries, any bytes appended and any number of
  bins. The invariant is that of the index and the property itself. A file that grows keeps
  its lines but the last one (`LinesGrow`), so the hits fall into those of the lines before,
  which stay, those of the old last line, which the merge takes out, and those of the tail
  (`MergeIs`). The counts add up because hits in a line lie in it and apart (`LineHitsAre`,
  whatever way the line is scanned), the first hits because those of a part are the first of
  the whole as far as they go (`FirstJoin`), and the histograms because a bin twice as wide
  holds exactly two (`RebinIs`), if the old bins reach to the old end: doubling a width in
  steps arrives where doubling it at once does (`Widens`).
* `SearchProofs`, `Search`: `SearchersAgree`, that finding forward from any byte, backward from
  any byte, grep, search and analysis see the same hits, for any bytes appended in any pieces,
  any chunk of the backward scan, and with or without case. Every scan is brought to one
  description of the hits: the places where the needle stands, at a character, with whole
  words where they are asked for. A needle that does not overlap itself stands at places
  that are apart, so it does not matter from which side or from where one skips
  (`FindsAll` forward, `FindsAllBack` backward by chunks that overlap by a needle); one
  without a line break stands in one line, so the scan of a line sees in its text what the
  scan of the file sees in its bytes (`InText`, `LinesFind`); and a literal is found in raw
  bytes where it is found in characters (`PrevLiteralIs`). A file that ends in half a
  UTF-16 unit (`Torn`) is excepted.
* `WorkspaceProofs`. `ReadsAreViews`, `LogsOfLive` and `EditsAreKept`, for any number of
  paths, requests and tabs; its invariant is itself a theorem, `WsInvariance`. What a
  request does off the lock it judges later by document and revision, so the invariant is
  about those: a document is installed once, by the request whose name it bears (`Fresh`),
  no two tabs show the same one (`Apart`), and of one document an equal revision is an
  equal view, in every snapshot and in the cache (`Agree`); this alone gives
  `ReadIsView`. A request between two locks of a transition finds the slot as it left it,
  because every other handler that could move it waits for the lock (`Held`), while edits
  do not. For the logs: a file only grows in place and a new file has a new identity
  (`FilesPast`), so a session whose file has not changed maps the lines its log names; a
  recovery has re-armed the log it then installs a session over, though an edit may come
  first (`Rearmed`), and no session both writes and has a recovery pending
  (`Recovering`). `EditsKept` then goes handler by handler.
* `OutputProofs`, `Batch`: `ExactResult`, that sort, group and top give what their sequential
  definitions say, for any document, memory, fan-in and number of columns. The invariant
  (`ResultInv`) is one part for each operation beside what all share: the records read are
  the first `count` of the document, however lines are joined (`Course`). *Sort*: every entry
  read is once in memory or once in the runs; a run is sorted, and because runs are spilled
  in the order of the document, so is the merge of ties; in a pass, what is put out, the
  readers hold and the next pass has are the entries, and nothing put out comes after what
  a reader still holds (`SortInv`). *Top*: the memory holds the best `n` of what was read,
  each once (`Chosen`): an entry that leaves is behind `n` others. *Group*: rows stand for
  disjoint sets of records, one row for a key in memory and in a run but several over the
  runs, and each accumulator is that of its set; popping equal keys joins sets that do not
  meet (`GroupInv`). Sums over a finite set need no induction over data: that each has one
  follows from its being finite (`SumsExist`), and the fold in `GroupExact` is it. That
  comparing encoded tuples byte by byte is comparing their columns rests on the escape: no
  encoded column begins another (`FlattenSplits`, and the marks of two zeros).
* `OutputProofs`, `Batch`: `NothingIsStranded`, for any document, task, memory and fan-in. The
  invariant counts the disk exactly: the directory and table of the operation, the runs
  still to merge, those of the next pass and the one being written (`DiskOK`). What a pass
  removes must not be among what it has made: the number of its pass is in a file's name,
  and the runs it reads are spilled ones or of an earlier pass (`OldRun`).
* `RequestProofs`, `Markers`: `MarksFollowLines` and `ExportsAreViews`, for any batches of edits, any
  texts and any limits. The two stacks of texts and the two stacks of marker records are
  points of one line of views `g`, with the live text at `p` (`Follows`, `Behind`,
  `Ahead`): the record on top of a marker stack takes the markers of the view at `p` to
  those of the text on top of the session's stack, through the texts of the batch in
  between (`Downward`, `Upward`, each step a `Fits`: the text is `Spliced` and what the transform
  restores are the bookmarks of lines that come back). This holds of the lines a user has
  marked, *whichever* they are, only if a line that two views show is shown by all between
  them (`Convex`): a line that is shown now can then be in nothing a record restores, so
  toggling, adding and clearing concern no record. Edits keep it because new lines have
  new identities (`Grows`), and a record that is taken back undoes itself (`TakenBack`,
  `RollsBack`: so a refused or empty batch leaves the markers as they were). For the
  export, while its two revisions are those it began with, what is written are the lines
  of the marks before where it goes on, and what is left is the count of the others
  (`ExportInv`); a page takes the next of them in order (`Rank`, `NthIs`, `LinesJoin`).

Induction over numbers, which `Markers` needs for a batch and for counting, does not go
through the library's induction theorems, whose parameter no installed prover can
instantiate: a set of numbers has a least one because `<` is well founded on the naturals
(`Least`), so a set that has 0 and with each number the next has them all (`Climb`). A
recursive function is first shown to exist this way (`ReplayedSteps`, `RespellingsSteps`).
TLC found `ExportInv` to hold on the instance of `services`; it cannot evaluate `Follows`,
which speaks of some infinite line of views that no state holds, nor `Sound` of `Overlay`,
which speaks of some overlay for every generation.

Only model-checked:

* `RewritesFollowSearch`: what rewritings, decodings and searches of the same bytes compute
  by recursive functions nested in one another, with replacements that change every offset
  behind them; each would need its own induction.
* `CasesKeepText`: the conversions are recursive functions along the words of a line, and a
  UTF-16 file may end in half a unit, about which the property has nothing to say; the
  instance has whole units, which no assumption the code justifies would promise.
* `WorkersEnd` and `AnalysesEnd`: liveness under fairness.
* That the five violated statements fail.

The type invariants are theorems, and no run repeats them.

## 6. Findings

`stale_attach`, `original_swept`, `rect_stops`, `wide_append` and `wide_replace` each
contradict a sentence of the repository, quoted in `PROJECT.json`. The cause of
`wide_append` has a worse form that is not run: in UTF-16 the last byte of an unterminated
last line may read as a newline (U+010A in UTF-16BE), and an appended line is then glued
to it.

## 7. Known exceptions

Properties are stated with their exceptions by name. These are the behaviours of the code
behind them, and others met while modelling. The first ones have a definition beside the
properties, which TLC refutes on the same instances.

| Definition | What happens |
|---|---|
| `CrashLog!EditsSurviveCrash` | An edit between the file swap and the commit of a save is logged under the old header; a crash there loses it (`edit.rs:498`; `docs/DATA_INTEGRITY.md:23`). |
| `CrashLog!UndecidedStaysRecoverable` | Recovering truncates the offered log to its header before the overlay is written back; a crash or an error in between loses it (`wal_policy.rs:305`, against lines 31-33). |
| `WalFile!ClosedLeavesNothing` | Closing a tab deletes the log but not an aside copy of it, which the next open reads (`tabs.rs:350`). |
| `Overlay!SaveReopens` | An emptied last line of a file without a final newline is gone when the saved file is opened. |
| `Workspace!SavedIsView` | A save-as writes its target without the transition lock; if the target is written again before the switch, that content is installed as clean (`edit.rs:537`, against lines 524-525). |
| `Workspace!SortAsks` | The in-place sort replaces a file that changed on disk without asking (`ops.rs:497`; `docs/USER_GUIDE.md:134`). |
| `Operations!ActionsEnd` | An external action's descendants may keep its pipes: the handler awaits them outside the timeout and the cancel (`actions.rs:289`; `docs/ARCHITECTURE.md:98`). |
| `Publish!CopyAlways` | Two publications that meet over one name can lose a copy (`fsync.rs:15-16`): a split refused at its second part removes by name a first part that another split made, and of two on the way through the shared aside name one removes what the other put there. |
| `Analysis!UpdateGoesOn` | A status poll that read the old source before a tail update was merged marks the update stale (`analysis.rs:496`). |

* **Saves and baselines.** `set_doc` and `reseed_disk_baseline` read the baseline from the
  path after the fact: a write that lands in between is adopted unseen, and a deletion
  leaves a session with no baseline, which notices no later write (`Unwatched`). The
  swap's renames are followed by no directory fsync. A raced converting save leaves the
  log stale; a failed `write_stream`, converting save or serial transform leaves its
  temporary file.
* **Tabs.** An open that raced another open of a changed file deletes the live tab's stale
  log (`SweptBehind`); a save-as over another tab's path gives two tabs one path, and
  detaching one loses what the other logged; detaching with an undecided recovery drops
  typed edits; a sort whose replacement and reload both fail leaves a tab without a
  document. `poll_tail` leaves the log's header on the shorter file, and refuses growth
  from an empty one. A client that hangs up drops its handler in the middle of a
  transition.
* **Operations.** A cancel between the look at the flag and the listening wakes nobody
  (`missed`); the timeout still ends the request. A timeout does not set `op.done`. A
  refused or hung-up sort leaves its spill directory to the sweep; a killed worker leaves
  its own. `kill_on_drop` reaches the direct child only. One id used twice is one entry. The
  view a search or an action has built stays when it is over, as long as the cache or another
  reader holds it (`ops.rs:269`); the input of a request that hung up stays until the task
  that writes it ends (`ops.rs:162`); a selection that a task creates while its directory is
  being removed stays to the sweep (`actions.rs:193`). `NothingLeft` names these. A worker is
  also refused when the system never said where the executable lies (`unlocated`).
* **Markers.** The marker side of a batch sorts on columns as sent, the text side on
  clamped ones; a recovered session keeps its bookmarks by line number.
* **Updater.** Killed between the two renames of a bundle, nothing is installed and the
  old bundle is beside its place. A failed copy leaves the sibling, a killed updater its
  staging directory.
* **Batch.** `top` by largest drops the earliest of tied keys (`fields.rs:17-21` says
  otherwise): `TopExact` compares keys there.
* **Search.** A rejected raw hit hides a valid one that overlaps it; a needle that
  overlaps itself is found from the left or from the right; whole words are judged by
  bytes in one plan and by characters in another (`search.rs:948`;
  `docs/USER_GUIDE.md:113`). `Overlaps` and `Replaceable` exclude these. A needle with a
  line break is found in the file and in no line (`Breaks`), and of a UTF-16 file that ends
  in half a unit each scan makes something else (`Torn`).
* **Analysis.** A tail update resets the cancel flag, also of an analysis the store has
  evicted (`analysis.rs:964`). A file rewritten in place while followed gives a result
  that mixes two texts (`Mixed`). When the blocking scan of a tail panics, `analysis.rs:1027`
  returns through `?` with the result taken and the phase `Updating`: that update is never
  ended, and the analysis has no result any more (`"panicked"`; panics unwind, see the
  profile in `Cargo.toml`). A hang-up leaves the same behind.
* **Publication.** `PublishedWhole` speaks of names over which no two publications met
  (`met`). Between the two renames of the way round a crash leaves the old file under its
  aside name only, and nothing but `wal.rs` and the open of `SaveSwap` looks there.

## 8. Abstractions and what is not modelled

* `EditSession::clear` and plain `WalWriter::reset` have no production caller. The
  one-shot error text is left out. Recovery's replay and re-arm are one step in
  `CrashLog`. Edits made while a recovery is pending are not logged, as in the code.
* `WalFile`: the directory fsync is taken to work. Windows has none, so `SyncedSurvives`
  is not claimed there. `sync_data` is atomic; one process.
* `SaveSwap`: no power loss. A rewrite that keeps identity, length and mtime is not a
  change, as in the code. The stage's own temporary file, and a sweep by a second opener
  while a first one saves, are left out.
* `Overlay`: columns and caret positions, the cap on the number of markers, characters
  that the encoding cannot write. `RebaseFaithful` excepts a save that changed a line
  beyond the view cap (`rebase_source` keeps only the shown prefix of it), and a saved
  file whose last line vanished.
* `Workspace`: undo is an edit, aside files are `SaveSwap`'s, markers follow the session;
  encoding is part of a content.
* `Operations`: one request has one child; requests meet in the registry, the sweep and the
  shared view, whose revision is a choice of fresh or stale. A view that a find or an analysis
  builds itself enters only by what it drops (`Invalidate`). Whether the executable could be
  located is chosen at each spawn, though the code decides it once in a process. `Updater`: the network, archives and permissions are steps that may fail.
* `Markers`: lines too long to edit, and the refusals they bring. `Batch`: `distinct` (an
  estimate in one pass), numbers' byte encodings, the size of a row, and the cut of a record
  or a line that is too long. `Search` and `Rewrite`: regular expressions, capture groups, more than one rule in
  a scan, UTF-16BE and the byte order mark.
* `Publish`: no power loss and no directory fsync; a failed write or a refused target ends
  one publication and starts no other.
* Not modelled: **document mapping** and the SIGBUS guard, which are the operating system's; **UI state**,
  one file replaced as a whole, last writer wins; **instance reuse, launcher, GUI shell**,
  platform I/O; **inspection, completion, recognition**, which answer from one snapshot and
  keep nothing; the **web client**, whose requests may come at any time in the server's
  models; **packaging** and vendored code.
