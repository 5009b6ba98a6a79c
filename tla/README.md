# A TLA+ model of Timelinize

Timelinize imports personal data (exports, backups, APIs) into a *timeline*: a
folder with a SQLite database, a second one for thumbnails, and data files. A Go
server opens timelines, runs long jobs on them, and is driven by HTTP requests of
a web page. This directory models the parts of it that concurrency, failure and
the order of events make hard, checks them with TLC and proves the most important
of the properties with TLAPS. Paths below are relative to the repository.

## 1. The system

| Part | Source | State | Operations | Hard because |
|---|---|---|---|---|
| Job manager | `timeline/jobs.go` | table `jobs`; `activeJobs`; an `ActiveJob` per goroutine | create, start, run, checkpoint, cancel, pause, unpause, dequeue, scheduled start | requests, job goroutines and timers act at once; crash and resumption |
| Opening, closing | `timeline/timeline.go`, `tlzapp/bindings.go`, `state.go` | one `Timeline` per opening; the table of open ones; the list in the configuration | open (reset and resume jobs), close, create, restart, shut down | resumes jobs while others end; errors half-way; folders move |
| Write connection | `timeline/db.go` | `WritePool` with one connection, `ReadPool` | transactions, single statements | a transaction is a lock on every writer |
| Import job | `timeline/imports.go` | job checkpoint (outer, inner index, data source's own) | estimate, import, clean up, create child jobs | resumption from a checkpoint |
| Import pipeline | `timeline/processor.go`, `pipeline.go`, `processing.go` | batch of graphs, counters | phases of a batch, one transaction per batch | progress and checkpoint after a failed batch |
| Items and policies | `timeline/processing.go`, `pipeline.go`, `timeline.go` | rows of `items` | find the existing row, decide, update fields | many combinations of policies |
| Data files | `timeline/itemfiles.go`, `pipeline.go` | files | unique names, download, deduplicate, rename, clean up | file system outside the transaction |
| Deletion, maintenance | `timeline/maintenance.go`, `timeline.go` | rows marked deleted, files | delete, expire | races with imports that share a file |
| Thumbnails | `timeline/thumbnails.go`, `mapmutex.go` | thumbnail database | page over items, generate one | paging with NULLs, two databases, locks per key |
| Entities | `timeline/entities.go`, `timeline.go` | entities, attributes, links | recognise, join, merge | loads used after others changed them |
| Graphs | `timeline/graph.go`, `pipeline.go` | nodes and edges in memory | sanitize, store, relate | one failing node among many |
| Conversations, search | `timeline/conversations.go`, `search*.go` | none | read-only queries, page by page | pages over equal keys |
| Machine learning | `timeline/ml.go`, `tlzapp/python` | embeddings | embedding job | pages that change while they are worked on |
| Data sources | `datasources/*` | what a reader has seen so far | parse some thirty export formats into graphs | guessed roles, pieces in any order, resumption |
| Import planner | `tlzapp/bindings.go` | a walk and its plan | recognise folders and files | claimed folders |
| Rate limiter, interactive imports, charts, settings, OAuth, log, obfuscation, registry, front end, CLI | see `PROJECT.json` | little or none | | not modelled, section 6 |

How they interact: a handler of `tlzapp` looks up the open timeline and calls a
method of `Timeline`. An import job runs in a goroutine of the job manager, calls
`Continue` and `Checkpoint` on its `ActiveJob`, hands the files to a data source,
which sends graphs to the processor, which stores batches of them through
`WritePool`. When it ends it creates a thumbnail and an embedding job. Everything
that writes to the database competes for one connection.

What makes each correct, in a sentence: *jobs* - no two identical jobs run, what
runs is recorded and what is recorded as running runs, nothing is lost by a pause,
a crash or a cancellation; *imports* - a resumption skips nothing that was not
stored; *items* - an update respects the chosen policy, and what was deleted does
not return; *data files* - a row's file exists and no file is without a row;
*thumbnails* and *embeddings* - each item that qualifies is visited; *entities* - no
attribute leads to a person that was merged away; *open timelines* - each is open
once, and the list of them survives; *readers* - what an export holds is stored
once and whole, from and to the right people.

## 2. Modules

| Module | What it is |
|---|---|
| `JobManager` | `jobs.go`, the resumption in `openTimeline`, the write connection, and the requests |
| `JobLifecycle`, `JobRefinement` | the abstract specification of what the job manager promises, with atomic steps and no goroutines; the mapping under which `JobManager` implements it |
| `ImportJob` | `ImportJob.Run`, `process`, the batching worker, the transaction and the checkpoint of a batch |
| `ItemPolicies` | preferences made into policies (`distillUpdatePolicy`), which updates an existing row gets (`shouldProcessExistingItem`), what the statement does to a row; pure operators |
| `ItemStore` | the table `items`: how a row is found, inserted, updated, deleted, erased, forgotten, and discarded at the end of an import |
| `DataFiles` | download, deduplication, renaming and deletion of files against the batch's transaction and deletions by others |
| `MapMutex`, `Thumbnails` | the lock per key; thumbnail jobs with their pages, batches and checkpoint, and requests, over changing files |
| `Embeddings` | the embedding job, resumed from its checkpoint |
| `ItemGraphs` | what becomes of the nodes and edges of a batch of graphs |
| `Entities` | how people are recognised, joined by imports, merged by users |
| `OpenTimelines` | the open timelines of the application, the saved list, restart and shutdown |
| `Conversations`, `Search` | the list of recent conversations and the search, a page at a time |
| `ImportPlanner` | the walk through a folder and the plan that comes out of it |
| `Readers`, `DeviceScan`, `LocationStream` | how data sources resume; a goroutine per device; the windows of the stream of locations |
| `TakeoutPhotos`, `MediaFolder` | pieces of photos from several archives; the goroutines of a folder |
| `TextMessages`, `VoiceMessages`, `IMessages`, `WhatsApp`, `Telegram` | what becomes of the messages of five kinds of exports |
| `Messenger`, `FacebookArchives`, `Instagram` | what Facebook's and Instagram's exports share, and each of them |
| `MC...` | constants, symmetry and inputs for TLC; `MCFiles`, `MCServices`, `MCReading` and `MCSources` put systems that share no state beside each other, `system` saying which of them moves in a behaviour |
| `JobManagerProofs` (of `JobManager`, `JobRefinement` and `JobLifecycle`), `ImportJobProofs`, `ItemStoreProofs`, `DataFilesProofs`, `OpenTimelinesProofs`, `MapMutexProofs`, `ThumbnailsProofs`, `SourceProofs` (of `DeviceScan`, `MediaFolder` and `Readers`) | the theorems, section 5 |

### State of `JobManager`

* `jobs` is the table as committed, `wrows` as the write connection sees it,
  `writer` who has a transaction open. `BeginTx` is `Begin` (a lock), a statement on
  the pool is `Exec` (needs the lock to be free), `Commit` and `Rollback` end it.
  Reads on `ReadPool` see `jobs`. A row has its state, hash, machine, whether its
  `start` is in the future, checkpoint and progress; the other columns are not
  needed by any property.
* `pc`, `job`, `mem` describe the goroutines: a slot is free, waiting (the timer of
  a scheduled job), launching (that timer's transaction), or somewhere in the
  goroutine of `runJob`: `run`, `creating` (a child job's transaction), `blocked` (in
  `Continue`), `ending`, `endtx` (the final transaction), `closing` (before
  `close(done)`), `closed` (before the `delete` from `activeJobs`). `mem` is the
  `ActiveJob`: its context (`cancelled`), `paused` and the channel the action waits
  on (`unpause`), checkpoint, progress, `done`. A channel of `PauseJob` is named by
  the request that made it.
* `spawned` is the goroutine `runJob` has started but not put into `activeJobs`
  yet: the window between `go func` (417) and the map assignment (569). The
  transaction cannot commit while the window is open, since the same goroutine
  does both.
* `active` is `activeJobs`, one map per `Timeline` value (`session`), because after a
  failed `Open` the goroutines of the old value live on.
* `cpc`, `req` are the HTTP requests, each at one of the points where the code gives
  up the processor: before a transaction, in it, or at a channel.
* `repo` is whether the timeline is closed, opening (with the jobs still to resume)
  or open, and on which machine; `panicked` is history for one property.

One action is the code between two such points. Examples: `CreateJob` is BeginTx,
`storeJob` and `startJob` up to the spawned goroutine; `EndJob` is the final
transaction with the dequeuing of the next job (507-562), `CommitEnd` its commit;
`PauseInDB`, `ContinuePaused` (the rendezvous on the channel) and `PauseSet` are the
three steps `PauseJob` numbers in its comments. `Refused` is the head of `startJob`.

Two particulars of the code the model keeps: the hash of a job is computed before
its machine is set, so identity does not include the machine, although `hash()`
would; and the query of `openTimeline` compares the column `name`, which is NULL,
with the import type, so only the machine counts (`Resumable`), whereas the one in
`runJob` compares `type` (`RunsHere`).

### State of `ImportJob`

What `JobManager` calls a job action is one module deeper here: an import. `pc` is where
`Run` is (its two loops, opening a file, inside `process`, ending, in the final transaction), `ij` its loop
variables with the context and checkpoint of its `ActiveJob`, `chkpt` the local
variable with the checkpoint it started from, whose fields the code resets one by one.
`src` is the data source, which sends graphs on an unbuffered channel (`SourceReads`,
then `Receive`), `wrk` the goroutine of `beginProcessing`: it has received graphs up to
`hi` and dealt with those up to `lo`. A full batch is stored in one transaction
(`StoreBatch`) and checkpointed after it, whatever became of it (`CheckpointBatch`).
`row` is the part of the job's row that matters, `handled` the graphs in the database;
`lost` and `panicked` are history. `Cancel` and `Stop` are the environment: what they are in
`JobManager`. There a unit of work is anything; the two modules share the interface of an
`ActiveJob` (`Continue`, `Checkpoint`, the final write) and are not composed. Two locks are kept
here for their order: `sync` holds the mutex of the `ActiveJob` while it waits for the write
connection (jobs.go:782-808), and the final transaction has the connection when it takes the mutex
(508-533): `BeginEnd` begins that transaction, `EndJob` needs the mutex, and `SyncWaits` is a worker left
behind by a panic that has the mutex and waits.

A panic of a data source is recovered in `process`, which then returns no error. The
channel `done` is not closed, so the worker stays, and may be storing a batch while
the next file is imported: `wrk["leaked"]`. An idle one blocks for ever and is
forgotten. `Run` is not called again, and no second one left behind, while one is at
work (a restriction of the model).

### State of `ItemStore`

`rows` maps row IDs to rows (data source, job, job of the last update, original ID,
retrieval key, text, file, type, place, time, metadata, the two hashes, and whether
the row is in the trash or erased), `used` the row IDs given out, `ended` the imports
that are over and `empty` what each of them has found to discard. Columns that the code
treats alike are one here: `place`, the original location, stands for every plain
nullable column. Every action is one transaction on the only write connection. `InsertItem` and `UpdateItem` are
`storeItem` with `loadItemRow` (`Found`: the two queries of its `UNION ALL`),
`shouldProcessExistingItem` (`UpdatesOf`) and `insertOrUpdateItem` (`Updated`).
`DeleteItems`, `DeleteExpiredItems`, and `FindEmptyItems` with `DeleteEmptyItems` are
the three ways in which rows go.

### State of `DataFiles`

`disk` is the content of every file, `rows` the table as committed and `work` as the
open transaction sees it, `item` what became of each item of a batch (its file name
before it is stored), `purge` the files each deleter has yet to delete. `StoreItem`
is the whole of `storeItem` for one item: `Outcomes` lists what may become of it,
step by step, as sets of states of the transaction; an error may come before the row is
written (`Refused`), after it (`RefusedLate`), or where the deferred clean-up does not see it
(`Undecided`), and a download fails while it is copied or when it is synced (`FailSync`). Two history variables hold what
the code is known to lose (`torn`: names whose file was deleted or moved while a row
outside the transaction still has it) and to leave behind (`strays`); the properties
excuse these names and no other ones.

### State of `OpenTimelines`

`open` is the table, `repos` the list in memory, `saved` the one in the file: a request changes them
one after the other while it holds `openTimelinesMu`, and `sync` says how far it is. `Truncate`
empties the file and `Encode` writes it, so that a kill (`Exit`) between the two leaves `Torn`. `handles` counts
the databases that are open of each timeline, `left` those of them that a failing `timeline.Open` has not
closed. `phase` is the server's; `disk` is what the folders hold.

### The other modules

Each is introduced by the comment at its head, which names the source files, says
what a step is and what is left out. In the modules of data sources the state is what
the reader has read so far, and what it has sent; the input is chosen in the initial
state from a small set that covers the forms an export can take.

### Abstractions

* In `ImportJob` a data source is linear: it sends the graphs of a file in order, each of size 1, with
  or without a checkpoint, and resumes after its checkpoint. It returns at the end, on
  cancellation, or with an error at any time. What one graph becomes in the database is
  in `ItemGraphs`, `ItemStore`, `Entities` and `DataFiles`: here it is stored, or refused and logged, with its batch. Sending what is
  stored already changes nothing (the default update preferences).
* The estimate is a Boolean, progress numbers are left out, and the fast path
  (`EstimateSize`) is a file with no graphs. The child jobs at the end are in
  `JobManager`; a paused worker, which only delays it, is nowhere.
* In `JobManager` a job action is `Units` units of work, with `Continue` and perhaps `Checkpoint`
  between them; it may fail at any time. The checkpoint is the number of units
  done. Whether `sync` writes (two seconds since the last write) is a free choice.
* `OpenTimeline` does the reset and reads the jobs to resume in one step; between
  the two the code only opens the thumbnail database.
* A request's transaction is rolled back for a client that leaves (`Rollback`) before or after the
  stretch from `go func` (417) to the entry in `activeJobs` (569), not within it, although `database/sql` watches the context all the time.
* `Stop` is the end of the process or `Close`: contexts are cancelled and pools
  closed, so goroutines can write no more; that they linger is not modelled (they
  cannot change the database). A failed `Open` closes nothing, and the model
  keeps its goroutines.
* A panic is taken at any point of the action; what the deferred functions do then
  is modelled, the WAL checkpoint and all logging are not.
* The `repeat` column is stored but never read by the code, so there is nothing to
  model. SQL errors other than a cancelled context are not modelled.
* Two jobs resumed or dequeued with the same due status are in either order
  (`ORDER BY start, created` with times abstracted to "due or not").
* In `DataFiles` all names are in one directory, so the counters of working
  directories are left out; a row is known by its item (`ItemInfo`), how it is found
  is `ItemStore`'s affair. Pieces of one item that one import brings in several graphs (processing.go:524)
  are several items with one row.
* In `OpenTimelines` the server's stop waits for requests (its timeout of 10 s is left out); a signal while the server starts is an
  `Exit`.

## 3. What is checked

Bounds are in the `.cfg` files and, for inputs, in the `MC` modules. `Permutations` symmetry is used in
safety runs only. `CHECK_DEADLOCK FALSE` everywhere: a timeline with its rows used up
and its jobs done may rest, and so may a reader at the end of its data.

| Run | Instance | Shows |
|---|---|---|
| `MCJobPause` | 1 job, 2 requests at once, 2 goroutines; schedule, start, pause, unpause, cancel; fail, panic, clients leaving | `TypeOK`, `NoLostUnpause`, `PausedStaysPaused`, `CancelledIsNotRestarted` |
| `MCJobRequests` | 2 jobs, 3 goroutines, every request but schedule; fail | `StartedHasRunner`, `RunnerIsReachable`, `ImplementsLifecycle` |
| `MCJobRestart` | import and thumbnail job, 2 machines, 2 sessions, 3 goroutines; stop, fail | `ProgressCoversCheckpoint`, `RunsAreRecorded`, `ImportsStayHome`, `ImplementsLifecycle` |
| `MCJobResume` | 2 scheduled jobs, stop, at most 1 resumed by Open; fair | `InterruptedAreResumed`, `ScheduledStart` |
| `MCJobCancel` | 2 jobs, 2 goroutines; fair | `RunnersEnd`, `ActiveCancelReturns` |
| `MCImport` | sources with files of 3 and 1, and of 1 graphs; batches of 2; estimated; fail, cancel, panic, stop; 2 runs; fair | `NothingIsPassedOver`, `ImportEnds` |
| `MCItemStore` | 2 imports of one data source with different preferences, 6 pieces of items, 2 rows | `RowsAreSound`, `KnownStaysKnown`, `ImportIsIdempotent`, `OrderIsIrrelevant`, `DeletionsAreRemembered` |
| `MCFiles` | 2 imports (the first may be repeated), 2 rows, 2 names with one suffix, 2 contents, a user and the maintenance loop, a fault; beside it libraries of three pictures with two sessions, a client and one change at a time; and imports of five items to embed | `TypesOK`, `FilesAreKept`, `DownloadsAreKept`, `JobsOverItemsAreComplete`, `ThumbnailsAreShared` |
| `MCServices` | nineteen systems beside each other, inputs in `MCServices`, `MCReading` and `MCSources` | `TypesOK`; `HeldByOne`, `NobodyWaitsForAFreeKey` (locks); `PeopleAreKept`, `PeopleAreToldApart` (entities); `OpenTimelinesAreKept` (open timelines); `NothingIsLost` (merges, open timelines); `StreamIsKept` (locations); `RecentsAreExact`; `SearchIsExact`; `ReadingIsComplete` (readers, devices, photos, folders, plans); `MessagesAreRight` (seven exports of messages); `GraphsAreWhole` |
| `MCJobCancelStuck` | 1 scheduled job, start and cancel; fair | `CancelReturns` is violated |
| `MCImportCancel` | one run, cancelled | `SkipsOnlyStored` is violated |
| `MCDataFilesLoss` | as `MCFiles` with 2 faults, the files alone | `FailedItemsSpareRows` is violated |

**Why the bounds are enough.** *Jobs:* two jobs suffice for every rule about
"identical" and "next" job; two requests for every race between handlers (each race
in the code is between two parties); a request slot is reused, so runs contain
sequences of requests of any length over the same jobs; one unit lets a checkpoint and a point to pause at lie between the
start and the end of an action, which has more steps after its last unit. In
`MCJobPause` two goroutines are too few for the timer of a scheduled job to start a second one beside a first that was paused, resumed and waits
for its end; the theorems of section 5 cover any number. With three of them and
`schedule`, `RunnerIsReachable` is violated (section 4), which is why `MCJobRequests` leaves
`schedule` out and `RunnersAreReachable` has it as a hypothesis.
*Imports:* the first file needs two batches, and its second graph has no checkpoint, so
the last of a batch with a checkpoint is not its last; two files in a source and two
sources are what the two indices need; with two runs the first leaves a checkpoint
anywhere, in either phase, and the second starts from it.
*Items:* the six pieces are one item with a file, a later version of it, its caption,
a file without ID, a mere reference, and a piece with a retrieval key: every way in
which rows are found and every pair of kinds of data meets; the second row is what an
original ID could wrongly be given to.
*Files:* two contents and two names make files equal in content and not in name, and the
other way round; the first import is repeated after the second and after deletions, so that what a fault left behind is met
again; that any number of faults in a row does no more harm is proved (section 5).
*Open timelines:* two timelines, of which one may be a copy of the other, and one may lie in a folder
below the chosen one; one folder changes, one opening or save fails, and the server starts twice, so that
the second start finds what the first has saved, unless it left it torn; the theorems cover any numbers.
*Entities:* three people, the owner among them, two values that identify people or not, and two users with four
merges to ask for, two of them of the owner.
*The rest:* inputs are few items, chosen so that page ends, batch ends and windows fall
within groups of items that belong together; each `MC` module says so at its inputs.

**Fairness** (`Fairness` in each module that has liveness): goroutines and handlers run
on as the Go scheduler makes them; strong fairness for the steps that need the write
connection, because `database/sql` serves waiting callers in the order they came and
does not starve one; a timer fires. In `ImportJob` weak fairness of `Run`, of the data
source (it goes on and returns when it has no more) and of the worker; `ImportEnds` excepts the one way in which
an import does not end (section 4, the two locks). Nothing is
assumed of users, clients, or faults.

Every property of a passing run has a mutant: a change of a mapped definition, of the
kind a slip in the code would make, under which TLC finds it violated. The mutants are
defined next to what they change.

## 4. Where the code and what is said of it part

Each of these runs ends in a counterexample:

* `MCJobCancelStuck`: `CancelJob` of a job that is not active executes its UPDATE on
  the pool (jobs.go:936) while its own transaction holds the only connection. It
  blocks all writers until the client leaves, and the job is not aborted.
* `MCImportCancel`: the last checkpoint of a batch becomes the job's although its
  transaction was undone (processing.go:83 and 102): after a cancellation in the middle of a
  batch, the import resumes behind graphs that are not in the database.
* `MCDataFilesLoss`: an item that fails after it was found to be a duplicate deletes
  the file of the other row (pipeline.go:807 after 541).

What follows was seen while the modules were written; it is in their actions, mostly
as an excuse in a property, and has no run of its own.

**Jobs.** The timer of a scheduled job looks only for "aborted" (jobs.go:331): it
starts a second goroutine beside a running one (against jobs.go:251) and restarts a
paused job; the second replaces the first in `activeJobs`. A scheduled job started by
a request waits with that request's context and never starts. A shadowed `err`
(timeline.go:447) leaves jobs running after a failed `Open` (against timeline.go:384). A
resumed job that ends before its next checkpoint writes an empty one (jobs.go:531) and
starts from the beginning next time (against imports.go:210-212). `job.pause <- paused`
(jobs.go:997) waits for ever if the action ends without calling `Continue` again. A job
identical to a running or queued one makes `CreateJob` fail, where its comment
(jobs.go:46-48) says it is queued or ignored. `CancelJob` may return before the job
left `activeJobs` (jobs.go:901 against the order of the deferred functions). An unpause
between steps 1 and 3 of a pause leaves a blocked action behind a row that says
started (jobs.go:978). A client that leaves during `StartJob` rolls back the row while
the goroutine runs. Jobs of other types are tied to the machine as well by
`openTimeline` (timeline.go:437). The final write puts a later progress beside the last
checkpoint (jobs.go:776). After a stop between the commit of a batch and the write of its
checkpoint, its items are not counted for a thumbnail job (pipeline.go:1029). The
estimate is a pointer (imports.go:166), marshalled by the final write with what was
added since, so that a resumed estimation counts a file twice. The timer of a scheduled job keeps the job as it was when
the timer was set (jobs.go:280, 303), so one that ran meanwhile starts with an outdated checkpoint. The two locks: a worker left
behind by a panic that writes its checkpoint (jobs.go:782-808) while the import ends (508-533) and the final
transaction, which has the connection, wait for each other for ever, and every other writer for both. A client that
leaves while `startJob` is between 417 and 569 leaves a goroutine and an entry in `activeJobs` behind a row that
was rolled back; the model has that as well, but with the roll-back later.

**Items.** The import page sends the priority `{"timestamp": "ealier"}` (import.js:750),
which `distillUpdatePolicy` refuses, so that every item with a row fails under it. A
second priority may undo what the first did to the data (`ImportIsIdempotent` and
`OrderIsIrrelevant` need the hypotheses of section 5). An item without ID or content
matches any deleted row that lacks the same hash (`eq(nil)` is `IS NULL`,
processing.go:915-936). `SET original_id_hash=NULL AND initial_content_hash=NULL`
(timeline.go:1056) clears only the first, so that what was to be forgotten is still refused for its content (against timeline.go:1001);
with a retention period neither is
cleared. The condition of `integrityCheck` (processing.go:296) is inverted. `Overwrite`
never empties a plain field, and changes metadata only if a new key arrives. An update
of the data across kinds leaves both a text and a file (against pipeline.go:462).
`deleteEmptyItems` reads on `ReadPool` and deletes later (imports.go:488, 527): what another import
has filled in meanwhile is lost, and a deleted row that is empty goes with its hashes.

**Files.** A second import may put other content under a name that was lost; files
deleted or renamed in a transaction are not rolled back (pipeline.go:1046); `DeleteItems`
lists a shared file once per row; a deleted item that is imported again leaves its
download behind; `openUniqueCanonicalItemDataFile` leaves placeholders; a rename raises
a counter of working directories that nothing lowers (itemfiles.go:60). A failing `Sync`
(pipeline.go:580) leaves the file without a row. An error after the row was stored (937-951) deletes that row's file, and the
batch is committed all the same; a shadowed `err` (829) keeps the clean-up from seeing another one. An item without a file name that
is to overwrite the existing one renames the file to a made-up name (861-866).

**Graphs.** Edges of a skipped item are not sanitized but stored, so items below it
are imported and the edge to itself fails; `storeRelationship` compares a value with a
pointer and always updates; an update with metadata binds a blob to a TEXT column of a
STRICT table and fails, one without erases them; a relation without a value erases the
stored one; the traversals have no guard against cycles, which `Size` has; latitude 0
and longitude 0 are cleared independently.

**Entities.** Who matches exactly one person is taken for that person whatever the names are
(entities.go:548-598), which is what 617-622 says should not happen when there are several; an identity is
linked to every person who matches. A merge by an import can link to a person it has deleted, which fails the
foreign key; a manual merge reads its people one by one before the transaction (entities.go:942-953);
after a UNIQUE conflict two rows remain; people known by name only are made anew by
each import; the picture of a merged person is deleted inside the transaction; the
lookup of places lacks "deleted IS NULL".

**Thumbnails and embeddings.** Paging passes over rows without a timestamp and with
lower IDs (thumbnails.go:158 against 138-144); `RegenerateAll` never regenerates,
nor is the thumbnail of an updated item made anew (80-82 against 495-512, which finds the stored one);
maintenance.go:175 names a column that does not exist; expired items keep their
thumbnails; a later file under a freed name shows the old one; a crash between the
thumbnail and its hash leaves none, against 501, until a hash comes from elsewhere; an older thumbnail may be stored after a file was
replaced; the hash of a thumbnail is lost if the only item that had it is deleted before
another item of the file was given it. A resumed embedding job asks for the items without those already embedded
and still skips as many as were done on the page, so that as many are never embedded;
an outdated embedding is not deleted, and its item is embedded by each later job.

**Open timelines.** The check of `openRepository` compares the chosen path, not the one
found in it, so that a second opening may reset running jobs before it is closed. A late failure of
`timeline.Open`, when it resumes jobs, leaves both databases, the maintenance loop and the jobs it has started (the shadowed `err` of
timeline.go:447-470, against 348). The file is emptied before it is written (config.go:114): a
program killed in between does not start any more. A failed save is only logged, and not repeated while the list stays the
same. A kill during the start forgets the folders not opened yet, once one of them was; so does a request that opens one while
the old server stops, after `shutdownTimelines`. A folder that could not be opened is dropped
from the file as soon as another one is opened. `getOpenRepositories` closes later what it found stale (bindings.go:62).

**Locks, limiter.** The lookup of a rate limiter overwrites its policy
(ratelimit.go:37), so that its ticker is never made; interactive imports are unfinished
(interactive.go:50).

**Search and conversations.** With `OrFields`, the clauses that hide, and that exclude
deleted items and items below others, are alternatives too (search.go:661); related
items are shown though hidden, and one whose attribute has no entity fails the whole search
(search.go:958-969); a search for people sorts by name where
searchentities.go:78 relies on rows sorted by ID (people of one name stay apart in the model, as SQLite's sort is stable); the total is 0 beyond the end; several combinations give
invalid SQL (`OFFSET` without `LIMIT`, relationships by entity or without "flat"); the
limit of a search for people counts rows. Pages of conversations use `timestamp <
last`, and lose messages of equal times at a page's end; a page without timestamps is
read again and again; a filter by person hides the other recipients.

**Readers.** An email import resumes one message too late or too early
(email.go:178-181); a text message checkpoint of 0 starts over; a checkpoint of
locations repeats an item, and the legacy format overwrites the one it loaded
(formatdecoders.go:34). In the location stream, the points that the denoise window holds are lost when the source ends
as the buffer fills (locproc.go:184), a significant point overtakes others, and a track's
first point that is dropped as noise, or a significant one that overtakes, lets two tracks be clustered (684). The device scan
sends to its throttle with a lock held, so more devices than goroutines block it; tag 0
means "none" as well; after a cancellation its goroutines wait for ever. A folder of
media takes the album of the root's parent (media.go, `FolderIsAlbum`), and shares one
collection between graphs that are stored concurrently; one unreadable entry ends it. A missing time of
modification counts as one in the range, as a zero time is in any (datasource.go:466), and so replaces a
known timestamp that is not in it (media.go:233).
The planner takes a sibling whose name begins with the claimed folder's for a part of it
(bindings.go:454), finalizes one folder too few when it leaves two levels at once, and
sorts the least confident data source first (datasource.go:327) for a page that takes the
first. Google Photos: a sidecar read before its picture wins over the embedded time
(against takeoutarchive.go:237); the counts of truncated names restart with each archive;
an album is known only in the archive with its metadata.

**Messages.** SMS: drafts are attributed to the contact; both addresses get the
contact's name if the export omits the owner. Google Voice: without an owner the first
number is taken; an owner without a number becomes an empty recipient. iMessage: a
timeframe with both ends gives invalid SQL (imessage.go:138); reactions and
participants repeat per joined row; a removed reaction is sent as an empty one;
messages of chats without other people are lost. WhatsApp: an impossible date aborts
the import; dates with days beyond 12 in the other format are read as continuations;
a quoted header splits a message; a line beyond 64 KB fails the import. Telegram:
personal information after the chats makes the reader panic (telegram.go:157-165); the
peer's name follows the last message. Facebook and Instagram: names of reactions are
not repaired; text attachments of posts are lost; of two participants of one name the
sender's namesake is no recipient; a post without text, media and time panics
(instagram/models.go:64); newer posts files with numbers up to the last older one are
not read.

## 5. What is proved

TLAPS checks these for every value of the constants that satisfies the assumptions of
the modules (`JobsAssumption`, `ImportAssumption` and so on: the constants have their types,
names of different things differ, the tables of inputs are well formed; TLC evaluates
all of them). A hypothesis beyond these is part of the statement and given below.

| Theorem (module) | States | Property of a run |
|---|---|---|
| `TypeCorrect` (`JobManagerProofs`) | `Spec => []TypeOK` | `TypeOK` |
| `PausedCanBeReleased` (`JobManagerProofs`) | a blocked action can be released | `NoLostUnpause` |
| `ProgressIsCounted` (`JobManagerProofs`) | progress covers the checkpoint | `ProgressCoversCheckpoint` |
| `ImportsRunAtHome` (`JobManagerProofs`) | only a request starts an import elsewhere | `ImportsStayHome` |
| `CancelledStaysCancelled` (`JobManagerProofs`) | only a request starts an aborted job | `CancelledIsNotRestarted` |
| `PausedIsIntentional` (`JobManagerProofs`) | how a row may leave the paused state | `PausedStaysPaused` |
| `StartedIsBeingRun` (`JobManagerProofs`) | a started row has a goroutine, unless it panicked | `StartedHasRunner` |
| `RunnersAreReachable` (`JobManagerProofs`) | no "schedule" => `activeJobs` holds what runs | `RunnerIsReachable` |
| `JobsRunOnce` (`JobManagerProofs`) | no "schedule" => no job has two goroutines in a session | |
| `JobManagerImplements` (`JobManagerProofs`) | `Undisturbed` and `OpensSucceed` => the job manager implements the lifecycle | `ImplementsLifecycle` |
| `RunsAreAlwaysRecorded` (`JobManagerProofs`) | same hypotheses => what runs is recorded | `RunsAreRecorded` |
| `IdenticalJobsRunApart` (`JobManagerProofs`) | same hypotheses => no two identical jobs at once | |
| `LifecycleIsExclusive`, `LifecycleRecordsRuns` (`JobManagerProofs`) | what the lifecycle promises, and so whatever implements it | |
| `ImportTypeCorrect` (`ImportJobProofs`) | `Spec => []TypeOK` | |
| `ImportLosesNothing` (`ImportJobProofs`) | checkpoints skip only what was stored or logged as failed | `NothingIsPassedOver` |
| `StopsLoseNothing` (`ImportJobProofs`) | no cancellation, no panic => what is skipped is stored | |
| `TableIsTyped` (`ItemStoreProofs`) | types, retrieval keys, erased rows | |
| `TableIsSound` (`ItemStoreProofs`) | `IdsAreAssigned` => also no two rows with one original ID | `RowsAreSound` |
| `KnownIsKept` (`ItemStoreProofs`) | no update empties a field | `KnownStaysKnown` |
| `FootprintsAreRemembered` (`ItemStoreProofs`) | no item is inserted whose ID or content has the hash of a deleted row; `IdsAreAssigned` => the hashes are the row's own, and it keeps them but where it is to forget the ID | `DeletionsAreRemembered` |
| `SizesCommute` (`ItemStoreProofs`) | `BySizeAlone` => the order of two files does not matter | `OrderIsIrrelevant` |
| `RepetitionIsIdle` (`ItemStoreProofs`) | `StablePreferences` => importing twice is importing once | `ImportIsIdempotent` |
| `FilesAreTyped` (`DataFilesProofs`) | `Spec => []TypeOK` | |
| `FilesAreNeverLost` (`DataFilesProofs`) | rows have their files, rows that share one agree, no file is forgotten | `FilesAreKept` |
| `DownloadsAreNeverLost` (`DataFilesProofs`) | a download is there when its item's turn comes, and is nobody else's | `DownloadsAreKept` |
| `TimelinesAreTyped` (`OpenTimelinesProofs`) | `Spec => []TypeOK` | |
| `TimelinesAreKept` (`OpenTimelinesProofs`) | as many databases are open as the table says and late failures have left; the file names all that is open but what is being entered, unless a save has failed or is under way; a start opens what it can | `OpenTimelinesAreKept`, of the instance in `MCServices` |
| `PhasesForgetNothing` (`OpenTimelinesProofs`) | `Spec => [][ForgetsNothing]_vars`: starts, stops and kills take nothing from the file, but where it is being written or its last save has failed | (the second half of `NothingIsLost`) |
| `MutexExcludes`, `MutexLosesNoWakeup` (`MapMutexProofs`) | a key is held by one; a waiter for a free key has been woken or will be | `HeldByOne`, `NobodyWaitsForAFreeKey` |
| `ThumbnailsAreTyped` (`ThumbnailsProofs`) | types, and that who generates or shares holds the lock | |
| `ThumbnailsAreMadeOnce` (`ThumbnailsProofs`) | `GeneratedByOne`: one goroutine at a time, and none once there is a thumbnail, but for jobs that regenerate and updated items | (a part of `ThumbnailsAreShared`) |
| `ListedJobsAreComplete` (`ThumbnailsProofs`) | `ListedTasksAreDone`, also after interruptions | (a part of `JobsOverItemsAreComplete`) |
| `PagedJobsAreComplete` (`ThumbnailsProofs`) | `EveryPictureIsVisited`, wherever pages end | (a part of `JobsOverItemsAreComplete`) |
| `HashesReachEveryItem` (`ThumbnailsProofs`) | `HashesAreShared`: all items of a file have its hash, or none, after a deletion or a crash that took the only one | (a part of `ThumbnailsAreShared`) |
| `ScanIsTyped` (`SourceProofs`) | types, and that `throttle` counts the goroutines | |
| `PathsStayWhole` (`SourceProofs`) | `PathsAreWhole`: each device's points come once, from one decoder, in order, and all | (a part of `ReadingIsComplete`) |
| `NoDecoderIsLeft` (`SourceProofs`) | a scan that succeeded has no goroutine left | (a part of `ReadingIsComplete`) |
| `OnlyRoomIsWaitedFor` (`SourceProofs`) | a scan is stuck only where `ScanEnds` says so, from the guards of its steps | (a part of `ReadingIsComplete`) |
| `FolderIsTyped` (`SourceProofs`) | types, that `throttle` counts the goroutines, that who sends holds the lock | |
| `MediaAlwaysComeOnce` (`SourceProofs`) | `MediaComeOnce`: what is not hidden is sent once, and nothing else | (a part of `ReadingIsComplete`) |
| `AlbumsAreAlwaysShared` (`SourceProofs`) | `AlbumsAreShared`: an album is one collection | (a part of `ReadingIsComplete`) |
| `TimesAreAlwaysChosen` (`SourceProofs`) | `TimesAreChosen`: the first timestamp in the range, or the first | (a part of `ReadingIsComplete`) |
| `NoGoroutineIsLeft`, `FolderIsNeverStuck` (`SourceProofs`) | both halves of `NoneIsLeft`, the second from the guards | (a part of `ReadingIsComplete`) |
| `ResumingLosesNothing` (`SourceProofs`) | `ResumesWhereItStopped`: an import that finishes has stored all but what email.go passes over by mistake, and sends nothing again that precedes its checkpoint | (a part of `ReadingIsComplete`) |
| `OnlyMailIsPassedOver` (`SourceProofs`) | `NoneIsPassedOver` of every source but mail | (a part of `ReadingIsComplete`) |
| `ReadersAreTyped` (`SourceProofs`) | types, and that the queue is bounded | |

### The job manager

*Type correctness.* `TypeOK` is not inductive. `TypeInv` adds that a timeline that is
not closed has a session number (`SessionOK`: it becomes the session of new
goroutines), that a request under way names a job (`RequestsNameJobs`), and that a
goroutine about to write its final state has a result (`EndingHasResult`: otherwise
`None` would become the state of a row). One lemma per action, or per group of actions
that leave the same variables alone.

*The pause hand-over.* A blocked action waits on the channel of one request, and
`UnpauseJob` closes the channel stored in `paused`. `NoLostUnpause` says they are the
same, or that the request is about to store it. It needs to know where channels can be
(`PauseInv`): `PendingBlocks` (a request in step 3 refers to an action that still waits
on its channel, or was cancelled or ended), `RunningIsNotPaused` (an action that works
has no stored channel, or else a second pause would be dropped in step 3 and its
channel lost), `StoredIsAwaited` and `AwaitedIsHeld`. `QuietStep` is the frame lemma for
the many actions that touch none of this.

*Rows.* `ProgressInv` carries "progress covers checkpoint" through the three places a
pair of them is kept: the table, the open transaction and the `ActiveJob`. `RowInv` is
about the write connection: nothing is uncommitted while it is free (`FreeIsCommitted`),
who is in a transaction holds it (`BusyWriters`), and a transaction changes rows only as
its owner may (`StartsAreSound`, `PausesEndSoundly`, `ResumeIsHere`, `TimersAreHome`). The action
properties follow, as a row is changed by the commit, many steps after what the
transaction looked at.

*Goroutines.* `RunnerInv` says that a started row has a goroutine in its session
(`StartedIsLive`), also as the open transaction sees it, through all windows: spawned and not
registered, ended and not committed. Steps are split into calm ones, which leave goroutines
in place, and the four that do not. `ActiveInv` adds, without scheduled jobs, that what is
live is registered (`Registered`) or is the one goroutine just spawned.

*Refinement.* The lifecycle's state is read off the rows as committed and the goroutines of the
present session. `RefInv` is what makes a commit one step of the lifecycle: a transaction changes
the state of no row but to start one job and to record the end of its own goroutine's (`TxChanges`), a start it is about to commit is still
allowed (`StartsHold`: no identical job was started since it was read, because the connection is
held), a running goroutine's row says so (`RunnersRecorded`), and goroutines belong to this session
(`ThisSession`). One lemma per action gives the lifecycle's action, or a stutter.
`Undisturbed` (no "schedule", no panic, no client that leaves) excludes what
section 4 lists as breaking it: a scheduled job's timer, a client that leaves during a
start, and a panic, which leaves behind a row and an entry in `activeJobs` without a goroutine. `OpensSucceed` (`[][~OpenFails]_vars`)
excludes the failed `Open` of timeline.go:447; `MCJobRestart` has too few sessions to see
what it does.

### The import

`Structure` says where `Run`, the source and the worker are relative to each other, and that
each checkpoint, of the row, the `ActiveJob`, the local variable and the worker's batch, is a place in the plan. `Coverage` and `NothingLost`
are the point: whatever precedes a checkpoint, in the order of sources, files and graphs, is
stored, in `lost`, or among what the worker still has to store before it, and this last part is empty for the
checkpoint of the row. A worker left behind has nothing to checkpoint that is not covered, also while it waits for the connection in
`SyncWaits`. `ImportLosesNothing` excuses graphs of a batch whose transaction was undone and of a file
whose data source panicked; `StopsLoseNothing` shows that without cancellation and panics
nothing needs an excuse.

### The table of items

`StoreInv` is types, that a row not erased names its import (`RowsHaveJobs`), the uniqueness of
retrieval keys, `ErasedStaysEmpty`, and that what an ending import has found was empty and
is its own or was filled in since (`FindingsAreEmpty`). Uniqueness
rests on `Found`: an item is inserted only if no row has its ID or its key, and a row that has them
is found before one that looks alike. The lemmas about policies
(`Distill`, `UpdatesOf`, `Updated`) hold for any number of priorities.

What is remembered of deleted rows (`FootprintsAreRemembered`) is two facts. An item whose ID or
content has the hash of a deleted row is not inserted, which is a guard's. That the guard means the right rows, as the hash of a row's ID is that of its own, that a row
with content has a hash of some (`FootprintsAreTheirOwn`), and that they stay (`FootprintsStay`), is preserved by every step
(`OwnIsKept`, `FootprintStays`): an update may give a row an ID or a content it lacked, and then the hash has to come with it.

The three hypotheses are about the preferences a user has chosen. `IdsAreAssigned`: they do
not name the original ID, which the page of an import does not offer (import.html:542-552);
otherwise an update could give a row another's ID, which the table refuses, or one whose hash it does not have. `BySizeAlone`: the
size is the only priority for the data; a second one could decide between equal sizes by
what came first. `StablePreferences`: priorities ask which data source a value is from, or name
the existing or the incoming one outright; a priority
by time for the data may be decided otherwise once the time is updated.

### The data files

`FilesAreKept` looks at one table, and at files in one way at a time; `FilesInv`, which every step
preserves (`FilesAreInvariant`), says what keeps them apart:

* both tables are true of the disk (`TablesAreTrue`): the open transaction's but for `torn` names,
  the committed one but for these and the names the transaction has `touched`. A commit makes the
  first one the second; a rollback makes what was touched torn;
* what is being downloaded, what waits for its batch, and what is to be deleted is on disk and in
  no row (`OwnAreFree`, `DoomedAreFree`), and belongs to one item or one deleter (`OwnedOnce`);
* every file is a row's, an item's, a deleter's, torn or a stray (`Accounted`);
* items pass their stages in order, those a batch has not come to are ready, and a row has a
  file just when it has a hash (`ItemsAreStaged`, `BatchIsReady`, `FilesHaveHashes`).

The long step is `StoreItem`, one step of the model and some eight of `storeItem`. Its proof
follows the code, as a chain of predicates on the state of the transaction: `Fresh` when the item's
turn comes; `Ready` once it has its own file or another row's
(`AdoptedReady`), which each renaming preserves (`RenamingsReady`); what the row then holds and which
file is left over (`FilledSound`, `UnusedSound`, `ReplacedSound`, `RestoredSound`); and `Final`, from which
the invariant follows, however it ended (`SettledFinal`, `RefusedFinal`, `RefusedLateFinal`, `UndecidedFinal`, `LeftBehindFinal`).
`Follows` relates the states before and after such a step: files others rely on are as they were,
rows follow a renamed file, and no file but the one or two it is about loses its owner.
`DownloadStep` and `UndoStep` do the same for downloads and for what undoes a transaction. A
deletion erases rows in one step and removes their files one by one in later ones:
`EraseRowsPreserves` shows that a file is left to a deleter only when no row has it, and
`RemoveFilePreserves` that nobody has come to have it by the time it is removed, or that it was
torn by the first of two removals.

Beyond `FilesAssumption` it needs `BatchesAssumption`: an item is one occurrence, in one place of one
batch. It is how `ItemInfo` is meant; two graphs that carry the same item are two members
of `Items` with the same row. `MCFiles` checks the properties with both.

### Open timelines

Who holds `openTimelinesMu` changes the table, the list in memory and the file one after the other, and a kill or a
settings page may come in between. `TimelinesInv` says for each stage what agrees with what: the list in memory
has what is open but for the entry being made (`MemoryIsComplete`), and the file has that list unless a new one is being
saved or the last save failed (`MemoryIsSaved`); while somebody writes the file it is empty, and
writers do so only in the phases that may (`WriterHasTorn`); a free lock has no entry (`LockIsHeld`). Nothing is open without
a process (`DownIsClosed`); no listing that found a timeline gone is left when a
start begins (`NothingIsStale`), as it would close what the start has opened; and what the start has
been through is open or failed to open (`Reopened`). `HandlesAreListed`, the property, is inductive with the types (`TableTyped`,
`ConfigTyped`, `ServerTyped`). `OneEntry` is what a request may do to the table, so that opening, creating and closing are proved
once (`RequestStep`). `OpenTimelinesAssumption` has `Sort` list each
set of folders once; in which order does not matter.

### The thumbnails

The theorems hold for any library, list of tasks, size of pages and of batches, number of
requests, and however files are replaced, deleted and added meanwhile. Three things make them true.

*The order of the pages.* A page is the first `PageSize` rows, by `Before`, of those after the cursor.
`BeforeIsOrder` shows that this is a total order, with NULLs last, `PageIsBeginning` that
no row after the cursor that is not on the page precedes one that is, and `NextPageFollows` that the
predicate of the query, `After`, is that order for the rows in `Reached`: those with a timestamp, and the one with
the highest row ID. For the others it is not, which is the gap section 4 lists. `InOrderIsAll`
shows that the queue made of a page has each of its tasks, which replaces the library's facts about sorted sequences.

*The lock.* `LocksInv` ties what a goroutine does to what it holds, and that who is about to store found
no thumbnail; `Locks!Inv`, with its theorems from `MapMutexProofs`, gives that no other goroutine
is between finding and storing. What is stored for a file whose first content is still there is a picture of
that content (`FirstVersionInv`); as contents are numbered, it never comes back once it is replaced (`VersionsInv`).

*The job.* A file is `Settled` if it has a thumbnail and its hash has been shared,
`Handled` if it is settled or a goroutine of the job works on it, and `Queued` if it waits in the page's queue. The
cursor of a page and the checkpoint of a list pass a row only if it is one of these (`PagesInv`,
`ListInv`), a batch and a page end when no goroutine works (`JobInv`), and nothing that
happens to other files, or to items that share the file, unsettles it (`SettledIsKept`). A request may settle a file before the
job comes to it, or hold its lock while the job waits; either way the job's own goroutine shares
the hash (`RunSettles`). `HashInv` says where a new hash is until all items have it: with
the goroutine that has released the lock, if the program did not end since. After a crash `UniformInv` remains: all
items of a file have its hash or none has.

That progress ends at the total (`ProgressReachesTotal`) compares two sums over pages, which would need
induction; TLC checks it.

### The device scan

That each point is sent once and by the same decoder as the others of its device rests on who has a
device (`OwnersInv`): every tag in `seenDevices` but 0 belongs to one decoder, or to one that
is about to start, which is the window between marking a device and the `go` statement. In it the finder
holds `seenDevicesMu`, and no point of that device has been sent. That all points are sent rests on
what a decoder leaves behind it: what it has passed is in `seenDevices`, so somebody's (`DecodersInv`),
and what it has passed of its own device was sent (`PassedInv`). A new decoder reads from the beginning,
and so sends what the finder had passed before anyone looked. When all decoders have ended, each is
at the end of the history or the import was cancelled, and each device has one.

The tag 0 is left out where others have tags, as in the property: the main decoder takes a device whose tag is 0
for having none, and takes another, which leaves the rest of the points with 0 to nobody.

That it is stuck only for want of room (`OnlyRoomIsWaitedFor`) is a count. If nobody can go on, somebody
has the lock, and is about to start a decoder. Decoders that were started have different devices, none of
them the new one (`OwnersInv`), so there are fewer than devices, and one is free; hence it
is room that is missing, and the tokens taken, the main decoder and the new device are more
than `MaxGoroutines + 1`.

### The folder of media

`FolderAssumption` says how `fs.WalkDir` goes through a folder: it comes to the folder first, and
to nothing else before it is through what lies in it (`WalkOrder`). From that, `SkipDir` skips what is in the
hidden folder and nothing else, and the walk never comes back to something hidden (`WalkInv`): behind it, an entry
has a goroutine just if it is to be imported. A goroutine ends when it has sent its graph,
or was cancelled (`SentInv`), and the walk ends without an error only at the end of the folder.

A collection is kept under its name by the goroutine that came first, in the step that sends a graph with
it, and never replaced (`CollectionsInv`); `collectionsMu` is held from the look-up to the end of the
send, which is why these are one step. The time is a pure function of the file and the
options; the proof goes through the cases of what is known and what is in the range.

The import is never stuck (`FolderIsNeverStuck`): who waits for `collectionsMu` waits for somebody who sends,
who waits for nobody, as `FileImport` has not returned; and the walk waits for room only while
there is a goroutine. A capacity of 0 is excluded; the code's is 100. That
`SkipDir` always has an end to skip to is a minimum of naturals.

### Resuming imports

What a checkpoint promises is that whatever it covers, what precedes it and what it names, was stored
(`CheckpointsInv`). It does so because graphs are stored in the order in which they were read: everything before
a graph in the queue was stored or is in the queue before it (`QueueInv`), and everything behind the
reader was stored or is in the queue (`ReadInv`). An interruption empties the queue and takes nothing
from what was stored, so the next import may begin with any checkpoint that was written.

It remains that no more is passed over than the checkpoint covers, which is a matter of what is still ahead (`AheadInv`).
A source of one file keeps its checkpoint; the photos drop it where they find it; mail drops the file
first (`ahead.file`) and then the number of the message, but where the message was the last of its mailbox nobody
looks at the number, and it is still ahead in the next mailboxes. That is the exception in the theorem,
`Mistaken` (email.go:178), and the only one: sources other than mail pass over nothing
(`OnlyMailIsPassedOver`).

`ReadersAssumption` has two facts beyond types. A checkpoint without a path belongs to the only file, as such
sources are given one; and an .eml file is one message (email.go:139), so a number looked for in
a file that is no mailbox is 0.

### What stays with TLC

Liveness under fairness (`InterruptedAreResumed`, `ScheduledStart`, `RunnersEnd`,
`ActiveCancelReturns`, `ImportEnds`), which the prover does not do; the three counterexamples; what
the readers' recursive functions compute for whole exports, which needs induction over data; and
that nothing but the guards keeps a step of a folder's or a history's import from being
taken (`NoneIsLeft` and `ScanEnds` say ENABLED, the theorems spell the guards out); and
the other components so far: progress of thumbnail jobs, embeddings, the stream of locations, conversations,
search, graphs and plans. So do entities, whose steps are folds over the attributes of a
person and the people to merge: what they preserve needs that induction too.

## 6. Not modelled

Charts, obfuscation, log, settings, OAuth, the registry of data sources, the front end and the CLI:
parsing, queries and formatting, without the state changes over time these
tools are for. The rate limiter is used by nobody and never limits, interactive imports
wait for an answer nothing sends. The `reset` command of the CLI empties
the list of timelines in the configuration while no server runs (cmd.go:158). Some twenty data sources read one file and send what it
holds. `PROJECT.json` lists every part with what is left out of those that are
modelled, and every hazard with the properties that cover it.

## 7. What is left

To prove next: that joining one person to another
loses no link, as a lemma about `MergeOne`.

To model: the twenty readers above where they keep state (Twitter's archives, GitHub's
pages), the Python server's start and stop, subtrees in deletions.
