# flow-controller: a verification development

flow-controller is the operations console of a home media server: a FastAPI
backend (one process, one asyncio event loop, worker threads, a SQLite file) and
a React frontend. It watches what Radarr and Sonarr download, places finished
downloads in the library, mixes audio tracks into videos, searches and grabs
releases, restarts a hung aMule and tells the operator. This directory holds TLA+
models of its core, the TLC runs that check them and the TLAPS proofs about them.
Paths below are relative to `backend/` unless they start with another
directory, and `PROJECT.json` has them in full; "the arr" is Radarr or Sonarr.

Contents: 1 the system, 2 the project at a glance, 3 modules and how they
correspond to the code, 4 runs and bounds, 5 fairness, 6 what is proved, 7 where
the code and its words part, 8 abstractions, 9 what is not modelled.

## 1. The system

### 1.1 Components

| Component | State | Operations | Hard behaviour |
| --- | --- | --- | --- |
| File queue (`interfaces/http/routes/files.py`, `state.py`) | `file_queue`, `queue_lock`, `consumer_active`, `queue_consumer_task`, rows of `operations` | add, cancel, complete by hand, status; the consumer task | handlers, consumer, worker thread and durable writes interleave; the consumer may die; restart |
| Placement worker (`application/use_cases/place_file.py`, `domain/policy/placement.py`) | the paths of an operation | place (copy), move, trim | any system call fails; cancel polled between chunks; shared inodes |
| Operation history (`infrastructure/sqlite_history.py`) | eleven tables | record, recover at start, claims of the sweep, notices, acks | written outside every lock of the callers; restart |
| Auto-copy sweep (`application/use_cases/sweep_downloads.py`, `auto_copy_driver.py`, `domain/policy`) | markers (claims) and decisions in SQLite, a single-flight flag | sweep every trace: decide, claim, dispatch | at most once across crashes; manual and periodic sweeps; a verdict that goes stale |
| Operator's actions (`copy_engine.py`, `infrastructure/arr_client.py`) | none of its own: the arr's queue, the client, path mappings | cancel, remove, retry, pause, categorise, map, copy | calls whose answer is lost; two requests at once; payloads older than what they act upon |
| Copy engine (`copy_engine.py`, `application/use_cases/copy_files.py`, `infrastructure/file_storage.py`, `import_service.py`) | background copy tasks | copy, cancel, import, verify | cancel against completion; the claim of the sweep outlives a failed copy |
| Task manager (`task_manager.py`) | registry of tasks with TTL | create, update, cancel, cleanup | event loop and worker threads call it |
| Media mixer (`media_mixer.py`, `interfaces/http/routes_mixer.py`) | tasks, one ffmpeg slot and its FIFO of waiters, processes, temporaries | start, cancel, pause, resume, substitute | a process is killed, paused and resumed while the worker decides |
| aMule watchdog (`infrastructure/amule_watchdog.py`, `docker_client.py`, `amule_canary.py`) | state machine kept between probes | probe, restart, alert | cooldown, attempts, failures of the restart itself |
| aMule EC line (`infrastructure/amule_ec_client.py`, `amule_service.py`) | one connection per operation | delete, categorise, pause, resume | a connection given up after the request was sent; an index read in one connection and used in another |
| Event bus (`event_bus.py`, `interfaces/http/routes/events.py`) | one bounded queue per reader | subscribe, publish, unsubscribe | slow readers: the oldest event is dropped; two threads in a queue without a lock |
| Snapshot caches (`application/use_cases/trace_cache.py`, `downloads_cache.py`), service status (`interfaces/http/routes/status.py`) | snapshot, its age, a flag | read through, invalidate, poll | fetches that overlap; publishing on change |
| Download notices (`application/use_cases/download_notices.py`) | `notices` rows | decide what to tell, send, count attempts | retry without repeating |
| Blocked acks (`application/use_cases/blocked_acks.py`) | `blocked_acks` rows | acknowledge, filter | an ack for a block that came back |
| HTTP edge (`interfaces/http/middleware.py`, `rate_limit.py`) | fixed-window counters per client | count, refuse, evict | window boundary, table at its limit, answers that come back late |
| Grab and search jobs (`application/use_cases/grab_release.py`, `release_search.py`, `interfaces/http/routes/calendar.py`) | task registry, `own_grabs` rows | start, poll, record | a job that outlives its request; sources that fail one by one |
| Indexer registry (`interfaces/http/routes/indexers.py`) | `indexers` rows with sealed keys | create, update, delete | check and write in two calls; masked keys that come back |
| Library renames (`application/use_cases/library_rename.py`, `domain/rename_plan.py`) | files, `rename_log` | propose, rename with sidecars, log, rescan | a folder that changes between listing and rename |
| Probes (`application/use_cases/probe_library.py`, `interfaces/http/routes_mixer.py`) | `probe_results` rows, a memory of the list | sweep, probe one, list | a file replaced between read and save |
| Settings and credentials (`infrastructure/settings_store.py`, `credentials.py`, `config.py`) | settings.json, its copy in memory | load, migrate, save, mask | partial knowledge: a secret that changed, a page that is out of date |
| Library reports (`duplicate_*.py`, `quality_report.py`, `scan_wanted.py`) | none | recompute from what folders and arr say | none a model checker reaches |
| Clients (`arr_client.py`, `qbit_client.py`, `amuleapi_client.py`, `torznab`, `prowlarr`, `opensubtitles`, `docker_client.py`) | none or a session | requests | pure I/O |
| Read-only routes, naming and quality rules, frontend (`frontend/`) | none of their own | display, formatting | none that a model checker reaches |

### 1.2 How they interact

- A route calls a use case; a use case decides with pure functions of `domain/`
  and acts through gateways. Everything that blocks runs in
  `asyncio.to_thread`, so between any two awaits another handler may run, and
  beside the loop run worker threads that share dictionaries with it (an
  operation's `cancelled` flag, a task's status).
- The file queue, the copy engine and the mixer each have a way to cancel: a flag
  the worker polls, a flag the task manager keeps, a signal to ffmpeg.
- The sweep dispatches the copy engine's `do_action`, which asks the arr to let go
  of a download and starts a background copy; the pages learn of it through the
  bus, which only says "read again"; the downloads poller also runs the notices.
- SQLite and settings.json are the only things that survive. `app.py` runs
  `mark_interrupted` before it serves, and starts the loops: status, sweep,
  downloads poller, notices, watchdog.

## 2. The project at a glance

- 22 modules of the system (two of them abstract specifications), 8 MC modules, 8
  modules of proofs.
- 12 runs: 8 that pass, with 40 properties, and 4 in which TLC refutes a sentence
  of the repository (section 7).
- Every safety property of the passing runs, the action properties and the two
  refinements included, is also a theorem, for every value of the constants that
  the modules' assumptions allow. The seven liveness properties are
  model-checked only (section 6.3).
- `PROJECT.json` has, for each definition, the lines it stands for; for each
  property, a mutation of the code that breaks it; and the hazards (what is hard to
  test in this code) with the properties that cover them, or why none does where the
  code lets them happen. The list keeps to the
  forty that matter most; others are named in sections 7 and 8.

The models were written, and the theorems proved, in the order of what can go
wrong: first what deletes or places the operator's data (queue, worker, mixer,
sweep, copies), then what acts by itself (watchdog, notices), then what the
operator does and sees (actions, EC line, grabs, feed, settings, renames).

## 3. Modules and how they correspond to the code

The grain is the same everywhere: code between two awaits of a coroutine is one
action, since one event loop runs every handler and task; a worker thread, which
runs beside the loop, has one action per system call, call to a service or flag it
looks at. Every module's header says what it abstracts and every variable's comment
names the object it stands for. Definitions with a suffix (`GraceGate_NoWindow`)
are mutations, used only to show that a property can fail.

| Module | Models | Composed with |
| --- | --- | --- |
| `PlaceFile` | the worker thread of one operation: `place_path`, `move_path`, the placement policy | |
| `FileQueue` | handlers, consumer task, `operations` rows, restart | extends `PlaceFile`: its `Work(t)` is a `PlaceFile` step of the operation the task holds |
| `SerialQueue` | the promise of the queue: a serial executor | refined by `FileQueue` |
| `Mixer` | `mixer_mux`, `start_mux`, `_run_mux_background`, `_run_ffmpeg`, `_release_slot`, cancel, pause, resume | |
| `FifoSlot` | the promise of the slot: first come first served, no barging | refined by `Mixer` |
| `CopyPolicy` | the pure rules of the sweep: `derive_stage`, `decide_copy`, `_grace_gate`, `find_own_grab` | used by `AutoCopy` |
| `AutoCopy` | the sweep, its two callers, the claims and the dispatch | extends `CopyPolicy` |
| `CopyTask` | a background copy, its record in the task registry and its thread | |
| `EventBus` | the threads inside `publish`, `_offer` and `get` | |
| `Feed` | the snapshots, their pollers and routes, the pages behind the stream | |
| `Watchdog` | `tick`, `process_cycle`, `apply_restart_result`, `_restart_once` and the world around them | |
| `Notices` | the rule, the channel and the table of attempts | |
| `BlockedAcks` | acknowledge, filter, the page | |
| `Actions` | every action of `do_action` and its calls | |
| `AmuleEC` | connections, requests and replies to aMule | |
| `LibraryRename` | the proposal, the request, the log, the rescan | |
| `ProbeStore` | the sweep, single probes, the rename list's memory | |
| `Grab` | single and batch grabs, own-grab rows, the traces that join them | |
| `SourceSearch` | the fan-out of a search and how it settles | |
| `RateLimit` | the two budgets of the middleware | |
| `IndexerRegistry` | create, update, delete and the sealing of keys | |
| `Settings` | load, migrate, save, mask | |
| `MC*` | constants for TLC, and the choice of the machine | |
| `*Proofs` | theorems | |

**PlaceFile.** `step[o]` is the place in the worker; `src`, `dst` and `tmp` are
what a crash at that moment leaves on disk (data whole, partial or gone under
each name; a temporary). `Call` hands the operation over; `AlreadyPlaced`, `Link`,
`Rename`, `StartChunks`, `StartTree` are the ways to place a file or a tree;
`LastChunk`, `Publish`, `FinishTree` end a copy; `Cleanup` decides about the
source and `RemoveSome`/`RemoveSource` delete it. `Interrupt` is the flag noticed
between two chunks, `Raise` any system call that fails.

**FileQueue.** `queue`, `status`, `imp` are `file_queue` and the dictionaries in
it; `active` and `handle` are `consumer_active` and `queue_consumer_task`; `row`
is the `operations` table; `add[o]` and `pc[t]` say where the `queue_add` handler
of `o` and consumer `t` are between their awaits; `lock` and `rowEdits` are the two
ways `queue_complete` writes. `file_queue` is only appended to and filtered, so it
is a set ordered by `arrived`. A write to SQLite is one action that stores what the
dictionary holds when it runs, which is how `record_operation` reads it.

**Mixer.** `status`, `cancelled`, `paused` and `event` are the fields of a task,
`active` and `fifo` are `_mux_active` and `_mux_queue`; `run[j]` joins the
coroutine and its worker: `launched` (created, not yet running), `ffmpeg` (the
worker reads the output), `exit` (the output ended), then the worker's result,
which the coroutine settles in its next step. A cancel that terminates ffmpeg is
`OutputEnds` followed by `ExitError` or `ExitOk`: the worker may see the end of the
output before the flag.

**CopyPolicy, AutoCopy.** The rules are operators over a trace, with the order of
the code's rules. A caller of the sweep reads safe mode, the traces (the arr's
queue first, then the torrents: the two may disagree), the roots and the own-grab
rows, then treats the traces one by one: decide, write the claim, ask the arr,
dispatch. Its knowledge is what it read, the world moves on. A claim that the store
loses is counted in `lost`, since the sweep logs that and goes on.

**CopyTask.** `status`, `cancelled`, `old` are the record; `at` the coroutine or
its thread (`run_copy_background`, `copy_files`, `verify_import`), `todo` the files
left, `disk` what the destinations hold. A slot `t` is used again once its task is
over.

**EventBus, Feed.** `EventBus` splits `put_nowait` and `get_nowait` into test and
change, since a thread of `TaskManager.update` publishes beside the loop; an offer
that raises is handed to the loop (`woken`), and one that raises there is lost
(`CopyLost`). `Feed`
takes an offer as one step and makes what that race can do to a copy of an event a
choice; it watches one of the three surfaces, a poller and the pages' own requests
refresh it, and an event only makes a page read again.

**Watchdog.** `snapshot` is `_state`, `draft` the new state while the restart is
awaited, `age` the time since `last_restart_at`. One operator per row of
`process_cycle`'s table, one action per await. `streak` and `sent` are history:
what really happened, to compare with what the snapshot says.

**Notices.** A tick of the poller plans notices for the item (a download at two
moments, a file of aMule's folder at each size), posts them one by one, and records
each attempt. `dark` and `lost` count what the sender could not know: rows it could
not read or write, answers it did not get.

**BlockedAcks.** `page` is made from the cache of the traces minus the
acknowledged incidents; a click acknowledges what the page showed.

**Actions.** A request carries a payload built from an older page; `todo` is the
list of calls `do_action` makes for its kind, `heard` the effects its answers
claimed. Each call is one step at the service: it acts or not, and is heard or not.
The arr and the client of downloads move at will.

**AmuleEC.** `at[t]` is the thread's place in its connection (`hello`, `salted`,
`ready`, `waiting`, `replied`, `closed`); `orphans` are requests that were sent
before their connection was given up and that aMule may still serve.

**LibraryRename.** A path is a folder, a stem (a sequence of words) and an
extension; `files[p]` says which of the original files is there. A request lists
the folder (`siblings`), checks the targets, renames one source at a time, logs and
asks for the rescan, in the code's order and in its own thread.

**ProbeStore.** A version number stands for mtime and size; a row is keyed by it
and holds the facts of the version that was read. The sweep and a single probe read
the file and save under the identity it has by then (`mixed` remembers where that went
wrong, until the file changes again); the list keys its memory first. A sweep that was
let in runs at the loop's next turn (`due`), and until then its status shows the counts
of the one before.

**Grab.** `todo[g]` are the rows still to dispatch, by shape (ed2k, hash, magnet,
http, other), over aMule's own line or, while AMULE_EC_DIRECT is 0, over the bridge
(`EcDirect`, read at every call); `has` what the clients hold and in which category,
`registry` the own-grab rows, `Joined` what `_direct_traces` makes of a row, `Mark` and
`RowsFor` the two readers of a title's rows.

**SourceSearch.** `selected`, `asked`, `answered`, `skipped` are the sources and
indexers of one search; `current` is the one search aMule is at, whoever asked.

**RateLimit.** `general` and `failures` are the two tables; `serving` the requests
that were let through and whose key will be rejected.

**IndexerRegistry.** A request reads its row (`RegFind`), looks for its name in the table
(`RegCheck`) and writes, in three steps; `typed[i]` remembers the keys written for row
`i`, `twins` the names two requests looked for before either wrote.

**Settings.** `file` is settings.json, `memory` and `app` what `_settings` holds,
`form[p]` what an open page was shown and posts back. `Fields` are the ten credentials
by name; `Encrypted`, `Hidden`, `Variables` and `Wizard` say which of them the file
seals, the page masks, a deployment variable supplies and the setup writes: no two of
these sets are the same, and `services.opensubtitles.api_key`, for one, is sealed and
shown in the clear. A start reads the file under whatever `FC_SECRET` and variables the
deployment has. `last` is what was last said of a credential, by a page, the setup, a
variable or a file that was found; `wiped` what a save overwrote while it could not be
read, be it the operator's save or a start's own, until it is said anew; `gone` the part
of it that was overwritten in an earlier run, whose error went with that run.

## 4. Runs and bounds

Several machines share a run: a variable `machine` chooses one at the start, only
its variables move, and fairness is guarded by `machine`. This keeps one run per
area of the system without multiplying state spaces. Most machines have one
invariant, a conjunction of named parts; each part has a mutation of its own behind
it.

| Run | Machines and bounds | What it shows |
| --- | --- | --- |
| `workers` | one operation of every kind over every destination; watchdog with threshold, cap and cooldown 2, one fault; a download or a file, 2 tries, 2 things unknown; 3 traces (two share an identity, one has none), 3 entries of the arr | no data lost, nothing half-written, seeds stay, an interrupted copy changes nothing; restarts are confirmed, capped and shown, a lasting hang ends in the alert; notices are told once and end, what is finished is told; acks hide what was dismissed and nothing else |
| `file_queue` | 2 operations, 2 consumers, queue limit 1, one restart, one dead consumer | one consumer, accepted is durable, the queue keeps what it accepted (no lost wakeup, outcomes reach the table, no orphan row, the trim drops history only), and `SerialQueue` is implemented |
| `live` | queue with 2 operations and no fault; mixer with 2 jobs on one path | every accepted operation settles; the line of muxes moves |
| `mixer` | 3 jobs, 2 paths, one restart | one mux, originals are replaced only by a mux that is done, outcomes are final, `FifoSlot` is implemented |
| `auto_copy` | one download grabbed in each of four ways, 2 callers, one unanswered question, one lost write, one restart, grace of 1 | at most one copy per claim, never in hand of both, the arr has its chance, what is stuck is copied |
| `tasks` | 2 copies of a tree of two files and a file; a page, a poller, 3 states of the services, one lost event, one reconnection, one fault; 2 readers and 2 threads on queues of 1 | a cancel is honoured, copies are whole, copies end; a quiet page is current, pages catch up; no reader is silenced |
| `actions` | 2 requests over a tracked and an untracked download, 2 losses; 2 connections, one file, 3 categories, 2 faults, one edit; 2 dialogs over a loose copy, its subtitle and a copy of the catalogue, one incoming file, one accident; 2 videos, 2 versions, 2 sweeps, a slot and a memory of 1 | an ok is done, a cancelled download is gone, foreign copies are not catalogued, mappings are added once; aMule is told what was meant; renames replace and leave nothing; what is known of a file is so |
| `console` | 2 releases (ed2k, magnet), 2 grabs, one batch, one mishap, aMule direct or through its bridge; 2 searches, 2 indexers; 2 clients, limits of 1, windows of 2 s over 2.5 s, a table of one key; 2 editors, 2 names, one change of secret; one page, 2 secrets and none, three credentials (masked and sealed; sealed and shown; kept when empty), of which a behaviour uses the first, or the other two, 4 environments, 6 legacy files | grabs are traced, an empty search has a reason, budgets and tables hold, indexers keep their keys, credentials survive |
| `mixer_cancel`, `auto_copy_retry`, `grab_batch`, `settings_start` | the smallest instance that shows it | section 7 |

Why the bounds are enough to be interesting. Two operations are what the queue
needs for a second one to be added, cancelled or completed while the first is at
any point; two consumers are what a second consumer needs; with a limit of one
every add trims. Three muxes are a holder and two in line, the least that can be
served out of order; two paths let a substitution and a new file meet or not. A
threshold and a cap of two tell one failure from the last. Two requests, editors,
searches, dialogs or connections are what an interleaving needs, and one fault of
each kind can fall between any two steps. The tables of the HTTP edge hold one key
for two clients, so that eviction happens; a window is two seconds, so that a
request may fall in its first or last half. The theorems of section 6 remove all of
these bounds for safety.

`MaxCrashes`, `MaxDeaths`, `MaxFaults`, `MaxMisses`, `MaxLost`, `MaxBlind`,
`MaxFeedFaults`, `MaxMishaps`, `MaxAccidents`, `MaxLosses` and `MaxEcFaults` bound
faults; `MaxGrowth`, `MaxTruth`, `MaxOthers`, `MaxJoins`, `MaxQueueId`,
`MaxNumber`, `MaxListEdits`, `MaxVersions`, `MaxSweeps`, `MaxRows`, `MaxRegistry`,
`MaxId`, `MaxSecrets`, `MaxTime`, `MaxArrivals` and `MaxServing` bound what the
world does. Interchangeable identities are symmetric in the safety runs; liveness
runs use no symmetry. Deadlock is not checked: the machines stop when every request
was served or every bound is used, and a behaviour is one machine.

## 5. Fairness

- Queue: weak fairness of every handler's pending step, of every consumer step
  and of the write under the lock: the event loop runs each ready callback and the
  thread pool each submitted call. Worker: a system call returns. Operators,
  faults and deaths owe nothing.
- Watchdog: weak fairness of the cycle (`watchdog_loop` sleeps and calls `tick`
  again, an exception included) and of time.
- Mixer: weak fairness of each job's run: ffmpeg, whose pipes are both drained,
  ends, and the loop resumes whoever awaited it. No fairness of any request.
- Sweep: weak fairness of a sweep that has begun, and strong fairness of "a sweep
  begins with safe mode off": the timer never stops, but the operator may turn safe
  mode on and off between its ticks for ever, and the promise is only for one who
  leaves it off now and then.
- Copies: weak fairness of the thread and of the coroutine.
- Feed: weak fairness of the poller, of the answers (requests have timeouts), of the
  stream, and of the services coming back.
- Notices: strong fairness of the poller's step, since a table that comes and goes
  may disable it again and again, and weak fairness of a table that is away coming
  back.

Nothing else is assumed fair.

## 6. What is proved

### 6.1 From which assumptions

The proofs hold for every value of the constants that the modules' named ASSUMEs
admit: sets of any size (finite where the code counts them), any number of faults,
restarts, requests and versions. TLC evaluates each ASSUME in the run of its
module. Most say that a bound is a natural number or that an identity is none of the
others. The ones that say more: the queue's and the mixer's requests are of the
code's shapes; a batch has at least one row and a client names its downloads; a file
has a folder, a stem and an extension that `apply_rename` accepts; bounds of
queues and windows are positive. One theorem has a hypothesis of its own:
`NeverBothInHand` is about a registry whose rows tell downloads apart by title and
date (`OwnRowsAreOwn`), since the code joins them by nothing else and a coincidence
inside the window of [-30 s, +120 s] gives one download another's destination.

### 6.2 Along which argument

Each proof module has, per component, an inductive invariant (the names below),
one lemma per action or group of actions that preserves it, and short theorems that
draw the properties from it. TLC had found every property to hold on the
component's run before its proof was begun, and where an induction step failed on a
state that cannot be reached, the invariant below is the strengthening that
excludes it.

- `PlaceFileProofs`. `DataInv`: until the clean-up the source is whole; from the
  clean-up on the destination is. `WriteInv`: only the tree copy writes under the
  final name, a temporary exists only while its worker copies or was killed.
  `SeedInv`: what lies in the torrent folder is copied, and a copy never comes to
  where a source is removed. `ShownInv`: bytes go to a temporary until the name is
  published, and after that no look at the flag is left. From them no data is lost,
  nothing is half-written, seeds stay, and a worker that ends interrupted changed
  nothing.
- `FileQueueProofs`. `ConsumerInv`: a live consumer is the one the handle names,
  and the flag is up, which is why a second one is never started. `TraceInv`: who is
  about to write a row finds the operation in memory. `KeepInv`: what is pending or
  running is in the queue, and a row that is completed by hand is of none that is.
  `OweInv`: an outcome in memory is in the table or owed to it by the holder of the
  lock, the add or a consumer; `Owed` names the two ways in which the code writes
  none (section 7). `PFChanges`: whatever the queue does, the worker's variables
  change by one `PlaceFile` action or by a restart, which carries the worker's
  invariants into the queue. `QueueIsSerial` maps each step to a step of
  `SerialQueue` or to a stutter: a consumer that takes the oldest pending operation
  begins it, a cancel withdraws it, a restart loses what was in memory.
- `MixerProofs`. `SlotInv` adds to the slot's properties that every queued job is
  in the line, not cancelled, and that arrivals are distinct: dropping the
  entries in front of the chosen one then drops nobody who waits. `FileInv` adds
  what the existence check settled: a new file never has a substituted name.
  From them: one mux, originals, final outcomes, and the refinement of `FifoSlot`.
- `AutoCopyProofs`. `LockInv`: one sweep at a time, and it knows which trace it is
  at. `CountInv`: copies dispatched or about to be are covered by a claim, or by a
  write that was lost. `AgeInv`: no age that anyone read overtakes the torrent's, so
  a verdict on old knowledge only errs on the side of waiting. `DetachInv`: a copy
  out of the library begins, and goes on, only while the arr's entry is gone.
- `TasksProofs`. Copies: `RecordInv` ties the record to where the coroutine is,
  `CopiedInv` says that what is off the worker's list is whole. Bus: `Account`, the
  events in a queue and the threads that have tested it but not yet put; the bound is
  exceeded by fewer events than there are threads. `Accompanied`: an offer of the loop's
  that finds a queue emptied under it is not alone there, for no reader runs while the loop
  publishes: the thread that took the last event out is about to put its own, which is
  why a copy the loop loses silences nobody. Feed: `PageInv`, a page that has
  heard its events, is not stale and fetches nothing shows the snapshot, whether it
  is still subscribed or not; and only the status surface is ever being checked.
- `AlertsProofs`. Watchdog: `CountersInv` relates the snapshot to the history,
  `DraftInv` says what a pending restart was decided on; a cycle that raises loses
  the draft and not a request. Notices: `ToldInv` and `CountInv` account for every
  post that arrived and every attempt recorded, up to what the sender could not
  know. Acks: entries of the arr are never numbered twice (`NumbersAreUnique`), so
  an acknowledgement is only ever of what was dismissed.
- `ActionsProofs`. Actions: what may be left of a request's calls (`Left`), that
  what it promises is among what it heard and what is to come, that an entry taken
  out does not come back under its number, and that of the requests that saw no
  mapping one at most is about to add it. EC line: an index means what was expected
  as long as the list it was read from is the present one, for the file, for every
  request and for every request left behind (`IndexMeant`); an answer that is not
  FAILED says that the file is gone. Renames: a target that exists came to be after
  the request looked (`late`), what it has not moved failed, is gone or became
  somebody else's, and what it moved is logged and told. Probes: facts are never
  older than the identity they are kept under (`KeyFits`), those about to be saved
  fit the file unless it was replaced in between, and the sweep's count is of files
  that are done.
- `ConsoleProofs`. Grabs: a single grab is downloaded before it is to be recorded and
  has its row afterwards, and rows are only added while none slides out of the
  readers' window. Searches: who came back was asked; the Torznab source comes back
  after all its rows and as an answer iff one of them answered. Budgets: arrivals in
  front of the current window came before it began, and those in front of a further
  whole budget a window earlier still, which bounds any window by twice the limit;
  failures counted and keys being tried stay below what was allowed. Registry:
  a name that is not in `twins` and that a request has looked for is on no row and
  with no other such request. Settings: a credential that is not `wiped` is in the file as
  it was last said, unless its write failed; the memory holds that or nothing; what it
  misses is unreadable or `wiped` in this run, and `error` is up; and the theorem is for
  any subset of the ten credentials.

`PROJECT.json` lists the theorems with the properties they state. Nothing is assumed
in the proofs besides the ASSUMEs; every leaf is checked by Z3, Zenon or, for the
temporal steps, LS4. One quirk shows in a model: the provers do not know that a
literal string is a member of STRING, so the word a template adds to a title is a
constant of `LibraryRename`.

### 6.3 What is only model-checked

Liveness, which TLAPS cannot prove under fairness: `HangEndsInAlert`,
`FinishedIsTold`, `EveryOpSettles`, `MuxesMove`, `StuckIsCopied`, `CopyEnds` and
`PagesCatchUp`. They hold on the instances of section 4 under the fairness of
section 5. No definition is RECURSIVE, so nothing had to be left out of the proofs
for that reason.

## 7. Where the code and its words part

Each of these is the only property of a run that TLC refutes.

- `mixer_cancel`: a cancel between the worker's "paused" and the coroutine's next
  step is answered ok and then overwritten by the pause (`media_mixer.py:816`); the
  job keeps the only slot.
- `auto_copy_retry`: when the arr removes the entry of a download and its answer is
  lost, the claim is downgraded so that "the next sweep may retry"
  (`sweep_downloads.py:567`), but the retry finds no queue id and is refused for
  ever.
- `grab_batch`: a batch "dispatches row by row exactly like the single grab"
  (`calendar.py:498`), but a row whose link does not name the download is recorded
  without an identity and has no trace.
- `settings_start`: a credential that cannot be read is reported with the advice to
  restore the former secret, while the same start may write the document back
  without it (`settings_store.py:204`).

Seen on the way and not checked by a run:

- Files: the copy that is cancelled while its bytes move sets its status in memory
  and writes no row, so the table keeps `running` until a restart (`files.py:613`
  against line 575 of the repository's README); an import that raises sets `import_status` in memory and never in the
  table (`files.py:609`); completing by hand a row that is not in memory checks and writes
  in two calls (`files.py:771`, `:778`, `:762`); two adds in the same millisecond
  share an id (`files.py:640`); `move_path` looks at the cancel flag once before the
  removal.
- Mixer: the promise not to overwrite an existing name is checked when the request
  arrives, not when its job writes (`routes_mixer.py:890`, `media_mixer.py:445`);
  cancelling a paused substitution leaves its temporary beside the library file
  (`media_mixer.py:968`).
- Watchdog: emptying aMule's address clears the alert without a healthy probe
  (`amule_watchdog.py:88` against `:116`); a restart request that errors starts no
  cooldown.
- Copies: the time to live of a task counts from its creation
  (`task_manager.py:122`), so a copy longer than that is dropped while it ends;
  `copy_files.py:51-54` says "never mid-file" while the flag is polled per chunk; a
  crash leaves its `.copy_*` temporary; a copy asked for by hand carries no claim,
  so the sweep may copy the same download.
- Caches: "an unreachable service must not empty the screen"
  (`downloads_cache.py:20-24`), but a queue that cannot be read counts as empty; of two overlapping reads the older
  may be stored last, until the window ends.
- Notices: a file of aMule's that stalls for two ticks is called finished; "The
  worst case is one extra" (`sqlite_history.py:1348`) is one extra per thing unknown.
- Actions: a foreign copy whose queue number is stale (404) goes on though the arr
  may track the download under a new number; a category is looked up in one connection
  to aMule and set in another, so a list that is edited in between gives the file
  another category (`copy_engine.py:334`, "no manual map can drift"); safe mode is a
  barrier at the route only; two simultaneous `fix_path_mapping` may both add.
- Grabs and searches: a stop between the add and the row, or an add whose answer is
  lost (`grab_release.py:200`), leaves an untraced download; two simultaneous searches
  cut each other short in aMule and the loser reports it as answered with no results (`indexers.py`, near 42, "never a silent
  []"); a name can join a row to another download of the same name; an ed2k add
  takes no category although the docstring of `grab_release` says that the arr will
  import it.
- Registry: a PUT that omits a field writes back what it read (a lost update), and
  two POSTs at once make twins (`indexers.py:21-27` promises a 409).
- Renames: "or move nothing" is not kept when a rename fails half-way or two
  requests meet; the sidecars of a longer-named neighbour come along
  (`rename_plan.py:6-9`); a file published between the check and the rename is
  replaced.
- Probes: facts saved after the file was replaced are served as current by the
  store, "only while its identity holds" (`sqlite_history.py:1054`), whereas the
  rename list, which keys first, is safe; an exception in a sweep leaves its status
  running.
- Settings: a credential that a save overwrote while it could not be read is reported
  in that run only: later starts find it empty and say nothing.
  `services.opensubtitles.api_key` is sealed at rest but neither masked to the page nor
  restored from it (`routes/settings.py:98`, `:156`), and `services.prowlarr.api_key` and
  `services.amuleapi.password` are not masked either: an untouched field of a page that
  is out of date puts an older value back. `services.prowlarr.api_key`,
  `services.qbit.password` and `services.amuleapi.password` are in none of
  `ENCRYPTED_SECRET_FIELDS` and stay in the clear in the file. A body without
  `services.amule` drops the EC password, which the frontend always posts. An API_KEY in
  the environment replaces the stored app key at every load;
  a page that is out of date can restore or clear an older app key and plain
  settings, though `_apply_app_key_change` says "leave the stored key alone";
  `encryption_error` stays after the credentials were entered again; a settings.json
  that cannot be parsed reads as empty.

## 8. Abstractions

What the reader should know of besides the modules' headers:

- A write to SQLite succeeds in the queue; in the sweep, notices, acks, grabs,
  registry and renames it may fail.
- `FileQueue` gives every operation an id of its own. `Mixer` does not expire its
  finished tasks; `Begin` is `ffmpeg -y` opening its output.
- `AutoCopy` leaves out the decision log and the summary; "warning" appears only
  after completion; the grace window of a trace is kept while it is importing; its
  copies run and some day are over, how is `CopyTask`'s.
- `Feed` watches one surface at a time; the three share only the bus.
- `Notices` follows one item at a time: items share nothing but the poller.
- `RateLimit` has a clock of half seconds. A rejected key is counted when its answer
  comes back, as in the code.
- `AmuleEC` has no frames or tags; what aMule was sent it may serve in any order among
  connections.
- `Grab` treats all rows of a batch with the request's ids, as the code does.
- `LibraryRename`: a title with its year is one word; the check that looks past
  letter case is left out; Radarr is assumed to have a naming pattern, a movie whose
  template does not reproduce its names is outside `Reproduced`.
- `ProbeStore`: mtime and size are never again those of an earlier version.
- `Settings`: what a page posts in a field is the operator's word, also when the page is
  out of date, unless it is a mask or an empty EC password; the salts go with the
  document; every body has the services' groups, as the frontend's has.
- `Grab`: the bridge of AMULE_EC_DIRECT=0 keeps the category it is given.
- `RateLimit`: the Retry-After of a client that is locked out for rejected keys has
  no property of its own.

## 9. What is not modelled

`PROJECT.json` has every component with its reason. Left out for good: clients
(requests and parsing: their outcomes are inputs of the models), naming, quality and
language rules (strings without state; the repository's unit tests are the better
tool), library reports (computed anew at each request), read-only routes and the
frontend. Inside the modelled components: the synchronous file routes, the subtitle
entries and the expiry of mixer tasks, the probes of the service status, the list of
aMule's servers, the plain settings and the test of an indexer.
