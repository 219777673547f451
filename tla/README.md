# BRKNAM in TLA+

BRKNAM plays Neural Amp Modeler captures (`.nam` files) inside an audio
plug-in and keeps a SQLite index of a capture library. This directory holds
TLA+ modules that model it, TLC configurations that model-check them, and
TLAPS proofs about them. `PROJECT.json` ties every definition to the source
lines it stands for.

Run a model with `tlc -config X.cfg M.tla`, a proof with `tlapm MProofs.tla`.

## 1. The system

### Components

| Component | Source | State | Operations |
|---|---|---|---|
| RetiredQueue | `src/src/audio/RealtimeModelSlot.hpp:47-65`, `.cpp:51-77` | ring of `Capacity + 1` entries, `read_index_`, `write_index_` | `push` (audio thread), `pop` (collector), `reset_indices` (owner) |
| RealtimeModelSlot | `src/src/audio/RealtimeModelSlot.{hpp,cpp}` | `pending_`, `current_`, `fade_from_`, `retire_waiting_`, the queue, crossfade position, the values observers read | `publish`, `process`, `collect_retired`, `prepare`, destructor, observers |
| ModelLoadWorker | `src/src/audio/ModelLoadWorker.cpp` | under one mutex: `latest_generation`, `latest_request`, `status`, `stopping`; worker-local `consumed_generation` | `request_model`, `request_detach`, `status`, `wait_until_settled`, destructor; the thread's loop |
| OneSlotProcessor | `src/src/audio/OneSlotProcessor.cpp` | the slot, trims, bypass, output mode (atomics), DC blocker | `prepare`, `process`, `publish_prepared_model`, `collect_retired_models`, setters |
| NamCoreModel, ModelRateAdapter | `src/src/audio/NamCoreModel.cpp` | the DSP graph, two resamplers, latency | `load`, `prepare`, `process` |
| MonoLanczosResampler | `src/src/audio/LanczosResampler.hpp` | mirrored ring of samples, two integer phases | `push`, `pop`, `input_frames_required_for`, `renormalize_phases` |
| BRKNAM plug-in | `src/plugin/BRKNAM/BRKNAM.cpp` | processor, worker, selected path, displayed status and generation, reported latency | `OnReset`, `ProcessBlock`, `OnIdle`, `OnParamChange`, file selection |
| LibraryDatabase | `src/src/library/LibraryDatabase*.cpp` | SQLite: roots, assets, tags, saved searches, full-text index, `user_version` | open and migrate, `refresh_root`, hashing, duplicates, search, tags, saved searches |
| LibraryScanner | `src/src/library/LibraryScanner.cpp` | none | walks a tree into assets and issues |
| NamMetadataReader | `src/src/nam/NamMetadataReader.cpp` | position in the input, first error | one pass over a `.nam` file's JSON |
| Sha256 | `src/src/library/Sha256.cpp` | digest state | `sha256_file` |
| Tools | `src/tools/` | none | print the result of one library call |

### Interactions

    plug-in UI thread        worker thread                    audio thread
    request_model ---------> ModelLoadWorker::run
      (mutex, condvar)         load, prepare
    status <-------------      publish ------pending_------> process
                               collect_retired <--queue-----   crossfade, retire
    latency_samples <--------------- atomic snapshots --------

The worker is the slot's only publisher and its only collector in the plug-in.
`OnReset` destroys the worker, which joins its thread, prepares the processor
while audio is stopped, and makes a new worker. The library runs elsewhere: it
is used by command-line tools, possibly several processes on one database.

### What is hard here, and what makes each part correct

- RetiredQueue: two threads on one ring with acquire/release indices. Correct
  when no entry is accessed by both, nothing is lost or repeated, order is
  kept, and what was accepted is delivered.
- RealtimeModelSlot: three threads pass raw pointers. Correct when each node
  has one owner, is deleted exactly once and never under the audio thread;
  when the newest request is the one heard; when back-pressure (a full queue)
  stops swaps but never loses a model; and when the latency and crossfade flag
  that observers read describe the audio.
- ModelLoadWorker: requests come during an unlocked load; clients wait on one
  condition variable for different generations; the destructor may come at any
  point. Correct when the newest request wins, status never lies, no wake-up
  is lost, and shutdown ends.
- OneSlotProcessor and the plug-in: a bypass that keeps the slot from being
  processed; a worker that is replaced while the UI keeps generations of the
  old one.
- ModelRateAdapter and resampler: whether a block is always complete, and
  whether the model-rate buffer always suffices, at every phase.
- Library file: several processes open, migrate and edit one file; the version
  is read before the transaction that acts on it. Correct when the schema fits
  its version, no lock is left behind, every command ends, and tags agree in
  the four places that hold them.
- Library index: a walk of a tree that changes meanwhile, moves recognised by a
  digest, hashes read between two looks at a file. Correct when no row has a
  digest or metadata of other bytes, user data follows a file only with proof,
  and a refresh of a quiet tree is exact.
- NamMetadataReader, Sha256: a hand-written parser with limits, numbers without
  the locale, buffering and padding. Correct when exactly JSON objects within
  the limits are read, with the values written, and each byte is hashed once.

The hazards, each at its line, are in `PROJECT.json`.

## 2. What is modelled now

Invariants that belong together are checked, and proved, as one conjunction of
named parts; the parts are described below.

| Property of a run | Its parts, beside the type invariant |
|---|---|
| `RingSound` | `NoDataRace`, `EntriesExact` |
| `SlotSound` | `SingleOwner`, `OwnedIffLive`, `WaitingBlocksFades` |
| `WorkerSound` | `NoRequestForgotten`, `StatusTrue` |
| `RequestServed` | `RequestCompletes`, `WaiterReleased` |
| `PlayerSound` | `PublishedIsNewest`, `PublishedIsSelected` |
| `ShellSound` | `ShownIsTrue` |
| `PollsArrive` | `LatencyReachesHost`, `OutcomeIsShown` |
| `AdapterSound` | `BlockComplete`, `PhasesBounded` |
| `SchemaSound` | `SchemaMatches`, `ReadyIsCurrent`, `LockIsInUse` |
| `TagsAgree` | `CatalogConsistent`, `SearchFindsTagged` |
| `EditsAreExact` | `ReplaceTouchesOne`, `SaveKeepsIdentity` |
| `IndexSound` | `OneRowPerPath`, `RowsTellTheTruth` |
| `RecursionSound` | `NestingBounded` |
| `StringIsExact` | `OutputIsText`, `LimitIsExact` |
| `NumberIsExact` | `MantissaFits`, `ValueIsWritten` |
| `DigestIsOfFile` | `NothingSkipped`, `HashesPaddedMessage` |

### RetiredQueue (refines BoundedFifo)

`push` and `pop` are split at their shared accesses: the load of the other
side's index, the access to the entry, the store of one's own index. A relaxed
load of the own index is part of the step that starts the call. An acquire
load may return *any* value the other side has released since the last one
this side saw, so the model has stale reads and not only interleavings
(`readView`, `writeView` hold what each side has seen, `Loadable` what a load
can return). `Delete` is the collector deleting what it popped, after which
the node can be offered again. `ResetIndices` is the end of
`clear_non_realtime`: the owner has drained the ring and no other thread is in it.

- `NoDataRace`: an entry being written is not one being read.
- `EntriesExact`: between the indices lie exactly the accepted nodes, in order,
  each once, and nullptr everywhere else.
- `ImplementsFifo`: with `items` mapped to the part of the ring between the
  indices, the queue implements `BoundedFifo`; `push` may report a full queue
  only while the collector has not yet published a removal it made.
- `AcceptedIsDelivered`: under weak fairness of the collector.

### RealtimeModelSlot (refines ModelHandover)

| TLA+ | C++ |
|---|---|
| `heap[n]` | what is allocated at an address: a model, `Dry` (node with no model) or `Free` |
| `pending`, `current`, `fadeFrom`, `retireWaiting`, `retired` | the members of these names |
| `fadeActive`, `position`, `config` | `fade_active_`, `crossfade_position_`, `prepared_`/sizes |
| `reportedLatency`, `fadeSnapshot` | what observers read |
| `audio`, `publisher`, `collector` | where each thread is inside its call |
| `Allocate`, `PublishExchange`, `DeleteReplaced` | `publish` |
| `ProcessFlush` ... `HideFade` | `process` |
| `CollectPop`, `CollectDelete` | one round of `collect_retired` |
| `Prepare`, `Destroy` | `prepare`, the destructor; `clear_non_realtime` |

Addresses are reused after `delete`, so a use after free would meet another
model at the same address. The queue is the sequence that `BoundedFifo`
describes; that the ring implements it is part of the run `thread_handover`. The
difference is that a stale load makes `push` refuse while there is room, which
here is a `retire` that comes one `CollectPop` earlier: both put the node
into `retireWaiting`.

`process` with no frames, more frames than prepared for, or before `prepare`
changes nothing of this state and is no action.

`SingleOwner` and `OwnedIffLive` together say there is no leak, no double
delete, no dangling pointer; `RenderedStaysLive` that nobody frees a model
during the block that renders it; `WaitingBlocksFades` that the one waiting
place suffices; `ObserversAgree` that the latency covers both models of a
crossfade and settles. `ModelHandover` is the contract of
`docs/decisions/0002`: one waiting request, replaced by a newer one; taken
over only between blocks and outside crossfades.

### ModelLoadWorker

A critical section is one action; the loader and the collection are outside
the mutex. `wait_until_settled` is a sleeper that is woken by a notification or
by its timeout and then looks at its condition: a notification sent when it
does not sleep is lost, as with a condition variable. Nothing in the model
makes the worker's own `wait_for` miss a request for longer than its 10 ms
poll, so that wait has no separate sleeping state. No member function starts
once the destructor has begun, but one that is asleep stays in.

A disagreement that needs no run to be seen: the header says
`wait_until_settled` returns true when the generation, or a newer one,
settled as published or error. The predicate also accepts `stopped`: a client
overtaken by the destructor gets true for a request that never settled.

### PlayerSystem (composes RealtimeModelSlot and ModelLoadWorker)

The plug-in: it EXTENDS the slot and INSTANCEs the worker, and adds the UI
thread's `selected_model_path_` and the bypass switch.

| TLA+ | C++ |
|---|---|
| `RequestModel` | `BRKNAM::request_model`, with and without a worker |
| `StopWorker`, then `RebuildModelWorker` | `OnReset`: `model_worker_.reset()` stops and joins; then prepare, a new worker, and its request for the selected model |
| `Think` | the worker's steps that do not touch the processor |
| `BeginPublish`, `ContinuePublish` | `publish_prepared_model` inside the worker's last critical section |
| `CollectOne`, `EndCollect` | `collect_retired_models` until `pop` returns nullptr |
| `AudioThread`, `ProcessBlock` | `process`, which a bypassed block does not bring to the slot |

The worker publishes under its mutex, so neither a request nor a stop falls
into a publication (`Publishing`), while the audio thread moves on. The UI
thread is inside `reset()` from `StopWorker` until the worker has ended, so it
makes no request between. When `prepare` throws there is no worker:
this is the state before `RebuildModelWorker`, in which a selection is only kept.
Allocation takes the lowest free address, which loses nothing here, as the slot
alone is checked, and proved, with every choice.

- `PublishedIsNewest`: between publications, what the worker recorded as its
  last publication is the newest content of the slot.
- `PublishedIsSelected`: while the status says published, that content is the
  model the user selected.
- `QueueNeverFills`, `MemoryBounded`: as the worker collects after each
  publication, at most three models wait in the queue and at most four exist, however
  fast the user clicks; the real queue has 16 places, so that
  `retire_waiting_` is a second line of defence. Both bounds are reached.
- `SelectionIsHeard`: liveness from the selection to the audio, across resets.

A disagreement with a document: the decision record 0002 says
that the audio thread checks the pending slot once per block. A bypassed block
does not, so a model published during the bypass stays pending until it is
lifted, and the replaced one stays in memory.

### PluginShell (on top of PlayerSystem)

The UI thread's handlers with what they tell the user and the host:
`SelectModel` and `ShowSelected` are the two looks that `request_model` takes at the
worker, `OnIdle` the poll, `BeginReset` and `EndReset` are `OnReset` around the
join. A handler runs to its end before the next (`selecting`, `InReset`).

- `ShownIsTrue`: a line that reads "published" is true of the audio, although
  it is a copy that lags behind the worker and survives a reset's join.
- `LatencyReachesHost`, `OutcomeIsShown`: the polls arrive.

Disagreement found (run `plugin_shell_report`): `displayed_generation_` is not
reset with the worker. After two selections and a host reset the line waits
for generation 2 of a worker that starts at 1, and stays at "Reloading model
after host reset" whether the reload succeeds or fails; `docs/IPLUG2_SHELL.md`
says that a failure is reported. Within one worker's life the comparison of
generations never fails, so it protects nothing.

### ModelRateAdapter (on LanczosResampler)

`LanczosResampler` has the resampler's phases as a record and its operations
as operators; `pop`'s loop is its closed form. `ModelRateAdapter` is
`NamCoreModel` with its adapter: the three outcomes of `prepare` and, per
block, the refusal, the direct path, or `ProcessPush`, `RunModel` (one turn of the
loop) and `Deliver`.
Rates are integers in any common unit. The code divides phases as doubles;
they are multiples of one over a rate, so far from an integer or equal to it that
truncation and comparison are exact, and the model uses integers.

- `BlockComplete`: no block is ever padded, in any sequence of sizes.
- `BacklogIsLatency`: a distance in either ring, in its phase units, is a number of
  host frames over the same denominator, so that what is under way is their sum. It
  equals the reported latency between any two blocks: the delay is constant.
- `RoomSuffices`: if the rings have room (`RoomInRings`) for the latency, the largest block
  and the kernel, no read touches an overwritten entry; `PhasesBounded`: nor do the
  counters run over.
- `PrimingSucceeds`: what `prime_pipeline` throws for never happens.

Two disagreements found. The run `rate_adapter_ring` has the code's constants: the whole
model-rate block is pushed into a ring of 131,072 frames before it is popped, and at
8 kHz with a 384 kHz model an accepted block of 8,192 frames is three times that,
although `docs/RESAMPLING.md` lists both rates and this block as accepted. `prepare`
does not compare what `RoomInRings` compares.
The second is the run `rate_adapter_delay`: tap t of `read_sample` weighs its entry by the kernel at
`fractional + t - 12` with `fractional` one minus the position's fraction,
which puts the kernel's centre one input sample behind the position. The delay
is constant, but one host frame and one model frame longer than reported:
1.92 host frames at 44.1 kHz with a 48 kHz model. `KernelCentre` is this fact.

### SqliteFile and LibrarySchema

`SqliteFile` is the one external module of the library: a WAL file with its
last commit, its last sync, one writer with its draft, and the snapshots that
unfinished SELECTs hold. `Begin`, `CommitAs` and `LetGo` are what the class
`Transaction` does with it; `Autocommit` is a `Statement` on its own.

| TLA+ | C++ |
|---|---|
| `Open`, `OpenFails` | the constructor of `Impl` up to the version `migrate` reads |
| `OpenCurrent`, `RefuseNewer` | the two early outcomes of `migrate` |
| `BeginMigration`, `Migrate`, `CommitMigration` | one `Transaction` of `migrate`; from version 1 there are two |
| `MigrateFails`, `RollBack` | `exec` throws, `~Transaction` rolls back |
| `Close`, `Kill`, `SchemaPowerLoss` | how a process may end |

- `SchemaMatches`: whatever was committed and may come back after a power
  failure has the objects of its version.
- `ReadyIsCurrent`: a constructor that returns leaves the current schema.
- `FailsForAReason`: it throws only for a newer file, a held lock, or since another
  process migrated meanwhile. The last is real: of two processes that open
  an old file at once, the slower one throws "table already exists" although
  the file is fine; what saves the file is that CREATE and ADD COLUMN refuse.

### LibraryCatalog (on LibrarySchema)

Commands of brknam-library that write what the user adds: `SaveSearch`,
`RemoveSavedSearch`, and `replace_tags` as `BeginReplaceTags`, `LinkTag` per
tag and `CommitTags`. A row set is a record of the tables; `words` is the
full-text index, which the triggers `Indexed` copies from `text`. Names are
compared by `Folded`, as COLLATE NOCASE and the tokenizer do.

- `SearchFindsTagged` and `CatalogConsistent`: tags, links, text and index agree, although
  `create_tag` changes the case of a tag for all assets while the
  text of one is rewritten. (What other assets *show* in `tags_text` may keep the
  old case; a search does not tell the difference.)
- `ReplaceTouchesOne`: no tag of another asset is taken by the deletion of orphans.
- `SaveKeepsIdentity`: saving again keeps a search's id and name.
- `LockIsInUse`, `CommandEnds`: the write lock belongs to a process that will let it
  go, and a command that was started ends.

### LibraryRefresh (on SqliteFile)

`refresh_root` with the scanner's walk, `ensure_sha256` and `duplicate_group`,
by two processes, while `Environment` writes, deletes, renames and hides files.
Each look at the file system is a step.

| TLA+ | C++ |
|---|---|
| `AddRoot`, `StartRefresh`, `RootUnavailable` | `add_or_update_root`, `refresh_root` up to `scan_library`; `root_statement` stays active and holds its snapshot |
| `Visit`, `AbandonWalk` | `scan_library`'s loop, `inspect_file`; its end by an error |
| `BeginStore`, `StoreRefused` | `Transaction`, the new generation |
| `Examine`, `ExamineFails` | the row's lookup, `modified_ticks`, `touch` and the candidates |
| `HashCandidate`, `StoreRow` | `sha256_file`, the match, `parse_asset`, `recover` or `upsert` |
| `FinishRefresh` | `mark_missing`, `finish_root`, commit |
| `LookUp`, `CheckAsset`, `ReadAsset`, `CheckAgain`, `StoreDigest` | `ensure_sha256` |
| `StartGroup`, `ListCandidates`, `NextCandidate`, `CollectMatches` | `duplicate_group` |

A file's content stands for its bytes, its digest and its metadata, so that a row
that mixes two files is seen. `quiet` marks calls during which nothing changed;
it is no variable of the code. The scan, which the code sorts by path, is a set
whose least path is taken (`FirstOf`). The directory iterator may give the
entries in any order, each once (`WalkOrder`).

- `RowsTellTheTruth`: where a file fits its row by size and time, digest and metadata are
  its own. It is what the second look of `ensure_sha256` and the conditions
  in its UPDATE are for, and it holds through moves and refreshes.
- `MovesAreProven`: a row with what the user attached to it follows a file only with
  a digest that was known before; a copy of a file leaves the row where it is, and so
  does a second lost file of the same kind, size and digest.
- `QuietRefreshIsExact`, `OneRowPerPath`, `RefreshesAreSerial`: what a refresh leaves.
  Two that overlap do not both commit, and this rests on the snapshot
  of a statement that is merely not finalized early.
- `GroupIsSound`: what is reported beside a file is equal to it as long as
  both are as their rows say, and no such file is left out.

Disagreement found (run `library_duplicates`): `duplicate_group` drops the
error for a candidate that has changed, and then reports it all the same by
its stored digest. A test says that only byte-identical assets form a group.

### JsonGrammar, MetadataReader, JsonString, DecimalToken, Sha256Stream

`JsonGrammar` says token by token what one JSON object is; `MetadataReader` is
the recursive descent with its call stack as `frames`, and implements it but for one slip. One
action per parsing function (`RequiredString`, `SampleRate`, `OpenMetadata`,
`SkipValue`...); `place` is where in the function. `JsonString` is
`parse_string` with `parse_unicode_escape` and `append_utf8`; `DecimalToken` is
`parse_decimal_token`; `Sha256Stream` is `sha256_file` with `update` and `finish`.

- `JsonOnceNulIsDropped`: with one exception only JSON objects are accepted. The grammar
  is strict; the refinement mapping leaves out each "nul" that an optional field
  reads and drops (`TokenSeen`).
- `RefusalsAreTrue`: in the other direction, each error has its cause in the file.
  `malformed_json` has three: the text is no JSON (`NoJson`), a known field has another
  type (`OtherType`), or a number is JSON but outside the range of a double
  (`NoDouble`), as the tests demand of 1e9999 and 1e-9999.
- `NestingBounded`, `LimitIsExact`: the limits hold in every function. `depths` has the
  argument each call was given, and `DepthsCount` says that none forgot a level.
- `OutputIsText`: what ASCII bytes and escapes append is what they say, and no
  surrogate. Raw bytes above 127 are copied without a check and not modelled.
- `MantissaFits`, `ValueIsWritten`: 19 digits fit, and the power of ten makes up for
  whatever was not stored.
- `NothingSkipped`, `HashesPaddedMessage`: the blocks hashed are the padded file.

Disagreement found (run `accepted_json`, where `MCMetadataReader` adds a history variable
that notes whether the tokens read so far could be JSON): `try_consume_literal` does not
give back the "nul" of a word that is not null, so a file with `"name": nul"x"` is
accepted with the name x, although `docs/ROADMAP.md` has malformed files rejected.

### What the models showed beside the findings

Behaviours that no run reports. For the first, `docs/ARCHITECTURE.md` asks that unreadable
assets are explicitly reported, which does not happen; no text rules out the others.

- A directory without permission is skipped without an issue, and `mark_missing` marks
  its files. `QuietRefreshIsExact` counts what the walk cannot see as gone, and
  passes over this.
- An error of the iterator ends the walk, and a root unmounted after its status was read
  is an empty directory: in both cases `mark_missing` marks what was not visited. For
  the first the report has one issue, which does not say so.
- A file that vanishes during the store, or any commit of another process
  during the walk, makes the whole refresh throw; the index stays as it was.
- A row that was missing and is present again loses its digest.
- A read error during the parse is stored with the file's time, so that it
  stays until the file is written again.
- When a lost file is back under two names, its row goes to the first in
  the order of paths.
- The id of the newest saved search is given again after it was deleted.
- A constructor that throws after `sqlite3_open_v2` does not close its handle.

## 3. Runs

| Run | Instance | States | Shows |
|---|---|---|---|
| `thread_handover` | the ring: capacity 2 (3 entries), 4 nodes; the worker: 3 requests of 2 files and dry, 2 waiters | 155,229 | the ring against `BoundedFifo`, data races, delivery; safety of the worker; completion, release of waiters, shutdown |
| `model_slot` | capacity 1, 4 addresses, a model and dry, blocks of 1-2, fades of 1 or 2 frames | 408,173 | all safety of the slot, the refinement with its liveness, every retired model destroyed |
| `player_system` | 5 addresses, 2 models, 5 requests to each worker, queue of 3, any number of resets | 776,252 | consistency of status, selection and audio; the bounds on queue and memory; the selected model is heard |
| `plugin_shell` | 4 addresses, 2 models (one with a negative latency), 3 requests to each worker | 182,830 | truth of the status line, polls arrive |
| `plugin_shell_report` | 1 model, 2 requests, fades of 1 frame | | the disagreement above |
| `sequential_code` | the rate adapter: 4 host rates and 4 model rates (44.1 with 48 kHz, 1:48, unsupported ones), blocks of 1, 64 and too many, ring of 16 blocks as in the code; the readers: depth 3; strings of 6 bytes of 12 code units; numbers of 6 digits, 3 stored; files of up to 40 bytes in chunks of 11, blocks of 8 | 126,314 | complete blocks, constant delay, rings where there is room, the loop ends (with two turns at 1:48); the five readers' properties |
| `rate_adapter_ring` | 8 kHz, a 384 kHz model, blocks of 8,192, the code's ring | | the disagreement above |
| `rate_adapter_delay` | 44.1 and 48 kHz | | the disagreement above |
| `library_catalog` | 2 processes, files of versions 0, 1, 2 and 4, 2 assets, 3 names of which 2 differ in case, 3 lists of tags, 3 edits | 298,929 | schema, locks, tags, saved searches, every command ends |
| `library_refresh` | 2 processes, 3 paths, 2 contents of one size, any subset deleted since the last refresh, no, one or all paths under unreadable directories, 1 change during the commands | 774,673 | rows, moves, duplicate groups, overlapping refreshes |
| `library_duplicates` | the same | | the disagreement above |
| `accepted_json` | depth 2 | | the disagreement above |

Components that share nothing are checked in one run, one of them in each of its
behaviours: `thread_handover` and `sequential_code` choose a `subject` at the start, and the
fairness of each part is stated for the behaviours it is the subject of.

Bounds. A ring of three entries wraps, fills and empties with both indices at
every position. With a queue of one, four addresses fill every place that
matters at once (a fade of two nodes, the queue, and a fourth that waits or is
pending) and are used again at once; the proofs are for any number. A queue of one fills with a single uncollected model,
which is the quickest way into back-pressure. A fade of one frame ends in its
first block, one of two spans two blocks and may end inside the second. Three generations give an obsolete
task, a current one and a newer one; two waiters can wait for different
generations. `MaxGeneration` is the one bound on a counter. In the composition
five publications are enough to reach three queued and four live models (no
fewer bound holds), and the fifth address shows that four suffice.
In the catalogue three edits let a command of one process fall between two of the
other; files of version 1 need both migrations, and version 4 is a newer one.
In the refresh three paths are one to lose a file, one to find it at and
one for a copy, in a walk whose order is not the order of storing; one change at any
step of two overlapping commands, on top of any deletions before them, falls between
any two of the model's looks at files. `Examine`, `CheckAsset` and `CheckAgain` take
in one step what the code looks up in adjacent calls. Of the readers, depth 3 holds an array in an object in
`metadata`; six digits with three stored have ignored ones on both sides of the point;
chunks of 11 with blocks of 8 leave every remainder in the buffer (the code's chunk of
65,536 is a multiple of 64, so there only the last one leaves any).
In the rate adapter a ring of 1,024 is 16 blocks of 64, as 131,072 is of 8,192. At 1:48
only blocks of 1 have room in it; those of 64 are run too, and `RoomSuffices` says nothing
of them. 147:160 visits
every residue of the phases; blocks of 1 and 64 mixed reach every backlog.
In `model_slot` TLC follows, of the free addresses, only the choice of the lowest
(`LowestFreeFirst`); the proofs are for every choice.

Fairness. Audio: the host calls `process` again and again, and nothing in it
waits. Collector: the worker collects after each publication and every 10 ms
idle. Publisher: a call of `publish` that began ends; no call has to begin.
In `PlayerSystem` the audio thread and the worker thread are fair and nothing
else is: no selection, no reset and no change of the bypass has to happen.
In `PluginShell` the idle timer is strongly fair: the event loop serves it
between handlers, however often the user opens the file dialog.
In `ModelRateAdapter` the thread inside `process` goes on; nothing in it waits.
In `LibraryCatalog` a process that has been started goes on with its call, as the
operating system lets it; nobody has to start one, no kill, no sync has to happen.
Worker: the thread runs and the loader returns. Waiters: a notified thread
gets to run. No client is obliged to request, no timeout to end.

## 4. Proofs

`RealtimeModelSlotProofs` proves for any number of addresses, models, any
capacity, block and fade lengths: `TypeCorrect`, `WaitingSlotNeverOverwritten`,
`NodesHaveOneOwner`, `LiveNodesAreOwned`, `RenderedModelsStayLive`,
`ObserversSeeTheAudio`, and `SlotImplementsHandover` (the safety part of the
refinement). `ModelLoadWorkerProofs` proves, for any set of files and waiters
and any bound on generations, `TypeCorrect`, `NewestRequestKept`,
`StatusCanBeTrusted`, `WakeupsReachClients` and `NewestPublished`.
In each proof module the theorems about the parts of a conjunction end in one about
the property that the run checks: `SlotIsSound`, `WorkerIsSound`, `PlayerIsSound`,
`ShellIsSound`, `AdapterIsSound`, `RingIsSound`, `SchemaIsSound`, `TagsAlwaysAgree`,
`IndexIsSound`.

`RetiredQueueProofs` proves, for any capacity and any nodes, `RingIsSound` and
`RingImplementsFifo`. Remainders are turned once into distances (`Gap`, `Place`).
`RingInv` says that what a thread saw of the other's index lies
between that index, as it is now, and its own, so that distances add up
(`Views`): a stale view can only make the ring look fuller to `push` and emptier to
`pop`. A check that succeeded remains true until the thread moves its
own index (`HasRoom`, `HasItem`), an entry is occupied exactly when it lies between the
indices or is being written (`Entries`), and a node offered or removed is in
one place (`Offered`, `Removed`). For the refinement, the abstract items are a function of
the two indices, and each step is an append, a removal of the head or a stutter.

The inductive invariant of the slot is `OwnershipInv`. `SingleOwner` alone is
not inductive: it needs `FadePhase` (in which steps of `process` a crossfade is
active and the waiting place free), `CallsHold` (a call between two steps
holds a node exactly when it should) and `LiveOwned`, since an address given
out by `new` is fresh only because every owned address is live. `ObserverInv`
adds `MirrorPhase`: what the observers' copies are at each point inside
`process`, which is what makes them right between blocks. The refinement uses
`OwnershipInv` to see that no step of another thread changes what is at
`current`, `fadeFrom` or `pending`.

The worker's invariant `WorkerInv` says at each place in the loop how
`consumed`, the task, the completed and the latest generation are ordered, and
that the task is the newest request exactly when their generations agree.

`PlayerSystemProofs` builds on both. `PlayerRespectsSlot` shows that every
behaviour of the composition is one of the slot, which carries the slot's
theorems and its `OwnershipInv` over. On top of it:

- `BackPressureNeverSetsIn` counts: `InSlot` is the number of nodes in the
  slot's places. Each publication adds one, only the audio thread moves nodes between
  places, and a drain of the queue leaves at most three; as the next publication
  comes after a drain, there are never more than four. The ghost sum, and not the
  queue's length, is what is inductive.
- `AudioHoldsTheLastPublication` needs the two moments inside a publication
  at which slot and record differ (`PublishedInv`), and ownership, since a node
  freed or allocated must not be the pending or the current one.
- `FourModelsAtMost`: every live node has a place that owns it, and a place holds one
  node, so the live ones are no more than `InSlot` and the node that is being
  published or deleted.
- `PublishedModelIsTheSelected` adds that a task with the newest generation is
  for the newest request, and that this is the selection while there is a
  worker (`SelectedInv`).
- `PlayerTypeCorrect`.

It also shows that the shell restricts the player
(`ShellRespectsPlayer`), and `ShownPublicationIsTrue` by `LineInv` and
`RestInv`: a published status means that the worker has nothing left to take
or to publish, which remains so until the UI thread selects again.

`ModelRateAdapterProofs` proves, for any rates, block sizes and kernel radius,
`BlocksAreComplete`, `BacklogStaysLatency`, `PhasesStayBounded`,
`PrimingAlwaysSucceeds` and `TypeCorrect`. Write h and m for the rates divided
by their greatest common divisor, so that a host frame is m phase units and a
model frame h. `AdapterInv` says that inside a call the block is under way on
top of the latency (`Balanced`), that the latency is worth more than a kernel
in each ring and one more model frame (`Primed`, from the arithmetic of
`Priming`), and that no ring is overdrawn by more than a period. When the loop
stops the input ring holds less than a kernel and a model frame, so the
output ring has what the block needs. `RingsHold` proves `RoomSuffices`: the two ends of
a ring are apart by what is under way, which `Balanced` bounds by the latency and
the block. `prepare` does not check the condition.

`FileReaderProofs` proves about `MetadataReader` `RecursionIsSound` and
`ReaderImplementsJson`, the whole refinement, for any nesting limit. `StackInv` ties the call stack to the
place in the text; under it, lemmas about `Front` and `Append` show that the
brackets the stack stands for (`BracketsOf`) change as the grammar's do, and
each outcome of a parsing function is one of the grammar's steps: a value, a
key, a bracket opened or closed, a refusal, or a stutter for a "nul" that is dropped;
`ColonInv`, that a value of a member comes after its colon, is what makes this a stutter.
That the depths handed on by hand are the places on the stack is part of `StackInv`.

`RefusalsTellTheTruth` adds the other direction: under the same invariant the grammar's
legal tokens are known wherever a function complains, so that each complaint has one
of its causes. The same module has the other three readers:

- `StringsAreExact`, for any limit and any escapes. `TextRead` is the text up to the
  character being read, so between the halves of a surrogate pair the units are one
  ahead of the output; `CombinedPair` shows that splitting what `Combine` gives
  returns the pair.
- `NumbersAreExact`, for tokens and mantissas of any length. `Gathered` bounds the number
  scanned so far by the mantissa and the mantissa plus one, times the power of ten of
  the digits ignored; the zeros in front and the digits stored are the cases in
  which that power is one. That the powers of ten (`Tens`) satisfy their recursion is
  a lemma of its own.
- `DigestsAreOfFiles`, for any sizes of file, chunk, block and length. `FileRead` says
  that the blocks and the start of the buffer are the bytes of the file in order;
  `UpdateInv` shows this for one `update` of any size, in which the buffer may be
  filled up, whole blocks follow and a rest stays. `Padding` computes how many
  blocks the padding ends in, and `FinishInv` compares them byte by byte.

`LibraryCatalogProofs` proves, for any processes, names, assets, lists of tags and
any consistent file of an older version, `SchemaIsSound`, `TagsAlwaysAgree`,
`OpeningFailsForAReason` and `CallsAreExact`. `LibraryInv` has three parts.
`FilesInv`: the committed and the durable database both fit their versions and hold sound
tables (`Sound`), whoever is killed. `CallsInv` is the type of each connection.
`Working` says what a transaction has done at each of its points. A version
that was read before the transaction is at most the current one, and equal to it
once the lock is held, which is why a migration is never applied twice. Within
`replace_tags` the tables are only `Linked`: the asset has the tags of the call but
those left, every other asset shows what it showed before (`Retagged`), and
tags that lost their last asset are still there. `Linked` is therefore what is
kept through the transaction, and `Sound` what each commit restores. Ids are
`1 + Max`, so the invariant has that they are bounded.

`LibraryRefreshProofs` proves, for any processes and paths, any order in which the
directory is read and any changes to the files, `IndexIsSound`, `RefreshesCount`,
`MovesHaveProof`, `QuietRefreshesAreExact` and `GroupsAreSound`. `IndexInv` holds whatever
happens:

- `FilesInv`: a time of modification belongs to one file, which has left the paths it
  was renamed from.
- `DatabaseInv`: the committed tables, and those of the transaction, have one row for
  a path; a connection that is not `behind` sees what is committed.
- `TasksInv`: what a call still knows after other steps came in between. Nothing it read
  has to be true of the path any more; what stays true is about the *time* it read. `Here`:
  a file with that time is still at the path, or has left it for good. `Told`: if it
  is still there, the content is the one read. `Certain`: wherever it is, it
  is, which is what the second look of `ensure_sha256` adds to the first. Only
  `Certain` lets the digest be stored in a row that a refresh may have moved
  meanwhile; for a row of the refresh itself `Told` is enough.
- `CountInv`: a process that has not ended has not stored a refresh, which bounds
  the generations.

`RowsTellTheTruth` alone is not inductive, since a row that does not fit today may fit
tomorrow, when a file is renamed back over it; `Told` excludes that.
Moves and quiet refreshes need the history of a call: `StoriesInv`
says of a walk what it found and what it has yet to visit (`WalkStory`), and of
the transaction what it has done to the rows that were there before it: how they moved
(`KeptStory`), that each readable file is in the queue or stored (`QuietStory`),
that no other row competed for a file (`MoveStory`), and what is known of the
file between its examination and its row (`ParseStory`). `SearchesInv` does the same for
`duplicate_group`: the row and file being hashed (`AssetStory`), the rows like the target's
that are settled so far (`GroupStory`, `SettledBut`), and the answer (`AnswerStory`).

Assumptions are only those named in the modules: `RatesAssumption`, `BlocksAssumption`,
`RadiusAssumption`, `BufferSizeAssumption`, `DepthAssumption`, `PlayerAssumption`,
`ContentAssumption`, `CapacityAssumption`, `QueueCapacityAssumption`, `SizesAssumption`, `RequestAssumption`,
`MaxGenerationAssumption`, `NoNodeAssumption`, `NoneAssumption`, `VersionsAssumption`,
`FoldedAssumption`, `StringAssumption`, `DigitAssumption`, `ShaAssumption`, `CallsAssumption`, `RowsAssumption` (a file of an older version is
consistent), `PathAssumption` (paths are numbered as the scan is stored, and a walk gives
each once), `ChangesAssumption`, `ProcessAssumption`, `NothingAssumption`.
Where an argument calls for induction, it takes the least counterexample of a set
of numbers (`LeastNat`), as the provers cannot apply an induction rule.

Only model-checked: everything under fairness (`ImplementsHandover`'s liveness,
`AcceptedIsDelivered`, `RetiredIsDestroyed`, `RequestServed`, `ShutdownCompletes`,
`SelectionIsHeard`, `PollsArrive`, `BlockReturns`, `CommandEnds`), since TLAPS has no
`ENABLED` here. Every invariant and every action property of a passing run is a theorem.

## 5. Abstractions

- Samples, gains and filters are left out; a block is the set of models it runs.
- Of the values observers read, the latency and the crossfade flag are kept.
  The other `AtomicInfo` fields are written field by field and can be read
  torn; that is listed as a hazard, and no document promises otherwise.
- The slot's atomics are sequentially consistent steps; the ring has the
  weaker acquire/release behaviour in its own module.
- The resampler's coefficients are left out; where a kernel lies is kept. Rates
  are integers (the code accepts 0.01 Hz around one) and pointers are valid.
- A loader either returns a model that prepares or fails; it always returns.
- A file's time of modification identifies what was written: no two writes have the same,
  and a file that left a path does not come back to it. The code compares
  size and time only, so without this a rename over a file of the same size and
  time would go unnoticed. One root; the metadata a row keeps stands for the bytes
  that were parsed.
- `LibraryRefresh` has no power failure: a commit that is lost leaves the state before
  the command, which is one the model starts from. `LibraryCatalog` has it.
- In the readers a read error is the end of the input; of numbers the sign is kept,
  and whether a product fits a double is a free choice (it may be refused).
- Full-text ranking, query text, and single-column updates are left out.

## 6. Plan

Every action property and every invariant of a passing run is proved. Next:

1. `set_favorite`, `set_rating`, `record_recent` next to a refresh that moves
   a row, should they ever write more than one column.

## 7. Not modelled

- SQL text, the query that `make_fts_query` builds, full-text ranking and the
  read-only queries: they change nothing, and what they return is SQLite's.
- SHA-256's compression function and the resampler's weights: arithmetic on words and
  doubles, tested with published vectors and with signals.
- Drawing, wording and layout of the plug-in; channel handling, trims and the
  DC blocker, which have no state that another thread sees.
- Arguments and JSON output of the tools; NeuralAmpModelerCore, iPlug2, SQLite and
  build scripts, which are not in the repository or have no behaviour.
