# A TLA+ model of copernicus-mcp

copernicus-mcp lets an agent order, follow and fetch data of the Copernicus
services: CDS/ADS/EWDS (asynchronous jobs, `backends/cds`) and CMEMS (direct
downloads, `backends/cmems`). It keeps its state in one SQLite database and one
cache directory. A long-running MCP server and any number of one-shot command line
calls work on them at the same time: every process has its own in-process locks, and
only SQLite transactions and file-system operations serialise processes. Most of
what is hard in this code follows from that: state is read, something is awaited
(CDS, the database, a download) and the state is used after it, in several processes,
each of which may be killed at any point.

Source paths below are relative to `src/src/copernicus_mcp/`.

## Inventory

| component | state | operations | hard behaviour | what makes it correct |
|---|---|---|---|---|
| chunked parent (`backends/cds/backend.py`, `chunking.py`, `capacity.py`) | parent row, chunk plan JSON in it, child rows, reservations in the plan | first wave, poll (poll children, retry, refill, settle, clean up), cancel, abort, status answer, fetch of the parts | several processes poll one parent; crash between the CDS job, its row and the plan; retry and budget; cancel against refill | a chunk is not ordered again while its order is held, or its row can be found; budget and retry bounds hold; success means every chunk; a stop wins; the parent ends and leaves nothing running |
| plan compare-and-swap (`_cas_mutate_plan`, `update_chunk_plan`) | plan version | conditional write, reload and decide again | lost updates, a raised write whose copy is written again | a committed mutation was decided on the plan it replaces |
| CDS request lifecycle (`submit`, `check_status`, `cancel`, `fetch_result`, `_finalise_successful`, `_repair_or_refetch_locked`) | workflow row, per-key and per-request locks, cache entry, publication | submit with cache look-up, in-flight check and gates; poll, finalise, cancel, repair, refetch | submits of one key; two processes finalise one job; cancel during an order or a download; crash between publication and commit; eviction of a delivered file | one request of a key in flight; no job the server knows of without a row; row, entry and file agree; a loser never removes the winner's file |
| CDS transfers (`_resumable_download`, `_spawn_daemon_transfer`, ...) | part file, sidecar, completion flag, thread | resume, validate or reset, adopt, disown, promote | process death during a download; two processes on one part; a regenerated result | what is published is one whole result; a flag is true; the result arrives |
| chunk splitting (`chunking.py`, `costing.py`) | none | propose chunks, escalate granularity, split models | calendar edges, cost limits | chunks cover the request, overlap only where it repeats a value, and respect limit and cap |
| estimates (`estimator.py`, `calibration.py`) | earlier observations, bundled seed | size, queue tier | missing costing, outliers, few observations | a size is borne out by a download |
| cache manager (`cache/manager.py`) | cache entries, tombstones, files | store, look up, evict, publish, register | eviction against refetch, across processes | an entry that is served has its file |
| state database (`persistence/`) | SQLite file, journal mode, schema | open, heal, read and conditional writes, list jobs | interrupted opening, stale side files | a start makes a bounded number of attempts and never harms a writer |
| CMEMS backend (`backends/cmems/backend.py`) | workflow row, submit lock, background task, cache entry, bundle | subset and get, awaited or in the background; poll, cancel; list files, search, coverage | crash with a download in flight; cancel against the last row write; shielded commit | background calls share one download; the row tells what became of the work; an entry describes its bundle; a confirmed cancel stands |
| CMEMS index store (`_index_*.py`) | Parquet files, registry of formats, record of failures | load, discover, fetch, parse, filter | calls that wait for one another, bad sources, types that change in the cache | nothing is fetched twice; a listing shows exactly what is asked for |
| CMEMS catalogue and routing (`routing.py`, `catalogue.py`) | bundled tables | find groups, products, datasets | boundaries of boxes and instants, thresholds | found if and only if inside |
| orchestrator, registry, accounts, server (`workflow/`, `auth/`, `bootstrap.py`, `server.py`) | the accounts found at start | start, advertise tools, dispatch, error envelopes | partial accounts, failing sources, grouped exceptions | an account is used whole or not at all; the one error reaches the caller |
| HTTP retry, forms, tool schemas, build scripts, configuration, data model, errors and sanitiser, observability, command line | static tables, settings, time-to-live caches | look-ups, pure functions of one input | none that interleaves | - |

The server and the command line call the orchestrator, which dispatches to a backend.
The CDS backend keeps one workflow row per request in the state database; a split
request is a parent row whose plan names child rows, each an ordinary request with its
own life. Finished files are published into the cache directory and registered with
the row in one transaction; the cache manager evicts by size and leaves tombstones.
Nothing runs in the background for a chunked parent: every process that happens to
poll it advances it (decision 5 of the code's comments). A CMEMS subset may run in a
background task of the server; other processes see of it only its row.

## Plan

1. **ChunkPlan, ChunkParent, FanOut** (done): the plan of a split request and the life of
   a parent under concurrent polls, cancels and crashes; `FanOut` is its abstract promise.
2. **PlanCas, AtomicPlan** (done): the compare-and-swap under every plan write.
3. **Finalise, Delivery** (done): a CDS request from a finished job to a registered file,
   with cancel, eviction, repair and refetch in several processes; `Delivery` is the
   abstract promise of row and cache entry.
4. **SubmitRoute, Submit** (done): reference-counted per-key locks, cache look-up, in-flight
   check, the gates, and the job that has no row yet.
5. **PartTransfer** (done): resumable part files across process deaths.
6. **Marine** (done): CMEMS downloads, their rows, locks, bundles and cancels.
7. **ChunkSplit, SizeEstimate, MarineSearch, ParentView, OpenStore, Calls, MarineIndex**
   (done) as pure operators, put together in **Answers**.
8. Proofs (done): PlanCas, ChunkParent (what a success means, orders, retries and budget,
   the refinement of FanOut), Finalise, PartTransfer, Submit, Marine, Answers.
9. Left: size accounting of the cache over several keys and the choice of victims; schema
   migration.

## What is modelled

### ChunkPlan

The plan document and the pure decisions over it. A slot has the child that delivers
the chunk, the owner of its reservation, and the retry bookkeeping (`attempt`,
`retry_pending` as `pending`, `superseded_child_ids`). `ParentStatus` is
`compute_parent_status`, with running and queued read as one value (`pending`), as every
reader of a row does. `Corroborated`, `Fresh`, `Active`, `BudgetFull`, `Doomed` and
`Orderable` are the predicates the closures of the backend compute. Ids are numbers in
the order of creation; overrides, costs and timestamps are dropped, except what
decisions depend on: `Shape` (two chunks corroborate each other only if their
non-calendar overrides agree) and the set `expired` of reservations older than the TTL.

### ChunkParent

| state | code |
|---|---|
| `row` | the parent's status column |
| `plan` | `chunk_plan_json`, as committed |
| `children` | child rows: chunk, status, class of the failure; `ordered` is a job CDS has accepted whose row is not written, and `by` is then the actor whose order it was |
| `expired` | reservations older than `_RESERVATION_TTL_SECONDS` |
| `pc`, `mode`, `view`, `seen`, `at`, `kid` | per actor: next step, ordering loop, plan in memory, last status sweep, slot, child id in hand |

The actors are the submit call (`Submitter`, the first wave, no parent lock) and the
`Workers`, one per process, each running one poll or cancel at a time under its own parent
lock. Between two awaits that reach the database or CDS everything is one action:

| code | actions |
|---|---|
| first wave of `_submit_chunk_parent` | `ReserveWave`, `WaveDone` |
| `_submit_chunk_child`, `_submit_one` | `Adopt`, `Order`, `Record`, `OrderFails`, `Assign` |
| `_retry_failed_children` | `See`, `Scan`, `Decline`, `Mark`, `Claim`, then as above |
| `_refill_chunk_children` | `SweepForRefill`, `ReserveRefill`, `Release`, `FailParent` |
| `_advance_chunk_parent` | `StartPoll`, `PollDelivered`, `Settle`, `Write`, `Look`, `Cleanup` |
| `_cancel_chunk_parent` | `StartCancel`, `MarkStopped`, `CancelChildren`, `FinishCancel` |
| `_abort_chunk_parent` | `WaveCancelled`, `AbortRow`, `MarkStopped`, `AbortChildren` |
| a child's own poll, time, process death | `ChildEnds`, `Expire`, `Crash` |

A plan write decides on the plan in memory and, if the committed plan has moved, again on
that one (`CasCommits`, `CasAborts`); PlanCas justifies the single step. Sweeping the
children's rows (`StatusMap`) is one step although the code reads them one by one: a row
only moves from pending to a final status, once, so a sweep that reads row by row differs
from one at its end only by missing the newest changes.

Left out: exhausted compare-and-swaps (six straight losses) and database errors in
`_mark_stopped`, which the code suppresses; exceptions of a child order that are not a
`CopernicusMcpError`; the remote deletes of cancelled jobs (best effort, no effect on local
state); a poll ended by an exception of a plan write; a child row that commits although its
write was interrupted; the transfers and responses. The requests of two chunks are taken to
differ: a year listed twice in one spelling gives two chunks of one cache key, and the second
adopts the first one's child.

An order may end without its orderer knowing: it dies between CDS's acceptance and the row,
its task is cancelled in the call, or the call raises although CDS has accepted the job
(`Accepted` under `Crash`, `WaveCancelled`, `OrderFails`). The job then runs on with nobody
to find it, a `Stray` of `OneOrderPerChunk`: it counts as paid for ever, and a second order of
its chunk is allowed only once the reservation the first was made under is given back
(`Release`, as the code does when an order raises) or has outlived the TTL. Plans do not name
such a job, so that `InflightBudget` does not count it.

### PlanCas and AtomicPlan

`_cas_mutate_plan` in its own steps (decide on the copy in place, conditional write,
reload, up to `Attempts` times), for any number of actors with copies of any age. Its
mutations are the kinds the plan has: take a free slot of a plan that is not stopped, drop
one's own reservation, stop the plan. A call may raise (`Raise`), its write committed or
not, and leaves the copy edited at its old version. All callers drop such a copy but one:
the abort of a first wave calls again, with the stop, on the copy that the raised call
edited (`Abort`), so one commit may carry that edit and the stop.
`AtomicPlan` is the one-step promise, with that commit as its only double step;
`CopyIsCurrent` says why it is safe: the version decides about the leftover edit as it
does about a fresh one.

### FanOut

What the caller is promised: each chunk is waiting, running, delivered, refused or lost;
a delivered or lost chunk is never ordered again; the parent succeeds only when all is
delivered, and ends once. `Promise` in ChunkParent is the refinement mapping: it reads a
chunk's state off the slot's current child.

### Finalise

The result file of finished CDS requests that share one cache key (a request and its
force-refreshed repetitions), for any number of processes.

| state | code |
|---|---|
| `row` | status column of each request; queued and running are `pending` |
| `job` | what CDS answers a poll |
| `entry` | `file_path` of the key's row in `cache_entries`, or `NoPath` |
| `tombs` | the key's rows in `cache_evictions`, oldest first: path, and whether its evictor claimed the file |
| `files` | published files that exist, by request and name (0: the request's own, else a fresh one) |
| `names`, `claims` | counters behind the bounds: fresh names drawn, evictions and losses so far |
| `pc`, `req`, `path`, `src`, `victim`, `doomed` | per process: next step, request, file about to be registered, file to remove after a commit, file being evicted, path a repair must not adopt |

| code | actions |
|---|---|
| `_poll_and_maybe_finalise`, `_record_terminal` | `StartFinalise`, `RecordFailure` |
| `_finalise_successful` | `Check`, `Find`, `Download`, `Publish`, `Fail` |
| `_commit_published`, `register_success`, `commit_success_with_cache_entry` | `Size`, `Register`, `Supersede`, `Lost` |
| `cancel`, `discard_request_publications` | `Cancel`, `Discard` |
| `_enforce_size_limit`, `invalidate`, `evict_cache_entry_if_matches` | `StartEvict`, `Enforce`, `Evict`, `Unlink` |
| `fetch_result`, `_successful_status`, `lookup_entry` | `StartFetch`, `Fetch` |
| `_repair_or_refetch_locked`, `find_request_publication` | `ReadTomb`, `AdoptOriginal`, `AdoptFresh`, `Gone` |
| `_republish_adopted`, `_download_published_copy` | `Link`, `Linked`, `Refetch` |
| `register_repaired`, `register_entry_if_missing`, `_retire_adopted_name` | `Stat`, `Repair`, `YieldRepair`, `Retire` |
| CDS, a person, process death | `JobEnds`, `LoseFile`, `Crash` |

An action is one database transaction or one file-system call with the reads in memory
around it. A process runs one operation at a time: within a process the finalise lock and
the per-request lock serialise what the model lets two processes interleave. A task that is
cancelled while its thread goes on is that step followed by `Crash`.

Dropped, because nothing the properties tell apart depends on it: the size of files and
which entries are picked as victims (any key's size enforcement may pick this one); the
generation of an entry (within a key a path is registered at most once, so path and
generation change together); the day zones of the cache directory; legacy files of 0.7.0;
provenance sidecars; touches of the use order; deletes of remote jobs. Links share their
file's modification time, so that which fresh name `find_request_publication` prefers is
left open. A look-up of the entry and of its file is one step.

### Delivery

What row and cache entry promise together: a pending request ends once; it is delivered in
the step that puts its result on the shelf; the shelf may lose its result, and gets
back only one of a delivered request, and only when it is empty. `Shelf` in Finalise is the
refinement mapping.

### SubmitRoute and Submit

`SubmitRoute` is the decision `submit` takes once look-ups have found nothing: `Route` says,
for what the checks can tell of a request (`shape`), its options and the budget settings,
whether it becomes one job, a chunked parent, a refusal or a question. `KeysRefused` is
`_check_input_keys`, `SizeAsks` is `_maybe_raise_size_confirmation`, `ModelRoute` is
`_submit_model_split`, `CostRoute` the pre-flight cost limit, `Tiers` the two confirmations
of a large fan-out.

`Submit` is the calls of one cache key, in one server or several.

| state | code |
|---|---|
| `shape`, `home`, `forced` | the request, the process of each call, `force_refresh` |
| `lock`, `holder`, `dict`, `refs` | the lock a call refers to, who holds it, `_submit_locks`, `_submit_lock_refs` |
| `row`, `chunked`, `latest` | the rows the calls record, those of chunked parents, the newest row of the key |
| `job`, `entry` | the job a call has ordered at CDS, the cache entry of the key |

| code | actions |
|---|---|
| `submit`, before and at the lock | `Refuse`, `Join`, `Acquire`, `Leave` (the `finally`) |
| cache look-up, in-flight check, estimate and gates | `LookAtCache`, `LookAtRows`, `Decide` |
| `_submit_one` | `Order`, `Record`, `Discard` |
| `_submit_chunk_parent` | `RecordParent`, `Wave` |
| a caller that goes, the end of a request, eviction, process death | `Cut`, `Settle`, `Evict`, `Crash` |

An order may raise with or without a job at CDS. A call that ends without having heard of its
job is `unheard`.

The life of the parent and of the file is ChunkParent and Finalise; here they are how a row
ends.

### PartTransfer

The transfer of one finished result by several processes. A result is `Size` blocks, each
named by the location it came from, so that a file put together of two generations shows.
A sidecar (`.part.json`) pins the location, and, once a transfer has returned, the identity
of the complete data.

| code | actions |
|---|---|
| `_finalise_successful`, `_plan_part_transfer`, `_on_download_done`, `publish_request_file` | `Resolve`, `Rejoin`, `BackOff`, `Plan`, `Awake`, `Promote` |
| `_reap_part_transfer`, `_sweep_stale_parts` | `Abandon`, `RemoveQuiet` |
| `_adopt_foreign_part` | `AdoptRead`, `AdoptCopy`, `AdoptLink`, `AdoptPin` |
| `_resumable_download`, `_spawn_daemon_transfer`, `_mark_part_complete`, `_disown_complete_looking_part` | `Check`, `Open`, `Write`, `Raise`, `Vanish`, `Return`, `MarkComplete`, `Disown`, `Clean` |
| time, CDS, process death | `Fall` (a part goes quiet), `Regenerate`, `Die` |

A restarted process is a new one. Legacy staging files of 0.7.0 are left out.

### Marine

The CMEMS calls of one cache key: `marine_subset_dataset`, awaited or in a background task,
or `marine_get_files`. `disk` and `entry` are named by the call that wrote them, so that
"the entry describes the bundle" is `disk = entry`.

| state | code |
|---|---|
| `row`, `latest`, `aged` | rows of the calls, the newest of the key, running rows not written for 60 s |
| `gate`, `cache` | holders of `_async_submit_lock` and `_cache_lock` |
| `committed`, `cut` | a get past its commit point; one cancelled while its commit is shielded |
| `verdicts` | polls that are about to fail a row they took for dead |
| `asks`, `acked` | cancels that wait for a background task; those answered "cancelled" |

| code | actions |
|---|---|
| `submit` up to the row | `Submit`, `Find`, `Enter`, `Refuse`, `Record`, `Mark`, `Unstaged` |
| `_execute_subset_download`, `_execute_get_download` | `Download`, `Invalidate`, `PlaceFile`, `PlaceBundle`, `EnterFile`, `EnterBundle`, `Read`, `Settle` |
| cancellation of a task | `ClientCut`, `ClientGone` |
| `cancel` | `CancelTask`, `FinishCancel`, `CancelRow` |
| `check_status` | `Age`, `Suspect`, `Verdict` |
| another key's store, process death | `Evict`, `Unlink`, `Crash` |

A cache write may raise after it has written the entry, when the enforcement of the cache
size behind it fails (`EnterFile`, `EnterBundle`); a get then takes its bundle away.

One server, one day: a publication always replaces the file it supersedes. A cut is
delivered at the await the task is at; a write under way is carried out.

### The questions: Answers

What answers one request at a time is written as operators, and `Answers` is the machine
that puts one question to them. It also says what each answer should have meant, in terms
of its own: the combinations of values a request stands for and which of them exist, the
points of a box and the instants of a span up to `Reach`, the calendar `LastDay`, the
downloads that tell something of a size, the files with what a caller seeks. What a question
can be is assumed, by name, of the sets of questions (`SplitsAssumption`,
`FileListsAssumption`, ...), for the proofs; TLC evaluates these on the questions of
MCAnswers. `Sorted` is the one sort all of them use.

| module | code | operators |
|---|---|---|
| ChunkSplit | `chunking.py` | `Proposal`, `Verdicts` (a round of costings, in any order), `CalendarPlans`, `ModelPlans` |
| SizeEstimate | `estimator.py`, `calibration.py`, `costing.py` | `Costing`, `Observed`, `Resolve`, `Estimate` |
| MarineSearch | `routing.py`, `_search_in_products`, `_build_coverage_advisory` | `SearchGroups`, `SearchProducts`, `SearchCards`, `Coverage` |
| ParentView | `_chunk_parent_response`, `_fetch_chunk_parent_result` | `Aggregate`, `View`, `Fetch` |
| OpenStore | `SqliteBackend.initialise`, `fs_detect.py` | `IsNetwork`, `Open` |
| Calls | `auth/resolver.py`, `server.py`, `workflow/orchestrator.py`, `list_workflows` | `Credentials`, `Starts`, `Advertised`, `Run`, `ListJobs` |
| MarineIndex | `_index_store.py`, `_index_registry.py`, `_index_parser.py`, `_index_filter.py`, `list_files` | `Parse`, `Loads`, `FromParquet`, `Listing` |

`ChunkSplit` takes a list of years, months or days as the set of its entries, a place and the
number the token stands for, because `propose_chunks` compares no entries: a list may name a
year twice, in one spelling or in two. What the request means is a set of combinations all the same
(`Wants`), and `SplitIsExact` allows two chunks to overlap only where they go back to two
entries of one number (`ListedTwice`). The models' fan-out removes repeats itself, so that sets
of values stand for those lists.

Where the code's answer depends on an order the caller chose, or a source may fail, an
operator gives the set of the answers. `Loads` runs a sequence of calls of one dataset
through the lock, each of which has seen the store when it arrived; it is a function of the
number of calls that have ended. A file of observations with one illegal among them is
dropped whole by the parser, so that what a listing must show is the files that are legal
throughout.

## Runs

| run | instance | shows |
|---|---|---|
| `plan_cas` | 3 actors, 2 slots, 2 attempts, versions to 3 | the winner of the comparison decided on what is committed, also the abort that writes a raised call's copy (`CopyIsCurrent`), a call gives up only under that many commits (`LossesAreContention`), a call is one atomic step (`IsAtomic`) |
| `parent_retries` | 2 processes, 2 chunks, budget 1, 1 retry, user cancel, refused orders; outcomes delivered, refused, bad content | nine properties, among them the refinement of FanOut (`KeepsPromise`) |
| `parent_crash` | submit call and 2 processes, 2 chunks, budget 1, no retry, submit call and one process mortal, all faults but slow | `OneOrderPerChunk` (no second paid job of a chunk while the first one's reservation stands or its row is there), `InflightBudget`, with crashes and lost answers |
| `parent_settles` | submit call (mortal) and 1 process, 2 chunks, budget 1, 1 retry, under fairness | `ParentSettles`, `StraysAreSwept` |
| `request_files` | 2 requests of a key, 3 processes (1 mortal) that finalise and fetch, fetch, and finalise, cancel and evict; 1 eviction, 2 fresh names | a registered file exists (`EntryHasFile`), a cancelled request leaves no file (`NoDeadFiles`), Finalise implements Delivery (`KeepsPromise`) |
| `request_settles` | 2 requests, 2 processes (1 mortal), 2 evictions or lost files, 1 fresh name, under fairness | `Settled`: a request whose job has ended does not stay pending |
| `submit_calls` | 2 calls of one server, 1 of another, one may be forced; a plain request, one for two models, one over the cost limit; any options and budget, 1 crash | the locks are counted right (`LockDiscipline`), one request in flight (`OneOrderInFlight`), no job without a row but where its submit never heard of it, died, or could not take it back (`NoOrphanJob`), models are never sent as one (`NeverWhole`), `CallsEnd` |
| `result_parts` | 2 processes, 2 blocks, 2 generations; one failed transfer, and either a death and a stall or a regeneration | `PublishedIsWhole`, `Vouched` (a complete flag is true), `Delivered` |
| `marine_downloads` | 2 calls, subset or get, one of them polled and cancelled, 1 crash | `OneDownload`, `Consistent` (the entry describes the bundle, or its own write raised), `EndsSettled`, `CancelStands`, `CallsEnd` |
| `answers` | about 290 000 questions of twelve kinds | `SplitIsExact`, `SizeIsGrounded`, `FoundIffInside`, `ParentTellsWhole`, `StoreOpens`, `CallIsTold`, `ListingIsExact` |

The smallest instances in which the hazards can happen: two chunks so that one blocks or
corroborates the other, two polling processes besides the submit call, budget 1 so that it
is always contended, one retry so that the limit is reached. `MaxChildren` bounds the
child rows: with two chunks and one retry four rows are all that can be ordered in
`parent_retries`; in the runs with crashes one or two rows are spare for jobs whose row was
never written. Runs that need a bound exhausted say nothing about later orders. The submit call
starts dead in `parent_retries`, so that it can have two processes, three outcomes and
retries; the wave is in the other two runs.

For Finalise: two requests, so that one result supersedes the other's; a third process so that two
repairs can meet an eviction; two fresh names, one per repairer. `EntryHasFile` is claimed
for one eviction and no lost files only: with two evictions and two repairers the code
breaks it (see below). `request_settles` has the deletion of files by hand and
two evictions, and no second repairer.

For Submit: two calls of one server are enough for a lock to be shared, dropped and made
again, since a call may be over before the next begins; the third stands for all other
servers, whose rows the look-ups see. For PartTransfer: two blocks, so that a hybrid has one
of each; `Faults` keeps a stall and a regeneration apart (see below). For Marine: two calls
are one that holds a lock, a row or the path and one that wants it; the proofs cover more.

The questions of `answers` are chosen at the boundaries: a leap year and a common one,
months of 28, 29 and 30 days, a value that is no date, a year, a month and a day listed twice, limits that force each granularity,
costings that fail once or twice; sizes with none to four observations and outliers; a grid
of 4 by 4 points and 4 instants; every combination of two chunks' states; mount tables with
a network mount above, at and below the database, slow attempts, holders and old and young
logs; accounts given whole, in part or twice in the four places; up to three calls of an
index of each format, good and spoilt. The numbers of the code (1000 chunks, thousands of
fields) are CONSTANTS, small here, and `Light` and `Medium` keep their values.

The parents, `plan_cas` and both request runs look for deadlocks. Submit, Marine,
PartTransfer and Answers end when every call, process or question has, and their
configurations say so.

### Known disagreements

Two runs expect a violation, each with its finding in PROJECT.json:

- `slow_download` (`backends/cmems/backend.py:1910`): a poll fails a running row that is a
  minute old and has no file yet, as if its server had died. The row is not written during
  the transfer, so every subset that takes longer than a minute is reported failed while it
  runs; its success overwrites that later. The comment above calls the reading unambiguous.
- `cached_listing` (`_index_filter.py:84`): variables come back from Parquet as arrays, which
  the filter by variable does not know: it drops every row that names variables. The first
  listing of a dataset is right, every later one is not.

Also seen, without a run. In the parent:

- A retry is claimed without looking at the budget again under the write
  (`backends/cds/backend.py:3560`, against 3425 and `config/schema.py:132`): two processes
  exceed it. Without retries it holds (`parent_crash`).
- The abort of a failing first wave overwrites a terminal row (2919, against 4660): a parent
  the user cancelled becomes failed. `TerminalIsPermanent` holds otherwise.
- A submit call cancelled at its assign write loses the child it has just recorded if
  another process moved the plan (2932, against 2934).
- A child refused between the retry pass and the settlement of a poll fails the parent with
  retries unspent (3827, against docs/tools.md:963).
- With an order slower than the reservation TTL (`slow` in `Faults`) a chunk is ordered twice,
  which the comment at the TTL accepts. That comment calls reclaiming an old reservation
  safe, as the adoption scan finds any child that was submitted (1314-1316); it finds rows, and
  an order whose caller died, was cancelled or saw the call raise before the row was written
  (2406-2427) has none. Its job runs on, and the chunk is ordered again. A process that dies between recording a retry's
  child and assigning it may make a chunk adopt that child as the next attempt.
- docs/tools.md:881 says all child jobs are submitted at once; the code (and
  docs/tools.md:967) submits them in waves.
- A model's costing that fails is asked again, and the second answer is not compared with
  the limit (`chunking.py:492`, against 450-459). `SplitIsExact` leaves such a child out.
- `propose_chunks` does not leave repeats out, as the models' fan-out does
  (`chunking.py:84-106`, against 290): a year, month or day listed twice is costed twice, and
  counts twice towards the chunks that make a request splittable and towards the cap.
- A confirmation without an axis takes yearly chunks, not the suggestion the caller was
  shown.

In requests and transfers:

- Adopting may retire a name another repair is about to register (5739, against
  `cache/manager.py:235`): a repair that has downloaded the file again has not registered it
  yet when a second one adopts it, links it, registers the link and sees that entry evicted;
  the first then registers its file, and the second retires it. The next look-up heals the
  entry, at the price of another download.
- A finaliser that loses to a *failed* row leaves its file, which a comment of
  `_commit_published` keeps for a repair, while only successful rows are ever repaired; a
  slow second finaliser may publish again the file of a request that was delivered and
  superseded, and nothing evicts that file.
- A part is adopted by reading its sidecar and its bytes apart (685, 707, against the comment
  at 790-793): if its writer was only stalled and CDS regenerated the result in between,
  the copy is a hybrid under the old pin.

In the store, the orchestrator and CMEMS:

- The heal of a stale log probes for a writer only (`sqlite_backend.py:206-224`, against the
  docstring at 185-189): the log of a holder that is idle is moved aside under it.
- A get is to keep its bundle once its entry is published (`backends/cmems/backend.py:1577-1581`),
  but `store_manifest` may still raise then, from the enforcement of the cache size
  (`cache/manager.py:449`), with the commit not yet noted; the rollback removes the bundle under
  its entry. The next look-up drops that entry, and the files are fetched again.
- A get or subset killed, or given up, between the two writes of its new row leaves it
  queued: polls reconcile running rows only, and later background calls of the key are
  answered with it (`backends/cmems/backend.py:921`). A cancel ends it.
- Calls that wait for the probe of an index that is missing probe again, one after the
  other (`_index_store.py:104-111`); an index whose rows are all unreadable is stored as an
  empty one and kept (`_index_parser.py:217`, against 106 and 236); a source that does not
  parse is not recorded as a failure (`_index_registry.py:193`).

### Fairness

`FairSpec` of ChunkParent assumes that an actor that has begun goes on (its steps do not wait for each
other: the parent lock is per process, and SQLite writes are short), that the agent polls
until the parent is terminal and after (`StartPoll`), that while the parent is pending its
polls poll the children and CDS ends every job, that time passes (`Expire`), and that a
retry whose backoff is over again and again is not missed forever (strong fairness on
`Due`; the backoff is a fixed time and polls go on). Nothing is assumed of the user
cancelling, of tasks being cancelled, of crashes, or of children that no plan names; and
nobody polls the children of a terminal parent, so `StraysAreSwept` rests on the cleanup.

`FairSpec` of Finalise assumes that a process that has begun goes on, that processes that
follow requests poll a pending request again (strong fairness, as between two polls a
process does other work), and that a transfer does not back off before another process's
forever (`Download`: a part that nobody writes any more is adopted). Nothing is assumed of
cancels, fetches, evictions, losses and deaths; the process that is not mortal carries
`Settled`.

`FairSpec` of Submit and of Marine: weak fairness of the steps of each call that has begun,
which is the event loop (an order and a download run in a thread that ends), and of the
evictor of Marine, which lets the cache lock go. No call need begin, be cut, polled or
cancelled. Weak fairness is enough for the locks because only finitely many calls wait.

`FairSpec` of PartTransfer: threads run, live processes poll again and again, and a part
nobody writes any more becomes quiet. Faults are bounded, and nothing makes them happen.

## Proofs

Checked by TLAPS for every number of chunks, children, actors, requests, processes and
calls, every budget, limit and option, and every set of faults and outcomes, under
the assumptions the modules state of their constants (bounds are numbers, the value for
"nobody" is not somebody; of Submit also that there are finitely many calls, as its lock
counts them).

`PlanCasProofs`: the inductive invariant `IInv` is the type invariant, `CopyIsCurrent`,
that no loaded version is ahead of the committed one and a loser's is behind it
(`NotAhead`), and that only a stop is ever called on a copy which a raised call left edited
(`OnlyStops`); `TypeCorrect` and `CopyCurrent` follow, and with `Counted` (each attempt
begun is one more commit) `Contention`. `CasIsAtomic` maps each step: a commit (of `Write`,
or of `Raise`) to a reservation, a release or a stop, the first two with a stop when an
abort commits what its raised call had edited, all else to a stutter.

`ChunkParentProofs`: `TypeCorrect`, `SuccessComplete`, `ReservesMissing`, `StopHolds`.
Success is not inductive alone: the row is written from a sweep of a plan that may be old
by then. `SInv` adds that what a sweep saw as final is still so (`SeenTrue`), that a child
that was delivered in an actor's copy of the plan still holds that slot in the committed
plan (`ViewTrue`), that an actor records only the row it ordered (`RecordsItsOwn`), and
that a slot with a child is reserved only if that child failed. The proof is in two
layers: each action's effect on the plan, the rows and the actor's memory is
one of a few forms (`Effect`: `EOrder`, `EPoll`, `EStop`, ...), and `EffectKeeps` shows
once that every such effect keeps `SInv`. The type layer (`TOrder`, `TPoll`, ...) is
separate. The theorems include slow orders and crashes, which the runs bound.

`ChunkOrderProofs` covers what a parent orders. `Forms` classifies every step by what it does
to plan, rows and the actor's memory (`Judge`, `Reserve`, `Take`, `Send`, `Book`, `Free`, ...),
and every invariant below is shown to survive the forms, not the actions. `Books`
strengthens `SInv` by what processes know of one another: what a plan names has been
recorded and for that chunk (`PlansFiled`, `HandsOwn`), a copy is an earlier plan (`Earlier`),
and what a retry pass judged is still so, or the claim will be refused (`Judged`,
`PassIsRetry`, `Retired`); the judged slot may be stale by the time it is claimed, which is
why `RetiresRefused` is not obvious. It needs no hypothesis. The others have those the code has:

| theorem | hypothesis | invariant |
|---|---|---|
| `OrdersOnce` | no live order outlasts the reservation TTL (`"slow"` not in `Faults`) | `Guarded`: who orders holds the slot, from the reservation to the assign write (`HoldsSlot`), and a job without a row has an orderer that has it in hand or will order nothing more (`Orders`), so that a job nobody will record stays one, and its reservation, once gone, is not made again (`SpareKept`) |
| `NoneOrphaned`, `RetriesCounted` | nobody is killed, and no wave is cancelled or slow (`NobodyDrops`) | `Tally`: the copy the orderer goes by agrees on its slot (`ViewHolds`), every child is accounted for (`Accounted`), and the number of children ever made is the attempts' |
| `BudgetHolds` | no retries (`RetryLimit = 0`) and no slow orders | `Budgeted`: live children and reservations are covered by what the wave or a refill counted (`Cover`) |
| `TerminalStays`, `PromiseKept` | no failing first wave (`WaveMayFail`), or the submit call is gone | `Kept`: no actor is on its way to the abort (`Calm`) |

Without these hypotheses the code breaks the property, each as described under the
disagreements. All hold for `Spec` and for `PollersSpec`, in which the submit call is dead
from the start, as in `parent_retries`; `StopHolds` and the others of `ChunkParentProofs`
too.

`FinaliseProofs`: `IInv` is the type invariant and `HoldsOwn` (what a process is about to
register is a file of its own request, what it evicts was an entry). `TypeCorrect` and the
refinement `Delivers` (every step maps to one of Delivery or a stutter) follow.
`DeadFilesGo` needs `CInv`: files, deliveries and finalisers belong to jobs that are
done, so that a row with a file is never recorded as dismissed (`FilesAreDone`,
`SuccessIsDone`, `WorksOnDone`); a repair works for a delivered request, and terminal rows
stay, so that no file of a cancelled request is made by a repair; the entry is a delivered
request's (`ServesSuccess`), so that the loser of the race may remove its file; and every
file of a cancelled request has an heir, the cancel that will discard it or a finaliser
that has yet to lose (`HasHeir`). `HeirStays` and `NewHeir` are the two halves.
`FilesRegistered` is about files that are not removed: under `Gentle` (no file is deleted by
hand, and either one eviction at most, or one process at most that repairs) a registered
file exists. `FInv` says who may still remove what. A name that has been drawn belongs to
a delivered request (`Numbered`), so that a finaliser, whose request is pending,
registers one nobody else can hold. A process about to remove a file has seen its entry go
(`Mine`), and a name a repair owns is in nobody else's hands (`Apart`). Only adopting
breaks that, so that with two repairers the proof needs an entry that is there for good
(`ForGood`): a repair means that the one eviction is over (`Counted`). The forms of `Careful`
(what a step must respect for the others' sake) are shown once to keep `FInv`
(`CarefulKeeps`), and then each action to be careful.

`PartTransferProofs`: `IInv` has the types, where each thread's data come from (`Sourced`), that
a published file is finished, and, until then, `Sound`. `CompletePublished` needs no
hypothesis: whatever is killed, stalled and regenerated, what is published has all blocks and
nothing behind them. `WholePublished` and `FlagsTrue` assume `FaultsApart`, that deaths or stalls and
regenerations do not come together, and `Sound` has a regime for each: without a
regeneration every byte is of the one location (`AllSteady`); without deaths and stalls no process
touches another's part (`AllLonely`). In either, a part says of itself what its process
knows (`Registered`), a flag was earned (`Earned`) and what is about to be promoted is
finished (`Ready`). TLC found `FlagsAreEarned` false of three processes after the
publication: the remover of quiet parts takes the sidecar from under a process that is still
writing, and a third one adopts the bytes without a pin and flags them. Nobody promotes
them any more, and the property now speaks of the time before. `AbsenceAssumption` (the
values for "no part" and "no file" are not a file) and the location 0 of a sidecar that pins
none were missing from the model, as the type invariant's proof showed.

`SubmitProofs`: `LocksHold` is about counting. `Counted` says that the reference count is
the number of users and that the dictionary has a lock exactly if there are any; `Shared`
that all users of a server refer to that one lock and that whoever is inside holds it. They
need each other: a lock is dropped when the count says so, and a second instance would let
two calls in. `LeaveLocks` is the step that matters, and every way out of a submit is
one. `OneInFlight` rests on it: `InTurn` says that as long as only unforced calls of a
server have recorded rows, a pending row is the newest, and that a call past its look at
the rows knows there is none, which the record of another call would break were two
inside. `JobsAreRecorded` (a job without a row is about to be recorded or taken back, or its call ended
in one of the three ways that lose it) and `SplitsModels` use `Rows` (a row appears where the call
leaves) and that `Route` never answers "single" for several models (`RouteSplits`).

`MarineProofs`: `BundleConsistent` needs `Gated` (a synchronous get holds the submit lock from
its estimate to its end), `Exclusive` (between the drop of the old entry and its own there is
no entry; the cache lock is the get's until its bundle is in place, and no eviction is under
way after that) and `EntryIsBacked` (a rollback meets its own entry only where the write of that
entry raised, and the call is over then). `CancelsStand` adds `AskedStops`:
a task whose cancel waits will not write success. `CallsEndSettled` adds `NotYet` (what a
call has not reached it has not written). `DownloadsOnce` is the rows' version of `InTurn`,
`Turns`, for a lock that is given back when the row runs.

`AnswersProofs`: each safety property of the questions, for every set of questions, catalogue,
calendar and grid that the assumptions of Answers admit. `IInv` says that the question is one
of its kind's (`Questioned`) and the answer what the kind's operator gives (`Replied`); the
rest is about the operators.

| theorem | argument |
|---|---|
| `StartsBounded` | the ladder of attempts as two halves, WAL and DELETE; after a heal nothing is left to heal (`HealedOnce`), so the second half cannot heal again |
| `ParentsToldWhole` | the states of the chunks partition them, and the cardinalities of a partition add up (`DisjointSum`, `CountsAddUp`) |
| `CallsTold` | the first place that has the account whole is the least (`FirstWhole`); a listing of jobs is a beginning of a sorted sequence |
| `SizesGrounded` | the weighted mean is an average at each step of its recursion (`Weighted`, `EwmaExists`, `AverageMeans`), so that it stays between the rates; rounding down is monotone |
| `Found` | spans and boxes share a point exactly where neither ends before the other starts (`SpansMeet`, `BoxesMeet`); the enclosing box has least and greatest ends (`Extremes`); what ranks above what is left out was kept (`FirstOfRanks`) |
| `SplitsExact` | an override only narrows (`Narrow`), the overrides of a plan differ in an axis they share, and each existing combination meets one (`Exact`): then the children's combinations of entries partition the request's (`ExactAsks`), and where two children mean the same, the entries they differ in are two of one number. `ProposalCovers` shows this of the calendar, `ModelsDiffer` of the models, `PartsJoin` and `CutsDiffer` of both together |
| `ListingsExact` | a state per load (`LoadIs`) and what is stored stays (`LoadsMean`); the record of a failed probe is kept until it is out of date (`RecordKept`); a row of the index reaches as far as the source rows of its file (`OneFileMeans`, `Reaches`), and the filters ask for a common point (`RoundsShare`) |

Sorting is proved once: the position of an element is the number of those before it, and
that is an injection of a finite set into as many numbers (`SortedExists`, `SeqsCover`).
Recursive functions (the weighted mean, the loads) are shown to exist and to satisfy their
equation by taking the least number of steps for which that fails. The fold in the costing of
a request stays opaque: no theorem needs more of it than that it is the same for the
verdict and the order, so that what it computes is for TLC.

The proofs needed facts that every question of the run has and the model did not say: no axis
of models is one of the calendar's, a parent has chunks (it would be successful with none), a
backend does not itself raise an error called "unexpected", and a file has several source
rows only among observations. The code gives each of them, and they are assumptions now.

Only model-checked: the liveness properties (`ParentSettles`, `StraysAreSwept`, `Settled`,
`CallsEnd`, `Delivered`), as liveness and ENABLED are out of the prover's reach. All safety
properties of the passing runs have a theorem, some under the hypotheses above.

## Not modelled

- The cache's size accounting over several keys, and which entries are victims: any key's
  size enforcement may pick this one. Legacy files of 0.7.0, provenance sidecars.
- Schema migrations of the database: they run once, under the opening modelled in OpenStore.
- The CDS catalogue, its search and the dataset forms: look-ups in bundled tables, with a
  time-to-live cache of the live form that one process reads and writes.
- The argument checks of the CMEMS toolbox call, and the describe and estimate replies.
- HTTP retries: a bounded loop around one request; callers see success or one error.
- Tool schemas, build scripts, configuration, canonical forms and keys, sanitiser, logging,
  argument parsing and printing of the command line: functions of one input that keep no
  state that interleaves.
