# Offloader: a verification model

TLA+ modules, TLC runs and TLAPS proofs about Offloader, which is two programs:

* the server (`src/server`, Elixir) serves parameterised read queries over snapshots that
  producers publish as files plus a manifest. It materialises each snapshot into a table of an
  embedded DuckDB database, keeps serving the old table while it builds the new one, keeps one
  previous snapshot for rollback, and hot-reloads its YAML config without a restart;
* the helper (`src/tools`, Go) is what an operator has at the project directory: it writes a
  starter project, turns a manifest into a dataset, validates a project and a manifest by rules
  of its own that must be the server's, and runs the server's container on the directory.

All paths below are relative to `src/server/lib/offloader` unless they start with `src/`.

## 1. Inventory

| Component | Source | State it keeps | Operations | Module |
|---|---|---|---|---|
| Serving runtime | `runtime.ex` | served catalog, per-dataset active / previous / quarantined, pending cutovers, config generation, the published context, sidecar file | boot, apply_refresh, rollback, reload, staged result, `:DOWN`, retry_stage; serve, authorize | `Runtime`, `Serving`, `RuntimeServing`; read path: `ServePath`, `ResponseCache` |
| Refresh | `refresh.ex` | none | resolve, skip or quarantine check, materialise, verify, drop on failure | `Runtime` |
| Refresh worker | `refresh/worker.ex` | dataset definition, timer | poll, refresh_now, manual refresh | `Runtime` |
| Engine | `engine.ex`, `sql.ex` | DuckDB file, writer connection, pool of read slots | materialize, drop, describe, execute, secret refresh | read pool: `ServePath`; tables: `db` in `Runtime`; writer planned: `EngineWriter` |
| Config loader | `config/loader.ex` | config generations on disk, the `config` symlink | load, activate, prune, digest, boot fallback | `ConfigSync` |
| Config sync | `config/sync.ex` | digest applied last | tick | `ConfigSync` |
| Catalog | `catalog.ex`, `catalog/` | none (validated values) | load, validate | `Catalog` over `Yaml`; as an assumption (`IsConfig`) in `Runtime` |
| Manifest | `manifest.ex` | none | load, validate, compatibility | `ManifestRules` |
| Query compiler | `compiler.ex` | none | request to plan | `Compiler` |
| Token cache | `gcs/token_cache.ex` | token, expiry | get, refresh, refresh_after_ms | planned: `TokenCache` |
| Databricks source | `source/databricks.ex` | none | choose the newest commit | planned: pure operators |
| HTTP surface, auth | `../offloader_web`, `auth.ex` | none | endpoint request, ETag, admin calls | planned: `Conditional` |
| MCP, metrics, docs | `mcp.ex`, `metrics/` | counters | render | not planned: they render others' state |
| Clients | `gcs/client.ex`, `s3/client.ex` | none | signed HTTP requests | not planned: I/O |
| Validators | `src/tools/validate.go`, `validate_endpoint.go`, `finding.go` | none | a project to findings | `EndpointRules`, `ProjectRules` over `Yaml` |
| Manifest pre-check | `src/tools/manifest.go` | none | a manifest to findings | `ManifestRules` |
| Init, scaffold | `src/tools/init.go`, `scaffold_dataset.go` | the project directory, file by file | init, scaffold-dataset | `Tools` |
| Serve command | `src/tools/serve.go` | the docker child, its signal channel, two ports | check, pull, probe ports, run, forward signals | `ServeCommand` |
| Other tools, site, deployment | the rest of `src/tools`, `src/site`, `src/deploy`, `src/infra` | - | - | not planned: sequential commands and files |

### How they interact

    producer --> bucket / manifest <--- resolve --- Refresh.Worker (one per dataset)
                                                      |  materialize, drop (calls)
    operator --> YAML in a bucket                     v
        ^            |                              Engine --- DuckDB file
        |   digest,  |  load                          ^   ^
        |            v                 drop (tasks) --'   |  execute (caller's process)
        |       Config.Sync -- reload (call) --> Runtime -+-- publish --> readers (HTTP, MCP)
        '-- rollback, refresh (admin API) ------>   |  ^
                                                    |  '-- apply_refresh (call), task results
                                             snapshots.json (sidecar)

    editor, init, scaffold-dataset --> project directory --> validate, serve (helper's rules)
                                              |                     | docker pull, docker run
                                              '----- mounted in ----'--> container: Catalog.load
                                                                         (server's rules)

* `Runtime` is the only writer of snapshot state. Readers use a persistent term it replaces, and
  never wait for it.
* Workers, staging tasks, drop tasks and config sync are processes of their own. They talk to
  `Runtime` by calls and messages that its mailbox orders.
* The engine's writer is one more mailbox; reads bypass it through a pool of connections.
* `Runtime` is linked to its engine and both restart together; the DuckDB file and the sidecar
  survive, and nothing writes the two together.

### What is hard about it

* Slow builds run beside the runtime, from a state they read before they began. Meanwhile
  rollbacks, reloads and restarts happen.
* A schema change must switch table, contract and endpoints at once, after a build that may
  fail, be retried, be superseded by the next reload, or be reverted.
* Tables are dropped outside the runtime, seconds later. Whoever drops a table must be the last
  who could name it, the sidecar on disk included.
* Sidecar writes, drops and the boot sweep fail silently, by design.
* A restart pairs a sidecar, a DuckDB file and a config that may all be of different ages.
* The rules of a project are written twice, in two languages with different notions of null, of
  lists and of numbers, and what one side lets through the other must be able to run.
* `serve` checks a directory and boots it a docker pull later; ports are probed, let go and bound
  by somebody else; stop signals come while children start and end; writes of `init` fail.

### What makes each part correct

* Runtime: what is served exists, in one contract; it never stops serving; reloads converge; a
  rollback holds; a restart resumes; tables do not leak; auth never opens by accident; cutovers
  end.
* Read path: a response belongs to one publish; the cache never serves a response of another
  table, tenant or contract, and stays bounded; a table outlives the requests bound to it. ETags
  (planned) never confirm a body that has changed.
* Engine: a slot has one holder and comes back; remote scans leave the local share free. The
  writer (planned): a call that timed out does no harm when it is executed after all.
* Config sync and loader: the link always names a complete, validated generation;
  prune deletes nothing in use; every config revision is applied in the end.
* Validators: both sides report the same; what they accept keeps tenants apart and compiles, for
  every request that is let through, to a query that runs and that says what it should.
* Init, scaffold, pre-check: what they write or accept passes what comes after them, and they harm
  nothing that was there.
* Serve: the container refuses only what has changed, no container runs unattended or deaf, the
  ports picked are there.
* Token cache (planned): a token is never used after it expired; refreshes do not spin.

`PROJECT.json` lists the hazards line by line, with the properties that cover them. Further ones
that no property covers, for later work: a worker that is being restarted while a reload looks it
up (`runtime.ex:519`), or killed in the middle of a build (`refresh/worker.ex:113`), or dies and with it the kick it has
not handled (`refresh/worker.ex:114`); a
token of a shorter life than its margin (`gcs/token_cache.ex:91`) and the secret's timer
(`engine.ex:259`); a commit vacuumed while it is read (`source/databricks.ex:62`); parameters named
`limit`, `offset` or `columns` (`compiler.ex:70`) and enums of other values than strings
(`compiler.ex:207`); a stop signal while a pull ends (`src/tools/serve.go:235`) and a file that
appears between init's look and its write (`src/tools/init.go:37`).

## 2. The plan

Done, in this order: `Runtime`, `MCRuntime`, `RuntimeProofs`, `RuntimeTableProofs`, the abstract
specification `Serving` with the mapping `RuntimeServing`, and `RuntimeServingProofs`; then the read
path: `ServePath` and `ResponseCache`, with `ServePathProofs` and `ResponseCacheProofs`. Then the
helper and the rules it shares with the server: `Yaml`, `EndpointRules`, `ProjectRules` (the
helper's), `Catalog`, `Compiler` (the server's), `ManifestRules`, and on top of them `Tools`,
`ServeCommand` and `MCTools`, with the proofs `ServeCommandProofs` and `ValidatorProofs`. Last, the
way of a config from its bucket into the runtime: `ConfigSync`, with `ConfigSyncProofs`.

What would come next:

1. `EngineWriter`: the writer's queue with calls that time out and still execute, killed slot
   holders, the timer of the secret.
2. `Conditional`: the ETag of a response against what the body depends on, across reloads.
3. `TokenCache` and source resolution.
4. Supervision of workers: a worker that is being restarted while a reload looks it up.

## 3. The modules

### `Runtime`

One action per handler of the runtime and per step of the other processes.

| State | In the code |
|---|---|
| `phase`, `todo` | whether the runtime process is down, in `init`, or serving; datasets `initial_refresh` still has to visit |
| `catalog`, `wanted` | `state.catalog`; the last config a reload or boot was given (of which the code keeps `intended_auth_mode`) |
| `snapshots` | `state.snapshots`: active, previous, quarantined |
| `pending`, `stageGen`, `builds`, `retries` | `state.pending`, `state.stage_gen` (per dataset here: only equality with the pending one matters), staging tasks, `:retry_stage` timers |
| `worker`, `inbox` | each worker's position in `Worker.run` and the `:refresh_now` messages it has not handled (`kicks`); the messages about a dataset in the runtime's mailbox, oldest first |
| `db`, `retiring` | tables in the DuckDB file, drop tasks that sleep out their grace period |
| `sidecar` | `snapshots.json` |
| `failed` | ghost: which best-effort operation failed and has not been made up for |
| `spent` | ghost: counts bounded steps |

| Action | In the code |
|---|---|
| `Manual`, `Poll`, `RefreshNow` | `handle_call({:refresh, ...})`, `handle_info(:poll)` (only for a path in `Polled`: `schedule` arms no timer without an interval), `handle_info(:refresh_now)`; each begins `Worker.run`, which reads the snapshot state (`WorkerRead`) |
| `WorkerSkip`, `WorkerBuild`, `WorkerBuilt`, `WorkerRejects` | the rest of `Worker.run` and `Refresh.perform`: resolve, build, report |
| `WorkerDies` | an exception or the 30 s call time-out; the call itself stays queued, the `:refresh_now` messages are lost |
| `ApplySwap`, `ApplyUnchanged`, `ApplyLost` | `handle_call({:apply_refresh, ...})` |
| `Rollback`, `Reload` | `do_rollback`; `apply_reload` with `teardown_removed`, `reconcile_common`, `add_new` (both with `trigger_refresh`: `WorkersAfter`), `merge_pending`, `republish` |
| `StageOk`, `StageRejects`, `StageDies` | how a staging task can end |
| `Cutover`, `StageNotReady`, `StageSuperseded`, `RetryStage` | `on_staged_result`, `not_ready`, `cutover`, `handle_info({:retry_stage, ...})` |
| `EngineDrop` | the task of `drop_table_async` after its sleep |
| `Crash`, `Boot`, `BootRefresh`, `BootSkip`, `BootFinish` | the runtime's death, and `init`: seed from the sidecar, initial refresh, sweep, workers |

Messages about different datasets are handled in any order; those about one dataset in the order
they were sent. What a producer publishes, whether a file fits its contract, and whether a read
fails are choices of the environment. The type of a column, the text of an error and the age of
a snapshot are left out; a *contract* stands for all that shapes a table, a *path* for all that
decides where its data comes from.

A handler is one step because nobody sees it half done: readers see the publish, workers the one
row of their dataset, and the disk changes once, in the sidecar, before any table it retires is
dropped by a task. `Boot` and the steps after it are apart because a crash between them matters.

`RuntimeLive` is `Runtime` as the liveness run needs it: with the condition that refreshes do not
fail (`healthy`), without symmetry, and with fewer equivalent behaviours (see section 4, Bounds).

### `Serving`, `RuntimeServing`

`Serving` is what the runtime promises to whoever reads from it, without workers, builds,
mailbox or files. A dataset has a contract, a snapshot to answer from and one to roll back to;
these change only by `Start`, `Stop`, `Publish` (a reload: contracts and snapshots of the
datasets that stay are untouched, new ones serve nothing yet), `Refresh`, `RollBack` and `Change`
(contract, endpoints and snapshot of one dataset at one instant, the others as they were).
`RuntimeServing` maps the state of `Runtime` to it as `context_of` does: ids and contracts
without tables and sources, and nothing of a dataset outside the served catalog, nor of a
runtime that is down. Its property `ServesReaders` says that `Runtime` implements `Serving`.

### `ServePath`

Requests in flight against publishes. A request reads the context once (`Read`), looks into the
cache (`Hit`, `Miss`), claims a pool slot by compare-and-swap, one probe per step (`Probe`,
`Refused`), queries (`Query`, `QueryFails`), stores its rows (`Store`) and answers (`Respond`).
The runtime is seen from the readers' side and for one dataset: `pub` is the published context,
and each handler that publishes is two steps, the publish (`Swap`, `Rollback`, `Republish`,
`Cutover`) and the flush with the start of the drops (`Flush`), because requests run in between.
A reload that removes the dataset starts the drops first (`Teardown`) and publishes later
(`Unpublish`). `DropTable` is the engine's drop after the grace period.

What rows a query returns is the record of all that decides it (definition, endpoint, caller,
table), so that a stale or foreign answer is an unequal record. The grace period of 5 s is the
assumption that a request bound to a table when its drop was started, or by the time the reload
that removes it publishes, has begun its query before the drop.

### `ResponseCache`

`cache_put` in its four steps (draw a number, insert, measure, trim) for several writers, and the
two flushes, of which the reload's also deletes the counter.

### `Yaml`, `EndpointRules`, `ProjectRules`, `Catalog`

What a project is and what is wrong with it. A document is a value of `Yaml`: null, a string, an
integer, a boolean, a list or a mapping; a file may also be empty, unreadable or missing. A
directory is a function from paths to documents. A finding is a place (parent, position, field)
and a code, as the corpus in `src/dev/validation-cases.yml` states them; its wording is left out.

| Module | In the code | Result |
|---|---|---|
| `EndpointRules` | `validate_endpoint.go`, an operator per check | the helper's findings about an endpoint |
| `ProjectRules` | `validate.go` | `ValidateProject(dir)`, the helper's findings |
| `Catalog` | `catalog.ex`, `catalog/*.ex` | `Load(dir)`: `errors`, and the catalog as `datasets`, `endpoints`, `auth` |

The two sides are translated apart, each with the order, the early exits and the treatment of null,
of duplicates and of values of the wrong kind that its code has; only reading a document is shared.
Identifiers, dates, hashes and numbers are strings that a constant says to be such (`SafeIdents`,
`SafeColumns`, `IsoDates`, `Hashes`, `Numerals`, `OtherNumbers`); `Listing` is the order of a
directory.

### `Compiler`, `ManifestRules`

`Compiler` is the way of a request: `Valid` (unknown, missing and combined parameters, coercion and
its ranges, limits, `?columns=`) and `Build`, the plan with its outputs, grouping, order and
conditions, the tenant's first. `ManifestRules` holds both readings of a manifest:
`ValidateManifest` (`manifest.go`), `LoadManifest` (`manifest.ex`) and `Compatible` (a manifest with
a contract).

### `Tools`, `ServeCommand`

The processes at one project directory.

| State | In the code |
|---|---|
| `dir` | the files of the project and of the producer |
| `command` | the init or scaffold in the foreground: what it still has to write; ghost: what was there when it began and whether an edit came between |
| `pc`, `phase` | where `runServe` and `runDocker` are, and for which docker command |
| `notified`, `pending` | `signal.Notify` on the channel of one place, and what is in it |
| `child`, `outcome` | the docker process and how it ended |
| `ports`, `taken` | the ports picked; those that other processes hold |
| `told`, `asked`, `moved`, `touched` | ghosts: a signal reached the child, or came while it was wanted; a port was taken, or the directory changed, since serve looked |

| Action | In the code |
|---|---|
| `InitCommand`, `WriteFile`, `WriteFails`, `CommandEnds` | `runInit`: the refusal to clobber, one write per step, a full disk |
| `ScaffoldDataset` | `runScaffoldDataset` with `renderDataset`; its write is `WriteFile` |
| `Edit` | an operator's editor |
| `Check`, `LookPath`, `PickPorts` | `runServe`: validation, `exec.LookPath`, `firstFreePort` twice |
| `Notify`, `Start`, `Forward`, `Wait`, `StopNotify` | `runDocker` |
| `Signal` | SIGINT or SIGTERM; without a channel it kills serve |
| `PullEnds`, `Bind`, `Boot`, `ContainerEnds` | docker, and `Offloader.Application`, which loads the mounted directory or stops |
| `TakePort` | another process |

The editor goes on while a command writes, serve pulls and the container boots; an init or scaffold
may run beside a serve, but not beside another. Docker and other processes are external.

### `ConfigSync`

A config in a bucket and what becomes of it. Two processes run the loader, the runtime in its
`init` and the sync loop in a tick, and nothing keeps them apart.

| State | In the code |
|---|---|
| `bucket`, `clock`, `flaky` | what each source holds, a version per upload (`updated` and size of an object); whether requests may still fail |
| `config`, `faults` | `OFFLOADER_CONFIG`; which faults there were |
| `dirs`, `older`, `gens`, `link` | `<cache_dir>/configs`, the order of its names, the files with `.digest` and `.source`, the `config` symlink |
| `load` | `load_generation` in either process: its directory, the listing, what is still to be fetched |
| `runtime`, `catalog`, `calls` | how far the runtime is; what it serves; `{:reload, catalog}` calls in its mailbox |
| `snapshots`, `record`, `build` | the generations (`snap.dir`) of a dataset's active and previous snapshot, of the sidecar's, and of the build under way |
| `sync` | the digest that the tick took, and `last_digest` |

| Action | In the code |
|---|---|
| `List`, `Get`, `FetchFails` | `do_fetch`, `download_all`, `with_retry`, and `load_cached` at boot |
| `Reject`, `Activate` | `validate`; the sidecar files, the symlink and its rename |
| `StartBoot`, `Seed`, `Open` | `Runtime.init`: the load, `seed_from_sidecar`, the initial refresh with the prune |
| `StartBuild`, `FinishBuild`, `Rollback`, `Reload` | a build through `pin`, `generation_missing?`, `do_rollback`, `apply_reload` with the prune |
| `StartSync`, `Tick`, `CallTimesOut` | `running_digest`, `apply_change`, the 120 s of the call |
| `Upload`, `Remove`, `Settle`, `Crash`, `Restart`, `GiveUp` | the operator, the bucket's service, the runtime's and the node's deaths |

A file fetched is the file as it is in the bucket at that moment, not at the listing. The links and
files of one generation are written in one step, as nobody reads it before the rename. `gens` keeps
the contents only of the current generation and of those being written, since no others are read
as a config; that they are still there is `dirs`.

### `MCRuntime`, `MCServePath`, `MCResponseCache`, `MCTools`, `MCConfigSync`

Instances: which configs an operator may publish, bounds on reloads, crashes, kills and lost
builds, and what is interchangeable; for `MCTools` the base project of the corpus, its cases as edits, and the
requests; for `MCConfigSync` which trees are valid.

### The proof modules

`RuntimeProofs` (types, `FailClosed`, the two invariants that tie workers to cutovers and to the
served catalog, and rollbacks), on it `RuntimeTableProofs` (tables and the sidecar) and `RuntimeServingProofs`
(what is served, and the refinement of `Serving`); `ServePathProofs` and `ResponseCacheProofs`;
`ServeCommandProofs` (serve, init, types) and on it `ValidatorProofs` (the two validators, tenant
isolation, plans, manifests, and what init and scaffold-dataset write); `ConfigSyncProofs`.
See section 6.

## 4. The runs

| Run | Instance | Properties |
|---|---|---|
| `restart` | 1 dataset, 2 snapshot ids, 2 manifests, 4 tables, 1 crash, no reload; sidecar writes, drops and sweeps may fail | `KeptTablesStay`, `RestartResumes`, `NothingLeaks`, `RollbackHolds` |
| `reload` | 1 dataset, 3 contracts (one tenant scoped), 5 tables, 2 reloads, 1 crash, 1 kill, 1 build lost to a prune | `TypeOK`, `RestartResumes`, `OneContract`, `OneBuildPerCutover`, `FailClosed`, `Converged`, `NoDowntime`, `ServesReaders` |
| `live` | 1 dataset or none, 2 contracts, 2 manifests of which one is polled, 5 tables, 1 reload, 1 crash, 1 build lost to a prune, fair scheduling, no symmetry | `CutoverEnds`, `DatasetServes`, `AddedServes` |
| `serve` | 2 requests, a table and an object-store endpoint, 2 definitions, 3 tables, 2 slots of which scans may use 1, 1 reload | `TypeOK`, `AnswersTrue`, `TablesThere`, `PoolSound` |
| `cache` | 2 writers, a limit of 3 rows, 10 inserts between two flushes, 1 reload | `TypeOK`, `Bounded` |
| `tools` | the corpus's base project, an empty directory or one with two endpoints of one name, 91 edits, 2 changes, 10 requests, ports 1 to 3 | `TypeOK`, `ToolAgrees`, `TenantIsolation`, `PlansSound`, `InitPasses`, `InitKeeps`, `ScaffoldServes`, `ManifestAgrees`, `BootsWhatItChecked`, `NoOrphan`, `StopHeard`, `BindsWhatItProbed` |
| `config` | 2 sources, 2 files, 1 change of a bucket (an upload, good or bad, or a deletion), any 2 of a crash, a second attempt to boot, a restart and a reload call that times out; fair scheduling | `TypeOK`, `CurrentWhole`, `SkipsOnlyCurrent`, `SnapshotFiles`, `CatchesUp` |
| `rollback_race` | 1 dataset, 2 or more ids, no reload | `RollbackNeverUndone` is violated |
| `late_apply` | reloads that remove and re-add a dataset | `OneContract` is violated |
| `stale_endpoints` | reloads that keep a cutover's target and change its endpoints | `Converged` is violated |
| `enum_default` | the base project and the edits of endpoints only | `DefaultsBind` is violated |
| `config_aba` | one source, 3 changes of the bucket, no faults | `SkipsOnlyCurrent` is violated |

What they show, by property:

* `KeptTablesStay`: an active or previous snapshot's table is in the file and no drop is due.
* `RestartResumes`: at every moment, unless the last sidecar write failed, a restart with the
  served config would bring back the active snapshot, its quarantine and its rollback target.
* `NothingLeaks`: unless a builder was killed or a drop failed since the last full sweep, every
  table in the file is kept, in flight or about to be dropped.
* `RollbackHolds`: a refresh that began after a rollback does not undo it, nor does a restart.
* `OneContract`: served endpoints, the dataset's contract and both its tables agree.
* `OneBuildPerCutover`: a pending cutover has no worker, and exactly one of a build, an
  undelivered result or a retry timer.
* `FailClosed`: `auth: none` is never served together with a tenant-scoped endpoint.
* `Converged`: with no cutover pending, the served config is the one loaded last.
* `NoDowntime`: a configured dataset that serves goes on serving while the runtime runs.
* `ServesReaders`: to its readers the runtime is a `Serving`. This covers what no single
  invariant says: that a reload touches no snapshot, a refresh no endpoint, a cutover no other
  dataset.
* `CutoverEnds`: a pending cutover ends.
* `DatasetServes`: a dataset that is polled serves in the end, however often its refreshes fail.
* `AddedServes`: if refreshes do not fail, so does any configured dataset, polled or not: one that a
  boot reads, that a reload adds to a runtime without it or points elsewhere (`trigger_refresh`), or
  whose build was lost to a prune.

* `AnswersTrue`: the rows a request answers with, cached or not, are those of its own query over
  the context it read. A late insert of an older publish is never read by a newer request.
* `TablesThere`: a request finds the table of the context it read, a rollback the one it needs.
* `PoolSound`: a slot has at most one holder, none stays taken, scans stay within their cap.
* `Bounded`: the cache exceeds its limit by a few rows per storing request at most, although
  late inserts escape a trim and a flush restarts the numbering.

* `ToolAgrees`: for every directory reached, hence every pair of edits, the helper and the server
  report exactly the same findings; with two datasets of one id both report that, and may differ
  on the rest; with two endpoints of one name both report that, and only the helper may report
  that one of them is public.
* `TenantIsolation`: a catalog without errors binds the tenant in every endpoint over a tenant's
  dataset, has no other filter on that column and no anonymous callers.
* `PlansSound`: of an accepted catalog, every request let through compiles to a plan that can run:
  each bound value, a default included, fits its column; the tenant has a condition, the only one
  on its column; nothing ungrouped is computed beside a group; nothing outside the allowlist is
  returned. This takes rules of datasets, endpoints, defaults and requests together. It is stated
  of endpoints whose tenant column is text and whose enums hold strings (`Textual`), two things
  that a query needs and the loader does not ask for (section 5, `enum_default`).
* `InitPasses`, `InitKeeps`: a finished init validates, over an older starter project of either kind
  too; an unforced init changes no file that was there, whatever fails.
* `ScaffoldServes`: a dataset scaffolded from a manifest that passed the pre-check validates and
  is compatible with that manifest, if YAML reads its column names as strings.
* `ManifestAgrees`: what the pre-check accepts the container accepts, save for the two things it
  does not look at (the sign of counts, the columns in a file).
* `BootsWhatItChecked`: the container refuses a project only if it changed since serve checked it.
* `NoOrphan`, `StopHeard`: no docker process is without a serve that waits for it; a stop signal
  is passed on or about to be, at whatever step it came.
* `BindsWhatItProbed`: with two free ports in reach, the ports picked bind unless one was taken.

* `CurrentWhole`: the link names a directory that is there, validates and holds every file of one
  listing; what runs is of the configured source, after a fallback as well. It holds because the
  runtime crashes once at most in the run; section 6 says what is proved of more crashes.
* `SkipsOnlyCurrent`: when a tick would find the digest unchanged, the bucket's tree is what runs.
* `SnapshotFiles`: the files of a snapshot's generation outlive its use, though builds end, loads
  write and reloads prune in any order.
* `CatchesUp`: once the bucket stays valid and answers, it is served in the end.

`OneContract`, `Converged` and `ServesReaders` hold in `reload` because the configs there
stay clear of the defects of section 5; each defect has a run of its own. `SkipsOnlyCurrent` holds
in `config` because a bucket cannot go back to an earlier state in one change; section 6 says what is
proved of more changes and faults.

### The bounds, and why they are enough

* `Table` bounds how many tables exist at once, not how many are ever built: names come back once
  nothing mentions them. Five let two superseded builds coexist with active, previous and one
  being dropped (no worker builds during a cutover). An action that needs a table when none is free is not enabled, so no
  state is distorted; deadlock is checked in every passing run that can go on.
* Two snapshot ids tell "the one rolled back from" from "another one"; in `reload` no property
  compares ids, so one is enough.
* Two reloads are what it takes to supersede or revert a cutover; three contracts let the second
  target differ from both the served one and the first target.
* One crash, because a boot rebuilds everything from disk: a second one adds only what the first
  boot wrote, and the boot itself is several steps that the crash may interrupt.
* One dataset at a time: datasets interact through the shared catalog, sidecar, file and auth mode,
  and what may go wrong there is in theorems that hold for any number of them (`TablesApart`,
  `RestartsResume`, `ServesOneContract`, `ImplementsServing`, `EndsAsLoaded`).
* Re-pointing a dataset in place (same contract, new manifest) happens in `restart` at boot;
  by a reload, with builds in flight, it is covered by the theorems.
* `KeptTablesStay` and `FailClosed` are checked in one run each, as they are proved.
* Symmetry permutes table names and ids (in `serve` also requests and definitions, in `cache`
  writers), which no definition tells apart; `live` uses none, as symmetry is not sound with liveness. There
  a new table takes the same of the free names each time, which with one dataset is a renaming, and
  nobody refreshes by hand what serves already: such a refresh neither ends a cutover nor keeps one
  pending, and its dataset serves as it is.
* A build is lost to a prune at most once, after a reload. The kick that follows is handled like
  that of a reload.
* `serve`: three tables are the active, the previous and one being dropped under a request; two
  requests are what a slot, a late insert with its reader, or a refusal take; one reload gives two
  catalog generations, the least that can be confused. Both endpoints are cached: one that is not
  takes fewer of the same steps. One caller is enough, since callers enter a key as endpoints do.
* `cache`: the bound is 9 rows there, the counter's included, and the run reaches 9; 10 numbers per
  count are enough for it. The limit and the number of writers only shift it.

* `tools`: agreement is between rules that look at one or two places of a project, so two edits
  combine any two cases of the corpus, and one more step of a command comes on top. One change may
  come while serve runs: the container boots once per serve. Ports 1 to 3 and three probes stand
  for 65535 and 64: they hold a collision of the two probes, a scan that ends at the last port and
  one that finds nothing, and the theorem is for all of them. 32 and 64 bits are scaled to 3 and 7,
  where 4 and 5 fit a BIGINT and no INTEGER, and 9 neither.

* `config`: two files are the least that a listing and a fetch can split. One change falls before,
  between or after any step of two fetches; two faults combine a crash of the runtime during a
  sync with whatever follows it. Names of generations are reused once nothing mentions them, and 8
  are enough for every state (`Begin` is never held up by them). One dataset stands for all, as
  they share nothing in it. With one source, two changes and one fault the run gave the same.

### Fairness

`FairSpec` of `ConfigSync` asks that the runtime's boot, its mailbox, the ticks and each fetch go
on (weak fairness); that requests succeed from some point on is not assumed, `CatchesUp` has it as
a condition (`flaky`). Builds, faults and the operator are free.

`FairSpec` of `Runtime` asks for what the scheduler and the environment give: the runtime handles
its mailbox; tasks, timers and boots run (weak fairness); a source that can be read again and again
is built in the end, and the build is applied or cut over rather than finding its config generation
gone each time (strong fairness of `WorkerBuild`, `WorkerBuilt`, `StageOk`, `ApplySwap`, `Cutover`).
The last is justified because prune runs only at reloads. Workers handle their mailboxes (weak
fairness of `Poll`, `RefreshNow` and `WorkerGoesOn`): a timer that was armed fires, and that is all
that `Poll` stands for. A dataset with a source has an interval, a static manifest only if
`refresh_interval_ms` is set, and the application sets none (`Polled`). Without an interval a
dataset is read at boot, when a reload or a lost build kicks its worker, and by hand; a refresh that
fails then is not retried, and a worker that dies loses the kick. So `DatasetServes` is stated of
polled datasets, and `AddedServes` of the behaviours in which no refresh fails (`healthy`, which
forbids nothing else). Nothing is assumed of operators (`Manual`, `Rollback`, `Reload`), crashes,
kills and failures.

## 5. Disagreements between code and documentation

1. `rollback_race`: a poll that read the state before a rollback delivers its build after it;
   `swap_in` (`runtime.ex:837`) looks at nothing and re-installs what was rolled back.
   `refresh.ex:69` says an auto-poll must not do that.
2. `late_apply`: a queued `apply_refresh` of a dataset that a reload has just removed still
   stores its snapshot (`runtime.ex:837-848`). If a later reload adds the dataset with another
   schema, the new endpoints are published over the old-contract table, the mix that
   `runtime.ex:699-702` rules out.
3. `stale_endpoints`: `stage_one` (`runtime.ex:633-636`) keeps the pending entry when the target
   dataset is the same, with the endpoints of the earlier reload. When the cutover lands it
   publishes those, though `src/server/test/offloader/runtime_reload_test.exs:175` says the
   latest target wins.
4. `enum_default`: a default of an enum is only looked for in the enum (`catalog/endpoint.ex:423`),
   and nothing asks that an enum holds strings. With an enum of integers and one of them as the
   default, a filter on a VARCHAR column gets an integer bound to it whenever the param is left out.
   `catalog/endpoint.ex:413-414` says that a bad default is an error at load, not a surprise "when
   the param is first omitted", and lines 744-753 keep integers from VARCHAR because such a filter
   "fails every request". A `tenant_column` of another type than VARCHAR is the same gap: it loads,
   and the caller's tenant, a string, is bound to it. Both came up as the two cases in which a proof
   of `PlansSound` failed.
5. `config_aba`: a tick records the digest it took before the load (`config/sync.ex:142`), not that
   of the listing it loaded. A file uploaded in between and deleted before the next tick is served,
   and every later tick calls the bucket unchanged, though `config/loader.ex:291-292` says that an
   equal token means an unchanged config.

Differences between code and comments that no run states, since the models follow the code:

* after a reload re-pointed a dataset, the older snapshot has another fingerprint. Rolled back to
  it, a restart finds the record unusable (`runtime.ex:412-421`): rollback and quarantine are gone,
  though the moduledoc (`runtime.ex:28-30`) says rollback survives a restart. `RestartResumes` is
  stated for snapshots of the served build;
* `group_by_errors` (`catalog/endpoint.ex:666`) checks the names of `group_by` against all outputs,
  so that an aggregated one passes, and `compiler.ex:362-367` groups by the column that it
  aggregates. The comment above (`endpoint.ex:640-642`) says that every name must be a
  non-aggregated select. The helper has the same rule and says so
  (`src/tools/validate_endpoint.go:380-381`), so the two agree;
* a runtime that boots while the sync loop loads may rename the link after it: the link then names
  an older generation than the one that sync's reload makes the runtime serve, until the next
  change, so that static manifests and a fallback read the older files (`config/loader.ex:198`,
  `config/sync.ex:137`);
* prune spares the newest two directories because "a fetch may be writing one"
  (`config/loader.ex:260`). A runtime that boots twice during one fetch of the sync loop leaves two
  newer ones, and its prune takes the files fetched so far; `write_file` makes the directory again,
  and if what is fetched after that validates by itself it becomes current without the rest. TLC
  finds it with `MaxOfAKind = 2`, two faults and nothing else changed in `config`, as a violation of
  `CurrentWhole` (in some 25 steps); one crash cannot do it, which is proved;
* an endpoint name that a reload moves from a dataset in a cutover to another dataset is lost when
  the cutover lands: `merge_pending` (`runtime.ex:742-763`) keeps the old endpoint as long as the
  cutover is pending, and adopting it (`runtime.ex:728-737`) drops all endpoints of its dataset and
  puts in those of the staged config, where the name belongs to somebody else. It is missing until
  the next reload. No run has such a config; the second half of `Settled` (section 6) excludes it.

Known differences between the helper and the server that the models keep, or keep clear of,
because nothing in the repository promises more:

* of two datasets with one id the helper takes the last, the server the first. Of two endpoints
  with one name the server keeps the first, and asks only that one whether it may be public
  (`catalog.ex:150-160`); the helper asks both (`validate.go:142-155`). No project is served
  for it, as both report the duplicate, but `dev/validation-cases.yml` says that both report
  exactly the same;
* the helper lists `*.yml` before `*.yaml`, the server sorts all names; `Listing` has one suffix;
* the helper clamps an unsigned default at 64 bits, and a `max` may be a float on one side: integers
  of the instance are within what both read alike;
* an explicit null document, `group_by: false`, lists inside enums, defaults and combinations, and
  identifiers that end with a newline are read differently; the instance has none of them;
* how often the same finding is reported is left out (findings are sets);
* the pre-check does not look at the sign of counts or at CSV headers, ignores the case of keys
  as Go's decoder does, and takes timestamps of RFC 3339 only;
* a config in a bucket is not checked by serve at all;
* a stop signal that comes while the pull ends is dropped, and serve goes on;
* a file created between init's look and its write is overwritten; an `offloader.yml` that a full
  disk left empty validates as a project without datasets.

## 6. What is proved

### The runtime

For any sets of datasets, endpoints, contracts, configs, tables and any bounds, with any of the
modelled failures, from the assumptions `ConstantsAssumption` (every config is one that
validation accepts, the polled paths are paths, the bounds are numbers) and `NoneAssumption` (null is distinct from the values it stands in for):

| Theorem | Says |
|---|---|
| `RuntimeProofs!TypeInvariant`, `TypeCorrect` | `[]TypeOK` |
| `RuntimeProofs!NeverOpen` | `[]FailClosed` |
| `RuntimeProofs!RollbacksHold` | `RollbackHolds`, given `[][CallersStay]_vars` |
| `RuntimeTableProofs!TablesApart` | every table in use has one owner and is safe |
| `RuntimeTableProofs!ServedTablesStay` | `[]KeptTablesStay` |
| `RuntimeTableProofs!TablesAccountedFor` | `[]NothingLeaks` |
| `RuntimeTableProofs!RestartsResume` | `[]RestartResumes` |
| `RuntimeServingProofs!ServesOn` | `NoDowntime` |
| `RuntimeServingProofs!OneBuild` | `[]OneBuildPerCutover` |
| `RuntimeServingProofs!EndpointsFit` | every served endpoint is of the contract its dataset serves |
| `RuntimeServingProofs!ServesOneContract` | `[]OneContract`, given `[][RemovesQuietly]_vars` |
| `RuntimeServingProofs!ImplementsServing` | `ServesReaders`, given `[][RemovesQuietly]_vars` |
| `RuntimeServingProofs!EndsAsLoaded` | `[]Converged`, given `[][Settled]_vars` |

* `TypeOK` is not inductive: a step reads fields that its guard only implies are there. `TypeInv`
  adds what a worker's state says about its fields and that only configured datasets await a
  boot refresh. One lemma per action.
* `FailClosed` is inductive by itself: the only steps that publish a catalog compute its auth
  from the endpoints they publish (`ServedAuth`), or boot from a validated config.
* `RollbackHolds` relates a swap to what was read three steps of another process earlier. `CallInv`:
  what a worker builds, and what lies in the mailbox, was permitted by what the live worker of the
  dataset read (not the quarantined snapshot, unless forced), and that worker waits for the answer.
  So if an automatic refresh makes the quarantined snapshot active again, what it read differs from
  what is quarantined now: it began before the rollback, which is the race of `rollback_race`. A boot
  looks at the quarantine itself, and the record that it resumes from has it. The premise
  `CallersStay`: no worker dies, nor is it terminated by a reload, while its call is in the mailbox.
  Such a worker leaves a call whose worker reads anew, so that the property, which tells what was
  read by the worker's state, no longer sees that it was read before the rollback (with a kill TLC
  finds that in 14 states; the `restart` run has neither kills nor reloads).
* `KeptTablesStay` is not inductive: a table is dropped by whoever gives it up, so nobody else
  may hold it. `TableInv` says that kept, queued, worker's and build's tables are pairwise apart,
  within a dataset and across datasets, are in the file, and have no drop due. A boot takes its
  snapshots from the sidecar, so `SidecarInv` says the same apartness of the record, and it is
  preserved because a record is always a copy of what is kept. `IdleInv` says that nothing is in
  flight unless the runtime is up. Lemma `LocalStep` reduces a step of one dataset to what that
  dataset gains and gives up; reload, crash and boot have proofs of their own.
* `NothingLeaks` is the other half, that no handler forgets a table, and is inductive beside
  `TableInv` but for the cutover: `cutover` retires the active and the previous table and not what a
  worker may be building. `FrozenInv` says why that is enough: while a cutover is pending its
  dataset serves and has no worker. A restart begins anew, since the boot's sweep drops what nobody
  mentions.
* `RestartResumes`: `RecordInv` says that the sidecar holds what each dataset serves, field by
  field, unless the last write failed. That the next boot also accepts the record needs the served
  definition to be the record's, which is where the condition on the fingerprint in the property
  comes from.
* `NoDowntime` and `OneContract` need to know what a reload keeps. `PlanInv` relates the served
  catalog to the config loaded last (`wanted`): a dataset without a pending cutover is as loaded,
  one with a pending cutover is served in another contract than the loaded one and staged for that
  one, and every endpoint fits its dataset. `CrewInv`: a worker works from the served definition.
* `OneBuildPerCutover` counts. `StageInv` says of each pending cutover that among the builds, the
  staged results in the mailbox and the timers of its generation there is exactly one (`Token`), and
  that nothing is of a generation later than the counter (`Past`), so that a new generation starts
  from none. Superseded builds may still run; they are of earlier generations.
* `OneContract` is false of some behaviours (section 5, `late_apply`), so it is proved of those in
  which no reload removes a dataset that has the outcome of a refresh in the mailbox
  (`RemovesQuietly`); the configs, their number and their order are free otherwise. The invariant
  `QuietInv` says that everything on its way to a dataset is of the contract it serves, that it
  comes before the result that lands a cutover, and that nothing is on its way to a dataset that is
  not served. The endpoints half (`EndpointsFit`) needs no premise.
* The refinement maps each step: a boot is `Start`, a crash is `Stop`, a reload is `Publish`, a
  refresh (by a worker or at boot) is `Refresh`, a rollback is `RollBack`, a cutover that lands is
  `Change`; everything else stutters. `Publish` and `Change` are the hard ones: that a reload leaves
  the snapshots of the datasets that stay needs `FrozenInv`, that a removed one serves nothing and
  an added one starts with nothing needs `QuietInv`.
* `Converged`: `ConvInv` says that an endpoint of the loaded config is served unless it waits for a
  cutover, that a served one that is not in that config waits for one, and that each pending cutover
  is on its way to the endpoints loaded last. Reloads break the last part when they change the
  endpoints of a cutover that goes on (`stale_endpoints`), or move an endpoint away from a dataset
  in a cutover (section 5); `Settled` excludes just these two.

TLC had found each invariant to be one of the instances above before it was proved, under the same
premises. `NoneAssumption` says what the mapping needs: null is no contract, no snapshot as readers
see it and no pending entry, as `nil` is none in the code.

### The read path

For any number of requests, endpoints, callers, tables, slots and publishes, from the assumption
`ServeAssumption` (scans and uncached endpoints are endpoints, the pool and the cap of scans in
it are positive, null is distinct from the values it stands in for):

| Theorem | Says |
|---|---|
| `ServePathProofs!TypeCorrect` | `[]TypeOK` |
| `ServePathProofs!OneHolderPerSlot` | `[]PoolSound` |
| `ServePathProofs!AnswersStayTrue` | `[]AnswersTrue` |
| `ServePathProofs!TablesOutlastRequests` | `[]TablesThere` |

* `Sane` says what a request holds at each place it can be; `TypeInv` needs it for every request.
* `PoolInv`: a slot is busy exactly while one request holds it. That scans stay within their cap
  then is a count: the scans that query map into the slots below the cap, one to one.
* `AnswerInv`: a catalog generation has one definition, in whatever context a request read and in
  whatever row of the cache, and both are of a generation up to the published one. That is what
  makes the generation enough of a key.
* `TableInv`: kept tables, those the handler is to retire and those waiting for their drop are
  apart, all in the file, each with one drop. `WaitInv`: whoever still waits for a table is known
  to whoever will drop it: the table is kept, or to be retired (and the retirement will take note
  of the request), or in the list of the drop. Neither is inductive without the other.

For any number of writers, any limit, numbers and flushes, from the assumption `CacheAssumption`
(writers are finitely many, the limit and the last number are positive, null is no number):

| Theorem | Says |
|---|---|
| `ResponseCacheProofs!TypeCorrect` | `[]TypeOK` |
| `ResponseCacheProofs!StaysBounded` | `[]Bounded` |

* `Bounded` is a count over the past: what the table holds depends on which trims were made since
  which flush. One number is enough of that past, the mark (`MarkInv` says there is one): a row with
  a later number of the current count still has its writer ahead of its trim (`Awaited`), so there
  is at most one per writer. Of the others, either a writer once found few enough of them (`Calm`),
  or the mark was trimmed for (`Trimmed`): then those not in its window came after the trim, from
  writers that had drawn before it, one less than there are. A writer that finds the table within
  its limit moves the mark to the counter, a trim with a later number moves it there. Rows of a
  count that a flush ended are at most what the writers held at the flush (`StaleInv`).
* TLC found `CacheInv` to hold for two and for three writers before it was proved.

### The tools

For any directory, edits, requests, ports and bounds, from the assumptions `PortAssumption` (the
ports asked for and the number of probes are positive, the last port is a number),
`ListingAssumption` (a listing is a sequence), `NumeralAssumption` and `WidthAssumption` (a numeral
is an integer, an INTEGER is narrower than a BIGINT) and `ChangesAssumption` (the bound is a
number), `StringAssumption` (the empty string is no column's name) and `ManifestAssumption` (nor a
snapshot's id), `NamingAssumption` (no string that YAML reads as a number is a column's type or matches the pattern
of ids: it begins with a digit, a sign or a dot) and `StarterAssumption` (the names in init's templates match the
patterns they are judged by, and each of its files is listed in its own subdirectory):

| Theorem | Says |
|---|---|
| `ServeCommandProofs!NeverOrphaned`, `AlwaysHeard` | `[]NoOrphan`, `[]StopHeard` |
| `ServeCommandProofs!ProbedPortsBind` | `[]BindsWhatItProbed` |
| `ServeCommandProofs!InitNeverClobbers` | `InitKeeps` |
| `ServeCommandProofs!ServeTypeCorrect` | `[]TypeOK` |
| `ValidatorProofs!ValidatorsAgree` | `[](ReadAlike => ToolAgrees)` |
| `ValidatorProofs!CheckedBoots` | `[](ReadAlike => BootsWhatItChecked)` |
| `ValidatorProofs!TenantsApart` | `[]TenantIsolation` |
| `ValidatorProofs!AcceptedPlansRun` | `[]((\E V : Decoded(V)) => PlansSound)` |
| `ValidatorProofs!ManifestsAgree` | `[]((Source \in Paths /\ (\E V : Decoded(V))) => ManifestAgrees)` |
| `ValidatorProofs!ScaffoldedServe` | `[]((Target \in Paths /\ Source \in Paths /\ (\E V : Decoded(V))) => ScaffoldServes)` |
| `ValidatorProofs!StartersPass` | `[]((StarterPaths \subseteq Paths /\ ...) => InitPasses)`: what is listed is in `Paths` too |

* `NoOrphan` and `StopHeard` are about a child and a channel that several steps handle. `ChildInv`
  says that a child is there exactly from its start to the return of `runDocker`, with the channel
  open all that time; `HeardInv`, that a signal asked of a child that lives is in the channel or
  was passed on.
* `BindsWhatItProbed`: `PortInv` says that the ports are those `firstFreePort` gave for `taken`,
  until one is taken. Lemma `FirstFree` says what it finds (the least free port exists,
  since `<` is well-founded), `PickedApart` that two free ports in reach of both
  starts make the two picked ones free and different, because the second scan starts above the
  first port.
* `ToolAgrees` is a fact of every directory whose files both sides read alike (`ReadAlike`): its
  documents are made of nulls, strings, booleans, 64-bit integers, lists and mappings, nested as
  one likes, an endpoint has no `group_by: false` and no list or mapping as a param's name, in an
  enum or in a combination, and paths that are listed are paths. Those are the known differences of
  section 5; what is wrong with the files, and how much, is free. Every directory of the `tools`
  run satisfies it. The proof goes rule by rule, some forty pairs (`SameParam`, `SameQuery`,
  `SameEndpoint`, `SameDataset`, `SameKeys`, `SameAuth`, ...): the helper counts and compares where
  the server subtracts lists, matches kinds in other orders, and reads a default's range from
  other places. Where a rule needs the dataset, its columns have one of the engine's types
  (`Typed`), because a dataset with findings is known to neither side. What passed is then the same
  on both sides (`Passed`, `PassedEndpoints`), and the last of an id is the first unless two share
  it (`ApartUnlessClash`).
* `BootsWhatItChecked`: `CheckedInv` says that while serve runs, an untouched directory has no
  findings of the helper, and one that the container refused has some of the server. With the
  agreement, it was touched.
* `TenantIsolation` is a fact of every directory, not of the steps that made it. The proof follows
  the rules: no finding in an endpoint means that its tenant is bound and that no filter is on the
  column (`EndpointPinned`); what is in a catalog is what passed (`LoadedIsAccepted`); and the
  last check, over the whole catalog, excludes `auth: none`.
* `PlansSound` follows a request through the rules of datasets, endpoints and the compiler. It is a
  fact of every directory that was decoded at all (`Decoded`: documents are made of values that
  lists and mappings may hold, with nothing asked of them but that a string is one; the finite lists
  are what the counting of `--` in `catalog/endpoint.ex` needs), whatever is in it. `ParamPasses`,
  `FilterPasses`, `QueryPasses`, `EndpointPasses`: what the loader's rules leave, read backwards
  from no finding. `CoercedIs` and `DefaultIs`: whether a param was sent or left out, its value is of
  its type and, if an integer, in the range of the narrowest column it filters; `DeclaredOnce`: the
  type that a filter was judged by is that of the param it is given (names are unique); `FilterBinds`
  puts these together, column by column (`FittingBinds`). `ConditionsSound` adds the tenant:
  `TenantBound` and `FiltersElsewhere` make its condition the only one on its column, also when there
  is no tenant, as no column's name is empty. `OutputsSound` is about names: an output's name finds
  it because names are unique (`FoundSelect`), so an order column is an output, and since `names --
  group_by` is empty each output that is not aggregated is grouped (`PlainIsGrouped`,
  `NothingLacks`), likewise the allowlist. That holds for any request, one that the validation of
  requests refuses included: what it refuses (a value out of range, say) has no value to bind.
* `ManifestAgrees` is a fact of every manifest that was decoded (`Decoded`; the manifest's place is
  one of the directory's paths). The two loaders ask for different things: the helper for text that
  is not empty in a struct whose absent fields are empty, the container for keys that are there and
  values that may be null. Hence the two assumptions on empty strings; with them `FieldsThere` finds
  every required key in a manifest without findings. `SchemaPasses`, `FilesPass` and `RefsPass` read
  the helper's rules backwards, `ColumnLoads` and `FileLoads` the container's forwards. A null among
  the sort columns is an empty name to the helper and so is refused there too.
* `ScaffoldServes` relates three things: what scaffold-dataset read, what it wrote a step later, and
  what lies in the directory. `ScaffoldInv`: as long as no edit came between, what is to be written
  or was written is `RenderDataset` of the manifest that is there, with a tenant column of its own.
  The rest is a fact of rendering: lemma by lemma, a manifest without findings has columns of safe
  and different names and known types, which the renderer's document keeps (`Sound`, what a dataset
  needs to have no findings), and each type scaffolded is at least as wide as the manifest's, which
  is all `compatibility` asks. The type is written bare, so `NamingAssumption` is what makes YAML read
  it as a string; of a column's name the property supposes it.
* `InitPasses` goes on over several writes, of which an older project may have left any. `StarterInv`:
  of one starter project, public or not, each file is written or is still to be written, and nothing
  else is in the directory. So when nothing is left to write, `Holding`: the four places hold the
  templates, except that a public project may lie beside an older `keys.yml`, which no rule reads
  then. The proof puts these documents through every rule of the helper (the dataset, each clause of
  the endpoint's query, the keys, the project file, the ids that must be unique), whose findings it
  shows to be none.
* `InitKeeps`: `KeepInv` says that what an unforced init has still to write was not there when it
  began; the refusal to clobber establishes it and each write leaves the rest of the list.
* `TypeOK` needs what is left to write and the fields of the command beside it, since an init's
  list shrinks file by file.

### The config

For any files, sources, names of generations and valid trees, any number of changes to a bucket
and any bound on the faults, from `ConfigAssumption` (the empty tree is not valid, null is
distinct from the values it stands in for):

| Theorem | Says |
|---|---|
| `ConfigSyncProofs!TypeCorrect` | `[]TypeOK` |
| `ConfigSyncProofs!FilesOutlastSnapshots` | `[]SnapshotFiles` |
| `ConfigSyncProofs!OnlyValidCurrent` | `[]CurrentValid`, the first conjunct of `CurrentWhole` |
| `ConfigSyncProofs!WholeIfSpared` | `[]CurrentWhole`, given `[][LoadsSpared]_vars` |
| `ConfigSyncProofs!WholeWithOneCrash` | `[]CurrentWhole`, given `MaxOfAKind <= 1` |
| `ConfigSyncProofs!SkipsIfFresh` | `[]SkipsOnlyCurrent`, given `[][NeverBack]_vars`, `[][LoadsSpared]_vars` and `[][BootsFirst]_vars` |
| `ConfigSyncProofs!SkipsWithOneCrash` | `[]SkipsOnlyCurrent`, given `MaxOfAKind <= 1` and `[][NeverBack]_vars` |

* Two processes write generations with no lock between them, so the invariant is about who writes
  where. `ApartInv`: the directory a load writes to is neither current nor being built from nor
  remembered by a snapshot or the record, and is no other load's. A load that is retried or fails
  removes its directory, so without it neither theorem would be preserved. `Begin` establishes it
  because the name is new (in the code it is the time and a random suffix).
* `KeptInv`: every generation that is remembered is there. A record counts, for the next boot
  takes its snapshots from it; that a prune by snapshots alone spares it needs `BootInv`, that a
  runtime that is up has recorded what it serves. A build protects nothing: it may lose its
  files, and `StillThere` refuses it then.
* `WrittenInv`: a directory that is not there holds nothing, so what validates is there, and a
  `Prune` by the other process that takes a load's directory away makes it fail, not pass.
* `CurrentWhole` is about a fetch that is under way. `WholeInv` says that what it has written is
  what it listed but for what is still to do; every step keeps it except a prune that deletes the
  directory of that fetch. So the theorem has two forms. For any number of crashes it holds as long
  as no prune does that (`LoadsSpared`). And none does as long as no kind of fault happens twice:
  `AgeInv` says that at most one directory is named after the one the sync loop writes to, that of
  the boot after the crash, and prune spares the newest two. With two crashes the premise is needed
  (section 5).
* `SkipsOnlyCurrent` compares the digest of the last tick that loaded with the bucket as it is, many
  steps later. `FreshInv`: a generation, current or being fetched, that was listed as the bucket is
  now holds nothing else. `SeenInv` follows the loop: if the bucket is still as its tick saw it, that
  is what the load listed, what the last reload on its way brings and what a boot would fall back
  to. `LastInv` is the same once the digest is recorded: no reload is on its way, and the catalog,
  the load of a boot and the current generation all hold the bucket's tree. `OffInv` is the state
  before the loop starts.
* These compare states of a bucket, so a bucket that returns to a state refutes them: `NeverBack` says
  that a change does not bring back a tree somebody still compares with, which is just what
  `config_aba` does. `BootsFirst` excludes one more order, that a boot renames the link after the
  sync loop did, while its reload is on its way, and the runtime then crashes and falls back to the
  older generation; the sync loop would call the bucket unchanged. With no kind of fault twice there
  is no second crash, and no prune that takes a load's directory away (`AgeInv`), so that theorem
  needs `NeverBack` alone.

### Not proved

Every invariant and every action property of the passing runs is the subject of a theorem. Left to
TLC is liveness (`CutoverEnds`, `DatasetServes`, `AddedServes`, `CatchesUp`): the prover does not handle fairness
and ENABLED. A theorem with a premise holds of the behaviours that meet it; where the bounds of a
run do not imply the premise, the run checks the property without it, on its instance.

## 7. What is not modelled, and why

* The other commands of the helper (snapshot, support-bundle, keys, doctor, docs, endpoint): they
  run from beginning to end, print, hash or ask the server, and keep no state.
* Of init and scaffold: the types inferred from a CSV, a manifest that is a bare list, an id
  derived from a file name. Of serve: a config in a bucket, the generated secret, the banner.
* Of the compiler: SQL text and quoting, `plus_restored`, output types, the FROM of a remote scan.
  Of the catalog: `with_sort_columns`. Of the manifest: `physical_schema`.

* The engine's writer queue, tokens and conditional requests: planned, section 2.
* Of the config: files other than YAML (they are not in the digest), a sidecar that fails to be
  written (in `Runtime`), a crash of the sync loop alone, a cache directory of an older release.
* The kill of a request while it holds a slot (its `after` does not run): planned with the writer.
* `last_attempted`, diagnostics, metrics, logs and HTML: no decision depends on them.
* The length of the intervals: a worker that has one may poll, and a timer may fire, at any time,
  which allows every schedule the intervals produce.
* SQL, Parquet and HTTP: a build succeeds or fails, a read answers or does not.
* The window in which a dead worker is not yet registered again: the model restarts it at once.
* The table that a crash in the middle of a boot refresh leaves in the file: nothing names it and
  the next sweep removes it.

## 8. Running it

    tlc -config restart.cfg MCRuntime      # likewise reload and the first three of section 5
    tlc -config live.cfg RuntimeLive
    tlc -config serve.cfg MCServePath
    tlc -config cache.cfg MCResponseCache
    tlc -config tools.cfg MCTools          # likewise enum_default
    tlc -config config.cfg MCConfigSync    # likewise config_aba
    tlapm RuntimeProofs.tla                # likewise RuntimeTableProofs, RuntimeServingProofs,
                                           # ServeCommandProofs, ValidatorProofs, ServePathProofs,
                                           # ResponseCacheProofs, ConfigSyncProofs

Each run takes at most about three minutes on two cores, each proof about as long or less (the
validators' somewhat longer).
