# AOI_APP: specifications, model checks and proofs

TLA+ specifications of the automated optical inspection application, checked
with TLC on small instances and, where noted, proved with TLAPS for every
instance. Paths below are relative to the repository.

## 1. The system

AOI_APP is a FastAPI backend over PostgreSQL, two device adapters reached by
HTTP (motion and camera, each a simulator or real hardware), a library of image
processing nodes with a workflow engine, and a web frontend. Request handlers run
in a thread pool, a few on the event loop; inspections and training jobs run in
background threads. They share the database, each through a session of its own,
and a directory tree of workflows, datasets and captures that nothing locks.

| Part | State | Operations | Modelled in |
|---|---|---|---|
| Inspection runs: `backend/app/services/inspection_runtime_service.py`, `api/inspection_runs.py` | rows of `inspection_runs`, `inspection_node_runs`, `integration_outbox_events`; one worker thread per run | create, execute, cancel, recover at startup | `InspectionRuns`, `RunLedger` |
| Training jobs: `training_job_service.py`, `training_execution_service.py` | rows of `research_runs`, artifacts; a pool of two threads | create, dispatch, checkpoint, cancel, complete, recover | `TrainingJobs` |
| Workflow engine: `core/pipeline/execution.py` | token queue, merge arrivals, traversal counts, produced data, records | enqueue, run an activation, emit control, cancel | `TokenWorkflow` |
| Ordering and validation: `core/pipeline/ordering.py`, `virtual_pins.py`, `validation.py` | the order so far, open dependencies, the issues | stable topological order, validation of a workflow | `WorkflowOrder`, `WorkflowValidation` |
| Settings: `api/settings.py`, `settings_service.py`, the frontend's editor | documents, versions, activations, audit records | read, new version, import, rollback, activate | `SettingsDocuments`, `VersionedDocument` |
| Virtual motion controller: `simulator/mcu` | state, remembered command results, events | home, move, jog, stop, interlocks, faults, clear, reset | `VirtualMotion` |
| Replay camera: `simulator/camera`, `clients/camera_client.py` | configuration, remembered results, files | configure, capture, upload, retry | `ReplayCamera` |
| Datasets: `dataset_service.py`, `api/datasets.py` | directories, images, snapshots, `metadata.json` | categories, uploads, imports, renames, deletions, snapshots | `DatasetFiles` |
| Workflow repository: `workflow_repository.py` | one JSON file per recipe, its backup | read with migration, save with revision check | `WorkflowRepository` |
| Model registry: `api/research.py` | versions, aliases, promotion events | new version, promote, preview, roll back | `ModelRegistry` |
| Commissioning, reviews, hardware adapters, users, audit, physical I/O, nodes, frontend | see section 6 | | |

The behaviours that are hard to test: handlers and worker threads that interleave
between two commits or two system calls; sessions that never refresh a row they
have loaded; a process that dies between a commit and the work after it; a machine
that loses power before a file is on the disk; adapters that time out after an
operator has cancelled; a stage that is moved by someone else between the check of
its position and the capture. `PROJECT.json` lists each hazard at its line with the
properties that cover it.

What makes each part correct:

- *Inspection runs*: one inspection at a time works on the station; every run
  ends; a published result is complete; cancellation is respected at the next
  checkpoint; devices are commanded only on confirmed states.
- *Training jobs*: outputs appear with the completion only, no job is left without
  a thread, statuses follow the transition table, a cancel before the start holds.
- *Workflow engine*: terminates, loses and invents no token, fires a merge once per
  round of all its connections, gets stuck only where control does not follow data or
  the data may never be stored.
- *Ordering and validation*: the order respects every dependency, a cycle is reported
  exactly if there is one, and a workflow is accepted exactly if it can be run in its
  stored order.
- *Settings*: no lost update, a linear history, an audit record for each version, a
  key that activates once, requests that are answered.
- *Motion controller*: no "in position" with a fault, every change is announced,
  faults stay until they are cleared.
- *Camera*: a result is of its artifact, repetitions answer the same.
- *Datasets*: no image is lost but by a deletion, the counts are those of the files.
- *Repository*: no edit is overwritten by one that has not seen it, a save that was
  synchronized survives a loss of power, the original of a migrated file is kept.
- *Registry*: the events of an alias are its whole history, a rollback undoes the
  last change and restores what its preview showed.

## 2. Modules

Each component has a module `X` with its state, actions and specification; a module
`XProperties` with what it should guarantee; a module `MCX` and its `.cfg` with the
instance TLC checks; the theorems are in a module `XProofs`, or in one that two
components share, where the definitions of one have names of their own (`OrderSpec`,
`CameraSpec`), so that the proofs can extend both. A definition with a
plausible mistake, marked "variant", stands before the one it differs from where a
property is to be seen failing; none of them is part of a specification.

| Module | Content |
|---|---|
| `InspectionRuns` | the run lifecycle: control plane, worker thread, crash and recovery |
| `RunLedger` | what the service promises about runs, abstractly; `InspectionRuns` implements it |
| `TrainingJobs` | training jobs: handlers, pool, threads with their identity map, crash and recovery |
| `TokenWorkflow` | the token engine, one loop iteration a step, with a cancellation at any time |
| `WorkflowOrder` | the stable topological order over data connections and virtual pins |
| `WorkflowValidation` | `validate_workflow`, which orders the workflow by `WorkflowOrder` and collects its issues |
| `SettingsDocuments` | one document, its clients and their transactions at READ COMMITTED |
| `VersionedDocument` | a document with revisions, abstractly; `SettingsDocuments` implements it |
| `VirtualMotion` | the handlers of the virtual stage, in threads that share its state |
| `ReplayCamera` | captures and uploads by file operations, and the proxy that downloads them |
| `DatasetFiles` | the tree of one dataset, requests by system calls, the counts they leave |
| `WorkflowRepository` | a workflow file, its migration and its saves, down to what is on the disk |
| `ModelRegistry` | versions, aliases and promotions as transactions, previews of rollbacks |
| `InspectionRunsProofs`, `TrainingJobsProofs`, `TokenWorkflowProofs`, `SettingsDocumentsProofs`, `ModelRegistryProofs`, `DatasetFilesProofs` | theorems about one component, for every instance |
| `WorkflowProofs` | theorems about `WorkflowOrder`, `WorkflowValidation` and `WorkflowRepository` |
| `SimulatorProofs` | theorems about the simulated devices, `VirtualMotion` and `ReplayCamera` |

### InspectionRuns

The unit of atomicity is what the code does between two commits, two reads of the
row or two adapter calls; PostgreSQL makes a commit atomic, nothing else does.

| Variable | In the code |
|---|---|
| `up`, `crashes` | the backend process; `crashes` is bounded by `MaxCrashes` |
| `row[r]` | the `inspection_runs` row: status, `cancel_requested`, deployment mode and enabled channels of the commissioning snapshot, whether `input_artifact` is set, the set of statuses of its node rows, whether `result_id` is set, decision |
| `outbox` | `integration_outbox_events`, as pairs of run and channel |
| `worker[r]` | where the thread of `_execute_in_background` stands in `execute_run` |
| `view[r]` | the motion report the thread's local `state` holds when it proceeds |
| `activations[r]` | node activations started, bounded by `MaxActivations` |
| `request[q]` | what a cancel handler has read and not yet acted on |
| `commands[r]`, `late[r]` | history variables: device commands sent, and how many of them after the cancellation was persisted |

Two facts of SQLAlchemy shape the model. A session does not refresh a row it has
loaded (`expire_on_commit=False` in `database/session.py`, and `_check_cancelled`
refreshes `cancel_requested` only), so the thread never sees a status written by a
cancel handler; and an UPDATE writes only the columns the session has changed, so a
handler and a thread do not overwrite each other's other columns. Hence the thread's
knowledge of its status is its program counter, and every write is an `EXCEPT`.

Actions and code: `CreateRun` is `start_run` with `create_run` (the advisory lock
serialises the active-run check and the insert; nobody sees the row before its
commit); `ReadForCancel` and `WriteCancel` are the two halves of
`request_cancellation`; `LoadRun` to `Publish` follow `execute_run` from top to
bottom; `HandleDeviceError`, `Fault`, `AcknowledgeCancel` are its `except`
clauses; `Recover` is `recover_interrupted_runs` in the startup of the application;
`LoseDatabase` is a database error in a thread: no clause rolls back, `_fault`
raises again, the thread dies.

The mode of a run is that of the profile of its station, or `simulation-uncommissioned`
without one; then it has no channel, its calibration is not checked and a simulated
stage is homed unasked. A profile of mode `simulation` skips the calibration only.

Abstracted: which node runs next (any node may complete, fault, notice the
cancellation, or leave the queue), image content, scores, hashes, texts and
timestamps. The adapter may fail or report any combination of fresh, safe, homed
and in position; expiry of the calibration may fault any commissioned run.

### RunLedger

Runs are admitted one at a time, unless the open one has been asked to cancel; each
is published with its announcements or closed without any; a restart closes what
is open. `KeepsLedger` states that `InspectionRuns` implements it, with "open"
meaning that the thread still works, "published" that the result is committed.

### TrainingJobs

| Variable | In the code |
|---|---|
| `up`, `crashes` | the backend process; `crashes` is bounded by `MaxCrashes` |
| `row[j]` | the `research_runs` row: status, stage of the progress column, whether metrics, `output_artifacts` and artifact rows are there |
| `pool` | the queue of `_TRAINING_EXECUTOR`; `PoolSize` is its `max_workers` (2) |
| `worker[j]` | where the thread stands: the checkpoint it is about to commit, the node action, the row lock, the publication, an `except` clause |
| `seen[j]` | the status of the object in the thread's identity map |
| `request[q]` | what a cancel handler has read and not yet acted on |
| `contested` | history variable: jobs a cancel handler has written to |

The thread's closure holds the row object, so every later SELECT of the session, the
`FOR UPDATE` of `_locked_run` included, finds it and leaves its attributes as they
are; nothing asks for `populate_existing`, and commits expire nothing
(`database/session.py`). A rollback does expire them, which is why the `except`
clauses write over the true row. `seen` therefore changes only where the thread
loads or writes the status.

`CreateJob` and `Dispatch` are the two halves of `create` (before and after the
commit), `ReadForCancel` and `WriteCancel` those of `cancel`. `TakeJob` is the pool
starting `execute` and its checks; `Checkpoint` is one `checkpoint` with
`persist_progress`, `AfterStage` the order of calls in `execute_training_dispatch`;
`RunAction` the node's `execute`; `LockRow` and `Publish` what follows it; `Raise` any
exception inside the `try`; `Close` the `except` clauses; `DispatchFails`,
`LoadFails`, `CloseFails` a database error where no clause catches it; `Recover` is
`recover_orphaned_training_jobs` at startup. A thread that publishes holds the row
lock, so a cancel UPDATE waits for it; at a checkpoint lock and commit are one step.

`StatusWidth` is the length of the status column. It is declared as 16 characters, and
with that value every job fails at its first checkpoint (run `training_width`). The
other runs take a column wide enough, so that what comes after the first checkpoint
is examined at all; the theorems hold for every width.

Abstracted: validation of the create request, datasets, parameters, metrics and the
content and files of artifacts; progress units (each stage is reported once).

### TokenWorkflow

One thread runs `_execute_token_workflow`; each iteration of its loops is a step, so
that a cancellation, which the next checkpoint sees, may come anywhere in between.
A workflow is a record chosen initially: nodes in order, the outputs that feed each
required port, the outputs each node stores, control connections with their limits, the
merges of policy "all", the parameters of counters, and the outcomes a node may return
or raise.

A node that returns does not store all its outputs (execution.py:276-291). `slots` are
those bound to a key the runtime has to return; `through` are the pass-through outputs,
each with the outputs that feed the input it repeats, and such an output is stored only
if its input has a value (`Passed`). An input with several feeds may have one that is
there, or none; an output of binding `none` is never stored and is in neither set. If
storing fails half way, what is stored by then stays (`Raise`).

| Variable | In the code |
|---|---|
| `pc`, `at`, `current`, `emission` | where the thread stands: seeding, choosing, before and after the checkpoint, in which call of `emit_control` and at which connection |
| `queue` | the list of waiting tokens |
| `values`, `visits`, `traversals`, `arrivals`, `steps` | `values` (by output, and of pins), the visit counts, `traversals`, `merge_arrivals`, `executed_steps` |
| `stuck`, `faulted` | the records of deadlocks and faults |
| `activated`, `late` | history: tokens handed to each node, completions after the cancellation |

Abstracted: the values themselves, previews, the wording of records. An Output Pin is a
node with a port fed by the Input Pin of its name. `MaxSteps` is the engine's own limit
of 10,000 steps; the instance sets it to 20 and includes a workflow that exceeds it.

### WorkflowOrder

One step is one iteration of the loop of `stable_topological_order`; `indegree`, `ready`
and `result` are its locals. The ready list, kept sorted by the code, is a set whose
least element by `Precedes` is taken. Dependencies include the pairs of virtual pins;
connections from or to nodes that are gone, and preferences that are incomplete, stale
or repeat a node, are part of the instances.

### WorkflowValidation

`graph` is the workflow with its ports, connections and pins; `View` is what the ordering
sees of it. When the ordering has ended, `Validate` sets `issues` to the codes of all
issues: `PinIssues`, `LinkIssues`, `InputIssues`, `ControlIssues` and `OrderIssues` are
the loops of `validate_workflow` in turn. Its depth-first search for a control cycle
without a limit runs first: `Enter`, `Meet`, `Leave` and `Exhaust` are one call of
`visit`, the return of one, or the answer, over the path `visiting` and the set `visited`.
Where a node has several successors, each order of visiting them is a behaviour. The
checks of a single node (its algorithm, parameters, position, runtime slots, system
ports) are the set `flawed`. The identifiers of nodes, of connections and of the ports of
a node are unique, and the data types finitely many.
`AcceptsExactlyTheSound` defines a sound workflow without any of these operators' loops:
by what each input is fed with, by pairs of pins, and by sets of nodes that activate one
another for ever.

### SettingsDocuments

PostgreSQL at READ COMMITTED: each statement sees what is committed when it runs, the
row lock waits, and an INSERT of an identity waits for another one under way.
`request[c]` is the program counter and the locals of client `c`'s handler, `view[c]`
what its editor shows: the revision, and the one whose payload it edits, which the code
reads in two statements. `ReadVersion`/`ReadDocument` are a GET, `Submit` to
`CommitVersion` a new version, import or rollback, `SubmitActivation` to
`CommitActivation` an activation; `Abort` is a transaction that fails or a process that
dies, `LoseAnswer` a client that does not learn what happened. Abstracted: payloads,
schemas, checksums; a reused key is compared by its revision.

`VersionedDocument` is what remains for a client: writes that name the last revision,
an active revision, keys that activate once.

### VirtualMotion

The endpoints are plain functions of a thread pool over one service without a lock.
`job[h]` is what thread `h` does: the lookup of the command, the checks, the copy of the
state, the write of the copy, the remembered result, the event. Between the checks of
most handlers and their copy nothing is called, so that no other thread runs there and
`Decide` does both; a move calls `_is_inside_workspace` in between, and its checks are
an action of their own (`Check`), after which the state may be another one. A jog looks
its command up again as a move; `reset` drops results and events before it makes its
state (`Forget`). A result and an event name the revision of the state they find, which
need not be that of the handler's copy. One axis stands for three; times and speeds are
left out. `MaxRevision` bounds revisions and events.

### ReplayCamera

`artifacts` and `temporaries` hold the contents of files by name; a handler that has
opened a temporary file keeps the file, whatever its name becomes, so a writer whose
file was renamed by another one goes on writing into the artifact. `proxy[id]` is the
backend's capture request: it may give up (the client's timeout is the longest frame
delay), and an answer is confirmed by downloading the artifact and comparing checksums.
A checksum is the content it is of; "mixed" is a file two writers have written into.

### DatasetFiles

`folders` maps each category to its images, snapshots and temporary files; `metadata` is
the file of counts. Requests check names, change the tree by single system calls with
their POSIX meaning, then scan and write the counts. Uploads of images and of tables run
on the event loop and give way only while they await bytes (`loop`); the others run in
threads. A name is a stem and the number of the suffix that makes it unique. An image
that is being copied has the content `Torn`: an import looks whether its name is free
(`Choose`), opens the copy (`OpenCopy`) and fills it (`Copied`), and others may run in
between. A request that succeeds is `answered`, a snapshot too, which counts nothing;
one that fails ends without an answer and leaves the tree as it is by then (`Fail` and
`Abandon`, a full disk or a directory that has gone).

The history variable `met` tells each request whether others ran at the same time, and
whether one of them was a rename, a move or an import, the requests that give an image a
name they have checked in an earlier step; `stale` says that one of the three causes for
which counts may be stale has come, and no request has counted alone since. An I/O error
in the middle of removing a directory is not modelled.

### WorkflowRepository

`file` is the name in the directory, `disk` what a loss of power leaves of it;
`backup` is the copy of a file of the old schema, `spare` what a loss of power leaves of
that. The copy is made by `shutil.copy2` and never synchronized, so it is on the disk
only when the system has written it back (`WriteBackCopy`), be it empty or complete; the
migrated file may be there earlier. A save synchronizes the directory (`Synchronize`) or
fails to, in which case the error is swallowed and the save answered all the same
(`PassOver`, lines 227-228); `synced` is the last revision that was answered with its
directory synchronized. Reads, the migration (which decides on
content it has read before it takes the lock) and saves are split at each file
operation; the lock is held by one request. `original` chooses the file the system
starts with: none, one of the old schema, one of the new. A temporary file is seen by the
holder of the lock only, so writing it and renaming it are one step.

### ModelRegistry

Each request is a transaction; a promotion or rollback locks the row of its alias, or
inserts it, and appends an event. `shown[u]` is the preview user `u` looks at, which was
read in two statements. Verification of an artifact or of its evidence may end a request
at any check.

## 3. Runs

| Run | Instance | Distinct states | Checks |
|---|---|---|---|
| `overlap` | 2 runs, 1 cancel request, 1 crash | 466 k | `OverlapOnlyAfterCancel`, `NoOrphanedRun`, `FinalUnlessCancelled`, `KeepsLedger` |
| `single` | 1 run, 2 requests, 2 channels, 4 modes, every motion report, 2 activations, database errors, 1 crash; `FairSpec` | 128 k | `PublicationIsWhole`, `AtMostOneCommandAfterCancel`, `CommandsAreJustified`, `TimelyCancelHolds`, `RunSettles`, `CancelSettles` |
| `training_jobs` | 2 jobs, 1 request, 1 thread, failing actions and database, 1 crash; `FairSpec` | 84 k | `OutputsAreEarned`, `NoOrphanedJob`, `UncontestedFollowTable`, `CancelWithoutThreadHolds`, `JobSettles` |
| `training_width` | 2 jobs, width 16, nothing fails; `FairSpec` | 37 to the counterexample | violated: `SoundJobCompletes` |
| `tokens` | named workflows and two families of workflows, a cancellation, 20 steps; data flows whose outputs are stored, passed through or never stored; `FairSpec` | 1.2 M | `TokensAreConserved`, `BarrierWaitsForAll`, `DataFlowIsNeverStuck`, `Terminates` |
| `order` | every graph on 4 nodes in 3 stored orders; 3 nodes with pins, stale ends and 9 preferences; 10 stored orders; every set of 10 control connections, of 11 between typed ports | 419 k | `OrderIsTopological`, `CycleErrorIsExact`, `PreferenceDecides`, `AcceptsExactlyTheSound` |
| `settings` | 2 clients, 2 keys, 2 revisions; `FairSpec` | 340 k | `AuditsFormAChain`, `AbstractSpec`, `RequestsAreServed` |
| `motion` | 2 threads, 1 command id, positions 0 and 1, revisions and events to 3 | 3.4 M | `StatesAreConsistent`, `LastChangeIsAnnounced`, `FaultsLatch` |
| `camera` | 2 threads, 1 request id, 1 source image, 2 contents | 2.1 M | `ResultsDescribeArtifacts`, `AnnouncedArtifactsExist`, `RepeatsReturnTheSame` |
| `datasets` | 2 requests at a time, 1 category besides the reserved name, 2 images, 2 contents, 1 snapshot | 2.1 M | `CountsDescribeFiles`, `FilesAreKept` |
| `repository` | 3 editors, 3 saves, 2 crashes, three initial files, a disk that may be full or fail to synchronize | 1.6 M | `EditsAreNotOverwritten`, `SynchronizedSavesSurvive`, `OriginalIsKept` |
| `registry` | 3 users, 1 alias, 2 versions, 5 events | 1.4 M | `EventsFormAChain`, `PreviewedTargetIsRestored`, `RollbacksUndoTheLastChange` |

*The finding.* `training_width`: the status column of a job has 16 characters,
`preparing-dataset` has 17, so PostgreSQL refuses the first checkpoint and the job
fails; the repository's test expects a sound job to complete. The run `training_jobs`
takes a column of 32, so that what comes after the first checkpoint is examined at all;
the theorems about jobs hold for every width.

*Disagreements that a passing run states.* Two properties hold of the code because they
name where it does less than the repository asks for; they must not be read as saying
that it does what is asked.

- `RequestsAreServed`: of two clients that write a document for the first time, the one
  that comes second at the unique key gets an unhandled `IntegrityError`, a 500. The
  test `test_concurrent_first_writes_return_one_conflict`
  (`tests/backend/test_settings_service.py:120`) wants one conflict, and the settings plan
  (line 178) a recovery in a nested transaction. The property says that each request that
  reaches the database ends, answered or with this error, and that the error has no
  other cause.
- `CountsDescribeFiles`: "metadata.json regenerated by scanning actual directory contents
  after every mutation" (dataset manager design of 2026-08-07, line 57). A batch that is
  refused after its first image was stored raises before it regenerates
  (`dataset_service.py:1026-1057`, `1140-1163`), so the counts stay stale until the next
  request that counts; a snapshot, though answered, does not count. The property says
  that this, overlapping requests, and counts that could not be written are the only
  causes, and that the next request that counts alone mends them.

### Bounds

*Inspection runs.* Two runs suffice for every pairwise property, because runs only meet
in the active-run check of `CreateRun`; one request is enough to hold a stale read
across every step of the worker, two let a stale write follow an effective one. One
crash reaches every program point; a second one starts from rows the first has closed.
Two activations let a completed node follow a blocked one, and a faulted one end the run.

*Training jobs.* Two jobs meet in the pool's queue only; a pool of one makes the second
wait, which is what liveness needs. One request lets a cancel be read at any time and
written at any later one.

*Token engine and ordering.* The named workflows are those of the repository's tests
with their limits varied below, at and above what the loop asks for. The families are
every workflow of their shape, so no topology of that size is missed: cycles need two
nodes, an all-merge that overtakes itself three, a starved port a producer behind its
consumer. Four nodes are the first to have a diamond. A third family chains four nodes
by data, with every binding of the two in the middle (stored, passed through, never
stored), their inputs required or not, in five workflow orders, so that workflows with
and without an order of sure outputs occur.

*Validation.* Three nodes hold a control loop of each length with a limit anywhere and
two loops that share a node; the typed ports are a camera with two types, a filter with
a generic input and output, and a sink, so that every code of an issue occurs alone and
each family has workflows that are accepted.

*Settings.* Two clients are enough for each pair of statements to interleave; two keys
for a reused one next to a fresh one; two revisions for a rollback.

*Motion and camera.* Two threads give each race the code has, since a handler conflicts
with one other at a time; one id is retried, and positions 0 and 1 with targets to 2
reach both ends of the workspace and past one of them.

*Datasets.* Two requests of every kind; two images let a rename, a move, an upload or
an import find its name taken; a batch of two lets the first file be stored and the
second refused, the next request mend the counts or a snapshot leave them. With one content an image that replaces another one would not be missed
where both look the same, so there are two, and copies of each are counted. States that
differ only in the counts of the file, or in the last answer of an idle handler, are
one for TLC (`VIEW`): no action reads an answer or the counts in the file, the history
reads an answer only in the step that gives it, and `CountsDescribeFiles` reads the counts
only where they are not `stale`, where the view keeps them.

*Repository.* The third editor shows an old revision while two others save; the second
crash comes when a revision has been given again after the first; a copy may be cut
short, lost or empty at each of them.

*Registry.* The third user shows a preview while two others change the alias; five
events let rollbacks follow rollbacks.

Interchangeable values are declared as `SYMMETRY` in the runs without liveness only.
`CHECK_DEADLOCK FALSE` stands where the system rests: when all runs, jobs or the
execution have ended, or the bound of the motion run is reached and nobody asks for
anything.

### Fairness

*Inspection runs.* `WF(WorkerStep(r))` for each run and `WF(Recover)`: threads are
scheduled, every adapter call ends because `DeviceClient` sets timeouts, node executors
are terminating functions, and a crashed backend is started again. Nothing forces
anyone to create or cancel a run. A thread that dies of a database error leaves its row
active until the next restart, which nobody has to bring about; `RunSettles` and
`CancelSettles` name this exception (the worker value `lost`), as `NoOrphanedRun` does.

*Training jobs.* `WF(Dispatch(j))`, `WF(TakeJob(j))`, `WF(ThreadStep(j))` and
`WF(Recover)`: a handler that has committed goes on, an executor starts the next job
when a thread is free, node actions are terminating functions. `JobSettles` names what
is left: a job a crash meets while it is queued is never taken up again.

*Token engine.* `WF(EngineStep)`: the thread is scheduled, and nodes return or raise.

*Settings.* `SF(Handle(c))`: PostgreSQL serves the waiters of a row in turn, so a
handler that waits for the row while others take it again and again gets it. Clients
are not forced to do anything.

### Conditions in the properties

Some properties hold only until something happens that the code does not prevent. A
history variable, part of no action, says that it has happened, so that the property
keeps its force for everything else. In these places the code does less than one might
expect, or than a document says:

- *Runs.* A cancel handler that has read `precheck` commits `cancelled`, and the
  worker, whose session still holds its own status, commits `capturing` next: a
  terminal status is overwritten, and until the next checkpoint a second run may be
  active. `OverlapOnlyAfterCancel` and `FinalUnlessCancelled` say what remains. After
  automatic homing only "homed" and "in position" are checked again, not the interlocks
  nor the age of the pose. A cancel that comes after the last look of the thread is too
  late: the run may complete, or be faulted after the except clause has read the intent
  (`TimelyCancelHolds` is of those that come before).
- *Token engine* (`DataHasOrder`). An output of binding `none`, or one that repeats an
  optional input without a value, is never stored, and validation does not ask for more
  than a connection: a required port behind such an output ends in
  `control-data-deadlock` without a faulted node. `DataFlowIsNeverStuck` is of workflows
  whose required data come in an order from outputs that are sure to be stored.
- *Jobs.* The thread never sees `cancelling`: it writes its next stage over it and
  completes. A stale cancel of a `queued` job is undone by the next checkpoint.
  `UncontestedFollowTable` leaves jobs aside that a cancel has been written to;
  `CancelWithoutThreadHolds` is of cancels that find no thread at work on the job.
- *Settings.* The payload and the revision of one GET come from two statements; an edit
  of the older payload may carry the newer revision and is accepted. Of two first
  writes the second fails with an unhandled `IntegrityError` instead of a conflict.
- *Motion* (`overlapped`, `raced`, `restored`). Handlers that overlap put back what they
  have read: an emergency stop may be lost, a revision given again, and a retry that
  meets the running handler of its command moves the stage twice. An emergency stop or a
  fault between the checks of a move and its copy (`motion_service.py:125-130`) is copied,
  as a stopped or faulted stage in position: `StatesAreConsistent` claims the part about
  positions until this has happened. A read refreshes the time of the state it has read,
  and may so put back an older one, which no event announces.
- *Camera* (`met`). Two captures with one id, or two uploads of one image, share
  a temporary name, so one may publish the other's bytes or a mixture.
- *Datasets* (`met`, `stale`). Names are checked before the file is renamed, moved or
  imported, so one that has come meanwhile is replaced; an upload replaces one that has
  come to the name it chose by a rename, a move or an import. For the counts (`stale`)
  see above. The directory of the snapshots is accepted as the
  name of a category.
- *Repository* (`torn`, `lost`). A migration works on content read before it took the
  lock, so it may put the original back over a save, of which `EditsAreNotOverwritten`
  claims nothing further; a loss of power before the directory is on the disk reuses a
  revision number; a save whose synchronization failed is answered, and may be lost; a
  backup that was left incomplete by a full disk or by a loss of power is taken for the
  original, and one that was not written back before the migrated file is gone.
- *Registry.* A preview reads the assignment and the last event in two statements; the
  version it shows as current may be stale, the target it shows is not.

## 4. Proofs

The proofs use no assumption beyond those the modules state about their constants
(verdicts are not fault marks, reports and modes are of their types, bounds are
naturals, the pool has a thread, workflows and graphs are of their type, the data types,
an enumeration in the code, are finitely many, `None` is no value).

| Theorem | States | Argument |
|---|---|---|
| `InspectionRunsProofs!TypeCorrect` | `Spec => []TypeOK` | inductive |
| `OverlapNeedsCancel` | `Spec => []OverlapOnlyAfterCancel` | `Attended` |
| `ActiveRunsAttended` | `Spec => []NoOrphanedRun` | `Attended` |
| `TerminalUnlessCancelled` | `Spec => FinalUnlessCancelled` | `Attended` |
| `OneCommandAfterCancel` | `Spec => []AtMostOneCommandAfterCancel` | `CommandBudget` |
| `WholePublication` | `Spec => []PublicationIsWhole` | `Whole`, `Prepared` |
| `JustifiedCommands` | `Spec => []CommandsAreJustified` | `Justified` |
| `TimelyCancelKept` | `Spec => TimelyCancelHolds` | `Stopping`, `Acknowledged` are stable |
| `LedgerImplemented` | `Spec => KeepsLedger` | all of the above |
| `TrainingJobsProofs!TypeCorrect` | `Spec => []TypeOK` | inductive |
| `OutputsEarned` | `Spec => []OutputsAreEarned` | `Sound` |
| `NoJobOrphaned` | `Spec => []NoOrphanedJob` | `Sound` |
| `FollowTable` | `Spec => UncontestedFollowTable` | `Sound` |
| `CancelledWithoutThreadStays` | `Spec => CancelWithoutThreadHolds` | `Held` is stable, with `Sound` |
| `TokenWorkflowProofs!TypeCorrect` | `Spec => []TypeOK` | inductive |
| `BarrierHolds` | `Spec => []BarrierWaitsForAll` | counts of arrivals per round |
| `DeadlockFinal`, `OneLateNode`, `LimitsKept` | deadlocks are final, one late node, limits | see below |
| `TokensConserved` | `Spec => []TokensAreConserved` | `BalanceInv`, numbered tokens |
| `DataFlowNeverStuck` | `Spec => []DataFlowIsNeverStuck` | `FlowInv` |
| `EngineRunsOut` | each step lowers a natural number: the engine takes finitely many | `PlaceInv`, the measure `StepsLeft` |
| `WorkflowProofs!OrderTypeCorrect` | `OrderSpec => []OrderTypeOK` | inductive |
| `Topological` | `OrderSpec => []OrderIsTopological` | `indegree` counts the open dependencies |
| `CycleErrorExact` | `OrderSpec => []CycleErrorIsExact` | the same |
| `PreferenceAlwaysDecides` | `OrderSpec => []PreferenceDecides` | each place went to the first of those that were ready |
| `SearchExact` | the search answers "found" exactly if some nodes activate one another for ever | `SearchInv` |
| `StoredOrderReturned` | without a preference, a stored order that is complete and respects the dependencies is the result | `StoredInv` |
| `AcceptsExactly` | `ValidationSpec => []AcceptsExactlyTheSound` | both, and `CycleErrorExact` |
| `ValidationRunsOut`, `ValidationGoesOn` | each step of a validation lowers a natural number; until it has answered there is one to take | the measure `StepsLeft` |
| `WorkflowProofs!TypeCorrect` | `Spec => []TypeOK` | inductive |
| `EditsKept` | `HistorySpec => EditsAreNotOverwritten` | `Sound`, `NumbersInv`, `KnownInv` |
| `SavesSurvive` | `HistorySpec => []SynchronizedSavesSurvive` | `Sound`, `SyncedInv` |
| `OriginalKept` | `HistorySpec => []OriginalIsKept` | `Sound`, `BackupInv` |
| `SettingsDocumentsProofs!TypeCorrect` | `Spec => []TypeOK` | inductive |
| `LinearHistory`, `AuditChain` | a linear history, `Spec => []AuditsFormAChain` | what the holder of the row knows |
| `KeysOnce` | a key activates once | the same |
| `Implements` | `Spec => AbstractSpec` | all of these |
| `ModelRegistryProofs!TypeCorrect` | `Spec => []TypeOK` | inductive |
| `NumbersHaveNoGap` | `Spec => []VersionsAreNumbered` | the unique key |
| `ChainOfEvents` | `Spec => []EventsFormAChain` | what the holder of the alias knows |
| `RollbackUndoes` | `Spec => []RollbacksUndoTheLastChange` | the same, and the chain |
| `PreviewIsRestored` | `Spec => []PreviewedTargetIsRestored` | the same |
| `SimulatorProofs!TypeCorrect` | `Spec => []TypeOK` | inductive |
| `AlwaysConsistent` | `HistorySpec => []StatesAreConsistent` | every copy under way is latched; `RaceInv`: until a race, consistent |
| `ChangesAnnounced` | `HistorySpec => []LastChangeIsAnnounced` | `EventInv`: whoever changed the state has yet to record |
| `SequentialFaultsLatch` | `HistorySpec => FaultsLatch` | `HistoryInv`: alone, what was read still holds |
| `CameraTypeCorrect` | `CameraSpec => []CameraTypeOK` | inductive |
| `AnnouncedExist` | `CameraSpec => []AnnouncedArtifactsExist` | `CameraInv` |
| `ResultsDescribe` | `CameraHistorySpec => []ResultsDescribeArtifacts` | `CameraInv`, `AloneInv` |
| `RepeatsAnswered` | `CameraHistorySpec => RepeatsReturnTheSame` | the same |
| `DatasetFilesProofs!TypeCorrect` | `Spec => []TypeOK` | inductive |
| `CountsDescribe` | `HistorySpec => []CountsDescribeFiles` | `MetInv`, `AloneInv`, `CountsInv` |
| `FilesKept` | `HistorySpec => FilesAreKept` | the same, `FreshInv`, `TemporaryInv` |

*Runs.* `OverlapOnlyAfterCancel` and `NoOrphanedRun` are not inductive: nothing in them
says that a working thread's row is active, so the active-run check of `CreateRun`
would tell nothing about threads. `Attended` adds `Owned` (the row of a working
thread is active unless cancelled), `Unstarted` (a thread that has not loaded its run
will find it queued or cancelled), `Uncreated` (a run without a row has no thread) and
`ThreadsDieWithProcess`. The steps of a thread enter the argument through one lemma,
`ThreadStepEffect`: a step that ends the thread has closed the row, and one that does
not leaves the row as it was or active. `CommandBudget` counts the commands a thread
may still send before its next checkpoint; `Prepared` says what a thread has collected
when it stands before the publication, `Justified` which reading each command
follows. That a timely cancel holds is a statement about the future of one run, from the
moment its condition is met: `Stopping` lists the points of the program at which a
cancelled thread may stand from then on, none of which leads to the publication but
through another look at the intent, and `Acknowledged` those after a device error; both
are stable. For the refinement each action is mapped to one action of `RunLedger` or to a
stutter, in one lemma per action.

*Jobs.* `OutputsAreEarned` says nothing about threads that have not published. `Sound`
adds, for each program point, the stage the thread has committed: what it sees and the
progress column show that stage, and so does the status unless a cancel handler has
written to it (`Trusting`). From this follows that the thread never sees a cancellation
(`NeverSeen`). `Untouched`, `Ended` and `RequestOK` say what a row shows, and what a
handler can have read, before a thread takes the job and after it has gone; `PoolOK`
that the queue holds a job once. A cancelled job without a thread stays so because every
request that has yet to write to it has read `queued`, and can only write `cancelled`
again; the thread that takes it loads its row and leaves it; recovery does not select it
(`Held`).

*Token engine.* A barrier's activations are bounded by the tokens of each connection
only together with the arrivals that wait: the invariant adds one for a connection that
has arrived and not been used. That a deadlock is final needs that a token which cannot
run now cannot run later, since nothing produces data any more. Conservation is a balance
of two counts, the places of the queue that hold a node and the tokens of its connections,
numbered as `<<i, k>>` so that the sum over connections is the size of a set; each step
moves one token from one side to the other. `DataFlowIsNeverStuck` is for workflows
without control connections and with an order of the required data (`DataHasOrder`), in
which each port is fed by an output that is sure to be stored: a slot, or a pass-through
output of an input its node cannot run without. A node that has run, unless it faulted,
has stored its sure outputs (`RanInv`, which needs that a node runs only when `Ready`); if
nothing in the queue can run and nothing has faulted, the nodes of the queue, which are
those that have not run, have one whose ports are all fed by nodes that have.

*Ordering.* The invariant says that `indegree` of a node is the number of its
dependencies that are not in the result, that `ready` holds exactly the nodes outside
the result for which it is 0, and that the result has no node twice. When `ready` is
empty and nodes are left, these wait for each other. `PreferenceDecides` follows because a
node that could have a place was ready when it was filled, and `Precedes` does not change.
The attempt to prove it for every preference failed rightly: one that names a node twice,
such as `<<c, c, c>>`, gives it rank 2 and counts one name, so nodes without a name, which
get rank 1, come before it. The part about names is now stated for preferences that name
each node once, and the instance includes `<<c, c, c>>`.

*Validation.* The path of the search is a chain of successors, and what it is done with is
closed under successors and free of loops (`SearchInv`). Leaving a node keeps this: a loop
among the nodes done with that goes through it would go on without it. `Meet` answers with
the part of the path from the node met, whose members activate one another; `Exhaust` when
nothing outside `visited` is left. A workflow whose stored order is complete and respects
the dependencies is ordered as it is stored (`StoredInv`: what was taken is a prefix of
it), and one that has such an order has no cycle; the rest of `AcceptsExactly` is that each
loop of the validation finds an issue exactly if the definition of a sound workflow fails
there (`PinsExact`, `LinksExact`, `OrderExact`). Where the code takes the first of several
nodes, or the earlier of two connections, the least number of a set of naturals exists by
well-foundedness, without an induction.

*Termination.* `RunSettles` and the other properties under fairness are out of reach, but
that the engine and the validation cannot go on for ever is the theorem that each step
lowers a natural number. For the engine this number counts what the limit of executed
steps still allows: a run of a node emits at most three times, each emission looks at
each connection once and queues at most one token for it, so a run that is left pays for
six steps per connection and eight more, the removal of these tokens included. For the
validation it is twice the nodes the search has not left, less the length of its path,
and the places of the order that are open.

*Settings.* The history is linear because a writer holds the row from the comparison
of revisions to its commit; the audit record is right although the previous revision
was read before the lock, because a writer that gets past the comparison has named
the current revision, and what it read before lies between the two.

*Registry.* Who looks for the event to undo, or is about to write, holds the row of the
alias or has found none, so that what it has read still holds when it commits: the
previous version in the event is the one assigned before, which is the chain. In a
chain, the last event with a previous version is the last event, unless that is the
first, and undoing it assigns what the alias had before. A preview's target is compared
with the one found under the lock. Versions are numbered without a gap because the row
of a number is unique and the largest number is the number of rows.

*Motion.* Threads overwrite each other, so the state alone is not inductive: the
invariant says that each copy a thread is about to write has latched its faults as well,
whatever raced, and `RaceInv` that until a move has copied a state it would refuse each
copy is consistent. An earlier form claimed consistency without that condition, for a
model in which a move checked and copied in one step; the code does not. For
`LastChangeIsAnnounced`, a handler that has replaced the state owes an event of the
revision it will find (`Owes`), so that either the newest event is of the present state or
someone owes one. `FaultsLatch` is of handlers that do not overlap; as long as none has, at
most one thread is at work and its copy was made from the present state.

*Camera.* Artifacts are renamed into their place and never taken away, and a result is
remembered after its artifact is in place: this is what `CameraInv` says of files and of
each handler, overlaps included, and it gives `AnnouncedArtifactsExist`. That a result is
of its artifact needs that nobody else writes under its name: a handler that has met no
other with its id has the temporary file it has opened, what it has put there is still
there, and the result it did not find when it began is still missing (`AloneInv`).

*Datasets.* Others change the tree between any two steps of a request, so the invariant
says what a request may count on, and when. `MetInv`: who runs now has met all others that
run now. Hence a request that has met none has seen every step since it began: the name it
checked is free, the file it opened is as it left it, the counts it took are those of the
tree (`AloneInv`). Uploads keep their names among others: tasks of the event loop exclude
one another from the choice of a name to the rename, and of the requests in threads only
renames, moves and imports add images (`FreshInv`, with `TemporaryInv`, that the temporary
file of a handler is in one directory only, which may be renamed meanwhile). `FilesAreKept`
then compares the places that hold a content before and after each step: no place is
lost, or one is lost and a free one takes over. The sets are finite in each reachable
state, which `Sound` includes; that a free name exists needs it too.

An earlier form of `FilesAreKept`, checked with one content, did not survive the attempt:
an upload may replace an image that a rename, answered by then, has brought to the name
the upload had chosen, which loses nothing if both images are the same.
`CountsDescribeFiles` was first stated of the answers of requests, which says nothing of
what a refused batch leaves behind; it is now of every moment at which nobody is served.
`CountsInv` is its strengthening while a request is under way: where the counts are not
stale, the request that runs has met no other, and they are those of the tree until it
changes an image, after which it will count.

*Repository.* Whoever holds the lock has in hand what the file is, except a reader that
migrates: it has what the file was when it was read, which can only be the original
(`Sound`). Each save has its own number, so the content a pending save will write is
nowhere yet, and equal contents have equal revisions (`NumbersInv`); the revision of the
file therefore grows with each change that is not a loss, and an editor that shows the
revision of the file shows its content (`KnownInv`). Where nothing is migrated, what was
answered with its directory synchronized is at most the revision of the disk, and that at
most the one of the file (`SyncedInv`); nothing bounds a save that was passed over. Until a
copy is left incomplete or lost, the file is the original unless the copy is, and only the
one request that makes the copy finds it incomplete (`BackupInv`).

Model-checked only: liveness (`RunSettles`, `CancelSettles`, `JobSettles`, `Terminates`,
`RequestsAreServed`), which is beyond the prover; of `Terminates` the finite number of
steps is proved. Every other property of a passing run is a theorem.

## 5. Plan

Left, in this order: commissioning profiles composed with `CreateRun`; immutable dataset
versions next to `DatasetFiles`.

## 6. Not modelled

- *Image processing and learning nodes* (`core/nodes`, more than half of the Python
  code): numeric functions of their inputs without state. Some forty of them are copies
  of one dispatcher over OpenCV calls, or of one comparison with a golden reference,
  which differ in their identifier. The engine's models take what matters to them: a
  node returns an outcome, raises, or notices a cancellation. The control nodes
  (switch, merge, counter, delay) are part of `TokenWorkflow`.
- *Schemas, migrations, scripts, the frontend* (but for the settings editor): shapes of
  data, single statements and layout, without a protocol.
- *Reviews, users, preferences, audit middleware, physical I/O files, schema view*:
  operations of one statement or one file replaced as a whole.
- *Hardware adapters*: the camera adapter captures by an external program and keeps no
  results; the UART transport has no caller in the repository.
- *Release gate and default workflow*: independent conditions on each node, called by
  tests only, and a constant.
- *Queries*: `replay_run`, previews and lists read only. The outbox has no consumer in
  the repository.

`PROJECT.json` gives the reason for each part.
