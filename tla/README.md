# Specifications of the PalWakf governed local agents

TLA+ models of the backend under `src/backend/src/palwakf_local_agents`, checked
with TLC on small instances and, where it says so, proved with TLAPS for every
value of the constants. `PROJECT.json` lists every definition with the source
lines it translates, every run, every theorem, and the hazards the properties
are aimed at.

## The system

A FastAPI application, run on one machine, in which people prepare, review and
release work for local agents. Endpoints are ordinary functions: Starlette runs
them on a thread pool, so requests overlap. Nothing runs in the background; all
durable state is SQLite databases and JSON files below the project root.

| Component | State | Operations | What is hard |
|---|---|---|---|
| Governed operations (`governed_operations/`) | one SQLite database per workspace: tasks, transition events, reviews, evidence, audit events | bind, create (idempotent), evidence, submit, start-review, review, archive, integrity checks | reads outside the write transaction, racing first requests, two hash chains, aborts between statements |
| Waves 3 to 8 (`full_stack_operational_waves_3_to_8_v1.py`) | JSON files of models, plans, proposals, implementations; backups; the source tree | probe/approve model, plan, propose, review, prepare, apply, rollback, recompute | rewriting several source files under a lock people do not take, failed writes, crashes between files, stale preimages |
| Agentic runtime (`agentic_core_v1/runtime.py`) | checkpoint and receipt files; the target tree (read only) | execute, cancel, resume | cancellation, timeout and retry at any file, resuming on a tree listed again, budgets across resumptions |
| Operational core (`operational_core_v1/`) | `project_state.json`, rules, event log, resilience state, identities | prepare goal, transition task, register attempt, checkpoint, identity | load and save under a lock that is released in between; two files per operation |
| Capability foundation (`governed_capability_foundation/`) | SQLite per workspace and a JSONL evidence ledger | task, project, review, tool run | a database commit followed by an append to a hash-chained file without a lock |
| Local agent core (`local_agent_core/`) | SQLite of preparations and review packets | prepare, model pilot draft (idempotent) | a model call between the look-up of a key and its insertion |
| Tool admission (`open_source_tools_operational_admission_wave1_v1.py`) | one JSON file of tool records, scan reports | probe, scan, suspend | a scan runs outside the lock and settles its outcome in a record that changed; binaries are replaced on disk |
| Quality laboratory and planner (`tool_quality_lab_wave1_v1.py`, `quality_accepted_tools_goal_planner_binding_v1.py`) | runs, reviews, scorecards, baselines, quarantines | benchmark, review, accept a baseline, quarantine; which tools a plan may use | a lock nobody takes, admission's file written without admission's lock, decisions on cards read earlier |
| Quality-gated operations (`quality_gated_external_scanners_wave2_v1.py`, `quality_gated_read_only_operations_wave1_v1.py`) | tasks, manifests, runs, checkpoints, reviews: a file each | create, submit, prepare, approve, run, review | two or more files per request, a gate that changes between approval and execution |
| Candidate generation (`governed_coding_model_provider_v1.py`, `controlled_software_development_pipeline_v1.py`, `first_human_authorized_read_only_operation_v1.py`) | settings, candidate directories, archives, manifests, run records, pointers, reviews | save settings, probe, generate, review, execute | seven files per candidate, a model call and a test under the lock, a source tree people edit meanwhile |
| Live probe (`scripts/run_governed_live_probe_v1.py`) | the evidence of one run, the provider's settings | read, enable, probe, generate, restore, verify | a client that gives up on requests the server goes on with |
| Learning, skills, exchange (`agentic_core_v1/learning.py` and others) | records in memory and files | admit, review | validation of single documents |
| Workspace core, authorisation, readers, command center | none that changes | reads | none |

Components meet at three places. All of them share the thread pool. The waves,
the generation services and the quality-gated operations read the laboratory's
and the admission's JSON files through a quality gate; the laboratory writes one
of the admission's. The live probe is a client of the coding-model provider.
Governed operations, the capability foundation and local agent core each keep a
database in the directory of the same workspace, and read the workspace's policy
from the workspace core. The laboratory scans through the admission; no
other component calls another's writing operations.

What makes each correct:

- *Governed operations*: the audit chain never breaks; no approval without its
  evidence; one task per idempotency key; the log and the tables agree after any
  abort; transitions are made for the version they replace (they are, for a single
  client only).
- *Waves 3 to 6*: no source file is rewritten without two human decisions; a
  failed apply puts back every file it had verified; a rollback never overwrites what a
  person wrote; whatever was rewritten can be rolled back (not after a crash).
- *Agentic runtime*: a chain of resumed runs stays within one authority and one
  budget; nothing an interrupted run had is lost; a resumed scan equals an
  uninterrupted one; every run ends.
- *Operational core*: the board is consistent in itself; the log tells of every
  update in its order; failure counters equal the history and escalate; a review
  or checkpoint that is referenced was filed, and is there until newer ones push it out.
- *Capability foundation*: the ledger is one chain and tells of every committed row.
- *Local agent core*: one preparation per key, one model call per preparation.
- *Admission, laboratory, planner*: a baseline is that of one measured, approved
  run; a quarantine withdraws the tool, unless the withdrawal itself fails, and a
  suspension lasts; a tool that drifted from its baseline is not offered (it is: see
  Findings).
- *Quality-gated operations*: nothing runs without a person's approval, an approval
  is spent by its run, what runs is what was approved, the files agree.
- *Candidate generation*: a committed candidate is whole, made of one source, found
  by the pointers and reviewed on record; every request ends and leaves the lock.
- *Live probe*: settings it says it restored are restored for good, and what it
  says of settings it did not restore is true.

## Modules

| Module | Models | Extends / instantiates |
|---|---|---|
| `TaskLifecycle` | the transition table and the rows of `governed_tasks` | |
| `GovernedTasks` | abstract: every call one indivisible step on the current version | `TaskLifecycle` |
| `GovernedOperations` | `governed_operations/store.py`, statement by statement, and the refinement mapping to `GovernedTasks` | `TaskLifecycle`, instantiates `GovernedTasks` |
| `GovernedOperationsProofs` | theorems about it | `GovernedOperations`, `FiniteSetTheorems`, TLAPS |
| `MCGovernedOperations` | symmetry and the bounds of its instances | `GovernedOperations` |
| `ChangeApply`, `MCChangeApply` | waves 3 to 6 of `full_stack_operational_waves_3_to_8_v1.py` | |
| `ChangeApplyProofs` | theorems about it | `ChangeApply`, TLAPS |
| `AgenticRun`, `MCAgenticRun` | `AgenticRuntime.execute` of `agentic_core_v1/runtime.py` | |
| `AgenticRunProofs` | theorems about it | `AgenticRun`, `FiniteSetTheorems`, `WellFoundedInduction`, TLAPS |
| `LocalState`, `MCLocalState` | `operational_core_v1/state_store.py` and `innovation_resilience.py` | |
| `LocalStateProofs` | theorems about it | `LocalState`, `FiniteSetTheorems`, `WellFoundedInduction`, TLAPS |
| `ToolQuality`, `MCToolQuality` | admission, laboratory and planner binding | |
| `ToolQualityProofs` | theorems about it | `ToolQuality`, `WellFoundedInduction`, TLAPS |
| `GatedOperation` | the external scanners of wave 2 | |
| `ReadOnlyOperation` | the read-only operations of wave 1 | instantiates `GatedOperation` |
| `GatedOperationProofs` | theorems about `GatedOperation` | `GatedOperation`, TLAPS |
| `MCGatedOperation` | either family on small instances | `GatedOperation`, instantiates `ReadOnlyOperation` |
| `CandidateGeneration` | the coding-model provider | |
| `CandidatePipeline`, `FirstOperation` | the template pipeline and the first read-only operation | instantiate `CandidateGeneration` |
| `CandidateGenerationProofs` | theorems about the three services | `CandidateGeneration`, `WellFoundedInduction`, TLAPS; instantiates `CandidatePipeline` and `FirstOperation` |
| `LiveProbe` | the probe script beside the provider | `CandidateGeneration` |
| `LiveProbeProofs` | theorems about it | `LiveProbe`, `CandidateGenerationProofs` |
| `MCGeneration` | the four services on small instances, fairness | `LiveProbe`, instantiates `CandidatePipeline` and `FirstOperation` |

### GovernedOperations

A worker is a thread serving one request; `call`, `row` and `stamp` are its
locals and `pc` is where its handler stands. Python's `sqlite3` opens a
transaction at the first INSERT, so a SELECT before it is a step of its own. At that
INSERT the handler waits for SQLite's write lock (`BeginWrite`, `writers`); the SELECTs
of the same transaction, that of the last audit event among them, come after it, and
`seen` is the end of the log they read. The commit, with the rest of the statements, is
a later step. In between other handlers read and compute, and only the lock
keeps them from writing:

- `Start`, `Bind`: a request arrives, and `initialize_workspace` binds the workspace in a
  transaction of its own, unless it has read a binding there.
- `LookUpKey`, `InsertTask`: `create_task` before its INSERT and its commit. A key
  that was inserted in between violates UNIQUE and the request fails.
- `RecordEvidence`: the commit of `add_evidence`.
- `ReadTask`, `CheckEvidence`, `ReadPrior`, `RecordTransition`: `transition` and
  `review`, which share `_record_transition`. The last step commits event, row,
  audit event and, for a review, review and audit event.
- `Refuse`: 404 and 409. `Abort`: the server stops, or SQLite gives up waiting
  for its lock, between any two statements; the lock is left.

A hash stands for the event it is the hash of: `prev` is the timestamp (task
chain) or position (audit chain) of the predecessor, 0 for none. Titles,
rationales and actors are left out; a task keeps its key and the evidence
categories it requires, which also stand for the payload fingerprint.
Authorisation happens before the store is called and does not change its state.

`GovernedTasks` is what the API promises without threads. `MCGovernedOperations`
maps the events of a task, in timestamp order, to the abstract `trail`; with one
worker every step of the detailed specification is a step of it or a stutter.

### ChangeApply

`plans`, `proposals`, `impls` and `backups` are files on disk, `tree` is the
source tree, `job` is the request that holds `_LOCK` in `_apply_implementation`
or `_review_implementation`, with its locals. The statuses `drafting` and
`preparing` stand for requests that have read their input and not yet saved
their result: no lock is held there, so anything may happen in between.
`CheckPreimages`, `CopyFile`, `ReplaceFile`, `VerifyFile`, `RestoreFiles` and
`FinishApply` are the loop, the `except` branch and the two saves of the apply;
`CheckPostimages`, `PutBack`, `VerifyPutBack` and `FinishRollback` those of the
rollback. Files are visited in any order, which includes the code's. A content
stands for its hash. The faults are an exception inside the `try` of an apply
(`WriteFails`: the backup, the replacement, or the read of the replaced file at line 803,
which is then neither verified nor restored), one outside it (`RequestFails`: a file
that cannot be read to be compared, or one of the saves at the end), a backup that
cannot be written back (`RestoreFails`), and a `Crash`. The
replacement of a file is atomic (`os.replace`), writing a backup over it is not
and may leave it torn. `Edit` is a person with an editor. `job.base`, the tree
the job started from, and `calm`, which says that nothing has happened that the
code does not guard against (a crash, a restore that fails, an edit while `_LOCK` is
held), exist for the properties only.

A failed apply restores the files it has in `applied`. `FailedApplyRestores` therefore
says that at most one file is left changed, the one that was replaced and failed its
check (`job.file`), and that it holds what the apply wrote. A save that fails before
the loop leaves the entry it would have written out of the file, as a request that never
ends does. The one-time token is implied: only its holder applies.

### AgenticRun

The locals of `execute` are `job` (what the run is to do, fixed when it enters
the loop), `done` (its progress, which a checkpoint carries over), `visit` (the
candidate at hand) and `result`; `checkpoints` and `receipts` are files; `tree` is the target project, listed again by every run.
`Resume` is `execute` with a checkpoint, `Interrupt` the two tests at the top of
the loop (cancellation and timeout, which may have come about at any of its
turns), `StatFails` and `Stat` the bounded retry and the handling of the entry.
A request is its patterns (as the set of paths they match) and its budgets; its
fingerprint is the request itself. A receipt that a crash tears counts as not
written.

### LocalState

`state`, `rules`, `events`, `reviews`, `resilience` and `identities` are the
files; `call`, `seen` and `pc` are a worker's request, what it read, and where it
stands. `GovernedLocalStateStore` and `InnovationResilienceManager` each have a
lock. A file that is read and written under one lock is changed in one step
(`AddReview`, `AddCheckpoint`, `RegisterAttempt`, `CheckContext`, `StoreIdentity`).
`project_state.json` is not: `Load` is `load_state`, and `Save` and `Announce` are
`save_state`, which writes two files under the lock; `Locked` says that a worker
is between them (`UpsertRule` also ends in `Announce`). Likewise `Compare` reads
the identities without a lock and `StoreIdentity` writes what it concluded.
`Changed` is the new project state as a function of the old one and the request;
`Replay` folds it, and what a rule's event tells, over the log. Two designs are similar when they are the
same one: the weights of `_similarity` only decide which designs count as such,
and the middle verdict, a review recommended, is left out with them. Every id is
named after the request that draws it. `initialize`, which each call begins with,
changes nothing once the files exist.

Reviews, checkpoints and identities are lists from which the oldest drop out (`Newest`):
the code keeps 100, 50 and 100 of them, the model `MaxReviews`, `MaxCheckpoints` and
`MaxIdentities`. So an id in `project_state.json` or in the log may come to name what is no longer
there, and a save of older state may bring such an id back. `PointersResolve` says what
the code does provide: whatever is named was filed, and is there unless as many were
filed after it as the list holds. `SimilarIsFlagged` speaks of the identities that are kept.

`stale`, `history` and `filed`, the ids of every review and checkpoint there ever
was, exist for the properties. Overlapping updates do get lost
(two loads before two saves), as does the event of a save the server did not
survive; no document promises otherwise, so `LogTellsState` and
`SimilarIsFlagged` say what holds as long as that has not happened, and the other
properties hold regardless.

### ToolQuality

`disk` is the binary of each tool, `admission` the admission's file of tool records,
and `runs`, `scorecards`, `reviews`, `baselines` and `quarantines` are the
laboratory's files. A worker that loaded a file to write it back keeps it in `copy`;
`found` is what it measured or the card it read. The admission holds its lock from
load to save (`Locked`): `Load`, `Probe`, `Suspend`, `CheckScan` and `Settle`, with
`CheckBinary`, which compares the hash of the binary with the recorded one, and
`Execute`, the scan itself, outside it: the binary may be replaced between the two. The laboratory's `_LOCK` is declared and
never taken, so each of its reads and writes is a step: `ReadToolRecord`,
`ReadFingerprint`, `AppendRun`, `SaveLab`, `SaveCard` of a benchmark, `AppendReview`
and `MarkCard` of a review, `ReadCard`, `ReadReview`, `SaveBaseline` of an acceptance,
`SaveQuarantine`, `Reread` and `Withdraw` of a quarantine; `Withdraw` writes the
admission's file as it was at `Reread`. A benchmark of a scanner goes through the
admission's scan.

The measurement keeps what `_classify` tells apart: the score, the safety gates and
the limitations. Each suite is the set of measurements its code can compute
(`NativeIndex` for instance six golden lists of equal weight and 15 points for
determinism), of which a run draws one result. `PlannerState` and `Offered` are
`load_quality_snapshot` and the candidates of `evaluate_plan`: pure functions of the
files. `Replace` is a person installing another binary. `Fails` is a read, a write or a
tool that raises: the request ends where it stands, and when it was the withdrawal
of a quarantined tool, `_quarantine_tool` swallows that and the tool stays admitted.
For the properties, `unlocked` says that the admission's file was written without its
lock, `swapped` holds the runs whose binary was replaced after its hash was compared,
and `lapsed` the quarantined tools whose withdrawal failed.

### GatedOperation and ReadOnlyOperation

`tasks`, `manifests`, `runs`, `checkpoints` and `reviews` are a file each; `seen` is
what a request read before it took the lock. A manifest pins a baseline, a binary and
a rule file. `gate` is what the admission, the laboratory and the rule files say at
the moment; here it changes to anything at any time (`ChangeGate`), which includes all
that `ToolQuality` does. The phases follow the code: `Prepare`, `Describe`,
`WriteManifest`, `BindManifest`; `Approve`, `ApproveManifest`; `BeginRun`, `Verify`,
`MarkRunning`, `Execute`, `SaveRun`, `Finish`, `LogRun`; `Review`, `SaveVerdict`,
`CloseTask`, `Checkpoint`, `LogReview`. The `try` of `_run_task` spans all from `Execute`
to `LogRun` (`Trying`): whichever of them raises (`Raises`), the task is then marked
failed (`Fail`), whatever was saved before. Anywhere else an exception ends the request
where it stands (`Breaks`). A file is read and written in one step where
the lock spans both, and in two where the decision was taken before the lock. A
crash may fall between any two.

So a failed task may well have a run under review, saved before what raised, and that
review then closes the task. `FilesAgree` says what the files do agree on between
requests: no task is left running; a task is in the state of its last run, or failed,
and then no verdict was given on that run; a result under review is the last run of a
task that waits for the review or failed; the checkpoints are those of the accepted runs.

`ReadOnlyOperation` is the same machine with the differences of its code: creation
asks no gate, the gate asks for a baseline only, and a returned task is submitted
again before it is prepared. `started` (the manifest of every run that was marked
running) and `drifted` are for the properties.

### CandidateGeneration, its instances, and LiveProbe

The three services take the same steps in other orders, so the order is data:
`path` is the sequence of phases of the service at hand (`ProviderPath`,
`PipelinePath`, `OperationPath`), and `Then` the phase after another. Each phase
reads the source or writes one file: `Digest`, `Ask`, `Copy`, `Patch`, `Test`,
`Compare`, `Export`, `Commit` (the manifest), `SaveRun`, `Point`, `PointRun`, `Log`.
`Acquire` takes `_LOCK` and answers at once when the key has a manifest. Every phase
that may raise answers "refused" and leaves the lock (`Answer`, `Released`), and
leaves behind what was written so far. The next attempt under the same key does not
start afresh: `Copy` (`_copytree_filtered`) removes and copies the package, and
`frontend/dist` when the source has one. An older `frontend/dist` stays when it has none, and
so does what tests have written beside them (`runtime_state`, `docs`, `agents`; `state`
in the model). The archive holds the application file and the new module alone.

`source` is the sequence of contents the tree has had; a moment is a position in it,
and what a request read, it read at a moment (`Now`). An edit may bring an earlier content
back, and `Compare` compares contents, as digests do. The `Built` contents are those
with a `frontend/dist`. `CandidateIsWhole` says that application, module and package in the
workspace, archive and manifest of a committed candidate are of one attempt, whose
test ran there, and `frontend/dist` with them when the source has one. `OneSource` says that what
was copied and patched has the content that was digested, unless an edit was undone after
the digest (`Returned`): two equal digests cannot tell that, and the code then commits a
candidate made of what lay there in between. The model's answer, the patch and the test are each a choice of
outcomes. `SaveSettings`, `Probe` and `ReadSettings` take no lock. The quality gate is
a choice each time it is asked. Event logs are not kept: nothing reads them.

`LiveProbe` adds one client. It sends one request at a time (`Send`), goes on when it
is `Answered`, or gives up on it at any time (`GiveUp`), while the worker that has it
goes on: that is what a time-out is. `Finally`, `Restore`, `Verify` and `Close` are the
`finally` block. `others` notes that someone else saved settings meanwhile. In the code
as it stands no candidate satisfies the gates the probe looks for when it reads back
(`safety_gate` and `tests` are objects in the provider's manifest, and only a text or
a truth value counts), so `ReadBack` always fails closed.

## Runs

| Run | Instance | Shows |
|---|---|---|
| `GovernedOperations.cfg` | 2 workers, 2 tasks and keys while only creations are served and one task otherwise, versions to 3, audit log to 5 at a request's start, 4 timestamps | `TypeOK`, `AuditChainIntact`, `ApprovalHasEvidence`, `LastReviewDecides`, `AuditCoversTables`, `SameKeySameTask`, `BoundOnceAndFirst` |
| `GovernedSingleClient.cfg` | 1 worker, versions to 4, log to 8 | `TaskChainIntact`, `ImplementsGovernedTasks` |
| `GovernedVersionGuard.cfg` | 2 workers, 1 task | `OptimisticGuard` is violated: see Findings |
| `ChangeApply.cfg` | 2 proposals, 2 implementations, 2 files, 2 contents, 1 edit; 1 fault while calm, 2 faults with one proposal | `BackupIsPreimage`, `HumanReleased`, `FlagNeverAhead`, `FailedApplyRestores`, `RollbackIsGuarded` |
| `ChangeApplyCrash.cfg` | 1 of each, 2 files, 1 crash | `RewrittenCanBeRolledBack` is violated: see Findings |
| `AgenticRun.cfg` | 2 overlapping runs and a third after them, 2 paths, 2 sizes, 2 requests, 2 edits, 1 crash | `TypeOK`, `WithinAuthority`, `ResumeExtends`, `InterruptedHasCheckpoint`, `ResumeIsTransparent`, `RunEnds` |
| `LocalState.cfg` | 2 workers, 3 requests of any kind, 2 tasks per goal, 3 projects, 2 designs, 1 review, 1 checkpoint and 2 identities kept, escalation at 2 failures, 1 crash | `BoardConsistent`, `LogTellsState`, `AttemptsGuarded`, `PointersResolve`, `SimilarIsFlagged` |
| `ToolQuality.cfg` | a tool of any of the 8 suites, 2 workers, 4 requests, 1 overlap, 1 replacement, 1 failure, 1 crash, two of these together among the first 2 requests and one otherwise | `TypeOK`, `BaselineEarned`, `QuarantineWithdraws`, `SuspensionLasts` |
| `ToolDrift.cfg` | a tool of any suite, 1 worker, 5 requests, 1 replacement | `DriftNeedsRevalidation` is violated: see Findings |
| `GatedOperation.cfg` | either family, 2 workers, 1 task, 7 requests, 1 overlap, 1 change of the gate, 1 crash or request cut short, any number of exceptions inside the `try` | `ApprovedRuns`, `ApprovalSpent`, `RunAsApproved`, `FilesAgree` |
| `Generation.cfg` | each of the services, 2 workers, 2 keys, 2 contents, one with a `frontend/dist`, 3 requests, 2 of: an overlap, edits, a crash; with the probe 4 requests, an overlap, no edit or crash | `CandidateIsWhole`, `OneSource`, `LatestResolves`, `ReviewLogged`, `SettingsPutBack`, `RequestsEnd` |
| `LiveProbe.cfg` | the provider with the probe alone, 3 requests | `NotRequiredIsTrue` is violated: see Findings |

Why the bounds are enough to be interesting. Two workers can overlap at any pair
of statements, and the audit log of five leaves room for bind, creation,
evidence and two overlapping transitions to an approval and past it. Two files are the
least for which an apply or a rollback can fail half way, two implementations
of one proposal and two proposals of one file the least that compete. Three
runs make a chain of two resumptions, and the budgets of two files and three bytes cut
the listing short. Three requests to the operational core are enough for a goal
and two overlapping transitions that would accept it, for two failures with a
cancelled attempt between them, for a project to be compared, changed and
compared again, for a review or checkpoint that is named to be dropped by the next one,
and for an identity to be dropped by the third. A scanner needs a probe, a benchmark, a review and an acceptance for
a baseline, and a fifth request to be probed again; a gated task needs five to its run and
a sixth for the verdict, the seventh is the one that overlaps or repeats. Of two
candidates one can be begun, fail and be tried again while the other is committed, and
two edits can change the source and change it back within one generation. Deadlock
is not checked: the bounds stop every model, and a system that waits for requests may
always stop.

Six constraints narrow an instance where the full product would not end in time:
`OneTaskUnlessCreating` (several tasks only while creations race), `Timely` (a transition
is asked for the version its task has or the next; any other version is refused), `Chained` (a third run
comes after the other two), `Bounded` (a second fault or proposal, not both), `Short`
(overlaps, crashes, failures and replacements are two together, and one beside the last two requests)
and that of `Plain` (edits, crashes and overlaps are two together) with `Reduced`. `MCToolQuality` has
one tool, of any suite: no operation relates two, and what overlapping writes of a whole
file do to another tool's entry they also do to the entry of the same tool. In
`MCGeneration`, a behaviour is one service, because their files and locks are disjoint,
and beside the probe other people save settings and nothing else fails. `Reduced` leaves out
behaviours that differ from others by a name or by the time of an edit between requests: the first
request is about one of the two keys, an idle server serves with one of the two workers,
and the tree is edited while a request is in flight; it also has one enabled setting.
`MCInit` starts with a source that has a `frontend/dist`, so that one edit takes it away. The
constraints cut states off and add none, so an invariant that fails within them fails
without them.

Each property of a passing run has a mutant in `PROJECT.json`: a fault written
beside the definition it replaces (comments that begin with "Fault:") that TLC
then finds violated.

`FailedApplyRestores` and `RollbackIsGuarded` speak of jobs no crash, failed restore or
edit under `_LOCK` has disturbed. They cannot hold for an undo whose own restore
fails, or for edits while the lock is held, which no code prevents; `HumanReleased` and
`FlagNeverAhead` say what still holds then. Likewise `FilesAgree`
and `QuarantineWithdraws` are about requests that do not overlap and are not cut short, and
`ApprovalSpent` counts the overlaps: two overlapping runs of one approved task
do both run, and an overlapping probe can undo a quarantine's suspension.

These are not the only windows the code leaves open. Each of the following is modelled, and
a property says what holds outside it: a scan resumed on a tree that was edited
(`ResumeIsTransparent`), an identity stored after a comparison with identities that were
replaced (`stale` in `SimilarIsFlagged`), a server that dies between manifest and log of a review
(`ReviewLogged`), admission's file written by the laboratory without the lock (`unlocked` in
`SuspensionLasts`), a binary replaced after its hash was compared (`swapped` in
`BaselineEarned`), a withdrawal that fails (`lapsed` in `QuarantineWithdraws`), a gate that
changes after the last check (`drifted` in `RunAsApproved`), an edit undone between two digests
(`Returned` in `OneSource`).

The type invariants of `ChangeApply`, `LocalState` and `GatedOperation` are proved and
not checked by a run.

### Fairness

`AgenticRun` states weak fairness of the thread that serves a run. A started request
keeps its pool thread until it returns, and every step of `execute` is a bounded
computation or a file operation. Nothing is assumed of cancellations, clocks, file
errors, clients or crashes; `RunEnds` holds because the loop advances or returns and
retries are counted.

`MCGeneration` states weak fairness of each worker's next step, for the same reason: the
call of the model and the test both have a time-out. It is enough for the step that
takes the lock, because the number of requests is bounded: after the last one is
sent the lock is free for good when its holder ends, so a waiting worker is not
overtaken for ever. With unlimited requests it would take a fair lock, which
`threading.RLock` does not promise. The probe is under no fairness.

## Findings

- **The version guard does not guard overlapping requests.** The V2 change log
  (`docs/CHANGELOG_GOVERNED_OPERATIONS_WORKBENCH_AUDIT_ASSURANCE_V2.md`, line 6)
  "Adds optimistic-concurrency expected_version guard". `store.py` compares the
  version with a row read before the transaction (lines 381 and 405) and updates
  by `task_id` alone (line 389). `GovernedVersionGuard.cfg` shows two requests for
  one version both committing. The same window forks the hash chain of the task,
  so that `TaskChainIntact` holds for a single client only.
- **A crash during an apply leaves files no rollback covers.** Wave 5 promises a
  backup and a rollback governed by hashes. `_apply_implementation` rewrites the
  files before it records the implementation as applied; after a crash in between
  it can be neither applied (its preimages are gone) nor rolled back (it was
  never applied). `ChangeApplyCrash.cfg` shows it. The same happens without a crash when
  the read of a replaced file (line 803) or the save of `implementations.json` (line 817) raises:
  the first file is not in `applied` yet, and nothing undoes the files after the loop.

- **The planner offers a tool that drifted.** Its policy says "Version, adapter, or
  fixture drift requires revalidation."
  (`quality_accepted_tools_goal_planner_binding_v1.py`, line 438).
  `load_quality_snapshot` compares the scorecard with the baseline that was accepted from
  it and never reads the admission's record of the tool; `ToolDrift.cfg` shows a binary
  replaced, probed and offered on the old baseline.
- **The probe says nothing had to be restored when it did not know.** Line 978 of
  `run_governed_live_probe_v1.py` writes `NOT_REQUIRED_ORIGINAL_ALREADY_MATCHED` whenever
  no change was answered; an enabling POST that timed out takes effect all the same.
  `docs/ERROR_RECORD.md`, line 81, asks to "verify restored settings by GET", which this
  path does not. `LiveProbe.cfg` shows the target settings in force under that verdict.

## Proofs

`GovernedOperationsProofs` proves, for any sets of workers, tasks, keys and
categories and any bounds:

- `TypeCorrect`: `TypeOK` and `WorkerInv`, what a worker's locals mean at each
  `pc` (a worker past `ReadTask` holds a row whose status allows its destination;
  one past `CheckEvidence` that approves holds a row whose needs are recorded).
- `OneWriter`, `AuditChainSafe`, `BoundOnce`: a handler chains its audit event to the end of
  the log as it was when its transaction began. `LockInv` says that one handler at most
  writes, and that what it has read is still the end of the log. It is inductive because the log
  grows only at the commit of the one writer (`LockStep`). The chain follows: every step
  leaves the log as it was or appends by `Audited`, after `Bound` has run; the lemmas
  `AuditGrowth`, `AuditedChain` and `BoundBound` say so once for all actions.
- `ApprovalsAreEvidenced` and `LastReviewWins`: from the inductive `TableInv`.
  The property alone is not inductive, because the gate is read before the
  approval commits. `TableInv` adds what makes the reading safe: evidence only
  grows, the needs of a task never change once it exists, and a cleared worker's
  row agrees with the table on them.
- `IdempotentCreation`: the UNIQUE constraint keeps keys apart, rows keep key and
  needs for ever, and an answer names a row that existed when it was given.
- `LogCoversTables` (`AuditCoversTables`): each transaction adds to the counts of the log
  (`AuditedTally`, `ReportedTally`) what it adds to the tables. That an event set grows by
  one needs `StampInv`: no two handlers and no two events share a timestamp, so the event
  a transition adds is new.
- For a single client (`SingleClient`, an assumption of the theorem; the run
  `GovernedVersionGuard` shows what two clients do): `OneClientChain` (`TaskChainIntact`),
  from `CurrentInv`, the row, prior event and
  timestamp a handler holds are still the newest when it commits; and
  `OneClientImplements`, the refinement of `GovernedTasks`. The abstract trail lists a
  task's events by rank, the number of events up to their timestamp. `RankInv` says that
  ranks are a numbering; `TrailGrows`, that a latest event is appended. With
  these each transaction is a step of `GovernedTasks` and every other step a stutter.

`AgenticRunProofs` proves, for any number of runs, requests, edits and crashes,
`TypeCorrect` (`TypeOK`), `AuthorityHeld` (`WithinAuthority`), `NothingLost`
(`ResumeExtends`) and `CheckpointBeforeReceipt` (`InterruptedHasCheckpoint`) from
one inductive invariant, `Inv`. None of the properties is inductive: they speak
of files, and a file is only as good as the locals it is made of, which may come
from a checkpoint of another run. `RunInv` says of the locals of a live run what
`DiskInv` says of files: the progress lies within the request's patterns and
budgets, and extends the checkpoint the run came from. `Resume` keeps it because
a checkpoint is accepted only for the request it was written for, and later
writes keep it because a run writes its checkpoint once, before its receipt, so
the checkpoint a run came from never changes. `LocalStep` reduces the steps of
`execute` between two writes to `RunInv` of the one run; `ProgressStep`, the
three ways to leave a candidate to facts about progress alone.

It also proves `ResumesAreTransparent` (`ResumeIsTransparent`). `ScanInv` says what the runs
have done on a tree nobody has edited: the progress of a run in its loop, and of every
checkpoint, is what any run would have done by the same candidate (`Faithful`: it lists the
regular files among the first `next` of the listing, and holds the sum of their sizes), and
a run that passed had no candidate, no file or no byte left (`Stopped`). A resumption
keeps it because the request is the checkpoint's and the listing is the tree's. That such
progress is the one the property describes is `SeenFits` and `FitsSeen`, about paths in
their order and sums of sizes. `TotalSize` is a fold, which takes the elements of a set in an
order of its own; that the sum does not depend on it (`SumByElement`) is shown without an
induction theorem: if it did, there would be a smallest set for which it does (`SmallestSet`,
from `WFMin`), and it does not for that one.

`GatedOperationProofs` proves, for any number of workers, tasks, requests, changes of the
gate and crashes, and for either family (its constants say which), `TypeCorrect`
(`TypeOK`), `RunsAreApproved` (`ApprovedRuns`) and `RunsAreAsApproved` (`RunAsApproved`)
from the inductive `IInv`. A run is compared with a manifest twice and recorded much
later, by a worker that has seen both before it took the lock, so the properties are not inductive.
`Fresh` says that identifiers are those of requests: no two workers have the same, and
what a request will create does not exist yet. `Grounded` and `Approvals` say of what a
worker has seen what the properties say of files: the manifest it holds exists and,
from `Verify` on, is approved. `AsApproved` adds that the pins it carries are the
manifest's, unless the gate changed since. All rest on one lemma, `Kept`: a manifest that
exists keeps its pins, and an approved one stays approved, because
`WriteManifest` writes an identifier nobody has written and `ApproveManifest` only adds
the approval. Each later phase then inherits what the earlier one established.

The other two properties speak of how often requests overlapped. `ApprovalsAreSpent`
(`ApprovalSpent`) rests on `Spending`: at most one request more is under way than
overlaps were let in (`BusyInv`), one of them holds the lock (`Exclusive`), a manifest
belongs to its task (`Owned`), a task whose manifest was run is no longer approved
(`Disarmed`), and the runs started of a manifest together with the requests ready to
start one are at most one more than the overlaps (`SpentInv`): a request gets ready only
at an approved task, and starting a run moves it from one count to the other.
`FilesAreInStep` (`FilesAgree`) rests on `StandInv`: while no two requests overlapped and
none was cut short, `Stands` says for every phase of the one request what it has left the
files in, and that all else agrees. One lemma for each action carries it on; that the
request is alone comes from `BusyInv`. Among the phases is that of a request about to mark its task failed,
with or without a run saved before.

`ChangeApplyProofs` proves, for any paths, contents, workers and numbers of edits,
faults and crashes, all five properties of `ChangeApply` and its `TypeOK`, in three
layers. `SafeInv` is what every crash leaves true: an accepted proposal stands on an
accepted plan (`PlanInv`), an implementation on an accepted proposal (`ImplInv`), and
the job that holds `_LOCK` is about files of one implementation that stands where its
stage says (`JobInv`). `HumanReleased` follows. `FlagInv` adds that at the end of a
rollback the flag has been taken back already, so that the flag is never ahead.
`CalmInv` is about jobs nothing has disturbed; during an undo, it names the one file that
was replaced and not verified. `Progress` says for each stage where every
file is: not reached yet and at its preimage, backed up, or at its postimage, according
to `todo` and `done`. The file properties speak of the ends of a loop over
files; they are inductive only with what its middle has done so far.

`LocalStateProofs` proves `BoardConsistent`, `PointersResolve`, `SimilarIsFlagged`,
`AttemptsGuarded` and `LogTellsState`, for any slots, projects, limits and overlaps. A worker loads a file,
changes what it loaded and saves the whole, so each part of `IInv` says of every copy in
a worker's hands what the property says of the file: `BoardInv` that a lost update takes
its whole board along, `PointerInv` that what a copy names was filed, and that the lists kept are the newest of what was
filed, so that an id leaves them only behind as many others, `SimilarInv` that a status about to be stored was compared with
the identities the copy holds. `AttemptsGuarded` compares counters with the recorded
history and needs a lemma on cardinalities: an attempt appended to a history
adds one failure since the last success, none, or leaves none (`FailuresAppended`).
`LogReplays` (`LogTellsState`) rests on `LogInv`: one worker at most has an event to append,
and the log replayed, with that event, gives the files. A save keeps it because the lock it
takes is free only when no event is due, and because a save on a newer state than was read is
noted in `stale`. `ReplayAppended`, that an event appended is replayed last, is about a fold
and is shown by a smallest set of events, like the sums of `AgenticRunProofs`.

`ToolQualityProofs` proves `BaselineEarned`, `QuarantineWithdraws` and `SuspensionLasts`,
for any tools, binaries, workers and overlaps. `LockInv` says that between the
load and the store of a section of admission's lock the copy is the file, unless the laboratory
wrote without the lock. `RunInv` ties what an acceptance has read (card, run,
review) to the run it read it of: ids are those of requests, a run is written once and
reviews are only added, so what was true when it was read stays true. `AloneInv` is what a worker
that is alone knows: its copies are the files, a binary it has compared is the one on
disk unless it was replaced since, and a tool that is quarantined but not
withdrawn is one it is about to withdraw or failed to. That the latest review of a run exists is
well-foundedness of the natural numbers (`LatestExists`).

`CandidateGenerationProofs` proves `CandidateIsWhole`, `OneSource`, `LatestResolves` and
`ReviewLogged`, for any workers, keys, requests, edits and crashes, of the provider, the
template pipeline and the first operation together (`AnyService`): the lemmas on the
instances (`PipelineServes`, `FirstServes` and their neighbours) turn their steps into
`CandidateGeneration`'s, and those on the orders (`ProviderOrder` and its neighbours)
say which phase follows which on each path. The files of a candidate are written one after
another, so each property is false half-way. `LockInv` says that whoever is in a section
of the lock holds it, and `Held`, phase by phase, what the holder has read and
written so far, whatever an earlier attempt left. Moments only grow, so those of digest,
copy, application text and the source as it is lie in that order. Of each the invariant says
that the content is still that of the digest, or that it came back after it was not: when
`Compare` finds the first and the last equal, either nothing else lay there in
between or an edit was undone. What
is committed already stays as it is because only a holder whose key has no manifest gets
to write (`Uncommitted`). `RunInv` and `ReviewInv` name the one worker that may stand
between two writes when the property does not hold of the files yet.

`LiveProbeProofs` proves `SettingsArePutBack` (`SettingsPutBack`). `ProbeInv`
says where settings of the probe's own can be on their way to the file: while it waits
for them, after it gave up on the first change (then it claims nothing about restoring), or
when it says that it could not restore. `NumberInv`, that requests have numbers of
their own and no answer while they are served, makes an answered request a finished
one. `ProbeIsAClient` proves that the provider with the probe implements the
provider (`LiveSpec => Spec`), so that what holds of the provider holds while it is probed.

The assumptions are those named in the modules: keys and tasks differ from the
values that stand for none, a free lock has no worker's name, bounds and sizes are
natural numbers, the lists of the operational core keep at least one entry
(`LimitsAssumption`), contents with a `frontend/dist` are contents (`BuiltAssumption`), the paths of a tree are finitely many numbers, there is a request, the
probe's key is a key, and no tool's id is the absent one. The last was found by the proof: with a tool called None, a tool without a baseline
would be one with a baseline of that tool.

Every invariant and every action property of the passing runs, and the refinement they
check, is stated by a theorem, with `SingleClient` assumed where the run has a single
client. The liveness properties `RunEnds` and `RequestsEnd` are only model-checked: fairness
and ENABLED are beyond the proof system.

## Not modelled

Read-only endpoints, authorisation and validation of single requests; the
contents of prompts, diffs and reports; the model behind the local HTTP port
(any answer is possible); a clock that stands still (timestamps in
`GovernedOperations` strictly increase, so the order `list_history` gives to equal ones is
outside it); Windows-only sharing violations; event logs that nothing reads.

Whole components that are not modelled: the capability foundation and the local agent
core (a commit followed by an append, and a model call inside an idempotent request: their
hazards are listed); the model registry, context packs, derived project state and readiness
of waves 3 to 8, which gate nothing that `ChangeApply` models beyond the plan's digest;
learning, skills and intersystem exchange, which validate single documents; workspace core,
authorisation and read-only views, which keep no state; the application assembly; the
frontend, installers, patches and copies of sources elsewhere in the repository.

## Plan

In this order; each is a module, its MC module and a run.

1. Done: `GovernedOperations`, `ChangeApply`, `AgenticRun`, `LocalState`, `ToolQuality`,
   `GatedOperation` and `ReadOnlyOperation`, `CandidateGeneration` with its instances and
   `LiveProbe`, and their runs; proofs of the safety of each.
2. `CapabilityLedger` and `AgentPreparation`: a commit followed by an append, and
   a model call inside an idempotent request.
3. `ModelRegistry`: probe and approval of local models without a lock, composed with
   `ChangeApply` through `GeneratePlan`; the read of a target file's text and hash as two
   steps.
