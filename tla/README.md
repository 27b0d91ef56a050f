# TLA+ models of the dependency auditor

The repository is a dependency auditor built on a job service: an HTTP API
writes jobs to PostgreSQL, worker processes claim them under leases, handlers
turn a job into a result and child jobs, and the end of the last child closes
its root. Beside it lives an older in-process worker pool, which resolves Go
build lists, and the version arithmetic of the ecosystems. This directory
models these parts, checks the models with TLC and proves their safety
properties with TLAPS.

Paths below are relative to the repository. `store` is
`internal/store/postgres/service.go`, `worker` is `internal/worker/service.go`,
`ADR` is `docs/mvp/adr/0001-job-service-contracts.md`.

## 1. Inventory

| Component | State | Operations | What is hard, and what makes it correct |
|---|---|---|---|
| Job store (`store`, migrations) | `jobs`, `job_attempts`, `job_events`, `job_results`, `audit_results`, `dlq` | Submit, Claim, Heartbeat, Complete, Fail, Cancel, Retry, ReplayDLQ, ReclaimExpired, finalizeRoot | Leases expire under running handlers; late answers; several transactions decide about one root. Only the owner of the current lease writes; attempts stay within `max_attempts`; terminal jobs never change; one DLQ entry per dead-lettered job. |
| Worker service (`worker`, `cmd/worker`) | one claim in each of `Concurrency` loops, a shutdown timer | claimLoop, process, maintenanceLoop | Crashes, shutdown timeouts, heartbeats that fail, commits whose answer is lost. Every claimed job is answered or reclaimed. |
| Root finalization and Cancel | row locks and statement snapshots | the statements of finalizeRoot and Cancel | READ COMMITTED: simultaneous children do not see each other, Cancel and finalizers lock in opposite orders. A root ends exactly once, after its last descendant. |
| HTTP API (`internal/httpapi`, `cmd/api`) | none | submit, cancel, retry, replay, queries | Two clients with one idempotency key, answers that are lost. One job per key. |
| Service handlers (`internal/handlers`, `internal/auditor/service_handler.go`, `internal/worker/demo.go`) | none | Handle | Jobs that insert the same children, relationships and results in different orders, and deadlock. The audit covers the reachable packages, once each. |
| In-process pool (`internal/worker/pool.go`, `internal/queue`, `internal/dlq`, `store/postgres/postgres.go`) | channel, in-flight counter, DLQ slice, legacy rows | Submit, workerLoop, pollLoop, Done, Shutdown | Termination detection, submission against shutdown, retries and reloaded rows that reach a worker by two paths. A job is held once; Done closes when, and only when, nothing is left. |
| Go module selection (`internal/gomod`) | fetched go.mod files, load modes | Select, in rounds | Cycles, upgrades and graph pruning. The fixed point is reached and is minimal version selection. |
| Python versions (`internal/pypi/version.go`, `requirement.go`) | none | Compare, matchesClauses, ResolveVersion, EvaluateMarker | PEP 440 order and specifiers, pre-releases, marker grammar. |
| Update check (`internal/handlers/package_update_check.go`, `internal/pypi/client.go`, `internal/updater`) | none | Handle, three registry requests | The registry changes between the requests. The reported staleness is true. |
| Policy, reports | none | Check, report rendering | Table lookup and formatting. |
| Other clients, manifest parsers, web dashboard | none | HTTP, parsing, polling | Input and output. |

How they interact: the API and the workers share nothing but the database. A
worker holds a copy of the row it claimed (identifier, `locked_by`,
`lease_token`, `attempts`) and every write it makes is conditional on that
copy. Children are inserted by the transaction that completes their parent;
`finalizeRoot` runs inside the transaction that ends a child. Recovery is a
timer in every worker. The in-process pool is driven by `runChunk` of
`internal/gomod/queue.go`: each round of `Select` submits the coordinates it
misses, in chunks, and waits for `Done`.

`PROJECT.json` lists the components with their status and, under "hazards", the
places where a test would hardly reach the interesting order of events.

## 2. Modules

| Module | Models |
|---|---|
| `JobStatus` | statuses, error kinds and job types |
| `JobLifecycle` | abstract: which status may follow which, when an attempt counts |
| `JobService` | store and worker service, one step per transaction |
| `JobContract` | sentences of the ADR that the code does not keep |
| `AtomicFinalization` | abstract: the end of a child, with that of its root, and the cancellation of a tree are atomic, but for two named exceptions |
| `RootFinalization` | Complete/Fail/ReclaimExpired with finalizeRoot, and Cancel, statement by statement |
| `AuditExpansion` | Submit and Complete at the level of index entries: one audit under one key, and how it grows |
| `WorkerPool` | the in-process pool with queue, legacy store operations, poller and shutdown |
| `ModuleSelection` | the rounds of `Select`, and minimal version selection as a declarative reference |
| `PythonVersion`, `PythonMarker` | version order, specifiers and resolution; marker evaluation and, beside it, the grammar |
| `PEP440` | abstract: the order PEP 440 gives to versions, said without sort keys or comparison functions |
| `PackageUpdateCheck` | a Python update check over a registry that changes; `PythonVersion` gives its operators, and its instance adds `PythonMarker` |
| `JobServiceProofs`, `JobTreeProofs` | theorems about `JobService`: leases and attempts; roots, children and replays, and the refinement of `JobLifecycle` |
| `RootFinalizationProofs`, `AuditExpansionProofs`, `WorkerPoolProofs`, `ModuleSelectionProofs`, `PythonVersionProofs`, `PackageUpdateCheckProofs` | theorems about the module each is named after |
| `MC*` | instances for TLC |

### JobService

`jobs[j]` is the row of job `j` together with what the other tables say about
it: `runs` (job_attempts), `events` (job_events), `dlq`, `result`, `audited`.
Time is kept as what the queries ask: `leaseExpired` is
`locked_until < NOW()`, `due` is `scheduled_at <= NOW()`; `LeaseRunsOut` and
`BecomesDue` let time pass, so a lease may run out at any moment. A lease token
is the number of the claim: the code uses a fresh UUID and only compares it
with the token in the same row. `slots[s]` is what claim loop `s` remembers;
`phase = "giving_up"` is the moment between a heartbeat that was not owned and
the Fail that reports it.

| Action | Code |
|---|---|
| `Submit`, `Retry`, `ReplayDLQ` | the store methods; `Retry` and `ReplayDLQ` make a new root |
| `CancelQueued`, `CancelRunning`, `CancelWaiting` | the three cases of `Cancel`; the other statuses change nothing |
| `Claim`, `ClaimLost` | `Claim` in `claimLoop`; in `ClaimLost` the commit happens and the worker sees an error |
| `Heartbeat`, `HeartbeatNotOwned`, `HeartbeatError` | the ticker case of `process` |
| `Complete`, `HandlerFails`, `ReportCancelled`, `ShutdownTimeout` | the outcomes of `process`, each with the whole transaction behind it: attempt, event, children, DLQ entry, finalizeRoot |
| `LeaseLost`, `StoreError` | the same calls when the lease is gone or the store fails |
| `ReclaimExpired` | one run of recovery over any batch (SKIP LOCKED) |
| `Shutdown`, `Crash`, `Restart` | the worker process |

A transaction is atomic here because it either locks the one row it changes or
goes through the two places where a READ COMMITTED statement may miss what
another transaction commits. Those two get an explicit choice: `missed` in
`FinalizeRoots` (a root that is not an update scan is not locked before the
descendants are counted) and `escaped` in `CancelWaiting` (two UPDATEs, two
snapshots). `RootFinalization` is the justification: its abstraction,
`AtomicFinalization`, has the same two choices under the same conditions and no
other deviation from atomic steps.

Abstractions: `audit_package` stands for the three package audit types, which
the store treats alike. The children of a job are any set of unused
identifiers: the idempotency keys of children only decide whether a child is
new, which `AuditExpansion` treats, as it does the keys of clients. Messages,
payloads and result contents are left out.

### RootFinalization

One waiting root, its children, one transaction at a time per child and one
canceller. A statement sees the committed rows plus its transaction's writes
(`View`); an UPDATE waits for the lock of each row it matched and then looks at
the row again; `SELECT ... FOR UPDATE` locks; the foreign key of `audit_results`
makes the INSERT of an audited package wait for a canceller that holds the root,
and vice versa (`KeyShares`); of a lock cycle one transaction is the victim
(`VictimKid`, `VictimCanceller`), and its child is tried again after its lease
has expired. `AbortKid` is any other failed transaction. Recovery takes a batch
of expired jobs in one transaction (`store` lines 878-922); here each of them
has a transaction of its own. `attempted` keeps which children have been
claimed, which is all the abstraction asks of the column `attempts`.

The abstraction sees the committed statuses, the type of the root and
`attempted`, unchanged. `FinishKid` ends a child and, if nobody is active, the
root; `missed` leaves the root waiting, for a root that is not an update scan
and only if another child has ended. `CancelTree` cancels the root and its
queued descendants; `escaped` leaves out queued children, only such as have been
attempted.

### AuditExpansion

The audit itself is the row `Root`; every dependency coordinate (name and
version range) has at most one row under it, because its idempotency key is a
hash of root, ecosystem, name and range. `owner` says which open transaction has
inserted an index entry: a job's key, a relationship (parent package, child
coordinate) or a result (package, parent). An INSERT that meets the entry of
another open transaction waits; a committed entry is a conflict and changes
nothing; of transactions that wait in a circle one is aborted.

| Action | Code |
|---|---|
| `SubmitWaits`, `SubmitInserts`, `SubmitFinds`, `SubmitCommits`, `SubmitAborts` | the INSERT of `Submit`, the SELECT after a conflict, the commit whose answer may be lost, the rollback |
| `Claim`, `FetchFails` | `Claim` with the start of the handler, `Fail` with a transient or a permanent error |
| `Insert`, `InsertWaits`, `CompleteCommits`, `CompleteAborts`, `DeadlockAborts` | the statements of `Complete`, its commit, its rollback |
| `ReclaimExpired` | recovery of a job whose worker gave up |

Abstractions: the manifest has a name, so that the relationships of the root
are recorded; one ecosystem, since the keys and the indexes keep ecosystems
apart; a lease runs out only under a job nobody works on (`JobService` has the
other case); the root's end is that of `RootFinalization`, so that it stays
`waiting` here. Children come in any order, which is what ranging over a Go map
gives. A child's payload names its parent, as it does for npm and Python; the
first level of a Go audit loses it (section 6).

### WorkerPool

`status`, `attempts` and `due` are the rows (in memory: the jobs), `ch` the
dispatch channel with jobs or, in a durable run, signals. `sub` is how far a
submission has got: it is counted, then the row is inserted, then the channel
is sent to, and other goroutines run between these steps.

| Action | Code |
|---|---|
| `NewQueue` (in `Init`) | `queue.New`: rows reclaimed and reloaded, up to the call that fails |
| `SubmitBegin`, `CreateJob`, `SubmitSend`, `PersistChild` | the steps of `Submit` and `submitChild` |
| `Start`, `Abandon`, `Shutdown`, `CloseQueue` | what `runChunk` does with the pool, and the goroutine of `Shutdown` |
| `DequeueJob`, `DequeueSignal`, `HandlerRetries`, `HandlerExhausts`, `HandlerSucceeds`, `Requeue`, `FinishJob`, `CheckDone`, `WorkerExit` | `workerLoop` |
| `PollCheck`, `PollAcquire`, `PollDispatch`, `PollExit` | `pollLoop` and `dispatchReady` |
| `BecomesDue` | time passes for a row that was scheduled for later |

`slipped` holds the rows that an earlier process left, that `NewQueue` did not
load and that a signal then acquired: nothing has counted them. `Jammed` is a
full channel nobody receives from: before `Start`, or in memory when every
worker is itself sending. `StaysJammed` is the step of a pool that has stopped
there for good.

Abstractions: one process; the clock is the order in which rows become due; the
DLQ entry of a job is its status `dead_lettered`; at most `MaxFaults` calls of
the store fail, those of `NewQueue` included, and a job whose call failed is
`stranded`. A pool is one of `Setups`: with a store or in memory, some workers,
a buffer.

### ModuleSelection

One action per part of a round: `propagateLoadModes` (a pass), `Round` (select,
and find what is missing), `FetchRound`, `FetchFails`. Versions are numbers. A
pass reads the state at its start; the code's sees promotions made earlier in
the same pass, which saves passes and ends in the same modes. The reference,
`BuildList`, is the highest version of each module in the least module graph
that is closed under the pruning rules.

### PythonVersion, PythonMarker, PackageUpdateCheck

Versions, constraints and markers come parsed (segments, clauses, tokens): the
regular expressions and the tokenizer are left out. `ResolveVersion` is a set of
answers, because `sort.Slice` is not stable among spellings of one version.
`PythonMarker` has the parser as the code runs it, position by position, and the
grammar as sets of values over intervals of tokens (`OrValues`). The update
check has an action for each request, for the ways a request fails and for what
the owners of the project do to it meanwhile. It compares two readings of one
text: `ParseVersion` is that of `version.go`, `NewVersion` that of the semantic
version library of `staleness.go`, which stops at the first hyphen.
`InfoVersion` is what the metadata of a release may call it; the staleness is
about that text. All three are parameters.

## 3. Runs

| Run | Instance | Shows |
|---|---|---|
| `job_service` | 2 jobs (demo or scan), 2 loops in a process, up to 2 attempts, 1 crash or shutdown | `RetryBudget`, `AttemptHistory`, `DeadLetterEntries`, `SingleOwner`, `LeaseInv` (with `TypeOK`); `TerminalForever`, `StaleSlotsAreFenced`; refinement of `JobLifecycle` |
| `job_tree` | 3 jobs (an audit or a scan, children, grandchildren, replays), 1 loop, 2 attempts, children may be cancelled | `FinalizedRootsAreFinal`, `EndIsExplained`, `ScanNeverStuck`, `ReplaysPaired` |
| `liveness` | a scan and its check, or two scans, 2 attempts, 1 crash or shutdown, fairness | `EveryJobSettles` |
| `root_finalization` | audit or scan, 3 children (one a grandchild for audits), a canceller, 1 requeue, 1 failed transaction, fairness | `ClosedRootHasNoActiveKid`, `RowsEndOnce`; refinement of `AtomicFinalization`; for scans `ScanEnds` |
| `audit_expansion` | 2 clients with equal or different requests, 2 loops, 4 coordinates of 3 packages with a cycle, 2 attempts, 1 fault, fairness | `IdempotentSubmit`, `TablesMatchExpansion`, `AuditCoversGraph`, `AuditSettles` |
| `worker_pool` | 4 pools (durable or in memory, 1 or 2 workers, buffer 1 or 2), a submitted and a reloaded job, 1 child (in memory 2), 2 attempts, 1 failing store call at startup or later, fairness | `AttemptsSpent`, `OneHolder`, `InFlightIsExact`, `DrainedOnShutdown`, `DoneMeansIdle`, `DoneCloses`, `ShutdownReturns` |
| `module_selection` | 4 modules, one in 2 versions, every choice of their requirements, 3 prunings, fairness | `NeverAboveMVS`, `SelectionClosed`, `ExactOnSimpleGraphs`, `EdgesExplainModules`, `RoundsOnlyRise`, `SelectReturns` |
| `update_check` | 13 releases, 18 constraints on every two of them, markers of up to three comparisons, 2 attempts, 1 change of the registry, fairness | `VersionsInPEP440Order`, `SpecifierLaws`, `ResolvedIsBest`, `StalenessIsTrue`, `MarkerFollowsGrammar`, `CheckEnds` |
| `find_*` | smallest instance each | a sentence of the repository that the code breaks, see section 6 |

Why the bounds are enough: two attempts are the smallest number with a claim
after an expired lease, hence a stale loop next to a current one, and with a
job at and below its limit. Two loops give two answers to one job. Three jobs
give a root with two children that end in either order, a grandchild, and an
entry with two candidate replays. Three children of a root give a finalizer
before, between and after the others. The graph of `audit_expansion` makes two
packages insert the same two jobs in either order, so that transactions
deadlock, reaches one package through two ranges and back from itself. In
`worker_pool` a submission, a retry and a reloaded row compete for two workers;
a buffer of 1 has no room for both the reloaded row and the signal, and in
memory two children jam one worker, or two workers, that send to the channel
they receive from; the failing call may be one of `NewQueue`, after which a
signal acquires a row nobody counted. In `module_selection` a version
is superseded before and after its go.mod was read, on cycles too. Comparison
and specifiers are about one version or two, resolution about the two highest
that match. `MaxStops`, `MaxRetries`, `MaxAborts`, `MaxFaults` and `MaxChanges`
bound events that only add more of the same; `MaxAttemptsCap` is 20 in the
code. What does not depend on the bounds is proved (section 5). Job identifiers
and the loops of one process are interchangeable, so symmetry is used in the
runs of `JobService` that check no liveness property.

`CancelInternal` says whether somebody cancels a child on its own, which the
API allows to whoever knows its identifier. It is off in `liveness`, because a
child cancelled in the queue leaves its root waiting (section 6). `Scheduled`
(rows an earlier process left for later) is empty in `worker_pool` and not in
`find_early_done`, which is about such a row; the theorems are about any.

Deadlock is checked in every run. `Quiescent`, `NothingLeft` and `Terminated`
are the states in which the instance has no work left, `StaysJammed` those in
which the code itself has come to a halt.

Each property has a mutant in `PROJECT.json`: a defect of the modelled code,
kept beside the definition it replaces (`Owns_NoToken`, `FailStatus_OffByOne`,
...), with which TLC finds the property violated.

## 4. Fairness

`JobService`: some loop claims when a job is due (`claimLoop` polls every
250 ms); a handler returns and its outcome reaches the store or is lost
(registry clients have timeouts, a demo lasts at most two minutes, a late
heartbeat ends in a report); recovery runs (`maintenanceLoop`, every 5 s); time
passes; a stopped worker is started again (restart policy of the deployment).
Nothing is assumed of clients, heartbeats, errors, crashes or the shutdown
timer. A handler that fails, a claim that is lost and a store that errs for
ever are bounded only by `max_attempts`, which is why `EveryJobSettles` needs
`RetryBudget`.

`RootFinalization`: a transaction that can go on does so, queued jobs are
claimed, PostgreSQL looks for deadlocks. The canceller gets strong fairness: a
row lock has a queue of waiters, and a child that was rolled back comes back
only after its lease has expired.

`AuditExpansion`: as long as a client, a loop, the deadlock detector or the
maintenance loop can go on, one of them does. Nothing is assumed about which,
so `AuditSettles` also says that deadlocks and retries cannot go on for ever.

`WorkerPool`: every goroutine that can go on does, scheduled rows become due,
`runChunk` submits, starts and shuts down when Done closes. The poller's exit
gets strong fairness: a select with a ready channel does not choose the ticker
for ever. `ModuleSelection`: the loop runs. Nothing is assumed of a round of
fetches, whose queue may block for ever (section 6): `SelectReturns` says that
`Select` returns if its rounds do.
`PackageUpdateCheck`: a request returns or fails, since the clients have
timeouts; whether it fails is not assumed.

## 5. Proofs

Every invariant and every action property that a run checks is proved for all
values of the constants, except `MarkerFollowsGrammar`. Every inductive
invariant was first checked by TLC on the instance of its run.

| Module | Theorems | Assumption |
|---|---|---|
| `JobServiceProofs` | `LeaseInvHolds`, `TypeCorrect`, `RetryBudgetHolds`, `LeaseOnlyWhileRunningHolds`, `AttemptHistoryHolds`, `DeadLetterEntriesHold`, `SingleOwnerHolds`, `Fencing`, `TerminalForeverHolds` | `ConstantsAssumption`: distinct NULLs, a process for every loop, limits between 1 and the cap |
| `JobTreeProofs` | `TreeInvHolds`, `EndIsExplainedHolds`, `FinalizedRootsAreFinalHolds`, `ScanNeverStuckHolds`, `ReplaysPairedHolds`, `LifecycleImplemented` | the same |
| `RootFinalizationProofs` | `TxInvHolds`, `ClosedRootHasNoActiveKidHolds`, `RowsEndOnceHolds`, `OnlyCancelDeadlocks`, `AtomicInvHolds`, `FinalizersAreAtomicHolds` | `RootFinalizationAssumption` |
| `AuditExpansionProofs` | `ExpansionInvHolds`, `IdempotentSubmitHolds`, `TablesMatchExpansionHolds`, `AuditCoversGraphHolds` | `ExpansionAssumption`: coordinates have a name and a range, and are not packages |
| `WorkerPoolProofs` | `PoolInvHolds`, `AttemptsSpentHolds`, `OneHolderHolds`, `DrainedOnShutdownHolds`, `InFlightIsExactHolds`, `DoneMeansIdleHolds` | `WorkerPoolAssumption`: kinds of jobs are disjoint, every pool has a worker and a buffer |
| `ModuleSelectionProofs` | `SelectionInvHolds`, `SelectionClosedHolds`, `EdgesExplainModulesHolds`, `RoundsOnlyRiseHolds`, `SelectIsBounded`, `NeverAboveMVSHolds`, `ExactOnSimpleGraphsHolds` | `ModuleSelectionAssumption`: finitely many coordinates, each determined by module and version, versions are numbers |
| `PythonVersionProofs` | `CompareAntisymmetric`, `CompareTransitive`, `CompareIsPEP440`, `RangesAreIntervals`, `ResolveFinds`, `ResolvesToBest` | none; the versions are as `ParseVersion` makes them |
| `PackageUpdateCheckProofs` | `CheckInvHolds`, `VersionsInPEP440OrderHolds`, `ResolvedIsBestHolds`, `SpecifierLawsHold`, `StalenessIsTrueHolds`, `RequestsAreBounded` | `UpdateCheckAssumption`: finitely many releases, constraints that parse, `NewVersion` reads the leading numbers that `ParseVersion` reads and nothing but a pre-release after them, `Rank` numbers the releases in the order of `PEP440` |

Theorems named after a property (`...Holds`, `...Hold`) state `Spec => []P`, or
`Spec => P` for an action property; `Fencing` states `StaleSlotsAreFenced`.

No theorem has a hypothesis beyond these assumptions; where the code keeps a
promise only under a condition, the condition is part of the property. The
count of the pool is too low by the rows that slipped in, and by nothing else
(`InFlightIsExact`); Done closes in time while there are none
(`DoneMeansIdle`). A staleness is true of versions that both libraries read
alike (`ReadAlike`). `Rank`, the reference of the properties about versions, is
tied to `Precedes` of `PEP440` by an assumption, which TLC evaluates for the
releases of the run; that the code's `Compare` agrees with it is proved.

### Leases (`JobServiceProofs`)

None of the properties is inductive alone: `RetryBudget` needs to
know that the attempt a loop reports (`slots[s].attempts`, from its copy of the
row) is the one of the row, which is true only for a loop that owns the row;
`SingleOwner` needs to know that two loops never remember the same claim.
`LeaseInv` says so. For a row (`RowInv`): the token of a running job is the
number of its last claim, every other job has no lease, the open attempt is the
current one, a queued job has an attempt left. For a loop (`SlotInv`): it
remembers a claim that was made, and if that claim is current the row names its
process. Between loops: no two remember the same claim of one job. The proof
has a lemma for each thing a transaction does to a row (`ClaimedGood`,
`LeftGood`, `FailedGood`, `ReclaimedGood`, `CancelRowGood`, `FinalizedGood`:
the new row satisfies `RowInv`), two lemmas for loops (`NoNewLease`: a step
that starts no claim and keeps or clears tokens preserves the invariant;
`NewLease`: a claim does), and then one step per action. `Fencing` and
`TerminalForever` are action properties that follow from `LeaseInv` and a look
at each action.

### Trees of jobs (`JobTreeProofs`)

`TreeInv` adds what the properties about roots rest on: every row belongs to the
tree of a root, only roots wait, a root has no descendants before it waits
(`TreeShape`), a row whose last error is a cancellation is cancelled, and a row
that waits, or has waited, never runs again (`EndInv`). The last error of a
completed row is explained by its attempts: it is there exactly if one of them
failed or was abandoned (`Spoiled`) and the row never waited. A cancelled row
without an event or an expired lease has a cancelled root (`CancelExplained`),
which is about two rows and preserved because a root, once cancelled, stays so
(`Cancels` in the step that the proof takes for every action). Without
`TreeShape` a completed job could be the root of somebody else's children and
`FinalizedRootsAreFinal` would not survive the insertion of a child.
`FinalizedRootsAreFinal` and `ScanNeverStuck` then depend on the same fact about
`FinalizeRoots`: it closes a root exactly when no descendant is active, and may
miss only roots that are not update scans. `LifecycleImplemented` is the
refinement of `JobLifecycle`: initial states map to initial states, and every
action is a step of the abstract specification or leaves the statuses and
attempts alone.

### Transactions (`RootFinalizationProofs`)

`TxInv` is a locking invariant. A child's transaction holds the lock of its row,
which stays running until it commits (`KidInv`); who has written the root holds
its lock while it waits; once a finalizer has counted no active child there is
none until it commits, because new rows come from active children only. For
update scans the lock on the root is held from the count to the commit, so that
what was counted stays true (`ScanInv`). The canceller holds the root from its
first statement to its commit (`CancelInv`). `RowsEndOnce` follows.

The refinement of `AtomicFinalization` covers both types of root and needs more.
`EndInv`: a transaction writes to the root the outcome of the very children it
commits (also for audits, whose finalizers hold no lock while they tally:
whoever has counted no active child is the last one, and the others have ended
for good); a child that leaves the root waiting has a sibling; and children are
inserted only while the canceller does not hold the root. `EscapeInv`: a queued
child that the canceller's first UPDATE has passed by was running then, so it
has been attempted. A commit then is one abstract step, and every other
statement a stutter. Had `AtomicFinalization` no `missed` step, the refinement
would fail for audits, which is what `find_missed_root` shows.

`OnlyCancelDeadlocks` is about the order of locks. A child's row is locked by
its own transaction or by the canceller, and a child that has locked the root
asks for no other lock (`LockInv`). So a circle of waiting transactions cannot
consist of children: it contains the canceller, which holds the root, and the
child it waits for waits for the root. `Deadlocked` in the model is therefore
all that a deadlock detector has to find. That a transaction that does not wait
can take its next step (the guards of `KidStep` and `CancelStep`) is about
ENABLED and stays with TLC, which checks `root_finalization` for deadlock.

### Index entries (`AuditExpansionProofs`)

`ExpansionInv` says of every entry that it is owned by an open transaction or
committed, never both; that what a transaction owns belongs to its job; that
what it has dealt with is its own or committed (`WorkInv`). This is what makes
an INSERT that conflicts harmless: the entry it found is committed, so the
commit of the job completes its part of the tables (`TablesInv`) although it
inserted less than it lists. `ReachInv` says that every job's package lies in
every set closed under requirements, from which `AuditCoversGraph` follows
without a definition of reachability by induction.

### The pool (`WorkerPoolProofs`)

`PoolInv` says where a job can be, by its status and the progress of its
submission: in the channel, with the poller, at one worker, waiting as a row, or
stranded by a store that failed (`JobInv`, `WorkerInv`), and who may still send
when the queue closes (`PhaseInv`). `CountInv` says that, until the shutdown
starts, `inFlight` is the number of jobs that are counted or in the channel,
less those that slipped in; a submission is counted before its row exists, and a
retry stays counted while it waits, which is why Done cannot close between them.
`NewQueueFacts` treats the start: whatever part of the rows was reclaimed and
loaded, the channel holds each loaded row once and is all that is counted.
`AttemptsSpent` is inductive because the job a worker handles is running, so
that it has an attempt left to report.

### Module selection (`ModuleSelectionProofs`)

`SelectionInv`: why a module has its load mode, what a round selected stays
required, and everything that is read or loaded lies in every set that is
closed in the sense of the reference (`WithinGraph`). The last is
minimality without induction over rounds: since `BuildList` takes the least
closed set, nothing above it can be selected. That a finite set of coordinates
has a highest version is proved from the well-foundedness of set inclusion
(`HighestOfAll`), since the induction theorems of the library cannot be used
here. `HighestIsFound` adds that a module with a coordinate is selected in some
version, so that an edge never leads to a module without one.

`SelectIsBounded` is the safety half of `SelectReturns`: three for each go.mod
not fetched, one for each module not loaded in full, and the steps left in the
turn make a number that every step lowers. A pass that changes something
promotes a module, a fetch brings a file that was missing, and the other steps
go on in the turn.

### Versions and the update check

`PythonVersionProofs` treats every comparison of `Compare` as the first
difference between two sequences (`First`), which is unique, changes sign when
its arguments are swapped and is transitive if the comparison of elements is
(`FirstOpposite`, `FirstChained`); release numbers, local segments, the
pre-release key and `Compare` itself are instances. `ResolveVersion` then has an
answer whenever something matches (`HighestVersion`, by the same argument as
`HighestOfAll`).

`PEP440` says which of two versions comes first by existence of a first
difference, by phases and by what each suffix precedes or follows, and shares no
definition with `PythonVersion`. `CompareIsPEP440` connects the two part by part
(`ReleaseMeaning`, `PhaseMeaning`, `SuffixMeaning`, `LocalMeaning`): the code's
numeric key for the phase, its defaults for missing suffixes and its padded
loops say the same. `RangesAreIntervals` has to deal with
`compareSpecifierVersion`, which drops local segments of one side only:
`SpecifierOrder` shows that it respects the order of `Compare` all the same.

`CheckInv` says that `current` was resolved from the last answer of the registry
while the check waits for the release, and that the last answer still stands
when it is done. `StalenessIsTrue` needs, beyond it, what the two readings of a
text have to do with each other (`SemverReading`, `AlikeReading`): a level above
a version that both read alike is a higher version of PEP 440
(`LevelIsHigher`), and "up to date" with such a version is not
(`UpToDateIsNotHigher`); transitivity passes from the latest release to every
other stable one. `RequestsAreBounded` is the safety half of `CheckEnds`: three
requests for each attempt left and those left in this one.

### Only model-checked

* Liveness: `EveryJobSettles`, `ScanEnds`, `AuditSettles`, `DoneCloses`,
  `ShutdownReturns`, `SelectReturns`, `CheckEnds`. The prover does not treat
  fairness; for the last two it shows the measure that every step lowers.
* `MarkerFollowsGrammar`: the marker parser is recursive, and what a recursive
  definition computes for every input is beyond the prover. `PackageUpdateCheck`
  takes the evaluation of a marker as a parameter (`MarkerResult`), so that its
  theorems hold for any; the run gives it `EvaluateMarker` of `PythonMarker`.
* The violations of section 6.

## 6. Findings

Four sentences of the repository are not kept by its code; TLC shows the
shortest history for each.

* `find_heartbeat_error`: a database error during a heartbeat is taken for a
  requested cancellation (`worker`, lines 184-191); the job ends `cancelled`.
* `find_missed_root`: `finalizeRoot` serializes the finalizers of update scans
  only; an audit whose last two children end together waits for ever.
* `find_early_done`: a row that an earlier process scheduled for later and that
  is taken through another job's signal is subtracted from the in-flight count
  without having been added; Done closes while the submitted job is waiting
  (`internal/worker/pool.go`, line 197).
* `find_build_list`: a version that is superseded before its go.mod was fetched
  drops its requirements, so that the result is not always the build list of
  minimal version selection (`internal/gomod/selection.go`, line 123).

Other divergences and sharp edges met while modelling, without a run of their
own.

In the job service, part of the model and visible in its actions:

* Cancel of a queued child does not call `finalizeRoot`; if it was the last one
  the root waits (`store` line 703, ADR line 362).
* A child that is requeued between the two UPDATEs of Cancel is neither
  cancelled nor asked to stop (`store` line 714, ADR line 314).
* A child that was running when its root was cancelled may complete and insert
  pending children (ADR line 372).
* `Complete` keeps the `last_error` of an earlier attempt, although "A completed
  job cannot contain an error" (ADR line 171).
* Cancel of a root writes no event for its descendants (ADR line 173).
* The result row of an update scan is written when the scan starts to wait and
  stays if it fails or is cancelled (ADR line 398).

  Of these three `EndIsExplained` states what the code does: the error of a
  completed job is that of a failed attempt, and goes when `finalizeRoot`
  completes a job that waited; a cancelled job without an event has a cancelled
  root; the result of a scan is there once it has waited, and not before.
* Registry status 500 is a permanent failure; 429, 502, 503 and 504 are not.

In the in-process pool:

* A failed `CreateJob` lowers the count without looking whether it reached zero;
  a failed `RetryJob` is only logged and leaves it above zero. Either way Done
  never closes and the caller's context has to end the wait.
* A failed `ReclaimStuckJobs` or `AcquireJob` in `queue.New` is only logged
  (`internal/queue/queue.go`, lines 44-46 and 54-57). Rows left due and not
  counted may be acquired through a submission's signal, as the scheduled row
  of `find_early_done` is: the count is then too low, and Done closes early, or
  never, because two jobs end before either looks whether the count is zero.
* `runChunk` submits the chunk before it starts the pool; rows reloaded from an
  earlier process share the channel, and if they fill it Submit blocks for ever:
  `queue.Submit` looks at no context, and nobody closes the queue.
* In memory a worker submits children into the channel it receives from. When it
  is full and every worker does so, they wait for each other; Shutdown does not
  end it, because the queue is closed only after the submissions have returned.
  It returns when its context ends and leaves the goroutines behind. The comment
  of `Close` says that closing "first releases senders blocked on a full
  channel", which holds for a requeue and not for a child.
* These are the exceptions of `DoneCloses` (`stranded`, `slipped`, `Jammed`) and
  of `ShutdownReturns`.
* The poller ends when Done closes, so that a later submission's retries are
  not polled. In memory, a job that is requeued after the queue was closed is
  lost.
* `ReclaimStuckJobs` takes every running row, whoever runs it: the pool assumes
  that it is alone.

In the version arithmetic:

* "1.0-1" is read as release 1.0.1 and not as a post-release
  (`internal/pypi/version.go`, lines 66-68 are never reached);
  "<1.0.dev1" excludes 1.0.dev0; wildcards and "~=" do not pad with zeros.
* "~=" counts dots instead of release numbers (`internal/pypi/version.go`, lines
  297-303): "~=1.dev1" is accepted, though its error message "requires at least
  two release segments", and means ">=1.dev1, ==1.*"; "~=1-1" is refused, which
  elsewhere is release 1.1.
* `staleness.go` reads what follows a hyphen as a pre-release, so that 1.0-1,
  1.0-post1 or 1-5 as the latest of 1.0 is "up_to_date", although `version.go`
  reads a higher release and chose it as such.
* A "===" in a marker is split into "==" and "=", and refused, although
  `parseOperator` lists it.

In the audit of Go modules:

* The root's children are written with `parent_name`
  (`internal/handlers/dependency_audit.go`, line 49) and read with `parentName`
  (`internal/handlers/go_service_handler.go`, line 35): first-level results of a
  Go audit have no parent.

## 7. Plan

Done: `JobService` with its abstraction, `RootFinalization` with its
abstraction, `AuditExpansion`, `WorkerPool`, `ModuleSelection`, the Python
modules with PEP 440's order and the update check, and the proofs of their
safety properties.

Left: measures behind the other liveness properties (claims and requeues of
`JobService` and `AuditExpansion`, submissions and retries of `WorkerPool`),
where several actors share the bound; the marker parser against its grammar,
which needs an induction over token sequences; the npm and Go branches of the
update check.

### Not modelled

The npm, Go proxy and GitHub clients, the manifest parsers, report rendering,
the dashboard, the read-only queries, `RegisterWorker` and `WorkerHeartbeat`.
They keep no state that the modelled parts depend on: what a client or a parser
may answer is a choice in the actions that call it. The npm and Go branches of
the update check have the control flow of the Python one with another version
library. The license policy is a table lookup; its verdict is stored and not
read again. Tokenizers and regular expressions turn text into the parsed form
at which the models begin; a model of them would be a transliteration.
