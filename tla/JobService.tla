----------------------------- MODULE JobService -----------------------------
(***************************************************************************)
(* The job service: the jobs table of internal/store/postgres/service.go   *)
(* with the rows other tables hold about each job, and the claim loops of  *)
(* internal/worker/service.go that work on it.                             *)
(*                                                                         *)
(* Every transaction of the store is one step.  Transactions that change   *)
(* one row are ordered by its lock.  The two that look at several rows get *)
(* an explicit choice of what their READ COMMITTED statements may miss:    *)
(* finalizeRoot (see FinalizeRoots) and the cancellation of a root (see    *)
(* CancelWaiting).  Module RootFinalization looks inside these two.        *)
(***************************************************************************)
EXTENDS Integers, FiniteSets, JobStatus

CONSTANTS
    JobIds,         \* identifiers job.NewJobID may hand out
    NoJob,          \* SQL NULL in a column of job identifiers
    Slots,          \* claim loops, Concurrency of them in each worker process
    Workers,        \* worker processes
    NoWorker,       \* SQL NULL in locked_by
    WorkerOf,       \* the process a claim loop runs in
    Submitted,      \* the job types clients submit
    AttemptLimits,  \* the maxAttempts clients ask for
    MaxAttemptsCap, \* no client may ask for more (20 in the code)
    MaxStops,       \* bound on worker crashes and shutdowns
    CancelInternal  \* whether the operator also cancels internal children

ASSUME ConstantsAssumption ==
    /\ NoJob \notin JobIds
    /\ NoWorker \notin Workers
    /\ WorkerOf \in [Slots -> Workers]
    /\ Submitted \subseteq PublicTypes
    /\ MaxAttemptsCap \in Nat
    /\ AttemptLimits \subseteq 1..MaxAttemptsCap
    /\ MaxStops \in Nat
    /\ CancelInternal \in BOOLEAN

VARIABLES
    jobs,           \* the database: one row per identifier
    slots,          \* what each claim loop is processing
    up,             \* whether a worker process takes new jobs
    stops           \* crashes and shutdowns so far

vars == <<jobs, slots, up, stops>>

-----------------------------------------------------------------------------
(***************************************************************************)
(* A row.  locked_until and scheduled_at are kept as what the queries ask  *)
(* of them: leaseExpired is locked_until < NOW(), due is                   *)
(* scheduled_at <= NOW().  completed_at and cancel_requested_at are kept   *)
(* as whether they are set.                                                *)
(*                                                                         *)
(* runs holds the job's rows of job_attempts, events the event types among *)
(* its rows of job_events, dlq the number of its rows in dlq, result and   *)
(* audited whether it has a row in job_results and in audit_results.       *)
(*                                                                         *)
(* A lease token is a fresh UUID and is only ever compared with the token  *)
(* of the same row, so any value this row has not had before stands for    *)
(* one; 0 is NULL.                                                         *)
(***************************************************************************)
RunStatus == {"none", "running", "completed", "retry_scheduled", "failed",
              "dead_lettered", "cancelled", "abandoned"}

EventTypes == Active \cup Terminal \cup
    {"submitted", "started", "cancellation_requested", "lease_expired", "replayed"}

Row == [status          : Status,
        type            : JobTypes,
        root            : JobIds \cup {NoJob},
        attempts        : 0..MaxAttemptsCap,
        maxAttempts     : 0..MaxAttemptsCap,
        due             : BOOLEAN,
        lockedBy        : Workers \cup {NoWorker},
        leaseToken      : 0..MaxAttemptsCap,
        leaseExpired    : BOOLEAN,
        cancelRequested : BOOLEAN,
        lastError       : ErrorKinds \cup {"none"},
        completedAt     : BOOLEAN,
        runs            : [1..MaxAttemptsCap -> RunStatus],
        events          : SUBSET EventTypes,
        dlq             : Nat,
        replayedAs      : JobIds \cup {NoJob},
        replayedFrom    : JobIds \cup {NoJob},
        result          : BOOLEAN,
        audited         : BOOLEAN]

(* The row of a job that has just been inserted. *)
NewRow(type, root, max, events) ==
    [status |-> "pending", type |-> type, root |-> root, attempts |-> 0,
     maxAttempts |-> max, due |-> TRUE, lockedBy |-> NoWorker, leaseToken |-> 0,
     leaseExpired |-> FALSE, cancelRequested |-> FALSE, lastError |-> "none",
     completedAt |-> FALSE, runs |-> [n \in 1..MaxAttemptsCap |-> "none"],
     events |-> events, dlq |-> 0, replayedAs |-> NoJob, replayedFrom |-> NoJob,
     result |-> FALSE, audited |-> FALSE]

NoRow == [NewRow("demo", NoJob, 0, {}) EXCEPT !.status = "absent"]

Fresh == {j \in JobIds : jobs[j].status = "absent"}

IsRoot(j) == jobs[j].root = j

-----------------------------------------------------------------------------
(***************************************************************************)
(* What the transactions do to one row.                                    *)
(***************************************************************************)

(* Defect: the lease token of a re-claimed job is not renewed. *)
Claimed_SameToken(row, w) ==
    [row EXCEPT !.status = "running",
                !.attempts = row.attempts + 1,
                !.lockedBy = w,
                !.leaseToken = 1,
                !.leaseExpired = FALSE,
                !.runs = [row.runs EXCEPT ![row.attempts + 1] = "running"],
                !.events = row.events \cup {"started"}]

(* UPDATE ... SET status='running' and the 'running' row of job_attempts.  *)
Claimed(row, w) ==
    [row EXCEPT !.status = "running",
                !.attempts = row.attempts + 1,
                !.lockedBy = w,
                !.leaseToken = row.attempts + 1,
                !.leaseExpired = FALSE,
                !.runs = [row.runs EXCEPT ![row.attempts + 1] = "running"],
                !.events = row.events \cup {"started"}]

(* Defect: the lease columns are cleared only in terminal statuses. *)
Left_KeepsLease(row, st, n, run, event) ==
    [row EXCEPT !.status = st,
                !.lockedBy = IF st \in Terminal THEN NoWorker ELSE row.lockedBy,
                !.leaseToken = IF st \in Terminal THEN 0 ELSE row.leaseToken,
                !.leaseExpired = FALSE,
                !.completedAt = st \in Terminal,
                !.runs = [row.runs EXCEPT ![n] = run],
                !.events = row.events \cup {event},
                !.dlq = IF st = "dead_lettered" THEN row.dlq + 1 ELSE row.dlq]

(* What Complete, Fail and ReclaimExpired share: the lease is cleared, the *)
(* attempt is closed, and completed_at is set iff the status is terminal.  *)
Left(row, st, n, run, event) ==
    [row EXCEPT !.status = st,
                !.lockedBy = NoWorker,
                !.leaseToken = 0,
                !.leaseExpired = FALSE,
                !.completedAt = st \in Terminal,
                !.runs = [row.runs EXCEPT ![n] = run],
                !.events = row.events \cup {event},
                !.dlq = IF st = "dead_lettered" THEN row.dlq + 1 ELSE row.dlq]

(* Complete: last_error stays what an earlier attempt left there. *)
Completed(row, st, n, withResult) ==
    [Left(row, st, n, "completed", st) EXCEPT
        !.result = \/ row.result
                   \/ (withResult /\ (st = "completed" \/ row.type = "dependency_update_scan")),
        !.audited = row.audited \/ (withResult /\ row.type = "audit_package")]

(* Defect: the last attempt is followed by another one. *)
FailStatus_OffByOne(kind, n, max) ==
    CASE kind = "cancelled" -> "cancelled"
      [] kind = "transient" -> IF n <= max THEN "retry_scheduled" ELSE "dead_lettered"
      [] kind = "permanent" -> "failed"

(* The status Fail gives a job whose n-th attempt failed. *)
FailStatus(kind, n, max) ==
    CASE kind = "cancelled" -> "cancelled"
      [] kind = "transient" -> IF n < max THEN "retry_scheduled" ELSE "dead_lettered"
      [] kind = "permanent" -> "failed"

(* Defect: the failure of an attempt is logged as the failure of the job. *)
Failed_LogsFailure(row, kind, n) ==
    LET st == FailStatus(kind, n, row.maxAttempts)
    IN  [Left(row, st, n, st, "failed") EXCEPT
            !.due = IF st = "retry_scheduled" THEN FALSE ELSE row.due,
            !.lastError = kind]

(* Fail: a retry is due after its backoff. *)
Failed(row, kind, n) ==
    LET st == FailStatus(kind, n, row.maxAttempts)
    IN  [Left(row, st, n, st, st) EXCEPT
            !.due = IF st = "retry_scheduled" THEN FALSE ELSE row.due,
            !.lastError = kind]

(* The status ReclaimExpired gives a job whose lease ran out. *)
ReclaimStatus(row) ==
    CASE row.cancelRequested                -> "cancelled"
      [] row.attempts >= row.maxAttempts /\ ~ row.cancelRequested -> "dead_lettered"
      [] OTHER                              -> "pending"

(* Defect: the abandoned attempt stays 'running'. *)
Reclaimed_OpenAttempt(row) ==
    [Left(row, ReclaimStatus(row), row.attempts, "running", "lease_expired") EXCEPT
        !.lastError = "transient"]

(* Defect: recovery gives up on a job without a DLQ entry. *)
Reclaimed_NoEntry(row) ==
    [Left(row, ReclaimStatus(row), row.attempts, "abandoned", "lease_expired") EXCEPT
        !.lastError = "transient",
        !.dlq = row.dlq]

Reclaimed(row) ==
    [Left(row, ReclaimStatus(row), row.attempts, "abandoned", "lease_expired") EXCEPT
        !.lastError = "transient"]

CancelRow(row) ==
    [row EXCEPT !.status = "cancelled", !.cancelRequested = TRUE, !.completedAt = TRUE]

-----------------------------------------------------------------------------
(***************************************************************************)
(* finalizeRoot.                                                           *)
(***************************************************************************)
Descendants(table, r) == {c \in JobIds \ {r} : table[c].root = r}

(* Defect: a child that waits for its retry is not counted as active. *)
HasActive_NotRetries(table, r) ==
    \E c \in Descendants(table, r) : table[c].status \in {"pending", "running", "waiting"}

HasActive(table, r) == \E c \in Descendants(table, r) : table[c].status \in Active

Outcome(table, r) ==
    LET ends == {table[c].status : c \in Descendants(table, r)}
    IN  IF "dead_lettered" \in ends THEN "dead_lettered"
        ELSE IF ends \cap {"failed", "cancelled"} # {} THEN "failed"
        ELSE "completed"

Finalized(row, st) ==
    [row EXCEPT !.status = st,
                !.completedAt = TRUE,
                !.lastError = CASE st = "dead_lettered" -> "transient"
                                [] st = "failed"        -> "permanent"
                                [] OTHER                -> "none",
                !.result = row.result \/ (st = "completed" /\ row.type # "dependency_update_scan"),
                !.dlq = IF st = "dead_lettered" THEN row.dlq + 1 ELSE row.dlq,
                !.events = row.events \cup {st}]

(* Defect: the status of the root is not checked again. *)
FinalizeRoots_AnyStatus(table, rs, missed) ==
    [j \in JobIds |->
        IF j \in rs \ missed /\ ~ HasActive(table, j)
        THEN Finalized(table[j], Outcome(table, j))
        ELSE table[j]]

(* finalizeRoot for every root in rs.  Only the finalizers of an update    *)
(* scan lock the root before they count; another root may be missed,       *)
(* because the count still sees as running a sibling whose transaction     *)
(* committed in the meantime.  missed is the set of roots this happens to. *)
FinalizeRoots(table, rs, missed) ==
    [j \in JobIds |->
        IF j \in rs \ missed /\ table[j].status = "waiting" /\ ~ HasActive(table, j)
        THEN Finalized(table[j], Outcome(table, j))
        ELSE table[j]]

(* Defect: the finalizers of an update scan do not lock the root either. *)
Missable_NoLock(table, rs) ==
    {r \in rs : \E c \in Descendants(table, r) : jobs[c].status \in Terminal
                                                   /\ table[c].status \in Terminal}

(* The roots a finalizer may miss: no lock on the root, and a sibling of   *)
(* the job at hand that has finished, maybe while the finalizer counted.   *)
Missable(table, rs) ==
    {r \in rs : /\ table[r].type # "dependency_update_scan"
                /\ \E c \in Descendants(table, r) : jobs[c].status \in Terminal
                                                      /\ table[c].status \in Terminal}

-----------------------------------------------------------------------------
Idle == [job |-> NoJob, token |-> 0, attempts |-> 0, phase |-> "idle"]

Init ==
    /\ jobs = [j \in JobIds |-> NoRow]
    /\ slots = [s \in Slots |-> Idle]
    /\ up = [w \in Workers |-> TRUE]
    /\ stops = 0

(***************************************************************************)
(* The client API.                                                         *)
(***************************************************************************)
Submit(j, type, max) ==
    /\ j \in Fresh
    /\ jobs' = [jobs EXCEPT ![j] = NewRow(type, j, max, {"submitted"})]
    /\ UNCHANGED <<slots, up, stops>>

(* Defect: the failed job is queued again in place. *)
Retry_InPlace(src, j, max) ==
    /\ jobs[src].status \in {"failed", "dead_lettered"}
    /\ jobs' = [jobs EXCEPT ![src] = NewRow(jobs[src].type, src, max, {"submitted"})]
    /\ UNCHANGED <<slots, up, stops>>

(* Retry: a new root for a failed job; no attempt limit means the limit of *)
(* the source.                                                             *)
Retry(src, j, max) ==
    /\ jobs[src].status \in {"failed", "dead_lettered"}
    /\ max \in AttemptLimits \cup {jobs[src].maxAttempts}
    /\ Submit(j, jobs[src].type, max)

(* Defect: replayed_as_job_id is not looked at. *)
ReplayDLQ_Again(src, j, max) ==
    /\ j \in Fresh
    /\ jobs[src].dlq > 0
    /\ IsRoot(src)
    /\ jobs' = [jobs EXCEPT
                    ![j] = [NewRow(jobs[src].type, j, max, {"submitted", "replayed"}) EXCEPT
                                !.replayedFrom = src],
                    ![src] = [jobs[src] EXCEPT !.replayedAs = j]]
    /\ UNCHANGED <<slots, up, stops>>

(* ReplayDLQ: internal jobs have no entry a client could name, and an entry *)
(* is replayed once.                                                        *)
ReplayDLQ(src, j, max) ==
    /\ j \in Fresh
    /\ jobs[src].dlq > 0
    /\ IsRoot(src)
    /\ jobs[src].replayedAs = NoJob
    /\ jobs' = [jobs EXCEPT
                    ![j] = [NewRow(jobs[src].type, j, max, {"submitted", "replayed"}) EXCEPT
                                !.replayedFrom = src],
                    ![src] = [jobs[src] EXCEPT !.replayedAs = j]]
    /\ UNCHANGED <<slots, up, stops>>

Cancellable(j) == CancelInternal \/ IsRoot(j)

(* Cancel of a queued job: no finalizeRoot follows. *)
CancelQueued(j) ==
    /\ Cancellable(j)
    /\ jobs[j].status \in Queued
    /\ jobs' = [jobs EXCEPT ![j] =
                    [CancelRow(jobs[j]) EXCEPT !.events = @ \cup {"cancellation_requested", "cancelled"}]]
    /\ UNCHANGED <<slots, up, stops>>

CancelRunning(j) ==
    /\ Cancellable(j)
    /\ jobs[j].status = "running"
    /\ jobs' = [jobs EXCEPT ![j].cancelRequested = TRUE,
                            ![j].events = @ \cup {"cancellation_requested"}]
    /\ UNCHANGED <<slots, up, stops>>

(* Descendants of root j that have left "running" for the queue.           *)
Requeued(j) ==
    {c \in Descendants(jobs, j) : jobs[c].status \in Queued /\ jobs[c].attempts > 0}

(* Cancel of a waiting root: its queued and running descendants too, but   *)
(* job_events gets rows for the root only.  One UPDATE takes the queued    *)
(* and a later one the running descendants; escaped are those that went    *)
(* back to the queue in between.                                           *)
CancelWaiting(j, escaped) ==
    /\ jobs[j].status = "waiting"
    /\ escaped \subseteq Requeued(j)
    /\ jobs' = [c \in JobIds |->
                  IF c = j
                  THEN [CancelRow(jobs[j]) EXCEPT
                            !.events = jobs[j].events \cup {"cancellation_requested", "cancelled"}]
                  ELSE IF jobs[c].root # jobs[j].root \/ c \in escaped
                       THEN jobs[c]
                  ELSE IF jobs[c].status \in Queued \cup {"waiting"}
                       THEN CancelRow(jobs[c])
                  ELSE IF jobs[c].status = "running"
                       THEN [jobs[c] EXCEPT !.cancelRequested = TRUE]
                  ELSE jobs[c]]
    /\ UNCHANGED <<slots, up, stops>>

-----------------------------------------------------------------------------
(***************************************************************************)
(* The claim loops.                                                        *)
(***************************************************************************)
Claimable(j) == jobs[j].status \in Queued /\ jobs[j].due

(* Claim commits and the loop starts to process the job. *)
Claim(s, j) ==
    /\ up[WorkerOf[s]]
    /\ slots[s] = Idle
    /\ Claimable(j)
    /\ jobs' = [jobs EXCEPT ![j] = Claimed(jobs[j], WorkerOf[s])]
    /\ slots' = [slots EXCEPT ![s] = [job |-> j, token |-> jobs'[j].leaseToken,
                                      attempts |-> jobs'[j].attempts, phase |-> "handling"]]
    /\ UNCHANGED <<up, stops>>

(* Claim commits, but tx.Commit reports an error (the connection broke, or *)
(* the worker's context was cancelled): the loop drops the job it owns.    *)
ClaimLost(s, j) ==
    /\ up[WorkerOf[s]]
    /\ slots[s] = Idle
    /\ Claimable(j)
    /\ jobs' = [jobs EXCEPT ![j] = Claimed(jobs[j], WorkerOf[s])]
    /\ UNCHANGED <<slots, up, stops>>

(* Defect: the fencing token is not compared. *)
Owns_NoToken(s) ==
    LET row == jobs[slots[s].job]
    IN  /\ slots[s].job # NoJob
        /\ row.status = "running"
        /\ row.lockedBy = WorkerOf[s]

(* The ownership predicate every write of a worker carries. *)
Owns(s) ==
    LET row == jobs[slots[s].job]
    IN  /\ slots[s].job # NoJob
        /\ row.status = "running"
        /\ row.lockedBy = WorkerOf[s]
        /\ row.leaseToken = slots[s].token

(* Heartbeat extends the lease of a job nobody asked to cancel, even of    *)
(* one whose lease has run out, if it has not been reclaimed yet.          *)
Heartbeat(s) ==
    /\ slots[s].phase = "handling"
    /\ Owns(s)
    /\ ~ jobs[slots[s].job].cancelRequested
    /\ jobs' = [jobs EXCEPT ![slots[s].job].leaseExpired = FALSE]
    /\ UNCHANGED <<slots, up, stops>>

GivesUp(s) ==
    /\ slots' = [slots EXCEPT ![s].phase = "giving_up"]
    /\ UNCHANGED <<jobs, up, stops>>

(* Heartbeat updates no row: the worker will report a cancellation. *)
HeartbeatNotOwned(s) ==
    /\ slots[s].phase = "handling"
    /\ Owns(s) => jobs[slots[s].job].cancelRequested
    /\ GivesUp(s)

(* Heartbeat fails, which process treats like a heartbeat that updated no  *)
(* row.                                                                    *)
HeartbeatError(s) ==
    /\ slots[s].phase = "handling"
    /\ GivesUp(s)

Returns(s) ==
    /\ slots' = [slots EXCEPT ![s] = Idle]
    /\ UNCHANGED <<up, stops>>

(* Defect: only a child that completes finalizes its root. *)
Settle_OnlyCompleted(j, row, kids) ==
    LET child == NewRow(ChildType(jobs[j].type), jobs[j].root, jobs[j].maxAttempts, {})
        table == [c \in JobIds |-> IF c = j THEN row ELSE IF c \in kids THEN child ELSE jobs[c]]
        rs == IF row.status = "completed" /\ ~ IsRoot(j) THEN {row.root} ELSE {}
    IN  \E missed \in SUBSET Missable(table, rs) : jobs' = FinalizeRoots(table, rs, missed)

(* The job, its new children and its root once the job has left "running". *)
Settle(j, row, kids) ==
    LET child == NewRow(ChildType(jobs[j].type), jobs[j].root, jobs[j].maxAttempts, {})
        table == [c \in JobIds |-> IF c = j THEN row ELSE IF c \in kids THEN child ELSE jobs[c]]
        rs == IF row.status \in Terminal /\ ~ IsRoot(j) THEN {row.root} ELSE {}
    IN  \E missed \in SUBSET Missable(table, rs) : jobs' = FinalizeRoots(table, rs, missed)

(* The handler returns a result and kids, the children that are new: the   *)
(* idempotency key of a child is derived from its root and its coordinate, *)
(* so that a root's own children always are, a child's maybe not.          *)
Complete(s, kids, withResult) ==
    LET j == slots[s].job
        st == IF kids # {} /\ IsRoot(j) THEN "waiting" ELSE "completed"
    IN  /\ slots[s].phase = "handling"
        /\ Owns(s)
        /\ kids # {} => ChildType(jobs[j].type) # "none"
        /\ jobs[j].type # "demo" => withResult
        /\ Settle(j, Completed(jobs[j], st, slots[s].attempts, withResult), kids)
        /\ Returns(s)

FailJob(s, kind) ==
    /\ Owns(s)
    /\ Settle(slots[s].job, Failed(jobs[slots[s].job], kind, slots[s].attempts), {})
    /\ Returns(s)

(* The handler returns an error, or the type has no handler. *)
HandlerFails(s, kind) ==
    /\ slots[s].phase = "handling"
    /\ kind \in {"transient", "permanent"}
    /\ FailJob(s, kind)

(* After a heartbeat that was not owned. *)
ReportCancelled(s) ==
    /\ slots[s].phase = "giving_up"
    /\ FailJob(s, "cancelled")

(* The worker is shutting down and its grace period is over. *)
ShutdownTimeout(s) ==
    /\ slots[s].phase = "handling"
    /\ ~ up[WorkerOf[s]]
    /\ FailJob(s, "transient")

(* Complete or Fail finds that the lease is gone: ErrLeaseLost. *)
LeaseLost(s) ==
    /\ slots[s] # Idle
    /\ ~ Owns(s)
    /\ Returns(s)
    /\ UNCHANGED jobs

(* Complete or Fail reports an error: rolled back, logged, forgotten. *)
StoreError(s) ==
    /\ slots[s] # Idle
    /\ Returns(s)
    /\ UNCHANGED jobs

-----------------------------------------------------------------------------
(***************************************************************************)
(* The maintenance loop, the clock and the processes.                      *)
(***************************************************************************)
Expired == {j \in JobIds : jobs[j].status = "running" /\ jobs[j].leaseExpired}

(* SKIP LOCKED: the batch is any part of the expired leases.  The loop of  *)
(* the code handles one row after the other and calls finalizeRoot in      *)
(* between; a root is finalized after the last of its rows, as here.       *)
ReclaimExpired(batch) ==
    LET table == [j \in JobIds |-> IF j \in batch THEN Reclaimed(jobs[j]) ELSE jobs[j]]
        rs == {table[j].root : j \in {c \in batch : table[c].status \in Terminal /\ ~ IsRoot(c)}}
    IN  /\ \E w \in Workers : up[w]
        /\ batch # {}
        /\ \E missed \in SUBSET Missable(table, rs) : jobs' = FinalizeRoots(table, rs, missed)
        /\ UNCHANGED <<slots, up, stops>>

LeaseRunsOut(j) ==
    /\ jobs[j].status = "running"
    /\ ~ jobs[j].leaseExpired
    /\ jobs' = [jobs EXCEPT ![j].leaseExpired = TRUE]
    /\ UNCHANGED <<slots, up, stops>>

BecomesDue(j) ==
    /\ jobs[j].status = "retry_scheduled"
    /\ ~ jobs[j].due
    /\ jobs' = [jobs EXCEPT ![j].due = TRUE]
    /\ UNCHANGED <<slots, up, stops>>

(* SIGTERM: no new claims, the jobs in hand go on. *)
Shutdown(w) ==
    /\ up[w]
    /\ stops < MaxStops
    /\ up' = [up EXCEPT ![w] = FALSE]
    /\ stops' = stops + 1
    /\ UNCHANGED <<jobs, slots>>

(* The process dies: the jobs in hand stay "running" in the table. *)
Crash(w) ==
    /\ up[w] \/ \E s \in Slots : WorkerOf[s] = w /\ slots[s] # Idle
    /\ stops < MaxStops
    /\ up' = [up EXCEPT ![w] = FALSE]
    /\ slots' = [s \in Slots |-> IF WorkerOf[s] = w THEN Idle ELSE slots[s]]
    /\ stops' = stops + 1
    /\ UNCHANGED jobs

Restart(w) ==
    /\ ~ up[w]
    /\ \A s \in Slots : WorkerOf[s] = w => slots[s] = Idle
    /\ up' = [up EXCEPT ![w] = TRUE]
    /\ UNCHANGED <<jobs, slots, stops>>

-----------------------------------------------------------------------------
ClientNext ==
    \/ \E j \in JobIds, type \in Submitted, max \in AttemptLimits : Submit(j, type, max)
    \/ \E src, j \in JobIds, max \in 1..MaxAttemptsCap : Retry(src, j, max)
    \/ \E src, j \in JobIds, max \in AttemptLimits : ReplayDLQ(src, j, max)
    \/ \E j \in JobIds : CancelQueued(j) \/ CancelRunning(j)
    \/ \E j \in JobIds : \E escaped \in SUBSET Requeued(j) : CancelWaiting(j, escaped)

Finish(s) ==
    \/ \E kids \in SUBSET Fresh, withResult \in BOOLEAN : Complete(s, kids, withResult)
    \/ \E kind \in ErrorKinds : HandlerFails(s, kind)
    \/ ReportCancelled(s)
    \/ LeaseLost(s)

SlotNext(s) ==
    \/ \E j \in JobIds : Claim(s, j) \/ ClaimLost(s, j)
    \/ Heartbeat(s) \/ HeartbeatNotOwned(s) \/ HeartbeatError(s)
    \/ Finish(s) \/ ShutdownTimeout(s) \/ StoreError(s)

Recovers == \E batch \in SUBSET Expired : ReclaimExpired(batch)

ClockNext == \E j \in JobIds : LeaseRunsOut(j) \/ BecomesDue(j)

ProcessNext == \E w \in Workers : Shutdown(w) \/ Crash(w) \/ Restart(w)

(* Every identifier of the instance is used up and every job has ended:    *)
(* the claim loops poll and find nothing.                                  *)
Quiescent ==
    /\ \A j \in JobIds : jobs[j].status \in Terminal
    /\ UNCHANGED vars

Next ==
    \/ ClientNext
    \/ \E s \in Slots : SlotNext(s)
    \/ Recovers
    \/ ClockNext
    \/ ProcessNext
    \/ Quiescent

Spec == Init /\ [][Next]_vars

(***************************************************************************)
(* Fairness: a claim loop keeps polling, a handler returns (the registry   *)
(* clients have timeouts, a demo job a maximal duration) and its outcome   *)
(* reaches the store or is lost, the maintenance loop keeps running, the   *)
(* clock goes on, and a stopped worker is started again.  Nothing is       *)
(* assumed of clients, heartbeats, errors, crashes and shutdown timers.    *)
(***************************************************************************)
Fairness ==
    /\ WF_vars(\E s \in Slots, j \in JobIds : Claim(s, j))
    /\ \A s \in Slots : WF_vars(Finish(s))
    /\ WF_vars(Recovers)
    /\ \A j \in JobIds : WF_vars(LeaseRunsOut(j)) /\ WF_vars(BecomesDue(j))
    /\ \A w \in Workers : WF_vars(Restart(w))

FairSpec == Spec /\ Fairness

-----------------------------------------------------------------------------
(***************************************************************************)
(* Properties.                                                             *)
(***************************************************************************)
Phases == {"idle", "handling", "giving_up"}

Slot == [job : JobIds \cup {NoJob}, token : 0..MaxAttemptsCap,
         attempts : 0..MaxAttemptsCap, phase : Phases]

(* Every column and every local variable keeps its type; in particular no  *)
(* attempt is ever numbered beyond the cap on maxAttempts.                 *)
TypeOK ==
    /\ jobs \in [JobIds -> Row]
    /\ slots \in [Slots -> Slot]
    /\ up \in [Workers -> BOOLEAN]
    /\ stops \in 0..MaxStops

(* Claim does not compare attempts with max_attempts: every path that puts *)
(* a job back into the queue (Fail, ReclaimExpired) must leave it an       *)
(* attempt.                                                                *)
RetryBudget ==
    \A j \in JobIds :
        /\ jobs[j].attempts <= jobs[j].maxAttempts
        /\ jobs[j].status \in Queued => jobs[j].attempts < jobs[j].maxAttempts

(* locked_by, lease_token and locked_until are set exactly while a job is  *)
(* running, whichever transaction took it out of that status.              *)
LeaseOnlyWhileRunning ==
    \A j \in JobIds :
        /\ jobs[j].lockedBy # NoWorker <=> jobs[j].status = "running"
        /\ jobs[j].leaseToken # 0 <=> jobs[j].status = "running"
        /\ jobs[j].leaseExpired => jobs[j].status = "running"

(* job_attempts is the exact history of the claims: one row per attempt,   *)
(* and the row that is still 'running' is the one of the lease.            *)
AttemptHistory ==
    \A j \in JobIds, n \in 1..MaxAttemptsCap :
        /\ jobs[j].runs[n] = "none" <=> n > jobs[j].attempts
        /\ jobs[j].runs[n] = "running" <=> (jobs[j].status = "running" /\ n = jobs[j].attempts)

(* A dead-lettered job has exactly one DLQ entry, any other job none,      *)
(* whether Fail, ReclaimExpired or finalizeRoot gave up on it.             *)
DeadLetterEntries ==
    \A j \in JobIds : jobs[j].dlq = IF jobs[j].status = "dead_lettered" THEN 1 ELSE 0

(* Entries and replays pair up: an entry is replayed at most once, as the  *)
(* job it names.                                                           *)
ReplaysPaired ==
    \A i, j \in JobIds :
        jobs[i].replayedAs = j <=> jobs[j].replayedFrom = i

(* The inductive form of the invariants about one row.  Besides them it    *)
(* says that a running job has been claimed and that its token is the one  *)
(* of its last claim.                                                      *)
RowInv(row) ==
    /\ row.status = "absent" => row.attempts = 0
    /\ row.status # "absent" => row.root # NoJob
    /\ row.attempts <= row.maxAttempts
    /\ row.status \in Queued => row.attempts < row.maxAttempts
    /\ row.status = "running" =>
           row.attempts >= 1 /\ row.lockedBy # NoWorker /\ row.leaseToken = row.attempts
    /\ row.status # "running" =>
           row.lockedBy = NoWorker /\ row.leaseToken = 0 /\ ~ row.leaseExpired
    /\ \A n \in 1..MaxAttemptsCap :
           /\ row.runs[n] = "none" <=> n > row.attempts
           /\ row.runs[n] = "running" <=> (row.status = "running" /\ n = row.attempts)
    /\ row.dlq = IF row.status = "dead_lettered" THEN 1 ELSE 0

(* What a claim loop remembers of its job: a claim of that job, the last   *)
(* or an earlier one; if it is the last one and still valid, the row names *)
(* this loop's process.                                                    *)
SlotInv(s) ==
    \/ slots[s] = Idle
    \/ /\ slots[s].job \in JobIds
       /\ slots[s].token = slots[s].attempts
       /\ slots[s].token \in 1..jobs[slots[s].job].attempts
       /\ jobs[slots[s].job].leaseToken = slots[s].token =>
              jobs[slots[s].job].lockedBy = WorkerOf[s]

(* Every reachable state satisfies it and every step preserves it: rows    *)
(* and claim loops agree on the claims made, and no two loops remember the *)
(* same claim.                                                             *)
LeaseInv ==
    /\ TypeOK
    /\ \A j \in JobIds : RowInv(jobs[j])
    /\ \A s \in Slots : SlotInv(s)
    /\ \A s, t \in Slots :
           s # t /\ slots[s].job = slots[t].job /\ slots[s].job # NoJob =>
               slots[s].token # slots[t].token

(* Two claim loops never own the same job: after any number of expired     *)
(* leases, crashes and late answers at most one of those that process it   *)
(* can still write to its row.                                             *)
SingleOwner ==
    \A s, t \in Slots : Owns(s) /\ Owns(t) /\ slots[s].job = slots[t].job => s = t

(* A root that finalizeRoot has closed has no descendant left to run, and  *)
(* one it has called completed has only completed descendants.             *)
FinalizedRootsAreFinal ==
    \A j \in JobIds : \A c \in Descendants(jobs, j) :
        /\ jobs[j].status \in {"completed", "failed", "dead_lettered"} =>
               jobs[c].status \in Terminal
        /\ jobs[j].status = "completed" => jobs[c].status = "completed"

(* The row of a child that was cancelled while it was queued. *)
CancelledInQueue(row) ==
    row.status = "cancelled" /\ "cancelled" \in row.events /\ row.lastError # "cancelled"

(* A waiting update scan always has a descendant whose end will finalize   *)
(* it: it cannot wait for nobody, unless somebody has cancelled one of its *)
(* children in the queue, where no finalizer follows.                      *)
ScanNeverStuck ==
    \A j \in JobIds :
        jobs[j].status = "waiting" /\ jobs[j].type = "dependency_update_scan" =>
            \/ HasActive(jobs, j)
            \/ \E c \in Descendants(jobs, j) : CancelledInQueue(jobs[c])

(* An attempt has failed or was abandoned, and another one followed or     *)
(* may follow.                                                             *)
Spoiled(runs) ==
    \E n \in 1..MaxAttemptsCap : runs[n] \in {"retry_scheduled", "abandoned"}

(* What the columns of a row say of its end: the last error of a job that  *)
(* is not given up is that of a spoiled attempt, which a completed job     *)
(* keeps unless finalizeRoot completed it; every job that completes has a  *)
(* result (a demo job may have none), and so has a scan once it waited,    *)
(* whatever became of its checks.                                          *)
Explained(row) ==
    /\ row.completedAt <=> row.status \in Terminal
    /\ row.events \cap Terminal \subseteq {row.status}
    /\ row.status \in {"completed", "failed"} => row.status \in row.events
    /\ row.status = "dead_lettered" => row.events \cap {"dead_lettered", "lease_expired"} # {}
    /\ row.status = "failed" => row.lastError = "permanent"
    /\ row.status = "dead_lettered" => row.lastError = "transient"
    /\ row.status \in Active \cup {"completed"} =>
           row.lastError = IF Spoiled(row.runs)
                              /\ ~ (row.status = "completed" /\ "waiting" \in row.events)
                           THEN "transient" ELSE "none"
    /\ row.type = "demo" => (row.result => row.status = "completed")
    /\ row.type # "demo" =>
           (row.result <=> \/ row.status = "completed"
                           \/ row.type = "dependency_update_scan" /\ "waiting" \in row.events)

(* A cancelled job has an event that says so, or its lease expired, or it  *)
(* went down with its root, whose event then tells for the whole tree.     *)
CancelExplained(table, j) ==
    table[j].status = "cancelled" =>
        \/ table[j].events \cap {"cancelled", "lease_expired"} # {}
        \/ table[j].root # j /\ table[table[j].root].status = "cancelled"

(* How a job ended is told alike by its status, its completed_at, its last *)
(* error, its attempts, its events and its result row, whichever of        *)
(* Complete, Fail, ReclaimExpired, finalizeRoot and Cancel ended it.  This *)
(* is what the code does, not all that the ADR says: see README, Other     *)
(* divergences.                                                            *)
EndIsExplained ==
    \A j \in JobIds : Explained(jobs[j]) /\ CancelExplained(jobs, j)

(* The inductive form of EndIsExplained for one row: a failure that was    *)
(* reported as a cancellation leaves no row that can run again, and a job  *)
(* that waits, or has waited, never runs again.                            *)
EndInv(row) ==
    /\ Explained(row)
    /\ row.lastError = "cancelled" => row.status = "cancelled"
    /\ row.status = "waiting" => "waiting" \in row.events
    /\ row.status \in Queued \cup {"running"} => "waiting" \notin row.events

(* Every row belongs to the tree of a root, only roots wait, and a root    *)
(* has no descendants before it waits.                                     *)
TreeShape(j) ==
    /\ jobs[j].status = "absent" => jobs[j] = NoRow
    /\ jobs[j].status # "absent" =>
           /\ jobs[j].root \in JobIds
           /\ IsRoot(jobs[j].root)
           /\ jobs[j].root # j => jobs[jobs[j].root].status \in Terminal \cup {"waiting"}
    /\ jobs[j].status = "waiting" => IsRoot(j)

(* The inductive invariant of the trees of jobs. *)
TreeInv ==
    /\ \A j \in JobIds : EndInv(jobs[j]) /\ CancelExplained(jobs, j) /\ TreeShape(j)
    /\ FinalizedRootsAreFinal
    /\ ScanNeverStuck
    /\ ReplaysPaired

(* Once a job is terminal nothing changes about it but the link to its     *)
(* replay: no late answer, heartbeat, recovery, finalizer or cancellation  *)
(* touches its row, its attempts, its result or its DLQ entry.             *)
TerminalForever ==
    [][\A j \in JobIds :
         jobs[j].status \in Terminal =>
             jobs'[j] = [jobs[j] EXCEPT !.replayedAs = jobs'[j].replayedAs]]_vars

(* A claim loop whose job has been taken away, claimed again or closed     *)
(* leaves the database as it is, whatever it reports.                      *)
StaleSlotsAreFenced ==
    [][\A s \in Slots :
         /\ slots[s] # Idle
         /\ slots'[s] # slots[s]
         /\ \/ jobs[slots[s].job].status # "running"
            \/ jobs[slots[s].job].attempts # slots[s].attempts
         => jobs' = jobs]_vars

(* Every job ends: submissions, children, retries and replays all reach a  *)
(* terminal status, whatever crashes, errors and cancellations happen.     *)
EveryJobSettles ==
    \A j \in JobIds : jobs[j].status \in Active ~> jobs[j].status \in Terminal

(* The service implements the life cycle of JobLifecycle. *)
Life == INSTANCE JobLifecycle WITH
            status <- [j \in JobIds |-> jobs[j].status],
            attempts <- [j \in JobIds |-> jobs[j].attempts]

ImplementsLifecycle == Life!Lifecycle

=============================================================================
