----------------------------- MODULE WorkerPool -----------------------------
(***************************************************************************)
(* The in-process worker pool: Pool with its workers, its retry poller and *)
(* its shutdown goroutine, the dispatch queue between them, the legacy     *)
(* operations of the store and the dead-letter queue, driven the way       *)
(* runChunk drives it (submit a chunk, start, wait for Done or for the     *)
(* caller's context, shut down).  A run is durable (with a store) or in    *)
(* memory; in a durable run a submission puts only a signal into the       *)
(* channel and the worker that takes it acquires the row that is due longest.*)
(*                                                                         *)
(* The handler is any job.Handler: it fails, or succeeds with children.    *)
(* The clock is abstracted to the order in which rows become due, which is *)
(* the order of scheduled_at in which AcquireJob takes them.               *)
(***************************************************************************)
EXTENDS Integers, Sequences, FiniteSets

CONSTANTS
    External,       \* jobs of the chunk
    Children,       \* jobs that handlers return
    Returns,        \* the children to look at with a store and without
    Reloaded,       \* rows an earlier process may have left running or due
    Scheduled,      \* rows an earlier process may have left for later
    Workers,
    NoJob,          \* the empty job: a signal in the channel, an idle worker
    Setups,         \* the pools to look at: with a store or not, workers, buffer
    MaxAttempts,    \* job.DefaultMaxAttempts
    MaxFaults       \* bound on failing calls of the store

(* Rows of an earlier process. *)
Earlier == Reloaded \cup Scheduled

Jobs == External \cup Children \cup Earlier

ASSUME WorkerPoolAssumption ==
    /\ NoJob \notin Jobs
    /\ Returns \in [BOOLEAN -> SUBSET Children]
    /\ IsFiniteSet(Reloaded)
    /\ Setups \subseteq [durable : BOOLEAN, pool : (SUBSET Workers) \ {{}}, buffer : Nat \ {0}]
    /\ MaxAttempts \in Nat \ {0}
    /\ MaxFaults \in Nat
    /\ External \cap Children = {}
    /\ Earlier \cap (External \cup Children) = {}
    /\ Reloaded \cap Scheduled = {}

VARIABLES
    durable,        \* the pool has a store
    pool,           \* the workers Start launches
    status,         \* status of every job (of its row, in a durable run)
    attempts,
    due,            \* pending rows whose scheduled_at has passed, in that order
    sub,            \* how far Submit, or submitChild, of a job has got
    ch,             \* the dispatch channel: jobs and, durable, signals
    capacity,
    counted,        \* Pool.counted
    inFlight,
    slipped,        \* rows a signal acquired that nothing had counted
    done,           \* the done channel is closed
    started, stopping, closed,
    worker,         \* next step of each worker, its job and its children
    poller,         \* next step of pollLoop and the job it holds
    stranded,       \* jobs whose last store call failed, or that were dropped
    faults

vars == <<durable, pool, status, attempts, due, sub, ch, capacity, counted, inFlight,
          slipped, done, started, stopping, closed, worker, poller, stranded, faults>>

rows == <<status, attempts, due>>
counts == <<counted, inFlight, slipped, done>>
phase == <<durable, pool, capacity, started, stopping, closed>>
failures == <<stranded, faults>>

Finished == {"completed", "dead_lettered"}

JobStatuses == {"absent", "pending", "running"} \cup Finished

Idle == [pc |-> "idle", job |-> NoJob, kids |-> {}]

MidSubmission == {j \in Jobs : sub[j] \in {"counted", "created"}}

(* submitWG has one member for each of them. *)
Returned == {"returned", "failed", "persisted", "dropped"}

(* The orders in which the elements of a finite set can come. *)
Orders(S) == {o \in [1..Cardinality(S) -> S] : \A a, b \in DOMAIN o : a # b => o[a] # o[b]}

(***************************************************************************)
(* queue.New and NewWithOptions.  Of the rows that are left, the stuck     *)
(* ones were running and go back to pending, unless that call fails and    *)
(* they stay as they are; then the rows that are due are acquired one by   *)
(* one and put into the channel, up to the first call that fails.  Both    *)
(* failures are only logged.  The channel is made large enough and the     *)
(* pool counts its length.                                                 *)
(***************************************************************************)
NewQueue(buffer, left, stuck) ==
    \E reclaimed \in BOOLEAN :
    LET ready == (left \cap Reloaded) \ (IF reclaimed THEN {} ELSE stuck) IN
    \E order \in Orders(ready), loaded \in 0..Cardinality(ready) :
        /\ ch = SubSeq(order, 1, loaded)
        /\ due = SubSeq(order, loaded + 1, Len(order))
        /\ stranded = IF reclaimed THEN {} ELSE stuck
        /\ faults = (IF reclaimed THEN 0 ELSE 1) + (IF loaded = Len(order) THEN 0 ELSE 1)
        /\ faults <= MaxFaults
        /\ status = [j \in Jobs |->
                        IF j \notin left THEN "absent"
                        ELSE IF j \in stranded \/ \E i \in DOMAIN ch : ch[i] = j THEN "running"
                        ELSE "pending"]
        /\ capacity = IF Len(ch) > buffer THEN Len(ch) ELSE buffer
        /\ inFlight = Len(ch)

Init ==
    /\ \E setup \in Setups, left \in SUBSET Earlier :
         /\ durable = setup.durable
         /\ pool = setup.pool
         /\ durable \/ left = {}
         /\ \E stuck \in SUBSET (left \cap Reloaded) : NewQueue(setup.buffer, left, stuck)
    /\ \E tries \in [Earlier -> 0..(MaxAttempts - 1)] :
         attempts = [j \in Jobs |-> IF j \in Earlier /\ status[j] # "absent" THEN tries[j] ELSE 0]
    /\ sub = [j \in Jobs |-> "none"]
    /\ counted = {}
    /\ slipped = {}
    /\ done = FALSE
    /\ started = FALSE /\ stopping = FALSE /\ closed = FALSE
    /\ worker = [w \in Workers |-> Idle]
    /\ poller = [pc |-> "wait", job |-> NoJob]

(* A call of the store fails. *)
Fault == faults < MaxFaults /\ faults' = faults + 1

Count(j) == counted' = counted \cup {j} /\ inFlight' = inFlight + 1

(* Defect: the job is forgotten, and the count keeps it. *)
Uncount_KeepsCount(j) == counted' = counted \ {j} /\ UNCHANGED inFlight

Uncount(j) == counted' = counted \ {j} /\ inFlight' = inFlight - 1

(* CreateJob with the scheduled_at of now. *)
InsertRow(j) ==
    /\ status' = [status EXCEPT ![j] = "pending"]
    /\ due' = Append(due, j)

(* A worker whose handler returned children, with one still to submit. *)
Submitting(w, k) ==
    /\ worker[w].pc = "children"
    /\ k \in worker[w].kids
    /\ sub[k] = "none"
    /\ worker[w].kids \cap MidSubmission = {}

(***************************************************************************)
(* Submit.  runChunk submits one job after the other before it starts the  *)
(* pool and gives up at the first error; submitChild goes the same way for *)
(* the children of a job while the pool accepts work.                      *)
(***************************************************************************)
SubmitBegin(j) ==
    /\ ~stopping
    /\ sub[j] = "none"
    /\ \/ /\ j \in External
          /\ ~started
          /\ \A e \in External : sub[e] \in {"none", "returned"}
       \/ \E w \in Workers : Submitting(w, j)
    /\ Count(j)
    /\ sub' = [sub EXCEPT ![j] = "counted"]
    /\ UNCHANGED <<rows, ch, slipped, done, phase, worker, poller, failures>>

CreateJob(j) ==
    /\ durable
    /\ sub[j] = "counted"
    /\ \/ /\ InsertRow(j)
          /\ sub' = [sub EXCEPT ![j] = IF j \in Children THEN "returned" ELSE "created"]
          /\ UNCHANGED <<attempts, counts, failures>>
       \/ /\ Fault
          /\ Uncount(j)
          /\ sub' = [sub EXCEPT ![j] = "failed"]
          /\ stranded' = stranded \cup {j}
          /\ UNCHANGED <<rows, slipped, done>>
    /\ UNCHANGED <<ch, phase, worker, poller>>

(* The send of queue.Submit: the job itself, or an empty job as a signal. *)
SubmitSend(j) ==
    /\ sub[j] = IF durable THEN "created" ELSE "counted"
    /\ Len(ch) < capacity
    /\ ch' = Append(ch, IF durable THEN NoJob ELSE j)
    /\ status' = [status EXCEPT ![j] = "pending"]
    /\ sub' = [sub EXCEPT ![j] = "returned"]
    /\ UNCHANGED <<attempts, due, counts, phase, worker, poller, failures>>

(* submitChild of a pool that is stopping: the row is written and not      *)
(* counted; without a store the child is dropped.                          *)
PersistChild(w, k) ==
    /\ stopping
    /\ Submitting(w, k)
    /\ \/ /\ durable
          /\ InsertRow(k)
          /\ sub' = [sub EXCEPT ![k] = "persisted"]
          /\ UNCHANGED <<attempts, failures>>
       \/ /\ IF durable THEN Fault ELSE UNCHANGED faults
          /\ sub' = [sub EXCEPT ![k] = "dropped"]
          /\ stranded' = stranded \cup {k}
          /\ UNCHANGED rows
    /\ UNCHANGED <<ch, counts, phase, worker, poller>>

Start ==
    /\ ~started /\ ~stopping
    /\ \A e \in External : sub[e] = "returned"
    /\ started' = TRUE
    /\ UNCHANGED <<durable, pool, capacity, rows, sub, ch, counts, stopping, closed, worker, poller, failures>>

(* runChunk closes the queue when a submission fails; nothing has started. *)
Abandon ==
    /\ \E e \in External : sub[e] = "failed"
    /\ ~closed
    /\ closed' = TRUE
    /\ UNCHANGED <<durable, pool, capacity, rows, sub, ch, counts, started, stopping, worker, poller, failures>>

(***************************************************************************)
(* AcquireJob: the first row that is due is marked running.                *)
(***************************************************************************)
(* Defect: the row is not marked, the next acquirer takes it again. *)
Acquire_Unmarked(j) == due # <<>> /\ j = Head(due) /\ UNCHANGED <<status, due>>

Acquire(j) ==
    /\ due # <<>> /\ j = Head(due)
    /\ due' = Tail(due)
    /\ status' = [status EXCEPT ![j] = "running"]

Handles(w, j) ==
    /\ worker' = [worker EXCEPT ![w] = [pc |-> "handling", job |-> j, kids |-> {}]]
    /\ counted' = counted \cup {j}

(* A launched worker in Dequeue. *)
Waiting(w) == started /\ w \in pool /\ worker[w].pc = "idle"

(* A worker takes a job from the channel. *)
DequeueJob(w) ==
    /\ Waiting(w)
    /\ ch # <<>> /\ Head(ch) # NoJob
    /\ ch' = Tail(ch)
    /\ status' = [status EXCEPT ![Head(ch)] = "running"]
    /\ Handles(w, Head(ch))
    /\ UNCHANGED <<attempts, due, sub, inFlight, slipped, done, phase, poller, failures>>

(* A worker takes a signal: it acquires a row, or finds none (the poller   *)
(* was faster) or gets an error, and in both cases goes on waiting.  The   *)
(* row may be one that New left in the table: nothing has counted it.      *)
DequeueSignal(w) ==
    /\ Waiting(w)
    /\ ch # <<>> /\ Head(ch) = NoJob
    /\ ch' = Tail(ch)
    /\ \/ \E j \in Jobs :
            /\ Acquire(j)
            /\ Handles(w, j)
            /\ slipped' = slipped \cup ({j} \ counted)
            /\ UNCHANGED faults
       \/ due = <<>> /\ UNCHANGED <<status, due, counted, slipped, worker, faults>>
       \/ Fault /\ UNCHANGED <<status, due, counted, slipped, worker>>
    /\ UNCHANGED <<attempts, sub, inFlight, done, phase, poller, stranded>>

(* Children the audit handler returns carry no attempt limit; CreateJob    *)
(* gives them the default, the in-memory queue does not.                   *)
Limit(j) == IF j \in Children /\ ~durable THEN 0 ELSE MaxAttempts

(* Defect: one attempt too many. *)
Exhausted_OneMore(j) == attempts[j] + 1 > Limit(j)

Exhausted(j) == attempts[j] + 1 >= Limit(j)

Goes(w, step) == worker' = [worker EXCEPT ![w].pc = step]

(* A failed attempt with attempts left: RetryJob and on to the next job,   *)
(* or a sleep and the channel again.  A failed RetryJob is only logged.    *)
HandlerRetries(w) ==
    LET j == worker[w].job IN
    /\ worker[w].pc = "handling"
    /\ ~Exhausted(j)
    /\ \/ /\ durable
          /\ status' = [status EXCEPT ![j] = "pending"]
          /\ attempts' = [attempts EXCEPT ![j] = @ + 1]
          /\ worker' = [worker EXCEPT ![w] = Idle]
          /\ UNCHANGED <<due, failures>>
       \/ /\ durable
          /\ Fault
          /\ stranded' = stranded \cup {j}
          /\ worker' = [worker EXCEPT ![w] = Idle]
          /\ UNCHANGED rows
       \/ /\ ~durable
          /\ attempts' = [attempts EXCEPT ![j] = @ + 1]
          /\ Goes(w, "requeue")
          /\ UNCHANGED <<status, due, failures>>
    /\ UNCHANGED <<sub, ch, counts, phase, poller>>

(* The queue may have been closed during the sleep: the job is gone. *)
Requeue(w) ==
    LET j == worker[w].job IN
    /\ worker[w].pc = "requeue"
    /\ \/ /\ ~closed /\ Len(ch) < capacity
          /\ ch' = Append(ch, j)
          /\ status' = [status EXCEPT ![j] = "pending"]
          /\ UNCHANGED stranded
       \/ /\ closed
          /\ stranded' = stranded \cup {j}
          /\ UNCHANGED <<ch, status>>
    /\ worker' = [worker EXCEPT ![w] = Idle]
    /\ UNCHANGED <<attempts, due, sub, counts, phase, poller, faults>>

(* The store is told how the job ended and, of a dead-lettered one, the    *)
(* attempts; an error is only logged.                                      *)
Ends(w, s, tries) ==
    LET j == worker[w].job IN
    \/ /\ status' = [status EXCEPT ![j] = s]
       /\ attempts' = [attempts EXCEPT ![j] = tries]
       /\ UNCHANGED failures
    \/ /\ durable
       /\ Fault
       /\ stranded' = stranded \cup {j}
       /\ UNCHANGED <<status, attempts>>

HandlerExhausts(w) ==
    LET j == worker[w].job IN
    /\ worker[w].pc = "handling"
    /\ Exhausted(j)
    /\ Ends(w, "dead_lettered", attempts[j] + 1)
    /\ Goes(w, "children")
    /\ UNCHANGED <<due, sub, ch, counts, phase, poller>>

NewChildren == {k \in Returns[durable] : sub[k] = "none" /\ \A w \in Workers : k \notin worker[w].kids}

HandlerSucceeds(w, kids) ==
    /\ worker[w].pc = "handling"
    /\ Ends(w, "completed", attempts[worker[w].job])
    /\ worker' = [worker EXCEPT ![w].pc = "children", ![w].kids = kids]
    /\ UNCHANGED <<due, sub, ch, counts, phase, poller>>

(* Only after its last child is submitted is a job no longer counted. *)
FinishJob(w) ==
    /\ worker[w].pc = "children"
    /\ \A k \in worker[w].kids : sub[k] \in Returned
    /\ Uncount(worker[w].job)
    /\ worker' = [worker EXCEPT ![w] = [Idle EXCEPT !.pc = "check"]]
    /\ UNCHANGED <<rows, sub, ch, slipped, done, phase, poller, failures>>

(* Defect: the job that has just ended is taken for the last one. *)
NothingLeft_OneLeft == inFlight <= 1

NothingLeft == inFlight = 0

CheckDone(w) ==
    /\ worker[w].pc = "check"
    /\ done' = (done \/ NothingLeft)
    /\ Goes(w, "idle")
    /\ UNCHANGED <<rows, sub, ch, counted, inFlight, slipped, phase, poller, failures>>

WorkerExit(w) ==
    /\ Waiting(w)
    /\ closed /\ ch = <<>>
    /\ Goes(w, "exited")
    /\ UNCHANGED <<rows, sub, ch, counts, phase, poller, failures>>

(***************************************************************************)
(* pollLoop and dispatchReady.                                             *)
(***************************************************************************)
Polls(step) == poller' = [poller EXCEPT !.pc = step]

(* A tick, or the next round of dispatchReady: pollStop is looked at       *)
(* before the store is asked, not after.                                   *)
PollCheck ==
    /\ durable /\ started
    /\ poller.pc \in {"wait", "loop"}
    /\ Polls(IF stopping THEN "wait" ELSE "checked")
    /\ UNCHANGED <<rows, sub, ch, counts, phase, worker, failures>>

(* Defect: a retry is counted again. *)
CountOnce_AlwaysAdds(j) == Count(j)

(* counted.LoadOrStore: jobs of this process are counted already, those of *)
(* an earlier one are not.                                                 *)
CountOnce(j) ==
    /\ counted' = counted \cup {j}
    /\ inFlight' = IF j \in counted THEN inFlight ELSE inFlight + 1

PollAcquire ==
    /\ poller.pc = "checked"
    /\ \/ \E j \in Jobs :
            /\ Acquire(j)
            /\ CountOnce(j)
            /\ poller' = [pc |-> "holding", job |-> j]
            /\ UNCHANGED faults
       \/ /\ (due = <<>> /\ UNCHANGED faults) \/ Fault
          /\ Polls("wait")
          /\ UNCHANGED <<status, due, counted, inFlight>>
    /\ UNCHANGED <<attempts, sub, ch, slipped, done, phase, worker, stranded>>

PollDispatch ==
    /\ poller.pc = "holding"
    /\ closed \/ Len(ch) < capacity
    /\ ch' = IF closed THEN ch ELSE Append(ch, poller.job)
    /\ poller' = [pc |-> IF closed THEN "wait" ELSE "loop", job |-> NoJob]
    /\ UNCHANGED <<rows, sub, counts, phase, worker, failures>>

(* Defect: the poller does not listen to pollStop. *)
PollStops_OnDone == done

PollStops == stopping \/ done

PollExit ==
    /\ durable /\ started
    /\ poller.pc = "wait"
    /\ PollStops
    /\ Polls("exited")
    /\ UNCHANGED <<rows, sub, ch, counts, phase, worker, failures>>

(* Time passes. *)
BecomesDue(j) ==
    /\ durable
    /\ status[j] = "pending" /\ \A i \in DOMAIN due : due[i] # j
    /\ due' = Append(due, j)
    /\ UNCHANGED <<status, attempts, sub, ch, counts, phase, worker, poller, failures>>

(***************************************************************************)
(* Shutdown, which runChunk calls when the pool is done or its context     *)
(* ends, and the goroutine that closes the queue once nobody can send.     *)
(***************************************************************************)
Shutdown ==
    /\ started /\ ~stopping
    /\ stopping' = TRUE
    /\ UNCHANGED <<durable, pool, capacity, rows, sub, ch, counts, started, closed, worker, poller, failures>>

(* Defect: the queue is closed without waiting for the poller. *)
SendersGone_NoPollerWait == MidSubmission = {}

SendersGone == (durable => poller.pc = "exited") /\ MidSubmission = {}

CloseQueue ==
    /\ stopping /\ ~closed
    /\ SendersGone
    /\ closed' = TRUE
    /\ UNCHANGED <<durable, pool, capacity, rows, sub, ch, counts, started, stopping, worker, poller, failures>>

ShutdownDone == closed /\ \A w \in pool : worker[w].pc = "exited"

Stopped == (started /\ ShutdownDone) \/ (closed /\ ~started)

Terminated == Stopped /\ UNCHANGED vars

(* A worker that sends to the channel, which it also receives from. *)
Sending(w) == worker[w].pc = "requeue" \/ worker[w].kids \cap MidSubmission # {}

(***************************************************************************)
(* A full channel nobody receives from: before Start, when reloaded rows   *)
(* leave no room for the signals of the chunk, and in memory when every    *)
(* worker is itself sending.  Only closing the queue helps, which waits    *)
(* for the submissions: senders of a requeue are released, the others not. *)
(***************************************************************************)
Jammed ==
    /\ ~closed
    /\ Len(ch) = capacity
    /\ \/ ~started /\ \E e \in External : sub[e] = IF durable THEN "created" ELSE "counted"
       \/ ~durable /\ started /\ \A w \in pool : Sending(w)

StaysJammed == Jammed /\ (started => stopping) /\ MidSubmission # {} /\ UNCHANGED vars

SubmitStep(j) == SubmitBegin(j) \/ CreateJob(j) \/ SubmitSend(j)

WorkerStep(w) ==
    \/ DequeueJob(w) \/ DequeueSignal(w)
    \/ HandlerRetries(w) \/ Requeue(w) \/ HandlerExhausts(w)
    \/ \E kids \in SUBSET NewChildren : HandlerSucceeds(w, kids)
    \/ \E k \in worker[w].kids : SubmitStep(k) \/ PersistChild(w, k)
    \/ FinishJob(w) \/ CheckDone(w) \/ WorkerExit(w)

DispatchReady == PollCheck \/ PollAcquire \/ PollDispatch

(* runChunk. *)
CallerStep == (\E j \in External : SubmitStep(j)) \/ Start \/ Abandon \/ Shutdown

TimePasses == \E j \in Jobs : BecomesDue(j)

Next ==
    \/ CallerStep \/ CloseQueue
    \/ \E w \in Workers : WorkerStep(w)
    \/ DispatchReady \/ PollExit
    \/ TimePasses
    \/ Terminated \/ StaysJammed

Spec == Init /\ [][Next]_vars

(* Goroutines keep running and handlers return; runChunk shuts the pool    *)
(* down when Done is closed, and may do so before.  A poller that may stop *)
(* does stop: its select cannot prefer the ticker for ever.                *)
Fairness ==
    /\ WF_vars(CallerStep /\ (started => done))
    /\ WF_vars(CloseQueue)
    /\ \A w \in Workers : WF_vars(WorkerStep(w))
    /\ WF_vars(DispatchReady)
    /\ SF_vars(PollExit)
    /\ WF_vars(TimePasses)

FairSpec == Spec /\ Fairness

(***************************************************************************)
(* Properties.                                                             *)
(***************************************************************************)

(* Every variable is typed; the channel holds at most its capacity. *)
TypeOK ==
    /\ durable \in BOOLEAN /\ done \in BOOLEAN
    /\ started \in BOOLEAN /\ stopping \in BOOLEAN /\ closed \in BOOLEAN
    /\ status \in [Jobs -> JobStatuses]
    /\ attempts \in [Jobs -> Nat] /\ pool \subseteq Workers
    /\ due \in Seq(Jobs) /\ counted \subseteq Jobs /\ slipped \subseteq Jobs
    /\ stranded \subseteq Jobs
    /\ sub \in [Jobs -> {"none", "counted", "created"} \cup Returned]
    /\ ch \in Seq(Jobs \cup {NoJob}) /\ Len(ch) <= capacity
    /\ inFlight \in Int
    /\ worker \in [Workers -> [pc : {"idle", "handling", "requeue", "children", "check", "exited"},
                               job : Jobs \cup {NoJob}, kids : SUBSET Children]]
    /\ poller \in [pc : {"wait", "loop", "checked", "holding", "exited"}, job : Jobs \cup {NoJob}]
    /\ faults \in 0..MaxFaults

Holders(j) ==
    Cardinality({i \in DOMAIN ch : ch[i] = j}) + Cardinality({w \in Workers : worker[w].job = j})
        + (IF poller.job = j THEN 1 ELSE 0)

(* A job is in the channel, with one worker or with the poller, never in   *)
(* two of these places, although submissions, the reload at startup,       *)
(* retries and stale signals all lead to AcquireJob; and a row that is     *)
(* running is in one of them unless a store call for it has failed.        *)
OneHolder ==
    \A j \in Jobs :
        /\ Holders(j) <= 1
        /\ (durable /\ status[j] = "running" /\ j \notin stranded) => Holders(j) = 1

(* A job is dead-lettered when it has used all its attempts and not        *)
(* before, over retries, lost store calls and a restart; a job that has    *)
(* not been dead-lettered always has one left.  A job without a limit gets *)
(* one attempt.                                                            *)
AttemptsSpent ==
    \A j \in Jobs :
        LET limit == IF Limit(j) = 0 THEN 1 ELSE Limit(j) IN
        IF status[j] = "dead_lettered" THEN attempts[j] = limit ELSE attempts[j] < limit

(* Until the shutdown starts inFlight counts the jobs the pool has         *)
(* accepted and not finished, the ones in counted and the reloaded ones    *)
(* that wait in the channel, each once however often it is retried; it is  *)
(* too low by the rows that slipped in, those New left in the table and a  *)
(* signal acquired before the poller did, and by nothing else.             *)
InFlightIsExact ==
    ~stopping => inFlight + Cardinality(slipped)
                     = Cardinality(counted \cup {j \in Jobs : \E i \in DOMAIN ch : ch[i] = j})

(* The done channel closes, while the pool takes work and no row has       *)
(* slipped in, only when every job that was submitted, returned by a       *)
(* handler, reloaded or polled has finished or its store call has failed;  *)
(* what is left are rows of an earlier process nobody has acquired yet.    *)
DoneMeansIdle ==
    [][(done' /\ ~done /\ ~stopping /\ slipped = {}) =>
           \A j \in Jobs :
               \/ status[j] \in Finished \cup {"absent"}
               \/ j \in stranded
               \/ j \in Earlier \ counted /\ status[j] = "pending"]_vars

(* Done, as its comment has it: "no jobs are queued or running".  No job   *)
(* of the chunk is pending or running when the done channel is closed.     *)
DoneMeansChunkDone ==
    (done /\ ~stopping) =>
        \A e \in External : status[e] \in Finished \cup {"absent"} \/ e \in stranded

(* When Shutdown returns the channel is drained and nothing is in between: *)
(* every row has finished or is pending, where the next process finds it.  *)
(* In memory every job has finished; one that was being retried is lost.   *)
DrainedOnShutdown ==
    (started /\ ShutdownDone) =>
        /\ ch = <<>>
        /\ \A j \in Jobs : \/ status[j] \in Finished \cup {"absent"}
                           \/ j \in stranded
                           \/ durable /\ status[j] = "pending"

(* runChunk's pool gets everything it accepted, the retries and the        *)
(* children included, to an end and closes Done, unless it is told to stop *)
(* or a submission fails.  The exceptions: a failed RetryJob leaves a job  *)
(* counted for ever, rows that slipped in can take the count past zero,    *)
(* and the channel can jam.                                                *)
DoneCloses ==
    <>(done \/ stopping \/ closed \/ stranded \cap counted # {} \/ slipped # {} \/ Jammed)

(* Shutdown, whenever it is called, gets the poller, the submitters and    *)
(* the workers to stop, and returns; only a worker that is jammed with a   *)
(* child in its hands keeps it waiting.                                    *)
ShutdownReturns == stopping ~> (ShutdownDone \/ (Jammed /\ MidSubmission # {}))

=============================================================================
