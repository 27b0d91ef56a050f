-------------------------- MODULE WorkerPoolProofs --------------------------
(***************************************************************************)
(* Proofs about WorkerPool, for any jobs, workers, capacity, attempts and  *)
(* faults, with and without a store: where a job is, which attempts it     *)
(* has used, what Shutdown leaves behind, how far the pool's count can be  *)
(* off and what the closing of Done means.                                 *)
(***************************************************************************)
EXTENDS WorkerPool, FiniteSetTheorems, SequenceTheorems, TLAPS

(* j is somewhere in the sequence s. *)
Holds(s, j) == \E i \in 1..Len(s) : s[i] = j

(* No job is in s twice; signals may be. *)
Once(s) == \A a, b \in 1..Len(s) : s[a] = s[b] /\ s[a] \in Jobs => a = b

InChannel == {j \in Jobs : Holds(ch, j)}

AtWorker(j) == \E w \in Workers : worker[w].job = j

(* Where a job is, by its status and by the progress of its submission. *)
JobInv(j) ==
    /\ Holds(due, j) => durable /\ status[j] = "pending"
    /\ Holds(ch, j) => status[j] = IF durable THEN "running" ELSE "pending"
    /\ poller.job = j => status[j] = "running" /\ j \in counted /\ ~ Holds(ch, j)
    /\ status[j] = "running" /\ j \notin stranded => Holds(ch, j) \/ poller.job = j \/ AtWorker(j)
    /\ status[j] = "pending" /\ ~ durable => Holds(ch, j)
    /\ j \notin External \cup Children => sub[j] = "none"
    /\ sub[j] = "none" /\ j \in External \cup Children => status[j] = "absent" /\ j \notin counted
    /\ sub[j] = "counted" => status[j] = "absent" /\ j \in counted
    /\ sub[j] = "created" => durable /\ j \in External /\ status[j] = "pending" /\ j \in counted

(* What worker w holds nobody else has. *)
WorkerInv(w) ==
    LET j == worker[w].job IN
    /\ worker[w].pc \in {"handling", "requeue", "children"} <=> j # NoJob
    /\ j # NoJob =>
          /\ j \in counted
          /\ ~ Holds(ch, j)
          /\ poller.job # j
          /\ \A x \in Workers \ {w} : worker[x].job # j
    /\ worker[w].pc \in {"handling", "requeue"} => status[j] = "running"
    /\ worker[w].pc = "requeue" => ~ durable
    /\ worker[w].pc = "children" =>
          status[j] \in Finished \/ (status[j] = "running" /\ j \in stranded)
    /\ worker[w].pc = "exited" => closed /\ ch = <<>>
    /\ worker[w].pc # "idle" => started /\ w \in pool

(* The poller, and who may still send when the queue is closed. *)
PhaseInv ==
    /\ poller.pc = "holding" <=> poller.job # NoJob
    /\ poller.pc # "wait" => durable /\ started
    /\ started => \A e \in External : sub[e] = "returned"
    /\ stopping \/ done => started
    /\ closed => \/ /\ stopping
                    /\ MidSubmission = {}
                    /\ durable => poller.pc = "exited"
                 \/ ~ started /\ \E e \in External : sub[e] = "failed"

(* The inductive invariant of the pool. *)
PoolInv ==
    /\ TypeOK
    /\ capacity \in Nat /\ pool # {}
    /\ Once(ch) /\ Once(due)
    /\ \A j \in Jobs : JobInv(j)
    /\ \A w \in Workers : WorkerInv(w)
    /\ PhaseInv

(* A pending row is counted, or an earlier process left it. *)
Known(j) == j \in counted \/ j \in Earlier \ slipped

(* What the count relies on, until the shutdown starts. *)
CountInv ==
    ~ stopping =>
        /\ IsFiniteSet(counted \cup InChannel) /\ IsFiniteSet(slipped)
        /\ inFlight + Cardinality(slipped) = Cardinality(counted \cup InChannel)
        /\ \A j \in Jobs : status[j] = "pending" => Known(j)

(***************************************************************************)
(* Sequences as the places a job can be in.                                *)
(***************************************************************************)

(* A send adds its element to what the channel holds. *)
LEMMA AppendHolds ==
    ASSUME NEW S, NEW s \in Seq(S), NEW x \in S
    PROVE  /\ Append(s, x) \in Seq(S)
           /\ Len(Append(s, x)) = Len(s) + 1
           /\ \A j : Holds(Append(s, x), j) <=> Holds(s, j) \/ j = x
           /\ Once(s) /\ (x \in Jobs => ~ Holds(s, x)) => Once(Append(s, x))
<1> DEFINE t == Append(s, x)
<1>1. t \in Seq(S) /\ Len(t) = Len(s) + 1 /\ Len(s) \in Nat
  OBVIOUS
<1>2. t[Len(s) + 1] = x /\ \A i \in 1..Len(s) : t[i] = s[i]
  OBVIOUS
<1> HIDE DEF t
<1>3. \A j : Holds(t, j) <=> Holds(s, j) \/ j = x
  <2> SUFFICES ASSUME NEW j
               PROVE  Holds(t, j) <=> Holds(s, j) \/ j = x
    OBVIOUS
  <2>1. ASSUME NEW i \in 1..Len(t), t[i] = j PROVE Holds(s, j) \/ j = x
    <3>1. i \in 1..Len(s) \/ i = Len(s) + 1
      BY <1>1
    <3> QED
      BY <2>1, <3>1, <1>2 DEF Holds
  <2>2. ASSUME NEW i \in 1..Len(s), s[i] = j PROVE Holds(t, j)
    <3>1. i \in 1..Len(t)
      BY <1>1
    <3> QED
      BY <2>2, <3>1, <1>2 DEF Holds
  <2>3. Len(s) + 1 \in 1..Len(t)
    BY <1>1
  <2> QED
    BY <2>1, <2>2, <2>3, <1>2 DEF Holds
<1>4. ASSUME Once(s), x \in Jobs => ~ Holds(s, x) PROVE Once(t)
  <2> SUFFICES ASSUME NEW a \in 1..Len(t), NEW b \in 1..Len(t), t[a] = t[b], t[a] \in Jobs
               PROVE  a = b
    BY DEF Once
  <2>1. /\ a \in 1..Len(s) \/ a = Len(s) + 1
        /\ b \in 1..Len(s) \/ b = Len(s) + 1
    BY <1>1
  <2>2. CASE a \in 1..Len(s) /\ b \in 1..Len(s)
    BY <2>2, <1>2, <1>4 DEF Once
  <2>3. CASE a \in 1..Len(s) /\ b = Len(s) + 1
    BY <2>3, <1>2, <1>4 DEF Holds
  <2>4. CASE b \in 1..Len(s) /\ a = Len(s) + 1
    BY <2>4, <1>2, <1>4 DEF Holds
  <2> QED
    BY <2>1, <2>2, <2>3, <2>4
<1> QED
  BY <1>1, <1>3, <1>4 DEF t

(* A receive takes its element out, and no copy of it stays behind. *)
LEMMA TailHolds ==
    ASSUME NEW S, NEW s \in Seq(S), s # <<>>
    PROVE  /\ Head(s) \in S
           /\ Tail(s) \in Seq(S)
           /\ Len(Tail(s)) = Len(s) - 1
           /\ \A j : Holds(s, j) <=> Holds(Tail(s), j) \/ j = Head(s)
           /\ Once(s) => Once(Tail(s)) /\ (Head(s) \in Jobs => ~ Holds(Tail(s), Head(s)))
<1> DEFINE t == Tail(s)
<1>1. /\ Head(s) \in S /\ Head(s) = s[1]
      /\ t \in Seq(S) /\ Len(t) = Len(s) - 1
      /\ Len(s) \in Nat /\ Len(s) # 0
  OBVIOUS
<1>2. \A i \in 1..Len(t) : t[i] = s[i + 1]
  OBVIOUS
<1> HIDE DEF t
<1>3. \A i \in 1..Len(t) : i + 1 \in 1..Len(s)
  BY <1>1
<1>4. \A j : Holds(s, j) <=> Holds(t, j) \/ j = Head(s)
  <2> SUFFICES ASSUME NEW j
               PROVE  Holds(s, j) <=> Holds(t, j) \/ j = Head(s)
    OBVIOUS
  <2>1. ASSUME NEW i \in 1..Len(s), s[i] = j PROVE Holds(t, j) \/ j = Head(s)
    <3>1. CASE i = 1
      BY <2>1, <3>1, <1>1
    <3>2. CASE i # 1
      <4>1. i - 1 \in 1..Len(t) /\ (i - 1) + 1 = i
        BY <3>2, <1>1
      <4>2. t[i - 1] = j
        BY <4>1, <2>1, <1>2
      <4> QED
        BY <4>1, <4>2 DEF Holds
    <3> QED
      BY <3>1, <3>2
  <2>2. ASSUME NEW i \in 1..Len(t), t[i] = j PROVE Holds(s, j)
    BY <2>2, <1>2, <1>3 DEF Holds
  <2>3. 1 \in 1..Len(s)
    BY <1>1
  <2> QED
    BY <2>1, <2>2, <2>3, <1>1 DEF Holds
<1>5. ASSUME Once(s) PROVE Once(t)
  <2> SUFFICES ASSUME NEW a \in 1..Len(t), NEW b \in 1..Len(t), t[a] = t[b], t[a] \in Jobs
               PROVE  a = b
    BY DEF Once
  <2>1. a + 1 = b + 1
    BY <1>2, <1>3, <1>5 DEF Once
  <2> QED
    BY <2>1, <1>1
<1>6. ASSUME Once(s), Head(s) \in Jobs, Holds(t, Head(s)) PROVE FALSE
  <2>1. PICK i \in 1..Len(t) : t[i] = Head(s)
    BY <1>6 DEF Holds
  <2>2. 1 \in 1..Len(s) /\ i + 1 \in 1..Len(s) /\ i + 1 # 1
    BY <1>1
  <2> QED
    BY <2>1, <2>2, <1>1, <1>2, <1>6 DEF Once
<1> QED
  BY <1>1, <1>4, <1>5, <1>6 DEF t

(* Nobody is in an empty channel. *)
LEMMA EmptyHolds == \A j : ~ Holds(<<>>, j)
BY DEF Holds

(***************************************************************************)
(* The invariant: one lemma per operation.                                 *)
(***************************************************************************)

(* runChunk starts, abandons or shuts down the pool, and the queue closes. *)
LEMMA CallerKeeps ==
    ASSUME PoolInv, Start \/ Abandon \/ Shutdown \/ CloseQueue
    PROVE  PoolInv'
<1> USE DEF Start, Abandon, Shutdown, CloseQueue, rows, counts, failures
<1>1. TypeOK' /\ (capacity \in Nat /\ pool # {})' /\ Once(ch)' /\ Once(due)'
  BY DEF PoolInv, TypeOK
<1>2. ASSUME NEW j \in Jobs PROVE JobInv(j)'
  <2>1. JobInv(j)
    BY DEF PoolInv
  <2> QED
    BY <2>1 DEF JobInv, AtWorker
<1>3. ASSUME NEW w \in Workers PROVE WorkerInv(w)'
  <2>1. WorkerInv(w)
    BY DEF PoolInv
  <2> QED
    BY <2>1 DEF WorkerInv, PoolInv, TypeOK
<1>4. PhaseInv'
  <2>1. PhaseInv /\ TypeOK
    BY DEF PoolInv
  <2>2. MidSubmission' = MidSubmission
    BY DEF MidSubmission
  <2>3. CASE Start
    BY <2>1, <2>2, <2>3 DEF PhaseInv, TypeOK
  <2>4. CASE Abandon
    BY <2>1, <2>2, <2>4 DEF PhaseInv, TypeOK
  <2>5. CASE Shutdown \/ CloseQueue
    BY <2>1, <2>2, <2>5 DEF PhaseInv, TypeOK, SendersGone
  <2> QED
    BY <2>3, <2>4, <2>5
<1> QED
  BY <1>1, <1>2, <1>3, <1>4 DEF PoolInv

(* The poller looks at pollStop, or stops. *)
LEMMA PollerKeeps ==
    ASSUME PoolInv, PollCheck \/ PollExit
    PROVE  PoolInv'
<1> USE DEF PollCheck, PollExit, Polls, rows, counts, phase, failures
<1>0. PICK p \in {"wait", "loop", "checked", "holding", "exited"} :
        /\ poller' = [poller EXCEPT !.pc = p]
        /\ p \in {"wait", "checked", "exited"}
        /\ p = "checked" => ~ stopping
        /\ poller.pc \in {"wait", "loop"}
        /\ durable /\ started
  BY DEF PoolInv, TypeOK
<1>1. poller' \in [pc : {"wait", "loop", "checked", "holding", "exited"}, job : Jobs \cup {NoJob}]
      /\ poller'.job = poller.job /\ poller'.pc = p
  BY <1>0 DEF PoolInv, TypeOK
<1>u. UNCHANGED <<rows, sub, ch, counts, phase, worker, failures>>
  OBVIOUS
<1>2. TypeOK' /\ (capacity \in Nat /\ pool # {})' /\ Once(ch)' /\ Once(due)'
  BY <1>1, <1>u DEF PoolInv, TypeOK
<1>3. ASSUME NEW j \in Jobs PROVE JobInv(j)'
  <2>1. JobInv(j)
    BY DEF PoolInv
  <2> QED
    BY <1>1, <1>u, <2>1 DEF JobInv, AtWorker
<1>4. ASSUME NEW w \in Workers PROVE WorkerInv(w)'
  <2>1. WorkerInv(w)
    BY DEF PoolInv
  <2> QED
    BY <1>1, <1>u, <2>1 DEF WorkerInv
<1>5. PhaseInv'
  <2>1. PhaseInv /\ TypeOK
    BY DEF PoolInv
  <2>2. MidSubmission' = MidSubmission
    BY <1>u DEF MidSubmission
  <2> QED
    BY <1>0, <1>1, <1>u, <2>1, <2>2 DEF PhaseInv, TypeOK
<1> QED
  BY <1>2, <1>3, <1>4, <1>5 DEF PoolInv


(* What every operation knows of a job and of a worker. *)
LEMMA PoolFacts ==
    ASSUME PoolInv
    PROVE  /\ TypeOK /\ capacity \in Nat /\ pool # {} /\ Once(ch) /\ Once(due) /\ PhaseInv
           /\ \A j \in Jobs : JobInv(j)
           /\ \A w \in Workers : WorkerInv(w)
           /\ NoJob \notin Jobs
BY WorkerPoolAssumption DEF PoolInv

(* A worker has one next step; another worker keeps its own. *)
LEMMA GoesTypes ==
    ASSUME TypeOK, NEW w \in Workers,
           NEW s \in {"idle", "handling", "requeue", "children", "check", "exited"},
           Goes(w, s)
    PROVE  /\ worker' \in [Workers -> [pc : {"idle", "handling", "requeue", "children", "check", "exited"},
                                       job : Jobs \cup {NoJob}, kids : SUBSET Children]]
           /\ worker'[w].pc = s
           /\ \A v \in Workers : worker'[v].job = worker[v].job /\ worker'[v].kids = worker[v].kids
           /\ \A v \in Workers \ {w} : worker'[v] = worker[v]
BY DEF TypeOK, Goes

(* The checks of a worker between two jobs. *)
LEMMA CheckKeeps ==
    ASSUME PoolInv, NEW w \in Workers, CheckDone(w) \/ WorkerExit(w)
    PROVE  PoolInv'
<1> USE PoolFacts DEF CheckDone, WorkerExit, Waiting, rows, counts, phase, failures
<1>0. PICK s \in {"idle", "handling", "requeue", "children", "check", "exited"} :
        /\ Goes(w, s)
        /\ s \in {"idle", "exited"}
        /\ worker[w].pc \in {"idle", "check"}
        /\ s = "exited" => closed /\ ch = <<>> /\ started /\ w \in pool
  OBVIOUS
<1>1. /\ worker' \in [Workers -> [pc : {"idle", "handling", "requeue", "children", "check", "exited"},
                                  job : Jobs \cup {NoJob}, kids : SUBSET Children]]
      /\ worker'[w].pc = s
      /\ \A v \in Workers : worker'[v].job = worker[v].job /\ worker'[v].kids = worker[v].kids
      /\ \A v \in Workers \ {w} : worker'[v] = worker[v]
  BY <1>0, GoesTypes
<1>u. UNCHANGED <<rows, sub, ch, counted, inFlight, slipped, phase, poller, failures>>
  OBVIOUS
<1>2. TypeOK' /\ (capacity \in Nat /\ pool # {})' /\ Once(ch)' /\ Once(due)'
  BY <1>1, <1>u DEF TypeOK
<1>3. ASSUME NEW j \in Jobs PROVE JobInv(j)'
  <2>1. JobInv(j)
    OBVIOUS
  <2>2. AtWorker(j)' <=> AtWorker(j)
    BY <1>1 DEF AtWorker
  <2> QED
    BY <1>u, <2>1, <2>2 DEF JobInv
<1>4. ASSUME NEW v \in Workers PROVE WorkerInv(v)'
  <2>1. WorkerInv(v) /\ WorkerInv(w)
    OBVIOUS
  <2>2. CASE v = w
    BY <1>0, <1>1, <1>u, <2>1, <2>2 DEF WorkerInv
  <2>3. CASE v # w
    BY <1>1, <1>u, <2>1, <2>3 DEF WorkerInv
  <2> QED
    BY <2>2, <2>3
<1>5. PhaseInv'
  <2>1. MidSubmission' = MidSubmission
    BY <1>u DEF MidSubmission
  <2>2. started
    <3>1. WorkerInv(w)
      OBVIOUS
    <3> QED
      BY <3>1 DEF WorkerInv
  <2> QED
    BY <1>u, <2>1, <2>2 DEF PhaseInv
<1> QED
  BY <1>2, <1>3, <1>4, <1>5 DEF PoolInv

(* Time passes: a pending row becomes due. *)
LEMMA DueKeeps ==
    ASSUME PoolInv, NEW j \in Jobs, BecomesDue(j)
    PROVE  PoolInv'
<1> USE PoolFacts DEF BecomesDue, counts, phase, failures
<1>u. UNCHANGED <<status, attempts, sub, ch, counts, phase, worker, poller, failures>>
  OBVIOUS
<1>0. due \in Seq(Jobs) /\ due' = Append(due, j) /\ ~ Holds(due, j) /\ durable /\ status[j] = "pending"
  BY DEF TypeOK, Holds
<1>1. /\ due' \in Seq(Jobs) /\ Once(due')
      /\ \A k : Holds(due', k) <=> Holds(due, k) \/ k = j
  BY <1>0, AppendHolds
<1>2. TypeOK' /\ (capacity \in Nat /\ pool # {})' /\ Once(ch)' /\ Once(due)'
  BY <1>1, <1>u DEF TypeOK
<1>3. ASSUME NEW k \in Jobs PROVE JobInv(k)'
  <2>1. JobInv(k)
    OBVIOUS
  <2> QED
    BY <1>0, <1>1, <1>u, <2>1 DEF JobInv, AtWorker
<1>4. ASSUME NEW v \in Workers PROVE WorkerInv(v)'
  <2>1. WorkerInv(v)
    OBVIOUS
  <2> QED
    BY <1>u, <2>1 DEF WorkerInv
<1>5. PhaseInv'
  BY <1>u DEF PhaseInv, MidSubmission
<1> QED
  BY <1>2, <1>3, <1>4, <1>5 DEF PoolInv

(* The counting half of a submission. *)
LEMMA SubmitBeginKeeps ==
    ASSUME PoolInv, NEW j \in External \cup Children, SubmitBegin(j)
    PROVE  PoolInv'
<1> USE PoolFacts DEF rows, phase, failures
<1>u. UNCHANGED <<rows, ch, slipped, done, phase, worker, poller, failures>>
  BY DEF SubmitBegin
<1>0. /\ j \in Jobs
      /\ ~ stopping /\ sub[j] = "none"
      /\ sub' = [sub EXCEPT ![j] = "counted"]
      /\ counted' = counted \cup {j} /\ inFlight' = inFlight + 1
  BY DEF SubmitBegin, Count, Jobs
<1>1. /\ j \in External => ~ started
      /\ ~ started => \A e \in External : sub[e] \in {"none", "returned"}
  <2>1. ASSUME NEW w \in Workers, Submitting(w, j) PROVE j \in Children /\ started
    <3>1. WorkerInv(w)
      OBVIOUS
    <3> QED
      BY <2>1, <3>1 DEF WorkerInv, TypeOK, Submitting
  <2> QED
    BY <2>1, WorkerPoolAssumption DEF SubmitBegin
<1>2. TypeOK' /\ (capacity \in Nat /\ pool # {})' /\ Once(ch)' /\ Once(due)'
  BY <1>0, <1>u DEF TypeOK, Jobs
<1>3. ASSUME NEW k \in Jobs PROVE JobInv(k)'
  <2>1. JobInv(k) /\ JobInv(j)
    BY <1>0
  <2>2. sub'[k] = IF k = j THEN "counted" ELSE sub[k]
    BY <1>0 DEF TypeOK
  <2> QED
    BY <1>0, <1>u, <2>1, <2>2 DEF JobInv, AtWorker
<1>4. ASSUME NEW v \in Workers PROVE WorkerInv(v)'
  <2>1. WorkerInv(v)
    OBVIOUS
  <2> QED
    BY <1>0, <1>u, <2>1 DEF WorkerInv
<1>5. PhaseInv'
  <2>1. \A e \in External : sub'[e] = IF e = j THEN "counted" ELSE sub[e]
    BY <1>0 DEF TypeOK, Jobs
  <2>2. ~ closed
    BY <1>0, <1>1 DEF PhaseInv
  <2>3. (started => \A e \in External : sub[e] = "returned")'
    BY <1>1, <1>u, <2>1 DEF PhaseInv
  <2> QED
    BY <1>u, <2>2, <2>3 DEF PhaseInv
<1> QED
  BY <1>2, <1>3, <1>4, <1>5 DEF PoolInv


(* A job whose row is not written yet is nowhere. *)
LEMMA AbsentNowhere ==
    ASSUME PoolInv, NEW j \in Jobs, status[j] = "absent"
    PROVE  ~ Holds(due, j) /\ ~ Holds(ch, j) /\ poller.job # j /\ ~ AtWorker(j)
<1> USE PoolFacts
<1>1. ASSUME NEW v \in Workers, worker[v].job = j PROVE FALSE
  <2>1. WorkerInv(v)
    OBVIOUS
  <2> QED
    BY <1>1, <2>1 DEF WorkerInv, TypeOK, Finished
<1>2. JobInv(j)
  OBVIOUS
<1> QED
  BY <1>1, <1>2 DEF JobInv, AtWorker

(* Rows are written, and submissions move on, one at a time: the phase of  *)
(* the pool is not disturbed.                                              *)
LEMMA SubmissionPhase ==
    ASSUME PoolInv, NEW j \in External \cup Children, NEW s \in Returned \cup {"created"},
           sub' = [sub EXCEPT ![j] = s],
           UNCHANGED <<phase, done, poller>>,
           j \in External => sub[j] \in {"counted", "created"},
           s = "created" => sub[j] = "counted"
    PROVE  PhaseInv'
<1> USE PoolFacts DEF phase
<1>1. \A k \in Jobs : sub'[k] = IF k = j THEN s ELSE sub[k]
  BY DEF TypeOK
<1>2. ASSUME MidSubmission = {} PROVE MidSubmission' = {}
  <2>1. j \in Jobs /\ \A k \in Jobs : sub[k] \notin {"counted", "created"}
    BY <1>2 DEF MidSubmission, Jobs
  <2>2. s # "created"
    BY <2>1
  <2> QED
    BY <1>1, <2>1, <2>2 DEF MidSubmission, Returned
<1>3. (started => \A e \in External : sub[e] = "returned")'
  BY <1>1 DEF PhaseInv, Jobs
<1>4. ASSUME NEW e \in External, sub[e] = "failed" PROVE sub'[e] = "failed"
  BY <1>1, <1>4 DEF Jobs
<1> QED
  BY <1>2, <1>3, <1>4 DEF PhaseInv

(* The row of a submission is written, or the submission fails. *)
LEMMA CreateJobKeeps ==
    ASSUME PoolInv, NEW j \in External \cup Children, CreateJob(j)
    PROVE  PoolInv'
<1> USE PoolFacts DEF rows, counts, phase, failures
<1>u. UNCHANGED <<ch, phase, worker, poller, attempts, slipped, done>>
  BY DEF CreateJob
<1>0. j \in Jobs /\ durable /\ sub[j] = "counted" /\ JobInv(j)
  BY DEF CreateJob, Jobs
<1>1. status[j] = "absent" /\ ~ Holds(due, j) /\ ~ Holds(ch, j) /\ poller.job # j /\ ~ AtWorker(j)
  BY <1>0, AbsentNowhere DEF JobInv
<1>2. CASE /\ InsertRow(j)
           /\ sub' = [sub EXCEPT ![j] = IF j \in Children THEN "returned" ELSE "created"]
           /\ UNCHANGED <<attempts, counts, failures>>
  <2>1. /\ due' \in Seq(Jobs) /\ Once(due')
        /\ \A k : Holds(due', k) <=> Holds(due, k) \/ k = j
    BY <1>0, <1>1, <1>2, AppendHolds DEF InsertRow, TypeOK
  <2>2. /\ \A k \in Jobs : status'[k] = IF k = j THEN "pending" ELSE status[k]
        /\ \A k \in Jobs : sub'[k] = IF k = j THEN (IF j \in Children THEN "returned" ELSE "created") ELSE sub[k]
    BY <1>0, <1>2 DEF InsertRow, TypeOK
  <2>3. TypeOK' /\ (capacity \in Nat /\ pool # {})' /\ Once(ch)' /\ Once(due)'
    BY <1>0, <1>2, <1>u, <2>1 DEF TypeOK, InsertRow, JobStatuses, Returned
  <2>4. ASSUME NEW k \in Jobs PROVE JobInv(k)'
    <3>1. JobInv(k)
      OBVIOUS
    <3>2. CASE k = j
      BY <1>0, <1>1, <1>2, <1>u, <2>1, <2>2, <3>2 DEF JobInv, AtWorker
    <3>3. CASE k # j
      BY <1>2, <1>u, <2>1, <2>2, <3>1, <3>3 DEF JobInv, AtWorker
    <3> QED
      BY <3>2, <3>3
  <2>5. ASSUME NEW v \in Workers PROVE WorkerInv(v)'
    <3>1. WorkerInv(v) /\ worker[v].job # j
      BY <1>1 DEF AtWorker
    <3>2. worker[v].job # NoJob => status'[worker[v].job] = status[worker[v].job]
      BY <2>2, <3>1 DEF TypeOK
    <3> QED
      BY <1>2, <1>u, <3>1, <3>2 DEF WorkerInv
  <2>6. PhaseInv'
    BY <1>0, <1>2, <1>u, SubmissionPhase DEF Returned
  <2> QED
    BY <2>3, <2>4, <2>5, <2>6 DEF PoolInv
<1>3. CASE /\ Fault
           /\ Uncount(j)
           /\ sub' = [sub EXCEPT ![j] = "failed"]
           /\ stranded' = stranded \cup {j}
           /\ UNCHANGED <<rows, slipped, done>>
  <2>2. \A k \in Jobs : sub'[k] = IF k = j THEN "failed" ELSE sub[k]
    BY <1>0, <1>3 DEF TypeOK
  <2>3. TypeOK' /\ (capacity \in Nat /\ pool # {})' /\ Once(ch)' /\ Once(due)'
    BY <1>0, <1>3, <1>u, WorkerPoolAssumption DEF TypeOK, Fault, Uncount, Returned
  <2>4. ASSUME NEW k \in Jobs PROVE JobInv(k)'
    <3>1. JobInv(k)
      OBVIOUS
    <3>2. CASE k = j
      BY <1>0, <1>1, <1>3, <1>u, <2>2, <3>2 DEF JobInv, AtWorker
    <3>3. CASE k # j
      BY <1>3, <1>u, <2>2, <3>1, <3>3 DEF JobInv, AtWorker, Uncount
    <3> QED
      BY <3>2, <3>3
  <2>5. ASSUME NEW v \in Workers PROVE WorkerInv(v)'
    <3>1. WorkerInv(v) /\ worker[v].job # j
      BY <1>1 DEF AtWorker
    <3> QED
      BY <1>3, <1>u, <3>1 DEF WorkerInv, Uncount
  <2>6. PhaseInv'
    BY <1>0, <1>3, <1>u, SubmissionPhase DEF Returned
  <2> QED
    BY <2>3, <2>4, <2>5, <2>6 DEF PoolInv
<1> QED
  BY <1>2, <1>3 DEF CreateJob

(* The send of a submission. *)
LEMMA SubmitSendKeeps ==
    ASSUME PoolInv, NEW j \in External \cup Children, SubmitSend(j)
    PROVE  PoolInv'
<1> USE PoolFacts DEF rows, counts, phase, failures
<1>u. UNCHANGED <<attempts, due, counts, phase, worker, poller, failures>>
  BY DEF SubmitSend
<1> DEFINE x == IF durable THEN NoJob ELSE j
<1>0. /\ j \in Jobs /\ JobInv(j)
      /\ sub[j] = IF durable THEN "created" ELSE "counted"
      /\ Len(ch) < capacity /\ ch' = Append(ch, x)
      /\ status' = [status EXCEPT ![j] = "pending"]
      /\ sub' = [sub EXCEPT ![j] = "returned"]
  BY DEF SubmitSend, Jobs
<1>1. /\ durable => status[j] = "pending"
      /\ ~ durable => ~ Holds(ch, j) /\ poller.job # j /\ ~ AtWorker(j)
      /\ j \in counted
  BY <1>0, AbsentNowhere DEF JobInv
<1>2. /\ ch' \in Seq(Jobs \cup {NoJob}) /\ Len(ch') = Len(ch) + 1 /\ Once(ch')
      /\ \A k : Holds(ch', k) <=> Holds(ch, k) \/ k = x
  <2>1. x \in Jobs \cup {NoJob} /\ ch \in Seq(Jobs \cup {NoJob}) /\ (x \in Jobs => ~ Holds(ch, x))
    BY <1>0, <1>1 DEF TypeOK
  <2> HIDE DEF x
  <2> QED
    BY <1>0, <2>1, AppendHolds
<1>3. /\ \A k \in Jobs : status'[k] = IF k = j THEN "pending" ELSE status[k]
      /\ \A k \in Jobs : sub'[k] = IF k = j THEN "returned" ELSE sub[k]
  BY <1>0 DEF TypeOK
<1>4. TypeOK' /\ (capacity \in Nat /\ pool # {})' /\ Once(ch)' /\ Once(due)'
  <2>1. Len(ch') <= capacity
    BY <1>0, <1>2 DEF TypeOK
  <2> QED
    BY <1>0, <1>2, <1>u, <2>1 DEF TypeOK, JobStatuses, Returned
<1>5. ASSUME NEW k \in Jobs PROVE JobInv(k)'
  <2>1. JobInv(k)
    OBVIOUS
  <2>2. CASE k = j
    BY <1>0, <1>1, <1>2, <1>3, <1>u, <2>2 DEF JobInv, AtWorker
  <2>3. CASE k # j
    BY <1>2, <1>3, <1>u, <2>1, <2>3 DEF JobInv, AtWorker
  <2> QED
    BY <2>2, <2>3
<1>6. ASSUME NEW v \in Workers PROVE WorkerInv(v)'
  <2>1. WorkerInv(v)
    OBVIOUS
  <2>2. ~ durable => worker[v].job # j
    BY <1>1 DEF AtWorker
  <2>3. worker[v].job # NoJob =>
           status'[worker[v].job] = status[worker[v].job] /\ ~ Holds(ch', worker[v].job)
    BY <1>1, <1>2, <1>3, <2>1, <2>2 DEF TypeOK, WorkerInv
  <2>4. worker[v].pc # "exited"
    <3>1. j \in MidSubmission
      BY <1>0 DEF MidSubmission
    <3> QED
      BY <2>1, <3>1 DEF WorkerInv, PhaseInv
  <2> QED
    BY <1>u, <2>1, <2>3, <2>4 DEF WorkerInv
<1>7. PhaseInv'
  BY <1>0, <1>u, SubmissionPhase DEF Returned
<1> QED
  BY <1>4, <1>5, <1>6, <1>7 DEF PoolInv

(* A child of a pool that is stopping. *)
LEMMA PersistChildKeeps ==
    ASSUME PoolInv, NEW w \in Workers, NEW j \in Children, PersistChild(w, j)
    PROVE  PoolInv'
<1> USE PoolFacts DEF rows, counts, phase, failures
<1>u. UNCHANGED <<ch, counts, phase, worker, poller, attempts>>
  BY DEF PersistChild
<1>0. /\ j \in Jobs /\ j \notin External /\ sub[j] = "none" /\ JobInv(j)
  BY WorkerPoolAssumption DEF PersistChild, Submitting, Jobs
<1>1. status[j] = "absent" /\ ~ Holds(due, j) /\ ~ Holds(ch, j) /\ poller.job # j /\ ~ AtWorker(j)
  BY <1>0, AbsentNowhere DEF JobInv
<1>2. CASE /\ durable
           /\ InsertRow(j)
           /\ sub' = [sub EXCEPT ![j] = "persisted"]
           /\ UNCHANGED <<attempts, failures>>
  <2>1. /\ due' \in Seq(Jobs) /\ Once(due')
        /\ \A k : Holds(due', k) <=> Holds(due, k) \/ k = j
    BY <1>0, <1>1, <1>2, AppendHolds DEF InsertRow, TypeOK
  <2>2. /\ \A k \in Jobs : status'[k] = IF k = j THEN "pending" ELSE status[k]
        /\ \A k \in Jobs : sub'[k] = IF k = j THEN "persisted" ELSE sub[k]
    BY <1>0, <1>2 DEF InsertRow, TypeOK
  <2>3. TypeOK' /\ (capacity \in Nat /\ pool # {})' /\ Once(ch)' /\ Once(due)'
    BY <1>0, <1>2, <1>u, <2>1 DEF TypeOK, InsertRow, JobStatuses, Returned
  <2>4. ASSUME NEW k \in Jobs PROVE JobInv(k)'
    <3>1. JobInv(k)
      OBVIOUS
    <3> QED
      BY <1>0, <1>1, <1>2, <1>u, <2>1, <2>2, <3>1 DEF JobInv, AtWorker
  <2>5. ASSUME NEW v \in Workers PROVE WorkerInv(v)'
    <3>1. WorkerInv(v) /\ worker[v].job # j
      BY <1>1 DEF AtWorker
    <3>2. worker[v].job # NoJob => status'[worker[v].job] = status[worker[v].job]
      BY <2>2, <3>1 DEF TypeOK
    <3> QED
      BY <1>2, <1>u, <3>1, <3>2 DEF WorkerInv
  <2>6. PhaseInv'
    BY <1>0, <1>2, <1>u, SubmissionPhase DEF Returned
  <2> QED
    BY <2>3, <2>4, <2>5, <2>6 DEF PoolInv
<1>3. CASE /\ IF durable THEN Fault ELSE UNCHANGED faults
           /\ sub' = [sub EXCEPT ![j] = "dropped"]
           /\ stranded' = stranded \cup {j}
           /\ UNCHANGED rows
  <2>2. \A k \in Jobs : sub'[k] = IF k = j THEN "dropped" ELSE sub[k]
    BY <1>0, <1>3 DEF TypeOK
  <2>3. TypeOK' /\ (capacity \in Nat /\ pool # {})' /\ Once(ch)' /\ Once(due)'
    BY <1>0, <1>3, <1>u, WorkerPoolAssumption DEF TypeOK, Fault, Returned
  <2>4. ASSUME NEW k \in Jobs PROVE JobInv(k)'
    <3>1. JobInv(k)
      OBVIOUS
    <3> QED
      BY <1>0, <1>1, <1>3, <1>u, <2>2, <3>1 DEF JobInv, AtWorker
  <2>5. ASSUME NEW v \in Workers PROVE WorkerInv(v)'
    <3>1. WorkerInv(v) /\ worker[v].job # j
      BY <1>1 DEF AtWorker
    <3> QED
      BY <1>3, <1>u, <3>1 DEF WorkerInv
  <2>6. PhaseInv'
    BY <1>0, <1>3, <1>u, SubmissionPhase DEF Returned
  <2> QED
    BY <2>3, <2>4, <2>5, <2>6 DEF PoolInv
<1> QED
  BY <1>2, <1>3 DEF PersistChild


(* A worker that takes up another record. *)
LEMMA WorkerTypes ==
    ASSUME TypeOK, NEW w \in Workers,
           NEW r \in [pc : {"idle", "handling", "requeue", "children", "check", "exited"},
                      job : Jobs \cup {NoJob}, kids : SUBSET Children],
           worker' = [worker EXCEPT ![w] = r]
    PROVE  /\ worker' \in [Workers -> [pc : {"idle", "handling", "requeue", "children", "check", "exited"},
                                       job : Jobs \cup {NoJob}, kids : SUBSET Children]]
           /\ worker'[w] = r
           /\ \A v \in Workers \ {w} : worker'[v] = worker[v]
BY DEF TypeOK

(* AcquireJob finds a row that nobody holds and takes it out of the ones   *)
(* that are due.                                                           *)
LEMMA AcquireFacts ==
    ASSUME PoolInv, NEW j \in Jobs, Acquire(j)
    PROVE  /\ due' \in Seq(Jobs) /\ Once(due')
           /\ \A k : Holds(due', k) <=> Holds(due, k) /\ k # j
           /\ status' \in [Jobs -> JobStatuses]
           /\ \A k \in Jobs : status'[k] = IF k = j THEN "running" ELSE status[k]
           /\ durable /\ status[j] = "pending"
           /\ ~ Holds(ch, j) /\ poller.job # j /\ ~ AtWorker(j)
           /\ sub[j] \notin {"counted"} /\ (sub[j] = "none" => j \notin External \cup Children)
<1> USE PoolFacts
<1>1. due \in Seq(Jobs) /\ due # <<>> /\ j = Head(due) /\ due' = Tail(due)
  BY DEF TypeOK, Acquire
<1>2. /\ due' \in Seq(Jobs) /\ Once(due') /\ ~ Holds(due', j)
      /\ \A k : Holds(due, k) <=> Holds(due', k) \/ k = j
  BY <1>1, TailHolds
<1>3. durable /\ status[j] = "pending" /\ JobInv(j)
  BY <1>2 DEF JobInv
<1>4. ASSUME NEW v \in Workers, worker[v].job = j PROVE FALSE
  <2>1. WorkerInv(v)
    OBVIOUS
  <2> QED
    BY <1>3, <1>4, <2>1 DEF WorkerInv, TypeOK, Finished
<1>5. status' \in [Jobs -> JobStatuses] /\ \A k \in Jobs : status'[k] = IF k = j THEN "running" ELSE status[k]
  BY DEF Acquire, TypeOK, JobStatuses
<1> QED
  BY <1>2, <1>3, <1>4, <1>5 DEF JobInv, AtWorker

(* A worker takes a job from the channel. *)
LEMMA DequeueJobKeeps ==
    ASSUME PoolInv, NEW w \in Workers, DequeueJob(w)
    PROVE  PoolInv'
<1> USE PoolFacts DEF rows, counts, phase, failures
<1> DEFINE j == Head(ch)
           r == [pc |-> "handling", job |-> j, kids |-> {}]
<1>u. UNCHANGED <<attempts, due, sub, inFlight, slipped, done, phase, poller, failures>>
  BY DEF DequeueJob
<1>0. /\ started /\ w \in pool /\ worker[w].pc = "idle" /\ ch # <<>> /\ j # NoJob /\ ch' = Tail(ch)
      /\ ch \in Seq(Jobs \cup {NoJob})
      /\ status' = [status EXCEPT ![j] = "running"]
      /\ worker' = [worker EXCEPT ![w] = r] /\ counted' = counted \cup {j}
  BY DEF DequeueJob, Waiting, Handles, TypeOK
<1>1. /\ j \in Jobs
      /\ ch' \in Seq(Jobs \cup {NoJob}) /\ Len(ch') = Len(ch) - 1 /\ Once(ch')
      /\ \A k : Holds(ch, k) <=> Holds(ch', k) \/ k = j
      /\ ~ Holds(ch', j)
  BY <1>0, TailHolds
<1>2. /\ worker' \in [Workers -> [pc : {"idle", "handling", "requeue", "children", "check", "exited"},
                                  job : Jobs \cup {NoJob}, kids : SUBSET Children]]
      /\ worker'[w] = r
      /\ \A v \in Workers \ {w} : worker'[v] = worker[v]
  BY <1>0, <1>1, WorkerTypes
<1>3. worker'[w].pc = "handling" /\ worker'[w].job = j
  BY <1>2
<1> HIDE DEF j, r
<1>4. /\ status' \in [Jobs -> JobStatuses]
      /\ \A k \in Jobs : status'[k] = IF k = j THEN "running" ELSE status[k]
  BY <1>0, <1>1 DEF TypeOK, JobStatuses
<1>5. JobInv(j) /\ WorkerInv(w) /\ Holds(ch, j)
  BY <1>1
<1>6. poller.job # j /\ \A v \in Workers : worker[v].job # j
  <2>1. ASSUME NEW v \in Workers, worker[v].job = j PROVE FALSE
    <3>1. WorkerInv(v)
      OBVIOUS
    <3> QED
      BY <1>1, <1>5, <2>1, <3>1 DEF WorkerInv
  <2> QED
    BY <1>5, <2>1 DEF JobInv
<1>7. TypeOK' /\ (capacity \in Nat /\ pool # {})' /\ Once(ch)' /\ Once(due)'
  <2>1. Len(ch') <= capacity
    BY <1>1 DEF TypeOK
  <2> QED
    BY <1>0, <1>1, <1>2, <1>4, <1>u, <2>1 DEF TypeOK
<1>8. ASSUME NEW k \in Jobs PROVE JobInv(k)'
  <2>1. JobInv(k) /\ k # NoJob
    OBVIOUS
  <2>2. CASE k = j
    <3>1. AtWorker(k)'
      BY <1>3, <2>2 DEF AtWorker
    <3>2. /\ status[j] = IF durable THEN "running" ELSE "pending"
          /\ status'[j] = "running"
      BY <1>1, <1>4, <1>5 DEF JobInv
    <3>3. sub[j] # "created"
      BY <1>0, <1>5 DEF JobInv, PhaseInv
    <3> QED
      BY <1>0, <1>1, <1>5, <1>6, <1>u, <2>2, <3>1, <3>2, <3>3 DEF JobInv
  <2>3. CASE k # j
    <3>1. AtWorker(k) => AtWorker(k)'
      <4>1. worker[w].job # k
        BY <1>0, <1>5, <2>1 DEF WorkerInv
      <4> QED
        BY <1>2, <4>1 DEF AtWorker
    <3>2. status'[k] = status[k] /\ (Holds(ch', k) <=> Holds(ch, k)) /\ (k \in counted' <=> k \in counted)
      BY <1>0, <1>1, <1>4, <2>3
    <3> QED
      BY <1>u, <2>1, <3>1, <3>2 DEF JobInv
  <2> QED
    BY <2>2, <2>3
<1>9. ASSUME NEW v \in Workers PROVE WorkerInv(v)'
  <2>1. CASE v = w
    <3>1. \A x \in Workers \ {w} : worker'[x].job # j
      BY <1>2, <1>6
    <3>2. status'[j] = "running" /\ j \in counted' /\ j # NoJob
      BY <1>0, <1>1, <1>4
    <3> QED
      BY <1>0, <1>1, <1>3, <1>6, <1>u, <2>1, <3>1, <3>2 DEF WorkerInv
  <2>2. CASE v # w
    <3>1. WorkerInv(v) /\ worker'[v] = worker[v] /\ worker[v].job # j
      BY <1>2, <1>6, <2>2
    <3>2. worker[v].job # NoJob => status'[worker[v].job] = status[worker[v].job]
      BY <1>4, <3>1 DEF TypeOK
    <3>3. worker[v].pc # "exited"
      BY <1>0, <3>1 DEF WorkerInv
    <3>4. \A x \in Workers : worker[v].job # NoJob /\ x # v => worker'[x].job # worker[v].job
      BY <1>2, <1>3, <3>1 DEF WorkerInv
    <3> QED
      BY <1>0, <1>1, <1>u, <3>1, <3>2, <3>3, <3>4 DEF WorkerInv
  <2> QED
    BY <2>1, <2>2
<1>10. PhaseInv'
  BY <1>u DEF PhaseInv, MidSubmission
<1> QED
  BY <1>7, <1>8, <1>9, <1>10 DEF PoolInv


(* A worker takes a signal and acquires a row, or none. *)
LEMMA DequeueSignalKeeps ==
    ASSUME PoolInv, NEW w \in Workers, DequeueSignal(w)
    PROVE  PoolInv'
<1> USE PoolFacts DEF rows, counts, phase, failures
<1>u. UNCHANGED <<attempts, sub, inFlight, done, phase, poller, stranded>>
  BY DEF DequeueSignal
<1>0. /\ started /\ w \in pool /\ worker[w].pc = "idle" /\ ch # <<>> /\ Head(ch) = NoJob /\ ch' = Tail(ch)
      /\ ch \in Seq(Jobs \cup {NoJob})
  BY DEF DequeueSignal, Waiting, TypeOK
<1>1. /\ ch' \in Seq(Jobs \cup {NoJob}) /\ Len(ch') = Len(ch) - 1 /\ Once(ch')
      /\ \A k \in Jobs : Holds(ch', k) <=> Holds(ch, k)
  BY <1>0, TailHolds
<1>2. Len(ch') <= capacity
  BY <1>1 DEF TypeOK
<1>3. PhaseInv'
  BY <1>u DEF PhaseInv, MidSubmission
<1>4. ASSUME NEW v \in Workers
      PROVE  /\ worker[v].pc # "exited"
             /\ worker[v].job # NoJob => worker[v].job \in Jobs /\ ~ Holds(ch', worker[v].job)
  <2>1. WorkerInv(v)
    OBVIOUS
  <2> QED
    BY <1>0, <1>1, <2>1 DEF WorkerInv, TypeOK
<1>5. CASE /\ UNCHANGED <<status, due, counted, slipped, worker>>
           /\ UNCHANGED faults \/ Fault
  <2>1. TypeOK' /\ (capacity \in Nat /\ pool # {})' /\ Once(ch)' /\ Once(due)'
    BY <1>1, <1>2, <1>5, <1>u, WorkerPoolAssumption DEF TypeOK, Fault
  <2>2. ASSUME NEW k \in Jobs PROVE JobInv(k)'
    <3>1. JobInv(k)
      OBVIOUS
    <3> QED
      BY <1>1, <1>5, <1>u, <3>1 DEF JobInv, AtWorker
  <2>3. ASSUME NEW v \in Workers PROVE WorkerInv(v)'
    <3>1. WorkerInv(v)
      OBVIOUS
    <3> QED
      BY <1>4, <1>5, <1>u, <3>1 DEF WorkerInv
  <2> QED
    BY <1>3, <2>1, <2>2, <2>3 DEF PoolInv
<1>6. ASSUME NEW j \in Jobs, Acquire(j), Handles(w, j), slipped' = slipped \cup ({j} \ counted), UNCHANGED faults
      PROVE  PoolInv'
  <2> DEFINE r == [pc |-> "handling", job |-> j, kids |-> {}]
  <2>0. worker' = [worker EXCEPT ![w] = r] /\ counted' = counted \cup {j} /\ faults' = faults
    BY <1>6 DEF Handles
  <2>1. /\ worker' \in [Workers -> [pc : {"idle", "handling", "requeue", "children", "check", "exited"},
                                    job : Jobs \cup {NoJob}, kids : SUBSET Children]]
        /\ worker'[w] = r
        /\ \A v \in Workers \ {w} : worker'[v] = worker[v]
    BY <2>0, WorkerTypes
  <2>2. worker'[w].pc = "handling" /\ worker'[w].job = j
    BY <2>1
  <2> HIDE DEF r
  <2>3. /\ due' \in Seq(Jobs) /\ Once(due')
        /\ \A k : Holds(due', k) <=> Holds(due, k) /\ k # j
        /\ status' \in [Jobs -> JobStatuses]
        /\ \A k \in Jobs : status'[k] = IF k = j THEN "running" ELSE status[k]
        /\ durable /\ status[j] = "pending"
        /\ ~ Holds(ch, j) /\ poller.job # j /\ ~ AtWorker(j)
        /\ sub[j] \notin {"counted"} /\ (sub[j] = "none" => j \notin External \cup Children)
    BY <1>6, AcquireFacts
  <2>4. TypeOK' /\ (capacity \in Nat /\ pool # {})' /\ Once(ch)' /\ Once(due)'
    BY <1>1, <1>2, <1>6, <1>u, <2>0, <2>1, <2>3 DEF TypeOK
  <2>5. ASSUME NEW k \in Jobs PROVE JobInv(k)'
    <3>1. JobInv(k) /\ k # NoJob
      OBVIOUS
    <3>2. CASE k = j
      <4>1. AtWorker(k)' /\ k \in counted' /\ status'[k] = "running"
        BY <2>0, <2>2, <2>3, <3>2 DEF AtWorker
      <4>2. sub[k] # "created"
        BY <1>0, <3>1 DEF JobInv, PhaseInv
      <4> QED
        BY <1>1, <1>u, <2>3, <3>1, <3>2, <4>1, <4>2 DEF JobInv
    <3>3. CASE k # j
      <4>1. AtWorker(k) => AtWorker(k)'
        <5>1. WorkerInv(w)
          OBVIOUS
        <5>2. worker[w].job # k
          BY <1>0, <3>1, <5>1 DEF WorkerInv
        <5> QED
          BY <2>1, <5>2 DEF AtWorker
      <4>2. status'[k] = status[k] /\ (k \in counted' <=> k \in counted)
        BY <2>0, <2>3, <3>3
      <4> QED
        BY <1>1, <1>u, <2>3, <3>1, <3>3, <4>1, <4>2 DEF JobInv
    <3> QED
      BY <3>2, <3>3
  <2>6. ASSUME NEW v \in Workers PROVE WorkerInv(v)'
    <3>1. CASE v = w
      <4>1. \A x \in Workers \ {w} : worker'[x].job # j
        BY <2>1, <2>3 DEF AtWorker
      <4>2. status'[j] = "running" /\ j \in counted' /\ j # NoJob /\ ~ Holds(ch', j)
        BY <1>1, <2>0, <2>3
      <4> QED
        BY <1>0, <1>u, <2>2, <2>3, <3>1, <4>1, <4>2 DEF WorkerInv
    <3>2. CASE v # w
      <4>1. WorkerInv(v) /\ worker'[v] = worker[v] /\ worker[v].job # j
        BY <2>1, <2>3, <3>2 DEF AtWorker
      <4>2. worker[v].job # NoJob => status'[worker[v].job] = status[worker[v].job]
        BY <1>4, <2>3, <4>1
      <4>3. \A x \in Workers : worker[v].job # NoJob /\ x # v => worker'[x].job # worker[v].job
        BY <2>1, <2>2, <4>1 DEF WorkerInv
      <4> QED
        BY <1>4, <1>u, <2>0, <4>1, <4>2, <4>3 DEF WorkerInv
    <3> QED
      BY <3>1, <3>2
  <2> QED
    BY <1>3, <2>4, <2>5, <2>6 DEF PoolInv
<1> QED
  BY <1>5, <1>6 DEF DequeueSignal

(* The poller acquires a row and holds it, or goes back to waiting. *)
LEMMA PollAcquireKeeps ==
    ASSUME PoolInv, PollAcquire
    PROVE  PoolInv'
<1> USE PoolFacts DEF rows, counts, phase, failures
<1>u. UNCHANGED <<attempts, sub, ch, slipped, done, phase, worker, stranded>>
  BY DEF PollAcquire
<1>0. poller.pc = "checked" /\ durable /\ started /\ poller.job = NoJob
  BY DEF PollAcquire, PhaseInv
<1>1. CASE /\ (due = <<>> /\ UNCHANGED faults) \/ Fault
           /\ Polls("wait")
           /\ UNCHANGED <<status, due, counted, inFlight>>
  <2>1. poller'.pc = "wait" /\ poller'.job = NoJob
        /\ poller' \in [pc : {"wait", "loop", "checked", "holding", "exited"}, job : Jobs \cup {NoJob}]
    BY <1>0, <1>1 DEF Polls, TypeOK
  <2>2. TypeOK' /\ (capacity \in Nat /\ pool # {})' /\ Once(ch)' /\ Once(due)'
    BY <1>1, <1>u, <2>1, WorkerPoolAssumption DEF TypeOK, Fault
  <2>3. ASSUME NEW k \in Jobs PROVE JobInv(k)'
    <3>1. JobInv(k)
      OBVIOUS
    <3> QED
      BY <1>0, <1>1, <1>u, <2>1, <3>1 DEF JobInv, AtWorker
  <2>4. ASSUME NEW v \in Workers PROVE WorkerInv(v)'
    <3>1. WorkerInv(v)
      OBVIOUS
    <3> QED
      BY <1>0, <1>1, <1>u, <2>1, <3>1 DEF WorkerInv
  <2>5. PhaseInv'
    BY <1>0, <1>u, <2>1 DEF PhaseInv, MidSubmission
  <2> QED
    BY <2>2, <2>3, <2>4, <2>5 DEF PoolInv
<1>2. ASSUME NEW j \in Jobs, Acquire(j), CountOnce(j), poller' = [pc |-> "holding", job |-> j], UNCHANGED faults
      PROVE  PoolInv'
  <2>1. poller'.pc = "holding" /\ poller'.job = j
        /\ poller' \in [pc : {"wait", "loop", "checked", "holding", "exited"}, job : Jobs \cup {NoJob}]
    BY <1>2
  <2>2. counted' = counted \cup {j} /\ inFlight' \in Int
    BY <1>2 DEF CountOnce, TypeOK
  <2>3. /\ due' \in Seq(Jobs) /\ Once(due')
        /\ \A k : Holds(due', k) <=> Holds(due, k) /\ k # j
        /\ status' \in [Jobs -> JobStatuses]
        /\ \A k \in Jobs : status'[k] = IF k = j THEN "running" ELSE status[k]
        /\ durable /\ status[j] = "pending"
        /\ ~ Holds(ch, j) /\ poller.job # j /\ ~ AtWorker(j)
        /\ sub[j] \notin {"counted"} /\ (sub[j] = "none" => j \notin External \cup Children)
    BY <1>2, AcquireFacts
  <2>4. TypeOK' /\ (capacity \in Nat /\ pool # {})' /\ Once(ch)' /\ Once(due)'
    BY <1>2, <1>u, <2>1, <2>2, <2>3 DEF TypeOK
  <2>5. ASSUME NEW k \in Jobs PROVE JobInv(k)'
    <3>1. JobInv(k) /\ (k = j => sub[k] # "created")
      BY <1>0 DEF JobInv, PhaseInv
    <3>2. CASE k = j
      BY <1>u, <2>1, <2>2, <2>3, <3>1, <3>2 DEF JobInv
    <3>3. CASE k # j
      BY <1>0, <1>u, <2>1, <2>2, <2>3, <3>1, <3>3 DEF JobInv, AtWorker
    <3> QED
      BY <3>2, <3>3
  <2>6. ASSUME NEW v \in Workers PROVE WorkerInv(v)'
    <3>1. WorkerInv(v) /\ worker[v].job # j
      BY <2>3 DEF AtWorker
    <3>2. worker[v].job # NoJob => status'[worker[v].job] = status[worker[v].job]
      BY <2>3, <3>1 DEF TypeOK
    <3> QED
      BY <1>u, <2>1, <2>2, <3>1, <3>2 DEF WorkerInv
  <2>7. PhaseInv'
    BY <1>0, <1>u, <2>1 DEF PhaseInv, MidSubmission
  <2> QED
    BY <2>4, <2>5, <2>6, <2>7 DEF PoolInv
<1> QED
  BY <1>1, <1>2 DEF PollAcquire

(* The poller puts the row it holds into the channel. *)
LEMMA PollDispatchKeeps ==
    ASSUME PoolInv, PollDispatch
    PROVE  PoolInv'
<1> USE PoolFacts DEF rows, counts, phase, failures
<1>u. UNCHANGED <<rows, sub, counts, phase, worker, failures>>
  BY DEF PollDispatch
<1> DEFINE j == poller.job
<1>0. /\ poller.pc = "holding" /\ durable /\ started
      /\ j \in Jobs /\ JobInv(j)
  BY DEF PollDispatch, PhaseInv, TypeOK
<1>1. ~ closed
  BY <1>0 DEF PhaseInv
<1>2. /\ status[j] = "running" /\ j \in counted /\ ~ Holds(ch, j)
      /\ ~ Holds(due, j) /\ ~ AtWorker(j)
  <2>1. ASSUME NEW v \in Workers, worker[v].job = j PROVE FALSE
    <3>1. WorkerInv(v)
      OBVIOUS
    <3> QED
      BY <1>0, <2>1, <3>1 DEF WorkerInv
  <2> QED
    BY <1>0, <2>1 DEF JobInv, AtWorker
<1>3. /\ Len(ch) < capacity /\ ch' = Append(ch, j)
      /\ poller'.pc = "loop" /\ poller'.job = NoJob
      /\ poller' \in [pc : {"wait", "loop", "checked", "holding", "exited"}, job : Jobs \cup {NoJob}]
  BY <1>1 DEF PollDispatch
<1> HIDE DEF j
<1>4. /\ ch' \in Seq(Jobs \cup {NoJob}) /\ Len(ch') = Len(ch) + 1 /\ Once(ch')
      /\ \A k : Holds(ch', k) <=> Holds(ch, k) \/ k = j
  <2>1. j \in Jobs \cup {NoJob} /\ ch \in Seq(Jobs \cup {NoJob})
    BY <1>0 DEF TypeOK
  <2> QED
    BY <1>2, <1>3, <2>1, AppendHolds
<1>5. TypeOK' /\ (capacity \in Nat /\ pool # {})' /\ Once(ch)' /\ Once(due)'
  <2>1. Len(ch') <= capacity
    BY <1>3, <1>4 DEF TypeOK
  <2> QED
    BY <1>3, <1>4, <1>u, <2>1 DEF TypeOK
<1>6. ASSUME NEW k \in Jobs PROVE JobInv(k)'
  <2>1. JobInv(k) /\ k # NoJob
    OBVIOUS
  <2> QED
    BY <1>0, <1>2, <1>3, <1>4, <1>u, <2>1 DEF JobInv, AtWorker, j
<1>7. ASSUME NEW v \in Workers PROVE WorkerInv(v)'
  <2>1. WorkerInv(v) /\ worker[v].job # j /\ worker[v].pc # "exited"
    BY <1>1, <1>2 DEF AtWorker, WorkerInv
  <2> QED
    BY <1>3, <1>4, <1>u, <2>1 DEF WorkerInv
<1>8. PhaseInv'
  BY <1>0, <1>1, <1>3, <1>u DEF PhaseInv, MidSubmission
<1> QED
  BY <1>5, <1>6, <1>7, <1>8 DEF PoolInv


(* What a worker knows of the job it holds. *)
LEMMA HeldFacts ==
    ASSUME PoolInv, NEW w \in Workers, worker[w].pc \in {"handling", "requeue", "children"}
    PROVE  LET j == worker[w].job IN
           /\ j \in Jobs /\ j \in counted
           /\ ~ Holds(ch, j) /\ ~ Holds(due, j) /\ poller.job # j
           /\ \A x \in Workers \ {w} : worker[x].job # j
           /\ status[j] \in Finished \cup {"running"}
           /\ started /\ w \in pool
           /\ sub[j] \notin {"counted", "created"}
           /\ sub[j] = "none" => j \notin External \cup Children
<1> USE PoolFacts
<1>1. WorkerInv(w)
  OBVIOUS
<1>2. worker[w].job \in Jobs /\ worker[w].job # NoJob
  BY <1>1 DEF WorkerInv, TypeOK
<1>3. JobInv(worker[w].job)
  BY <1>2
<1> QED
  BY <1>1, <1>2, <1>3 DEF WorkerInv, JobInv, Finished

(* A failed attempt with attempts left. *)
LEMMA HandlerRetriesKeeps ==
    ASSUME PoolInv, NEW w \in Workers, HandlerRetries(w)
    PROVE  PoolInv'
<1> USE PoolFacts DEF rows, counts, phase, failures
<1> DEFINE j == worker[w].job
<1>u. UNCHANGED <<sub, ch, counts, phase, poller, due>>
  BY DEF HandlerRetries
<1>0. worker[w].pc = "handling" /\ ~ Exhausted(j) /\ status[j] = "running"
  <2>1. WorkerInv(w)
    OBVIOUS
  <2> QED
    BY <2>1 DEF HandlerRetries, WorkerInv
<1>1. /\ j \in Jobs /\ j \in counted
      /\ ~ Holds(ch, j) /\ ~ Holds(due, j) /\ poller.job # j
      /\ \A x \in Workers \ {w} : worker[x].job # j
      /\ started /\ w \in pool
      /\ sub[j] \notin {"counted", "created"}
      /\ sub[j] = "none" => j \notin External \cup Children
  BY <1>0, HeldFacts
<1>2. attempts[j] + 1 \in Nat
  BY <1>1 DEF TypeOK
<1>3. PhaseInv'
  BY <1>u DEF PhaseInv, MidSubmission
<1>4. CASE durable /\ worker' = [worker EXCEPT ![w] = Idle]
  <2>1. /\ worker' \in [Workers -> [pc : {"idle", "handling", "requeue", "children", "check", "exited"},
                                    job : Jobs \cup {NoJob}, kids : SUBSET Children]]
        /\ worker'[w] = Idle
        /\ \A v \in Workers \ {w} : worker'[v] = worker[v]
    <3>1. Idle \in [pc : {"idle", "handling", "requeue", "children", "check", "exited"},
                    job : Jobs \cup {NoJob}, kids : SUBSET Children]
      BY DEF Idle
    <3> QED
      BY <1>4, <3>1, WorkerTypes
  <2>2. worker'[w].pc = "idle" /\ worker'[w].job = NoJob
    BY <2>1 DEF Idle
  <2>3. \/ /\ status' = [status EXCEPT ![j] = "pending"]
           /\ attempts' = [attempts EXCEPT ![j] = @ + 1]
           /\ UNCHANGED failures
        \/ /\ Fault
           /\ stranded' = stranded \cup {j}
           /\ UNCHANGED rows
    BY <1>4 DEF HandlerRetries
  <2> HIDE DEF j
  <2>4. /\ attempts' \in [Jobs -> Nat]
        /\ status' \in [Jobs -> JobStatuses]
        /\ \A k \in Jobs : k # j => status'[k] = status[k]
        /\ stranded \subseteq stranded' /\ stranded' \subseteq Jobs
        /\ status'[j] = "pending" \/ j \in stranded'
        /\ status'[j] \in {"pending", "running"}
        /\ \A k \in Jobs : k # j => (k \in stranded' <=> k \in stranded)
        /\ faults' \in 0..MaxFaults
    <3>1. CASE /\ status' = [status EXCEPT ![j] = "pending"]
               /\ attempts' = [attempts EXCEPT ![j] = @ + 1]
               /\ UNCHANGED failures
      BY <1>1, <1>2, <3>1 DEF TypeOK, JobStatuses
    <3>2. CASE Fault /\ stranded' = stranded \cup {j} /\ UNCHANGED rows
      <4>1. faults' \in 0..MaxFaults
        BY <3>2, WorkerPoolAssumption DEF Fault, TypeOK
      <4> QED
        BY <1>0, <1>1, <3>2, <4>1 DEF TypeOK, j
    <3> QED
      BY <2>3, <3>1, <3>2
  <2>5. TypeOK' /\ (capacity \in Nat /\ pool # {})' /\ Once(ch)' /\ Once(due)'
    BY <1>u, <2>1, <2>4 DEF TypeOK
  <2>6. ASSUME NEW k \in Jobs PROVE JobInv(k)'
    <3>1. JobInv(k) /\ k # NoJob
      OBVIOUS
    <3>2. CASE k = j
      BY <1>1, <1>4, <1>u, <2>4, <3>1, <3>2 DEF JobInv
    <3>3. CASE k # j
      <4>1. AtWorker(k) => AtWorker(k)'
        BY <2>1, <3>3 DEF AtWorker, j
      <4> QED
        BY <1>u, <2>4, <3>1, <3>3, <4>1 DEF JobInv
    <3> QED
      BY <3>2, <3>3
  <2>7. ASSUME NEW v \in Workers PROVE WorkerInv(v)'
    <3>1. CASE v = w
      BY <1>1, <1>u, <2>2, <3>1 DEF WorkerInv
    <3>2. CASE v # w
      <4>1. WorkerInv(v) /\ worker'[v] = worker[v] /\ worker[v].job # j
        BY <1>1, <2>1, <3>2
      <4>2. worker[v].job # NoJob => status'[worker[v].job] = status[worker[v].job]
        BY <2>4, <4>1 DEF TypeOK
      <4>3. \A x \in Workers : worker[v].job # NoJob /\ x # v => worker'[x].job # worker[v].job
        BY <2>1, <2>2, <4>1 DEF WorkerInv
      <4> QED
        BY <1>u, <2>4, <4>1, <4>2, <4>3 DEF WorkerInv
    <3> QED
      BY <3>1, <3>2
  <2> QED
    BY <1>3, <2>5, <2>6, <2>7 DEF PoolInv
<1>5. CASE ~ durable
  <2>1. /\ attempts' = [attempts EXCEPT ![j] = @ + 1]
        /\ Goes(w, "requeue")
        /\ UNCHANGED <<status, failures>>
    BY <1>5 DEF HandlerRetries
  <2>2. /\ worker' \in [Workers -> [pc : {"idle", "handling", "requeue", "children", "check", "exited"},
                                    job : Jobs \cup {NoJob}, kids : SUBSET Children]]
        /\ worker'[w].pc = "requeue"
        /\ \A v \in Workers : worker'[v].job = worker[v].job /\ worker'[v].kids = worker[v].kids
        /\ \A v \in Workers \ {w} : worker'[v] = worker[v]
    BY <2>1, GoesTypes
  <2>3. TypeOK' /\ (capacity \in Nat /\ pool # {})' /\ Once(ch)' /\ Once(due)'
    BY <1>1, <1>2, <1>u, <2>1, <2>2 DEF TypeOK
  <2>4. ASSUME NEW k \in Jobs PROVE JobInv(k)'
    <3>1. JobInv(k) /\ (AtWorker(k)' <=> AtWorker(k))
      BY <2>2 DEF AtWorker
    <3> QED
      BY <1>u, <2>1, <3>1 DEF JobInv
  <2>5. ASSUME NEW v \in Workers PROVE WorkerInv(v)'
    <3>1. WorkerInv(v)
      OBVIOUS
    <3>2. CASE v = w
      BY <1>0, <1>1, <1>5, <1>u, <2>1, <2>2, <3>1, <3>2 DEF WorkerInv
    <3>3. CASE v # w
      BY <1>u, <2>1, <2>2, <3>1, <3>3 DEF WorkerInv
    <3> QED
      BY <3>2, <3>3
  <2> QED
    BY <1>3, <2>3, <2>4, <2>5 DEF PoolInv
<1> QED
  BY <1>4, <1>5 DEF HandlerRetries

(* The in-memory retry goes back into the channel, or is lost. *)
LEMMA RequeueKeeps ==
    ASSUME PoolInv, NEW w \in Workers, Requeue(w)
    PROVE  PoolInv'
<1> USE PoolFacts DEF rows, counts, phase, failures
<1> DEFINE j == worker[w].job
<1>u. UNCHANGED <<attempts, due, sub, counts, phase, poller, faults>>
  BY DEF Requeue
<1>0. worker[w].pc = "requeue" /\ status[j] = "running" /\ ~ durable
  <2>1. WorkerInv(w)
    OBVIOUS
  <2> QED
    BY <2>1 DEF Requeue, WorkerInv
<1>1. /\ j \in Jobs /\ j \in counted
      /\ ~ Holds(ch, j) /\ ~ Holds(due, j) /\ poller.job # j
      /\ \A x \in Workers \ {w} : worker[x].job # j
      /\ started /\ w \in pool
      /\ sub[j] \notin {"counted", "created"}
      /\ sub[j] = "none" => j \notin External \cup Children
  BY <1>0, HeldFacts
<1>2. /\ worker' \in [Workers -> [pc : {"idle", "handling", "requeue", "children", "check", "exited"},
                                  job : Jobs \cup {NoJob}, kids : SUBSET Children]]
      /\ worker'[w] = Idle
      /\ \A v \in Workers \ {w} : worker'[v] = worker[v]
  <2>1. Idle \in [pc : {"idle", "handling", "requeue", "children", "check", "exited"},
                  job : Jobs \cup {NoJob}, kids : SUBSET Children]
    BY DEF Idle
  <2> QED
    BY <2>1, WorkerTypes DEF Requeue
<1>3. worker'[w].pc = "idle" /\ worker'[w].job = NoJob
  BY <1>2 DEF Idle
<1>4. \/ /\ ~ closed /\ Len(ch) < capacity
         /\ ch' = Append(ch, j)
         /\ status' = [status EXCEPT ![j] = "pending"]
         /\ UNCHANGED stranded
      \/ /\ closed
         /\ stranded' = stranded \cup {j}
         /\ UNCHANGED <<ch, status>>
  BY DEF Requeue
<1>k. \A k \in Jobs : k # j /\ AtWorker(k) => AtWorker(k)'
  BY <1>2 DEF AtWorker
<1> HIDE DEF j
<1>5. /\ ch' \in Seq(Jobs \cup {NoJob}) /\ Len(ch') <= capacity /\ Once(ch')
      /\ \A k \in Jobs : k # j => (Holds(ch', k) <=> Holds(ch, k))
      /\ Holds(ch', j) <=> ~ closed
      /\ closed => ch' = ch
  <2>1. CASE ~ closed
    <3>1. j \in Jobs \cup {NoJob} /\ ch \in Seq(Jobs \cup {NoJob}) /\ ch' = Append(ch, j)
      BY <1>1, <1>4, <2>1 DEF TypeOK
    <3>2. /\ ch' \in Seq(Jobs \cup {NoJob}) /\ Len(ch') = Len(ch) + 1 /\ Once(ch')
          /\ \A k : Holds(ch', k) <=> Holds(ch, k) \/ k = j
      BY <1>1, <3>1, AppendHolds
    <3>3. Len(ch') <= capacity
      BY <1>4, <2>1, <3>1, <3>2
    <3> QED
      BY <2>1, <3>2, <3>3
  <2>2. CASE closed
    BY <1>1, <1>4, <2>2 DEF TypeOK
  <2> QED
    BY <2>1, <2>2 DEF TypeOK
<1>6. /\ status' \in [Jobs -> JobStatuses]
      /\ \A k \in Jobs : k # j => status'[k] = status[k] /\ (k \in stranded' <=> k \in stranded)
      /\ status'[j] = IF closed THEN "running" ELSE "pending"
      /\ stranded' \subseteq Jobs
      /\ closed => j \in stranded'
  BY <1>0, <1>1, <1>4 DEF TypeOK, JobStatuses, j
<1>7. TypeOK' /\ (capacity \in Nat /\ pool # {})' /\ Once(ch)' /\ Once(due)'
  BY <1>2, <1>5, <1>6, <1>u DEF TypeOK
<1>8. ASSUME NEW k \in Jobs PROVE JobInv(k)'
  <2>1. JobInv(k) /\ k # NoJob
    OBVIOUS
  <2>2. CASE k = j
    BY <1>0, <1>1, <1>5, <1>6, <1>u, <2>1, <2>2 DEF JobInv
  <2>3. CASE k # j
    BY <1>5, <1>6, <1>k, <1>u, <2>1, <2>3 DEF JobInv
  <2> QED
    BY <2>2, <2>3
<1>9. ASSUME NEW v \in Workers PROVE WorkerInv(v)'
  <2>1. CASE v = w
    BY <1>1, <1>3, <1>u, <2>1 DEF WorkerInv
  <2>2. CASE v # w
    <3>1. WorkerInv(v) /\ worker'[v] = worker[v] /\ worker[v].job # j
      BY <1>1, <1>2, <2>2
    <3>2. worker[v].job # NoJob =>
            /\ status'[worker[v].job] = status[worker[v].job]
            /\ worker[v].job \in stranded' <=> worker[v].job \in stranded
            /\ ~ Holds(ch', worker[v].job)
      BY <1>5, <1>6, <3>1 DEF TypeOK, WorkerInv
    <3>3. \A x \in Workers : worker[v].job # NoJob /\ x # v => worker'[x].job # worker[v].job
      BY <1>2, <1>3, <3>1 DEF WorkerInv
    <3>4. worker[v].pc = "exited" => closed /\ ch' = <<>>
      BY <1>5, <3>1 DEF WorkerInv
    <3> QED
      BY <1>u, <3>1, <3>2, <3>3, <3>4 DEF WorkerInv
  <2> QED
    BY <2>1, <2>2
<1>10. PhaseInv'
  BY <1>u DEF PhaseInv, MidSubmission
<1> QED
  BY <1>7, <1>8, <1>9, <1>10 DEF PoolInv

(* The handler ends a job, for good or for the dead-letter queue. *)
LEMMA EndsKeeps ==
    ASSUME PoolInv, NEW w \in Workers, worker[w].pc = "handling",
           NEW s \in Finished, NEW tries \in Nat, Ends(w, s, tries),
           NEW kids \in SUBSET Children,
           worker' = [worker EXCEPT ![w].pc = "children", ![w].kids = kids],
           UNCHANGED <<due, sub, ch, counts, phase, poller>>
    PROVE  PoolInv'
<1> USE PoolFacts DEF rows, counts, phase, failures
<1> DEFINE j == worker[w].job
<1>u. UNCHANGED <<due, sub, ch, counts, phase, poller>>
  OBVIOUS
<1>0. status[j] = "running"
  <2>1. WorkerInv(w)
    OBVIOUS
  <2> QED
    BY <2>1 DEF WorkerInv
<1>1. /\ j \in Jobs /\ j \in counted
      /\ ~ Holds(ch, j) /\ ~ Holds(due, j) /\ poller.job # j
      /\ \A x \in Workers \ {w} : worker[x].job # j
      /\ started /\ w \in pool
      /\ sub[j] \notin {"counted", "created"}
      /\ sub[j] = "none" => j \notin External \cup Children
  BY HeldFacts
<1>2. /\ worker' \in [Workers -> [pc : {"idle", "handling", "requeue", "children", "check", "exited"},
                                  job : Jobs \cup {NoJob}, kids : SUBSET Children]]
      /\ worker'[w].pc = "children" /\ worker'[w].job = j
      /\ \A v \in Workers \ {w} : worker'[v] = worker[v]
      /\ \A v \in Workers : worker'[v].job = worker[v].job
  BY DEF TypeOK
<1>3. /\ status' \in [Jobs -> JobStatuses]
      /\ \A k \in Jobs : k # j => status'[k] = status[k] /\ (k \in stranded' <=> k \in stranded)
      /\ status'[j] = s \/ (status'[j] = "running" /\ j \in stranded')
      /\ stranded' \subseteq Jobs
      /\ faults' \in 0..MaxFaults
      /\ attempts' \in [Jobs -> Nat]
  <2>1. CASE /\ status' = [status EXCEPT ![j] = s]
             /\ attempts' = [attempts EXCEPT ![j] = tries]
             /\ UNCHANGED failures
    BY <1>1, <2>1 DEF TypeOK, JobStatuses
  <2>2. CASE Fault /\ stranded' = stranded \cup {j} /\ UNCHANGED <<status, attempts>>
    <3>1. faults' \in 0..MaxFaults
      BY <2>2, WorkerPoolAssumption DEF Fault, TypeOK
    <3> QED
      BY <1>0, <1>1, <2>2, <3>1 DEF TypeOK
  <2> QED
    BY <2>1, <2>2 DEF Ends
<1> HIDE DEF j
<1>4. TypeOK' /\ (capacity \in Nat /\ pool # {})' /\ Once(ch)' /\ Once(due)'
  BY <1>2, <1>3, <1>u DEF TypeOK
<1>5. ASSUME NEW k \in Jobs PROVE JobInv(k)'
  <2>1. JobInv(k) /\ (AtWorker(k)' <=> AtWorker(k))
    BY <1>2 DEF AtWorker
  <2>2. CASE k = j
    BY <1>1, <1>3, <1>u, <2>1, <2>2 DEF JobInv, Finished
  <2>3. CASE k # j
    BY <1>3, <1>u, <2>1, <2>3 DEF JobInv
  <2> QED
    BY <2>2, <2>3
<1>6. ASSUME NEW v \in Workers PROVE WorkerInv(v)'
  <2>1. CASE v = w
    <3>1. j # NoJob /\ \A x \in Workers \ {w} : worker'[x].job # j
      BY <1>1, <1>2
    <3> QED
      BY <1>1, <1>2, <1>3, <1>u, <2>1, <3>1 DEF WorkerInv
  <2>2. CASE v # w
    <3>1. WorkerInv(v) /\ worker'[v] = worker[v] /\ worker[v].job # j
      BY <1>1, <1>2, <2>2
    <3>2. worker[v].job # NoJob =>
            /\ status'[worker[v].job] = status[worker[v].job]
            /\ worker[v].job \in stranded' <=> worker[v].job \in stranded
      BY <1>3, <3>1 DEF TypeOK
    <3> QED
      BY <1>2, <1>u, <3>1, <3>2 DEF WorkerInv
  <2> QED
    BY <2>1, <2>2
<1>7. PhaseInv'
  BY <1>u DEF PhaseInv, MidSubmission
<1> QED
  BY <1>4, <1>5, <1>6, <1>7 DEF PoolInv

LEMMA HandlerExhaustsKeeps ==
    ASSUME PoolInv, NEW w \in Workers, HandlerExhausts(w)
    PROVE  PoolInv'
<1> DEFINE kids == worker[w].kids
<1>1. worker' = [worker EXCEPT ![w].pc = "children", ![w].kids = kids] /\ kids \in SUBSET Children
  BY PoolFacts DEF HandlerExhausts, Goes, TypeOK
<1>2. attempts[worker[w].job] + 1 \in Nat
  BY HeldFacts, PoolFacts DEF HandlerExhausts, TypeOK
<1> HIDE DEF kids
<1> QED
  BY <1>1, <1>2, EndsKeeps DEF HandlerExhausts, Finished

LEMMA HandlerSucceedsKeeps ==
    ASSUME PoolInv, NEW w \in Workers, NEW kids \in SUBSET NewChildren, HandlerSucceeds(w, kids)
    PROVE  PoolInv'
<1>1. kids \in SUBSET Children
  BY PoolFacts, WorkerPoolAssumption DEF NewChildren, TypeOK
<1>2. attempts[worker[w].job] \in Nat
  BY HeldFacts, PoolFacts DEF HandlerSucceeds, TypeOK
<1> QED
  BY <1>1, <1>2, EndsKeeps DEF HandlerSucceeds, Finished

(* The job is no longer counted. *)
LEMMA FinishJobKeeps ==
    ASSUME PoolInv, NEW w \in Workers, FinishJob(w)
    PROVE  PoolInv'
<1> USE PoolFacts DEF rows, counts, phase, failures
<1> DEFINE j == worker[w].job
           r == [Idle EXCEPT !.pc = "check"]
<1>u. UNCHANGED <<rows, sub, ch, slipped, done, phase, poller, failures>>
  BY DEF FinishJob
<1>0. status[j] \in Finished \/ (status[j] = "running" /\ j \in stranded)
  <2>1. WorkerInv(w)
    OBVIOUS
  <2> QED
    BY <2>1 DEF WorkerInv, FinishJob
<1>1. /\ j \in Jobs /\ j \in counted
      /\ ~ Holds(ch, j) /\ ~ Holds(due, j) /\ poller.job # j
      /\ \A x \in Workers \ {w} : worker[x].job # j
      /\ started /\ w \in pool
      /\ sub[j] \notin {"counted", "created"}
      /\ sub[j] = "none" => j \notin External \cup Children
  BY HeldFacts DEF FinishJob
<1>2. /\ worker' \in [Workers -> [pc : {"idle", "handling", "requeue", "children", "check", "exited"},
                                  job : Jobs \cup {NoJob}, kids : SUBSET Children]]
      /\ worker'[w] = r
      /\ \A v \in Workers \ {w} : worker'[v] = worker[v]
  <2>1. r \in [pc : {"idle", "handling", "requeue", "children", "check", "exited"},
               job : Jobs \cup {NoJob}, kids : SUBSET Children]
    BY DEF Idle
  <2> QED
    BY <2>1, WorkerTypes DEF FinishJob
<1>3. worker'[w].pc = "check" /\ worker'[w].job = NoJob
  BY <1>2 DEF Idle
<1>4. counted' = counted \ {j} /\ inFlight' = inFlight - 1
  BY DEF FinishJob, Uncount
<1>k. \A k \in Jobs : k # j /\ AtWorker(k) => AtWorker(k)'
  BY <1>2 DEF AtWorker
<1> HIDE DEF j, r
<1>5. TypeOK' /\ (capacity \in Nat /\ pool # {})' /\ Once(ch)' /\ Once(due)'
  BY <1>2, <1>4, <1>u DEF TypeOK
<1>6. ASSUME NEW k \in Jobs PROVE JobInv(k)'
  <2>1. JobInv(k)
    OBVIOUS
  <2>2. CASE k = j
    BY <1>0, <1>1, <1>u, <2>1, <2>2 DEF JobInv, Finished
  <2>3. CASE k # j
    BY <1>4, <1>k, <1>u, <2>1, <2>3 DEF JobInv
  <2> QED
    BY <2>2, <2>3
<1>7. ASSUME NEW v \in Workers PROVE WorkerInv(v)'
  <2>1. CASE v = w
    BY <1>1, <1>3, <1>u, <2>1 DEF WorkerInv
  <2>2. CASE v # w
    <3>1. WorkerInv(v) /\ worker'[v] = worker[v] /\ worker[v].job # j
      BY <1>1, <1>2, <2>2
    <3>2. \A x \in Workers : worker[v].job # NoJob /\ x # v => worker'[x].job # worker[v].job
      BY <1>2, <1>3, <3>1 DEF WorkerInv
    <3> QED
      BY <1>4, <1>u, <3>1, <3>2 DEF WorkerInv
  <2> QED
    BY <2>1, <2>2
<1>8. PhaseInv'
  BY <1>u DEF PhaseInv, MidSubmission
<1> QED
  BY <1>5, <1>6, <1>7, <1>8 DEF PoolInv


(* The places an order gives are different, so a prefix has as many jobs   *)
(* as it is long, and none of them in what follows it.                     *)
LEMMA PrefixFacts ==
    ASSUME NEW R, IsFiniteSet(R), R \subseteq Jobs, NEW order \in Orders(R), NEW n \in 0..Cardinality(R)
    PROVE  LET a == SubSeq(order, 1, n)
               b == SubSeq(order, n + 1, Len(order))
               A == {j \in Jobs : Holds(a, j)} IN
           /\ Len(order) = Cardinality(R)
           /\ a \in Seq(R) /\ Once(a) /\ Len(a) = n
           /\ b \in Seq(R) /\ Once(b)
           /\ \A j : Holds(a, j) => j \in R /\ ~ Holds(b, j)
           /\ \A j : Holds(b, j) => j \in R
           /\ IsFiniteSet(A) /\ Cardinality(A) = n
<1> DEFINE m == Cardinality(R)
           a == SubSeq(order, 1, n)
           b == SubSeq(order, n + 1, m)
           A == {j \in Jobs : Holds(a, j)}
<1>1. m \in Nat
  BY FS_CardinalityType
<1>2. order \in [1..m -> R] /\ \A x, y \in 1..m : x # y => order[x] # order[y]
  BY DEF Orders
<1> HIDE DEF m
<1>3. Len(order) = m /\ n \in 0..m
  BY <1>1, <1>2 DEF m
<1>4. /\ a \in Seq(R) /\ Len(a) = n
      /\ \A i \in 1..n : a[i] = order[i]
  <2>1. \A i \in 1..n : order[i] \in R
    BY <1>1, <1>2, <1>3
  <2>2. /\ SubSeq(order, 1, n) \in Seq(R)
        /\ Len(SubSeq(order, 1, n)) = IF 1 <= n THEN n - 1 + 1 ELSE 0
        /\ \A i \in 1..(n - 1 + 1) : SubSeq(order, 1, n)[i] = order[1 + i - 1]
    BY <1>1, <1>3, <2>1, SubSeqProperties
  <2> HIDE DEF a
  <2>3. a \in Seq(R) /\ Len(a) = (IF 1 <= n THEN n - 1 + 1 ELSE 0)
        /\ \A i \in 1..(n - 1 + 1) : a[i] = order[1 + i - 1]
    BY <2>2 DEF a
  <2> QED
    BY <1>1, <1>3, <2>3
<1>5. /\ b \in Seq(R) /\ Len(b) = m - n
      /\ \A i \in 1..(m - n) : b[i] = order[n + i]
  <2>1. \A i \in (n + 1)..m : order[i] \in R
    BY <1>1, <1>2, <1>3
  <2>2. /\ SubSeq(order, n + 1, m) \in Seq(R)
        /\ Len(SubSeq(order, n + 1, m)) = IF n + 1 <= m THEN m - (n + 1) + 1 ELSE 0
        /\ \A i \in 1..(m - (n + 1) + 1) : SubSeq(order, n + 1, m)[i] = order[(n + 1) + i - 1]
    BY <1>1, <1>3, <2>1, SubSeqProperties
  <2> HIDE DEF b
  <2>3. b \in Seq(R) /\ Len(b) = (IF n + 1 <= m THEN m - (n + 1) + 1 ELSE 0)
        /\ \A i \in 1..(m - (n + 1) + 1) : b[i] = order[(n + 1) + i - 1]
    BY <2>2 DEF b
  <2> QED
    BY <1>1, <1>3, <2>3
<1> HIDE DEF a, b
<1>6. Once(a) /\ Once(b)
  <2>1. \A x, y \in 1..n : a[x] = a[y] => x = y
    BY <1>1, <1>2, <1>3, <1>4
  <2>2. \A x, y \in 1..(m - n) : b[x] = b[y] => x = y
    <3> SUFFICES ASSUME NEW x \in 1..(m - n), NEW y \in 1..(m - n), x # y
                 PROVE  b[x] # b[y]
      OBVIOUS
    <3>1. n + x \in 1..m /\ n + y \in 1..m /\ n + x # n + y
      BY <1>1, <1>3
    <3>2. b[x] = order[n + x] /\ b[y] = order[n + y]
      BY <1>5
    <3> QED
      BY <1>2, <3>1, <3>2
  <2> QED
    BY <1>4, <1>5, <2>1, <2>2 DEF Once
<1>7. \A j : (Holds(a, j) \/ Holds(b, j)) => j \in R
  BY <1>1, <1>2, <1>3, <1>4, <1>5 DEF Holds
<1>8. ASSUME NEW j, Holds(a, j), Holds(b, j) PROVE FALSE
  <2>1. PICK x \in 1..n : order[x] = j
    BY <1>4, <1>8 DEF Holds
  <2>2. PICK y \in 1..(m - n) : order[n + y] = j
    BY <1>5, <1>8 DEF Holds
  <2>3. x \in 1..m /\ n + y \in 1..m /\ x # n + y
    BY <1>1, <1>3
  <2> QED
    BY <1>2, <2>1, <2>2, <2>3
<1>9. IsFiniteSet(A) /\ Cardinality(A) = n
  <2> DEFINE I == 1..n
  <2>1. IsFiniteSet(I) /\ Cardinality(I) = n
    BY <1>1, <1>3, FS_Interval
  <2>2. a \in [I -> A] /\ (\A x, y \in I : a[x] = a[y] => x = y) /\ \A t \in A : \E x \in I : a[x] = t
    <3>1. a \in [1..n -> R]
      BY <1>1, <1>3, <1>4
    <3>2. \A i \in 1..n : a[i] \in A
      BY <1>4, <3>1 DEF Holds
    <3>3. \A x, y \in 1..n : a[x] = a[y] => x = y
      BY <1>1, <1>2, <1>3, <1>4
    <3>4. \A t \in A : \E x \in 1..n : a[x] = t
      BY <1>4 DEF Holds
    <3> HIDE DEF A
    <3> QED
      BY <3>1, <3>2, <3>3, <3>4
  <2> HIDE DEF I, A
  <2>3. a \in Bijection(I, A)
    BY <2>2 DEF Bijection, Injection, IsInjective, Surjection
  <2>4. ExistsBijection(I, A)
    BY <2>3 DEF ExistsBijection
  <2> QED
    BY <2>1, <2>4, FS_Bijection
<1>10. m = Len(order) /\ m = Cardinality(R)
  BY <1>3 DEF m
<1> QED
  BY <1>3, <1>4, <1>5, <1>6, <1>7, <1>8, <1>9, <1>10 DEF a, b, A

(* What queue.New puts into the channel and leaves in the table, whichever *)
(* of its calls fail: no row is in two places, and the channel's length is *)
(* the number of rows in it.                                               *)
LEMMA NewQueueFacts ==
    ASSUME NEW buffer \in Nat, NEW left \in SUBSET Earlier, NEW stuck \in SUBSET (left \cap Reloaded),
           NewQueue(buffer, left, stuck)
    PROVE  /\ ch \in Seq(Jobs \cup {NoJob}) /\ due \in Seq(Jobs)
           /\ Once(ch) /\ Once(due)
           /\ \A j : Holds(ch, j) => j \in left /\ ~ Holds(due, j) /\ j \notin stranded
           /\ \A j : Holds(due, j) => j \in left /\ j \notin stranded
           /\ IsFiniteSet(InChannel) /\ inFlight = Cardinality(InChannel) /\ inFlight \in Nat
           /\ stranded \subseteq left
           /\ capacity \in Nat /\ Len(ch) <= capacity
           /\ faults \in 0..MaxFaults
           /\ \A j \in Jobs : status[j] = IF j \notin left THEN "absent"
                                          ELSE IF j \in stranded \/ Holds(ch, j) THEN "running"
                                          ELSE "pending"
           /\ status \in [Jobs -> JobStatuses]
<1> USE WorkerPoolAssumption
<1>1. PICK reclaimed \in BOOLEAN :
        LET ready == (left \cap Reloaded) \ (IF reclaimed THEN {} ELSE stuck) IN
        \E order \in Orders(ready), loaded \in 0..Cardinality(ready) :
            /\ ch = SubSeq(order, 1, loaded)
            /\ due = SubSeq(order, loaded + 1, Len(order))
            /\ stranded = IF reclaimed THEN {} ELSE stuck
            /\ faults = (IF reclaimed THEN 0 ELSE 1) + (IF loaded = Len(order) THEN 0 ELSE 1)
            /\ faults <= MaxFaults
            /\ status = [j \in Jobs |->
                            IF j \notin left THEN "absent"
                            ELSE IF j \in stranded \/ \E i \in DOMAIN ch : ch[i] = j THEN "running"
                            ELSE "pending"]
            /\ capacity = IF Len(ch) > buffer THEN Len(ch) ELSE buffer
            /\ inFlight = Len(ch)
  BY DEF NewQueue
<1> DEFINE R == (left \cap Reloaded) \ (IF reclaimed THEN {} ELSE stuck)
<1>2. PICK order \in Orders(R), loaded \in 0..Cardinality(R) :
        /\ ch = SubSeq(order, 1, loaded)
        /\ due = SubSeq(order, loaded + 1, Len(order))
        /\ stranded = IF reclaimed THEN {} ELSE stuck
        /\ faults = (IF reclaimed THEN 0 ELSE 1) + (IF loaded = Len(order) THEN 0 ELSE 1)
        /\ faults <= MaxFaults
        /\ status = [j \in Jobs |->
                        IF j \notin left THEN "absent"
                        ELSE IF j \in stranded \/ \E i \in DOMAIN ch : ch[i] = j THEN "running"
                        ELSE "pending"]
        /\ capacity = IF Len(ch) > buffer THEN Len(ch) ELSE buffer
        /\ inFlight = Len(ch)
  BY <1>1
<1>3. R \in SUBSET Reloaded /\ R \subseteq Jobs /\ R \subseteq left /\ R \cap stranded = {} /\ stranded \subseteq left
  BY <1>2 DEF Jobs, Earlier
<1> HIDE DEF R
<1>4. IsFiniteSet(R) /\ Cardinality(R) \in Nat
  BY <1>3, FS_Subset, FS_CardinalityType
<1>5. /\ ch \in Seq(R) /\ Once(ch) /\ Len(ch) = loaded
      /\ due \in Seq(R) /\ Once(due)
      /\ \A j : Holds(ch, j) => j \in R /\ ~ Holds(due, j)
      /\ \A j : Holds(due, j) => j \in R
      /\ IsFiniteSet(InChannel) /\ Cardinality(InChannel) = loaded
  <2>1. LET a == SubSeq(order, 1, loaded)
            b == SubSeq(order, loaded + 1, Len(order))
            A == {j \in Jobs : Holds(a, j)} IN
        /\ Len(order) = Cardinality(R)
        /\ a \in Seq(R) /\ Once(a) /\ Len(a) = loaded
        /\ b \in Seq(R) /\ Once(b)
        /\ \A j : Holds(a, j) => j \in R /\ ~ Holds(b, j)
        /\ \A j : Holds(b, j) => j \in R
        /\ IsFiniteSet(A) /\ Cardinality(A) = loaded
    BY <1>3, <1>4, PrefixFacts
  <2>2. ch = SubSeq(order, 1, loaded) /\ due = SubSeq(order, loaded + 1, Len(order))
    BY <1>2
  <2>3. InChannel = {j \in Jobs : Holds(SubSeq(order, 1, loaded), j)}
    BY <2>2 DEF InChannel
  <2> QED
    BY <2>1, <2>2, <2>3, Zenon
<1>6. ch \in Seq(Jobs \cup {NoJob}) /\ due \in Seq(Jobs)
  BY <1>3, <1>5
<1>7. faults \in 0..MaxFaults /\ loaded \in Nat
  BY <1>2, <1>4
<1>8. capacity \in Nat /\ Len(ch) <= capacity /\ inFlight = loaded
  BY <1>2, <1>5, <1>7
<1>9. DOMAIN ch = 1..Len(ch)
  BY <1>5
<1>10. /\ \A j \in Jobs : status[j] = IF j \notin left THEN "absent"
                                      ELSE IF j \in stranded \/ Holds(ch, j) THEN "running"
                                      ELSE "pending"
       /\ status \in [Jobs -> JobStatuses]
  BY <1>2, <1>9 DEF Holds, JobStatuses
<1> QED
  BY <1>3, <1>5, <1>6, <1>7, <1>8, <1>10

(* The states the pool starts in. *)
LEMMA InitFacts ==
    ASSUME Init
    PROVE  /\ durable \in BOOLEAN /\ pool \subseteq Workers /\ pool # {}
           /\ \E left \in SUBSET Earlier, stuck \in SUBSET Earlier, buffer \in Nat :
                /\ durable \/ left = {}
                /\ stuck \subseteq left \cap Reloaded
                /\ NewQueue(buffer, left, stuck)
<1>1. PICK setup \in Setups, left \in SUBSET Earlier :
        /\ durable = setup.durable
        /\ pool = setup.pool
        /\ durable \/ left = {}
        /\ \E stuck \in SUBSET (left \cap Reloaded) : NewQueue(setup.buffer, left, stuck)
  BY DEF Init
<1>2. setup.durable \in BOOLEAN /\ setup.pool \subseteq Workers /\ setup.pool # {} /\ setup.buffer \in Nat
  BY WorkerPoolAssumption
<1> QED
  BY <1>1, <1>2

LEMMA PoolInit ==
    ASSUME Init
    PROVE  PoolInv
<1> USE WorkerPoolAssumption
<1>0. durable \in BOOLEAN /\ pool \subseteq Workers /\ pool # {}
  BY InitFacts
<1>1. PICK left \in SUBSET Earlier, stuck \in SUBSET Earlier, buffer \in Nat :
        /\ durable \/ left = {}
        /\ stuck \subseteq left \cap Reloaded
        /\ NewQueue(buffer, left, stuck)
  BY InitFacts
<1>2. /\ ch \in Seq(Jobs \cup {NoJob}) /\ due \in Seq(Jobs)
      /\ Once(ch) /\ Once(due)
      /\ \A j : Holds(ch, j) => j \in left /\ ~ Holds(due, j) /\ j \notin stranded
      /\ \A j : Holds(due, j) => j \in left /\ j \notin stranded
      /\ inFlight \in Nat
      /\ stranded \subseteq left
      /\ capacity \in Nat /\ Len(ch) <= capacity
      /\ faults \in 0..MaxFaults
      /\ \A j \in Jobs : status[j] = IF j \notin left THEN "absent"
                                     ELSE IF j \in stranded \/ Holds(ch, j) THEN "running"
                                     ELSE "pending"
      /\ status \in [Jobs -> JobStatuses]
  BY <1>1, NewQueueFacts
<1>3. left \subseteq Jobs /\ left \cap (External \cup Children) = {}
  BY DEF Jobs
<1>5. /\ worker \in [Workers -> [pc : {"idle", "handling", "requeue", "children", "check", "exited"},
                                 job : Jobs \cup {NoJob}, kids : SUBSET Children]]
      /\ \A w \in Workers : worker[w].pc = "idle" /\ worker[w].job = NoJob
      /\ poller \in [pc : {"wait", "loop", "checked", "holding", "exited"}, job : Jobs \cup {NoJob}]
      /\ poller.pc = "wait" /\ poller.job = NoJob
  BY DEF Init, Idle
<1>6. TypeOK
  <2>1. attempts \in [Jobs -> Nat]
    BY DEF Init
  <2>2. done \in BOOLEAN /\ started \in BOOLEAN /\ stopping \in BOOLEAN /\ closed \in BOOLEAN
    BY DEF Init
  <2>3. counted \subseteq Jobs /\ slipped \subseteq Jobs /\ stranded \subseteq Jobs
        /\ sub \in [Jobs -> {"none", "counted", "created"} \cup Returned]
    BY <1>2, <1>3 DEF Init
  <2> QED
    BY <1>0, <1>2, <1>5, <2>1, <2>2, <2>3 DEF TypeOK
<1>7. ASSUME NEW j \in Jobs PROVE JobInv(j)
  <2>1. sub[j] = "none" /\ counted = {}
    BY DEF Init
  <2> QED
    BY <1>1, <1>2, <1>3, <1>5, <2>1 DEF JobInv
<1>8. ASSUME NEW w \in Workers PROVE WorkerInv(w)
  BY <1>5 DEF WorkerInv
<1>9. PhaseInv
  BY <1>5 DEF PhaseInv, Init
<1> QED
  BY <1>0, <1>2, <1>6, <1>7, <1>8, <1>9 DEF PoolInv

(* Every step of the pool keeps the invariant. *)
LEMMA PoolNext ==
    ASSUME PoolInv, [Next]_vars
    PROVE  PoolInv'
<1>1. ASSUME NEW j \in External \cup Children, SubmitStep(j) PROVE PoolInv'
  BY <1>1, SubmitBeginKeeps, CreateJobKeeps, SubmitSendKeeps DEF SubmitStep
<1>2. ASSUME NEW w \in Workers, WorkerStep(w) PROVE PoolInv'
  <2>1. \A k \in worker[w].kids : k \in Children
    BY PoolFacts DEF TypeOK
  <2>2. ASSUME NEW kids \in SUBSET NewChildren, HandlerSucceeds(w, kids) PROVE PoolInv'
    BY <2>2, HandlerSucceedsKeeps
  <2>3. ASSUME NEW k \in worker[w].kids, SubmitStep(k) \/ PersistChild(w, k) PROVE PoolInv'
    BY <1>1, <2>1, <2>3, PersistChildKeeps
  <2> QED
    BY <1>2, <2>2, <2>3, DequeueJobKeeps, DequeueSignalKeeps, HandlerRetriesKeeps, RequeueKeeps,
       HandlerExhaustsKeeps, FinishJobKeeps, CheckKeeps DEF WorkerStep
<1>3. CASE CallerStep \/ CloseQueue
  BY <1>1, <1>3, CallerKeeps DEF CallerStep
<1>4. CASE DispatchReady \/ PollExit
  BY <1>4, PollerKeeps, PollAcquireKeeps, PollDispatchKeeps DEF DispatchReady
<1>5. CASE TimePasses
  BY <1>5, DueKeeps DEF TimePasses
<1>6. CASE UNCHANGED vars
  <2> USE <1>6, PoolFacts DEF vars
  <2>1. TypeOK' /\ (capacity \in Nat /\ pool # {})' /\ Once(ch)' /\ Once(due)'
    BY DEF TypeOK
  <2>2. ASSUME NEW j \in Jobs PROVE JobInv(j)'
    <3>1. JobInv(j)
      OBVIOUS
    <3> QED
      BY <3>1 DEF JobInv, AtWorker
  <2>3. ASSUME NEW w \in Workers PROVE WorkerInv(w)'
    <3>1. WorkerInv(w)
      OBVIOUS
    <3> QED
      BY <3>1 DEF WorkerInv
  <2>4. PhaseInv'
    BY DEF PhaseInv, MidSubmission
  <2> QED
    BY <2>1, <2>2, <2>3, <2>4 DEF PoolInv
<1> QED
  BY <1>2, <1>3, <1>4, <1>5, <1>6 DEF Next, Terminated, StaysJammed

(* The invariant of the pool holds for every number of jobs and workers,   *)
(* in memory and with a store, through submissions, retries, faults and    *)
(* the shutdown.                                                           *)
THEOREM PoolInvHolds == Spec => []PoolInv
<1>1. Init => PoolInv
  BY PoolInit
<1>2. PoolInv /\ [Next]_vars => PoolInv'
  BY PoolNext
<1> QED
  BY <1>1, <1>2, PTL DEF Spec

(* A job is in the channel, with one worker or with the poller, never in   *)
(* two of these places, and a running row is in one of them unless a store *)
(* call for it has failed: submissions, the reload, retries and stale      *)
(* signals never hand out the same row twice.                              *)
THEOREM OneHolderHolds == Spec => []OneHolder
<1>1. ASSUME PoolInv PROVE OneHolder
  <2> USE <1>1, PoolFacts
  <2> SUFFICES ASSUME NEW j \in Jobs
               PROVE  /\ Holders(j) <= 1
                      /\ (durable /\ status[j] = "running" /\ j \notin stranded) => Holders(j) = 1
    BY DEF OneHolder
  <2> DEFINE C == {i \in DOMAIN ch : ch[i] = j}
             W == {w \in Workers : worker[w].job = j}
  <2>0. j # NoJob /\ JobInv(j)
    OBVIOUS
  <2>1. DOMAIN ch = 1..Len(ch)
    BY DEF TypeOK
  <2>2. C = {} \/ \E i \in 1..Len(ch) : C = {i}
    BY <2>1 DEF Once
  <2>3. C # {} <=> Holds(ch, j)
    BY <2>1 DEF Holds
  <2>4. ASSUME NEW w \in Workers, worker[w].job = j
        PROVE  W = {w} /\ ~ Holds(ch, j) /\ poller.job # j
    <3>1. WorkerInv(w)
      OBVIOUS
    <3> QED
      BY <2>0, <2>4, <3>1 DEF WorkerInv
  <2>5. W = {} \/ ((\E w : W = {w}) /\ ~ Holds(ch, j) /\ poller.job # j)
    BY <2>4
  <2>6. W # {} <=> AtWorker(j)
    BY DEF AtWorker
  <2>7. Holders(j) = Cardinality(C) + Cardinality(W) + (IF poller.job = j THEN 1 ELSE 0)
    BY DEF Holders
  <2>8. poller.job = j => ~ Holds(ch, j)
    BY <2>0 DEF JobInv
  <2>9. status[j] = "running" /\ j \notin stranded => Holds(ch, j) \/ poller.job = j \/ AtWorker(j)
    BY <2>0 DEF JobInv
  <2> HIDE DEF C, W
  <2>10. Cardinality(C) = IF Holds(ch, j) THEN 1 ELSE 0
    BY <2>2, <2>3, FS_EmptySet, FS_Singleton
  <2>11. Cardinality(W) = IF AtWorker(j) THEN 1 ELSE 0
    BY <2>5, <2>6, FS_EmptySet, FS_Singleton
  <2>12. AtWorker(j) => ~ Holds(ch, j) /\ poller.job # j
    BY <2>5, <2>6
  <2> QED
    BY <2>7, <2>8, <2>9, <2>10, <2>11, <2>12
<1>2. PoolInv => OneHolder
  BY <1>1
<1> QED
  BY <1>2, PoolInvHolds, PTL

(* When Shutdown returns the channel is drained, and every row has         *)
(* finished, is pending, where the next process finds it, or is one whose  *)
(* store call failed; in memory only a job in the middle of a retry is     *)
(* lost.                                                                   *)
THEOREM DrainedOnShutdownHolds == Spec => []DrainedOnShutdown
<1>1. ASSUME PoolInv PROVE DrainedOnShutdown
  <2> USE <1>1, PoolFacts
  <2> SUFFICES ASSUME started, ShutdownDone
               PROVE  /\ ch = <<>>
                      /\ \A j \in Jobs : \/ status[j] \in Finished \cup {"absent"}
                                         \/ j \in stranded
                                         \/ durable /\ status[j] = "pending"
    BY DEF DrainedOnShutdown
  <2>1. closed /\ \A w \in Workers : worker[w].pc \in {"exited", "idle"} /\ worker[w].job = NoJob
    <3>1. ASSUME NEW w \in Workers PROVE worker[w].pc \in {"exited", "idle"} /\ worker[w].job = NoJob
      <4>1. WorkerInv(w)
        OBVIOUS
      <4> QED
        BY <4>1 DEF WorkerInv, ShutdownDone
    <3> QED
      BY <3>1 DEF ShutdownDone
  <2>2. ch = <<>>
    <3>1. PICK w \in Workers : worker[w].pc = "exited"
      <4>1. PICK w \in pool : w \in Workers
        BY DEF TypeOK
      <4> QED
        BY <4>1 DEF ShutdownDone
    <3>2. WorkerInv(w)
      OBVIOUS
    <3> QED
      BY <3>1, <3>2 DEF WorkerInv
  <2>3. poller.job = NoJob
    BY <2>1 DEF PhaseInv
  <2>4. ASSUME NEW j \in Jobs
        PROVE  \/ status[j] \in Finished \cup {"absent"}
               \/ j \in stranded
               \/ durable /\ status[j] = "pending"
    <3>1. ~ AtWorker(j)
      BY <2>1 DEF AtWorker
    <3>2. ~ Holds(ch, j)
      BY <2>2, EmptyHolds
    <3>3. JobInv(j) /\ status[j] \in JobStatuses
      BY DEF TypeOK
    <3> QED
      BY <2>3, <3>1, <3>2, <3>3 DEF JobInv, JobStatuses
  <2> QED
    BY <2>2, <2>4
<1>2. PoolInv => DrainedOnShutdown
  BY <1>1
<1> QED
  BY <1>2, PoolInvHolds, PTL


(***************************************************************************)
(* The attempts.                                                           *)
(***************************************************************************)

(* One job's part of AttemptsSpent. *)
Spent(j) ==
    LET limit == IF Limit(j) = 0 THEN 1 ELSE Limit(j) IN
    IF status[j] = "dead_lettered" THEN attempts[j] = limit ELSE attempts[j] < limit

(* A step that writes no attempts, and neither ends a job in the           *)
(* dead-letter queue nor takes one out of it.                              *)
LEMMA SameAttempts ==
    ASSUME AttemptsSpent, UNCHANGED <<attempts, durable>>,
           \A j \in Jobs : status'[j] = "dead_lettered" <=> status[j] = "dead_lettered"
    PROVE  AttemptsSpent'
BY DEF AttemptsSpent, Limit

(* A handler's error: the attempt is written, and it was the last one if   *)
(* and only if the job goes to the dead-letter queue.                      *)
LEMMA HandlerAttempts ==
    ASSUME PoolInv, AttemptsSpent, NEW w \in Workers, HandlerRetries(w) \/ HandlerExhausts(w)
    PROVE  AttemptsSpent'
<1> USE PoolFacts DEF rows, counts, phase, failures
<1> DEFINE j == worker[w].job
<1>0. worker[w].pc = "handling" /\ UNCHANGED durable
  BY DEF HandlerRetries, HandlerExhausts
<1>1. j \in Jobs /\ status[j] = "running"
  <2>1. WorkerInv(w)
    OBVIOUS
  <2> QED
    BY <1>0, <2>1, HeldFacts DEF WorkerInv
<1>2. \/ UNCHANGED <<status, attempts>>
      \/ /\ attempts' = [attempts EXCEPT ![j] = @ + 1]
         /\ \/ ~ Exhausted(j) /\ (status' = [status EXCEPT ![j] = "pending"] \/ status' = status)
            \/ Exhausted(j) /\ status' = [status EXCEPT ![j] = "dead_lettered"]
  BY DEF HandlerRetries, HandlerExhausts, Ends
<1> HIDE DEF j
<1>3. ASSUME NEW k \in Jobs PROVE Spent(k)'
  <2>1. /\ Spent(k) /\ attempts[k] \in Nat /\ MaxAttempts \in Nat \ {0}
        /\ status \in [Jobs -> JobStatuses] /\ attempts \in [Jobs -> Nat]
    BY WorkerPoolAssumption DEF AttemptsSpent, Spent, TypeOK
  <2>2. Limit(k)' = Limit(k) /\ Limit(k) \in Nat
    BY <1>0, <2>1 DEF Limit
  <2>3. CASE k # j
    BY <1>1, <1>2, <2>1, <2>2, <2>3 DEF Spent
  <2>4. CASE k = j
    BY <1>1, <1>2, <2>1, <2>2, <2>4 DEF Spent, Exhausted
  <2> QED
    BY <2>3, <2>4
<1> QED
  BY <1>3 DEF AttemptsSpent, Spent

LEMMA AttemptsInit ==
    ASSUME Init
    PROVE  AttemptsSpent
<1>1. PICK left \in SUBSET Earlier, stuck \in SUBSET Earlier, buffer \in Nat :
        /\ durable \/ left = {}
        /\ stuck \subseteq left \cap Reloaded
        /\ NewQueue(buffer, left, stuck)
  BY InitFacts
<1>2. \A j \in Jobs : status[j] # "dead_lettered"
  BY <1>1, NewQueueFacts
<1>3. ASSUME NEW j \in Jobs PROVE Spent(j)
  <2>1. MaxAttempts \in Nat \ {0} /\ Earlier \cap Children = {}
    BY WorkerPoolAssumption
  <2>2. PICK tries \in [Earlier -> 0..(MaxAttempts - 1)] :
          attempts = [k \in Jobs |-> IF k \in Earlier /\ status[k] # "absent" THEN tries[k] ELSE 0]
    BY DEF Init
  <2>3. attempts[j] \in 0..(MaxAttempts - 1) /\ (j \in Children => attempts[j] = 0)
    BY <2>1, <2>2
  <2> QED
    BY <1>2, <2>1, <2>3 DEF Spent, Limit
<1> QED
  BY <1>3 DEF AttemptsSpent, Spent

LEMMA AttemptsNext ==
    ASSUME PoolInv, AttemptsSpent, [Next]_vars
    PROVE  AttemptsSpent'
<1> USE PoolFacts DEF rows, counts, phase, failures
<1>1. CASE UNCHANGED <<status, attempts, durable>>
  BY <1>1, SameAttempts
<1>2. ASSUME NEW j \in Jobs, UNCHANGED <<attempts, durable>>,
             status[j] # "dead_lettered", NEW s \in JobStatuses \ {"dead_lettered"},
             status' = [status EXCEPT ![j] = s]
      PROVE  AttemptsSpent'
  <2>1. \A k \in Jobs : status'[k] = "dead_lettered" <=> status[k] = "dead_lettered"
    BY <1>2 DEF TypeOK
  <2> QED
    BY <1>2, <2>1, SameAttempts
<1>3. ASSUME NEW j \in External \cup Children, SubmitStep(j) PROVE AttemptsSpent'
  <2>0. j \in Jobs /\ JobInv(j)
    BY DEF Jobs
  <2>1. CASE SubmitBegin(j)
    BY <1>1, <2>1 DEF SubmitBegin
  <2>2. CASE CreateJob(j)
    <3>1. status[j] = "absent"
      BY <2>0, <2>2 DEF CreateJob, JobInv
    <3>2. UNCHANGED <<attempts, durable>> /\ (status' = status \/ status' = [status EXCEPT ![j] = "pending"])
      BY <2>2 DEF CreateJob, InsertRow
    <3> QED
      BY <1>1, <1>2, <2>0, <3>1, <3>2 DEF JobStatuses
  <2>3. CASE SubmitSend(j)
    <3>1. status[j] \in {"absent", "pending"}
      BY <2>0, <2>3 DEF SubmitSend, JobInv
    <3>2. UNCHANGED <<attempts, durable>> /\ status' = [status EXCEPT ![j] = "pending"]
      BY <2>3 DEF SubmitSend
    <3> QED
      BY <1>2, <2>0, <3>1, <3>2 DEF JobStatuses
  <2> QED
    BY <1>3, <2>1, <2>2, <2>3 DEF SubmitStep
<1>4. ASSUME NEW j \in Jobs, Acquire(j), UNCHANGED <<attempts, durable>> PROVE AttemptsSpent'
  <2>1. status[j] = "pending"
    BY <1>4, AcquireFacts
  <2>2. status' = [status EXCEPT ![j] = "running"]
    BY <1>4 DEF Acquire
  <2> QED
    BY <1>2, <1>4, <2>1, <2>2 DEF JobStatuses
<1>5. ASSUME NEW w \in Workers, WorkerStep(w) PROVE AttemptsSpent'
  <2> DEFINE j == worker[w].job
  <2>0. worker[w].pc \in {"handling", "requeue"} => j \in Jobs /\ status[j] = "running"
    <3>1. WorkerInv(w)
      OBVIOUS
    <3> QED
      BY <3>1, HeldFacts DEF WorkerInv
  <2>1. CASE DequeueJob(w)
    <3>1. ch \in Seq(Jobs \cup {NoJob}) /\ ch # <<>> /\ Head(ch) # NoJob
      BY <2>1 DEF DequeueJob, TypeOK
    <3>2. Head(ch) \in Jobs /\ Holds(ch, Head(ch))
      BY <3>1, TailHolds
    <3>3. status[Head(ch)] \in {"running", "pending"}
      BY <3>2 DEF JobInv
    <3>4. UNCHANGED <<attempts, durable>> /\ status' = [status EXCEPT ![Head(ch)] = "running"]
      BY <2>1 DEF DequeueJob
    <3> QED
      BY <1>2, <3>2, <3>3, <3>4 DEF JobStatuses
  <2>2. CASE DequeueSignal(w)
    <3>1. UNCHANGED <<attempts, durable>> /\ (status' = status \/ \E k \in Jobs : Acquire(k))
      BY <2>2 DEF DequeueSignal
    <3> QED
      BY <1>1, <1>4, <3>1
  <2>3. CASE HandlerRetries(w) \/ HandlerExhausts(w)
    BY <2>3, HandlerAttempts
  <2>4. CASE Requeue(w)
    <3>1. j \in Jobs /\ status[j] = "running"
      BY <2>0, <2>4 DEF Requeue
    <3>2. UNCHANGED <<attempts, durable>> /\ (status' = status \/ status' = [status EXCEPT ![j] = "pending"])
      BY <2>4 DEF Requeue
    <3> HIDE DEF j
    <3> QED
      BY <1>1, <1>2, <3>1, <3>2 DEF JobStatuses
  <2>5. ASSUME NEW kids \in SUBSET NewChildren, HandlerSucceeds(w, kids) PROVE AttemptsSpent'
    <3>1. j \in Jobs /\ status[j] = "running"
      BY <2>0, <2>5 DEF HandlerSucceeds
    <3>2. UNCHANGED durable /\ UNCHANGED attempts
      <4>1. attempts \in [Jobs -> Nat]
        BY DEF TypeOK
      <4> QED
        BY <2>5, <3>1, <4>1 DEF HandlerSucceeds, Ends
    <3>3. status' = status \/ status' = [status EXCEPT ![j] = "completed"]
      BY <2>5 DEF HandlerSucceeds, Ends
    <3> HIDE DEF j
    <3> QED
      BY <1>1, <1>2, <3>1, <3>2, <3>3 DEF JobStatuses, Finished
  <2>6. ASSUME NEW k \in worker[w].kids, SubmitStep(k) PROVE AttemptsSpent'
    <3>1. k \in Children
      BY <2>6 DEF TypeOK
    <3> QED
      BY <1>3, <2>6, <3>1
  <2>7. ASSUME NEW k \in worker[w].kids, PersistChild(w, k) PROVE AttemptsSpent'
    <3>1. k \in Children /\ k \in Jobs
      BY <2>7 DEF TypeOK, Jobs
    <3>2. status[k] = "absent"
      BY <2>7, <3>1 DEF PersistChild, Submitting, JobInv
    <3>3. UNCHANGED <<attempts, durable>> /\ (status' = status \/ status' = [status EXCEPT ![k] = "pending"])
      BY <2>7 DEF PersistChild, InsertRow
    <3> QED
      BY <1>1, <1>2, <3>1, <3>2, <3>3 DEF JobStatuses
  <2>8. CASE FinishJob(w) \/ CheckDone(w) \/ WorkerExit(w)
    BY <1>1, <2>8 DEF FinishJob, CheckDone, WorkerExit
  <2> QED
    BY <1>5, <2>1, <2>2, <2>3, <2>4, <2>5, <2>6, <2>7, <2>8 DEF WorkerStep
<1>6. CASE CallerStep
  <2>1. CASE Start \/ Abandon \/ Shutdown
    BY <1>1, <2>1 DEF Start, Abandon, Shutdown
  <2> QED
    BY <1>3, <1>6, <2>1 DEF CallerStep
<1>7. CASE PollAcquire
  <2>1. UNCHANGED <<attempts, durable>> /\ (status' = status \/ \E k \in Jobs : Acquire(k))
    BY <1>7 DEF PollAcquire
  <2> QED
    BY <1>1, <1>4, <2>1
<1>8. CASE CloseQueue \/ PollCheck \/ PollDispatch \/ PollExit \/ TimePasses
  BY <1>1, <1>8 DEF CloseQueue, PollCheck, PollDispatch, PollExit, TimePasses, BecomesDue
<1>9. CASE UNCHANGED vars
  BY <1>1, <1>9 DEF vars
<1> QED
  BY <1>5, <1>6, <1>7, <1>8, <1>9 DEF Next, DispatchReady, Terminated, StaysJammed

(* A job is dead-lettered exactly when it has used all its attempts, for   *)
(* any limit and any number of retries, failing store calls and restarts.  *)
THEOREM AttemptsSpentHolds == Spec => []AttemptsSpent
<1>1. Init => PoolInv /\ AttemptsSpent
  BY PoolInit, AttemptsInit
<1>2. PoolInv /\ AttemptsSpent /\ [Next]_vars => (PoolInv /\ AttemptsSpent)'
  BY PoolNext, AttemptsNext
<1> QED
  BY <1>1, <1>2, PTL DEF Spec

(***************************************************************************)
(* The count.  Rows that New left in the table are not in counted until    *)
(* the poller or a worker acquires them, and a worker that does so does    *)
(* not raise inFlight: slipped has these.                                  *)
(***************************************************************************)

(* A step that leaves the set of accepted jobs as it is. *)
LEMMA SameCount ==
    ASSUME CountInv, ~ stopping,
           counted' \cup InChannel' = counted \cup InChannel,
           UNCHANGED <<inFlight, slipped>>,
           \A j \in Jobs : status'[j] = "pending" => Known(j)'
    PROVE  CountInv'
BY DEF CountInv

(* A job that is accepted and counted, once. *)
LEMMA CountCounts ==
    ASSUME PoolInv, CountInv, ~ stopping, NEW j \in Jobs, j \notin counted, ~ Holds(ch, j),
           Count(j), UNCHANGED <<ch, slipped>>,
           \A k \in Jobs : status'[k] = "pending" => status[k] = "pending"
    PROVE  CountInv'
<1> DEFINE U == counted \cup InChannel
<1>1. IsFiniteSet(U) /\ IsFiniteSet(slipped) /\ inFlight + Cardinality(slipped) = Cardinality(U) /\ j \notin U
      /\ inFlight \in Int
      /\ \A k \in Jobs : status[k] = "pending" => Known(k)
  BY PoolFacts DEF CountInv, InChannel, TypeOK
<1>2. (counted \cup InChannel)' = U \cup {j}
  BY DEF InChannel, Count
<1> HIDE DEF U
<1>3. IsFiniteSet(U \cup {j}) /\ Cardinality(U \cup {j}) = Cardinality(U) + 1
      /\ Cardinality(U) \in Nat /\ Cardinality(slipped) \in Nat
  BY <1>1, FS_AddElement, FS_CardinalityType
<1>4. inFlight' + Cardinality(slipped) = Cardinality(U) + 1
  BY <1>1, <1>3 DEF Count
<1>5. \A k \in Jobs : status'[k] = "pending" => Known(k)'
  BY <1>1 DEF Known, Count
<1> QED
  BY <1>1, <1>2, <1>3, <1>4, <1>5 DEF CountInv

(* A submission counts its job. *)
LEMMA SubmitBeginCounts ==
    ASSUME PoolInv, CountInv, NEW j \in External \cup Children, SubmitBegin(j)
    PROVE  CountInv'
<1> USE PoolFacts DEF rows, phase, failures
<1>0. /\ j \in Jobs /\ JobInv(j) /\ ~ stopping /\ sub[j] = "none"
      /\ Count(j) /\ UNCHANGED <<status, ch, slipped>>
  BY DEF SubmitBegin, Jobs
<1>1. j \notin counted /\ ~ Holds(ch, j)
  BY <1>0, AbsentNowhere DEF JobInv
<1> QED
  BY <1>0, <1>1, CountCounts

(* A job that is no longer counted was counted, and is not in the channel. *)
LEMMA UncountCounts ==
    ASSUME PoolInv, CountInv, ~ stopping, NEW j \in Jobs, j \in counted, ~ Holds(ch, j), status[j] # "pending",
           Uncount(j), UNCHANGED <<status, ch, slipped>>
    PROVE  CountInv'
<1> DEFINE U == counted \cup InChannel
<1>1. IsFiniteSet(U) /\ IsFiniteSet(slipped) /\ inFlight + Cardinality(slipped) = Cardinality(U) /\ j \in U
      /\ inFlight \in Int
      /\ \A k \in Jobs : status[k] = "pending" => Known(k)
  BY PoolFacts DEF CountInv, TypeOK
<1>2. (counted \cup InChannel)' = U \ {j}
  BY DEF InChannel, Uncount
<1> HIDE DEF U
<1>3. IsFiniteSet(U \ {j}) /\ Cardinality(U \ {j}) = Cardinality(U) - 1
      /\ Cardinality(U) \in Nat /\ Cardinality(slipped) \in Nat
  BY <1>1, FS_RemoveElement, FS_CardinalityType
<1>4. inFlight' + Cardinality(slipped) = Cardinality(U) - 1
  BY <1>1, <1>3 DEF Uncount
<1>5. \A k \in Jobs : status'[k] = "pending" => Known(k)'
  BY <1>1 DEF Known, Uncount
<1> QED
  BY <1>1, <1>2, <1>3, <1>4, <1>5 DEF CountInv

LEMMA CreateJobCounts ==
    ASSUME PoolInv, CountInv, ~ stopping, NEW j \in External \cup Children, CreateJob(j)
    PROVE  CountInv'
<1> USE PoolFacts DEF rows, counts, phase, failures
<1>0. j \in Jobs /\ sub[j] = "counted" /\ JobInv(j) /\ UNCHANGED <<ch, slipped>>
  BY DEF CreateJob, Jobs
<1>1. status[j] = "absent" /\ j \in counted /\ ~ Holds(ch, j)
  BY <1>0, AbsentNowhere DEF JobInv
<1>2. CASE InsertRow(j) /\ UNCHANGED counts
  <2>1. \A k \in Jobs : status'[k] = IF k = j THEN "pending" ELSE status[k]
    BY <1>0, <1>2 DEF InsertRow, TypeOK
  <2>2. \A k \in Jobs : status'[k] = "pending" => Known(k)'
    BY <1>1, <1>2, <2>1 DEF CountInv, Known
  <2>3. counted' \cup InChannel' = counted \cup InChannel
    BY <1>0, <1>2 DEF InChannel
  <2> QED
    BY <1>0, <1>2, <2>2, <2>3, SameCount
<1>3. CASE Uncount(j) /\ UNCHANGED rows
  BY <1>0, <1>1, <1>3, UncountCounts
<1> QED
  BY <1>2, <1>3 DEF CreateJob

LEMMA SubmitSendCounts ==
    ASSUME PoolInv, CountInv, ~ stopping, NEW j \in External \cup Children, SubmitSend(j)
    PROVE  CountInv'
<1> USE PoolFacts DEF counts, phase
<1> DEFINE x == IF durable THEN NoJob ELSE j
<1>0. /\ j \in Jobs /\ JobInv(j) /\ j \in counted
      /\ UNCHANGED <<counted, inFlight, slipped>>
  BY DEF SubmitSend, Jobs, JobInv
<1>1. x \in Jobs \cup {NoJob} /\ ch \in Seq(Jobs \cup {NoJob}) /\ ch' = Append(ch, x)
      /\ status' = [status EXCEPT ![j] = "pending"] /\ x \in {NoJob, j}
  BY <1>0 DEF SubmitSend, TypeOK
<1> HIDE DEF x
<1>2. \A k : Holds(ch', k) <=> Holds(ch, k) \/ k = x
  BY <1>1, AppendHolds
<1>3. counted' \cup InChannel' = counted \cup InChannel
  BY <1>0, <1>1, <1>2 DEF InChannel
<1>4. \A k \in Jobs : status'[k] = "pending" => Known(k)'
  BY <1>0, <1>1 DEF CountInv, TypeOK, Known
<1> QED
  BY <1>0, <1>3, <1>4, SameCount

(* A worker that takes a reloaded job moves it from the channel to         *)
(* counted; an acquired row is counted, or it slips in.                    *)
LEMMA DequeueCounts ==
    ASSUME PoolInv, CountInv, ~ stopping, NEW w \in Workers, DequeueJob(w) \/ DequeueSignal(w)
    PROVE  CountInv'
<1> USE PoolFacts DEF counts, phase
<1>0. /\ ch \in Seq(Jobs \cup {NoJob}) /\ ch # <<>> /\ ch' = Tail(ch)
      /\ UNCHANGED inFlight
  BY DEF DequeueJob, DequeueSignal, TypeOK
<1> DEFINE h == Head(ch)
<1>1. h \in Jobs \cup {NoJob} /\ \A k : Holds(ch, k) <=> Holds(ch', k) \/ k = h
  BY <1>0, TailHolds
<1>2. CASE DequeueJob(w)
  <2>1. /\ h # NoJob /\ status' = [status EXCEPT ![h] = "running"]
        /\ counted' = counted \cup {h} /\ UNCHANGED slipped
    BY <1>2 DEF DequeueJob, Handles
  <2> HIDE DEF h
  <2>2. counted' \cup InChannel' = counted \cup InChannel
    BY <1>1, <2>1 DEF InChannel
  <2>3. \A k \in Jobs : status'[k] = "pending" => Known(k)'
    BY <1>1, <2>1 DEF CountInv, TypeOK, Known
  <2> QED
    BY <1>0, <2>1, <2>2, <2>3, SameCount
<1>3. CASE DequeueSignal(w)
  <2>1. h = NoJob
    BY <1>3 DEF DequeueSignal
  <2> HIDE DEF h
  <2>2. InChannel' = InChannel
    BY <1>1, <2>1 DEF InChannel
  <2>3. CASE UNCHANGED <<status, counted, slipped>>
    BY <1>0, <2>2, <2>3, SameCount DEF CountInv, Known
  <2>4. ASSUME NEW j \in Jobs, Acquire(j), Handles(w, j), slipped' = slipped \cup ({j} \ counted)
        PROVE  CountInv'
    <3>1. /\ status[j] = "pending" /\ ~ Holds(ch, j)
          /\ \A k \in Jobs : status'[k] = IF k = j THEN "running" ELSE status[k]
      BY <2>4, AcquireFacts
    <3>2. counted' = counted \cup {j} /\ Known(j)
      BY <2>4, <3>1 DEF Handles, CountInv
    <3>3. \A k \in Jobs : status'[k] = "pending" => Known(k)'
      BY <2>4, <3>1, <3>2 DEF CountInv, Known
    <3>4. CASE j \in counted
      <4>1. slipped' = slipped /\ counted' \cup InChannel' = counted \cup InChannel
        BY <2>2, <2>4, <3>2, <3>4
      <4> QED
        BY <1>0, <3>3, <4>1, SameCount
    <3>5. CASE j \notin counted
      <4> DEFINE U == counted \cup InChannel
      <4>1. /\ IsFiniteSet(U) /\ IsFiniteSet(slipped) /\ inFlight + Cardinality(slipped) = Cardinality(U)
            /\ inFlight \in Int /\ j \notin U /\ j \notin slipped
            /\ (counted \cup InChannel)' = U \cup {j} /\ slipped' = slipped \cup {j}
        BY <2>2, <2>4, <3>1, <3>2, <3>5 DEF CountInv, TypeOK, InChannel, Known
      <4> HIDE DEF U
      <4>2. /\ IsFiniteSet(U \cup {j}) /\ Cardinality(U \cup {j}) = Cardinality(U) + 1
            /\ IsFiniteSet(slipped \cup {j}) /\ Cardinality(slipped \cup {j}) = Cardinality(slipped) + 1
            /\ Cardinality(U) \in Nat /\ Cardinality(slipped) \in Nat
        BY <4>1, FS_AddElement, FS_CardinalityType
      <4>3. inFlight + (Cardinality(slipped) + 1) = Cardinality(U) + 1
        BY <4>1, <4>2
      <4> QED
        BY <1>0, <3>3, <4>1, <4>2, <4>3 DEF CountInv
    <3> QED
      BY <3>4, <3>5
  <2> QED
    BY <1>3, <2>3, <2>4 DEF DequeueSignal
<1> QED
  BY <1>2, <1>3

(* A retry is not counted again, in memory or with a store. *)
LEMMA RetryCounts ==
    ASSUME PoolInv, CountInv, ~ stopping, NEW w \in Workers, HandlerRetries(w) \/ Requeue(w)
    PROVE  CountInv'
<1> USE PoolFacts DEF counts, phase, rows
<1> DEFINE j == worker[w].job
<1>0. worker[w].pc \in {"handling", "requeue"} /\ UNCHANGED <<counted, inFlight, slipped>>
  BY DEF HandlerRetries, Requeue
<1>1. j \in Jobs /\ j \in counted
  BY <1>0, HeldFacts
<1>2. status' = status \/ status' = [status EXCEPT ![j] = "pending"]
  BY DEF HandlerRetries, Requeue
<1>3. ch' = ch \/ ch' = Append(ch, j)
  BY DEF HandlerRetries, Requeue
<1> HIDE DEF j
<1>4. \A k \in Jobs : status'[k] = "pending" => Known(k)'
  BY <1>0, <1>1, <1>2 DEF CountInv, TypeOK, Known
<1>5. \A k : (Holds(ch, k) => Holds(ch', k)) /\ (Holds(ch', k) => Holds(ch, k) \/ k = j)
  <2>1. j \in Jobs \cup {NoJob} /\ ch \in Seq(Jobs \cup {NoJob})
    BY <1>1 DEF TypeOK
  <2>2. \A k : Holds(Append(ch, j), k) <=> Holds(ch, k) \/ k = j
    BY <2>1, AppendHolds
  <2> QED
    BY <1>3, <2>2
<1>6. counted' \cup InChannel' = counted \cup InChannel
  BY <1>0, <1>1, <1>5 DEF InChannel
<1> QED
  BY <1>0, <1>4, <1>6, SameCount

(* The handler ends a job: it stays counted until its children are.        *)
LEMMA EndsCounts ==
    ASSUME PoolInv, CountInv, ~ stopping, NEW w \in Workers, worker[w].pc = "handling",
           NEW s \in Finished, NEW tries, Ends(w, s, tries),
           UNCHANGED <<ch, counts>>
    PROVE  CountInv'
<1> USE PoolFacts DEF counts, phase, failures
<1> DEFINE j == worker[w].job
<1>1. j \in Jobs
  BY HeldFacts
<1>2. status' = status \/ status' = [status EXCEPT ![j] = s]
  BY DEF Ends
<1> HIDE DEF j
<1>3. \A k \in Jobs : status'[k] = "pending" => Known(k)'
  BY <1>1, <1>2 DEF CountInv, TypeOK, Finished, Known
<1>4. counted' \cup InChannel' = counted \cup InChannel
  BY DEF InChannel
<1> QED
  BY <1>3, <1>4, SameCount

LEMMA FinishCounts ==
    ASSUME PoolInv, CountInv, ~ stopping, NEW w \in Workers, FinishJob(w)
    PROVE  CountInv'
<1> DEFINE j == worker[w].job
<1>1. /\ j \in Jobs /\ j \in counted /\ ~ Holds(ch, j) /\ status[j] \in Finished \cup {"running"}
  BY HeldFacts DEF FinishJob
<1>2. Uncount(j) /\ UNCHANGED <<status, ch, slipped>>
  BY DEF FinishJob, rows
<1> HIDE DEF j
<1> QED
  BY <1>1, <1>2, UncountCounts DEF Finished

(* The poller counts the rows it acquires, unless they are counted, and    *)
(* moves them into the channel.                                            *)
LEMMA PollCounts ==
    ASSUME PoolInv, CountInv, ~ stopping, PollAcquire \/ PollDispatch
    PROVE  CountInv'
<1> USE PoolFacts DEF counts, phase, rows
<1>1. CASE PollAcquire
  <2>1. UNCHANGED <<ch, slipped>>
    BY <1>1 DEF PollAcquire
  <2>2. ASSUME NEW j \in Jobs, Acquire(j), CountOnce(j)
        PROVE  CountInv'
    <3>1. /\ status[j] = "pending" /\ ~ Holds(ch, j)
          /\ \A k \in Jobs : status'[k] = IF k = j THEN "running" ELSE status[k]
      BY <2>2, AcquireFacts
    <3>2. \A k \in Jobs : status'[k] = "pending" => status[k] = "pending"
      BY <3>1
    <3>3. CASE j \in counted
      <4>1. UNCHANGED <<counted, inFlight>>
        BY <2>2, <3>3 DEF CountOnce
      <4>2. \A k \in Jobs : status'[k] = "pending" => Known(k)'
        BY <2>1, <3>2, <4>1 DEF CountInv, Known
      <4> QED
        BY <2>1, <4>1, <4>2, SameCount DEF InChannel
    <3>4. CASE j \notin counted
      <4>1. Count(j)
        BY <2>2, <3>4 DEF CountOnce, Count
      <4> QED
        BY <2>1, <3>1, <3>2, <3>4, <4>1, CountCounts
    <3> QED
      BY <3>3, <3>4
  <2>3. CASE UNCHANGED <<status, counted, inFlight>>
    BY <2>1, <2>3, SameCount DEF CountInv, Known, InChannel
  <2> QED
    BY <1>1, <2>2, <2>3 DEF PollAcquire
<1>2. CASE PollDispatch
  <2> DEFINE j == poller.job
  <2>1. UNCHANGED <<status, counted, inFlight, slipped>> /\ (ch' = ch \/ ch' = Append(ch, j))
    BY <1>2 DEF PollDispatch
  <2>2. j \in Jobs /\ JobInv(j)
    BY <1>2 DEF PollDispatch, PhaseInv, TypeOK
  <2>3. j \in counted
    BY <2>2 DEF JobInv
  <2> HIDE DEF j
  <2>4. \A k : (Holds(ch, k) => Holds(ch', k)) /\ (Holds(ch', k) => Holds(ch, k) \/ k = j)
    <3>1. j \in Jobs \cup {NoJob} /\ ch \in Seq(Jobs \cup {NoJob})
      BY <2>2 DEF TypeOK
    <3>2. \A k : Holds(Append(ch, j), k) <=> Holds(ch, k) \/ k = j
      BY <3>1, AppendHolds
    <3> QED
      BY <2>1, <3>2
  <2>5. counted' \cup InChannel' = counted \cup InChannel
    BY <2>1, <2>3, <2>4 DEF InChannel
  <2>6. \A k \in Jobs : status'[k] = "pending" => Known(k)'
    BY <2>1 DEF CountInv, Known
  <2> QED
    BY <2>1, <2>5, <2>6, SameCount
<1> QED
  BY <1>1, <1>2

LEMMA CountInit ==
    ASSUME Init
    PROVE  CountInv
<1>1. PICK left \in SUBSET Earlier, stuck \in SUBSET Earlier, buffer \in Nat :
        /\ durable \/ left = {}
        /\ stuck \subseteq left \cap Reloaded
        /\ NewQueue(buffer, left, stuck)
  BY InitFacts
<1>2. /\ IsFiniteSet(InChannel) /\ inFlight = Cardinality(InChannel) /\ inFlight \in Nat
      /\ \A j \in Jobs : status[j] = "pending" => j \in left
  BY <1>1, NewQueueFacts
<1>3. counted = {} /\ slipped = {}
  BY DEF Init
<1>4. counted \cup InChannel = InChannel /\ IsFiniteSet(slipped) /\ Cardinality(slipped) = 0
  BY <1>3, FS_EmptySet
<1> QED
  BY <1>2, <1>3, <1>4 DEF CountInv, Known

LEMMA CountNext ==
    ASSUME PoolInv, CountInv, [Next]_vars
    PROVE  CountInv'
<1> USE DEF rows, counts, phase, failures
<1>0. CASE stopping' = TRUE
  BY <1>0 DEF CountInv
<1>1. CASE UNCHANGED <<status, ch, counted, inFlight, slipped, stopping>>
  BY <1>1 DEF CountInv, InChannel, Known
<1>2. CASE ~ stopping /\ stopping' # TRUE
  <2> USE <1>2
  <2>1. ASSUME NEW j \in External \cup Children, SubmitStep(j) PROVE CountInv'
    BY <2>1, SubmitBeginCounts, CreateJobCounts, SubmitSendCounts DEF SubmitStep
  <2>2. ASSUME NEW w \in Workers, WorkerStep(w) PROVE CountInv'
    <3>1. \A k \in worker[w].kids : k \in Children
      BY PoolFacts DEF TypeOK
    <3>2. ASSUME NEW kids \in SUBSET NewChildren, HandlerSucceeds(w, kids) PROVE CountInv'
      BY <3>2, EndsCounts DEF HandlerSucceeds, Finished
    <3>3. ASSUME HandlerExhausts(w) PROVE CountInv'
      BY <3>3, EndsCounts DEF HandlerExhausts, Finished
    <3>4. ASSUME NEW k \in worker[w].kids, SubmitStep(k) \/ PersistChild(w, k) PROVE CountInv'
      BY <2>1, <3>1, <3>4 DEF PersistChild
    <3>5. CASE CheckDone(w) \/ WorkerExit(w)
      BY <3>5, <1>1 DEF CheckDone, WorkerExit
    <3> QED
      BY <2>2, <3>2, <3>3, <3>4, <3>5, DequeueCounts, RetryCounts, FinishCounts DEF WorkerStep
  <2>3. CASE CallerStep
    <3>1. CASE Start \/ Abandon
      BY <3>1, <1>1 DEF Start, Abandon
    <3>2. CASE Shutdown
      BY <3>2 DEF Shutdown
    <3> QED
      BY <2>1, <2>3, <3>1, <3>2 DEF CallerStep
  <2>4. CASE CloseQueue \/ PollCheck \/ PollExit \/ TimePasses
    BY <2>4, <1>1 DEF CloseQueue, PollCheck, PollExit, TimePasses, BecomesDue
  <2>5. CASE PollAcquire \/ PollDispatch
    BY <2>5, PollCounts
  <2>6. CASE UNCHANGED vars
    BY <2>6, <1>1 DEF vars
  <2> QED
    BY <2>2, <2>3, <2>4, <2>5, <2>6 DEF Next, DispatchReady, Terminated, StaysJammed
<1>3. CASE stopping /\ stopping' # TRUE
  <2>1. stopping \in BOOLEAN
    BY PoolFacts DEF TypeOK
  <2>2. stopping' = stopping
    BY <1>3 DEF Next, CallerStep, Start, Abandon, Shutdown, CloseQueue, SubmitStep, SubmitBegin, CreateJob,
       SubmitSend, WorkerStep, DequeueJob, DequeueSignal, HandlerRetries, Requeue, HandlerExhausts,
       HandlerSucceeds, PersistChild, FinishJob, CheckDone, WorkerExit, DispatchReady, PollCheck,
       PollAcquire, PollDispatch, PollExit, TimePasses, BecomesDue, Terminated, StaysJammed, vars
  <2> QED
    BY <1>3, <2>1, <2>2
<1> QED
  BY <1>0, <1>2, <1>3

(* Until the shutdown starts, inFlight is the number of jobs the pool has  *)
(* accepted and not finished, however often they were retried, less the    *)
(* rows that slipped in after a restart, whichever store calls fail.       *)
THEOREM InFlightIsExactHolds == Spec => []InFlightIsExact
<1>1. Init => PoolInv /\ CountInv
  BY PoolInit, CountInit
<1>2. PoolInv /\ CountInv /\ [Next]_vars => (PoolInv /\ CountInv)'
  BY PoolNext, CountNext
<1>3. PoolInv /\ CountInv => InFlightIsExact
  <2>1. PoolInv => DOMAIN ch = 1..Len(ch)
    BY DEF PoolInv, TypeOK
  <2>2. PoolInv => {j \in Jobs : \E i \in DOMAIN ch : ch[i] = j} = InChannel
    BY <2>1 DEF InChannel, Holds
  <2> QED
    BY <2>2 DEF CountInv, InFlightIsExact
<1> QED
  BY <1>1, <1>2, <1>3, PTL DEF Spec

(* Only checkDone closes the done channel, and it has seen a zero. *)
LEMMA ClosesAtZero ==
    ASSUME [Next]_vars, done', ~ done
    PROVE  inFlight = 0
<1> USE DEF rows, counts, phase, failures
<1>1. CASE \E w \in Workers : CheckDone(w)
  BY <1>1 DEF CheckDone, NothingLeft
<1>2. CASE UNCHANGED done
  BY <1>2
<1> QED
  BY <1>1, <1>2 DEF Next, CallerStep, Start, Abandon, Shutdown, CloseQueue, SubmitStep, SubmitBegin, CreateJob,
     SubmitSend, WorkerStep, DequeueJob, DequeueSignal, HandlerRetries, Requeue, HandlerExhausts,
     HandlerSucceeds, PersistChild, FinishJob, WorkerExit, DispatchReady, PollCheck,
     PollAcquire, PollDispatch, PollExit, TimePasses, BecomesDue, Terminated, StaysJammed, vars

(* When the done channel closes before a shutdown and no row has slipped   *)
(* in, every job that was submitted, returned by a handler, reloaded or    *)
(* polled has finished, or its store call has failed; only rows of an      *)
(* earlier process that nobody has acquired are left.                      *)
THEOREM DoneMeansIdleHolds == Spec => DoneMeansIdle
<1>1. Init => PoolInv /\ CountInv
  BY PoolInit, CountInit
<1>2. PoolInv /\ CountInv /\ [Next]_vars => (PoolInv /\ CountInv)'
  BY PoolNext, CountNext
<1>3. ASSUME PoolInv, CountInv, [Next]_vars, done', ~ done, ~ stopping, slipped = {}, NEW j \in Jobs
      PROVE  \/ status[j] \in Finished \cup {"absent"}
             \/ j \in stranded
             \/ j \in Earlier \ counted /\ status[j] = "pending"
  <2> USE <1>3, PoolFacts
  <2> DEFINE U == counted \cup InChannel
  <2>0. inFlight = 0
    BY ClosesAtZero
  <2>1. counted = {} /\ ~ Holds(ch, j) /\ (status[j] = "pending" => j \in Earlier)
    <3>1. IsFiniteSet(U) /\ inFlight + Cardinality(slipped) = Cardinality(U)
      BY DEF CountInv
    <3>2. Cardinality(slipped) = 0
      BY FS_EmptySet
    <3> HIDE DEF U
    <3>3. U = {}
      BY <2>0, <3>1, <3>2, FS_EmptySet
    <3> QED
      BY <3>3 DEF U, InChannel, CountInv, Known
  <2>2. ~ AtWorker(j)
    <3>1. ASSUME NEW w \in Workers, worker[w].job = j PROVE FALSE
      <4>1. WorkerInv(w)
        OBVIOUS
      <4> QED
        BY <2>1, <3>1, <4>1 DEF WorkerInv
    <3> QED
      BY <3>1 DEF AtWorker
  <2>3. JobInv(j) /\ status[j] \in JobStatuses
    BY DEF TypeOK
  <2> QED
    BY <2>1, <2>2, <2>3 DEF JobInv, JobStatuses
<1>4. PoolInv /\ CountInv /\ [Next]_vars =>
        [(done' /\ ~done /\ ~stopping /\ slipped = {}) =>
             \A j \in Jobs :
                 \/ status[j] \in Finished \cup {"absent"}
                 \/ j \in stranded
                 \/ j \in Earlier \ counted /\ status[j] = "pending"]_vars
  BY <1>3
<1> QED
  BY <1>1, <1>2, <1>4, PTL DEF Spec, DoneMeansIdle

=============================================================================
