-------------------------- MODULE JobServiceProofs --------------------------
(***************************************************************************)
(* Proofs about JobService, for any set of jobs, claim loops and workers   *)
(* and any bounds.                                                         *)
(*                                                                         *)
(* The lemmas of the first part say that each change a transaction makes   *)
(* to one row keeps the row good; the second part lifts this to the table  *)
(* and to the claim loops, one step per action.                            *)
(***************************************************************************)
EXTENDS JobService, TLAPS

USE DEF Terminal, Queued, Active, Status, ErrorKinds

GoodRow(row) == row \in Row /\ RowInv(row)

Attempts == 0..MaxAttemptsCap

RunList == [1..MaxAttemptsCap -> RunStatus]

(***************************************************************************)
(* Rows.                                                                   *)
(***************************************************************************)

(* Opening or closing one attempt leaves the other attempts alone. *)
LEMMA RunsUpdate ==
  ASSUME NEW runs \in RunList, NEW n \in 1..MaxAttemptsCap, NEW run \in RunStatus
  PROVE  /\ [runs EXCEPT ![n] = run] \in RunList
         /\ [runs EXCEPT ![n] = run][n] = run
         /\ \A m \in 1..MaxAttemptsCap : m # n => [runs EXCEPT ![n] = run][m] = runs[m]
BY DEF RunList

(* RowInv depends on these columns only. *)
LEMMA SameInv ==
  ASSUME NEW row, NEW copy, RowInv(row),
         copy.status = row.status, copy.root = row.root, copy.attempts = row.attempts,
         copy.maxAttempts = row.maxAttempts, copy.lockedBy = row.lockedBy,
         copy.leaseToken = row.leaseToken, copy.leaseExpired = row.leaseExpired,
         copy.runs = row.runs, copy.dlq = row.dlq
  PROVE  RowInv(copy)
BY DEF RowInv

(* A row that has just been inserted is good. *)
LEMMA NewRowGood ==
  ASSUME NEW type \in JobTypes, NEW root \in JobIds, NEW max \in 1..MaxAttemptsCap,
         NEW events \in SUBSET EventTypes
  PROVE  /\ GoodRow(NewRow(type, root, max, events))
         /\ NewRow(type, root, max, events).attempts = 0
         /\ NewRow(type, root, max, events).leaseToken = 0
BY ConstantsAssumption DEF ConstantsAssumption, GoodRow, Row, RowInv, NewRow, RunStatus

(* The row of an unused identifier is good. *)
LEMMA NoRowGood == GoodRow(NoRow)
<1> DEFINE runs == [n \in 1..MaxAttemptsCap |-> "none"]
<1>1. /\ 0 \in Attempts
      /\ runs \in RunList
      /\ "demo" \in JobTypes
      /\ {} \in SUBSET EventTypes
      /\ "absent" \in Status
   BY ConstantsAssumption
      DEF ConstantsAssumption, Attempts, RunList, RunStatus, JobTypes, PublicTypes
<1>2. \A n \in 1..MaxAttemptsCap : runs[n] = "none" /\ n > 0
   OBVIOUS
<1>3. NoRow = [NewRow("demo", NoJob, 0, {}) EXCEPT !.status = "absent"]
   BY DEF NoRow
<1> HIDE DEF runs
<1>4. NoRow \in Row
   BY <1>1, <1>3 DEF NewRow, Row, Attempts, RunList, runs
<1>5. RowInv(NoRow)
   BY <1>2, <1>3 DEF NewRow, RowInv, runs
<1> QED BY <1>4, <1>5 DEF GoodRow

(* Claim makes a good row out of a queued one, with a new token. *)
LEMMA ClaimedGood ==
  ASSUME NEW row, GoodRow(row), row.status \in Queued, NEW w \in Workers
  PROVE  /\ GoodRow(Claimed(row, w))
         /\ Claimed(row, w).attempts = row.attempts + 1
         /\ Claimed(row, w).leaseToken = row.attempts + 1
         /\ Claimed(row, w).lockedBy = w
         /\ row.attempts + 1 \in 1..MaxAttemptsCap
<1> DEFINE a == row.attempts + 1
           runs == [row.runs EXCEPT ![a] = "running"]
           events == row.events \cup {"started"}
<1>1. /\ a \in 1..MaxAttemptsCap
      /\ a <= row.maxAttempts
      /\ row.attempts \in Nat
      /\ row.maxAttempts \in Nat
      /\ row.root # NoJob
      /\ row.dlq = 0
      /\ w # NoWorker
   BY ConstantsAssumption DEF ConstantsAssumption, GoodRow, Row, RowInv
<1>2. row.runs \in RunList
   BY DEF GoodRow, Row, RunList
<1>3. /\ runs \in RunList
      /\ runs[a] = "running"
      /\ \A m \in 1..MaxAttemptsCap : m # a => runs[m] = row.runs[m]
   <2>1. "running" \in RunStatus
      BY DEF RunStatus
   <2> HIDE DEF a
   <2> QED BY <1>1, <1>2, <2>1, RunsUpdate
<1>4. events \in SUBSET EventTypes
   BY DEF GoodRow, Row, EventTypes
<1>5. \A n \in 1..MaxAttemptsCap :
           /\ row.runs[n] = "none" <=> n > row.attempts
           /\ row.runs[n] # "running"
   BY DEF GoodRow, RowInv
<1>6. \A n \in 1..MaxAttemptsCap :
           /\ runs[n] = "none" <=> n > a
           /\ runs[n] = "running" <=> n = a
   <2> HIDE DEF runs
   <2> QED BY <1>1, <1>3, <1>5
<1>7. row \in Row
   BY DEF GoodRow
<1> DEFINE new == [row EXCEPT !.status = "running", !.attempts = a, !.lockedBy = w,
                              !.leaseToken = a, !.leaseExpired = FALSE, !.runs = runs,
                              !.events = events]
<1>8. Claimed(row, w) = new
   BY DEF Claimed
<1> HIDE DEF a, runs, events
<1>9. new \in Row
   <2>1. a \in Attempts
      BY <1>1 DEF Attempts
   <2>2. runs \in RunList
      BY <1>3
   <2> QED BY <1>4, <1>7, <2>1, <2>2 DEF Row, Attempts, RunList
<1>10. /\ new.attempts = a
       /\ new.leaseToken = a
       /\ new.lockedBy = w
       /\ new.status = "running"
       /\ new.root = row.root
       /\ new.maxAttempts = row.maxAttempts
       /\ new.dlq = row.dlq
       /\ new.runs = runs
   BY <1>7 DEF Row
<1> HIDE DEF new
<1>11. RowInv(new)
   BY <1>1, <1>6, <1>10 DEF RowInv
<1>12. QED
   BY <1>1, <1>8, <1>9, <1>10, <1>11 DEF GoodRow, a

(* A running job that leaves that status stays good, unless it is queued   *)
(* again without an attempt left.                                          *)
LEMMA LeftGood ==
  ASSUME NEW row, GoodRow(row), row.status = "running",
         NEW st \in Status \ {"absent", "running"},
         st \in Queued => row.attempts < row.maxAttempts,
         NEW run \in RunStatus \ {"none", "running"}, NEW event \in EventTypes
  PROVE  /\ GoodRow(Left(row, st, row.attempts, run, event))
         /\ Left(row, st, row.attempts, run, event).leaseToken = 0
         /\ Left(row, st, row.attempts, run, event).attempts = row.attempts
<1> DEFINE runs == [row.runs EXCEPT ![row.attempts] = run]
           events == row.events \cup {event}
           done == st \in Terminal
           dlq == IF st = "dead_lettered" THEN row.dlq + 1 ELSE row.dlq
<1>1. /\ row.attempts \in 1..MaxAttemptsCap
      /\ row.attempts <= row.maxAttempts
      /\ row.maxAttempts \in Nat
      /\ row.root # NoJob
      /\ dlq = IF st = "dead_lettered" THEN 1 ELSE 0
   BY ConstantsAssumption DEF ConstantsAssumption, GoodRow, Row, RowInv
<1>2. row.runs \in RunList
   BY DEF GoodRow, Row, RunList
<1>3. /\ runs \in RunList
      /\ runs[row.attempts] = run
      /\ \A m \in 1..MaxAttemptsCap : m # row.attempts => runs[m] = row.runs[m]
   BY <1>1, <1>2, RunsUpdate
<1>4. /\ events \in SUBSET EventTypes
      /\ done \in BOOLEAN
      /\ dlq \in Nat
   BY <1>1 DEF GoodRow, Row
<1>5. \A n \in 1..MaxAttemptsCap :
           /\ row.runs[n] = "none" <=> n > row.attempts
           /\ row.runs[n] = "running" <=> n = row.attempts
   BY DEF GoodRow, RowInv
<1>6. \A n \in 1..MaxAttemptsCap :
           /\ runs[n] = "none" <=> n > row.attempts
           /\ runs[n] # "running"
   <2> HIDE DEF runs
   <2> QED BY <1>1, <1>3, <1>5
<1>7. row \in Row
   BY DEF GoodRow
<1> DEFINE new == [row EXCEPT !.status = st, !.lockedBy = NoWorker, !.leaseToken = 0,
                              !.leaseExpired = FALSE, !.completedAt = done, !.runs = runs,
                              !.events = events, !.dlq = dlq]
<1>8. Left(row, st, row.attempts, run, event) = new
   BY DEF Left
<1> HIDE DEF runs, events, done, dlq
<1>9. new \in Row
   <2>1. 0 \in Attempts
      BY ConstantsAssumption DEF ConstantsAssumption, Attempts
   <2>2. runs \in RunList
      BY <1>3
   <2>3. st \in Status
      OBVIOUS
   <2> HIDE DEF Status
   <2> QED BY <1>4, <1>7, <2>1, <2>2, <2>3 DEF Row, Attempts, RunList
<1>10. /\ new.attempts = row.attempts
       /\ new.leaseToken = 0
       /\ new.lockedBy = NoWorker
       /\ new.leaseExpired = FALSE
       /\ new.status = st
       /\ new.root = row.root
       /\ new.maxAttempts = row.maxAttempts
       /\ new.dlq = dlq
       /\ new.runs = runs
   BY <1>7 DEF Row
<1> HIDE DEF new
<1>11. RowInv(new)
   BY <1>1, <1>6, <1>10 DEF RowInv
<1>12. QED
   BY <1>8, <1>9, <1>10, <1>11 DEF GoodRow

(* Results are independent of everything RowInv speaks of. *)
LEMMA SetResults ==
  ASSUME NEW row, GoodRow(row), NEW result \in BOOLEAN, NEW audited \in BOOLEAN
  PROVE  /\ GoodRow([row EXCEPT !.result = result, !.audited = audited])
         /\ [row EXCEPT !.result = result, !.audited = audited].leaseToken = row.leaseToken
         /\ [row EXCEPT !.result = result, !.audited = audited].attempts = row.attempts
<1> HIDE DEF Status, ErrorKinds
<1> DEFINE new == [row EXCEPT !.result = result, !.audited = audited]
<1>1. row \in Row
   BY DEF GoodRow
<1>2. new \in Row
   BY <1>1 DEF Row
<1>3. RowInv(new)
   BY <1>1, SameInv DEF GoodRow, Row
<1> QED BY <1>1, <1>2, <1>3 DEF GoodRow, Row

(* Complete keeps the row good, whether the job ends or starts to wait.    *)
LEMMA CompletedGood ==
  ASSUME NEW row, GoodRow(row), row.status = "running",
         NEW st \in {"completed", "waiting"}, NEW withResult \in BOOLEAN
  PROVE  /\ GoodRow(Completed(row, st, row.attempts, withResult))
         /\ Completed(row, st, row.attempts, withResult).leaseToken = 0
         /\ Completed(row, st, row.attempts, withResult).attempts = row.attempts
<1> DEFINE left == Left(row, st, row.attempts, "completed", st)
           result == row.result \/ (withResult /\ (st = "completed" \/ row.type = "dependency_update_scan"))
           audited == row.audited \/ (withResult /\ row.type = "audit_package")
           new == [left EXCEPT !.result = result, !.audited = audited]
<1>1. GoodRow(left) /\ left.leaseToken = 0 /\ left.attempts = row.attempts
   <2>1. /\ st \in Status \ {"absent", "running"}
         /\ st \notin Queued
         /\ "completed" \in RunStatus \ {"none", "running"}
         /\ st \in EventTypes
      BY DEF RunStatus, EventTypes
   <2> HIDE DEF Status, Queued
   <2> QED BY <2>1, LeftGood
<1>2. Completed(row, st, row.attempts, withResult) = new
   BY DEF Completed
<1>3. result \in BOOLEAN /\ audited \in BOOLEAN
   OBVIOUS
<1> HIDE DEF left, result, audited
<1> HIDE DEF new
<1>4. /\ GoodRow([left EXCEPT !.result = result, !.audited = audited])
      /\ [left EXCEPT !.result = result, !.audited = audited].leaseToken = left.leaseToken
      /\ [left EXCEPT !.result = result, !.audited = audited].attempts = left.attempts
   BY <1>1, <1>3, SetResults, Zenon
<1> QED BY <1>1, <1>2, <1>4, Zenon DEF new

(* Fail keeps the row good: a transient failure is retried only while the  *)
(* attempt that failed is not the last one.                                *)
LEMMA FailedGood ==
  ASSUME NEW row, GoodRow(row), row.status = "running", NEW kind \in ErrorKinds
  PROVE  /\ GoodRow(Failed(row, kind, row.attempts))
         /\ Failed(row, kind, row.attempts).leaseToken = 0
         /\ Failed(row, kind, row.attempts).attempts = row.attempts
<1> DEFINE st == FailStatus(kind, row.attempts, row.maxAttempts)
           left == Left(row, st, row.attempts, st, st)
           due == IF st = "retry_scheduled" THEN FALSE ELSE row.due
           new == [left EXCEPT !.due = due, !.lastError = kind]
<1>1. /\ st \in {"cancelled", "retry_scheduled", "dead_lettered", "failed"}
      /\ st \in Queued => row.attempts < row.maxAttempts
   BY DEF FailStatus
<1>2. due \in BOOLEAN
   BY DEF GoodRow, Row
<1>3. Failed(row, kind, row.attempts) = new
   BY DEF Failed
<1> HIDE DEF st
<1>4. GoodRow(left) /\ left.leaseToken = 0 /\ left.attempts = row.attempts
   <2>1. /\ st \in Status \ {"absent", "running"}
         /\ st \in RunStatus \ {"none", "running"}
         /\ st \in EventTypes
      BY <1>1 DEF RunStatus, EventTypes
   <2> HIDE DEF Status, Queued
   <2> QED BY <1>1, <2>1, LeftGood
<1> HIDE DEF left, due
<1>5. new \in Row /\ new.leaseToken = 0 /\ new.attempts = row.attempts
   <2>1. left \in Row
      BY <1>4 DEF GoodRow
   <2>2. kind \in ErrorKinds \cup {"none"}
      OBVIOUS
   <2> HIDE DEF Status, ErrorKinds
   <2> QED BY <1>2, <1>4, <2>1, <2>2 DEF Row
<1>6. RowInv(new)
   BY <1>4, SameInv DEF GoodRow, Row
<1> QED BY <1>3, <1>5, <1>6 DEF GoodRow

(* ReclaimExpired keeps the row good: it queues a job again only if it has *)
(* an attempt left.                                                        *)
LEMMA ReclaimedGood ==
  ASSUME NEW row, GoodRow(row), row.status = "running"
  PROVE  /\ GoodRow(Reclaimed(row))
         /\ Reclaimed(row).leaseToken = 0
         /\ Reclaimed(row).attempts = row.attempts
<1> DEFINE st == ReclaimStatus(row)
           left == Left(row, st, row.attempts, "abandoned", "lease_expired")
           new == [left EXCEPT !.lastError = "transient"]
<1>1. /\ st \in {"cancelled", "dead_lettered", "pending"}
      /\ st \in Queued => row.attempts < row.maxAttempts
   BY DEF ReclaimStatus, GoodRow, Row
<1>2. Reclaimed(row) = new
   BY DEF Reclaimed
<1> HIDE DEF st
<1>3. GoodRow(left) /\ left.leaseToken = 0 /\ left.attempts = row.attempts
   <2>1. /\ st \in Status \ {"absent", "running"}
         /\ "abandoned" \in RunStatus \ {"none", "running"}
         /\ "lease_expired" \in EventTypes
      BY <1>1 DEF RunStatus, EventTypes
   <2> HIDE DEF Status, Queued
   <2> QED BY <1>1, <2>1, LeftGood
<1> HIDE DEF left
<1>4. new \in Row /\ new.leaseToken = 0 /\ new.attempts = row.attempts
   BY <1>3 DEF GoodRow, Row
<1>5. RowInv(new)
   BY <1>3, SameInv DEF GoodRow, Row
<1> QED BY <1>2, <1>4, <1>5 DEF GoodRow

(* Cancelling a job that holds no lease keeps its row good.                *)
LEMMA CancelRowGood ==
  ASSUME NEW row, GoodRow(row), row.status \in Queued \cup {"waiting"},
         NEW events \in SUBSET EventTypes
  PROVE  /\ GoodRow(CancelRow(row))
         /\ CancelRow(row).leaseToken = 0
         /\ CancelRow(row).attempts = row.attempts
         /\ GoodRow([CancelRow(row) EXCEPT !.events = events])
         /\ [CancelRow(row) EXCEPT !.events = events].leaseToken = 0
         /\ [CancelRow(row) EXCEPT !.events = events].attempts = row.attempts
<1>1. /\ CancelRow(row) \in Row
      /\ CancelRow(row).status = "cancelled"
      /\ CancelRow(row).attempts = row.attempts
      /\ CancelRow(row).root = row.root
      /\ CancelRow(row).maxAttempts = row.maxAttempts
      /\ CancelRow(row).lockedBy = row.lockedBy
      /\ CancelRow(row).leaseToken = row.leaseToken
      /\ CancelRow(row).leaseExpired = row.leaseExpired
      /\ CancelRow(row).runs = row.runs
      /\ CancelRow(row).dlq = row.dlq
   BY DEF CancelRow, GoodRow, Row
<1>2. RowInv(CancelRow(row)) /\ CancelRow(row).leaseToken = 0
   BY <1>1 DEF GoodRow, RowInv
<1> DEFINE old == CancelRow(row)
           new == [old EXCEPT !.events = events]
<1> HIDE DEF old
<1>3. new \in Row /\ new.leaseToken = 0 /\ new.attempts = row.attempts
   BY <1>1, <1>2 DEF Row, old
<1>4. RowInv(new)
   BY <1>1, <1>2, SameInv DEF Row, old
<1> QED BY <1>1, <1>2, <1>3, <1>4 DEF GoodRow, old

(* finalizeRoot keeps the row of a waiting root good. *)
LEMMA FinalizedGood ==
  ASSUME NEW row, GoodRow(row), row.status = "waiting",
         NEW st \in {"completed", "failed", "dead_lettered"}
  PROVE  /\ GoodRow(Finalized(row, st))
         /\ Finalized(row, st).leaseToken = 0
         /\ Finalized(row, st).attempts = row.attempts
<1> DEFINE error == CASE st = "dead_lettered" -> "transient"
                      [] st = "failed"        -> "permanent"
                      [] OTHER                -> "none"
           result == row.result \/ (st = "completed" /\ row.type # "dependency_update_scan")
           dlq == IF st = "dead_lettered" THEN row.dlq + 1 ELSE row.dlq
           events == row.events \cup {st}
           new == [row EXCEPT !.status = st, !.completedAt = TRUE, !.lastError = error,
                              !.result = result, !.dlq = dlq, !.events = events]
<1>1. Finalized(row, st) = new
   BY DEF Finalized
<1>2. /\ error \in ErrorKinds \cup {"none"}
      /\ result \in BOOLEAN
      /\ dlq \in Nat
      /\ dlq = IF st = "dead_lettered" THEN 1 ELSE 0
      /\ events \in SUBSET EventTypes
      /\ st \in Status
   BY DEF GoodRow, Row, RowInv, EventTypes
<1> HIDE DEF error, result, dlq, events
<1>3. new \in Row
   <2>1. row \in Row
      BY DEF GoodRow
   <2> DEFINE closed == [row EXCEPT !.status = st, !.completedAt = TRUE, !.lastError = error,
                                   !.dlq = dlq, !.events = events]
   <2> HIDE DEF Status, ErrorKinds
   <2>2. closed \in Row
      <3>1. /\ error \in ErrorKinds \cup {"none"}
            /\ dlq \in Nat
            /\ events \in SUBSET EventTypes
            /\ st \in Status
         BY <1>2
      <3> QED BY <2>1, <3>1 DEF Row
   <2>3. new = [closed EXCEPT !.result = result]
      BY <2>1 DEF Row
   <2> HIDE DEF closed, new
   <2>4. [closed EXCEPT !.result = result] \in Row
      BY <1>2, <2>2 DEF Row
   <2> QED BY <2>3, <2>4
<1>4. /\ new.status = st
      /\ new.attempts = row.attempts
      /\ new.root = row.root
      /\ new.maxAttempts = row.maxAttempts
      /\ new.lockedBy = row.lockedBy
      /\ new.leaseToken = row.leaseToken
      /\ new.leaseExpired = row.leaseExpired
      /\ new.runs = row.runs
      /\ new.dlq = dlq
   BY DEF GoodRow, Row
<1> HIDE DEF new
<1>5. RowInv(new) /\ new.leaseToken = 0
   BY <1>2, <1>4 DEF GoodRow, RowInv
<1> QED BY <1>1, <1>3, <1>4, <1>5 DEF GoodRow

(***************************************************************************)
(* Tables and claim loops.                                                 *)
(***************************************************************************)
GoodTable(table) == table \in [JobIds -> Row] /\ \A j \in JobIds : RowInv(table[j])

(* No attempt is made and no lease is given to anybody: what a row is      *)
(* turned into by anything but a claim.                                    *)
KeepsLease(old, new) ==
    /\ new.attempts = old.attempts
    /\ \/ new.leaseToken = 0
       \/ new.leaseToken = old.leaseToken /\ new.lockedBy = old.lockedBy

KeepsLeases(old, new) == \A j \in JobIds : KeepsLease(old[j], new[j])

(* Replacing one good row by another. *)
LEMMA OneRow ==
  ASSUME NEW table, GoodTable(table), NEW j \in JobIds, NEW new,
         GoodRow(new), KeepsLease(table[j], new)
  PROVE  /\ GoodTable([table EXCEPT ![j] = new])
         /\ KeepsLeases(table, [table EXCEPT ![j] = new])
BY DEF GoodTable, GoodRow, KeepsLeases, KeepsLease

LEMMA KeepsTransitive ==
  ASSUME NEW old, NEW mid, NEW new, KeepsLeases(old, mid), KeepsLeases(mid, new)
  PROVE  KeepsLeases(old, new)
BY DEF KeepsLeases, KeepsLease

(* finalizeRoot keeps the table good and gives out no lease, whatever its  *)
(* snapshot misses.                                                        *)
LEMMA FinalizeRootsGood ==
  ASSUME NEW table, GoodTable(table), NEW rs, NEW missed
  PROVE  /\ GoodTable(FinalizeRoots(table, rs, missed))
         /\ KeepsLeases(table, FinalizeRoots(table, rs, missed))
<1> DEFINE F(j) == IF j \in rs \ missed /\ table[j].status = "waiting" /\ ~ HasActive(table, j)
                   THEN Finalized(table[j], Outcome(table, j))
                   ELSE table[j]
<1>1. ASSUME NEW j \in JobIds
      PROVE  GoodRow(F(j)) /\ KeepsLease(table[j], F(j))
   <2>1. GoodRow(table[j]) /\ KeepsLease(table[j], table[j])
      BY DEF GoodTable, GoodRow, KeepsLease
   <2>2. Outcome(table, j) \in {"completed", "failed", "dead_lettered"}
      BY DEF Outcome
   <2>3. CASE F(j) = table[j]
      BY <2>1, <2>3
   <2>4. CASE F(j) = Finalized(table[j], Outcome(table, j)) /\ table[j].status = "waiting"
      <3> HIDE DEF F
      <3> QED BY <2>1, <2>2, <2>4, FinalizedGood DEF KeepsLease
   <2> QED BY <2>3, <2>4
<1>2. FinalizeRoots(table, rs, missed) = [j \in JobIds |-> F(j)]
   BY DEF FinalizeRoots
<1> HIDE DEF F
<1> QED BY <1>1, <1>2 DEF GoodTable, GoodRow, KeepsLeases

(* A step that gives out no lease, and after which every claim loop goes   *)
(* on with its job, gives up or returns, preserves the invariant.          *)
LEMMA NoNewLease ==
  ASSUME LeaseInv, GoodTable(jobs'), KeepsLeases(jobs, jobs'),
         slots' \in [Slots -> Slot],
         \A s \in Slots : \/ slots'[s] = slots[s]
                          \/ slots'[s] = Idle
                          \/ slots[s] # Idle /\ slots'[s] = [slots[s] EXCEPT !.phase = "giving_up"],
         up' \in [Workers -> BOOLEAN], stops' \in 0..MaxStops
  PROVE  LeaseInv'
<1>1. TypeOK'
   BY DEF TypeOK, GoodTable
<1>2. \A j \in JobIds : RowInv(jobs[j])'
   BY DEF GoodTable
<1>3. ASSUME NEW s \in Slots
      PROVE  SlotInv(s)'
   <2>1. slots[s] \in Slot
      BY DEF LeaseInv, TypeOK
   <2>2. CASE slots'[s] = Idle
      BY <2>2 DEF SlotInv
   <2>3. CASE slots'[s] # Idle
      <3> DEFINE j == slots[s].job
      <3>1. /\ slots'[s].job = j
            /\ slots'[s].token = slots[s].token
            /\ slots'[s].attempts = slots[s].attempts
            /\ slots[s] # Idle
         BY <2>1, <2>3 DEF Slot
      <3>2. /\ j \in JobIds
            /\ slots[s].token = slots[s].attempts
            /\ slots[s].token \in 1..jobs[j].attempts
            /\ jobs[j].leaseToken = slots[s].token => jobs[j].lockedBy = WorkerOf[s]
         BY <3>1 DEF LeaseInv, SlotInv
      <3>3. KeepsLease(jobs[j], jobs'[j])
         BY <3>2 DEF KeepsLeases
      <3> QED BY <3>1, <3>2, <3>3 DEF SlotInv, KeepsLease
   <2> QED BY <2>2, <2>3
<1>4. ASSUME NEW s \in Slots, NEW t \in Slots, s # t,
             slots'[s].job = slots'[t].job, slots'[s].job # NoJob
      PROVE  slots'[s].token # slots'[t].token
   <2>1. slots'[s] # Idle /\ slots'[t] # Idle
      BY <1>4 DEF Idle
   <2>2. ASSUME NEW u \in {s, t}
         PROVE  slots'[u].job = slots[u].job /\ slots'[u].token = slots[u].token
      <3>1. slots[u] \in Slot
         BY DEF LeaseInv, TypeOK
      <3> QED BY <2>1, <3>1 DEF Slot
   <2> QED BY <1>4, <2>2 DEF LeaseInv
<1> QED BY <1>1, <1>2, <1>3, <1>4 DEF LeaseInv

(* A claim gives out a token that no claim loop remembers.  It holds       *)
(* whether the loop learns of its claim or not.                            *)
LEMMA NewLease ==
  ASSUME LeaseInv, NEW s \in Slots, NEW j \in JobIds, slots[s] = Idle,
         jobs[j].status \in Queued,
         jobs' = [jobs EXCEPT ![j] = Claimed(jobs[j], WorkerOf[s])],
         \/ slots' = slots
         \/ slots' = [slots EXCEPT ![s] = [job |-> j, token |-> jobs'[j].leaseToken,
                                           attempts |-> jobs'[j].attempts, phase |-> "handling"]],
         UNCHANGED <<up, stops>>
  PROVE  LeaseInv'
<1> DEFINE a == jobs[j].attempts + 1
<1>1. GoodRow(jobs[j]) /\ WorkerOf[s] \in Workers
   BY ConstantsAssumption DEF ConstantsAssumption, LeaseInv, TypeOK, GoodRow
<1>2. /\ GoodRow(jobs'[j])
      /\ jobs'[j].attempts = a
      /\ jobs'[j].leaseToken = a
      /\ jobs'[j].lockedBy = WorkerOf[s]
      /\ a \in 1..MaxAttemptsCap
   <2>1. jobs'[j] = Claimed(jobs[j], WorkerOf[s])
      BY DEF LeaseInv, TypeOK
   <2> QED BY <1>1, <2>1, ClaimedGood
<1>3. \A i \in JobIds : i # j => jobs'[i] = jobs[i]
   BY DEF LeaseInv, TypeOK
<1>4. jobs' \in [JobIds -> Row]
   BY <1>2 DEF LeaseInv, TypeOK, GoodRow
<1>5. \A i \in JobIds : RowInv(jobs'[i])
   BY <1>2, <1>3 DEF LeaseInv, GoodRow
<1> DEFINE busy == [job |-> j, token |-> a, attempts |-> a, phase |-> "handling"]
<1>6. busy \in Slot
   <2>1. a \in Attempts
      BY <1>2 DEF Attempts
   <2> HIDE DEF a
   <2> QED BY <2>1 DEF Slot, Phases, Attempts
<1>7. /\ slots' \in [Slots -> Slot]
      /\ \A t \in Slots : slots'[t] = slots[t] \/ (t = s /\ slots'[t] = busy)
   BY <1>2, <1>6 DEF LeaseInv, TypeOK
<1>8. ASSUME NEW t \in Slots, slots[t] # Idle
      PROVE  /\ slots[t].job \in JobIds
             /\ slots[t].token = slots[t].attempts
             /\ slots[t].token \in 1..jobs[slots[t].job].attempts
             /\ jobs[slots[t].job].leaseToken = slots[t].token =>
                    jobs[slots[t].job].lockedBy = WorkerOf[t]
   BY <1>8 DEF LeaseInv, SlotInv
<1>9. jobs[j].attempts \in Nat
   BY <1>1 DEF GoodRow, Row
<1>10. ASSUME NEW t \in Slots
       PROVE  SlotInv(t)'
   <2>1. CASE slots'[t] = slots[t] /\ slots[t] = Idle
      BY <2>1 DEF SlotInv
   <2>2. CASE slots'[t] = slots[t] /\ slots[t] # Idle /\ slots[t].job # j
      BY <1>3, <1>8, <2>2 DEF SlotInv
   <2>3. CASE slots'[t] = slots[t] /\ slots[t] # Idle /\ slots[t].job = j
      BY <1>2, <1>8, <1>9, <2>3 DEF SlotInv
   <2>4. CASE t = s /\ slots'[t] = busy
      BY <1>2, <1>9, <2>4 DEF SlotInv
   <2> QED BY <1>7, <2>1, <2>2, <2>3, <2>4
<1>11. ASSUME NEW t \in Slots, NEW u \in Slots, t # u,
              slots'[t].job = slots'[u].job, slots'[t].job # NoJob
       PROVE  slots'[t].token # slots'[u].token
   <2>1. ASSUME NEW v \in Slots, slots[v].job = j
         PROVE  slots[v].token # a
      <3>1. slots[v] # Idle
         BY <2>1, ConstantsAssumption DEF ConstantsAssumption, Idle
      <3> QED BY <1>8, <1>9, <2>1, <3>1
   <2>2. CASE slots'[t] = slots[t] /\ slots'[u] = slots[u]
      BY <1>11, <2>2 DEF LeaseInv
   <2>3. CASE t = s /\ slots'[t] = busy /\ slots'[u] = slots[u]
      BY <1>11, <2>1, <2>3
   <2>4. CASE u = s /\ slots'[u] = busy /\ slots'[t] = slots[t]
      BY <1>11, <2>1, <2>4
   <2> QED BY <1>7, <1>11, <2>2, <2>3, <2>4
<1>12. TypeOK'
   BY <1>4, <1>7 DEF LeaseInv, TypeOK
<1> QED BY <1>5, <1>10, <1>11, <1>12 DEF LeaseInv

(* What a worker's ownership predicate implies. *)
LEMMA OwnsFacts ==
  ASSUME LeaseInv, NEW s \in Slots, Owns(s)
  PROVE  /\ slots[s].job \in JobIds
         /\ jobs[slots[s].job].status = "running"
         /\ GoodRow(jobs[slots[s].job])
         /\ slots[s].attempts = jobs[slots[s].job].attempts
<1> DEFINE j == slots[s].job
<1>1. j \in JobIds /\ slots[s] # Idle
   BY DEF LeaseInv, TypeOK, Owns, Slot, Idle
<1>2. slots[s].token = slots[s].attempts
   BY <1>1 DEF LeaseInv, SlotInv
<1>3. GoodRow(jobs[j])
   BY <1>1 DEF LeaseInv, TypeOK, GoodRow
<1>4. jobs[j].status = "running" /\ jobs[j].leaseToken = slots[s].token
   BY DEF Owns
<1> QED BY <1>1, <1>2, <1>3, <1>4 DEF GoodRow, RowInv

(* The step in which a job leaves "running" keeps the table good. *)
LEMMA SettleGood ==
  ASSUME LeaseInv, NEW j \in JobIds, jobs[j].status = "running", NEW row,
         GoodRow(row), row.attempts = jobs[j].attempts, row.leaseToken = 0,
         NEW kids \in SUBSET Fresh,
         kids # {} => ChildType(jobs[j].type) # "none",
         Settle(j, row, kids)
  PROVE  GoodTable(jobs') /\ KeepsLeases(jobs, jobs')
<1> DEFINE child == NewRow(ChildType(jobs[j].type), jobs[j].root, jobs[j].maxAttempts, {})
           F(c) == IF c = j THEN row ELSE IF c \in kids THEN child ELSE jobs[c]
           table == [c \in JobIds |-> F(c)]
           rs == IF row.status \in Terminal /\ ~ IsRoot(j) THEN {row.root} ELSE {}
<1>1. GoodRow(jobs[j])
   BY DEF LeaseInv, TypeOK, GoodRow
<1>2. ASSUME NEW c \in JobIds
      PROVE  GoodRow(F(c)) /\ KeepsLease(jobs[c], F(c))
   <2>1. CASE c = j
      BY <2>1 DEF KeepsLease
   <2>2. CASE c # j /\ c \in kids
      <3>1. jobs[c].attempts = 0
         BY <2>2 DEF Fresh, LeaseInv, RowInv
      <3>2. /\ ChildType(jobs[j].type) \in JobTypes
            /\ jobs[j].root \in JobIds
            /\ jobs[j].maxAttempts \in 1..MaxAttemptsCap
         BY <1>1, <2>2, ConstantsAssumption
            DEF ConstantsAssumption, GoodRow, Row, RowInv, ChildType, JobTypes
      <3>3. GoodRow(child) /\ child.attempts = 0 /\ child.leaseToken = 0
         BY <3>2, NewRowGood
      <3> QED BY <2>2, <3>1, <3>3 DEF KeepsLease
   <2>3. CASE c # j /\ c \notin kids
      BY <2>3 DEF LeaseInv, TypeOK, GoodRow, KeepsLease
   <2> QED BY <2>1, <2>2, <2>3
<1> HIDE DEF F
<1>3. GoodTable(table) /\ KeepsLeases(jobs, table)
   BY <1>2 DEF GoodTable, GoodRow, KeepsLeases
<1>4. PICK missed : jobs' = FinalizeRoots(table, rs, missed)
   BY DEF Settle, F
<1> HIDE DEF table, rs
<1> QED BY <1>3, <1>4, FinalizeRootsGood, KeepsTransitive

(* A step that changes one column RowInv does not speak of, or clears or   *)
(* sets leaseExpired of a running job, keeps the row good.                 *)
LEMMA ColumnsGood ==
  ASSUME NEW row, GoodRow(row), NEW b \in BOOLEAN, NEW e \in SUBSET EventTypes,
         NEW k \in JobIds
  PROVE  /\ GoodRow([row EXCEPT !.cancelRequested = TRUE, !.events = e])
         /\ KeepsLease(row, [row EXCEPT !.cancelRequested = TRUE, !.events = e])
         /\ GoodRow([row EXCEPT !.cancelRequested = TRUE])
         /\ KeepsLease(row, [row EXCEPT !.cancelRequested = TRUE])
         /\ GoodRow([row EXCEPT !.due = TRUE])
         /\ KeepsLease(row, [row EXCEPT !.due = TRUE])
         /\ GoodRow([row EXCEPT !.replayedAs = k])
         /\ KeepsLease(row, [row EXCEPT !.replayedAs = k])
         /\ GoodRow([row EXCEPT !.replayedFrom = k])
         /\ KeepsLease(row, [row EXCEPT !.replayedFrom = k])
         /\ row.status = "running" =>
              /\ GoodRow([row EXCEPT !.leaseExpired = b])
              /\ KeepsLease(row, [row EXCEPT !.leaseExpired = b])
<1> HIDE DEF Status, ErrorKinds
<1>1. row \in Row /\ RowInv(row)
   BY DEF GoodRow
<1>2. /\ GoodRow([row EXCEPT !.cancelRequested = TRUE, !.events = e])
      /\ KeepsLease(row, [row EXCEPT !.cancelRequested = TRUE, !.events = e])
   <2> DEFINE new == [row EXCEPT !.cancelRequested = TRUE, !.events = e]
   <2>1. new \in Row
      BY <1>1 DEF Row
   <2>2. RowInv(new)
      BY <1>1, SameInv DEF Row
   <2> QED BY <1>1, <2>1, <2>2 DEF GoodRow, KeepsLease, Row
<1>3. /\ GoodRow([row EXCEPT !.cancelRequested = TRUE])
      /\ KeepsLease(row, [row EXCEPT !.cancelRequested = TRUE])
   <2> DEFINE new == [row EXCEPT !.cancelRequested = TRUE]
   <2>1. new \in Row
      BY <1>1 DEF Row
   <2>2. RowInv(new)
      BY <1>1, SameInv DEF Row
   <2> QED BY <1>1, <2>1, <2>2 DEF GoodRow, KeepsLease, Row
<1>4. /\ GoodRow([row EXCEPT !.due = TRUE])
      /\ KeepsLease(row, [row EXCEPT !.due = TRUE])
   <2> DEFINE new == [row EXCEPT !.due = TRUE]
   <2>1. new \in Row
      BY <1>1 DEF Row
   <2>2. RowInv(new)
      BY <1>1, SameInv DEF Row
   <2> QED BY <1>1, <2>1, <2>2 DEF GoodRow, KeepsLease, Row
<1>5. /\ GoodRow([row EXCEPT !.replayedAs = k])
      /\ KeepsLease(row, [row EXCEPT !.replayedAs = k])
   <2> DEFINE new == [row EXCEPT !.replayedAs = k]
   <2>1. new \in Row
      BY <1>1 DEF Row
   <2>2. RowInv(new)
      BY <1>1, SameInv DEF Row
   <2> QED BY <1>1, <2>1, <2>2 DEF GoodRow, KeepsLease, Row
<1>6. /\ GoodRow([row EXCEPT !.replayedFrom = k])
      /\ KeepsLease(row, [row EXCEPT !.replayedFrom = k])
   <2> DEFINE new == [row EXCEPT !.replayedFrom = k]
   <2>1. new \in Row
      BY <1>1 DEF Row
   <2>2. RowInv(new)
      BY <1>1, SameInv DEF Row
   <2> QED BY <1>1, <2>1, <2>2 DEF GoodRow, KeepsLease, Row
<1>7. ASSUME row.status = "running"
      PROVE  /\ GoodRow([row EXCEPT !.leaseExpired = b])
             /\ KeepsLease(row, [row EXCEPT !.leaseExpired = b])
   <2> DEFINE new == [row EXCEPT !.leaseExpired = b]
   <2>1. new \in Row
      BY <1>1 DEF Row
   <2>2. /\ new.status = row.status /\ new.root = row.root
         /\ new.attempts = row.attempts /\ new.maxAttempts = row.maxAttempts
         /\ new.lockedBy = row.lockedBy /\ new.leaseToken = row.leaseToken
         /\ new.runs = row.runs /\ new.dlq = row.dlq
      BY <1>1 DEF Row
   <2> HIDE DEF new
   <2>3. RowInv(new)
      BY <1>1, <1>7, <2>2 DEF RowInv
   <2> QED BY <2>1, <2>2, <2>3 DEF GoodRow, KeepsLease, new
<1> QED BY <1>2, <1>3, <1>4, <1>5, <1>6, <1>7

(* The initial state satisfies the invariant. *)
LEMMA LeaseInvInit == Init => LeaseInv
<1> SUFFICES ASSUME Init PROVE LeaseInv
   OBVIOUS
<1>1. GoodTable(jobs)
   BY NoRowGood DEF Init, GoodTable, GoodRow
<1>2. Idle \in Slot
   BY ConstantsAssumption DEF ConstantsAssumption, Idle, Slot, Phases
<1>3. slots \in [Slots -> Slot] /\ \A s \in Slots : slots[s] = Idle
   BY <1>2 DEF Init
<1>4. TypeOK
   BY <1>1, <1>3, ConstantsAssumption DEF ConstantsAssumption, TypeOK, Init, GoodTable
<1> QED BY <1>1, <1>3, <1>4 DEF LeaseInv, SlotInv, GoodTable, Idle

(* Every step preserves the invariant. *)
LEMMA LeaseInvStep == LeaseInv /\ [Next]_vars => LeaseInv'
<1> SUFFICES ASSUME LeaseInv, [Next]_vars PROVE LeaseInv'
   OBVIOUS
<1>t. /\ GoodTable(jobs)
      /\ KeepsLeases(jobs, jobs)
      /\ \A j \in JobIds : GoodRow(jobs[j])
      /\ slots \in [Slots -> Slot]
      /\ up \in [Workers -> BOOLEAN]
      /\ stops \in 0..MaxStops
      /\ Idle \in Slot
   BY ConstantsAssumption
      DEF ConstantsAssumption, LeaseInv, TypeOK, GoodTable, GoodRow, KeepsLeases, KeepsLease,
          Idle, Slot, Phases
<1>same. ASSUME GoodTable(jobs'), KeepsLeases(jobs, jobs'), UNCHANGED <<slots, up, stops>>
         PROVE  LeaseInv'
   BY <1>t, <1>same, NoNewLease
<1>one. ASSUME NEW j \in JobIds, NEW row, GoodRow(row), KeepsLease(jobs[j], row),
               jobs' = [jobs EXCEPT ![j] = row], UNCHANGED <<slots, up, stops>>
        PROVE  LeaseInv'
   BY <1>t, <1>one, <1>same, OneRow
<1>ret. ASSUME NEW s \in Slots, GoodTable(jobs'), KeepsLeases(jobs, jobs'), Returns(s)
        PROVE  LeaseInv'
   <2>1. /\ slots' \in [Slots -> Slot]
         /\ \A t \in Slots : slots'[t] = slots[t] \/ slots'[t] = Idle
      BY <1>t, <1>ret DEF Returns
   <2> QED BY <1>t, <1>ret, <2>1, NoNewLease DEF Returns
<1>new. ASSUME NEW j \in Fresh, NEW row, GoodRow(row), row.attempts = 0, row.leaseToken = 0
        PROVE  KeepsLease(jobs[j], row)
   BY <1>new DEF Fresh, LeaseInv, RowInv, KeepsLease
<1>1. ASSUME NEW j \in JobIds, NEW type \in JobTypes, NEW max \in 1..MaxAttemptsCap,
             Submit(j, type, max)
      PROVE  LeaseInv'
   <2>1. {"submitted"} \in SUBSET EventTypes
      BY DEF EventTypes
   <2> DEFINE row == NewRow(type, j, max, {"submitted"})
   <2>2. GoodRow(row) /\ row.attempts = 0 /\ row.leaseToken = 0
      BY <2>1, NewRowGood
   <2> HIDE DEF row
   <2> QED BY <1>1, <1>new, <1>one, <2>2 DEF Submit, row
<1>2. ASSUME NEW src \in JobIds, NEW j \in JobIds, NEW max \in 1..MaxAttemptsCap,
             Retry(src, j, max)
      PROVE  LeaseInv'
   <2>1. jobs[src].type \in JobTypes
      BY <1>t DEF GoodRow, Row
   <2> QED BY <1>1, <1>2, <2>1 DEF Retry
<1>3. ASSUME NEW src \in JobIds, NEW j \in JobIds, NEW max \in AttemptLimits,
             ReplayDLQ(src, j, max)
      PROVE  LeaseInv'
   <2> DEFINE new == NewRow(jobs[src].type, j, max, {"submitted", "replayed"})
              row == [new EXCEPT !.replayedFrom = src]
              old == [jobs[src] EXCEPT !.replayedAs = j]
              mid == [jobs EXCEPT ![j] = row]
   <2>1. /\ jobs[src].type \in JobTypes
         /\ max \in 1..MaxAttemptsCap
         /\ {"submitted", "replayed"} \in SUBSET EventTypes
      BY <1>t, ConstantsAssumption DEF ConstantsAssumption, GoodRow, Row, EventTypes
   <2>2. GoodRow(new) /\ new.attempts = 0 /\ new.leaseToken = 0
      BY <2>1, NewRowGood
   <2> HIDE DEF new
   <2>3. GoodRow(row) /\ row.attempts = 0 /\ row.leaseToken = 0
      BY <2>2, ColumnsGood DEF KeepsLease
   <2>4. GoodRow(old) /\ KeepsLease(jobs[src], old)
      BY <1>t, ColumnsGood
   <2>5. src # j
      BY <1>3 DEF ReplayDLQ, Fresh, LeaseInv, RowInv
   <2>6. jobs' = [mid EXCEPT ![src] = old] /\ UNCHANGED <<slots, up, stops>>
      BY <1>3 DEF ReplayDLQ, new
   <2>7. j \in Fresh
      BY <1>3 DEF ReplayDLQ
   <2> HIDE DEF row, old
   <2>8. KeepsLease(jobs[j], row)
      BY <1>new, <2>3, <2>7
   <2>9. GoodTable(mid) /\ KeepsLeases(jobs, mid) /\ mid[src] = jobs[src]
      BY <1>t, <2>3, <2>5, <2>8, OneRow DEF GoodTable
   <2> HIDE DEF mid
   <2> QED BY <1>same, <2>4, <2>6, <2>9, OneRow, KeepsTransitive
<1>4. ASSUME NEW j \in JobIds, CancelQueued(j)
      PROVE  LeaseInv'
   <2> DEFINE events == CancelRow(jobs[j]).events \cup {"cancellation_requested", "cancelled"}
              row == [CancelRow(jobs[j]) EXCEPT !.events = events]
   <2>1. jobs[j].status \in Queued \cup {"waiting"}
      BY <1>4 DEF CancelQueued
   <2>2. events \in SUBSET EventTypes
      BY <1>t DEF CancelRow, GoodRow, Row, EventTypes
   <2>3. jobs' = [jobs EXCEPT ![j] = row] /\ UNCHANGED <<slots, up, stops>>
      BY <1>4 DEF CancelQueued
   <2> HIDE DEF events
   <2>4. GoodRow(row) /\ KeepsLease(jobs[j], row)
      BY <1>t, <2>1, <2>2, CancelRowGood DEF KeepsLease
   <2> HIDE DEF row
   <2> QED BY <1>one, <2>3, <2>4
<1>5. ASSUME NEW j \in JobIds, CancelRunning(j)
      PROVE  LeaseInv'
   <2> DEFINE events == jobs[j].events \cup {"cancellation_requested"}
              row == [jobs[j] EXCEPT !.cancelRequested = TRUE, !.events = events]
   <2>1. events \in SUBSET EventTypes
      BY <1>t DEF GoodRow, Row, EventTypes
   <2>2. jobs' = [jobs EXCEPT ![j] = row] /\ UNCHANGED <<slots, up, stops>>
      BY <1>5, <1>t DEF CancelRunning, GoodTable, Row
   <2> HIDE DEF events
   <2>3. GoodRow(row) /\ KeepsLease(jobs[j], row)
      BY <1>t, <2>1, ColumnsGood
   <2> HIDE DEF row
   <2> QED BY <1>one, <2>2, <2>3
<1>6. ASSUME NEW j \in JobIds, NEW escaped, CancelWaiting(j, escaped)
      PROVE  LeaseInv'
   <2> DEFINE events == jobs[j].events \cup {"cancellation_requested", "cancelled"}
              F(c) == IF c = j
                      THEN [CancelRow(jobs[j]) EXCEPT !.events = events]
                      ELSE IF jobs[c].root # jobs[j].root \/ c \in escaped
                           THEN jobs[c]
                      ELSE IF jobs[c].status \in Queued \cup {"waiting"}
                           THEN CancelRow(jobs[c])
                      ELSE IF jobs[c].status = "running"
                           THEN [jobs[c] EXCEPT !.cancelRequested = TRUE]
                      ELSE jobs[c]
   <2>1. jobs' = [c \in JobIds |-> F(c)] /\ UNCHANGED <<slots, up, stops>>
      BY <1>6 DEF CancelWaiting
   <2>2. events \in SUBSET EventTypes
      BY <1>t DEF GoodRow, Row, EventTypes
   <2> HIDE DEF events
   <2>3. ASSUME NEW c \in JobIds
         PROVE  GoodRow(F(c)) /\ KeepsLease(jobs[c], F(c))
      <3>1. CASE F(c) = jobs[c]
         BY <1>t, <3>1 DEF KeepsLeases
      <3>2. CASE c = j
         BY <1>6, <1>t, <2>2, <3>2, CancelRowGood DEF CancelWaiting, KeepsLease
      <3>3. CASE c # j /\ F(c) = CancelRow(jobs[c]) /\ jobs[c].status \in Queued \cup {"waiting"}
         <4>1. GoodRow(jobs[c]) /\ jobs[c].status \in Queued \cup {"waiting"}
            BY <1>t, <3>3
         <4>2. /\ GoodRow(CancelRow(jobs[c]))
               /\ CancelRow(jobs[c]).leaseToken = 0
               /\ CancelRow(jobs[c]).attempts = jobs[c].attempts
            BY <2>2, <4>1, CancelRowGood
         <4> HIDE DEF F
         <4>3. KeepsLease(jobs[c], CancelRow(jobs[c]))
            BY <4>2, <1>t DEF KeepsLease, GoodRow, Row
         <4> QED BY <3>3, <4>2, <4>3
      <3>4. CASE F(c) = [jobs[c] EXCEPT !.cancelRequested = TRUE]
         <4> HIDE DEF F
         <4> QED BY <1>t, <2>2, <3>4, ColumnsGood
      <3> QED BY <3>1, <3>2, <3>3, <3>4
   <2> HIDE DEF F
   <2>4. GoodTable(jobs') /\ KeepsLeases(jobs, jobs')
      BY <2>1, <2>3 DEF GoodTable, GoodRow, KeepsLeases
   <2> QED BY <1>same, <2>1, <2>4
<1>7. ASSUME NEW s \in Slots, NEW j \in JobIds, Claim(s, j) \/ ClaimLost(s, j)
      PROVE  LeaseInv'
   BY <1>7, NewLease DEF Claim, ClaimLost, Claimable
<1>8. ASSUME NEW s \in Slots, Heartbeat(s)
      PROVE  LeaseInv'
   <2> DEFINE j == slots[s].job
              row == [jobs[j] EXCEPT !.leaseExpired = FALSE]
   <2>1. j \in JobIds /\ jobs[j].status = "running"
      BY <1>8, OwnsFacts DEF Heartbeat
   <2>2. jobs' = [jobs EXCEPT ![j] = row] /\ UNCHANGED <<slots, up, stops>>
      BY <1>8 DEF Heartbeat
   <2>3. GoodRow(row) /\ KeepsLease(jobs[j], row)
      BY <1>t, <2>1, ColumnsGood
   <2> HIDE DEF row, j
   <2> QED BY <1>one, <2>1, <2>2, <2>3
<1>9. ASSUME NEW s \in Slots, HeartbeatNotOwned(s) \/ HeartbeatError(s)
      PROVE  LeaseInv'
   <2>1. slots[s].phase = "handling" /\ GivesUp(s)
      BY <1>9 DEF HeartbeatNotOwned, HeartbeatError
   <2>2. slots' = [slots EXCEPT ![s] = [slots[s] EXCEPT !.phase = "giving_up"]]
      BY <2>1 DEF GivesUp
   <2>3. slots[s] # Idle
      BY <2>1 DEF Idle
   <2>4. [slots[s] EXCEPT !.phase = "giving_up"] \in Slot
      BY <1>t DEF Slot, Phases
   <2>5. /\ slots' \in [Slots -> Slot]
         /\ \A t \in Slots : \/ slots'[t] = slots[t]
                             \/ slots[t] # Idle /\ slots'[t] = [slots[t] EXCEPT !.phase = "giving_up"]
      BY <1>t, <2>2, <2>3, <2>4
   <2> QED BY <1>t, <2>1, <2>5, NoNewLease DEF GivesUp
<1>10. ASSUME NEW s \in Slots, NEW kids \in SUBSET Fresh, NEW withResult \in BOOLEAN,
              Complete(s, kids, withResult)
       PROVE  LeaseInv'
   <2> DEFINE j == slots[s].job
              st == IF kids # {} /\ IsRoot(j) THEN "waiting" ELSE "completed"
              row == Completed(jobs[j], st, slots[s].attempts, withResult)
   <2>1. /\ Owns(s)
         /\ kids # {} => ChildType(jobs[j].type) # "none"
         /\ Settle(j, row, kids)
         /\ Returns(s)
      BY <1>10 DEF Complete
   <2>2. /\ j \in JobIds
         /\ jobs[j].status = "running"
         /\ GoodRow(jobs[j])
         /\ slots[s].attempts = jobs[j].attempts
      BY <2>1, OwnsFacts
   <2>3. st \in {"completed", "waiting"}
      OBVIOUS
   <2> HIDE DEF st
   <2>4. GoodRow(row) /\ row.leaseToken = 0 /\ row.attempts = jobs[j].attempts
      BY <2>2, <2>3, CompletedGood
   <2> HIDE DEF row
   <2> QED BY <1>ret, <2>1, <2>2, <2>4, SettleGood
<1>11. ASSUME NEW s \in Slots, NEW kind \in ErrorKinds, FailJob(s, kind)
       PROVE  LeaseInv'
   <2> DEFINE j == slots[s].job
              row == Failed(jobs[j], kind, slots[s].attempts)
   <2>1. Owns(s) /\ Settle(j, row, {}) /\ Returns(s)
      BY <1>11 DEF FailJob
   <2>2. /\ j \in JobIds
         /\ jobs[j].status = "running"
         /\ GoodRow(jobs[j])
         /\ slots[s].attempts = jobs[j].attempts
      BY <2>1, OwnsFacts
   <2>3. GoodRow(row) /\ row.leaseToken = 0 /\ row.attempts = jobs[j].attempts
      BY <2>2, FailedGood
   <2>4. {} \in SUBSET Fresh
      OBVIOUS
   <2> HIDE DEF row
   <2> QED BY <1>ret, <2>1, <2>2, <2>3, <2>4, SettleGood
<1>12. ASSUME NEW s \in Slots, LeaseLost(s) \/ StoreError(s)
       PROVE  LeaseInv'
   BY <1>12, <1>t, <1>ret DEF LeaseLost, StoreError
<1>13. ASSUME NEW batch \in SUBSET Expired, ReclaimExpired(batch)
       PROVE  LeaseInv'
   <2> DEFINE F(j) == IF j \in batch THEN Reclaimed(jobs[j]) ELSE jobs[j]
              table == [j \in JobIds |-> F(j)]
              rs == {table[j].root : j \in {c \in batch : table[c].status \in Terminal /\ ~ IsRoot(c)}}
   <2>1. ASSUME NEW j \in JobIds
         PROVE  GoodRow(F(j)) /\ KeepsLease(jobs[j], F(j))
      <3>1. CASE j \in batch
         <4>1. jobs[j].status = "running"
            BY <3>1 DEF Expired
         <4> QED BY <1>t, <3>1, <4>1, ReclaimedGood DEF KeepsLease
      <3>2. CASE j \notin batch
         BY <1>t, <3>2 DEF KeepsLeases
      <3> QED BY <3>1, <3>2
   <2>2. /\ \E missed : jobs' = FinalizeRoots(table, rs, missed)
         /\ UNCHANGED <<slots, up, stops>>
      BY <1>13 DEF ReclaimExpired
   <2> HIDE DEF F
   <2>3. GoodTable(table) /\ KeepsLeases(jobs, table)
      BY <2>1 DEF GoodTable, GoodRow, KeepsLeases
   <2> HIDE DEF table, rs
   <2> QED BY <1>same, <2>2, <2>3, FinalizeRootsGood, KeepsTransitive
<1>14. ASSUME NEW j \in JobIds, LeaseRunsOut(j)
       PROVE  LeaseInv'
   <2> DEFINE row == [jobs[j] EXCEPT !.leaseExpired = TRUE]
   <2>1. GoodRow(row) /\ KeepsLease(jobs[j], row)
      BY <1>14, <1>t, ColumnsGood DEF LeaseRunsOut
   <2>2. jobs' = [jobs EXCEPT ![j] = row] /\ UNCHANGED <<slots, up, stops>>
      BY <1>14 DEF LeaseRunsOut
   <2> HIDE DEF row
   <2> QED BY <1>one, <2>1, <2>2
<1>15. ASSUME NEW j \in JobIds, BecomesDue(j)
       PROVE  LeaseInv'
   <2> DEFINE row == [jobs[j] EXCEPT !.due = TRUE]
   <2>1. GoodRow(row) /\ KeepsLease(jobs[j], row)
      BY <1>t, ColumnsGood
   <2>2. jobs' = [jobs EXCEPT ![j] = row] /\ UNCHANGED <<slots, up, stops>>
      BY <1>15 DEF BecomesDue
   <2> HIDE DEF row
   <2> QED BY <1>one, <2>1, <2>2
<1>16. ASSUME NEW w \in Workers, Shutdown(w) \/ Crash(w) \/ Restart(w)
       PROVE  LeaseInv'
   <2>1. /\ slots' \in [Slots -> Slot]
         /\ \A t \in Slots : slots'[t] = slots[t] \/ slots'[t] = Idle
      BY <1>16, <1>t DEF Shutdown, Crash, Restart
   <2>2. /\ jobs' = jobs
         /\ \/ up' = [up EXCEPT ![w] = FALSE] /\ stops < MaxStops /\ stops' = stops + 1
            \/ up' = [up EXCEPT ![w] = TRUE] /\ stops' = stops
      BY <1>16 DEF Shutdown, Crash, Restart
   <2>3. up' \in [Workers -> BOOLEAN]
      BY <1>t, <2>2
   <2>4. stops' \in 0..MaxStops
      BY <1>t, <2>2, ConstantsAssumption DEF ConstantsAssumption
   <2> QED BY <1>t, <2>1, <2>2, <2>3, <2>4, NoNewLease
<1>17. ASSUME UNCHANGED vars
       PROVE  LeaseInv'
   BY <1>17, <1>t, <1>same DEF vars
<1>18. ASSUME NEW s \in Slots, SlotNext(s)
       PROVE  LeaseInv'
   BY <1>18, <1>7, <1>8, <1>9, <1>10, <1>11, <1>12
      DEF SlotNext, Finish, HandlerFails, ReportCancelled, ShutdownTimeout
<1>19. ASSUME ClientNext
       PROVE  LeaseInv'
   <2>1. Submitted \subseteq JobTypes /\ AttemptLimits \subseteq 1..MaxAttemptsCap
      BY ConstantsAssumption DEF ConstantsAssumption, JobTypes
   <2>2. ASSUME NEW j \in JobIds, NEW type \in Submitted, NEW max \in AttemptLimits, Submit(j, type, max)
         PROVE  LeaseInv'
      BY <1>1, <2>1, <2>2
   <2>3. ASSUME NEW src \in JobIds, NEW j \in JobIds, NEW max \in AttemptLimits, ReplayDLQ(src, j, max)
         PROVE  LeaseInv'
      BY <1>3, <2>1, <2>3
   <2> QED BY <1>2, <1>4, <1>5, <1>6, <1>19, <2>2, <2>3 DEF ClientNext
<1>20. QED
   BY <1>13, <1>14, <1>15, <1>16, <1>17, <1>18, <1>19
      DEF Next, Recovers, ClockNext, ProcessNext, Quiescent

(* The invariant of rows and claim loops holds in every reachable state.   *)
THEOREM LeaseInvHolds == Spec => []LeaseInv
BY LeaseInvInit, LeaseInvStep, PTL DEF Spec

(* Type correctness: no attempt is ever numbered beyond the cap.           *)
THEOREM TypeCorrect == Spec => []TypeOK
<1>1. LeaseInv => TypeOK
   BY DEF LeaseInv
<1> QED BY <1>1, LeaseInvHolds, PTL

(* No job is claimed more often than its max_attempts, although Claim does *)
(* not compare the two: Fail and ReclaimExpired queue a job again only     *)
(* while it has an attempt left.                                           *)
THEOREM RetryBudgetHolds == Spec => []RetryBudget
<1>1. LeaseInv => RetryBudget
   BY DEF LeaseInv, RowInv, RetryBudget
<1> QED BY <1>1, LeaseInvHolds, PTL

(* The lease columns are set exactly while the job is running.             *)
THEOREM LeaseOnlyWhileRunningHolds == Spec => []LeaseOnlyWhileRunning
<1>1. LeaseInv => LeaseOnlyWhileRunning
   BY DEF LeaseInv, RowInv, LeaseOnlyWhileRunning
<1> QED BY <1>1, LeaseInvHolds, PTL

(* job_attempts has one row per claim, and only that of the lease is open. *)
THEOREM AttemptHistoryHolds == Spec => []AttemptHistory
<1>1. LeaseInv => AttemptHistory
   BY DEF LeaseInv, RowInv, AttemptHistory
<1> QED BY <1>1, LeaseInvHolds, PTL

(* Exactly the dead-lettered jobs have a DLQ entry, and each has one,      *)
(* whether Fail, ReclaimExpired or finalizeRoot gave up on it.             *)
THEOREM DeadLetterEntriesHold == Spec => []DeadLetterEntries
<1>1. LeaseInv => DeadLetterEntries
   BY DEF LeaseInv, RowInv, DeadLetterEntries
<1> QED BY <1>1, LeaseInvHolds, PTL

(* At most one claim loop can write to the row of a job, for any number of *)
(* jobs, processes, claim loops, crashes and expired leases.               *)
THEOREM SingleOwnerHolds == Spec => []SingleOwner
<1>1. LeaseInv => SingleOwner
   BY DEF LeaseInv, SingleOwner, Owns
<1> QED BY <1>1, LeaseInvHolds, PTL

(* A step that frees or changes a claim loop whose claim is no longer the  *)
(* current one of a running job does not write to the database.            *)
LEMMA FencingStep ==
  ASSUME LeaseInv, Next, NEW s \in Slots, slots[s] # Idle, slots'[s] # slots[s],
         \/ jobs[slots[s].job].status # "running"
         \/ jobs[slots[s].job].attempts # slots[s].attempts
  PROVE  jobs' = jobs
<1>1. ~ Owns(s)
   BY DEF LeaseInv, RowInv, SlotInv, Owns
<1>2. slots \in [Slots -> Slot]
   BY DEF LeaseInv, TypeOK
<1>3. ASSUME NEW t \in Slots, NEW j \in JobIds, Claim(t, j) \/ ClaimLost(t, j)
      PROVE  FALSE
   BY <1>2, <1>3 DEF Claim, ClaimLost
<1>4. ASSUME NEW t \in Slots, Returns(t) \/ GivesUp(t)
      PROVE  t = s
   BY <1>2, <1>4 DEF Returns, GivesUp
<1>5. ASSUME ClientNext \/ Recovers \/ ClockNext \/ Quiescent
      PROVE  FALSE
   <2>1. slots' = slots
      BY <1>5 DEF ClientNext, Submit, Retry, ReplayDLQ, CancelQueued, CancelRunning, CancelWaiting,
                  Recovers, ReclaimExpired, ClockNext, LeaseRunsOut, BecomesDue, Quiescent, vars
   <2> QED BY <2>1
<1>6. ASSUME ProcessNext
      PROVE  jobs' = jobs
   BY <1>6 DEF ProcessNext, Shutdown, Crash, Restart
<1>7. ASSUME NEW t \in Slots, SlotNext(t)
      PROVE  jobs' = jobs
   <2>1. CASE Heartbeat(t)
      BY <2>1 DEF Heartbeat
   <2>2. CASE HeartbeatNotOwned(t) \/ HeartbeatError(t)
      BY <2>2 DEF HeartbeatNotOwned, HeartbeatError, GivesUp
   <2>3. CASE LeaseLost(t) \/ StoreError(t)
      BY <2>3 DEF LeaseLost, StoreError
   <2>4. ASSUME NEW kids, NEW withResult, Complete(t, kids, withResult)
         PROVE  FALSE
      BY <1>1, <1>4, <2>4 DEF Complete
   <2>5. ASSUME NEW kind, FailJob(t, kind)
         PROVE  FALSE
      BY <1>1, <1>4, <2>5 DEF FailJob
   <2> QED BY <1>3, <1>7, <2>1, <2>2, <2>3, <2>4, <2>5
           DEF SlotNext, Finish, HandlerFails, ReportCancelled, ShutdownTimeout
<1> QED BY <1>5, <1>6, <1>7 DEF Next

(* Fencing: a claim loop whose job has been taken away, claimed again or   *)
(* closed leaves the database as it is, whatever it reports.               *)
THEOREM Fencing == Spec => StaleSlotsAreFenced
<1> DEFINE Fenced ==
       \A s \in Slots :
         /\ slots[s] # Idle
         /\ slots'[s] # slots[s]
         /\ \/ jobs[slots[s].job].status # "running"
            \/ jobs[slots[s].job].attempts # slots[s].attempts
         => jobs' = jobs
<1>1. LeaseInv /\ [Next]_vars => [Fenced]_vars
   BY FencingStep DEF vars
<1> QED BY <1>1, LeaseInvHolds, PTL DEF Spec, StaleSlotsAreFenced

(* finalizeRoot only writes to a root that is waiting. *)
LEMMA FinalizeKeepsTerminal ==
  ASSUME NEW table, NEW rs, NEW missed, NEW j \in JobIds, table[j].status \in Terminal
  PROVE  FinalizeRoots(table, rs, missed)[j] = table[j]
BY DEF FinalizeRoots

(* Leaving "running", with new children and the finalization of the root,  *)
(* does not touch a job that has ended.                                    *)
LEMMA SettleKeepsTerminal ==
  ASSUME NEW i \in JobIds, jobs[i].status = "running", NEW row, NEW kids \in SUBSET Fresh,
         Settle(i, row, kids), NEW j \in JobIds, jobs[j].status \in Terminal
  PROVE  jobs'[j] = jobs[j]
<1> DEFINE child == NewRow(ChildType(jobs[i].type), jobs[i].root, jobs[i].maxAttempts, {})
           table == [c \in JobIds |-> IF c = i THEN row ELSE IF c \in kids THEN child ELSE jobs[c]]
           rs == IF row.status \in Terminal /\ ~ IsRoot(i) THEN {row.root} ELSE {}
<1>1. table[j] = jobs[j]
   BY DEF Fresh
<1>2. PICK missed : jobs' = FinalizeRoots(table, rs, missed)
   BY DEF Settle
<1> HIDE DEF table, rs
<1> QED BY <1>1, <1>2, FinalizeKeepsTerminal

(* No step changes a terminal job, except for the link to its replay. *)
LEMMA TerminalStep ==
  ASSUME LeaseInv, [Next]_vars, NEW j \in JobIds, jobs[j].status \in Terminal
  PROVE  jobs'[j] = jobs[j] \/ jobs'[j] = [jobs[j] EXCEPT !.replayedAs = jobs'[j].replayedAs]
<1>1. jobs \in [JobIds -> Row] /\ slots \in [Slots -> Slot]
   BY DEF LeaseInv, TypeOK
<1>2. CASE ClientNext
   <2>1. ASSUME NEW i \in JobIds, NEW type, NEW max, Submit(i, type, max)
         PROVE  jobs'[j] = jobs[j]
      BY <1>1, <2>1 DEF Submit, Fresh
   <2>2. ASSUME NEW src \in JobIds, NEW i \in JobIds, NEW max, ReplayDLQ(src, i, max)
         PROVE  jobs'[j] = jobs[j] \/ jobs'[j] = [jobs[j] EXCEPT !.replayedAs = jobs'[j].replayedAs]
      <3>1. i # j
         BY <2>2 DEF ReplayDLQ, Fresh
      <3>2. jobs'[j] = IF j = src THEN [jobs[j] EXCEPT !.replayedAs = i] ELSE jobs[j]
         BY <1>1, <2>2, <3>1 DEF ReplayDLQ
      <3> QED BY <1>1, <3>2 DEF Row
   <2>3. ASSUME NEW i \in JobIds, CancelQueued(i) \/ CancelRunning(i)
         PROVE  jobs'[j] = jobs[j]
      BY <1>1, <2>3 DEF CancelQueued, CancelRunning
   <2>4. ASSUME NEW i \in JobIds, NEW escaped, CancelWaiting(i, escaped)
         PROVE  jobs'[j] = jobs[j]
      BY <1>1, <2>4 DEF CancelWaiting
   <2> QED BY <1>2, <2>1, <2>2, <2>3, <2>4 DEF ClientNext, Retry
<1>3. ASSUME NEW s \in Slots, SlotNext(s)
      PROVE  jobs'[j] = jobs[j]
   <2>1. ASSUME NEW i \in JobIds, Claim(s, i) \/ ClaimLost(s, i)
         PROVE  jobs'[j] = jobs[j]
      BY <1>1, <2>1 DEF Claim, ClaimLost, Claimable
   <2>2. Owns(s) => slots[s].job \in JobIds /\ jobs[slots[s].job].status = "running"
      BY <1>1 DEF Owns, Slot
   <2>3. CASE Heartbeat(s)
      BY <1>1, <2>2, <2>3 DEF Heartbeat
   <2>4. CASE HeartbeatNotOwned(s) \/ HeartbeatError(s) \/ LeaseLost(s) \/ StoreError(s)
      BY <2>4 DEF HeartbeatNotOwned, HeartbeatError, GivesUp, LeaseLost, StoreError
   <2>5. ASSUME NEW kids \in SUBSET Fresh, NEW withResult, Complete(s, kids, withResult)
         PROVE  jobs'[j] = jobs[j]
      BY <2>2, <2>5, SettleKeepsTerminal DEF Complete
   <2>6. ASSUME NEW kind, FailJob(s, kind)
         PROVE  jobs'[j] = jobs[j]
      <3>1. {} \in SUBSET Fresh
         OBVIOUS
      <3> QED BY <2>2, <2>6, <3>1, SettleKeepsTerminal DEF FailJob
   <2> QED BY <1>3, <2>1, <2>3, <2>4, <2>5, <2>6
           DEF SlotNext, Finish, HandlerFails, ReportCancelled, ShutdownTimeout
<1>4. ASSUME NEW batch \in SUBSET Expired, ReclaimExpired(batch)
      PROVE  jobs'[j] = jobs[j]
   <2> DEFINE table == [i \in JobIds |-> IF i \in batch THEN Reclaimed(jobs[i]) ELSE jobs[i]]
              rs == {table[i].root : i \in {c \in batch : table[c].status \in Terminal /\ ~ IsRoot(c)}}
   <2>1. table[j] = jobs[j]
      BY <1>4 DEF Expired
   <2>2. PICK missed : jobs' = FinalizeRoots(table, rs, missed)
      BY <1>4 DEF ReclaimExpired
   <2> HIDE DEF table, rs
   <2> QED BY <2>1, <2>2, FinalizeKeepsTerminal
<1>5. CASE ClockNext
   BY <1>1, <1>5 DEF ClockNext, LeaseRunsOut, BecomesDue
<1>6. CASE ProcessNext \/ Quiescent \/ UNCHANGED vars
   BY <1>6 DEF ProcessNext, Shutdown, Crash, Restart, Quiescent, vars
<1> QED BY <1>2, <1>3, <1>4, <1>5, <1>6 DEF Next, Recovers

(* "Terminal states never transition in place": once a job has ended no    *)
(* transaction touches its row, its attempts, its result or its DLQ entry, *)
(* except that a replay is linked to its entry.                            *)
THEOREM TerminalForeverHolds == Spec => TerminalForever
<1> DEFINE Kept ==
       \A j \in JobIds :
         jobs[j].status \in Terminal =>
             jobs'[j] = [jobs[j] EXCEPT !.replayedAs = jobs'[j].replayedAs]
<1>1. LeaseInv /\ [Next]_vars => [Kept]_vars
   <2> SUFFICES ASSUME LeaseInv, [Next]_vars, NEW j \in JobIds, jobs[j].status \in Terminal
                PROVE  jobs'[j] = [jobs[j] EXCEPT !.replayedAs = jobs'[j].replayedAs]
      OBVIOUS
   <2>1. CASE jobs'[j] = jobs[j]
      <3>1. jobs[j] \in Row
         BY DEF LeaseInv, TypeOK
      <3> QED BY <2>1, <3>1 DEF Row
   <2> QED BY <2>1, TerminalStep
<1> QED BY <1>1, LeaseInvHolds, PTL DEF Spec, TerminalForever

=============================================================================
