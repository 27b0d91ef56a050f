---------------------------- MODULE JobTreeProofs ----------------------------
(***************************************************************************)
(* Proofs about the trees of jobs of JobService: how a job ends, how a     *)
(* root waits for its descendants, and that the service implements the     *)
(* life cycle of JobLifecycle.                                             *)
(*                                                                         *)
(* The first part says what each change a transaction makes does to one    *)
(* row, the second what a whole step does to the trees (TreeStep), one     *)
(* lemma per kind of action.  The third derives the invariant, and with it *)
(* the theorems, from TreeStep alone.                                      *)
(***************************************************************************)
EXTENDS JobServiceProofs

USE DEF Terminal, Queued, Active, Status, ErrorKinds

(***************************************************************************)
(* Rows.                                                                   *)
(***************************************************************************)

(* One step of a row: it stays where it is or goes along one edge of the   *)
(* life cycle, stays explained, and keeps its type and its root.           *)
Edge(old, new) ==
    /\ EndInv(old) => EndInv(new)
    /\ \/ new.status = old.status /\ new.attempts = old.attempts
       \/ /\ new.status \in Life!Successors(old.status)
          /\ new.attempts = IF new.status = "running" THEN old.attempts + 1 ELSE old.attempts
    /\ old.status # "absent" => new.type = old.type /\ new.root = old.root
    /\ new.status = "absent" => new = old

SameReplay(old, new) ==
    new.replayedAs = old.replayedAs /\ new.replayedFrom = old.replayedFrom

Moves(old, new) == Edge(old, new) /\ SameReplay(old, new)

(* A cancelled row tells so itself, or by the end of its lease. *)
TellsCancel(row) ==
    row.status = "cancelled" => row.events \cap {"cancelled", "lease_expired"} # {}

(* Closing or opening an attempt that had not failed spoils the history    *)
(* exactly when it fails or is abandoned now.                              *)
LEMMA SpoiledUpdate ==
  ASSUME NEW runs \in RunList, NEW n \in 1..MaxAttemptsCap, NEW run \in RunStatus,
         runs[n] \notin {"retry_scheduled", "abandoned"}
  PROVE  Spoiled([runs EXCEPT ![n] = run]) <=>
             Spoiled(runs) \/ run \in {"retry_scheduled", "abandoned"}
BY DEF Spoiled, RunList

(* The attempt of a running job. *)
LEMMA RunningAttempt ==
  ASSUME NEW row, GoodRow(row), row.status = "running"
  PROVE  /\ row.runs \in RunList
         /\ row.attempts \in 1..MaxAttemptsCap
         /\ row.runs[row.attempts] = "running"
BY ConstantsAssumption DEF ConstantsAssumption, GoodRow, Row, RowInv, RunList

(* A row that no statement touches. *)
LEMMA SameMoves ==
  ASSUME NEW row
  PROVE  Moves(row, row)
BY DEF Moves, Edge, SameReplay

(* A row that keeps these columns, and events that tell of no end, moves.  *)
LEMMA ColumnsMove ==
  ASSUME NEW row, NEW new, row.status # "absent",
         new.status = row.status, new.attempts = row.attempts, new.type = row.type,
         new.root = row.root, new.completedAt = row.completedAt,
         new.lastError = row.lastError, new.result = row.result, new.runs = row.runs,
         row.events \subseteq new.events,
         new.events \cap (Terminal \cup {"waiting"}) = row.events \cap (Terminal \cup {"waiting"})
  PROVE  Edge(row, new)
<1>1. EndInv(row) => EndInv(new)
   BY DEF EndInv, Explained
<1> QED BY <1>1 DEF Edge

(* The columns of an unused identifier. *)
LEMMA NoRowColumns ==
  /\ NoRow.status = "absent"
  /\ NoRow.attempts = 0
  /\ NoRow.root = NoJob
  /\ NoRow.replayedAs = NoJob
  /\ NoRow.replayedFrom = NoJob
BY DEF NoRow, NewRow

(* Inserting a row. *)
LEMMA NewRowMoves ==
  ASSUME NEW type, NEW root, NEW max, NEW events, events \cap (Terminal \cup {"waiting"}) = {}
  PROVE  /\ Moves(NoRow, NewRow(type, root, max, events))
         /\ NewRow(type, root, max, events).status = "pending"
         /\ NewRow(type, root, max, events).root = root
<1> DEFINE new == NewRow(type, root, max, events)
<1>1. /\ new.status = "pending"
      /\ new.attempts = 0
      /\ new.root = root
      /\ new.completedAt = FALSE
      /\ new.events = events
      /\ new.lastError = "none"
      /\ new.result = FALSE
      /\ ~ Spoiled(new.runs)
      /\ new.replayedAs = NoJob
      /\ new.replayedFrom = NoJob
   BY DEF NewRow, Spoiled
<1> HIDE DEF new
<1>2. EndInv(new)
   BY <1>1 DEF EndInv, Explained
<1>3. new.status \in Life!Successors(NoRow.status)
   BY <1>1, NoRowColumns DEF Life!Successors
<1>4. Moves(NoRow, new)
   BY <1>1, <1>2, <1>3, NoRowColumns DEF Moves, Edge, SameReplay
<1> QED BY <1>1, <1>4 DEF new

(* Claim. *)
LEMMA ClaimedMoves ==
  ASSUME NEW row, GoodRow(row), row.status \in Queued, NEW w
  PROVE  Moves(row, Claimed(row, w)) /\ Claimed(row, w).status = "running"
<1> DEFINE new == Claimed(row, w)
<1>1. /\ new.status = "running"
      /\ new.attempts = row.attempts + 1
      /\ new.type = row.type
      /\ new.root = row.root
      /\ new.completedAt = row.completedAt
      /\ new.events = row.events \cup {"started"}
      /\ new.lastError = row.lastError
      /\ new.result = row.result
      /\ new.runs = [row.runs EXCEPT ![row.attempts + 1] = "running"]
      /\ SameReplay(row, new)
   BY DEF Claimed, GoodRow, Row, SameReplay
<1> HIDE DEF new
<1>r. Spoiled(new.runs) <=> Spoiled(row.runs)
   <2>1. /\ row.runs \in RunList
         /\ row.attempts + 1 \in 1..MaxAttemptsCap
         /\ row.runs[row.attempts + 1] = "none"
      BY ConstantsAssumption DEF ConstantsAssumption, GoodRow, Row, RowInv, RunList
   <2>2. "running" \in RunStatus
      BY DEF RunStatus
   <2> QED BY <1>1, <2>1, <2>2, SpoiledUpdate
<1>2. EndInv(row) => EndInv(new)
   BY <1>1, <1>r DEF EndInv, Explained
<1>3. new.status \in Life!Successors(row.status)
   BY <1>1 DEF Life!Successors
<1> QED BY <1>1, <1>2, <1>3 DEF Moves, Edge, new

(* What Left does to the columns of the life cycle. *)
LEMMA LeftColumns ==
  ASSUME NEW row \in Row, NEW st, NEW n, NEW run, NEW event
  PROVE  LET new == Left(row, st, n, run, event) IN
           /\ new.status = st
           /\ new.attempts = row.attempts
           /\ new.type = row.type
           /\ new.root = row.root
           /\ new.completedAt = (st \in Terminal)
           /\ new.events = row.events \cup {event}
           /\ new.lastError = row.lastError
           /\ new.result = row.result
           /\ SameReplay(row, new)
           /\ DOMAIN new = DOMAIN row
BY DEF Left, Row, SameReplay

(* Leaving "running" spoils the attempts exactly when the last one failed  *)
(* or was abandoned.                                                       *)
LEMMA LeftSpoiled ==
  ASSUME NEW row, GoodRow(row), row.status = "running", NEW st, NEW event,
         NEW n, n = row.attempts, NEW run \in RunStatus
  PROVE  Spoiled(Left(row, st, n, run, event).runs) <=>
             Spoiled(row.runs) \/ run \in {"retry_scheduled", "abandoned"}
<1> DEFINE runs == row.runs
           after == [runs EXCEPT ![n] = run]
<1>1. Left(row, st, n, run, event).runs = after
   BY DEF Left, GoodRow, Row
<1>2. /\ runs \in RunList
      /\ n \in 1..MaxAttemptsCap
      /\ runs[n] = "running"
   BY RunningAttempt
<1> HIDE DEF runs
<1>3. Spoiled(after) <=> Spoiled(runs) \/ run \in {"retry_scheduled", "abandoned"}
   BY <1>2, SpoiledUpdate
<1> QED BY <1>1, <1>3 DEF runs

(* Complete: the job has ended or starts to wait. *)
LEMMA CompletedMoves ==
  ASSUME NEW row, GoodRow(row), row.status = "running",
         NEW st \in {"completed", "waiting"}, NEW n, n = row.attempts,
         NEW withResult \in BOOLEAN, row.type # "demo" => withResult
  PROVE  /\ Moves(row, Completed(row, st, n, withResult))
         /\ Completed(row, st, n, withResult).status = st
<1>g. row \in Row
   BY DEF GoodRow
<1> DEFINE left == Left(row, st, n, "completed", st)
           result == row.result \/ (withResult /\ (st = "completed" \/ row.type = "dependency_update_scan"))
           audited == row.audited \/ (withResult /\ row.type = "audit_package")
           new == [left EXCEPT !.result = result, !.audited = audited]
<1>1. Completed(row, st, n, withResult) = new
   BY DEF Completed
<1>2. /\ left.status = st
      /\ left.attempts = row.attempts
      /\ left.type = row.type
      /\ left.root = row.root
      /\ left.completedAt = (st \in Terminal)
      /\ left.events = row.events \cup {st}
      /\ left.lastError = row.lastError
      /\ SameReplay(row, left)
      /\ "result" \in DOMAIN left
   BY <1>g, LeftColumns DEF Row
<1> HIDE DEF left
<1>3. /\ new.status = st
      /\ new.attempts = row.attempts
      /\ new.type = row.type
      /\ new.root = row.root
      /\ new.completedAt = (st \in Terminal)
      /\ new.events = row.events \cup {st}
      /\ new.lastError = row.lastError
      /\ new.result = result
      /\ new.runs = left.runs
      /\ SameReplay(row, new)
   BY <1>2 DEF SameReplay
<1>4. row.result \in BOOLEAN
   BY <1>g DEF Row
<1> HIDE DEF new
<1>r. Spoiled(new.runs) <=> Spoiled(row.runs)
   <2>1. "completed" \in RunStatus
      BY DEF RunStatus
   <2>2. Spoiled(Left(row, st, n, "completed", st).runs) <=>
             Spoiled(row.runs) \/ "completed" \in {"retry_scheduled", "abandoned"}
      BY <2>1, LeftSpoiled, Zenon
   <2>3. Spoiled(left.runs) <=> Spoiled(row.runs) \/ "completed" \in {"retry_scheduled", "abandoned"}
      BY <2>2 DEF left
   <2> QED BY <1>3, <2>1, <2>3
<1>5. EndInv(row) => EndInv(new)
   BY <1>3, <1>4, <1>r DEF EndInv, Explained
<1>6. new.status \in Life!Successors(row.status) /\ new.status # "running"
   BY <1>3 DEF Life!Successors
<1> QED BY <1>1, <1>3, <1>5, <1>6 DEF Moves, Edge

(* Fail. *)
LEMMA FailedMoves ==
  ASSUME NEW row, GoodRow(row), row.status = "running", NEW kind \in ErrorKinds,
         NEW n, n = row.attempts
  PROVE  /\ Moves(row, Failed(row, kind, n))
         /\ Failed(row, kind, n).status \in Terminal \cup {"retry_scheduled"}
         /\ TellsCancel(Failed(row, kind, n))
<1>g. row \in Row
   BY DEF GoodRow
<1> DEFINE st == FailStatus(kind, n, row.maxAttempts)
           left == Left(row, st, n, st, st)
           due == IF st = "retry_scheduled" THEN FALSE ELSE row.due
           new == [left EXCEPT !.due = due, !.lastError = kind]
<1>1. Failed(row, kind, n) = new
   BY DEF Failed
<1>2. /\ st \in {"cancelled", "retry_scheduled", "dead_lettered", "failed"}
      /\ st = "failed" => kind = "permanent"
      /\ st = "dead_lettered" => kind = "transient"
      /\ st = "retry_scheduled" => kind = "transient"
      /\ kind = "cancelled" => st = "cancelled"
   BY DEF FailStatus
<1> HIDE DEF st
<1>3. /\ left.status = st
      /\ left.attempts = row.attempts
      /\ left.type = row.type
      /\ left.root = row.root
      /\ left.completedAt = (st \in Terminal)
      /\ left.events = row.events \cup {st}
      /\ left.result = row.result
      /\ SameReplay(row, left)
      /\ "lastError" \in DOMAIN left
   BY <1>g, LeftColumns DEF Row
<1> HIDE DEF left
<1>4. /\ new.status = st
      /\ new.attempts = row.attempts
      /\ new.type = row.type
      /\ new.root = row.root
      /\ new.completedAt = (st \in Terminal)
      /\ new.events = row.events \cup {st}
      /\ new.lastError = kind
      /\ new.result = row.result
      /\ new.runs = left.runs
      /\ SameReplay(row, new)
   BY <1>3 DEF SameReplay
<1> HIDE DEF new
<1>r. Spoiled(new.runs) <=> Spoiled(row.runs) \/ st = "retry_scheduled"
   <2>1. st \in RunStatus /\ st # "abandoned"
      BY <1>2 DEF RunStatus
   <2>2. Spoiled(Left(row, st, n, st, st).runs) <=>
             Spoiled(row.runs) \/ st \in {"retry_scheduled", "abandoned"}
      BY <2>1, LeftSpoiled, Zenon
   <2>3. Spoiled(left.runs) <=> Spoiled(row.runs) \/ st \in {"retry_scheduled", "abandoned"}
      BY <2>2 DEF left
   <2> QED BY <1>4, <2>1, <2>3
<1>5. EndInv(row) => EndInv(new)
   BY <1>2, <1>4, <1>r DEF EndInv, Explained
<1>6. new.status \in Life!Successors(row.status) /\ new.status # "running"
   BY <1>2, <1>4 DEF Life!Successors
<1>7. TellsCancel(new)
   BY <1>4 DEF TellsCancel
<1> QED BY <1>1, <1>2, <1>4, <1>5, <1>6, <1>7 DEF Moves, Edge

(* ReclaimExpired. *)
LEMMA ReclaimedMoves ==
  ASSUME NEW row, GoodRow(row), row.status = "running"
  PROVE  /\ Moves(row, Reclaimed(row))
         /\ Reclaimed(row).status \in Terminal \cup {"pending"}
         /\ TellsCancel(Reclaimed(row))
<1>g. row \in Row
   BY DEF GoodRow
<1> DEFINE st == ReclaimStatus(row)
           left == Left(row, st, row.attempts, "abandoned", "lease_expired")
           new == [left EXCEPT !.lastError = "transient"]
<1>1. Reclaimed(row) = new
   BY DEF Reclaimed
<1>2. st \in {"cancelled", "dead_lettered", "pending"}
   BY DEF ReclaimStatus
<1> HIDE DEF st
<1>3. /\ left.status = st
      /\ left.attempts = row.attempts
      /\ left.type = row.type
      /\ left.root = row.root
      /\ left.completedAt = (st \in Terminal)
      /\ left.events = row.events \cup {"lease_expired"}
      /\ left.result = row.result
      /\ SameReplay(row, left)
      /\ "lastError" \in DOMAIN left
   BY <1>g, LeftColumns DEF Row
<1> HIDE DEF left
<1>4. /\ new.status = st
      /\ new.attempts = row.attempts
      /\ new.type = row.type
      /\ new.root = row.root
      /\ new.completedAt = (st \in Terminal)
      /\ new.events = row.events \cup {"lease_expired"}
      /\ new.lastError = "transient"
      /\ new.result = row.result
      /\ new.runs = left.runs
      /\ SameReplay(row, new)
   BY <1>3 DEF SameReplay
<1> HIDE DEF new
<1>r. Spoiled(new.runs)
   <2>1. "abandoned" \in RunStatus
      BY DEF RunStatus
   <2>2. Spoiled(Left(row, st, row.attempts, "abandoned", "lease_expired").runs) <=>
             Spoiled(row.runs) \/ "abandoned" \in {"retry_scheduled", "abandoned"}
      BY <2>1, LeftSpoiled, Zenon
   <2>3. Spoiled(left.runs) <=> Spoiled(row.runs) \/ "abandoned" \in {"retry_scheduled", "abandoned"}
      BY <2>2 DEF left
   <2> QED BY <1>4, <2>1, <2>3
<1>5. EndInv(row) => EndInv(new)
   BY <1>2, <1>4, <1>r DEF EndInv, Explained
<1>6. new.status \in Life!Successors(row.status) /\ new.status # "running"
   BY <1>2, <1>4 DEF Life!Successors
<1>7. TellsCancel(new)
   BY <1>4 DEF TellsCancel
<1> QED BY <1>1, <1>2, <1>4, <1>5, <1>6, <1>7 DEF Moves, Edge

(* Cancel, of the job itself and of a descendant of the cancelled root.    *)
LEMMA CancelMoves ==
  ASSUME NEW row \in Row, row.status \in Queued \cup {"waiting"},
         NEW events, events = row.events \cup {"cancellation_requested", "cancelled"}
  PROVE  /\ Moves(row, CancelRow(row))
         /\ CancelRow(row).status = "cancelled"
         /\ CancelRow(row).events = row.events
         /\ Moves(row, [CancelRow(row) EXCEPT !.events = events])
         /\ [CancelRow(row) EXCEPT !.events = events].status = "cancelled"
         /\ TellsCancel([CancelRow(row) EXCEPT !.events = events])
         /\ EndInv(row) => CancelledInQueue([CancelRow(row) EXCEPT !.events = events])
<1> DEFINE mid == CancelRow(row)
           new == [mid EXCEPT !.events = events]
<1>1. /\ mid.status = "cancelled"
      /\ mid.attempts = row.attempts
      /\ mid.type = row.type
      /\ mid.root = row.root
      /\ mid.completedAt = TRUE
      /\ mid.events = row.events
      /\ mid.lastError = row.lastError
      /\ mid.result = row.result
      /\ mid.runs = row.runs
      /\ SameReplay(row, mid)
      /\ "events" \in DOMAIN mid
   BY DEF CancelRow, Row, SameReplay
<1> HIDE DEF mid
<1>2. /\ new.status = "cancelled"
      /\ new.attempts = row.attempts
      /\ new.type = row.type
      /\ new.root = row.root
      /\ new.completedAt = TRUE
      /\ new.events = events
      /\ new.lastError = row.lastError
      /\ new.result = row.result
      /\ new.runs = row.runs
      /\ SameReplay(row, new)
   BY <1>1 DEF SameReplay
<1> HIDE DEF new
<1>3. EndInv(row) => EndInv(mid) /\ EndInv(new)
   BY <1>1, <1>2 DEF EndInv, Explained
<1>4. "cancelled" \in Life!Successors(row.status)
   BY DEF Life!Successors
<1>5. Moves(row, mid) /\ Moves(row, new)
   BY <1>1, <1>2, <1>3, <1>4 DEF Moves, Edge
<1>6. EndInv(row) => CancelledInQueue(new)
   BY <1>2 DEF EndInv, CancelledInQueue
<1>7. TellsCancel(new)
   BY <1>2 DEF TellsCancel
<1> QED BY <1>1, <1>2, <1>5, <1>6, <1>7 DEF mid, new

(* finalizeRoot. *)
LEMMA FinalizedMoves ==
  ASSUME NEW row \in Row, row.status = "waiting",
         NEW st \in {"completed", "failed", "dead_lettered"}
  PROVE  Moves(row, Finalized(row, st)) /\ Finalized(row, st).status = st
<1> DEFINE new == Finalized(row, st)
<1>1. /\ new.status = st
      /\ new.attempts = row.attempts
      /\ new.type = row.type
      /\ new.root = row.root
      /\ new.completedAt = TRUE
      /\ new.events = row.events \cup {st}
      /\ new.lastError = CASE st = "dead_lettered" -> "transient"
                           [] st = "failed"        -> "permanent"
                           [] OTHER                -> "none"
      /\ new.result = (row.result \/ (st = "completed" /\ row.type # "dependency_update_scan"))
      /\ SameReplay(row, new)
   BY DEF Finalized, Row, SameReplay
<1>2. row.result \in BOOLEAN
   BY DEF Row
<1> HIDE DEF new
<1>3. EndInv(row) => EndInv(new)
   BY <1>1, <1>2 DEF EndInv, Explained
<1>4. new.status \in Life!Successors(row.status) /\ new.status # "running"
   BY <1>1 DEF Life!Successors
<1> QED BY <1>1, <1>3, <1>4 DEF Moves, Edge, new

(***************************************************************************)
(* Steps.                                                                  *)
(***************************************************************************)

(* A row is inserted as a root, or below a job that leaves "running"; a    *)
(* root that inserts descendants waits for them.                           *)
Inserts(old, new) ==
    \A c \in JobIds :
        old[c].status = "absent" /\ new[c].status # "absent" =>
            \/ new[c].root = c
            \/ \E p \in JobIds :
                  /\ old[p].status = "running"
                  /\ new[c].root = old[p].root
                  /\ old[p].root = p => new[p].status = "waiting"

(* A root starts to wait for a descendant that is still to run. *)
StartsToWait(old, new) ==
    \A r \in JobIds :
        old[r].status # "waiting" /\ new[r].status = "waiting" =>
            new[r].root = r /\ HasActive(new, r)

(* A root stops waiting because it is cancelled or because nothing is left *)
(* to run below it; then its status is the outcome of its descendants.     *)
StopsWaiting(old, new) ==
    \A r \in JobIds :
        old[r].status = "waiting" /\ new[r].status \notin {"waiting", "cancelled"} =>
            ~ HasActive(new, r) /\ new[r].status = Outcome(new, r)

(* A descendant of an update scan that goes on waiting ends only while     *)
(* another one is active, or in the queue.                                 *)
LeavesAnother(old, new) ==
    \A r \in JobIds : \A c \in Descendants(old, r) :
        /\ new[r].status = "waiting"
        /\ new[r].type = "dependency_update_scan"
        /\ old[c].status \in Active
        /\ new[c].status \in Terminal
        => HasActive(new, r) \/ CancelledInQueue(new[c])

(* A job is cancelled with an event, or together with its root. *)
Cancels(old, new) ==
    \A c \in JobIds :
        old[c].status # "cancelled" => CancelExplained(new, c)

(* Links to replays are left alone, or one entry is linked to a new job.   *)
Replays(old, new) ==
    \/ \A j \in JobIds : SameReplay(old[j], new[j])
    \/ \E src, copy \in JobIds :
          /\ src # copy
          /\ old[src].replayedAs = NoJob
          /\ old[copy] = NoRow
          /\ new[src].replayedAs = copy /\ new[src].replayedFrom = old[src].replayedFrom
          /\ new[copy].replayedFrom = src /\ new[copy].replayedAs = NoJob
          /\ \A j \in JobIds \ {src, copy} : SameReplay(old[j], new[j])

TreeStep ==
    /\ jobs' \in [JobIds -> Row]
    /\ \A j \in JobIds : Edge(jobs[j], jobs'[j])
    /\ Inserts(jobs, jobs')
    /\ StartsToWait(jobs, jobs')
    /\ StopsWaiting(jobs, jobs')
    /\ LeavesAnother(jobs, jobs')
    /\ Cancels(jobs, jobs')
    /\ Replays(jobs, jobs')

(* A step in which no root ends or starts to wait. *)
LEMMA QuietStep ==
  ASSUME jobs' \in [JobIds -> Row],
         \A j \in JobIds : Edge(jobs[j], jobs'[j]),
         Replays(jobs, jobs'), Inserts(jobs, jobs'), LeavesAnother(jobs, jobs'),
         Cancels(jobs, jobs'),
         \A j \in JobIds : \/ jobs'[j].status = jobs[j].status
                           \/ jobs'[j].status \in {"pending", "running", "cancelled"}
  PROVE  TreeStep
<1>1. StartsToWait(jobs, jobs')
   BY DEF StartsToWait
<1>2. StopsWaiting(jobs, jobs')
   <2> SUFFICES ASSUME NEW r \in JobIds, jobs[r].status = "waiting",
                       jobs'[r].status \in {"pending", "running"}
                PROVE  FALSE
      BY DEF StopsWaiting
   <2>1. Edge(jobs[r], jobs'[r])
      OBVIOUS
   <2> QED BY <2>1 DEF Edge, Life!Successors
<1> QED BY <1>1, <1>2 DEF TreeStep

(* A step that changes one row of a job that stays in the table. *)
LEMMA OneRowStep ==
  ASSUME LeaseInv, NEW j \in JobIds, NEW row \in Row, Moves(jobs[j], row),
         jobs[j].status # "absent",
         jobs' = [jobs EXCEPT ![j] = row],
         \/ row.status = jobs[j].status
         \/ row.status = "running"
         \/ CancelledInQueue(row)
  PROVE  TreeStep
<1>1. /\ jobs' \in [JobIds -> Row]
      /\ jobs'[j] = row
      /\ \A i \in JobIds : i # j => jobs'[i] = jobs[i]
   BY DEF LeaseInv, TypeOK
<1>2. \A i \in JobIds : Edge(jobs[i], jobs'[i]) /\ SameReplay(jobs[i], jobs'[i])
   BY <1>1, SameMoves DEF Moves
<1>3. Inserts(jobs, jobs')
   BY <1>1 DEF Inserts
<1>4. LeavesAnother(jobs, jobs')
   BY <1>1 DEF LeavesAnother, Descendants
<1>5. Replays(jobs, jobs')
   BY <1>2 DEF Replays
<1>6. \A i \in JobIds : jobs'[i].status = jobs[i].status \/ jobs'[i].status \in {"pending", "running", "cancelled"}
   BY <1>1 DEF CancelledInQueue
<1>7. Cancels(jobs, jobs')
   BY <1>1 DEF Cancels, CancelExplained, CancelledInQueue
<1> QED BY <1>1, <1>2, <1>3, <1>4, <1>5, <1>6, <1>7, QuietStep

(* A step that inserts one root. *)
LEMMA NewRootStep ==
  ASSUME LeaseInv, NEW j \in JobIds, NEW row \in Row, jobs[j] = NoRow,
         Edge(NoRow, row), row.status = "pending", row.root = j,
         jobs' \in [JobIds -> Row], jobs'[j] = row,
         \A i \in JobIds \ {j} : Edge(jobs[i], jobs'[i]) /\ jobs'[i].status = jobs[i].status,
         Replays(jobs, jobs')
  PROVE  TreeStep
<1>1. \A i \in JobIds : Edge(jobs[i], jobs'[i])
   OBVIOUS
<1>2. NoRow.status = "absent"
   BY NoRowColumns
<1>3. Inserts(jobs, jobs')
   BY DEF Inserts
<1>4. LeavesAnother(jobs, jobs')
   BY <1>2 DEF LeavesAnother, Descendants
<1>5. Cancels(jobs, jobs')
   BY DEF Cancels, CancelExplained
<1> QED BY <1>1, <1>3, <1>4, <1>5, QuietStep

(* Outcome names a way to end. *)
LEMMA OutcomeEnds ==
  ASSUME NEW table, NEW r
  PROVE  /\ Outcome(table, r) \in {"completed", "failed", "dead_lettered"}
         /\ Outcome(table, r) = "completed" =>
               \A c \in Descendants(table, r) :
                   table[c].status \notin {"dead_lettered", "failed", "cancelled"}
BY DEF Outcome

(* A step that finalizes roots after changes that lead from jobs to table. *)
(* Only roots are finalized, so that what is below a root is the same in   *)
(* the table that finalizeRoot reads and in the one it leaves.             *)
LEMMA FinalizeStep ==
  ASSUME LeaseInv, NEW table \in [JobIds -> Row], NEW rs, NEW missed \in SUBSET Missable(table, rs),
         jobs' = FinalizeRoots(table, rs, missed),
         jobs' \in [JobIds -> Row],
         \A j \in JobIds : Moves(jobs[j], table[j]),
         \A j \in JobIds : table[j].status = "waiting" => table[j].root = j,
         \A j \in JobIds : jobs[j].status = "waiting" => table[j] = jobs[j],
         \A j \in JobIds : table[j].status = "waiting" /\ jobs[j].status # "waiting" =>
                               j \notin rs /\ HasActive(table, j),
         \A c \in JobIds : jobs[c].status \in Active /\ table[c].status \in Terminal
                           /\ jobs[c].root # c => jobs[c].root \in rs,
         \A j \in JobIds : jobs[j].status # "cancelled" => TellsCancel(table[j]),
         Inserts(jobs, table)
  PROVE  TreeStep
<1> DEFINE Fin(j) == j \in rs \ missed /\ table[j].status = "waiting" /\ ~ HasActive(table, j)
<1>1. \A j \in JobIds : jobs'[j] = IF Fin(j) THEN Finalized(table[j], Outcome(table, j)) ELSE table[j]
   BY DEF FinalizeRoots
<1>2. ASSUME NEW j \in JobIds, Fin(j)
      PROVE  /\ jobs[j] = table[j]
             /\ table[j].root = j
             /\ Moves(jobs[j], jobs'[j])
             /\ jobs'[j].status = Outcome(table, j)
             /\ jobs'[j].root = j
   <2>1. jobs[j] = table[j] /\ table[j].root = j /\ table[j].status = "waiting"
      BY <1>2
   <2>2. /\ Moves(table[j], Finalized(table[j], Outcome(table, j)))
         /\ Finalized(table[j], Outcome(table, j)).status = Outcome(table, j)
      <3>1. table[j] \in Row /\ Outcome(table, j) \in {"completed", "failed", "dead_lettered"}
         BY OutcomeEnds
      <3> QED BY <2>1, <3>1, FinalizedMoves
   <2>3. jobs'[j] = Finalized(table[j], Outcome(table, j))
      BY <1>1, <1>2
   <2> QED BY <2>1, <2>2, <2>3 DEF Moves, Edge
<1> HIDE DEF Fin
<1>3. \A j \in JobIds : Moves(jobs[j], jobs'[j])
   BY <1>1, <1>2
<1>4. \A j \in JobIds : jobs'[j].root = table[j].root
   BY <1>1, <1>2
<1>5. ASSUME NEW r \in JobIds
      PROVE  /\ Descendants(jobs', r) = Descendants(table, r)
             /\ \A c \in Descendants(table, r) : jobs'[c] = table[c]
   BY <1>1, <1>2, <1>4 DEF Descendants
<1>6. ASSUME NEW r \in JobIds
      PROVE  (HasActive(jobs', r) <=> HasActive(table, r)) /\ Outcome(jobs', r) = Outcome(table, r)
   <2>1. HasActive(jobs', r) <=> HasActive(table, r)
      BY <1>5 DEF HasActive
   <2>2. {jobs'[c].status : c \in Descendants(jobs', r)} = {table[c].status : c \in Descendants(table, r)}
      BY <1>5
   <2>3. Outcome(jobs', r) = Outcome(table, r)
      BY <2>2 DEF Outcome
   <2> QED BY <2>1, <2>3
<1>7. ASSUME NEW j \in JobIds
      PROVE  jobs'[j].status = "waiting" <=> table[j].status = "waiting" /\ ~ Fin(j)
   <2>1. Outcome(table, j) # "waiting"
      BY OutcomeEnds
   <2> QED BY <1>1, <1>2, <2>1
<1>8. Inserts(jobs, jobs')
   <2> SUFFICES ASSUME NEW c \in JobIds, jobs[c].status = "absent", jobs'[c].status # "absent",
                       jobs'[c].root # c
                PROVE  \E p \in JobIds :
                          /\ jobs[p].status = "running"
                          /\ jobs'[c].root = jobs[p].root
                          /\ jobs[p].root = p => jobs'[p].status = "waiting"
      BY DEF Inserts
   <2>1. ~ Fin(c)
      BY <1>2
   <2>2. jobs'[c] = table[c]
      BY <1>1, <2>1
   <2>3. PICK p \in JobIds : /\ jobs[p].status = "running"
                             /\ table[c].root = jobs[p].root
                             /\ jobs[p].root = p => table[p].status = "waiting"
      BY <2>2 DEF Inserts
   <2>4. ~ Fin(p)
      BY <1>2, <2>3 DEF Fin
   <2> QED BY <1>1, <2>2, <2>3, <2>4
<1>9. StartsToWait(jobs, jobs')
   BY <1>4, <1>6, <1>7 DEF StartsToWait
<1>10. StopsWaiting(jobs, jobs')
   <2> SUFFICES ASSUME NEW r \in JobIds, jobs[r].status = "waiting",
                       jobs'[r].status \notin {"waiting", "cancelled"}
                PROVE  ~ HasActive(jobs', r) /\ jobs'[r].status = Outcome(jobs', r)
      BY DEF StopsWaiting
   <2>1. Fin(r)
      BY <1>7
   <2> QED BY <1>2, <1>6, <2>1 DEF Fin
<1>11. LeavesAnother(jobs, jobs')
   <2> SUFFICES ASSUME NEW r \in JobIds, NEW c \in Descendants(jobs, r),
                       jobs'[r].status = "waiting", jobs'[r].type = "dependency_update_scan",
                       jobs[c].status \in Active, jobs'[c].status \in Terminal
                PROVE  HasActive(jobs', r)
      BY DEF LeavesAnother
   <2>1. c \in JobIds /\ c # r /\ jobs[c].root = r
      BY DEF Descendants
   <2>2. table[r].status = "waiting" /\ ~ Fin(r) /\ jobs'[r] = table[r]
      BY <1>1, <1>7
   <2>3. ~ Fin(c)
      BY <1>2, <2>1
   <2>4. table[c].status \in Terminal
      BY <1>1, <2>1, <2>3
   <2>5. r \in rs
      BY <2>1, <2>4
   <2>6. r \notin missed
      BY <2>2 DEF Missable
   <2>7. HasActive(table, r)
      BY <2>2, <2>5, <2>6 DEF Fin
   <2> QED BY <1>6, <2>7
<1>12. Replays(jobs, jobs')
   BY <1>3 DEF Replays, Moves
<1>13. Cancels(jobs, jobs')
   <2> SUFFICES ASSUME NEW c \in JobIds, jobs[c].status # "cancelled", jobs'[c].status = "cancelled"
                PROVE  jobs'[c].events \cap {"cancelled", "lease_expired"} # {}
      BY DEF Cancels, CancelExplained
   <2>1. ~ Fin(c)
      BY <1>2, OutcomeEnds
   <2> QED BY <1>1, <2>1 DEF TellsCancel
<1> QED BY <1>3, <1>8, <1>9, <1>10, <1>11, <1>12, <1>13 DEF TreeStep, Moves

(* A job leaves "running", with its new children and its root. *)
LEMMA SettleStep ==
  ASSUME LeaseInv, TreeInv, jobs' \in [JobIds -> Row],
         NEW j \in JobIds, jobs[j].status = "running",
         NEW row \in Row, Moves(jobs[j], row), TellsCancel(row),
         NEW kids \in SUBSET Fresh,
         kids # {} => ChildType(jobs[j].type) # "none",
         row.status \in Terminal \cup {"retry_scheduled", "waiting"},
         row.status = "waiting" <=> kids # {} /\ IsRoot(j),
         Settle(j, row, kids)
  PROVE  TreeStep
<1> DEFINE child == NewRow(ChildType(jobs[j].type), jobs[j].root, jobs[j].maxAttempts, {})
           F(c) == IF c = j THEN row ELSE IF c \in kids THEN child ELSE jobs[c]
           table == [c \in JobIds |-> F(c)]
           rs == IF row.status \in Terminal /\ ~ IsRoot(j) THEN {row.root} ELSE {}
<1>1. PICK missed \in SUBSET Missable(table, rs) : jobs' = FinalizeRoots(table, rs, missed)
   BY DEF Settle
<1>2. /\ Moves(NoRow, child)
      /\ child.status = "pending"
      /\ child.root = jobs[j].root
   BY NewRowMoves
<1>3. \A c \in kids : c \in JobIds /\ jobs[c] = NoRow /\ jobs[c].status = "absent" /\ c # j
   BY DEF Fresh, TreeInv, TreeShape
<1>4. jobs \in [JobIds -> Row] /\ row.root = jobs[j].root /\ row.type = jobs[j].type
   BY DEF LeaseInv, TypeOK, Moves, Edge
<1>5. kids # {} => child \in Row
   <2> SUFFICES ASSUME kids # {} PROVE child \in Row
      OBVIOUS
   <2>1. GoodRow(jobs[j])
      BY <1>4 DEF LeaseInv, GoodRow
   <2>2. /\ ChildType(jobs[j].type) \in JobTypes
         /\ jobs[j].root \in JobIds
         /\ jobs[j].maxAttempts \in 1..MaxAttemptsCap
      BY <2>1, ConstantsAssumption
         DEF ConstantsAssumption, GoodRow, Row, RowInv, ChildType, JobTypes
   <2> QED BY <2>2, NewRowGood DEF GoodRow
<1> HIDE DEF child
<1>6. /\ table \in [JobIds -> Row]
      /\ table[j] = row
      /\ \A c \in kids : table[c] = child
      /\ \A c \in JobIds : c # j /\ c \notin kids => table[c] = jobs[c]
   BY <1>3, <1>4, <1>5
<1> HIDE DEF F, table
<1>7. ASSUME NEW c \in JobIds
      PROVE  Moves(jobs[c], table[c])
   BY <1>2, <1>3, <1>6, SameMoves
<1>8. \A c \in JobIds : c # j /\ table[c].status = "waiting" => table[c] = jobs[c]
   BY <1>2, <1>6
<1>9. \A c \in JobIds : table[c].status = "waiting" => table[c].root = c
   BY <1>4, <1>6, <1>8 DEF TreeInv, TreeShape, IsRoot
<1>10. \A c \in JobIds : jobs[c].status = "waiting" => table[c] = jobs[c]
   BY <1>3, <1>6
<1>11. ASSUME NEW c \in JobIds, table[c].status = "waiting", jobs[c].status # "waiting"
       PROVE  c \notin rs /\ HasActive(table, c)
   <2>1. c = j /\ row.status = "waiting"
      BY <1>6, <1>8, <1>11
   <2>2. rs = {}
      BY <2>1
   <2>3. PICK k \in kids : TRUE
      BY <2>1
   <2>4. k \in JobIds /\ k # j /\ table[k] = child
      BY <1>3, <1>6
   <2>5. child.root = j
      BY <1>2, <2>1 DEF IsRoot
   <2>6. HasActive(table, j)
      BY <1>2, <2>4, <2>5 DEF HasActive, Descendants
   <2> QED BY <2>1, <2>2, <2>6
<1>12. ASSUME NEW c \in JobIds, jobs[c].status \in Active, table[c].status \in Terminal,
              jobs[c].root # c
       PROVE  jobs[c].root \in rs
   <2>1. c = j
      BY <1>3, <1>6, <1>12
   <2> QED BY <1>4, <1>6, <1>12, <2>1 DEF IsRoot
<1>13. Inserts(jobs, table)
   <2> SUFFICES ASSUME NEW c \in JobIds, jobs[c].status = "absent", table[c].status # "absent"
                PROVE  /\ table[c].root = jobs[j].root
                       /\ jobs[j].root = j => table[j].status = "waiting"
      BY DEF Inserts
   <2>1. c \in kids
      BY <1>6
   <2> QED BY <1>2, <1>6, <2>1 DEF IsRoot
<1>14. \A c \in JobIds : jobs[c].status # "cancelled" => TellsCancel(table[c])
   BY <1>2, <1>6 DEF TellsCancel
<1> HIDE DEF rs
<1> QED BY <1>1, <1>6, <1>7, <1>9, <1>10, <1>11, <1>12, <1>13, <1>14, FinalizeStep

(* Every step is a step of the trees. *)
LEMMA TreeStepHolds ==
  ASSUME LeaseInv, TreeInv, [Next]_vars
  PROVE  TreeStep
<1>t. /\ jobs \in [JobIds -> Row]
      /\ jobs' \in [JobIds -> Row]
      /\ \A j \in JobIds : GoodRow(jobs[j])
      /\ \A j \in JobIds : jobs[j].status = "absent" => jobs[j] = NoRow
      /\ \A j \in JobIds : EndInv(jobs[j])
   BY LeaseInvStep DEF LeaseInv, TypeOK, GoodRow, TreeInv, TreeShape
<1>same. ASSUME jobs' = jobs
         PROVE  TreeStep
   <2>1. \A j \in JobIds : Edge(jobs[j], jobs'[j]) /\ SameReplay(jobs[j], jobs'[j])
      BY <1>same, SameMoves DEF Moves
   <2>2. /\ Replays(jobs, jobs') /\ Inserts(jobs, jobs') /\ LeavesAnother(jobs, jobs')
         /\ Cancels(jobs, jobs')
      BY <1>same, <2>1 DEF Replays, Inserts, LeavesAnother, Descendants, Cancels, CancelExplained
   <2> QED BY <1>same, <1>t, <2>1, <2>2, QuietStep
<1>1. ASSUME NEW j \in JobIds, NEW type, NEW max, Submit(j, type, max)
      PROVE  TreeStep
   <2> DEFINE row == NewRow(type, j, max, {"submitted"})
   <2>1. jobs[j] = NoRow
      BY <1>1, <1>t DEF Submit, Fresh
   <2>2. jobs' = [jobs EXCEPT ![j] = row]
      BY <1>1 DEF Submit
   <2>3. Moves(NoRow, row) /\ row.status = "pending" /\ row.root = j
      BY NewRowMoves
   <2> HIDE DEF row
   <2>4. jobs'[j] = row /\ row \in Row /\ \A i \in JobIds \ {j} : jobs'[i] = jobs[i]
      BY <1>t, <2>2
   <2>5. \A i \in JobIds : Moves(jobs[i], jobs'[i])
      BY <2>1, <2>3, <2>4, SameMoves
   <2>6. Replays(jobs, jobs')
      BY <2>5 DEF Replays, Moves
   <2>7. \A i \in JobIds \ {j} : Edge(jobs[i], jobs'[i]) /\ jobs'[i].status = jobs[i].status
      BY <2>4, <2>5 DEF Moves
   <2> QED BY <1>t, <2>1, <2>3, <2>4, <2>6, <2>7, NewRootStep DEF Moves
<1>2. ASSUME NEW src \in JobIds, NEW j \in JobIds, NEW max, ReplayDLQ(src, j, max)
      PROVE  TreeStep
   <2> DEFINE new == NewRow(jobs[src].type, j, max, {"submitted", "replayed"})
              row == [new EXCEPT !.replayedFrom = src]
              old == [jobs[src] EXCEPT !.replayedAs = j]
   <2>1. jobs[j] = NoRow /\ jobs[j].status = "absent"
      BY <1>2, <1>t DEF ReplayDLQ, Fresh
   <2>2. jobs[src].status = "dead_lettered" /\ src # j
      BY <1>2, <1>t, <2>1 DEF ReplayDLQ, GoodRow, RowInv
   <2>3. jobs'[j] = row /\ jobs'[src] = old /\ \A i \in JobIds \ {src, j} : jobs'[i] = jobs[i]
      BY <1>2, <1>t, <2>2 DEF ReplayDLQ
   <2>4. Edge(NoRow, new) /\ new.status = "pending" /\ new.root = j /\ new.replayedAs = NoJob
      <3>1. Moves(NoRow, new) /\ new.status = "pending" /\ new.root = j
         BY NewRowMoves
      <3> HIDE DEF new
      <3> QED BY <3>1, NoRowColumns DEF Moves, SameReplay
   <2>5. /\ row.status = new.status /\ row.attempts = new.attempts /\ row.type = new.type
         /\ row.root = new.root /\ row.completedAt = new.completedAt
         /\ row.lastError = new.lastError /\ row.result = new.result /\ row.events = new.events
         /\ row.runs = new.runs
         /\ row.replayedFrom = src /\ row.replayedAs = new.replayedAs
      BY DEF NewRow
   <2> HIDE DEF new
   <2>6. Edge(new, row)
      BY <2>4, <2>5, ColumnsMove
   <2> HIDE DEF row
   <2>7. Edge(NoRow, row)
      <3>1. EndInv(NoRow) => EndInv(row)
         BY <2>4, <2>6 DEF Edge
      <3> QED BY <2>4, <2>5, <3>1, NoRowColumns DEF Edge
   <2>8. /\ Edge(jobs[src], old)
         /\ old.status = jobs[src].status
         /\ old.replayedAs = j
         /\ old.replayedFrom = jobs[src].replayedFrom
      <3>1. /\ old.status = jobs[src].status /\ old.attempts = jobs[src].attempts
            /\ old.type = jobs[src].type
            /\ old.root = jobs[src].root /\ old.completedAt = jobs[src].completedAt
            /\ old.lastError = jobs[src].lastError /\ old.result = jobs[src].result
            /\ old.events = jobs[src].events /\ old.runs = jobs[src].runs
            /\ old.replayedAs = j /\ old.replayedFrom = jobs[src].replayedFrom
         BY <1>t DEF Row
      <3> HIDE DEF old
      <3> QED BY <2>2, <3>1, ColumnsMove
   <2> HIDE DEF old
   <2>9. Replays(jobs, jobs')
      <3>1. \A i \in JobIds \ {src, j} : SameReplay(jobs[i], jobs'[i])
         BY <2>3 DEF SameReplay
      <3>2. jobs[src].replayedAs = NoJob
         BY <1>2 DEF ReplayDLQ
      <3> QED BY <2>1, <2>2, <2>3, <2>4, <2>5, <2>8, <3>1, <3>2 DEF Replays
   <2>10. \A i \in JobIds \ {j} : Edge(jobs[i], jobs'[i]) /\ jobs'[i].status = jobs[i].status
      BY <2>3, <2>8, SameMoves DEF Moves
   <2>11. row \in Row
      BY <1>t, <2>3
   <2> QED BY <1>t, <2>1, <2>3, <2>4, <2>5, <2>7, <2>9, <2>10, <2>11, NewRootStep
<1>3. ASSUME NEW j \in JobIds, CancelQueued(j)
      PROVE  TreeStep
   <2> DEFINE events == jobs[j].events \cup {"cancellation_requested", "cancelled"}
              row == [CancelRow(jobs[j]) EXCEPT !.events = events]
   <2>1. jobs[j].status \in Queued
      BY <1>3 DEF CancelQueued
   <2>2. /\ CancelRow(jobs[j]).events = jobs[j].events
         /\ Moves(jobs[j], row)
         /\ CancelledInQueue(row)
      BY <1>t, <2>1, CancelMoves
   <2>3. jobs' = [jobs EXCEPT ![j] = row]
      BY <1>3, <2>2 DEF CancelQueued
   <2> HIDE DEF row
   <2>4. row \in Row
      BY <1>t, <2>3
   <2> QED BY <2>1, <2>2, <2>3, <2>4, OneRowStep
<1>4. ASSUME NEW j \in JobIds, NEW row, jobs' = [jobs EXCEPT ![j] = row],
             jobs[j].status # "absent",
             row.status = jobs[j].status, row.attempts = jobs[j].attempts,
             row.type = jobs[j].type, row.root = jobs[j].root,
             row.completedAt = jobs[j].completedAt, row.lastError = jobs[j].lastError,
             row.result = jobs[j].result, row.runs = jobs[j].runs, SameReplay(jobs[j], row),
             row.events = jobs[j].events \/ row.events = jobs[j].events \cup {"cancellation_requested"}
      PROVE  TreeStep
   <2>1. row \in Row
      BY <1>4, <1>t
   <2>2. Edge(jobs[j], row)
      BY <1>4, ColumnsMove
   <2> QED BY <1>4, <2>1, <2>2, OneRowStep DEF Moves
<1>5. ASSUME NEW j \in JobIds, CancelRunning(j)
      PROVE  TreeStep
   <2> DEFINE row == [jobs[j] EXCEPT !.cancelRequested = TRUE,
                                     !.events = jobs[j].events \cup {"cancellation_requested"}]
   <2>1. jobs' = [jobs EXCEPT ![j] = row] /\ jobs[j].status = "running"
      BY <1>5, <1>t DEF CancelRunning, Row
   <2>2. /\ row.status = jobs[j].status /\ row.attempts = jobs[j].attempts
         /\ row.type = jobs[j].type /\ row.root = jobs[j].root
         /\ row.completedAt = jobs[j].completedAt /\ row.lastError = jobs[j].lastError
         /\ row.result = jobs[j].result /\ row.runs = jobs[j].runs /\ SameReplay(jobs[j], row)
         /\ row.events = jobs[j].events \cup {"cancellation_requested"}
      BY <1>t DEF Row, SameReplay
   <2> HIDE DEF row
   <2> QED BY <1>4, <2>1, <2>2
<1>6. ASSUME NEW j \in JobIds, NEW escaped, CancelWaiting(j, escaped)
      PROVE  TreeStep
   <2> DEFINE events == jobs[j].events \cup {"cancellation_requested", "cancelled"}
              own == [CancelRow(jobs[j]) EXCEPT !.events = events]
   <2>1. jobs[j].status = "waiting" /\ jobs[j].root = j
      BY <1>6 DEF CancelWaiting, TreeInv, TreeShape, IsRoot
   <2>2. jobs'[j] = own
      BY <1>6 DEF CancelWaiting
   <2>3. ASSUME NEW c \in JobIds, c # j
         PROVE  \/ jobs'[c] = jobs[c]
                \/ /\ jobs[c].status \in Queued \cup {"waiting"}
                   /\ jobs[c].root = j
                   /\ jobs'[c] = CancelRow(jobs[c])
                \/ /\ jobs[c].status = "running"
                   /\ jobs'[c] = [jobs[c] EXCEPT !.cancelRequested = TRUE]
      BY <1>6, <2>1, <2>3 DEF CancelWaiting
   <2>4. Moves(jobs[j], jobs'[j]) /\ jobs'[j].status = "cancelled" /\ TellsCancel(jobs'[j])
      <3>1. Moves(jobs[j], own) /\ own.status = "cancelled" /\ TellsCancel(own)
         BY <1>t, <2>1, CancelMoves
      <3> HIDE DEF own
      <3> QED BY <2>2, <3>1
   <2> HIDE DEF own
   <2>5. ASSUME NEW c \in JobIds, c # j
         PROVE  /\ Moves(jobs[c], jobs'[c])
                /\ \/ jobs'[c].status = jobs[c].status
                   \/ jobs'[c].status = "cancelled" /\ jobs[c].root = j
      <3>1. CASE jobs'[c] = jobs[c]
         BY <3>1, SameMoves
      <3>2. CASE jobs[c].status \in Queued \cup {"waiting"} /\ jobs[c].root = j
                 /\ jobs'[c] = CancelRow(jobs[c])
         BY <1>t, <3>2, CancelMoves
      <3>3. CASE jobs[c].status = "running" /\ jobs'[c] = [jobs[c] EXCEPT !.cancelRequested = TRUE]
         <4> DEFINE row == [jobs[c] EXCEPT !.cancelRequested = TRUE]
         <4>1. /\ row.status = jobs[c].status /\ row.attempts = jobs[c].attempts
               /\ row.type = jobs[c].type /\ row.root = jobs[c].root
               /\ row.completedAt = jobs[c].completedAt /\ row.lastError = jobs[c].lastError
               /\ row.result = jobs[c].result /\ row.runs = jobs[c].runs /\ SameReplay(jobs[c], row)
               /\ row.events = jobs[c].events
            BY <1>t DEF Row, SameReplay
         <4> HIDE DEF row
         <4>2. Edge(jobs[c], row)
            BY <3>3, <4>1, ColumnsMove
         <4> QED BY <3>3, <4>1, <4>2 DEF Moves, row
      <3> QED BY <2>3, <2>5, <3>1, <3>2, <3>3
   <2>6. \A c \in JobIds : Edge(jobs[c], jobs'[c]) /\ SameReplay(jobs[c], jobs'[c])
      BY <2>4, <2>5 DEF Moves
   <2>7. Replays(jobs, jobs')
      BY <2>6 DEF Replays
   <2>8. Inserts(jobs, jobs')
      BY <2>1, <2>5, <1>t DEF Inserts, TreeInv, TreeShape, Edge, Moves, Life!Successors
   <2>9. LeavesAnother(jobs, jobs')
      <3> SUFFICES ASSUME NEW r \in JobIds, NEW c \in Descendants(jobs, r),
                          jobs'[r].status = "waiting",
                          jobs[c].status \in Active, jobs'[c].status \in Terminal
                   PROVE  FALSE
         BY DEF LeavesAnother
      <3>1. c \in JobIds /\ c # r /\ jobs[c].root = r
         BY DEF Descendants
      <3>2. c # j
         BY <2>1, <3>1
      <3>3. jobs'[c].status # jobs[c].status
         OBVIOUS
      <3>4. r = j
         BY <2>5, <3>1, <3>2, <3>3
      <3> QED BY <2>4, <3>4
   <2>10. \A c \in JobIds : jobs'[c].status = jobs[c].status \/ jobs'[c].status = "cancelled"
      BY <2>4, <2>5
   <2>11. Cancels(jobs, jobs')
      <3> SUFFICES ASSUME NEW c \in JobIds, jobs[c].status # "cancelled", jobs'[c].status = "cancelled"
                   PROVE  \/ jobs'[c].events \cap {"cancelled", "lease_expired"} # {}
                          \/ jobs'[c].root # c /\ jobs'[jobs'[c].root].status = "cancelled"
         BY DEF Cancels, CancelExplained
      <3>1. CASE c = j
         BY <2>4, <3>1 DEF TellsCancel
      <3>2. CASE c # j
         <4>1. jobs[c].root = j /\ Moves(jobs[c], jobs'[c])
            BY <2>5, <3>2
         <4>2. jobs[c].status # "absent"
            BY <1>t, <2>1, <3>2, <4>1, NoRowColumns, ConstantsAssumption DEF ConstantsAssumption
         <4>3. jobs'[c].root = j
            BY <4>1, <4>2 DEF Moves, Edge
         <4> QED BY <2>4, <3>2, <4>3
      <3> QED BY <3>1, <3>2
   <2> QED BY <1>t, <2>6, <2>7, <2>8, <2>9, <2>10, <2>11, QuietStep
<1>7. ASSUME NEW s \in Slots, NEW j \in JobIds, Claim(s, j) \/ ClaimLost(s, j)
      PROVE  TreeStep
   <2> DEFINE row == Claimed(jobs[j], WorkerOf[s])
   <2>1. jobs' = [jobs EXCEPT ![j] = row] /\ jobs[j].status \in Queued
      BY <1>7 DEF Claim, ClaimLost, Claimable
   <2>2. Moves(jobs[j], row) /\ row.status = "running"
      BY <1>t, <2>1, ClaimedMoves
   <2> HIDE DEF row
   <2>3. row \in Row
      BY <1>t, <2>1
   <2> QED BY <2>1, <2>2, <2>3, OneRowStep
<1>8. ASSUME NEW j \in JobIds, NEW b, jobs[j].status # "absent",
             \/ jobs' = [jobs EXCEPT ![j].leaseExpired = b]
             \/ jobs' = [jobs EXCEPT ![j].due = b]
      PROVE  TreeStep
   <2> DEFINE row == jobs'[j]
   <2>1. jobs' = [jobs EXCEPT ![j] = row]
      BY <1>8, <1>t
   <2>2. /\ row.status = jobs[j].status /\ row.attempts = jobs[j].attempts
         /\ row.type = jobs[j].type /\ row.root = jobs[j].root
         /\ row.completedAt = jobs[j].completedAt /\ row.lastError = jobs[j].lastError
         /\ row.result = jobs[j].result /\ row.runs = jobs[j].runs /\ SameReplay(jobs[j], row)
         /\ row.events = jobs[j].events
      BY <1>8, <1>t DEF Row, SameReplay
   <2> HIDE DEF row
   <2> QED BY <1>4, <1>8, <2>1, <2>2
<1>9. ASSUME NEW s \in Slots, NEW kids \in SUBSET Fresh, NEW withResult \in BOOLEAN,
             Complete(s, kids, withResult)
      PROVE  TreeStep
   <2> DEFINE j == slots[s].job
              st == IF kids # {} /\ IsRoot(j) THEN "waiting" ELSE "completed"
              row == Completed(jobs[j], st, slots[s].attempts, withResult)
   <2>1. /\ Owns(s)
         /\ kids # {} => ChildType(jobs[j].type) # "none"
         /\ jobs[j].type # "demo" => withResult
         /\ Settle(j, row, kids)
      BY <1>9 DEF Complete
   <2>2. /\ j \in JobIds
         /\ jobs[j].status = "running"
         /\ GoodRow(jobs[j])
         /\ slots[s].attempts = jobs[j].attempts
      BY <2>1, OwnsFacts
   <2>3. st \in {"completed", "waiting"} /\ (st = "waiting" <=> kids # {} /\ IsRoot(j))
      OBVIOUS
   <2> HIDE DEF st
   <2>4. GoodRow(row)
      BY <2>2, <2>3, CompletedGood
   <2>5. Moves(jobs[j], row) /\ row.status = st
      BY <2>1, <2>2, <2>3, CompletedMoves
   <2> HIDE DEF row, j
   <2>6. TellsCancel(row)
      BY <2>3, <2>5 DEF TellsCancel
   <2> QED BY <2>6, <1>t, <2>1, <2>2, <2>3, <2>4, <2>5, SettleStep DEF GoodRow
<1>10. ASSUME NEW s \in Slots, NEW kind \in ErrorKinds, FailJob(s, kind)
       PROVE  TreeStep
   <2> DEFINE j == slots[s].job
              row == Failed(jobs[j], kind, slots[s].attempts)
   <2>1. Owns(s) /\ Settle(j, row, {})
      BY <1>10 DEF FailJob
   <2>2. /\ j \in JobIds
         /\ jobs[j].status = "running"
         /\ GoodRow(jobs[j])
         /\ slots[s].attempts = jobs[j].attempts
      BY <2>1, OwnsFacts
   <2>3. GoodRow(row)
      BY <2>2, FailedGood
   <2>4. Moves(jobs[j], row) /\ row.status \in Terminal \cup {"retry_scheduled"} /\ TellsCancel(row)
      BY <2>2, FailedMoves
   <2>5. {} \in SUBSET Fresh
      OBVIOUS
   <2> HIDE DEF row, j
   <2>6. row.status # "waiting"
      BY <2>4
   <2> QED BY <1>t, <2>1, <2>2, <2>3, <2>4, <2>5, <2>6, SettleStep DEF GoodRow
<1>11. ASSUME NEW batch \in SUBSET Expired, ReclaimExpired(batch)
       PROVE  TreeStep
   <2> DEFINE F(j) == IF j \in batch THEN Reclaimed(jobs[j]) ELSE jobs[j]
              table == [j \in JobIds |-> F(j)]
              rs == {table[j].root : j \in {c \in batch : table[c].status \in Terminal /\ ~ IsRoot(c)}}
   <2>1. PICK missed \in SUBSET Missable(table, rs) : jobs' = FinalizeRoots(table, rs, missed)
      BY <1>11 DEF ReclaimExpired
   <2>2. ASSUME NEW j \in batch
         PROVE  /\ j \in JobIds
                /\ jobs[j].status = "running"
                /\ Reclaimed(jobs[j]) \in Row
                /\ Moves(jobs[j], Reclaimed(jobs[j]))
                /\ Reclaimed(jobs[j]).status \in Terminal \cup {"pending"}
                /\ Reclaimed(jobs[j]).root = jobs[j].root
                /\ TellsCancel(Reclaimed(jobs[j]))
      <3>1. j \in JobIds /\ jobs[j].status = "running"
         BY DEF Expired
      <3>2. /\ Moves(jobs[j], Reclaimed(jobs[j]))
            /\ Reclaimed(jobs[j]).status \in Terminal \cup {"pending"}
            /\ TellsCancel(Reclaimed(jobs[j]))
         BY <1>t, <3>1, ReclaimedMoves
      <3>3. Reclaimed(jobs[j]) \in Row
         BY <1>t, <3>1, ReclaimedGood DEF GoodRow
      <3> QED BY <3>1, <3>2, <3>3 DEF Moves, Edge
   <2>3. /\ table \in [JobIds -> Row]
         /\ \A j \in batch : table[j] = Reclaimed(jobs[j])
         /\ \A j \in JobIds \ batch : table[j] = jobs[j]
      BY <1>t, <2>2
   <2>4. \A c \in batch : table[c].status \in Terminal /\ ~ IsRoot(c) => table[c].root \in rs
      OBVIOUS
   <2> HIDE DEF F, table, rs
   <2>5. \A j \in JobIds : Moves(jobs[j], table[j])
      BY <2>2, <2>3, SameMoves
   <2>6. \A j \in JobIds : table[j].status = "waiting" => table[j] = jobs[j]
      BY <2>2, <2>3
   <2>7. \A j \in JobIds : table[j].status = "waiting" => table[j].root = j
      BY <2>6 DEF TreeInv, TreeShape, IsRoot
   <2>8. \A j \in JobIds : jobs[j].status = "waiting" => table[j] = jobs[j]
      BY <2>2, <2>3
   <2>9. \A c \in JobIds : jobs[c].status \in Active /\ table[c].status \in Terminal
                           /\ jobs[c].root # c => jobs[c].root \in rs
      BY <2>2, <2>3, <2>4 DEF IsRoot
   <2>10. Inserts(jobs, table)
      BY <2>2, <2>3 DEF Inserts
   <2>11. \A j \in JobIds : jobs[j].status # "cancelled" => TellsCancel(table[j])
      BY <2>2, <2>3 DEF TellsCancel
   <2> QED BY <1>t, <2>1, <2>3, <2>5, <2>6, <2>7, <2>8, <2>9, <2>10, <2>11, FinalizeStep
<1>12. ASSUME NEW s \in Slots, SlotNext(s)
       PROVE  TreeStep
   <2>1. CASE Heartbeat(s)
      BY <1>8, <2>1, OwnsFacts DEF Heartbeat
   <2>2. CASE HeartbeatNotOwned(s) \/ HeartbeatError(s) \/ LeaseLost(s) \/ StoreError(s)
      BY <1>same, <2>2 DEF HeartbeatNotOwned, HeartbeatError, GivesUp, LeaseLost, StoreError
   <2> QED BY <1>7, <1>9, <1>10, <1>12, <2>1, <2>2
           DEF SlotNext, Finish, HandlerFails, ReportCancelled, ShutdownTimeout
<1>13. ASSUME ClientNext
       PROVE  TreeStep
   BY <1>1, <1>2, <1>3, <1>5, <1>6, <1>13 DEF ClientNext, Retry
<1>14. ASSUME ClockNext
       PROVE  TreeStep
   BY <1>8, <1>14 DEF ClockNext, LeaseRunsOut, BecomesDue
<1>15. CASE ProcessNext \/ Quiescent \/ UNCHANGED vars
   BY <1>same, <1>15 DEF ProcessNext, Shutdown, Crash, Restart, Quiescent, vars
<1> QED BY <1>11, <1>12, <1>13, <1>14, <1>15 DEF Next, Recovers

(***************************************************************************)
(* The invariant of the trees.                                             *)
(***************************************************************************)

LEMMA TreeInvInit == Init => TreeInv
<1> SUFFICES ASSUME Init PROVE TreeInv
   OBVIOUS
<1>1. \A j \in JobIds : jobs[j] = NoRow
   BY DEF Init
<1>2. EndInv(NoRow)
   <2>1. /\ NoRow.status = "absent" /\ NoRow.completedAt = FALSE /\ NoRow.events = {}
         /\ NoRow.lastError = "none" /\ NoRow.result = FALSE /\ NoRow.type = "demo"
      BY DEF NoRow, NewRow
   <2> QED BY <2>1 DEF EndInv, Explained
<1>3. \A j \in JobIds : EndInv(jobs[j]) /\ CancelExplained(jobs, j) /\ TreeShape(j)
   BY <1>1, <1>2, NoRowColumns DEF TreeShape, CancelExplained
<1>4. \A j \in JobIds : Descendants(jobs, j) = {}
   BY <1>1, NoRowColumns, ConstantsAssumption DEF ConstantsAssumption, Descendants
<1>5. FinalizedRootsAreFinal
   BY <1>4 DEF FinalizedRootsAreFinal
<1>6. ScanNeverStuck
   BY <1>1, NoRowColumns DEF ScanNeverStuck
<1>7. ReplaysPaired
   BY <1>1, NoRowColumns, ConstantsAssumption DEF ConstantsAssumption, ReplaysPaired
<1> QED BY <1>3, <1>5, <1>6, <1>7 DEF TreeInv

(* What a step of the trees leaves alone: a row stays in the tree of its   *)
(* root, a job that has ended keeps the columns that tell how, and a root  *)
(* that waits or has ended never runs again.                               *)
LEMMA TreeStepKeeps ==
  ASSUME LeaseInv, TreeInv, [Next]_vars, NEW j \in JobIds, jobs[j].status # "absent"
  PROVE  /\ jobs'[j].status # "absent"
         /\ jobs'[j].root = jobs[j].root
         /\ jobs'[j].type = jobs[j].type
         /\ jobs[j].status \in Terminal => /\ jobs'[j].status = jobs[j].status
                                           /\ jobs'[j].events = jobs[j].events
                                           /\ jobs'[j].lastError = jobs[j].lastError
         /\ jobs[j].status = "waiting" => jobs'[j].status \in Terminal \cup {"waiting"}
<1>1. Edge(jobs[j], jobs'[j])
   BY TreeStepHolds DEF TreeStep
<1>2. jobs[j] \in Row
   BY DEF LeaseInv, TypeOK
<1>3. jobs[j].status \in Terminal => /\ jobs'[j].status = jobs[j].status
                                     /\ jobs'[j].events = jobs[j].events
                                     /\ jobs'[j].lastError = jobs[j].lastError
   BY <1>2, TerminalStep DEF Row
<1>4. jobs'[j].status # "absent" /\ jobs'[j].root = jobs[j].root /\ jobs'[j].type = jobs[j].type
   BY <1>1 DEF Edge
<1>5. jobs[j].status = "waiting" => jobs'[j].status \in Terminal \cup {"waiting"}
   BY <1>1 DEF Edge, Life!Successors
<1> QED BY <1>3, <1>4, <1>5

LEMMA TreeShapeStep ==
  ASSUME LeaseInv, TreeInv, [Next]_vars, NEW j \in JobIds
  PROVE  TreeShape(j)'
<1>1. TreeStep
   BY TreeStepHolds
<1>2. ASSUME NEW r \in JobIds, jobs[r].root = r
      PROVE  jobs[r].status # "absent" /\ jobs'[r].root = r
   <2>1. jobs[r].status # "absent"
      BY <1>2, NoRowColumns, ConstantsAssumption DEF ConstantsAssumption, TreeInv, TreeShape
   <2> QED BY <1>2, <2>1, TreeStepKeeps
<1>3. jobs'[j].status = "absent" => jobs'[j] = NoRow
   BY <1>1 DEF TreeStep, Edge, TreeInv, TreeShape
<1>4. jobs'[j].status = "waiting" => jobs'[j].root = j
   <2>1. CASE jobs[j].status = "waiting"
      BY <2>1, TreeStepKeeps DEF TreeInv, TreeShape, IsRoot
   <2>2. CASE jobs[j].status # "waiting"
      BY <1>1, <2>2 DEF TreeStep, StartsToWait
   <2> QED BY <2>1, <2>2
<1>5. ASSUME jobs'[j].status # "absent"
      PROVE  /\ jobs'[j].root \in JobIds
             /\ jobs'[jobs'[j].root].root = jobs'[j].root
             /\ jobs'[j].root # j => jobs'[jobs'[j].root].status \in Terminal \cup {"waiting"}
   <2>1. ASSUME NEW p \in JobIds, jobs[p].status # "absent"
         PROVE  /\ jobs[p].root \in JobIds
                /\ jobs[jobs[p].root].root = jobs[p].root
                /\ jobs[p].root # p => jobs[jobs[p].root].status \in Terminal \cup {"waiting"}
      BY <2>1 DEF TreeInv, TreeShape, IsRoot
   <2>2. ASSUME NEW r \in JobIds, jobs[r].root = r, jobs[r].status \in Terminal \cup {"waiting"}
         PROVE  jobs'[r].status \in Terminal \cup {"waiting"}
      BY <1>2, <2>2, TreeStepKeeps
   <2>3. CASE jobs[j].status # "absent"
      <3>1. jobs'[j].root = jobs[j].root
         BY <2>3, TreeStepKeeps
      <3> QED BY <1>2, <2>1, <2>2, <2>3, <3>1
   <2>4. CASE jobs[j].status = "absent" /\ jobs'[j].root = j
      BY <2>4
   <2>5. CASE jobs[j].status = "absent" /\ jobs'[j].root # j
      <3>1. PICK p \in JobIds : /\ jobs[p].status = "running"
                                /\ jobs'[j].root = jobs[p].root
                                /\ jobs[p].root = p => jobs'[p].status = "waiting"
         BY <1>1, <1>5, <2>5 DEF TreeStep, Inserts
      <3> QED BY <1>2, <2>1, <2>2, <3>1
   <2> QED BY <2>3, <2>4, <2>5
<1> QED BY <1>3, <1>4, <1>5 DEF TreeShape, IsRoot

(* A closed root gets no new descendants: only a descendant that runs      *)
(* could insert one.                                                       *)
LEMMA FinalizedRootsStep ==
  ASSUME LeaseInv, TreeInv, [Next]_vars
  PROVE  FinalizedRootsAreFinal'
<1>1. TreeStep
   BY TreeStepHolds
<1> SUFFICES ASSUME NEW r \in JobIds, NEW c \in Descendants(jobs', r),
                    jobs'[r].status \in {"completed", "failed", "dead_lettered"}
             PROVE  /\ jobs'[c].status \in Terminal
                    /\ jobs'[r].status = "completed" => jobs'[c].status = "completed"
   BY DEF FinalizedRootsAreFinal
<1>2. c \in JobIds /\ c # r /\ jobs'[c].root = r
   BY DEF Descendants
<1>3. jobs'[c].status \in Status \ {"absent"}
   <2>1. TreeShape(c)'
      BY <1>2, TreeShapeStep
   <2>2. jobs'[c] \in Row
      BY <1>1, <1>2 DEF TreeStep
   <2>3. jobs'[c].status \in Status
      BY <2>2 DEF Row
   <2>4. jobs'[c].status # "absent"
      BY <1>2, <2>1, NoRowColumns, ConstantsAssumption DEF ConstantsAssumption, TreeShape
   <2> QED BY <2>3, <2>4
<1>4. jobs[r].status \in {"completed", "failed", "dead_lettered", "running", "waiting"}
   <2>1. Edge(jobs[r], jobs'[r])
      BY <1>1 DEF TreeStep
   <2> QED BY <2>1 DEF Edge, Life!Successors
<1>5. ASSUME NEW p \in JobIds, jobs[p].root = r, p # r, jobs[p].status # "absent"
      PROVE  /\ jobs[r].status # "running"
             /\ jobs[r].status \in {"completed", "failed", "dead_lettered"} =>
                   jobs[p].status \in Terminal
             /\ jobs[r].status = "completed" => jobs[p].status = "completed"
   <2>1. jobs[r].status # "running"
      BY <1>5 DEF TreeInv, TreeShape
   <2>2. p \in Descendants(jobs, r)
      BY <1>5 DEF Descendants
   <2> QED BY <2>1, <2>2 DEF TreeInv, FinalizedRootsAreFinal
<1>6. CASE jobs[r].status = "waiting"
   <2>1. ~ HasActive(jobs', r) /\ jobs'[r].status = Outcome(jobs', r)
      BY <1>1, <1>6 DEF TreeStep, StopsWaiting
   <2>2. jobs'[c].status \notin Active
      BY <2>1 DEF HasActive
   <2>3. jobs'[r].status = "completed" => jobs'[c].status \notin {"dead_lettered", "failed", "cancelled"}
      BY <2>1, OutcomeEnds
   <2> QED BY <1>3, <2>2, <2>3
<1>7. CASE jobs[r].status # "waiting" /\ jobs[c].status # "absent"
   <2>1. jobs[c].root = r
      BY <1>2, <1>7, TreeStepKeeps
   <2>2. /\ jobs[r].status \in {"completed", "failed", "dead_lettered"}
         /\ jobs[c].status \in Terminal
         /\ jobs[r].status = "completed" => jobs[c].status = "completed"
      BY <1>2, <1>4, <1>5, <1>7, <2>1
   <2>3. jobs'[c].status = jobs[c].status /\ jobs'[r].status = jobs[r].status
      BY <1>2, <2>2, TreeStepKeeps
   <2> QED BY <2>2, <2>3
<1>8. CASE jobs[r].status # "waiting" /\ jobs[c].status = "absent"
   <2>1. PICK p \in JobIds : /\ jobs[p].status = "running"
                             /\ jobs[p].root = r
                             /\ jobs[p].root = p => jobs'[p].status = "waiting"
      BY <1>1, <1>2, <1>3, <1>8 DEF TreeStep, Inserts
   <2>2. p # r
      BY <2>1
   <2> QED BY <1>4, <1>5, <1>8, <2>1, <2>2
<1> QED BY <1>6, <1>7, <1>8

(* The last active descendant of a scan does not leave it waiting. *)
LEMMA ScanStep ==
  ASSUME LeaseInv, TreeInv, [Next]_vars
  PROVE  ScanNeverStuck'
<1>1. TreeStep
   BY TreeStepHolds
<1> SUFFICES ASSUME NEW r \in JobIds, jobs'[r].status = "waiting",
                    jobs'[r].type = "dependency_update_scan",
                    ~ HasActive(jobs', r)
             PROVE  \E c \in Descendants(jobs', r) : CancelledInQueue(jobs'[c])
   BY DEF ScanNeverStuck
<1>2. jobs[r].status = "waiting"
   BY <1>1 DEF TreeStep, StartsToWait
<1>3. jobs[r].type = "dependency_update_scan"
   BY <1>2, TreeStepKeeps
<1>4. ASSUME NEW c \in Descendants(jobs, r)
      PROVE  c \in JobIds /\ c \in Descendants(jobs', r) /\ jobs[c].status # "absent"
   <2>1. c \in JobIds /\ c # r /\ jobs[c].root = r
      BY DEF Descendants
   <2>2. jobs[c].status # "absent"
      BY <2>1, NoRowColumns, ConstantsAssumption DEF ConstantsAssumption, TreeInv, TreeShape
   <2>3. jobs'[c].root = r
      BY <2>1, <2>2, TreeStepKeeps
   <2> QED BY <2>1, <2>2, <2>3 DEF Descendants
<1>5. CASE HasActive(jobs, r)
   <2>1. PICK c \in Descendants(jobs, r) : jobs[c].status \in Active
      BY <1>5 DEF HasActive
   <2>2. jobs'[c].status \notin Active
      BY <1>4 DEF HasActive
   <2>3. jobs'[c].status \in Terminal
      <3>1. jobs'[c].status # "absent"
         BY <1>4, TreeStepKeeps
      <3>2. jobs'[c] \in Row
         BY <1>1, <1>4 DEF TreeStep
      <3>3. jobs'[c].status \in Status
         BY <3>2 DEF Row
      <3> QED BY <2>2, <3>1, <3>3
   <2>4. CancelledInQueue(jobs'[c])
      BY <1>1, <2>1, <2>3 DEF TreeStep, LeavesAnother
   <2> QED BY <1>4, <2>4
<1>6. CASE ~ HasActive(jobs, r)
   <2>1. PICK c \in Descendants(jobs, r) : CancelledInQueue(jobs[c])
      BY <1>2, <1>3, <1>6 DEF TreeInv, ScanNeverStuck
   <2>2. CancelledInQueue(jobs'[c])
      BY <1>4, <2>1, TreeStepKeeps DEF CancelledInQueue
   <2> QED BY <1>4, <2>2
<1> QED BY <1>5, <1>6

LEMMA ReplaysStep ==
  ASSUME LeaseInv, TreeInv, [Next]_vars
  PROVE  ReplaysPaired'
<1>1. Replays(jobs, jobs') /\ ReplaysPaired
   BY TreeStepHolds DEF TreeStep, TreeInv
<1>2. CASE \A j \in JobIds : SameReplay(jobs[j], jobs'[j])
   BY <1>1, <1>2 DEF SameReplay, ReplaysPaired
<1>3. ASSUME NEW src \in JobIds, NEW copy \in JobIds,
             src # copy, jobs[src].replayedAs = NoJob, jobs[copy] = NoRow,
             jobs'[src].replayedAs = copy, jobs'[src].replayedFrom = jobs[src].replayedFrom,
             jobs'[copy].replayedFrom = src, jobs'[copy].replayedAs = NoJob,
             \A j \in JobIds \ {src, copy} : SameReplay(jobs[j], jobs'[j])
      PROVE  ReplaysPaired'
   <2>1. jobs[copy].replayedAs = NoJob /\ jobs[copy].replayedFrom = NoJob /\ NoJob \notin JobIds
      BY <1>3, NoRowColumns, ConstantsAssumption DEF ConstantsAssumption
   <2>2. \A j \in JobIds : /\ j # src => jobs'[j].replayedAs = jobs[j].replayedAs
                           /\ j # copy => jobs'[j].replayedFrom = jobs[j].replayedFrom
      BY <1>3, <2>1 DEF SameReplay
   <2> QED BY <1>1, <1>3, <2>1, <2>2 DEF ReplaysPaired
<1> QED BY <1>1, <1>2, <1>3 DEF Replays

(* A cancelled job goes on telling why: its row and a cancelled root stay. *)
LEMMA CancelsStep ==
  ASSUME LeaseInv, TreeInv, [Next]_vars, NEW j \in JobIds
  PROVE  CancelExplained(jobs', j)
<1>1. CASE jobs[j].status # "cancelled"
   BY <1>1, TreeStepHolds DEF TreeStep, Cancels
<1>2. CASE jobs[j].status = "cancelled"
   <2>1. jobs'[j].events = jobs[j].events /\ jobs'[j].root = jobs[j].root
      BY <1>2, TreeStepKeeps
   <2>2. CancelExplained(jobs, j) /\ jobs[j].root \in JobIds
      BY <1>2 DEF TreeInv, TreeShape
   <2>3. jobs[jobs[j].root].status = "cancelled" => jobs'[jobs[j].root].status = "cancelled"
      BY <2>2, TreeStepKeeps
   <2> QED BY <1>2, <2>1, <2>2, <2>3 DEF CancelExplained
<1> QED BY <1>1, <1>2

(* Every step preserves the invariant of the trees. *)
LEMMA TreeInvStep == LeaseInv /\ TreeInv /\ [Next]_vars => TreeInv'
<1> SUFFICES ASSUME LeaseInv, TreeInv, [Next]_vars PROVE TreeInv'
   OBVIOUS
<1>1. \A j \in JobIds : EndInv(jobs'[j])
   BY TreeStepHolds DEF TreeStep, Edge, TreeInv
<1>2. \A j \in JobIds : TreeShape(j)'
   BY TreeShapeStep
<1>3. \A j \in JobIds : CancelExplained(jobs', j)
   BY CancelsStep
<1> QED BY <1>1, <1>2, <1>3, FinalizedRootsStep, ScanStep, ReplaysStep DEF TreeInv

(***************************************************************************)
(* The theorems.                                                           *)
(***************************************************************************)

(* The invariant of the trees of jobs holds in every reachable state. *)
THEOREM TreeInvHolds == Spec => []TreeInv
BY LeaseInvHolds, TreeInvInit, TreeInvStep, PTL DEF Spec

(* Status, completed_at, last error, attempts, events and result of a job  *)
(* tell alike how it ended, whichever transaction ended it: in particular  *)
(* a completed job has an error exactly if an earlier attempt was spoiled, *)
(* a result is there for every completed job and for every scan that       *)
(* waited, and a cancelled job has an event of its own or a cancelled root.*)
THEOREM EndIsExplainedHolds == Spec => []EndIsExplained
<1>1. TreeInv => EndIsExplained
   BY DEF TreeInv, EndInv, EndIsExplained
<1> QED BY <1>1, TreeInvHolds, PTL

(* finalizeRoot closes a root for good: no descendant is left to run, none *)
(* is inserted later, and "completed" means that all of them completed.    *)
THEOREM FinalizedRootsAreFinalHolds == Spec => []FinalizedRootsAreFinal
<1>1. TreeInv => FinalizedRootsAreFinal
   BY DEF TreeInv
<1> QED BY <1>1, TreeInvHolds, PTL

(* An update scan waits only while one of its checks can still finalize    *)
(* it, unless one of them was cancelled in the queue.                      *)
THEOREM ScanNeverStuckHolds == Spec => []ScanNeverStuck
<1>1. TreeInv => ScanNeverStuck
   BY DEF TreeInv
<1> QED BY <1>1, TreeInvHolds, PTL

(* A DLQ entry is replayed at most once, and entry and replay name each    *)
(* other.                                                                  *)
THEOREM ReplaysPairedHolds == Spec => []ReplaysPaired
<1>1. TreeInv => ReplaysPaired
   BY DEF TreeInv
<1> QED BY <1>1, TreeInvHolds, PTL

(* The service implements the life cycle of JobLifecycle: whatever         *)
(* transactions move several jobs at once, every job goes along one edge   *)
(* at a time and an attempt is counted exactly when it starts to run.      *)
THEOREM LifecycleImplemented == Spec => ImplementsLifecycle
<1>1. Init => Life!LInit
   <2> SUFFICES ASSUME Init PROVE Life!LInit
      OBVIOUS
   <2>1. \A j \in JobIds : jobs[j].status = "absent" /\ jobs[j].attempts = 0
      BY NoRowColumns DEF Init
   <2> QED BY <2>1 DEF Life!LInit
<1>2. LeaseInv /\ TreeInv /\ [Next]_vars => [Life!LNext]_(Life!lvars)
   <2> SUFFICES ASSUME LeaseInv, TreeInv, [Next]_vars
                PROVE  Life!LNext
      OBVIOUS
   <2>1. TreeStep
      BY TreeStepHolds
   <2>2. \A j \in JobIds : jobs'[j].status \in Status /\ jobs'[j].attempts \in Nat
      <3>1. \A j \in JobIds : jobs'[j] \in Row
         BY <2>1 DEF TreeStep
      <3> QED BY <3>1, ConstantsAssumption DEF ConstantsAssumption, Row
   <2>3. ASSUME NEW j \in JobIds
         PROVE  Life!Moves(j) \/ Life!Stays(j)
      <3>1. Edge(jobs[j], jobs'[j])
         BY <2>1 DEF TreeStep
      <3> QED BY <3>1 DEF Edge, Life!Moves, Life!Stays
   <2>4. Life!Status = Status
      BY DEF Life!Status, Life!Active, Life!Queued, Life!Terminal
   <2> QED BY <2>2, <2>3, <2>4 DEF Life!LNext
<1> QED BY <1>1, <1>2, LeaseInvHolds, TreeInvHolds, PTL DEF Spec, ImplementsLifecycle, Life!Lifecycle

=============================================================================
