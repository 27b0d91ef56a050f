-------------------------- MODULE RootFinalization --------------------------
(***************************************************************************)
(* The transactions that end a child (Complete, Fail and ReclaimExpired    *)
(* with finalizeRoot) and the one that cancels a waiting root, statement   *)
(* by statement at PostgreSQL's READ COMMITTED level: every statement sees *)
(* what is committed when it starts and the transaction's own writes, an   *)
(* UPDATE or SELECT ... FOR UPDATE waits for the lock of a row and then    *)
(* looks at the row again, and of two transactions that wait for each      *)
(* other one is aborted.                                                   *)
(*                                                                         *)
(* One root that waits, its children, and at most one transaction at a     *)
(* time for each child: fencing between the claims of one job is the       *)
(* subject of JobService.  ReclaimExpired handles a batch of children in   *)
(* one transaction; here every child of the batch has one of its own.      *)
(***************************************************************************)
EXTENDS Integers, FiniteSets, JobStatus

CONSTANTS
    Root,           \* the waiting root
    Kids,           \* its possible descendants
    FirstKids,      \* those that exist when the root starts to wait, by the type of the root
    Canceller,      \* the transaction of Cancel(Root)
    NoTx,           \* nobody holds the row lock
    RootTypes,      \* the types the root may have
    WithCancel,     \* whether somebody cancels the root
    MaxRetries,     \* bound on the failed attempts of all children together
    MaxAborts       \* bound on transactions that fail

ASSUME RootFinalizationAssumption ==
    /\ Root \notin Kids
    /\ Canceller \notin Kids
    /\ NoTx \notin Kids \cup {Canceller}
    /\ RootTypes \subseteq {"dependency_audit", "dependency_update_scan"}
    /\ FirstKids \in [RootTypes -> (SUBSET Kids) \ {{}}]
    /\ WithCancel \in BOOLEAN
    /\ MaxRetries \in Nat
    /\ MaxAborts \in Nat

Rows == Kids \cup {Root}

(* The transaction that ends a child is named after the child. *)
Txs == Kids \cup {Canceller}

VARIABLES
    status,         \* committed status of every row
    requested,      \* rows whose cancel_requested_at is committed
    lock,           \* who holds the lock of a row
    mine,           \* uncommitted statuses written by each transaction
    marks,          \* rows the canceller has set cancel_requested_at in
    todo,           \* rows the canceller's current UPDATE has matched
    pc,             \* next statement of each transaction
    closing,        \* status finalizeRoot has computed for the root
    rootType,       \* type of the root: it never changes
    attempted,      \* children with attempts > 0
    retries, aborts

vars == <<status, requested, lock, mine, marks, todo, pc, closing, rootType, attempted,
          retries, aborts>>

locals == <<marks, todo, closing>>

counts == <<rootType, attempted, retries, aborts>>

Unwritten == "unwritten"

NoWrites == [r \in Rows |-> Unwritten]

(* What a statement of t sees when it starts now. *)
View(t) == [r \in Rows |-> IF mine[t][r] = Unwritten THEN status[r] ELSE mine[t][r]]

(* The root has just begun to wait. *)
FirstStatus ==
    [r \in Rows |-> IF r = Root THEN "waiting"
                    ELSE IF r \in FirstKids[rootType] THEN "pending" ELSE "absent"]

Init ==
    /\ rootType \in RootTypes
    /\ status = FirstStatus
    /\ requested = {}
    /\ lock = [r \in Rows |-> NoTx]
    /\ mine = [t \in Txs |-> NoWrites]
    /\ marks = {}
    /\ todo = {}
    /\ pc = [t \in Txs |-> "begin"]
    /\ closing = [k \in Kids |-> "none"]
    /\ attempted = {}
    /\ retries = 0
    /\ aborts = 0

CanLock(t, r) == lock[r] \in {NoTx, t}

-----------------------------------------------------------------------------
(***************************************************************************)
(* Claim: one statement, SKIP LOCKED, which also counts the attempt.       *)
(***************************************************************************)
Claim(k) ==
    /\ status[k] \in Queued
    /\ lock[k] = NoTx
    /\ status' = [status EXCEPT ![k] = "running"]
    /\ attempted' = attempted \cup {k}
    /\ UNCHANGED <<requested, lock, mine, pc, locals, rootType, retries, aborts>>

(***************************************************************************)
(* Complete, Fail and ReclaimExpired for child k.                          *)
(***************************************************************************)

(* Defect: the finalizers of an update scan do not lock the root either. *)
AfterUpdate_NoRootLock(st) ==
    CASE st \notin Terminal                                       -> "commit"
      [] st = "completed" /\ rootType = "dependency_audit"         -> "insert"
      [] OTHER                                                     -> "count"

(* Where the transaction goes on once the row of the child is written. *)
AfterUpdate(st) ==
    CASE st \notin Terminal                                       -> "commit"
      [] st = "completed" /\ rootType = "dependency_audit"         -> "insert"
      [] st \in Terminal /\ rootType = "dependency_update_scan"    -> "lock_root"
      [] OTHER                                                     -> "count"

(* The fenced UPDATE of the child's row. *)
UpdateKid(k, st) ==
    /\ pc[k] = "begin"
    /\ CanLock(k, k)
    /\ status[k] = "running"
    /\ st \in Queued => retries < MaxRetries
    /\ lock' = [lock EXCEPT ![k] = k]
    /\ mine' = [mine EXCEPT ![k][k] = st]
    /\ pc' = [pc EXCEPT ![k] = AfterUpdate(st)]
    /\ retries' = IF st \in Queued THEN retries + 1 ELSE retries
    /\ UNCHANGED <<status, requested, locals, rootType, attempted, aborts>>

(* The INSERTs of an audited package: its result and its children.  The    *)
(* foreign key of audit_results makes them wait for a SELECT FOR UPDATE of *)
(* the root, not for an UPDATE of its status.                              *)
InsertResult(k, new) ==
    /\ pc[k] = "insert"
    /\ lock[Root] # Canceller
    /\ \A c \in new : status[c] = "absent" /\ \A t \in Txs : mine[t][c] = Unwritten
    /\ mine' = [mine EXCEPT ![k] = [r \in Rows |-> IF r \in new THEN "pending" ELSE mine[k][r]]]
    /\ pc' = [pc EXCEPT ![k] = "count"]
    /\ UNCHANGED <<status, requested, lock, locals, counts>>

(* The transactions that hold the root FOR KEY SHARE since their INSERT. *)
KeyShares ==
    {k \in Kids : /\ rootType = "dependency_audit"
                  /\ mine[k][k] = "completed"
                  /\ pc[k] # "insert"}

(* SELECT id FROM jobs WHERE id=root FOR UPDATE: update scans only. *)
LockRoot(k) ==
    /\ pc[k] = "lock_root"
    /\ CanLock(k, Root)
    /\ lock' = [lock EXCEPT ![Root] = k]
    /\ pc' = [pc EXCEPT ![k] = "count"]
    /\ UNCHANGED <<status, requested, mine, locals, counts>>

(* Defect: children that wait for a retry are not counted. *)
CountActive_NotRetries(k) ==
    /\ pc[k] = "count"
    /\ pc' = [pc EXCEPT ![k] =
                IF \E c \in Kids : View(k)[c] \in {"pending", "running"} THEN "commit" ELSE "tally"]
    /\ UNCHANGED <<status, requested, lock, mine, locals, counts>>

(* SELECT COUNT of the active descendants. *)
CountActive(k) ==
    /\ pc[k] = "count"
    /\ pc' = [pc EXCEPT ![k] =
                IF \E c \in Kids : View(k)[c] \in Active THEN "commit" ELSE "tally"]
    /\ UNCHANGED <<status, requested, lock, mine, locals, counts>>

RootOutcome(view) ==
    LET ends == {view[c] : c \in Kids}
    IN  IF "dead_lettered" \in ends THEN "dead_lettered"
        ELSE IF ends \cap {"failed", "cancelled"} # {} THEN "failed"
        ELSE "completed"

(* SELECT COUNT of the failed and of the dead-lettered descendants. *)
Tally(k) ==
    /\ pc[k] = "tally"
    /\ closing' = [closing EXCEPT ![k] = RootOutcome(View(k))]
    /\ pc' = [pc EXCEPT ![k] = "close"]
    /\ UNCHANGED <<status, requested, lock, mine, marks, todo, counts>>

(* Defect: the UPDATE of the root does not ask for status='waiting'. *)
CloseRoot_AnyStatus(k) ==
    /\ pc[k] = "close"
    /\ CanLock(k, Root)
    /\ mine' = [mine EXCEPT ![k][Root] = closing[k]]
    /\ lock' = [lock EXCEPT ![Root] = k]
    /\ pc' = [pc EXCEPT ![k] = "commit"]
    /\ UNCHANGED <<status, requested, locals, counts>>

(* UPDATE of the root WHERE status='waiting'; a root that no longer waits  *)
(* is neither changed nor locked.                                          *)
CloseRoot(k) ==
    /\ pc[k] = "close"
    /\ CanLock(k, Root)
    /\ IF status[Root] = "waiting"
       THEN /\ mine' = [mine EXCEPT ![k][Root] = closing[k]]
            /\ lock' = [lock EXCEPT ![Root] = k]
       ELSE UNCHANGED <<mine, lock>>
    /\ pc' = [pc EXCEPT ![k] = "commit"]
    /\ UNCHANGED <<status, requested, locals, counts>>

(* What is left of transaction t when it has ended. *)
Ends(t) ==
    /\ lock' = [r \in Rows |-> IF lock[r] = t THEN NoTx ELSE lock[r]]
    /\ mine' = [mine EXCEPT ![t] = NoWrites]

CommitKid(k) ==
    /\ pc[k] = "commit"
    /\ status' = View(k)
    /\ Ends(k)
    /\ pc' = [pc EXCEPT ![k] = "begin"]
    /\ closing' = [closing EXCEPT ![k] = "none"]
    /\ UNCHANGED <<requested, marks, todo, counts>>

(* The transaction fails and is rolled back: the child stays running until *)
(* its lease expires and ReclaimExpired tries again.                       *)
RollBackKid(k) ==
    /\ pc[k] # "begin"
    /\ Ends(k)
    /\ pc' = [pc EXCEPT ![k] = "begin"]
    /\ closing' = [closing EXCEPT ![k] = "none"]
    /\ UNCHANGED <<status, requested, marks, todo, rootType, attempted, retries>>

AbortKid(k) ==
    /\ aborts < MaxAborts
    /\ aborts' = aborts + 1
    /\ RollBackKid(k)

-----------------------------------------------------------------------------
(***************************************************************************)
(* Cancel(Root).                                                           *)
(***************************************************************************)

(* SELECT ... FROM jobs WHERE id=root FOR UPDATE and the switch on status. *)
CancelLock ==
    /\ WithCancel
    /\ pc[Canceller] = "begin"
    /\ CanLock(Canceller, Root)
    /\ KeyShares = {}
    /\ IF status[Root] = "waiting"
       THEN /\ lock' = [lock EXCEPT ![Root] = Canceller]
            /\ pc' = [pc EXCEPT ![Canceller] = "match_queued"]
       ELSE /\ pc' = [pc EXCEPT ![Canceller] = "done"]
            /\ UNCHANGED lock
    /\ UNCHANGED <<status, requested, mine, locals, counts>>

(* Each of the two UPDATEs first matches rows in its snapshot ...          *)
CancelMatch(from, statuses, to) ==
    /\ pc[Canceller] = from
    /\ todo' = {r \in Rows : View(Canceller)[r] \in statuses}
    /\ pc' = [pc EXCEPT ![Canceller] = to]
    /\ UNCHANGED <<status, requested, lock, mine, marks, closing, counts>>

(* Defect: 'waiting' is missing among the statuses of the first UPDATE. *)
MatchQueued_NotWaiting == CancelMatch("match_queued", Queued, "mark_queued")

MatchQueued == CancelMatch("match_queued", Queued \cup {"waiting"}, "mark_queued")

MatchRunning ==
    /\ todo = {}
    /\ CancelMatch("mark_queued", {"running"}, "mark_running")

(* ... then locks them one by one, and looks at each of them again.        *)
MarkQueued(r) ==
    /\ pc[Canceller] = "mark_queued"
    /\ r \in todo
    /\ CanLock(Canceller, r)
    /\ todo' = todo \ {r}
    /\ IF status[r] \in Queued \cup {"waiting"}
       THEN /\ lock' = [lock EXCEPT ![r] = Canceller]
            /\ mine' = [mine EXCEPT ![Canceller][r] = "cancelled"]
            /\ marks' = marks \cup {r}
       ELSE UNCHANGED <<lock, mine, marks>>
    /\ UNCHANGED <<status, requested, pc, closing, counts>>

MarkRunning(r) ==
    /\ pc[Canceller] = "mark_running"
    /\ r \in todo
    /\ CanLock(Canceller, r)
    /\ todo' = todo \ {r}
    /\ IF status[r] = "running"
       THEN /\ lock' = [lock EXCEPT ![r] = Canceller]
            /\ marks' = marks \cup {r}
       ELSE UNCHANGED <<lock, marks>>
    /\ UNCHANGED <<status, requested, mine, pc, closing, counts>>

CancelEnds ==
    /\ Ends(Canceller)
    /\ pc' = [pc EXCEPT ![Canceller] = "done"]
    /\ marks' = {}
    /\ todo' = {}
    /\ UNCHANGED <<closing, counts>>

CancelCommit ==
    /\ pc[Canceller] = "mark_running"
    /\ todo = {}
    /\ status' = View(Canceller)
    /\ requested' = requested \cup marks
    /\ CancelEnds

-----------------------------------------------------------------------------
(***************************************************************************)
(* PostgreSQL's deadlock detector.  The canceller holds the root and wants *)
(* a child; the child's transaction holds the child and wants the root.    *)
(***************************************************************************)
Deadlocked(k) ==
    /\ pc[k] \in {"lock_root", "insert", "close"}
    /\ lock[Root] = Canceller
    /\ k \in todo
    /\ lock[k] = k

VictimKid(k) ==
    /\ Deadlocked(k)
    /\ RollBackKid(k)
    /\ UNCHANGED aborts

VictimCanceller ==
    /\ \E k \in Kids : Deadlocked(k)
    /\ CancelEnds
    /\ UNCHANGED <<status, requested>>

-----------------------------------------------------------------------------
(* Every child has ended and the root with it, or it waits for nobody: no  *)
(* transaction will look at this tree again.                               *)
NothingLeft ==
    /\ \A k \in Kids : status[k] \in Terminal \cup {"absent"} /\ pc[k] = "begin"
    /\ WithCancel => pc[Canceller] = "done"
    /\ UNCHANGED vars

KidStep(k) ==
    \/ \E st \in Terminal \cup Queued : UpdateKid(k, st)
    \/ \E new \in SUBSET (Kids \ {k}) : InsertResult(k, new)
    \/ LockRoot(k) \/ CountActive(k) \/ Tally(k) \/ CloseRoot(k) \/ CommitKid(k)

CancelStep ==
    \/ CancelLock
    \/ MatchQueued
    \/ MatchRunning
    \/ \E r \in Rows : MarkQueued(r) \/ MarkRunning(r)
    \/ CancelCommit

DetectDeadlock == VictimCanceller \/ \E k \in Kids : VictimKid(k)

Next ==
    \/ \E k \in Kids : Claim(k) \/ KidStep(k) \/ AbortKid(k)
    \/ CancelStep
    \/ DetectDeadlock
    \/ NothingLeft

Spec == Init /\ [][Next]_vars

(* A transaction that can go on does, jobs are claimed, and PostgreSQL     *)
(* looks for deadlocks after deadlock_timeout.  The canceller gets a lock  *)
(* that is released again and again: PostgreSQL queues the waiters of a    *)
(* row, and a child whose transaction was rolled back is not tried again   *)
(* before its lease has expired.                                           *)
Fairness ==
    /\ \A k \in Kids : WF_vars(Claim(k)) /\ WF_vars(KidStep(k))
    /\ SF_vars(CancelStep)
    /\ WF_vars(DetectDeadlock)

FairSpec == Spec /\ Fairness

-----------------------------------------------------------------------------
(* No row ends twice: a finalizer that has waited for Cancel does not      *)
(* overwrite the cancelled root, Cancel does not overwrite a closed one,   *)
(* and neither touches a child that has ended in the meantime.             *)
RowsEndOnce ==
    [][\A r \in Rows : status[r] \in Terminal => status'[r] = status[r]]_vars

(* A waiting root has a child that is active or about to be committed. *)
(* "When no active descendants remain, the root is finalized" (ADR, line   *)
(* 362).                                                                   *)
RootNotAbandoned ==
    status[Root] = "waiting" =>
        \/ \E k \in Kids : status[k] \in Active
        \/ \E t \in Txs : mine[t][Root] # Unwritten

IsScan == rootType = "dependency_update_scan"

(* A root that is closed as completed, failed or dead-lettered left nobody *)
(* active behind, whatever the finalizers saw of each other.               *)
ClosedRootHasNoActiveKid ==
    status[Root] \in Terminal \ {"cancelled"} =>
        \A k \in Kids : status[k] \notin Active

TypeOK ==
    /\ status \in [Rows -> Status]
    /\ requested \subseteq Rows
    /\ lock \in [Rows -> Txs \cup {NoTx}]
    /\ mine \in [Txs -> [Rows -> Status \cup {Unwritten}]]
    /\ marks \subseteq Rows
    /\ todo \subseteq Rows
    /\ pc \in [Txs -> {"begin", "insert", "lock_root", "count", "tally", "close", "commit",
                       "match_queued", "mark_queued", "mark_running", "done"}]
    /\ closing \in [Kids -> Terminal \cup {"none"}]
    /\ rootType \in RootTypes
    /\ attempted \subseteq Kids
    /\ retries \in 0..MaxRetries
    /\ aborts \in 0..MaxAborts

(* The transaction of child k: it writes its own row, which it has locked  *)
(* and which stays running until it commits, new rows nobody else writes,  *)
(* and the root, which it has locked while it waits.  Once it has counted  *)
(* no active child, there is none until it commits.                        *)
KidInv(k) ==
    /\ status[k] # "waiting"
    /\ pc[k] \in {"begin", "insert", "lock_root", "count", "tally", "close", "commit"}
    /\ pc[k] = "begin" => mine[k] = NoWrites
    /\ pc[k] # "begin" =>
           status[k] = "running" /\ lock[k] = k /\ mine[k][k] \in Terminal \cup Queued
    /\ pc[k] \in {"insert", "lock_root", "count", "tally", "close"} => mine[k][k] \in Terminal
    /\ pc[k] = "insert" => ~ IsScan /\ \A r \in Rows \ {k} : mine[k][r] = Unwritten
    /\ \A c \in Kids \ {k} : mine[k][c] # Unwritten =>
           /\ ~ IsScan
           /\ mine[k][c] = "pending"
           /\ status[c] = "absent"
           /\ \A t \in Kids \ {k} : mine[t][c] = Unwritten
    /\ mine[k][Root] # Unwritten =>
           /\ pc[k] = "commit"
           /\ lock[Root] = k
           /\ status[Root] = "waiting"
           /\ mine[k][Root] \in Terminal \ {"cancelled"}
    /\ pc[k] \in {"tally", "close"} \/ mine[k][Root] # Unwritten =>
           \A c \in Kids : View(k)[c] \notin Active
    /\ pc[k] = "close" => closing[k] \in Terminal \ {"cancelled"}

(* In an update scan a child that ends holds the lock of the root from its *)
(* count to its commit, and what it has counted stays true.                *)
ScanInv(k) ==
    IsScan =>
        /\ mine[k][k] \in Terminal /\ pc[k] # "lock_root" => lock[Root] = k
        /\ /\ pc[k] = "commit"
           /\ mine[k][k] \in Terminal
           /\ mine[k][Root] = Unwritten
           /\ status[Root] = "waiting"
           => \E c \in Kids : View(k)[c] \in Active

(* Cancel holds the lock of the waiting root, and of every row it has      *)
(* written, from its first statement to its commit.                        *)
CancelInv ==
    /\ pc[Canceller] \in {"begin", "match_queued", "mark_queued", "mark_running", "done"}
    /\ pc[Canceller] \in {"begin", "done"} => mine[Canceller] = NoWrites
    /\ pc[Canceller] \notin {"begin", "done"} =>
           lock[Root] = Canceller /\ status[Root] = "waiting"
    /\ pc[Canceller] = "mark_queued" => Root \in todo \/ mine[Canceller][Root] = "cancelled"
    /\ pc[Canceller] = "mark_running" => mine[Canceller][Root] = "cancelled"
    /\ \A r \in Rows : mine[Canceller][r] # Unwritten =>
           /\ mine[Canceller][r] = "cancelled"
           /\ lock[r] = Canceller
           /\ status[r] \in Queued \cup {"waiting"}

(* The inductive invariant of the transactions. *)
TxInv ==
    /\ TypeOK
    /\ \A k \in Kids : KidInv(k) /\ ScanInv(k)
    /\ CancelInv
    /\ status[Root] \in Terminal \cup {"waiting"}
    /\ ClosedRootHasNoActiveKid

(* What child k does to the root, whatever its type: it closes the root    *)
(* with the outcome of the children it commits; the child of an audit that *)
(* lets the root wait has a sibling; and it inserts children only when it  *)
(* has completed, never behind the canceller's back.                       *)
EndInv(k) ==
    /\ pc[k] = "close" => closing[k] = RootOutcome(View(k))
    /\ mine[k][Root] # Unwritten => mine[k][Root] = RootOutcome(View(k))
    /\ /\ pc[k] = "commit"
       /\ mine[k][k] \in Terminal
       /\ mine[k][Root] = Unwritten
       /\ status[Root] = "waiting"
       => \E c \in Kids \ {k} : View(k)[c] # "absent"
    /\ pc[k] = "insert" => mine[k][k] = "completed"
    /\ \A c \in Kids \ {k} : mine[k][c] # Unwritten => k \in KeyShares
    /\ lock[Root] = Canceller => k \notin KeyShares
    /\ status[k] = "running" => k \in attempted

(* A queued child the canceller's first UPDATE has passed by has run. *)
EscapeInv ==
    \A k \in Kids :
        /\ status[k] \in Queued
        /\ mine[Canceller][k] = Unwritten
        /\ \/ pc[Canceller] = "mark_queued" /\ k \notin todo
           \/ pc[Canceller] = "mark_running"
        => k \in attempted

(* What the refinement of AtomicFinalization needs besides TxInv. *)
AtomicInv == EscapeInv /\ \A k \in Kids : EndInv(k)

(* The root of an update scan ends, whatever transactions fail, block or   *)
(* are chosen as deadlock victims.                                         *)
ScanEnds == IsScan /\ status[Root] = "waiting" ~> status[Root] \in Terminal

(* The committed statuses are those of the atomic specification. *)
AtomicView == INSTANCE AtomicFinalization

(* The committed statuses change as if the end of every child, with the    *)
(* end of the root it may bring about, were atomic, and the cancellation   *)
(* of the tree as well.  Two deviations are left, the ones JobService      *)
(* allows: an audit, whose finalizers do not lock the root, may be missed  *)
(* by the last child if another one has ended, and Cancel may miss a child *)
(* that has run and went back to the queue.                                *)
FinalizersAreAtomic == AtomicView!Atomic

=============================================================================
