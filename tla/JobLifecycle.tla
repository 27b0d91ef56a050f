---------------------------- MODULE JobLifecycle ----------------------------
(***************************************************************************)
(* The life of a job as every client of the service may rely on it: which  *)
(* statuses a job can take one after the other, and when an attempt is     *)
(* counted.  Nothing here knows of leases, workers, transactions or of the *)
(* way a root waits for its children; JobService implements this module.   *)
(***************************************************************************)
EXTENDS Naturals, JobStatus

CONSTANT JobIds

VARIABLES status, attempts

lvars == <<status, attempts>>

(* Where a job may go from each status, in one step. *)
Successors(st) ==
    CASE st = "absent"          -> {"pending"}
      [] st = "pending"         -> {"running", "cancelled"}
      [] st = "retry_scheduled" -> {"running", "cancelled"}
      [] st = "running"         -> {"completed", "waiting", "retry_scheduled", "failed",
                                    "dead_lettered", "cancelled", "pending"}
      [] st = "waiting"         -> {"completed", "failed", "dead_lettered", "cancelled"}
      [] OTHER                  -> {}

LInit ==
    /\ status = [j \in JobIds |-> "absent"]
    /\ attempts = [j \in JobIds |-> 0]

(* One transaction may move several jobs (a child and its root, a whole    *)
(* batch of expired leases), each of them along one edge.                  *)
Moves(j) ==
    /\ status'[j] \in Successors(status[j])
    /\ attempts'[j] = IF status'[j] = "running" THEN attempts[j] + 1 ELSE attempts[j]

Stays(j) ==
    /\ status'[j] = status[j]
    /\ attempts'[j] = attempts[j]

LNext ==
    /\ status' \in [JobIds -> Status]
    /\ attempts' \in [JobIds -> Nat]
    /\ \A j \in JobIds : Moves(j) \/ Stays(j)

Lifecycle == LInit /\ [][LNext]_lvars

=============================================================================
