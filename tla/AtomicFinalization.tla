------------------------- MODULE AtomicFinalization -------------------------
(***************************************************************************)
(* What a root that waits for its children relies on: the end of a child   *)
(* and the end of the root, when that child was the last one, are one      *)
(* atomic step, and so is the cancellation of the whole tree.  What may    *)
(* deviate from this is a choice of the step, missed and escaped, as in    *)
(* JobService, whose steps FinishKid and CancelTree are; RootFinalization  *)
(* shows that nothing else can.                                            *)
(***************************************************************************)
EXTENDS JobStatus

CONSTANTS
    Root,           \* the root that waits
    Kids            \* its possible descendants

VARIABLES
    status,         \* the status of every row
    rootType,       \* the type of the root
    attempted       \* kids that have been claimed

avars == <<status, rootType, attempted>>

IsUpdateScan == rootType = "dependency_update_scan"

Closing(view) ==
    IF \E c \in Kids : view[c] = "dead_lettered" THEN "dead_lettered"
    ELSE IF \E c \in Kids : view[c] \in {"failed", "cancelled"} THEN "failed"
    ELSE "completed"

(* A root may still wait for every kid that is active. *)
SomeActive(view) == \E c \in Kids : view[c] \in Active

AInit ==
    /\ status[Root] = "waiting"
    /\ SomeActive(status)
    /\ status \in [Kids \cup {Root} -> {"absent", "waiting", "pending"}]
    /\ attempted = {}

ClaimKid(k) ==
    /\ status[k] \in Queued
    /\ status' = [status EXCEPT ![k] = "running"]
    /\ attempted' = attempted \cup {k}
    /\ UNCHANGED rootType

(* The finalizer of k may miss that k was the last active kid: it does not *)
(* lock the root, and another kid has ended, maybe while it counted.       *)
Missable(k) == ~ IsUpdateScan /\ \E c \in Kids \ {k} : status[c] \in Terminal

(* k ends with status st and leaves new kids behind, if it completes the   *)
(* audit of a package; if nobody is active any more and the root waits,    *)
(* the root ends as well unless it is missed.                              *)
FinishKid(k, st, new, missed) ==
    LET view == [r \in Kids \cup {Root} |->
                    IF r = k THEN st ELSE IF r \in new THEN "pending" ELSE status[r]]
        closes == st \in Terminal /\ view[Root] = "waiting" /\ ~ SomeActive(view)
    IN  /\ status[k] = "running"
        /\ \A c \in new : status[c] = "absent"
        /\ new # {} => st = "completed" /\ ~ IsUpdateScan
        /\ missed => Missable(k)
        /\ status' = IF closes /\ ~ missed THEN [view EXCEPT ![Root] = Closing(view)] ELSE view
        /\ UNCHANGED <<rootType, attempted>>

(* The waiting root and its queued kids are cancelled, except for kids     *)
(* that have run and went back to the queue too late to be seen.           *)
CancelTree(escaped) ==
    /\ status[Root] = "waiting"
    /\ \A k \in escaped : status[k] \in Queued /\ k \in attempted
    /\ status' = [r \in Kids \cup {Root} |->
                    IF r = Root \/ (status[r] \in Queued /\ r \notin escaped)
                    THEN "cancelled" ELSE status[r]]
    /\ UNCHANGED <<rootType, attempted>>

ANext ==
    \/ \E k \in Kids :
          \/ ClaimKid(k)
          \/ \E st \in Terminal \cup Queued, new \in SUBSET (Kids \ {k}), missed \in BOOLEAN :
                FinishKid(k, st, new, missed)
    \/ \E escaped \in SUBSET Kids : CancelTree(escaped)

Atomic == AInit /\ [][ANext]_avars

=============================================================================
