---------------------------- MODULE MCJobService ----------------------------
(***************************************************************************)
(* Instances of JobService for TLC.                                        *)
(***************************************************************************)
EXTENDS JobService, TLC

CONSTANTS j1, j2, j3, s1, s2, w1, w2

(* Both claim loops in one process: locked_by does not tell them apart. *)
OneProcess == [s \in Slots |-> w1]

(* One claim loop in each of two processes. *)
TwoProcesses == [s \in Slots |-> IF s = s1 THEN w1 ELSE w2]

JobSymmetry == Permutations(JobIds)

(* Sound with OneProcess, where the claim loops are interchangeable. *)
JobSlotSymmetry == Permutations(JobIds) \cup Permutations(Slots)

=============================================================================
