----------------------------- MODULE JobContract -----------------------------
(***************************************************************************)
(* A sentence of docs/mvp/adr/0001-job-service-contracts.md that the code  *)
(* does not keep: TLC finds the shortest history that breaks it.           *)
(***************************************************************************)
EXTENDS MCJobService

(* "Execution stopped because cancellation was requested" (ADR, line 250): *)
(* a cancelled job is one somebody asked to cancel.  In process            *)
(* (internal/worker/service.go) a heartbeat that fails with an error is    *)
(* treated like one that finds a cancellation.                             *)
CancelledOnRequest ==
    \A j \in JobIds : jobs[j].status = "cancelled" => jobs[j].cancelRequested

=============================================================================
