------------------------------ MODULE JobStatus ------------------------------
(***************************************************************************)
(* The vocabulary of internal/job: statuses, error kinds and job types.    *)
(* "absent" is the status of an identifier job.NewJobID has not handed out *)
(* yet: there is no row for it.                                            *)
(***************************************************************************)

Terminal == {"completed", "failed", "dead_lettered", "cancelled"}

Queued == {"pending", "retry_scheduled"}

Active == Queued \cup {"running", "waiting"}

Status == {"absent"} \cup Active \cup Terminal

ErrorKinds == {"transient", "permanent", "cancelled"}

(* The types validateSubmission lets a client submit. *)
PublicTypes == {"demo", "dependency_audit", "dependency_update_scan"}

(* audit_npm_package, audit_pypi_package and audit_go_module behave alike  *)
(* towards the store: audit_package stands for the three of them.          *)
JobTypes == PublicTypes \cup {"audit_package", "package_update_check"}

(* The type of the children a handler returns; a demo job and an update    *)
(* check return none.                                                      *)
ChildType(type) ==
    CASE type \in {"dependency_audit", "audit_package"} -> "audit_package"
      [] type = "dependency_update_scan"                -> "package_update_check"
      [] OTHER                                          -> "none"

=============================================================================
