--------------------------- MODULE AuditExpansion ---------------------------
(***************************************************************************)
(* How one dependency audit grows: clients submit it under an idempotency  *)
(* key, its job reads the manifests, and the job of every package inserts  *)
(* jobs for the package's dependencies.  The unique indexes of the         *)
(* database decide who inserts a row: Submit, insertSubmission,            *)
(* insertAuditRelationship and the audit_results of Complete in            *)
(* internal/store/postgres/service.go, with the handlers                   *)
(* handlers/dependency_audit.go, handlers/go_service_handler.go and        *)
(* auditor/service_handler.go.                                             *)
(*                                                                         *)
(* Module JobService takes a transaction as one step.  Here the statements *)
(* of Complete and Submit are steps: an INSERT that meets a row another    *)
(* transaction has inserted and not committed waits for that transaction,  *)
(* two transactions may wait for each other, and then the database aborts  *)
(* one of them.                                                            *)
(***************************************************************************)
EXTENDS Integers, FiniteSets

CONSTANTS
    Clients,        \* clients that submit the audit under one idempotency key
    Requests,       \* the hashes of their requests, one function for each case
    Workers,        \* claim loops
    Coordinates,    \* name and version range of a dependency: [name, range]
    Packages,       \* name and exact version
    Project,        \* the package whose manifests are audited
    Resolve,        \* the package the registry resolves a coordinate to
    Requires,       \* the coordinates a package depends on
    MaxAttempts,    \* attempts of every job
    MaxFaults,      \* bound: failed fetches and lost transactions
    None

(* The row of the audit itself. *)
Root == [name |-> "root", range |-> "root"]

ASSUME ExpansionAssumption ==
    /\ \A c \in Coordinates : c = [name |-> c.name, range |-> c.range]
    /\ Root \notin Coordinates
    /\ Coordinates \cap Packages = {}
    /\ Project \in Packages
    /\ Resolve \in [Coordinates -> Packages \ {Project}]
    /\ Requires \in [Packages -> SUBSET Coordinates]
    /\ \A f \in Requests : DOMAIN f = Clients
    /\ MaxAttempts \in Nat \ {0} /\ MaxFaults \in Nat
    /\ Clients # {} /\ Clients \cap Workers = {}
    /\ None \notin Clients \cup Workers \cup Coordinates \cup {Root}

VARIABLES
    hash,           \* the hash of each client's request
    clients,        \* what each client is doing: [phase, answer, id]
    audit,          \* the committed row of the audit: its id and hash
    rows,           \* the job of each coordinate and of the root: [status, attempts, parent]
    owner,          \* the transaction that inserted an index entry and has not committed
    work,           \* the job and the open transaction of each claim loop
    results,        \* rows of audit_results
    relationships,  \* rows of audit_relationships
    faults          \* faults so far

vars == <<hash, clients, audit, rows, owner, work, results, relationships, faults>>

(***************************************************************************)
(* Index entries: the idempotency key of a job, the two ends of a          *)
(* relationship, the package of a result and the parent its job names.     *)
(***************************************************************************)

(* Defect: the version range is left out of the key. *)
dependencyChildKey_NameOnly(c) == CHOOSE d \in Coordinates : d.name = c.name

(* The key of a dependency's job: one for each coordinate under a root. *)
dependencyChildKey(c) == c

Keys == Coordinates \cup {Root}

Edges == {e \in [parent : Packages, child : Coordinates] : e.child \in Requires[e.parent]}

Audited == {[package |-> Resolve[e.child], parent |-> e.parent] : e \in Edges}

Entries == Keys \cup Edges \cup Audited

Committed(entry) ==
    \/ entry \in results \cup relationships
    \/ entry \in Keys /\ rows[entry].status # "absent"

HeldByOther(tx, entry) == owner[entry] \notin {tx, None}

(* ON CONFLICT DO NOTHING: entries nobody has are taken. *)
Take(tx, entries) ==
    owner' = [e \in Entries |-> IF e \in entries /\ ~Committed(e) THEN tx ELSE owner[e]]

Release(tx) == owner' = [e \in Entries |-> IF owner[e] = tx THEN None ELSE owner[e]]

NewRow(status, parent) == [status |-> status, attempts |-> 0, parent |-> parent]

NoWork == [job |-> None, todo |-> {}, waits |-> {}, open |-> FALSE]

Init ==
    /\ hash \in Requests
    /\ clients = [c \in Clients |-> [phase |-> "idle", answer |-> "none", id |-> None]]
    /\ audit = [id |-> None, hash |-> None]
    /\ rows = [k \in Keys |-> NewRow("absent", None)]
    /\ owner = [e \in Entries |-> None]
    /\ work = [w \in Workers |-> NoWork]
    /\ results = {}
    /\ relationships = {}
    /\ faults = 0

(***************************************************************************)
(* Submit: INSERT ... ON CONFLICT DO NOTHING, and if nothing was inserted  *)
(* the row with this key.                                                  *)
(***************************************************************************)
Answered(c, answer, id) == clients' = [clients EXCEPT ![c].phase = "done", ![c].answer = answer, ![c].id = id]

SubmitWaits(c) ==
    /\ clients[c].phase = "idle"
    /\ HeldByOther(c, Root)
    /\ clients' = [clients EXCEPT ![c].phase = "waiting"]
    /\ UNCHANGED <<hash, audit, rows, owner, work, results, relationships, faults>>

SubmitInserts(c) ==
    /\ clients[c].phase \in {"idle", "waiting"}
    /\ ~HeldByOther(c, Root) /\ ~Committed(Root)
    /\ Take(c, {Root})
    /\ clients' = [clients EXCEPT ![c].phase = "inserted"]
    /\ UNCHANGED <<hash, audit, rows, work, results, relationships, faults>>

(* Defect: a request that differs is answered with the other's job. *)
SubmitFinds_AnyHash(c) ==
    /\ clients[c].phase \in {"idle", "waiting"}
    /\ Committed(Root)
    /\ Answered(c, "found", audit.id)
    /\ UNCHANGED <<hash, audit, rows, owner, work, results, relationships, faults>>

SubmitFinds(c) ==
    /\ clients[c].phase \in {"idle", "waiting"}
    /\ Committed(Root)
    /\ IF audit.hash = hash[c] THEN Answered(c, "found", audit.id) ELSE Answered(c, "conflict", None)
    /\ UNCHANGED <<hash, audit, rows, owner, work, results, relationships, faults>>

(* The job gets a fresh id, here the name of the client.  The answer may   *)
(* be lost on its way: then the client submits again.                      *)
SubmitCommits(c, delivered) ==
    /\ clients[c].phase = "inserted"
    /\ rows' = [rows EXCEPT ![Root] = NewRow("pending", None)]
    /\ audit' = [id |-> c, hash |-> hash[c]]
    /\ Release(c)
    /\ IF delivered THEN Answered(c, "created", audit'.id) /\ UNCHANGED faults
       ELSE /\ faults < MaxFaults
            /\ clients' = [clients EXCEPT ![c].phase = "idle"]
            /\ faults' = faults + 1
    /\ UNCHANGED <<hash, work, results, relationships>>

(* The connection breaks: the transaction is rolled back. *)
SubmitAborts(c) ==
    /\ clients[c].phase \in {"waiting", "inserted"}
    /\ faults < MaxFaults
    /\ clients' = [clients EXCEPT ![c].phase = "idle"]
    /\ faults' = faults + 1
    /\ Release(c)
    /\ UNCHANGED <<hash, audit, rows, work, results, relationships>>

(***************************************************************************)
(* The jobs.                                                               *)
(***************************************************************************)
Package(key) == IF key = Root THEN Project ELSE Resolve[key]

(* What a handler returns for Complete to insert: the children and, but    *)
(* for the root, the result of the package, with the parent that its       *)
(* payload names.  This is what the npm and pypi handlers do; a Go module  *)
(* required by a manifest loses the parent's name on the way: the audit    *)
(* writes parent_name and the Go handler reads parentName (README).        *)
DependencyAudit == Requires[Project]

AuditPackage(key) == Requires[Resolve[key]] \cup {Resolve[key]}

Handle(key) == IF key = Root THEN DependencyAudit ELSE AuditPackage(key)

(* The job is claimed and its handler started. *)
Claim(w) ==
    /\ work[w].job = None
    /\ \E k \in Keys :
         /\ rows[k].status = "pending"
         /\ rows' = [rows EXCEPT ![k].status = "running", ![k].attempts = @ + 1]
         /\ work' = [work EXCEPT ![w] = [NoWork EXCEPT !.job = k, !.todo = Handle(k)]]
    /\ UNCHANGED <<hash, clients, audit, owner, results, relationships, faults>>

(* The handler cannot fetch: Fail retries a transient error while attempts *)
(* are left.                                                               *)
FetchFails(w, permanent) ==
    LET k == work[w].job IN
    /\ k # None /\ ~work[w].open
    /\ faults < MaxFaults
    /\ faults' = faults + 1
    /\ rows' = [rows EXCEPT ![k].status =
                    IF permanent THEN "failed"
                    ELSE IF rows[k].attempts < MaxAttempts THEN "pending" ELSE "dead_lettered"]
    /\ work' = [work EXCEPT ![w] = NoWork]
    /\ UNCHANGED <<hash, clients, audit, owner, results, relationships>>

(* The children come in the order a Go map is ranged over, the result last. *)
NextItems(w) ==
    IF work[w].waits # {} THEN work[w].waits
    ELSE IF work[w].todo \cap Coordinates # {} THEN work[w].todo \cap Coordinates
    ELSE work[w].todo

(* Defect: a relationship is recorded only with a job that is new. *)
Inserted_NewOnly(w, item) ==
    IF item \in Packages THEN {[package |-> item, parent |-> rows[work[w].job].parent]}
    ELSE {dependencyChildKey(item)} \cup {e \in {[parent |-> Package(work[w].job), child |-> item]} : ~Committed(dependencyChildKey(item))}

(* A child's relationship to the job's package and then its job, or the    *)
(* result of the package.                                                  *)
Inserted(w, item) ==
    IF item \in Packages THEN {[package |-> item, parent |-> rows[work[w].job].parent]}
    ELSE {[parent |-> Package(work[w].job), child |-> item], dependencyChildKey(item)}

Conflicts(w, item) == {e \in Inserted(w, item) : HeldByOther(w, e)}

(* The first insertion of Complete opens its transaction. *)
Insert(w) ==
    \E item \in NextItems(w) :
        /\ Conflicts(w, item) = {}
        /\ Take(w, Inserted(w, item))
        /\ work' = [work EXCEPT ![w].open = TRUE, ![w].todo = @ \ {item}, ![w].waits = {}]
        /\ UNCHANGED <<hash, clients, audit, rows, results, relationships, faults>>

(* A transaction that waits for the child's job has inserted the           *)
(* relationship.                                                           *)
InsertWaits(w) ==
    \E item \in NextItems(w) :
        /\ work[w].waits = {}
        /\ Conflicts(w, item) # {}
        /\ Take(w, (Inserted(w, item) \cap Edges) \ Conflicts(w, item))
        /\ work' = [work EXCEPT ![w].open = TRUE, ![w].waits = {item}]
        /\ UNCHANGED <<hash, clients, audit, rows, results, relationships, faults>>

Mine(w) == {e \in Entries : owner[e] = w}

(* A root with children waits for them. *)
CompleteCommits(w) ==
    LET k == work[w].job IN
    /\ k # None /\ work[w].todo = {}
    /\ rows' = [e \in Keys |->
                    IF e = k THEN [rows[e] EXCEPT !.status =
                                       IF k = Root /\ Requires[Project] # {} THEN "waiting" ELSE "completed"]
                    ELSE IF e \in Mine(w) THEN NewRow("pending", Package(k)) ELSE rows[e]]
    /\ results' = results \cup (Mine(w) \cap Audited)
    /\ relationships' = relationships \cup (Mine(w) \cap Edges)
    /\ Release(w)
    /\ work' = [work EXCEPT ![w] = NoWork]
    /\ UNCHANGED <<hash, clients, audit, faults>>

(* The transaction is rolled back; the error is logged and the job stays   *)
(* running until its lease ends.                                           *)
Rollback(w) ==
    /\ Release(w)
    /\ work' = [work EXCEPT ![w] = NoWork]
    /\ UNCHANGED <<hash, clients, audit, rows, results, relationships>>

CompleteAborts(w) ==
    /\ work[w].job # None
    /\ faults < MaxFaults
    /\ faults' = faults + 1
    /\ Rollback(w)

(* Whom a waiting transaction waits for: the relationship comes first. *)
Blocker(w) ==
    LET held == UNION {Conflicts(w, item) : item \in work[w].waits}
    IN  owner[CHOOSE e \in held : held \cap Edges # {} => e \in Edges]

(* Workers that wait for each other in a circle. *)
Deadlocked(w) ==
    \E S \in SUBSET {x \in Workers : \E item \in work[x].waits : Conflicts(x, item) # {}} :
        w \in S /\ {Blocker(x) : x \in S} = S

(* The database aborts a transaction of the circle. *)
DeadlockAborts(w) ==
    /\ Deadlocked(w)
    /\ Rollback(w)
    /\ UNCHANGED faults

Abandoned(k) == rows[k].status = "running" /\ \A w \in Workers : work[w].job # k

(* Defect: the attempt that was lost is not counted. *)
ReclaimExpired_Free ==
    \E k \in Keys :
        /\ Abandoned(k)
        /\ rows' = [rows EXCEPT ![k].status = "pending", ![k].attempts = @ - 1]
        /\ UNCHANGED <<hash, clients, audit, owner, work, results, relationships, faults>>

(* The lease of a job whose worker gave up ends. *)
ReclaimExpired ==
    \E k \in Keys :
        /\ Abandoned(k)
        /\ rows' = [rows EXCEPT ![k].status = IF rows[k].attempts < MaxAttempts THEN "pending" ELSE "dead_lettered"]
        /\ UNCHANGED <<hash, clients, audit, owner, work, results, relationships, faults>>

ClientStep(c) ==
    SubmitWaits(c) \/ SubmitInserts(c) \/ SubmitFinds(c) \/ SubmitCommits(c, TRUE)

WorkerStep(w) ==
    Claim(w) \/ Insert(w) \/ InsertWaits(w) \/ CompleteCommits(w) \/ DeadlockAborts(w)

Fault ==
    \/ \E c \in Clients : SubmitCommits(c, FALSE) \/ SubmitAborts(c)
    \/ \E w \in Workers : FetchFails(w, TRUE) \/ FetchFails(w, FALSE) \/ CompleteAborts(w)

Settled ==
    /\ \A c \in Clients : clients[c].phase = "done"
    /\ \A k \in Keys : rows[k].status \notin {"pending", "running"}

Terminated == Settled /\ UNCHANGED vars

Progress ==
    \/ \E c \in Clients : ClientStep(c)
    \/ \E w \in Workers : WorkerStep(w)
    \/ ReclaimExpired

Next == Progress \/ Fault \/ Terminated

Spec == Init /\ [][Next]_vars

(* As long as a client, a worker, the deadlock detector or the maintenance *)
(* loop can go on, one of them does.                                       *)
FairSpec == Spec /\ WF_vars(Progress)

(***************************************************************************)
(* Properties.                                                             *)
(***************************************************************************)

(* Every client that got a job under the key got the one job there is, and *)
(* asked for the same; a client is refused only if it asked for something  *)
(* else; and a job is announced as new at most once.  This holds for       *)
(* clients that submit at the same time, whose transaction breaks or whose *)
(* answer is lost (Submit of store/postgres/service.go).                   *)
IdempotentSubmit ==
    /\ \A c \in Clients :
        /\ clients[c].answer \in {"created", "found"} => clients[c].id = audit.id /\ hash[c] = audit.hash
        /\ clients[c].answer = "conflict" => hash[c] # audit.hash
    /\ Cardinality({c \in Clients : clients[c].answer = "created"}) <= 1

Expanded == {k \in Keys : rows[k].status \in {"completed", "waiting"}}

(* The tables are the expansion of the jobs that completed, nothing less   *)
(* and nothing more: a job for each of their dependencies, a result for    *)
(* each of them, a relationship for each dependency even when its job was  *)
(* there already, and nothing of a transaction that was rolled back        *)
(* (Complete of store/postgres/service.go).                                *)
TablesMatchExpansion ==
    LET done == {Package(k) : k \in Expanded} IN
    /\ {k \in Coordinates : rows[k].status # "absent"} = {dependencyChildKey(c) : c \in UNION {Requires[p] : p \in done}}
    /\ results = {[package |-> Package(k), parent |-> rows[k].parent] : k \in Expanded \ {Root}}
    /\ relationships = {e \in Edges : e.parent \in done}

(* The packages an audit of the project has to cover: the least set with   *)
(* the manifests' packages and the dependencies of its members.            *)
Closed(S) == \A p \in S \cup {Project} : \A c \in Requires[p] : Resolve[c] \in S

(* An audit all of whose jobs completed has audited exactly the packages   *)
(* that can be reached from the manifests, through cycles and through      *)
(* different version ranges of one package (dependencyChildKey of          *)
(* handlers/dependency_audit.go, auditChild of auditor/service_handler.go).*)
AuditCoversGraph ==
    Settled /\ (\A k \in Keys : rows[k].status \in {"absent", "waiting", "completed"}) =>
        LET audited == {r.package : r \in results}
        IN  Closed(audited) /\ \A S \in SUBSET Packages : Closed(S) => audited \subseteq S

(* Everyone is answered and every job ends, although transactions wait for *)
(* each other, are aborted and are tried again.                            *)
AuditSettles == <>Settled

=============================================================================
