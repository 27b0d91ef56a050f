------------------------ MODULE AuditExpansionProofs ------------------------
(***************************************************************************)
(* Proofs about AuditExpansion, for any dependency graph, any clients and  *)
(* workers and any bound on the faults: that a submission is idempotent,   *)
(* that the tables are the expansion of the jobs that completed, and that  *)
(* an audit that settles without an error covers the graph.                *)
(***************************************************************************)
EXTENDS AuditExpansion, FiniteSetTheorems, TLAPS

Statuses == {"absent", "pending", "running", "waiting", "completed", "failed", "dead_lettered"}

Edge(p, c) == [parent |-> p, child |-> c]

(* The result of the job of k. *)
Result(k) == [package |-> Package(k), parent |-> rows[k].parent]

Exists(k) == rows[k].status # "absent"

ClientStates ==
    [phase : {"idle", "waiting", "inserted", "done"},
     answer : {"none", "created", "found", "conflict"},
     id : Clients \cup {None}]

(* The types of the variables. *)
TypeInv ==
    /\ clients \in [Clients -> ClientStates]
    /\ audit.id \in Clients \cup {None}
    /\ rows \in [Keys -> [status : Statuses, attempts : Nat, parent : Packages \cup {None}]]
    /\ owner \in [Entries -> Clients \cup Workers \cup {None}]
    /\ work \in [Workers -> [job : Keys \cup {None}, todo : SUBSET (Coordinates \cup Packages),
                             waits : SUBSET (Coordinates \cup Packages), open : BOOLEAN]]
    /\ results \subseteq Audited
    /\ relationships \subseteq Edges

(* A client that has inserted the audit owns its key; a client that was    *)
(* answered was told the truth.                                            *)
ClientInv(c) ==
    /\ clients[c].phase = "inserted" <=> owner[Root] = c
    /\ \A e \in Entries \ {Root} : owner[e] # c
    /\ clients[c].phase = "done" \/ clients[c].answer # "none" => Exists(Root)
    /\ clients[c].answer \in {"created", "found"} => clients[c].id = audit.id /\ hash[c] = audit.hash
    /\ clients[c].answer = "conflict" => hash[c] # audit.hash
    /\ clients[c].answer = "created" => audit.id = c

(* What worker w owns belongs to its job, and what it has dealt with is    *)
(* its own or committed.                                                   *)
WorkInv(w) ==
    LET k == work[w].job IN
    /\ k = None => work[w].todo = {} /\ work[w].waits = {}
    /\ k = None \/ ~ work[w].open => \A e \in Entries : owner[e] # w
    /\ owner[Root] # w
    /\ k # None =>
          /\ rows[k].status = "running"
          /\ \A x \in Workers \ {w} : work[x].job # k
          /\ work[w].todo \subseteq Handle(k)
          /\ work[w].waits \subseteq work[w].todo
          /\ \A c \in Coordinates : owner[c] = w => c \in Requires[Package(k)]
          /\ \A e \in Edges : owner[e] = w => e.parent = Package(k)
          /\ \A e \in Audited : owner[e] = w => k # Root /\ e = Result(k)
          /\ \A c \in Requires[Package(k)] \ work[w].todo :
                /\ owner[c] = w \/ Exists(c)
                /\ owner[Edge(Package(k), c)] = w \/ Edge(Package(k), c) \in relationships
          /\ k # Root /\ Package(k) \notin work[w].todo => owner[Result(k)] = w \/ Result(k) \in results

(* An entry somebody owns is not committed, and the job of a dependency    *)
(* names a parent that has it.                                             *)
EntriesInv ==
    /\ \A e \in Entries : owner[e] # None => ~ Committed(e)
    /\ \A c \in Coordinates : Exists(c) => rows[c].parent \in Packages /\ c \in Requires[rows[c].parent]

(* TablesMatchExpansion, entry by entry. *)
TablesInv ==
    /\ \A c \in Coordinates : Exists(c) <=> \E k \in Expanded : c \in Requires[Package(k)]
    /\ \A r \in Audited : r \in results <=> \E k \in Expanded \ {Root} : r = Result(k)
    /\ \A e \in Edges : e \in relationships <=> \E k \in Expanded : e.parent = Package(k)

(* Only what the project needs is audited. *)
ReachInv ==
    \A S \in SUBSET Packages : Closed(S) => \A c \in Coordinates : Exists(c) => Resolve[c] \in S

(* The inductive invariant of the expansion. *)
ExpansionInv ==
    /\ TypeInv
    /\ \A c \in Clients : ClientInv(c)
    /\ \A w \in Workers : WorkInv(w)
    /\ EntriesInv
    /\ TablesInv
    /\ ReachInv

(***************************************************************************)
(* The entries.                                                            *)
(***************************************************************************)

(* The constants are different from each other where it matters. *)
LEMMA Distinct ==
  /\ Root \in Keys /\ Coordinates \subseteq Keys /\ Root \notin Coordinates
  /\ Keys \subseteq Entries /\ Edges \subseteq Entries /\ Audited \subseteq Entries
  /\ None \notin Keys
  /\ Clients \cap Workers = {} /\ None \notin Clients \cup Workers
  /\ Coordinates \cap Packages = {}
BY ExpansionAssumption DEF ExpansionAssumption, Keys, Entries

LEMMA PackageType ==
  ASSUME NEW k \in Keys
  PROVE  /\ Package(k) \in Packages
         /\ Requires[Package(k)] \subseteq Coordinates
         /\ Handle(k) = IF k = Root THEN Requires[Package(k)] ELSE Requires[Package(k)] \cup {Package(k)}
<1>1. Package(k) \in Packages
   BY ExpansionAssumption DEF ExpansionAssumption, Keys, Package
<1>2. \A p \in Packages : Requires[p] \subseteq Coordinates
   BY ExpansionAssumption DEF ExpansionAssumption
<1> QED BY <1>1, <1>2 DEF Package, Handle, DependencyAudit, AuditPackage

(* A key, a relationship and a result are never taken for each other. *)
LEMMA Kinds ==
  /\ Keys \cap Edges = {}
  /\ Keys \cap Audited = {}
  /\ Edges \cap Audited = {}
<1>1. \A c \in Keys : c = [name |-> c.name, range |-> c.range]
   BY ExpansionAssumption DEF ExpansionAssumption, Keys, Root
<1>2. \A c \in Keys : DOMAIN c = {"name", "range"}
   BY <1>1
<1>3. \A e \in Edges : DOMAIN e = {"parent", "child"}
   BY DEF Edges
<1>4. \A r \in Audited : DOMAIN r = {"package", "parent"}
   BY DEF Audited
<1>5. /\ {"name", "range"} # {"parent", "child"}
      /\ {"name", "range"} # {"package", "parent"}
      /\ {"parent", "child"} # {"package", "parent"}
   OBVIOUS
<1> QED BY <1>2, <1>3, <1>4, <1>5

LEMMA EdgeType ==
  /\ \A p \in Packages : \A c \in Requires[p] : Edge(p, c) \in Edges
  /\ \A e \in Edges : e = Edge(e.parent, e.child) /\ e.parent \in Packages /\ e.child \in Requires[e.parent]
<1>1. \A p \in Packages : \A c \in Requires[p] : c \in Coordinates
   BY ExpansionAssumption DEF ExpansionAssumption
<1> QED BY <1>1 DEF Edges, Edge

LEMMA ResultType ==
  ASSUME NEW k \in Coordinates, rows[k].parent \in Packages, k \in Requires[rows[k].parent]
  PROVE  Result(k) \in Audited
<1>1. Edge(rows[k].parent, k) \in Edges
   BY EdgeType
<1>2. Package(k) = Resolve[k]
   BY Distinct DEF Package
<1> QED BY <1>1, <1>2 DEF Edge, Audited, Result

(* What it means for each kind of entry to be committed. *)
LEMMA CommittedKinds ==
  ASSUME TypeInv
  PROVE  /\ \A k \in Keys : Committed(k) <=> Exists(k)
         /\ \A e \in Edges : Committed(e) <=> e \in relationships
         /\ \A r \in Audited : Committed(r) <=> r \in results
BY Kinds DEF TypeInv, Committed, Exists

LEMMA CommittedKindsNext ==
  ASSUME TypeInv'
  PROVE  /\ \A k \in Keys : Committed(k)' <=> Exists(k)'
         /\ \A e \in Edges : Committed(e)' <=> e \in relationships'
         /\ \A r \in Audited : Committed(r)' <=> r \in results'
BY Kinds DEF TypeInv, Committed, Exists

(***************************************************************************)
(* What a step must leave alone.                                           *)
(***************************************************************************)

(* The step commits nothing but, perhaps, the row of the audit. *)
SameTables ==
    /\ UNCHANGED <<results, relationships>>
    /\ \A k \in Keys :
          /\ rows'[k].status \in {"completed", "waiting"} <=> rows[k].status \in {"completed", "waiting"}
          /\ Exists(k) => Exists(k)' /\ rows'[k].parent = rows[k].parent
    /\ \A c \in Coordinates : Exists(c)' => Exists(c)

LEMMA TablesFrame ==
  ASSUME ExpansionInv, SameTables
  PROVE  TablesInv' /\ ReachInv'
<1>1. TablesInv /\ ReachInv
   BY DEF ExpansionInv
<1>2. Expanded' = Expanded
   BY DEF SameTables, Expanded
<1>3. \A k \in Expanded : Result(k)' = Result(k)
   BY DEF SameTables, Expanded, Exists, Result
<1>4. \A c \in Coordinates : Exists(c)' <=> Exists(c)
   BY Distinct DEF SameTables
<1>5. TablesInv'
   BY <1>1, <1>2, <1>3, <1>4 DEF SameTables, TablesInv
<1>6. ReachInv'
   BY <1>1, <1>4 DEF ReachInv
<1> QED BY <1>5, <1>6

(* Nothing that is owned gets committed. *)
LEMMA EntriesFrame ==
  ASSUME ExpansionInv, TypeInv', SameTables,
         \A e \in Entries : owner'[e] \in {owner[e], None} \/ ~ Committed(e),
         owner'[Root] # None => ~ Exists(Root)'
  PROVE  EntriesInv'
<1>1. TypeInv /\ EntriesInv
   BY DEF ExpansionInv
<1>2. \A e \in Entries \ {Root} : Committed(e)' <=> Committed(e)
   <2>1. \A k \in Coordinates : Committed(k)' <=> Committed(k)
      BY <1>1, CommittedKinds, CommittedKindsNext, Distinct DEF SameTables
   <2>2. \A e \in Edges : Committed(e)' <=> Committed(e)
      BY <1>1, CommittedKinds, CommittedKindsNext DEF SameTables
   <2>3. \A e \in Audited : Committed(e)' <=> Committed(e)
      BY <1>1, CommittedKinds, CommittedKindsNext DEF SameTables
   <2> QED BY <2>1, <2>2, <2>3 DEF Entries, Keys
<1>3. Committed(Root)' <=> Exists(Root)'
   BY CommittedKinds, CommittedKindsNext, Distinct
<1>4. \A e \in Entries : owner'[e] # None => ~ Committed(e)'
   BY <1>1, <1>2, <1>3 DEF EntriesInv
<1>5. \A c \in Coordinates : Exists(c)' => rows'[c].parent \in Packages /\ c \in Requires[rows'[c].parent]
   BY <1>1, Distinct DEF SameTables, EntriesInv
<1> QED BY <1>4, <1>5 DEF EntriesInv

LEMMA ClientFrame ==
  ASSUME ExpansionInv, NEW c \in Clients,
         hash' = hash, clients'[c] = clients[c], audit' = audit \/ ~ Exists(Root),
         \A e \in Entries : owner'[e] = c <=> owner[e] = c,
         Exists(Root) => Exists(Root)'
  PROVE  ClientInv(c)'
<1>1. ClientInv(c)
   BY DEF ExpansionInv
<1> QED BY <1>1, Distinct DEF ClientInv

LEMMA WorkFrame ==
  ASSUME ExpansionInv, NEW w \in Workers,
         work'[w] = work[w],
         \A e \in Entries : owner'[e] = w <=> owner[e] = w,
         work[w].job # None =>
             /\ rows'[work[w].job] = rows[work[w].job]
             /\ \A x \in Workers \ {w} : work'[x].job # work[w].job,
         \A k \in Keys : Exists(k) => Exists(k)',
         results \subseteq results', relationships \subseteq relationships'
  PROVE  WorkInv(w)'
<1> DEFINE k == work[w].job
<1>1. TypeInv /\ EntriesInv /\ WorkInv(w)
   BY DEF ExpansionInv
<1>2. /\ k = None => work'[w].todo = {} /\ work'[w].waits = {}
      /\ k = None \/ ~ work'[w].open => \A e \in Entries : owner'[e] # w
      /\ owner'[Root] # w
   BY <1>1, Distinct DEF WorkInv
<1>3. ASSUME k # None
      PROVE  /\ rows'[k].status = "running"
             /\ \A x \in Workers \ {w} : work'[x].job # k
             /\ work'[w].todo \subseteq Handle(k)
             /\ work'[w].waits \subseteq work'[w].todo
             /\ \A c \in Coordinates : owner'[c] = w => c \in Requires[Package(k)]
             /\ \A e \in Edges : owner'[e] = w => e.parent = Package(k)
             /\ \A e \in Audited : owner'[e] = w => k # Root /\ e = Result(k)'
             /\ \A c \in Requires[Package(k)] \ work'[w].todo :
                   /\ owner'[c] = w \/ Exists(c)'
                   /\ owner'[Edge(Package(k), c)] = w \/ Edge(Package(k), c) \in relationships'
             /\ k # Root /\ Package(k) \notin work'[w].todo => owner'[Result(k)'] = w \/ Result(k)' \in results'
   <2>1. k \in Keys /\ rows[k].status = "running" /\ rows'[k] = rows[k]
      BY <1>1, <1>3 DEF TypeInv, WorkInv
   <2>2. Result(k)' = Result(k)
      BY <2>1 DEF Result
   <2>3. k # Root => Result(k) \in Entries
      BY <1>1, <2>1, ResultType, Distinct DEF Keys, EntriesInv, Exists
   <2>4. \A c \in Requires[Package(k)] : c \in Entries /\ c \in Keys /\ Edge(Package(k), c) \in Entries
      BY <2>1, PackageType, EdgeType, Distinct
   <2>5. \A c \in Requires[Package(k)] \ work[w].todo :
            /\ owner'[c] = w \/ Exists(c)'
            /\ owner'[Edge(Package(k), c)] = w \/ Edge(Package(k), c) \in relationships'
      BY <1>1, <1>3, <2>4 DEF WorkInv
   <2>6. k # Root /\ Package(k) \notin work[w].todo => owner'[Result(k)] = w \/ Result(k) \in results'
      BY <1>1, <1>3, <2>3 DEF WorkInv
   <2>7. /\ \A c \in Coordinates : owner'[c] = w => c \in Requires[Package(k)]
         /\ \A e \in Edges : owner'[e] = w => e.parent = Package(k)
         /\ \A e \in Audited : owner'[e] = w => k # Root /\ e = Result(k)
      BY <1>1, <1>3, Distinct DEF WorkInv
   <2>8. work[w].todo \subseteq Handle(k) /\ work[w].waits \subseteq work[w].todo
      BY <1>1, <1>3 DEF WorkInv
   <2> QED BY <1>3, <2>1, <2>2, <2>5, <2>6, <2>7, <2>8
<1>4. work'[w].job = k /\ k' = k
   OBVIOUS
<1> HIDE DEF k
<1> QED BY <1>2, <1>3, <1>4 DEF WorkInv

(***************************************************************************)
(* The steps of a client.                                                  *)
(***************************************************************************)

(* A client changes only the row of the audit, which no worker has taken,  *)
(* and its own answer.                                                     *)
LEMMA ClientOnly ==
  ASSUME ExpansionInv, NEW c \in Clients, ClientInv(c)', TypeInv',
         UNCHANGED <<hash, work, results, relationships>>,
         \A d \in Clients \ {c} : clients'[d] = clients[d],
         audit' = audit \/ ~ Exists(Root),
         \A k \in Coordinates : rows'[k] = rows[k],
         rows'[Root] = rows[Root] \/ (~ Exists(Root) /\ rows'[Root].status = "pending"),
         \A e \in Entries \ {Root} : owner'[e] = owner[e],
         owner'[Root] = owner[Root] \/ {owner[Root], owner'[Root]} \subseteq {c, None},
         owner'[Root] # None => ~ Exists(Root)'
  PROVE  ExpansionInv'
<1>1. TypeInv /\ EntriesInv
   BY DEF ExpansionInv
<1>2. \A k \in Keys : rows'[k] = rows[k] \/ (k = Root /\ ~ Exists(Root) /\ rows'[Root].status = "pending")
   BY DEF Keys
<1>3. SameTables
   <2>1. \A k \in Keys :
          /\ rows'[k].status \in {"completed", "waiting"} <=> rows[k].status \in {"completed", "waiting"}
          /\ Exists(k) => Exists(k)' /\ rows'[k].parent = rows[k].parent
      BY <1>2 DEF Exists
   <2> QED BY <2>1 DEF SameTables, Exists
<1>4. TablesInv' /\ ReachInv'
   BY <1>3, TablesFrame
<1>5. EntriesInv'
   <2>1. owner'[Root] = owner[Root] \/ ~ Committed(Root) \/ owner'[Root] = None
      BY <1>1, <1>2, CommittedKinds, Distinct DEF Exists
   <2>2. \A e \in Entries : owner'[e] \in {owner[e], None} \/ ~ Committed(e)
      BY <2>1
   <2> QED BY <1>3, <2>2, EntriesFrame
<1>6. \A k \in Keys : Exists(k) => Exists(k)'
   BY <1>3 DEF SameTables
<1>7. \A d \in Clients : ClientInv(d)'
   <2>1. ASSUME NEW d \in Clients \ {c}
         PROVE  \A e \in Entries : owner'[e] = d <=> owner[e] = d
      BY Distinct
   <2> QED BY <1>6, <2>1, ClientFrame, Distinct
<1>8. ASSUME NEW w \in Workers
      PROVE  WorkInv(w)'
   <2>1. \A e \in Entries : owner'[e] = w <=> owner[e] = w
      BY Distinct
   <2>2. WorkInv(w)
      BY DEF ExpansionInv
   <2>3. work[w].job # None =>
             /\ rows'[work[w].job] = rows[work[w].job]
             /\ \A x \in Workers \ {w} : work'[x].job # work[w].job
      BY <1>1, <1>2, <2>2 DEF TypeInv, WorkInv, Exists
   <2> QED BY <1>6, <2>1, <2>3, WorkFrame
<1> QED BY <1>4, <1>5, <1>7, <1>8 DEF ExpansionInv

LEMMA AnsweredClient ==
  ASSUME TypeInv, NEW c \in Clients, NEW answer \in {"created", "found", "conflict"},
         NEW id \in Clients \cup {None},
         clients' = [clients EXCEPT ![c].phase = "done", ![c].answer = answer, ![c].id = id]
  PROVE  /\ clients' \in [Clients -> ClientStates]
         /\ clients'[c].phase = "done" /\ clients'[c].answer = answer /\ clients'[c].id = id
<1>1. clients \in [Clients -> ClientStates] /\ clients[c] \in ClientStates
   BY DEF TypeInv
<1>2. clients'[c] = [clients[c] EXCEPT !.phase = "done", !.answer = answer, !.id = id]
   BY <1>1
<1>3. clients'[c] = [phase |-> "done", answer |-> answer, id |-> id]
   BY <1>1, <1>2 DEF ClientStates
<1>4. [phase |-> "done", answer |-> answer, id |-> id] \in ClientStates
   BY DEF ClientStates
<1>5. clients' \in [Clients -> ClientStates]
   BY <1>1, <1>3, <1>4
<1> QED BY <1>3, <1>5

LEMMA ClientMoves ==
  ASSUME TypeInv, NEW c \in Clients, NEW phase \in {"idle", "waiting", "inserted", "done"},
         clients' = [clients EXCEPT ![c].phase = phase]
  PROVE  /\ clients' \in [Clients -> ClientStates]
         /\ clients'[c].phase = phase
         /\ clients'[c].answer = clients[c].answer /\ clients'[c].id = clients[c].id
BY DEF TypeInv, ClientStates

LEMMA SubmitWaitsStep ==
  ASSUME ExpansionInv, NEW c \in Clients, SubmitWaits(c)
  PROVE  ExpansionInv'
<1>1. /\ clients[c].phase = "idle"
      /\ clients' = [clients EXCEPT ![c].phase = "waiting"]
      /\ UNCHANGED <<hash, audit, rows, owner, work, results, relationships>>
   BY DEF SubmitWaits
<1>2. TypeInv /\ EntriesInv /\ ClientInv(c)
   BY DEF ExpansionInv
<1>3. TypeInv'
   BY <1>1, <1>2, ClientMoves DEF TypeInv
<1>4. ClientInv(c)'
   BY <1>1, <1>2, ClientMoves DEF ClientInv, Exists
<1>5. \A d \in Clients \ {c} : clients'[d] = clients[d]
   BY <1>1, <1>2 DEF TypeInv
<1>6. owner'[Root] # None => ~ Exists(Root)'
   BY <1>1, <1>2, CommittedKinds, Distinct DEF EntriesInv, Exists
<1> QED BY <1>1, <1>3, <1>4, <1>5, <1>6, ClientOnly

LEMMA SubmitInsertsStep ==
  ASSUME ExpansionInv, NEW c \in Clients, SubmitInserts(c)
  PROVE  ExpansionInv'
<1>1. /\ clients[c].phase \in {"idle", "waiting"}
      /\ owner[Root] \in {c, None} /\ ~ Committed(Root)
      /\ owner' = [e \in Entries |-> IF e \in {Root} /\ ~ Committed(e) THEN c ELSE owner[e]]
      /\ clients' = [clients EXCEPT ![c].phase = "inserted"]
      /\ UNCHANGED <<hash, audit, rows, work, results, relationships>>
   BY DEF SubmitInserts, HeldByOther, Take
<1>2. TypeInv /\ ClientInv(c)
   BY DEF ExpansionInv
<1>3. /\ owner'[Root] = c
      /\ \A e \in Entries \ {Root} : owner'[e] = owner[e]
   BY <1>1, Distinct
<1>4. TypeInv'
   <2>1. owner' \in [Entries -> Clients \cup Workers \cup {None}]
      BY <1>1, <1>2 DEF TypeInv
   <2> QED BY <1>1, <1>2, <2>1, ClientMoves DEF TypeInv
<1>5. ClientInv(c)'
   BY <1>1, <1>2, <1>3, ClientMoves DEF ClientInv, Exists
<1>6. \A d \in Clients \ {c} : clients'[d] = clients[d]
   BY <1>1, <1>2 DEF TypeInv
<1>7. ~ Exists(Root)'
   BY <1>1, <1>2, CommittedKinds, Distinct DEF Exists
<1> QED BY <1>1, <1>3, <1>4, <1>5, <1>6, <1>7, ClientOnly

LEMMA SubmitFindsStep ==
  ASSUME ExpansionInv, NEW c \in Clients, SubmitFinds(c)
  PROVE  ExpansionInv'
<1>1. /\ clients[c].phase \in {"idle", "waiting"}
      /\ Committed(Root)
      /\ UNCHANGED <<hash, audit, rows, owner, work, results, relationships>>
   BY DEF SubmitFinds
<1>2. TypeInv /\ EntriesInv /\ ClientInv(c)
   BY DEF ExpansionInv
<1>3. Exists(Root)
   BY <1>1, <1>2, CommittedKinds, Distinct
<1>4. PICK answer \in {"found", "conflict"}, id \in {audit.id, None} :
         /\ Answered(c, answer, id)
         /\ answer = "found" => id = audit.id /\ audit.hash = hash[c]
         /\ answer = "conflict" => id = None /\ audit.hash # hash[c]
   BY DEF SubmitFinds
<1>5. audit.id \in Clients \cup {None}
   BY <1>2, Zenon DEF TypeInv
<1>6. clients' = [clients EXCEPT ![c].phase = "done", ![c].answer = answer, ![c].id = id]
   BY <1>4 DEF Answered
<1>7. TypeInv'
   BY <1>1, <1>2, <1>5, <1>6, AnsweredClient DEF TypeInv
<1>8. ClientInv(c)'
   <2>1. clients'[c].phase = "done" /\ clients'[c].answer = answer /\ clients'[c].id = id
      BY <1>2, <1>5, <1>6, AnsweredClient
   <2> QED BY <1>1, <1>2, <1>3, <1>4, <2>1 DEF ClientInv, Exists
<1>9. \A d \in Clients \ {c} : clients'[d] = clients[d]
   BY <1>2, <1>6 DEF TypeInv
<1>10. owner'[Root] # None => ~ Exists(Root)'
   BY <1>1, <1>2, CommittedKinds, Distinct DEF EntriesInv, Exists
<1> QED BY <1>1, <1>7, <1>8, <1>9, <1>10, ClientOnly

LEMMA SubmitCommitsStep ==
  ASSUME ExpansionInv, NEW c \in Clients, NEW delivered, SubmitCommits(c, delivered)
  PROVE  ExpansionInv'
<1>1. /\ clients[c].phase = "inserted"
      /\ rows' = [rows EXCEPT ![Root] = NewRow("pending", None)]
      /\ audit' = [id |-> c, hash |-> hash[c]]
      /\ owner' = [e \in Entries |-> IF owner[e] = c THEN None ELSE owner[e]]
      /\ UNCHANGED <<hash, work, results, relationships>>
      /\ \/ clients' = [clients EXCEPT ![c].phase = "done", ![c].answer = "created", ![c].id = audit'.id]
         \/ clients' = [clients EXCEPT ![c].phase = "idle"]
   BY DEF SubmitCommits, Release, Answered
<1>2. TypeInv /\ EntriesInv /\ ClientInv(c)
   BY DEF ExpansionInv
<1>3. owner[Root] = c /\ ~ Exists(Root)
   BY <1>1, <1>2, CommittedKinds, Distinct DEF ClientInv, EntriesInv
<1>4. /\ owner'[Root] = None
      /\ \A e \in Entries \ {Root} : owner'[e] = owner[e]
   BY <1>1, <1>2, <1>3, Distinct DEF ClientInv
<1>5. /\ rows'[Root].status = "pending"
      /\ \A k \in Coordinates : rows'[k] = rows[k]
      /\ rows' \in [Keys -> [status : Statuses, attempts : Nat, parent : Packages \cup {None}]]
   BY <1>1, <1>2, Distinct DEF TypeInv, NewRow, Statuses
<1>6. TypeInv'
   <2>1. owner' \in [Entries -> Clients \cup Workers \cup {None}]
      BY <1>1, <1>2 DEF TypeInv
   <2>2. audit'.id = c /\ audit'.id \in Clients \cup {None}
      BY <1>1
   <2>3. clients' \in [Clients -> ClientStates]
      BY <1>1, <1>2, <2>2, AnsweredClient, ClientMoves
   <2> QED BY <1>1, <1>2, <1>5, <2>1, <2>2, <2>3 DEF TypeInv
<1>7. ClientInv(c)'
   <2>1. \/ clients'[c].phase = "done" /\ clients'[c].answer = "created" /\ clients'[c].id = c
         \/ clients'[c].phase = "idle" /\ clients'[c].answer = clients[c].answer
      BY <1>1, <1>2, AnsweredClient, ClientMoves
   <2>2. clients[c].answer = "none"
      BY <1>2, <1>3 DEF ClientInv
   <2>3. audit'.id = c /\ audit'.hash = hash'[c]
      BY <1>1
   <2> QED BY <1>2, <1>4, <1>5, <2>1, <2>2, <2>3, Distinct DEF ClientInv, Exists
<1>8. \A d \in Clients \ {c} : clients'[d] = clients[d]
   BY <1>1, <1>2 DEF TypeInv
<1> QED BY <1>1, <1>3, <1>4, <1>5, <1>6, <1>7, <1>8, ClientOnly

LEMMA SubmitAbortsStep ==
  ASSUME ExpansionInv, NEW c \in Clients, SubmitAborts(c)
  PROVE  ExpansionInv'
<1>1. /\ clients' = [clients EXCEPT ![c].phase = "idle"]
      /\ clients[c].phase \in {"waiting", "inserted"}
      /\ owner' = [e \in Entries |-> IF owner[e] = c THEN None ELSE owner[e]]
      /\ UNCHANGED <<hash, audit, rows, work, results, relationships>>
   BY DEF SubmitAborts, Release
<1>2. TypeInv /\ EntriesInv /\ ClientInv(c)
   BY DEF ExpansionInv
<1>3. /\ owner'[Root] = owner[Root] \/ (owner[Root] = c /\ owner'[Root] = None)
      /\ owner'[Root] # c
      /\ \A e \in Entries \ {Root} : owner'[e] = owner[e]
   BY <1>1, <1>2, Distinct DEF ClientInv
<1>4. TypeInv'
   <2>1. owner' \in [Entries -> Clients \cup Workers \cup {None}]
      BY <1>1, <1>2 DEF TypeInv
   <2> QED BY <1>1, <1>2, <2>1, ClientMoves DEF TypeInv
<1>5. ClientInv(c)'
   BY <1>1, <1>2, <1>3, ClientMoves DEF ClientInv, Exists
<1>6. \A d \in Clients \ {c} : clients'[d] = clients[d]
   BY <1>1, <1>2 DEF TypeInv
<1>7. owner'[Root] # None => ~ Exists(Root)'
   BY <1>1, <1>2, <1>3, CommittedKinds, Distinct DEF EntriesInv, Exists
<1> QED BY <1>1, <1>3, <1>4, <1>5, <1>6, <1>7, ClientOnly

(***************************************************************************)
(* The steps of the workers that commit nothing.                           *)
(***************************************************************************)

(* The workers in A, one or none, act: they take entries nobody has or     *)
(* give theirs back, and change rows only they work on.                    *)
LEMMA WorkersOnly ==
  ASSUME ExpansionInv, NEW A \in SUBSET Workers, TypeInv', SameTables, Exists(Root)' => Exists(Root),
         \A w \in A : WorkInv(w)',
         UNCHANGED <<hash, clients, audit>>,
         \A x \in Workers \ A : work'[x] = work[x],
         \A x \in Workers \ A, w \in A : work[x].job # None => work'[w].job # work[x].job,
         \A k \in Keys : rows'[k] = rows[k] \/ \A x \in Workers \ A : work[x].job # k,
         \A e \in Entries :
             \/ owner'[e] = owner[e]
             \/ /\ {owner[e], owner'[e]} \subseteq A \cup {None}
                /\ owner'[e] # None => ~ Committed(e)
  PROVE  ExpansionInv'
<1>1. TypeInv /\ EntriesInv
   BY DEF ExpansionInv
<1>2. TablesInv' /\ ReachInv'
   BY TablesFrame
<1>3. EntriesInv'
   <2>1. \A e \in Entries : owner'[e] \in {owner[e], None} \/ ~ Committed(e)
      OBVIOUS
   <2>2. owner'[Root] # None => ~ Exists(Root)'
      BY <1>1, CommittedKinds, Distinct DEF EntriesInv
   <2> QED BY <2>1, <2>2, EntriesFrame
<1>4. \A k \in Keys : Exists(k) => Exists(k)'
   BY DEF SameTables
<1>5. ASSUME NEW c \in Clients
      PROVE  ClientInv(c)'
   <2>1. \A e \in Entries : owner'[e] = c <=> owner[e] = c
      BY Distinct
   <2> QED BY <1>4, <2>1, ClientFrame, Distinct
<1>6. ASSUME NEW x \in Workers \ A
      PROVE  WorkInv(x)'
   <2>1. WorkInv(x) /\ work[x].job \in Keys \cup {None}
      BY <1>1 DEF ExpansionInv, TypeInv
   <2>2. \A e \in Entries : owner'[e] = x <=> owner[e] = x
      BY Distinct
   <2>3. work[x].job # None => rows'[work[x].job] = rows[work[x].job]
      BY <2>1
   <2>4. work[x].job # None => \A y \in Workers \ {x} : work'[y].job # work[x].job
      BY <2>1 DEF WorkInv
   <2> QED BY <1>4, <2>2, <2>3, <2>4, WorkFrame DEF SameTables
<1> QED BY <1>2, <1>3, <1>5, <1>6 DEF ExpansionInv

LEMMA OneWorkerOnly ==
  ASSUME ExpansionInv, NEW w \in Workers, TypeInv', SameTables, Exists(Root)' => Exists(Root),
         WorkInv(w)',
         UNCHANGED <<hash, clients, audit>>,
         \A x \in Workers \ {w} : work'[x] = work[x],
         \A x \in Workers \ {w} : work[x].job # None => work'[w].job # work[x].job,
         \A k \in Keys : rows'[k] = rows[k] \/ \A x \in Workers \ {w} : work[x].job # k,
         \A e \in Entries :
             \/ owner'[e] = owner[e]
             \/ /\ {owner[e], owner'[e]} \subseteq {w, None}
                /\ owner'[e] # None => ~ Committed(e)
  PROVE  ExpansionInv'
<1> DEFINE A == {w}
<1>1. /\ A \in SUBSET Workers
      /\ \A v \in A : WorkInv(v)'
      /\ \A x \in Workers \ A : work'[x] = work[x]
      /\ \A x \in Workers \ A, v \in A : work[x].job # None => work'[v].job # work[x].job
      /\ \A k \in Keys : rows'[k] = rows[k] \/ \A x \in Workers \ A : work[x].job # k
      /\ \A e \in Entries :
             \/ owner'[e] = owner[e]
             \/ /\ {owner[e], owner'[e]} \subseteq A \cup {None}
                /\ owner'[e] # None => ~ Committed(e)
   OBVIOUS
<1> HIDE DEF A
<1> QED BY <1>1, WorkersOnly

LEMMA NoWorkerActs ==
  ASSUME ExpansionInv, TypeInv', SameTables, Exists(Root)' => Exists(Root),
         UNCHANGED <<hash, clients, audit, work, owner>>,
         \A k \in Keys : rows'[k] = rows[k] \/ \A x \in Workers : work[x].job # k
  PROVE  ExpansionInv'
<1> DEFINE A == {}
<1>1. /\ A \in SUBSET Workers
      /\ \A v \in A : WorkInv(v)'
      /\ \A x \in Workers \ A : work'[x] = work[x]
      /\ \A x \in Workers \ A, v \in A : work[x].job # None => work'[v].job # work[x].job
      /\ \A k \in Keys : rows'[k] = rows[k] \/ \A x \in Workers \ A : work[x].job # k
      /\ \A e \in Entries : owner'[e] = owner[e]
   OBVIOUS
<1> HIDE DEF A
<1> QED BY <1>1, WorkersOnly

(* A worker without a job and without entries. *)
LEMMA IdleWorker ==
  ASSUME NEW w, work'[w] = NoWork, \A e \in Entries : owner'[e] # w
  PROVE  WorkInv(w)'
BY Distinct DEF WorkInv, NoWork

LEMMA NoWorkType ==
  NoWork \in [job : Keys \cup {None}, todo : SUBSET (Coordinates \cup Packages),
              waits : SUBSET (Coordinates \cup Packages), open : BOOLEAN]
BY DEF NoWork

(* The status of a job that exists changes, not to an expanded one. *)
LEMMA StatusChange ==
  ASSUME TypeInv, NEW k \in Keys,
         rows[k].status \in {"pending", "running"},
         NEW st \in Statuses \ {"absent", "completed", "waiting"},
         NEW n \in Nat,
         \/ rows' = [rows EXCEPT ![k].status = st]
         \/ rows' = [rows EXCEPT ![k].status = st, ![k].attempts = n],
         UNCHANGED <<results, relationships>>
  PROVE  /\ SameTables
         /\ rows' \in [Keys -> [status : Statuses, attempts : Nat, parent : Packages \cup {None}]]
         /\ rows'[k].status = st
         /\ \A j \in Keys \ {k} : rows'[j] = rows[j]
         /\ \A j \in Keys : Exists(j)' => Exists(j)
<1>1. rows \in [Keys -> [status : Statuses, attempts : Nat, parent : Packages \cup {None}]]
   BY DEF TypeInv
<1>2. /\ rows' \in [Keys -> [status : Statuses, attempts : Nat, parent : Packages \cup {None}]]
      /\ rows'[k].status = st /\ rows'[k].parent = rows[k].parent
      /\ \A j \in Keys \ {k} : rows'[j] = rows[j]
   BY <1>1
<1>3. \A j \in Keys :
          /\ rows'[j].status \in {"completed", "waiting"} <=> rows[j].status \in {"completed", "waiting"}
          /\ Exists(j) <=> Exists(j)'
          /\ rows'[j].parent = rows[j].parent
   BY <1>2 DEF Exists
<1>4. SameTables
   BY <1>3, Distinct DEF SameTables
<1> QED BY <1>2, <1>3, <1>4

LEMMA ClaimStep ==
  ASSUME ExpansionInv, NEW w \in Workers, Claim(w)
  PROVE  ExpansionInv'
<1>1. work[w].job = None
   BY DEF Claim
<1>2. PICK k \in Keys :
         /\ rows[k].status = "pending"
         /\ rows' = [rows EXCEPT ![k].status = "running", ![k].attempts = @ + 1]
         /\ work' = [work EXCEPT ![w] = [NoWork EXCEPT !.job = k, !.todo = Handle(k)]]
   BY DEF Claim
<1>3. UNCHANGED <<hash, clients, audit, owner, results, relationships>>
   BY DEF Claim
<1>4. TypeInv /\ WorkInv(w)
   BY DEF ExpansionInv
<1>5. rows[k].attempts + 1 \in Nat
   BY <1>4 DEF TypeInv
<1>6. rows' = [rows EXCEPT ![k].status = "running", ![k].attempts = rows[k].attempts + 1]
   BY <1>2
<1>7. /\ SameTables
      /\ rows' \in [Keys -> [status : Statuses, attempts : Nat, parent : Packages \cup {None}]]
      /\ rows'[k].status = "running"
      /\ \A j \in Keys \ {k} : rows'[j] = rows[j]
      /\ \A j \in Keys : Exists(j)' => Exists(j)
   BY <1>2, <1>3, <1>4, <1>5, <1>6, StatusChange DEF Statuses
<1>8. /\ work'[w] = [job |-> k, todo |-> Handle(k), waits |-> {}, open |-> FALSE]
      /\ \A x \in Workers \ {w} : work'[x] = work[x]
   BY <1>2, <1>4 DEF TypeInv, NoWork
<1>9. TypeInv'
   <2>1. Handle(k) \subseteq Coordinates \cup Packages
      BY PackageType
   <2>2. work' \in [Workers -> [job : Keys \cup {None}, todo : SUBSET (Coordinates \cup Packages),
                                waits : SUBSET (Coordinates \cup Packages), open : BOOLEAN]]
      BY <1>2, <1>4, <1>8, <2>1 DEF TypeInv
   <2> QED BY <1>3, <1>4, <1>7, <2>2 DEF TypeInv
<1>10. \A x \in Workers \ {w} : work[x].job # k
   BY <1>1, <1>2, Distinct DEF ExpansionInv, WorkInv
<1>11. WorkInv(w)'
   <2>1. \A e \in Entries : owner'[e] # w
      BY <1>1, <1>3, <1>4 DEF WorkInv
   <2>2. /\ Requires[Package(k)] \ Handle(k) = {}
         /\ k # Root => Package(k) \in Handle(k)
      BY PackageType
   <2>3. work'[w].job = k /\ work'[w].todo = Handle(k) /\ work'[w].waits = {}
      BY <1>8
   <2>4. k # None
      BY Distinct
   <2> QED BY <1>7, <1>8, <1>10, <2>1, <2>2, <2>3, <2>4, Distinct DEF WorkInv
<1> QED BY <1>3, <1>7, <1>8, <1>9, <1>10, <1>11, OneWorkerOnly, Distinct

LEMMA FetchFailsStep ==
  ASSUME ExpansionInv, NEW w \in Workers, NEW permanent \in BOOLEAN, FetchFails(w, permanent)
  PROVE  ExpansionInv'
<1> DEFINE k == work[w].job
<1>1. /\ k # None /\ ~ work[w].open
      /\ work' = [work EXCEPT ![w] = NoWork]
      /\ UNCHANGED <<hash, clients, audit, owner, results, relationships>>
   BY DEF FetchFails
<1>2. TypeInv /\ WorkInv(w) /\ k \in Keys /\ rows[k].status = "running"
   BY <1>1 DEF ExpansionInv, TypeInv, WorkInv
<1>3. PICK st \in {"failed", "pending", "dead_lettered"} : rows' = [rows EXCEPT ![k].status = st]
   BY DEF FetchFails
<1>4. /\ SameTables
      /\ rows' \in [Keys -> [status : Statuses, attempts : Nat, parent : Packages \cup {None}]]
      /\ \A j \in Keys \ {k} : rows'[j] = rows[j]
      /\ \A j \in Keys : Exists(j)' => Exists(j)
   BY <1>1, <1>2, <1>3, StatusChange DEF Statuses
<1>5. work'[w] = NoWork /\ \A x \in Workers \ {w} : work'[x] = work[x]
   BY <1>1, <1>2 DEF TypeInv
<1>6. TypeInv'
   BY <1>1, <1>2, <1>4, NoWorkType DEF TypeInv
<1>7. WorkInv(w)'
   BY <1>1, <1>2, <1>5, IdleWorker DEF WorkInv
<1>8. /\ \A x \in Workers \ {w} : work[x].job # k
      /\ work'[w].job = None
   BY <1>1, <1>2, <1>5 DEF WorkInv, NoWork
<1> QED BY <1>1, <1>4, <1>5, <1>6, <1>7, <1>8, OneWorkerOnly, Distinct

LEMMA ReclaimStep ==
  ASSUME ExpansionInv, ReclaimExpired
  PROVE  ExpansionInv'
<1>1. PICK k \in Keys :
        /\ Abandoned(k)
        /\ rows' = [rows EXCEPT ![k].status = IF rows[k].attempts < MaxAttempts THEN "pending" ELSE "dead_lettered"]
        /\ UNCHANGED <<hash, clients, audit, owner, work, results, relationships>>
   BY DEF ReclaimExpired
<1>2. TypeInv /\ rows[k].status = "running" /\ \A w \in Workers : work[w].job # k
   BY <1>1 DEF ExpansionInv, Abandoned
<1>3. PICK st \in {"pending", "dead_lettered"} : rows' = [rows EXCEPT ![k].status = st]
   BY <1>1
<1>4. /\ SameTables
      /\ rows' \in [Keys -> [status : Statuses, attempts : Nat, parent : Packages \cup {None}]]
      /\ \A j \in Keys \ {k} : rows'[j] = rows[j]
      /\ \A j \in Keys : Exists(j)' => Exists(j)
   BY <1>1, <1>2, <1>3, StatusChange DEF Statuses
<1>5. TypeInv'
   BY <1>1, <1>2, <1>4 DEF TypeInv
<1> QED BY <1>1, <1>2, <1>4, <1>5, NoWorkerActs, Distinct

LEMMA RollbackStep ==
  ASSUME ExpansionInv, NEW w \in Workers, Rollback(w)
  PROVE  ExpansionInv'
<1>1. /\ owner' = [e \in Entries |-> IF owner[e] = w THEN None ELSE owner[e]]
      /\ work' = [work EXCEPT ![w] = NoWork]
      /\ UNCHANGED <<hash, clients, audit, rows, results, relationships>>
   BY DEF Rollback, Release
<1>2. TypeInv
   BY DEF ExpansionInv
<1>3. work'[w] = NoWork /\ work'[w].job = None /\ \A x \in Workers \ {w} : work'[x] = work[x]
   BY <1>1, <1>2 DEF TypeInv, NoWork
<1>4. TypeInv'
   <2>1. owner' \in [Entries -> Clients \cup Workers \cup {None}]
      BY <1>1, <1>2 DEF TypeInv
   <2> QED BY <1>1, <1>2, <2>1, NoWorkType DEF TypeInv
<1>5. WorkInv(w)'
   BY <1>1, <1>3, IdleWorker, Distinct
<1>6. SameTables /\ (Exists(Root)' => Exists(Root))
   BY <1>1 DEF SameTables, Exists
<1>7. \A e \in Entries : owner'[e] = owner[e] \/ (owner[e] = w /\ owner'[e] = None)
   BY <1>1
<1> QED BY <1>1, <1>3, <1>4, <1>5, <1>6, <1>7, OneWorkerOnly, Distinct

(* What an INSERT takes. *)
LEMMA TakeOwners ==
  ASSUME TypeInv, NEW w \in Workers, NEW new, \A e \in new : ~ HeldByOther(w, e), Take(w, new)
  PROVE  /\ owner' \in [Entries -> Clients \cup Workers \cup {None}]
         /\ \A e \in Entries : \/ owner'[e] = owner[e]
                               \/ /\ e \in new /\ ~ Committed(e)
                                  /\ owner[e] \in {w, None} /\ owner'[e] = w
         /\ \A e \in Entries : e \in new => Committed(e) \/ owner'[e] = w
         /\ \A e \in Entries : owner[e] = w => owner'[e] = w
BY DEF TypeInv, Take, HeldByOther

(* The item a worker inserts is a dependency or the package of its job. *)
LEMMA Item ==
  ASSUME ExpansionInv, NEW w \in Workers, NEW item \in NextItems(w)
  PROVE  /\ work[w].job \in Keys /\ work[w].job # None
         /\ item \in work[w].todo
         /\ \/ /\ item \in Requires[Package(work[w].job)] /\ item \in Coordinates
               /\ Inserted(w, item) = {Edge(Package(work[w].job), item), item}
               /\ Edge(Package(work[w].job), item) \in Edges
               /\ item # Package(work[w].job)
            \/ /\ work[w].job # Root /\ item = Package(work[w].job)
               /\ item \notin Requires[Package(work[w].job)]
               /\ Inserted(w, item) = {Result(work[w].job)}
               /\ Result(work[w].job) \in Audited
<1> DEFINE k == work[w].job
<1>1. TypeInv /\ WorkInv(w) /\ EntriesInv
   BY DEF ExpansionInv
<1>2. work[w].waits \subseteq work[w].todo
   BY <1>1 DEF WorkInv
<1>3. item \in work[w].todo
   BY <1>2 DEF NextItems
<1>4. k # None /\ k \in Keys /\ rows[k].status = "running" /\ work[w].todo \subseteq Handle(k)
   BY <1>1, <1>3 DEF WorkInv, TypeInv
<1>5. /\ Package(k) \in Packages
      /\ Requires[Package(k)] \subseteq Coordinates
      /\ Handle(k) = IF k = Root THEN Requires[Package(k)] ELSE Requires[Package(k)] \cup {Package(k)}
   BY <1>4, PackageType
<1>6. CASE item \in Requires[Package(k)]
   <2>1. item \in Coordinates /\ item \notin Packages /\ item # Package(k)
      BY <1>5, <1>6, Distinct
   <2>2. Inserted(w, item) = {Edge(Package(k), item), item}
      BY <2>1 DEF Inserted, Edge, dependencyChildKey
   <2>3. Edge(Package(k), item) \in Edges
      BY <1>5, <1>6, EdgeType
   <2> QED BY <1>3, <1>4, <1>6, <2>1, <2>2, <2>3
<1>7. CASE item \notin Requires[Package(k)]
   <2>1. k # Root /\ item = Package(k)
      BY <1>3, <1>4, <1>5, <1>7
   <2>2. Inserted(w, item) = {Result(k)}
      BY <1>5, <2>1 DEF Inserted, Result
   <2>3. Result(k) \in Audited
      BY <1>1, <1>4, <2>1, ResultType DEF Keys, EntriesInv, Exists
   <2> QED BY <1>3, <1>4, <1>7, <2>1, <2>2, <2>3
<1> QED BY <1>6, <1>7

LEMMA InsertStep ==
  ASSUME ExpansionInv, NEW w \in Workers, Insert(w)
  PROVE  ExpansionInv'
<1> DEFINE k == work[w].job
<1>1. PICK item \in NextItems(w) :
        /\ Conflicts(w, item) = {}
        /\ Take(w, Inserted(w, item))
        /\ work' = [work EXCEPT ![w].open = TRUE, ![w].todo = @ \ {item}, ![w].waits = {}]
        /\ UNCHANGED <<hash, clients, audit, rows, results, relationships>>
   BY DEF Insert
<1>2. TypeInv /\ WorkInv(w)
   BY DEF ExpansionInv
<1>3. \A e \in Inserted(w, item) : ~ HeldByOther(w, e)
   BY <1>1 DEF Conflicts
<1>4. /\ owner' \in [Entries -> Clients \cup Workers \cup {None}]
      /\ \A e \in Entries : \/ owner'[e] = owner[e]
                            \/ /\ e \in Inserted(w, item) /\ ~ Committed(e)
                               /\ owner[e] \in {w, None} /\ owner'[e] = w
      /\ \A e \in Entries : e \in Inserted(w, item) => Committed(e) \/ owner'[e] = w
      /\ \A e \in Entries : owner[e] = w => owner'[e] = w
   BY <1>1, <1>2, <1>3, TakeOwners
<1>5. /\ work'[w].job = k /\ work'[w].todo = work[w].todo \ {item}
      /\ work'[w].waits = {} /\ work'[w].open = TRUE
      /\ \A x \in Workers \ {w} : work'[x] = work[x]
   BY <1>1, <1>2 DEF TypeInv
<1>6. TypeInv'
   <2>1. work' \in [Workers -> [job : Keys \cup {None}, todo : SUBSET (Coordinates \cup Packages),
                                waits : SUBSET (Coordinates \cup Packages), open : BOOLEAN]]
      BY <1>1, <1>2 DEF TypeInv
   <2> QED BY <1>1, <1>2, <1>4, <2>1 DEF TypeInv
<1>7. SameTables /\ (Exists(Root)' => Exists(Root))
   BY <1>1 DEF SameTables, Exists
<1>8. /\ k \in Keys /\ k # None
      /\ item \in work[w].todo
      /\ \/ /\ item \in Requires[Package(k)] /\ item \in Coordinates
            /\ Inserted(w, item) = {Edge(Package(k), item), item}
            /\ Edge(Package(k), item) \in Edges
            /\ item # Package(k)
         \/ /\ k # Root /\ item = Package(k)
            /\ item \notin Requires[Package(k)]
            /\ Inserted(w, item) = {Result(k)}
            /\ Result(k) \in Audited
   BY Item
<1>9. WorkInv(w)'
   <2> HIDE DEF k
   <2>1. /\ rows[k].status = "running"
         /\ \A x \in Workers \ {w} : work[x].job # k
         /\ work[w].todo \subseteq Handle(k)
         /\ \A c \in Coordinates : owner[c] = w => c \in Requires[Package(k)]
         /\ \A e \in Edges : owner[e] = w => e.parent = Package(k)
         /\ \A e \in Audited : owner[e] = w => k # Root /\ e = Result(k)
         /\ \A c \in Requires[Package(k)] \ work[w].todo :
                /\ owner[c] = w \/ Exists(c)
                /\ owner[Edge(Package(k), c)] = w \/ Edge(Package(k), c) \in relationships
         /\ k # Root /\ Package(k) \notin work[w].todo => owner[Result(k)] = w \/ Result(k) \in results
         /\ owner[Root] # w
      BY <1>2, <1>8 DEF WorkInv, k
   <2>2. \A j : Result(j)' = [package |-> Package(j), parent |-> rows[j].parent]
      BY <1>1 DEF Result
   <2>3. rows' = rows /\ relationships' = relationships /\ results' = results
      BY <1>1
   <2>4. owner'[Root] # w
      BY <1>4, <1>8, <2>1, Kinds, Distinct
   <2>5. \A c \in Coordinates : owner'[c] = w => c \in Requires[Package(k)]
      BY <1>4, <1>8, <2>1, Kinds, Distinct
   <2>6. \A e \in Edges : owner'[e] = w => e.parent = Package(k)
      <3>1. Edge(Package(k), item).parent = Package(k)
         BY DEF Edge
      <3> QED BY <1>4, <1>8, <2>1, <3>1, Kinds, Distinct
   <2>7. \A e \in Audited : owner'[e] = w => k # Root /\ e = Result(k)
      BY <1>4, <1>8, <2>1, Kinds, Distinct
   <2>8. ASSUME NEW c \in Requires[Package(k)], c \notin work[w].todo \ {item}
         PROVE  /\ owner'[c] = w \/ Exists(c)
                /\ owner'[Edge(Package(k), c)] = w \/ Edge(Package(k), c) \in relationships
      <3>1. c \in Coordinates /\ Edge(Package(k), c) \in Edges
         BY <1>8, PackageType, EdgeType
      <3>2. CASE c # item
         BY <1>4, <2>1, <2>8, <3>1, <3>2, Distinct
      <3>3. CASE c = item
         <4>1. Inserted(w, item) = {Edge(Package(k), c), c}
            BY <1>8, <3>3
         <4> QED BY <1>2, <1>4, <3>1, <4>1, CommittedKinds, Distinct
      <3> QED BY <3>2, <3>3
   <2>9. ASSUME k # Root, Package(k) \notin work[w].todo \ {item}
         PROVE  owner'[Result(k)] = w \/ Result(k) \in results
      <3>1. Result(k) \in Audited
         <4>1. EntriesInv
            BY DEF ExpansionInv
         <4> QED BY <1>8, <2>1, <2>9, <4>1, ResultType DEF Keys, EntriesInv, Exists
      <3>2. CASE Package(k) # item
         BY <1>4, <2>1, <2>9, <3>1, <3>2, Distinct
      <3>3. CASE Package(k) = item
         <4>1. Inserted(w, item) = {Result(k)}
            BY <1>8, <3>3
         <4> QED BY <1>2, <1>4, <3>1, <4>1, CommittedKinds, Distinct
      <3> QED BY <3>2, <3>3
   <2>10. \A x \in Workers \ {w} : work'[x].job # k
      BY <1>5, <2>1
   <2>11. /\ \A c : Exists(c)' <=> Exists(c)
          /\ \A j : Result(j)' = Result(j)
      BY <2>2, <2>3 DEF Exists, Result
   <2> QED BY <1>5, <1>8, <2>1, <2>3, <2>4, <2>5, <2>6, <2>7, <2>8, <2>9, <2>10, <2>11 DEF WorkInv
<1>10. \A x \in Workers \ {w} : work[x].job # None => work'[w].job # work[x].job
   BY <1>2, <1>5, <1>8 DEF WorkInv
<1> QED BY <1>1, <1>4, <1>5, <1>6, <1>7, <1>9, <1>10, OneWorkerOnly

LEMMA InsertWaitsStep ==
  ASSUME ExpansionInv, NEW w \in Workers, InsertWaits(w)
  PROVE  ExpansionInv'
<1> DEFINE k == work[w].job
<1>1. PICK item \in NextItems(w) :
        /\ Take(w, (Inserted(w, item) \cap Edges) \ Conflicts(w, item))
        /\ work' = [work EXCEPT ![w].open = TRUE, ![w].waits = {item}]
        /\ UNCHANGED <<hash, clients, audit, rows, results, relationships>>
   BY DEF InsertWaits
<1> DEFINE new == (Inserted(w, item) \cap Edges) \ Conflicts(w, item)
<1>2. TypeInv /\ WorkInv(w)
   BY DEF ExpansionInv
<1>3. /\ k \in Keys /\ k # None
      /\ item \in work[w].todo
      /\ \/ Inserted(w, item) = {Edge(Package(k), item), item} /\ item \in Coordinates
         \/ Inserted(w, item) = {Result(k)} /\ Result(k) \in Audited
   BY Item
<1>4. \A e \in new : e \in Edges /\ e.parent = Package(k) /\ ~ HeldByOther(w, e)
   <2>1. Edge(Package(k), item).parent = Package(k)
      BY DEF Edge
   <2> QED BY <1>3, <2>1, Kinds, Distinct DEF Conflicts
<1>5. /\ owner' \in [Entries -> Clients \cup Workers \cup {None}]
      /\ \A e \in Entries : \/ owner'[e] = owner[e]
                            \/ /\ e \in new /\ ~ Committed(e)
                               /\ owner[e] \in {w, None} /\ owner'[e] = w
      /\ \A e \in Entries : owner[e] = w => owner'[e] = w
   <2> HIDE DEF new
   <2>1. Take(w, new)
      BY <1>1 DEF new
   <2> QED BY <1>2, <1>4, <2>1, TakeOwners
<1> HIDE DEF new
<1>6. /\ work'[w].job = k /\ work'[w].todo = work[w].todo
      /\ work'[w].waits = {item} /\ work'[w].open = TRUE
      /\ \A x \in Workers \ {w} : work'[x] = work[x]
   BY <1>1, <1>2 DEF TypeInv
<1>7. TypeInv'
   <2>1. item \in Coordinates \cup Packages
      BY <1>2, <1>3 DEF TypeInv
   <2>2. work' \in [Workers -> [job : Keys \cup {None}, todo : SUBSET (Coordinates \cup Packages),
                                waits : SUBSET (Coordinates \cup Packages), open : BOOLEAN]]
      BY <1>1, <1>2, <2>1 DEF TypeInv
   <2> QED BY <1>1, <1>2, <1>5, <2>2 DEF TypeInv
<1>8. SameTables /\ (Exists(Root)' => Exists(Root))
   BY <1>1 DEF SameTables, Exists
<1>9. WorkInv(w)'
   <2> HIDE DEF k
   <2>1. /\ rows[k].status = "running"
         /\ \A x \in Workers \ {w} : work[x].job # k
         /\ work[w].todo \subseteq Handle(k)
         /\ \A c \in Coordinates : owner[c] = w => c \in Requires[Package(k)]
         /\ \A e \in Edges : owner[e] = w => e.parent = Package(k)
         /\ \A e \in Audited : owner[e] = w => k # Root /\ e = Result(k)
         /\ \A c \in Requires[Package(k)] \ work[w].todo :
                /\ owner[c] = w \/ Exists(c)
                /\ owner[Edge(Package(k), c)] = w \/ Edge(Package(k), c) \in relationships
         /\ k # Root /\ Package(k) \notin work[w].todo => owner[Result(k)] = w \/ Result(k) \in results
         /\ owner[Root] # w
      BY <1>2, <1>3 DEF WorkInv, k
   <2>2. rows' = rows /\ relationships' = relationships /\ results' = results
      BY <1>1
   <2>3. /\ owner'[Root] # w
         /\ \A c \in Coordinates : owner'[c] = w => c \in Requires[Package(k)]
         /\ \A e \in Edges : owner'[e] = w => e.parent = Package(k)
         /\ \A e \in Audited : owner'[e] = w => k # Root /\ e = Result(k)
      BY <1>4, <1>5, <2>1, Kinds, Distinct
   <2>4. \A c \in Requires[Package(k)] \ work[w].todo :
                /\ owner'[c] = w \/ Exists(c)
                /\ owner'[Edge(Package(k), c)] = w \/ Edge(Package(k), c) \in relationships
      <3>1. \A c \in Requires[Package(k)] : c \in Entries /\ Edge(Package(k), c) \in Entries
         BY <1>3, PackageType, EdgeType, Distinct
      <3> QED BY <1>5, <2>1, <3>1
   <2>5. k # Root /\ Package(k) \notin work[w].todo => owner'[Result(k)] = w \/ Result(k) \in results
      <3>1. k # Root => Result(k) \in Entries
         <4>1. EntriesInv
            BY DEF ExpansionInv
         <4> QED BY <1>3, <2>1, <4>1, ResultType, Distinct DEF Keys, EntriesInv, Exists
      <3> QED BY <1>5, <2>1, <3>1
   <2>6. \A x \in Workers \ {w} : work'[x].job # k
      BY <1>6, <2>1
   <2>7. /\ \A c : Exists(c)' <=> Exists(c)
         /\ \A j : Result(j)' = Result(j)
      BY <2>2 DEF Exists, Result
   <2> QED BY <1>3, <1>6, <2>1, <2>2, <2>3, <2>4, <2>5, <2>6, <2>7 DEF WorkInv
<1>10. \A x \in Workers \ {w} : work[x].job # None => work'[w].job # work[x].job
   BY <1>2, <1>3, <1>6 DEF WorkInv
<1> QED BY <1>1, <1>5, <1>6, <1>7, <1>8, <1>9, <1>10, OneWorkerOnly

(***************************************************************************)
(* Complete commits.                                                       *)
(***************************************************************************)

(* What the commit of the job of worker w does to the rows. *)
LEMMA CommitRows ==
  ASSUME ExpansionInv, NEW w \in Workers, CompleteCommits(w), NEW k, k = work[w].job
  PROVE  /\ k \in Keys /\ k # None /\ rows[k].status = "running"
         /\ rows' \in [Keys -> [status : Statuses, attempts : Nat, parent : Packages \cup {None}]]
         /\ rows'[k].status \in {"completed", "waiting"} /\ rows'[k].parent = rows[k].parent
         /\ \A j \in Keys \ {k} : owner[j] # w => rows'[j] = rows[j]
         /\ \A j \in Keys : owner[j] = w => /\ j \in Coordinates /\ j # k /\ ~ Exists(j)
                                            /\ j \in Requires[Package(k)]
                                            /\ rows'[j].status = "pending"
                                            /\ rows'[j].parent = Package(k)
<1>1. TypeInv /\ WorkInv(w) /\ EntriesInv
   BY DEF ExpansionInv
<1>2. /\ k # None
      /\ rows' = [e \in Keys |->
                    IF e = k THEN [rows[e] EXCEPT !.status =
                                       IF k = Root /\ Requires[Project] # {} THEN "waiting" ELSE "completed"]
                    ELSE IF e \in Mine(w) THEN NewRow("pending", Package(k)) ELSE rows[e]]
   BY DEF CompleteCommits
<1>3. k \in Keys /\ rows[k].status = "running"
   BY <1>1, <1>2 DEF TypeInv, WorkInv
<1>4. \A j \in Keys : j \in Mine(w) <=> owner[j] = w
   BY Distinct DEF Mine
<1>5. \A j \in Keys : owner[j] = w => ~ Exists(j)
   BY <1>1, CommittedKinds, Distinct DEF EntriesInv
<1>6. \A j \in Keys : owner[j] = w => j \in Coordinates /\ j \in Requires[Package(k)] /\ j # k
   BY <1>1, <1>2, <1>3, <1>5 DEF WorkInv, Keys, Exists
<1>7. PICK st \in {"completed", "waiting"} : rows'[k] = [rows[k] EXCEPT !.status = st]
   BY <1>2, <1>3
<1>8. rows[k] \in [status : Statuses, attempts : Nat, parent : Packages \cup {None}]
   BY <1>1, <1>3 DEF TypeInv
<1>9. /\ rows'[k].status = st /\ rows'[k].parent = rows[k].parent
      /\ rows'[k] \in [status : Statuses, attempts : Nat, parent : Packages \cup {None}]
   BY <1>7, <1>8 DEF Statuses
<1>10. \A j \in Keys \ {k} : owner[j] # w => rows'[j] = rows[j]
   BY <1>2, <1>4
<1>11. \A j \in Keys : owner[j] = w => rows'[j] = NewRow("pending", Package(k))
   BY <1>2, <1>4, <1>6
<1>12. NewRow("pending", Package(k)) \in [status : Statuses, attempts : Nat, parent : Packages \cup {None}]
   BY <1>3, PackageType DEF NewRow, Statuses
<1>13. NewRow("pending", Package(k)).status = "pending" /\ NewRow("pending", Package(k)).parent = Package(k)
   BY DEF NewRow
<1>14. rows' \in [Keys -> [status : Statuses, attempts : Nat, parent : Packages \cup {None}]]
   <2>1. \A j \in Keys : rows'[j] \in [status : Statuses, attempts : Nat, parent : Packages \cup {None}]
      BY <1>1, <1>9, <1>10, <1>11, <1>12 DEF TypeInv
   <2> QED BY <1>2, <2>1
<1> QED BY <1>2, <1>3, <1>5, <1>6, <1>9, <1>10, <1>11, <1>13, <1>14

(* The job has inserted all it had to, so that the tables grow by exactly  *)
(* its own expansion.                                                      *)
LEMMA CommitTables ==
  ASSUME ExpansionInv, NEW w \in Workers, CompleteCommits(w)
  PROVE  /\ TablesInv' /\ ReachInv'
         /\ results' \subseteq Audited /\ relationships' \subseteq Edges
<1> DEFINE k == work[w].job
<1>1. TypeInv /\ WorkInv(w) /\ EntriesInv /\ TablesInv /\ ReachInv
   BY DEF ExpansionInv
<1>2. /\ work[w].todo = {}
      /\ results' = results \cup (Mine(w) \cap Audited)
      /\ relationships' = relationships \cup (Mine(w) \cap Edges)
   BY DEF CompleteCommits
<1> HIDE DEF k
<1>3. /\ k \in Keys /\ k # None /\ rows[k].status = "running"
      /\ rows'[k].status \in {"completed", "waiting"} /\ rows'[k].parent = rows[k].parent
      /\ \A j \in Keys \ {k} : owner[j] # w => rows'[j] = rows[j]
      /\ \A j \in Keys : owner[j] = w => /\ j \in Coordinates /\ j # k /\ ~ Exists(j)
                                         /\ j \in Requires[Package(k)]
                                         /\ rows'[j].status = "pending"
   BY CommitRows DEF k
<1>4. /\ \A c \in Requires[Package(k)] :
            /\ owner[c] = w \/ Exists(c)
            /\ owner[Edge(Package(k), c)] = w \/ Edge(Package(k), c) \in relationships
      /\ k # Root => owner[Result(k)] = w \/ Result(k) \in results
      /\ \A e \in Edges : owner[e] = w => e.parent = Package(k)
      /\ \A e \in Audited : owner[e] = w => k # Root /\ e = Result(k)
   BY <1>1, <1>2, <1>3 DEF WorkInv, k
<1>5. \A j \in Keys : Exists(j)' <=> Exists(j) \/ owner[j] = w
   BY <1>3 DEF Exists
<1>6. Expanded' = Expanded \cup {k}
   <2>1. \A j \in Keys : j \in Expanded' <=> j \in Expanded \/ j = k
      BY <1>3 DEF Expanded, Exists
   <2>2. Expanded \subseteq Keys /\ Expanded' \subseteq Keys
      BY DEF Expanded
   <2> QED BY <1>3, <2>1, <2>2
<1>7. \A j \in Expanded \cup {k} : [package |-> Package(j), parent |-> rows'[j].parent] = Result(j)
   <2>1. \A j \in Expanded \cup {k} : rows'[j].parent = rows[j].parent
      BY <1>3 DEF Expanded, Exists
   <2> QED BY <2>1 DEF Result
<1>8. \A e \in Edges \cup Audited : e \in Mine(w) <=> owner[e] = w
   BY Distinct DEF Mine
<1>9. \A c \in Coordinates : Exists(c)' <=> \E j \in Expanded' : c \in Requires[Package(j)]
   BY <1>1, <1>3, <1>4, <1>5, <1>6, Distinct DEF TablesInv
<1>10. \A r \in Audited : r \in results' <=>
          \E j \in Expanded' \ {Root} : r = [package |-> Package(j), parent |-> rows'[j].parent]
   <2>1. \A r \in Audited : r \in results' <=> r \in results \/ owner[r] = w
      BY <1>2, <1>8
   <2>2. k # Root => Result(k) \in Audited
      BY <1>1, <1>3, ResultType DEF Keys, EntriesInv, Exists
   <2>3. \A r \in Audited : r \in results' <=> \E j \in (Expanded \cup {k}) \ {Root} : r = Result(j)
      BY <1>1, <1>4, <2>1, <2>2 DEF TablesInv
   <2> QED BY <1>6, <1>7, <2>3
<1>11. \A e \in Edges : e \in relationships' <=> \E j \in Expanded' : e.parent = Package(j)
   <2>1. \A e \in Edges : e \in relationships' <=> e \in relationships \/ owner[e] = w
      BY <1>2, <1>8
   <2>2. \A e \in Edges : e.parent = Package(k) => e \in relationships \/ owner[e] = w
      BY <1>4, EdgeType
   <2> QED BY <1>1, <1>4, <1>6, <2>1, <2>2 DEF TablesInv
<1>12. TablesInv'
   BY <1>9, <1>10, <1>11 DEF TablesInv, Result
<1>13. ReachInv'
   <2> SUFFICES ASSUME NEW S \in SUBSET Packages, Closed(S), NEW c \in Coordinates, Exists(c)'
                PROVE  Resolve[c] \in S
      BY DEF ReachInv, Closed
   <2>1. CASE Exists(c)
      BY <1>1, <2>1 DEF ReachInv
   <2>2. CASE owner[c] = w
      <3>1. c \in Requires[Package(k)]
         BY <1>3, <2>2, Distinct
      <3>2. Package(k) \in S \cup {Project}
         BY <1>1, <1>3 DEF ReachInv, Keys, Package, Exists
      <3> QED BY <3>1, <3>2 DEF Closed
   <2> QED BY <1>5, <2>1, <2>2, Distinct
<1> QED BY <1>1, <1>2, <1>12, <1>13 DEF TypeInv

LEMMA CompleteCommitsStep ==
  ASSUME ExpansionInv, NEW w \in Workers, CompleteCommits(w)
  PROVE  ExpansionInv'
<1> DEFINE k == work[w].job
<1>1. /\ results' = results \cup (Mine(w) \cap Audited)
      /\ relationships' = relationships \cup (Mine(w) \cap Edges)
      /\ owner' = [e \in Entries |-> IF owner[e] = w THEN None ELSE owner[e]]
      /\ work' = [work EXCEPT ![w] = NoWork]
      /\ UNCHANGED <<hash, clients, audit>>
   BY DEF CompleteCommits, Release
<1>2. TypeInv /\ WorkInv(w) /\ EntriesInv
   BY DEF ExpansionInv
<1>3. /\ k \in Keys /\ k # None /\ rows[k].status = "running"
      /\ rows' \in [Keys -> [status : Statuses, attempts : Nat, parent : Packages \cup {None}]]
      /\ rows'[k].status \in {"completed", "waiting"} /\ rows'[k].parent = rows[k].parent
      /\ \A j \in Keys \ {k} : owner[j] # w => rows'[j] = rows[j]
      /\ \A j \in Keys : owner[j] = w => /\ j \in Coordinates /\ j # k /\ ~ Exists(j)
                                         /\ j \in Requires[Package(k)]
                                         /\ rows'[j].status = "pending"
                                         /\ rows'[j].parent = Package(k)
   BY CommitRows
<1>4. /\ TablesInv' /\ ReachInv'
      /\ results' \subseteq Audited /\ relationships' \subseteq Edges
   BY CommitTables
<1>5. work'[w] = NoWork /\ work'[w].job = None /\ \A x \in Workers \ {w} : work'[x] = work[x]
   BY <1>1, <1>2 DEF TypeInv, NoWork
<1>6. TypeInv'
   <2>1. owner' \in [Entries -> Clients \cup Workers \cup {None}]
      BY <1>1, <1>2 DEF TypeInv
   <2> QED BY <1>1, <1>2, <1>3, <1>4, <2>1, NoWorkType DEF TypeInv
<1>7. \A j \in Keys : Exists(j)' <=> Exists(j) \/ owner[j] = w
   BY <1>3 DEF Exists
<1>8. ASSUME NEW c \in Clients
      PROVE  ClientInv(c)'
   <2>1. \A e \in Entries : owner'[e] = c <=> owner[e] = c
      BY <1>1, Distinct
   <2> QED BY <1>1, <1>7, <2>1, ClientFrame, Distinct
<1>9. ASSUME NEW x \in Workers
      PROVE  WorkInv(x)'
   <2>1. CASE x = w
      BY <1>1, <1>5, <2>1, IdleWorker, Distinct
   <2>2. CASE x # w
      <3>1. WorkInv(x) /\ work[x].job \in Keys \cup {None}
         BY <1>2 DEF ExpansionInv, TypeInv
      <3>2. \A e \in Entries : owner'[e] = x <=> owner[e] = x
         BY <1>1, <2>2, Distinct
      <3>3. work[x].job # None => rows'[work[x].job] = rows[work[x].job]
         BY <1>2, <1>3, <2>2, <3>1 DEF WorkInv, Exists
      <3>4. work[x].job # None => \A y \in Workers \ {x} : work'[y].job # work[x].job
         BY <1>5, <3>1 DEF WorkInv
      <3> QED BY <1>1, <1>5, <1>7, <2>2, <3>2, <3>3, <3>4, WorkFrame
   <2> QED BY <2>1, <2>2
<1>10. EntriesInv'
   <2>1. \A e \in Entries : Committed(e)' <=> Committed(e) \/ owner[e] = w
      <3>1. \A j \in Keys : Committed(j)' <=> Committed(j) \/ owner[j] = w
         BY <1>2, <1>6, <1>7, CommittedKinds, CommittedKindsNext
      <3>2. \A e \in Edges \cup Audited : e \in Mine(w) <=> owner[e] = w
         BY Distinct DEF Mine
      <3>3. \A e \in Edges : Committed(e)' <=> Committed(e) \/ owner[e] = w
         BY <1>1, <1>2, <1>6, <3>2, CommittedKinds, CommittedKindsNext
      <3>4. \A e \in Audited : Committed(e)' <=> Committed(e) \/ owner[e] = w
         BY <1>1, <1>2, <1>6, <3>2, CommittedKinds, CommittedKindsNext
      <3> QED BY <3>1, <3>3, <3>4 DEF Entries
   <2>2. \A e \in Entries : owner'[e] # None => ~ Committed(e)'
      BY <1>1, <1>2, <2>1 DEF EntriesInv
   <2>3. \A c \in Coordinates : Exists(c)' => rows'[c].parent \in Packages /\ c \in Requires[rows'[c].parent]
      BY <1>2, <1>3, <1>7, PackageType, Distinct DEF EntriesInv
   <2> QED BY <2>2, <2>3 DEF EntriesInv
<1> QED BY <1>4, <1>6, <1>8, <1>9, <1>10 DEF ExpansionInv

(***************************************************************************)
(* The theorems.                                                           *)
(***************************************************************************)

LEMMA InvInit == Init => ExpansionInv
<1> SUFFICES ASSUME Init PROVE ExpansionInv
   OBVIOUS
<1>1. /\ clients = [c \in Clients |-> [phase |-> "idle", answer |-> "none", id |-> None]]
      /\ audit.id = None
      /\ rows = [k \in Keys |-> NewRow("absent", None)]
      /\ owner = [e \in Entries |-> None]
      /\ work = [w \in Workers |-> NoWork]
      /\ results = {} /\ relationships = {}
   BY DEF Init
<1>2. \A k \in Keys : ~ Exists(k) /\ rows[k].status = "absent"
   BY <1>1 DEF NewRow, Exists
<1>3. TypeInv
   <2>1. NewRow("absent", None) \in [status : Statuses, attempts : Nat, parent : Packages \cup {None}]
      BY DEF NewRow, Statuses
   <2>2. [phase |-> "idle", answer |-> "none", id |-> None] \in ClientStates
      BY DEF ClientStates
   <2> QED BY <1>1, <2>1, <2>2, NoWorkType DEF TypeInv
<1>4. \A c \in Clients : ClientInv(c)
   BY <1>1, Distinct DEF ClientInv
<1>5. \A w \in Workers : WorkInv(w)
   BY <1>1, Distinct DEF WorkInv, NoWork
<1>6. EntriesInv
   BY <1>1, <1>2, Distinct DEF EntriesInv
<1>7. TablesInv
   <2>1. Expanded = {}
      BY <1>2 DEF Expanded
   <2> QED BY <1>1, <1>2, <2>1, Distinct DEF TablesInv
<1>8. ReachInv
   BY <1>2, Distinct DEF ReachInv
<1> QED BY <1>3, <1>4, <1>5, <1>6, <1>7, <1>8 DEF ExpansionInv

LEMMA InvStep == ExpansionInv /\ [Next]_vars => ExpansionInv'
<1> SUFFICES ASSUME ExpansionInv, [Next]_vars PROVE ExpansionInv'
   OBVIOUS
<1>1. ASSUME NEW c \in Clients, ClientStep(c) \/ SubmitCommits(c, FALSE) \/ SubmitAborts(c)
      PROVE  ExpansionInv'
   BY <1>1, SubmitWaitsStep, SubmitInsertsStep, SubmitFindsStep, SubmitCommitsStep, SubmitAbortsStep
      DEF ClientStep
<1>2. ASSUME NEW w \in Workers, WorkerStep(w)
      PROVE  ExpansionInv'
   BY <1>2, ClaimStep, InsertStep, InsertWaitsStep, CompleteCommitsStep, RollbackStep
      DEF WorkerStep, DeadlockAborts
<1>3. ASSUME NEW w \in Workers, FetchFails(w, TRUE) \/ FetchFails(w, FALSE) \/ CompleteAborts(w)
      PROVE  ExpansionInv'
   BY <1>3, FetchFailsStep, RollbackStep DEF CompleteAborts
<1>4. CASE UNCHANGED vars
   <2>1. UNCHANGED <<hash, clients, audit, rows, owner, work, results, relationships>>
      BY <1>4 DEF vars
   <2>2. SameTables /\ (Exists(Root)' => Exists(Root))
      BY <2>1 DEF SameTables, Exists
   <2>3. TypeInv'
      BY <2>1 DEF ExpansionInv, TypeInv
   <2> QED BY <2>1, <2>2, <2>3, NoWorkerActs
<1> QED BY <1>1, <1>2, <1>3, <1>4, ReclaimStep DEF Next, Progress, Fault, Terminated

(* The invariant of the expansion holds in every reachable state. *)
THEOREM ExpansionInvHolds == Spec => []ExpansionInv
BY InvInit, InvStep, PTL DEF Spec

(* Clients that submit under one idempotency key, at the same time, with   *)
(* broken transactions and lost answers, are told of one job, and it is    *)
(* announced as new at most once (Submit).                                 *)
THEOREM IdempotentSubmitHolds == Spec => []IdempotentSubmit
<1>1. ExpansionInv => IdempotentSubmit
   <2> SUFFICES ASSUME ExpansionInv PROVE IdempotentSubmit
      OBVIOUS
   <2> DEFINE creators == {c \in Clients : clients[c].answer = "created"}
   <2>1. \A c \in Clients : ClientInv(c)
      BY DEF ExpansionInv
   <2>2. \A c \in creators : c = audit.id
      BY <2>1 DEF ClientInv
   <2>3. creators = {} \/ creators = {audit.id}
      BY <2>2
   <2>4. Cardinality(creators) <= 1
      <3> HIDE DEF creators
      <3>1. Cardinality({}) = 0 /\ Cardinality({audit.id}) = 1
         BY FS_EmptySet, FS_Singleton
      <3> QED BY <2>3, <3>1
   <2> QED BY <2>1, <2>4 DEF IdempotentSubmit, ClientInv
<1> QED BY <1>1, ExpansionInvHolds, PTL

(* The rows of jobs, audit_results and audit_relationships are exactly the *)
(* expansion of the jobs that completed, whatever transactions wait for    *)
(* each other, are rolled back or find their rows already there (Complete).*)
THEOREM TablesMatchExpansionHolds == Spec => []TablesMatchExpansion
<1>1. ExpansionInv => TablesMatchExpansion
   <2> SUFFICES ASSUME ExpansionInv PROVE TablesMatchExpansion
      OBVIOUS
   <2> DEFINE finished == {Package(k) : k \in Expanded}
   <2>1. TypeInv /\ EntriesInv /\ TablesInv
      BY DEF ExpansionInv
   <2>2. Expanded \subseteq Keys /\ \A k \in Expanded : Exists(k)
      BY DEF Expanded, Exists
   <2>3. {k \in Coordinates : rows[k].status # "absent"} =
            {dependencyChildKey(c) : c \in UNION {Requires[p] : p \in finished}}
      <3>1. \A c \in UNION {Requires[p] : p \in finished} : c \in Coordinates
         BY <2>2, PackageType
      <3>2. \A c \in Coordinates :
               Exists(c) <=> c \in UNION {Requires[p] : p \in finished}
         BY <2>1 DEF TablesInv
      <3> QED BY <3>1, <3>2 DEF dependencyChildKey, Exists
   <2>4. results = {[package |-> Package(k), parent |-> rows[k].parent] : k \in Expanded \ {Root}}
      <3>1. \A k \in Expanded \ {Root} : Result(k) \in Audited
         BY <2>1, <2>2, ResultType DEF Keys, EntriesInv
      <3>2. \A r \in results : \E k \in Expanded \ {Root} : r = Result(k)
         BY <2>1 DEF TypeInv, TablesInv
      <3>3. \A k \in Expanded \ {Root} : Result(k) \in results
         BY <2>1, <3>1 DEF TablesInv
      <3> QED BY <3>2, <3>3 DEF Result
   <2>5. relationships = {e \in Edges : e.parent \in finished}
      BY <2>1 DEF TypeInv, TablesInv
   <2> QED BY <2>3, <2>4, <2>5 DEF TablesMatchExpansion
<1> QED BY <1>1, ExpansionInvHolds, PTL

(* An audit all of whose jobs completed has audited the packages that can  *)
(* be reached from the manifests, all of them and no others.               *)
THEOREM AuditCoversGraphHolds == Spec => []AuditCoversGraph
<1>1. ExpansionInv => AuditCoversGraph
   <2> SUFFICES ASSUME ExpansionInv, Settled,
                       \A k \in Keys : rows[k].status \in {"absent", "waiting", "completed"}
                PROVE  LET audited == {r.package : r \in results}
                       IN  Closed(audited) /\ \A S \in SUBSET Packages : Closed(S) => audited \subseteq S
      BY DEF AuditCoversGraph
   <2> DEFINE audited == {r.package : r \in results}
   <2>1. TypeInv /\ EntriesInv /\ TablesInv /\ ReachInv
      BY DEF ExpansionInv
   <2>2. \A k \in Keys : Exists(k) <=> k \in Expanded
      BY DEF Exists, Expanded
   <2>3. \A k \in Coordinates : Result(k).package = Resolve[k]
      BY Distinct DEF Result, Package
   <2>4. \A r \in results : \E k \in Coordinates : Exists(k) /\ r.package = Resolve[k]
      <3>1. \A r \in results : \E k \in Expanded \ {Root} : r = Result(k)
         BY <2>1 DEF TypeInv, TablesInv
      <3>2. \A k \in Expanded \ {Root} : k \in Coordinates
         BY DEF Expanded, Keys
      <3> QED BY <2>2, <2>3, <3>1, <3>2, Distinct
   <2>5. \A k \in Coordinates : Exists(k) => Resolve[k] \in audited
      <3> SUFFICES ASSUME NEW k \in Coordinates, Exists(k) PROVE Resolve[k] \in audited
         OBVIOUS
      <3>1. Result(k) \in Audited
         BY <2>1, ResultType DEF EntriesInv
      <3>2. Result(k) \in results
         BY <2>1, <2>2, <3>1, Distinct DEF TablesInv
      <3> QED BY <2>3, <3>2
   <2>6. Root \in Expanded
      <3>1. PICK c \in Clients : TRUE
         BY ExpansionAssumption DEF ExpansionAssumption
      <3>2. clients[c].phase = "done" /\ ClientInv(c)
         BY DEF Settled, ExpansionInv
      <3> QED BY <2>2, <3>2, Distinct DEF ClientInv
   <2>7. Closed(audited)
      <3> SUFFICES ASSUME NEW p \in audited \cup {Project}, NEW c \in Requires[p]
                   PROVE  Resolve[c] \in audited
         BY DEF Closed
      <3>1. PICK k \in Expanded : p = Package(k)
         <4>1. CASE p = Project
            BY <2>6, <4>1 DEF Package
         <4>2. CASE p \in audited
            <5>1. PICK k \in Coordinates : Exists(k) /\ p = Resolve[k]
               BY <2>4, <4>2
            <5> QED BY <2>2, <5>1, Distinct DEF Package
         <4> QED BY <4>1, <4>2
      <3>2. k \in Keys
         BY DEF Expanded
      <3>3. c \in Coordinates /\ Exists(c)
         BY <2>1, <3>1, <3>2, PackageType DEF TablesInv
      <3> QED BY <2>5, <3>3
   <2>8. ASSUME NEW S \in SUBSET Packages, Closed(S)
         PROVE  audited \subseteq S
      BY <2>1, <2>4, <2>8 DEF ReachInv
   <2> QED BY <2>7, <2>8
<1> QED BY <1>1, ExpansionInvHolds, PTL

=============================================================================
