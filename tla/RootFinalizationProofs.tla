----------------------- MODULE RootFinalizationProofs -----------------------
(***************************************************************************)
(* Proofs about RootFinalization, for any number of children and any       *)
(* bounds: the invariant of the transactions, that no row ends twice, that *)
(* a closed root has left nobody behind, that only Cancel and a child can  *)
(* deadlock, and that the transactions that end children and cancel a tree *)
(* are atomic, up to two named exceptions.                                 *)
(*                                                                         *)
(* Every action is a step of one transaction.  KidFrame and CancelFrame    *)
(* say what it must leave alone for the invariant of the others to hold.   *)
(***************************************************************************)
EXTENDS RootFinalization, TLAPS

USE DEF Terminal, Queued, Active, Status, Rows, Txs, Unwritten

(* The constants are different from each other where it matters. *)
LEMMA Distinct ==
  /\ Root \notin Kids
  /\ Root \in Rows
  /\ Kids \subseteq Rows
  /\ Kids \subseteq Txs
  /\ Canceller \in Txs
  /\ Canceller \notin Kids
  /\ NoTx \notin Txs
BY RootFinalizationAssumption DEF RootFinalizationAssumption

(* What a statement of t sees of row r. *)
LEMMA ViewAt ==
  ASSUME NEW t, NEW r \in Rows
  PROVE  /\ mine[t][r] = Unwritten => View(t)[r] = status[r]
         /\ mine[t][r] # Unwritten => View(t)[r] = mine[t][r]
BY DEF View

(* Only what a view shows of the children matters for the outcome. *)
LEMMA SameOutcome ==
  ASSUME NEW v, NEW w, \A c \in Kids : v[c] = w[c]
  PROVE  RootOutcome(v) = RootOutcome(w)
<1>1. {v[c] : c \in Kids} = {w[c] : c \in Kids}
   OBVIOUS
<1> QED BY <1>1 DEF RootOutcome

LEMMA OutcomeCloses ==
  ASSUME NEW v
  PROVE  RootOutcome(v) \in Terminal \ {"cancelled"}
BY DEF RootOutcome

(* While k has counted no active child there is none but k. *)
LEMMA NobodyActive ==
  ASSUME TxInv, NEW k \in Kids,
         pc[k] \in {"tally", "close"} \/ mine[k][Root] # Unwritten,
         NEW c \in Kids, c # k
  PROVE  /\ mine[k][c] = Unwritten
         /\ status[c] \notin Active
         /\ pc[c] = "begin"
<1>1. KidInv(k) /\ KidInv(c) /\ c \in Rows
   BY Distinct DEF TxInv
<1>2. View(k)[c] \notin Active
   BY <1>1 DEF KidInv
<1>3. mine[k][c] = Unwritten
   BY <1>1, <1>2, ViewAt DEF KidInv
<1>4. status[c] \notin Active
   BY <1>1, <1>2, <1>3, ViewAt
<1> QED BY <1>1, <1>3, <1>4 DEF KidInv

(***************************************************************************)
(* What other transactions must leave alone.                               *)
(***************************************************************************)

(* The invariant of child k survives the step of another transaction that  *)
(* keeps k's locked rows and the rows k inserts, makes nobody active once  *)
(* k has counted, and ends nobody while k holds the root of an update scan.*)
LEMMA KidFrame ==
  ASSUME TxInv, NEW k \in Kids,
         mine'[k] = mine[k], pc'[k] = pc[k], closing'[k] = closing[k], rootType' = rootType,
         status'[k] # "waiting",
         pc[k] # "begin" => status'[k] = status[k] /\ lock'[k] = lock[k],
         lock[Root] = k => lock'[Root] = k /\ status'[Root] = status[Root],
         \A c \in Kids \ {k} : mine[k][c] # Unwritten =>
             status'[c] = status[c] /\ \A t \in Kids \ {k} : mine'[t][c] = Unwritten,
         pc[k] \in {"tally", "close"} \/ mine[k][Root] # Unwritten =>
             \A c \in Kids : status[c] \notin Active => status'[c] \notin Active,
         IsScan /\ lock[Root] = k =>
             \A c \in Kids : /\ status[c] \in Active => status'[c] \in Active
                             /\ status[c] \notin Active => status'[c] = status[c]
  PROVE  KidInv(k)' /\ ScanInv(k)'
<1>1. KidInv(k) /\ ScanInv(k) /\ TypeOK
   BY DEF TxInv
<1>2. IsScan' <=> IsScan
   BY DEF IsScan
<1>3. \A c \in Kids : /\ mine[k][c] = Unwritten => View(k)[c] = status[c] /\ View(k)'[c] = status'[c]
                      /\ mine[k][c] # Unwritten => View(k)[c] = mine[k][c] /\ View(k)'[c] = mine[k][c]
   BY Distinct DEF View
<1>4. ASSUME pc[k] \in {"tally", "close"} \/ mine[k][Root] # Unwritten, NEW c \in Kids
      PROVE  View(k)'[c] \notin Active /\ View(k)[c] \notin Active
   <2>1. View(k)[c] \notin Active
      BY <1>1, <1>4 DEF KidInv
   <2> QED BY <1>3, <1>4, <2>1
<1>5. KidInv(k)'
   <2>1. /\ pc[k] = "begin" => mine'[k] = NoWrites
         /\ pc[k] \in {"begin", "insert", "lock_root", "count", "tally", "close", "commit"}
         /\ pc[k] # "begin" =>
               status'[k] = "running" /\ lock'[k] = k /\ mine[k][k] \in Terminal \cup Queued
      BY <1>1 DEF KidInv
   <2>2. \A c \in Kids \ {k} : mine[k][c] # Unwritten =>
           /\ ~ IsScan
           /\ mine[k][c] = "pending"
           /\ status'[c] = "absent"
           /\ \A t \in Kids \ {k} : mine'[t][c] = Unwritten
      BY <1>1 DEF KidInv
   <2>3. mine[k][Root] # Unwritten =>
           /\ pc[k] = "commit"
           /\ lock'[Root] = k
           /\ status'[Root] = "waiting"
           /\ mine[k][Root] \in Terminal \ {"cancelled"}
      BY <1>1 DEF KidInv
   <2>4. /\ pc[k] = "insert" => ~ IsScan /\ \A r \in Rows \ {k} : mine[k][r] = Unwritten
         /\ pc[k] \in {"insert", "lock_root", "count", "tally", "close"} => mine[k][k] \in Terminal
         /\ pc[k] = "close" => closing[k] \in Terminal \ {"cancelled"}
      BY <1>1 DEF KidInv
   <2>5. NoWrites' = NoWrites
      BY DEF NoWrites
   <2> QED BY <1>2, <1>4, <2>1, <2>2, <2>3, <2>4, <2>5 DEF KidInv
<1>6. ScanInv(k)'
   <2> SUFFICES ASSUME IsScan PROVE ScanInv(k)'
      BY <1>2 DEF ScanInv
   <2>1. ASSUME lock[Root] = k, NEW c \in Kids
         PROVE  /\ View(k)[c] \in Active => View(k)'[c] \in Active
                /\ View(k)[c] \notin Active => View(k)'[c] = View(k)[c]
      BY <1>3, <2>1
   <2>2. mine[k][k] \in Terminal /\ pc[k] # "lock_root" => lock[Root] = k
      BY <1>1 DEF ScanInv
   <2>3. ASSUME pc[k] = "commit", mine[k][k] \in Terminal, mine[k][Root] = Unwritten,
                status'[Root] = "waiting"
         PROVE  \E c \in Kids : View(k)'[c] \in Active
      <3>1. lock[Root] = k
         BY <2>2, <2>3
      <3>2. status[Root] = "waiting"
         BY <2>3, <3>1
      <3>3. PICK c \in Kids : View(k)[c] \in Active
         BY <1>1, <2>3, <3>2 DEF ScanInv
      <3> QED BY <2>1, <3>1, <3>3
   <2>4. mine[k][k] \in Terminal /\ pc[k] # "lock_root" => lock'[Root] = k
      BY <2>2
   <2> QED BY <2>3, <2>4 DEF ScanInv
<1> QED BY <1>5, <1>6

(* The invariant of the canceller survives the step of a child that leaves *)
(* its locked rows alone.                                                  *)
LEMMA CancelFrame ==
  ASSUME TxInv, mine'[Canceller] = mine[Canceller], pc'[Canceller] = pc[Canceller], todo' = todo,
         \A r \in Rows : lock[r] = Canceller => lock'[r] = Canceller /\ status'[r] = status[r]
  PROVE  CancelInv'
<1>1. CancelInv
   BY DEF TxInv
<1>2. NoWrites' = NoWrites
   BY DEF NoWrites
<1> QED BY <1>1, <1>2, Distinct DEF CancelInv

(***************************************************************************)
(* The steps of a child.                                                   *)
(***************************************************************************)

LEMMA TxInvInit == Init => TxInv
<1> SUFFICES ASSUME Init PROVE TxInv
   OBVIOUS
<1>1. /\ status \in [Rows -> {"waiting", "pending", "absent"}]
      /\ status[Root] = "waiting"
      /\ \A k \in Kids : status[k] # "waiting"
   BY Distinct DEF Init, FirstStatus
<1>2. /\ \A t \in Txs : mine[t] = NoWrites /\ pc[t] = "begin"
      /\ \A t \in Txs, r \in Rows : mine[t][r] = Unwritten
   BY DEF Init, NoWrites
<1>3. TypeOK
   BY <1>1, RootFinalizationAssumption DEF RootFinalizationAssumption, Init, NoWrites, TypeOK
<1>4. ASSUME NEW k \in Kids
      PROVE  KidInv(k) /\ ScanInv(k)
   BY <1>1, <1>2, Distinct DEF KidInv, ScanInv
<1>5. CancelInv
   BY <1>2, Distinct DEF CancelInv
<1> QED BY <1>1, <1>3, <1>4, <1>5 DEF TxInv, ClosedRootHasNoActiveKid

(* A step that changes no committed status keeps the closed root closed.   *)
LEMMA SameStatus ==
  ASSUME TxInv, TypeOK', status' = status,
         \A k \in Kids : KidInv(k)' /\ ScanInv(k)', CancelInv'
  PROVE  TxInv'
BY DEF TxInv, ClosedRootHasNoActiveKid

LEMMA ClaimStep ==
  ASSUME TxInv, NEW i \in Kids, Claim(i)
  PROVE  TxInv'
<1>1. /\ status[i] \in Queued
      /\ lock[i] = NoTx
      /\ status' = [status EXCEPT ![i] = "running"]
      /\ attempted' = attempted \cup {i}
      /\ UNCHANGED <<requested, lock, mine, pc, marks, todo, closing, rootType, retries, aborts>>
   BY DEF Claim, locals
<1>2. TypeOK /\ status \in [Rows -> Status]
   BY DEF TxInv, TypeOK
<1>3. /\ status'[i] = "running"
      /\ \A r \in Rows \ {i} : status'[r] = status[r]
   BY <1>1, <1>2, Distinct
<1>4. TypeOK'
   BY <1>1, <1>2 DEF TypeOK
<1>5. ASSUME NEW k \in Kids
      PROVE  KidInv(k)' /\ ScanInv(k)'
   <2>1. KidInv(k)
      BY DEF TxInv
   <2>2. pc[k] # "begin" => status'[k] = status[k]
      BY <1>1, <1>3, <2>1, Distinct DEF KidInv
   <2>3. status'[k] # "waiting"
      BY <1>3, <2>1, Distinct DEF KidInv
   <2>4. \A c \in Kids \ {k} : mine[k][c] # Unwritten =>
             status'[c] = status[c] /\ \A t \in Kids \ {k} : mine'[t][c] = Unwritten
      BY <1>1, <1>3, <2>1, Distinct DEF KidInv
   <2>5. \A c \in Kids : /\ status[c] \in Active => status'[c] \in Active
                         /\ status[c] \notin Active => status'[c] = status[c]
      BY <1>1, <1>3, Distinct
   <2>6. status'[Root] = status[Root]
      BY <1>3, Distinct
   <2> QED BY <1>1, <2>2, <2>3, <2>4, <2>5, <2>6, KidFrame
<1>6. CancelInv'
   <2>1. \A r \in Rows : lock[r] = Canceller => lock'[r] = Canceller /\ status'[r] = status[r]
      BY <1>1, <1>3, Distinct
   <2> QED BY <1>1, <2>1, CancelFrame
<1>7. /\ status'[Root] = status[Root]
      /\ ClosedRootHasNoActiveKid'
   BY <1>1, <1>3, Distinct DEF TxInv, ClosedRootHasNoActiveKid
<1> QED BY <1>4, <1>5, <1>6, <1>7 DEF TxInv

(* A statement of child i that commits nothing: it may lock free rows and  *)
(* insert rows nobody else writes.                                         *)
LEMMA KidStatement ==
  ASSUME TxInv, TypeOK', NEW i \in Kids, KidInv(i)', ScanInv(i)',
         UNCHANGED <<status, requested, marks, todo, rootType>>,
         \A t \in Txs \ {i} : mine'[t] = mine[t] /\ pc'[t] = pc[t],
         \A k \in Kids \ {i} : closing'[k] = closing[k],
         \A r \in Rows : lock[r] \notin {NoTx, i} => lock'[r] = lock[r],
         \A c \in Kids \ {i} : mine'[i][c] # mine[i][c] =>
             mine'[i][c] = Unwritten \/ \A t \in Txs : mine[t][c] = Unwritten
  PROVE  TxInv'
<1>1. ASSUME NEW k \in Kids, k # i
      PROVE  KidInv(k)' /\ ScanInv(k)'
   <2>1. KidInv(k) /\ KidInv(i)
      BY DEF TxInv
   <2>2. mine'[k] = mine[k] /\ pc'[k] = pc[k] /\ closing'[k] = closing[k]
      BY <1>1, Distinct
   <2>3. status'[k] # "waiting"
      BY <2>1 DEF KidInv
   <2>4. pc[k] # "begin" => status'[k] = status[k] /\ lock'[k] = lock[k]
      BY <1>1, <2>1, Distinct DEF KidInv
   <2>5. lock[Root] = k => lock'[Root] = k /\ status'[Root] = status[Root]
      BY <1>1, Distinct
   <2>6. ASSUME NEW c \in Kids \ {k}, mine[k][c] # Unwritten
         PROVE  status'[c] = status[c] /\ \A t \in Kids \ {k} : mine'[t][c] = Unwritten
      <3>1. /\ status[c] = "absent"
            /\ \A t \in Kids \ {k} : mine[t][c] = Unwritten
         BY <2>1, <2>6 DEF KidInv
      <3>2. c # i => mine'[i][c] = Unwritten
         BY <1>1, <2>6, <3>1, Distinct
      <3>3. c = i => mine'[i][c] = Unwritten
         <4> SUFFICES ASSUME c = i PROVE mine'[i][i] = Unwritten
            OBVIOUS
         <4>1. pc'[i] = "begin"
            BY <3>1 DEF KidInv
         <4> QED BY <4>1, Distinct DEF KidInv, NoWrites
      <3> QED BY <1>1, <3>1, <3>2, <3>3, Distinct
   <2> QED BY <2>2, <2>3, <2>4, <2>5, <2>6, KidFrame
<1>2. CancelInv'
   <2>1. Canceller \notin {NoTx, i} /\ Canceller \in Txs \ {i}
      BY Distinct
   <2> QED BY <2>1, CancelFrame
<1>3. \A k \in Kids : KidInv(k)' /\ ScanInv(k)'
   BY <1>1
<1> QED BY <1>2, <1>3, SameStatus

LEMMA UpdateKidStep ==
  ASSUME TxInv, NEW i \in Kids, NEW st \in Terminal \cup Queued, UpdateKid(i, st)
  PROVE  TxInv'
<1> DEFINE next == AfterUpdate(st)
<1>1. /\ pc[i] = "begin"
      /\ lock[i] \in {NoTx, i}
      /\ status[i] = "running"
      /\ lock' = [lock EXCEPT ![i] = i]
      /\ mine' = [mine EXCEPT ![i][i] = st]
      /\ pc' = [pc EXCEPT ![i] = next]
      /\ UNCHANGED <<status, requested, marks, todo, closing, rootType, attempted, aborts>>
   BY DEF UpdateKid, CanLock, locals
<1>2. TypeOK /\ KidInv(i) /\ ScanInv(i)
   BY DEF TxInv
<1>3. /\ next \in {"commit", "insert", "lock_root", "count"}
      /\ next # "commit" => st \in Terminal
      /\ next = "insert" => ~ IsScan
      /\ next \in {"commit", "count"} => st \notin Terminal \/ ~ IsScan
   BY <1>2, RootFinalizationAssumption
      DEF AfterUpdate, IsScan, TypeOK, RootFinalizationAssumption
<1> HIDE DEF next
<1>4. /\ lock'[i] = i /\ pc'[i] = next /\ mine'[i][i] = st
      /\ \A r \in Rows \ {i} : lock'[r] = lock[r] /\ mine'[i][r] = mine[i][r]
      /\ \A t \in Txs \ {i} : mine'[t] = mine[t] /\ pc'[t] = pc[t]
   BY <1>1, <1>2, Distinct DEF TypeOK
<1>5. \A r \in Rows : mine[i][r] = Unwritten
   BY <1>1, <1>2 DEF KidInv, NoWrites
<1>6. TypeOK'
   <2>1. retries' \in 0..MaxRetries
      BY <1>2, RootFinalizationAssumption DEF UpdateKid, TypeOK, RootFinalizationAssumption
   <2>2. mine' \in [Txs -> [Rows -> Status \cup {Unwritten}]]
      BY <1>1, <1>2, Distinct DEF TypeOK
   <2> QED BY <1>1, <1>2, <1>3, <2>1, <2>2, Distinct DEF TypeOK
<1>7. KidInv(i)'
   BY <1>1, <1>2, <1>3, <1>4, <1>5, Distinct DEF KidInv, IsScan
<1>8. ScanInv(i)'
   BY <1>3, <1>4, <1>5, <1>1, Distinct DEF ScanInv, IsScan
<1> QED BY <1>1, <1>4, <1>6, <1>7, <1>8, Distinct, KidStatement

LEMMA InsertResultStep ==
  ASSUME TxInv, NEW i \in Kids, NEW new \in SUBSET (Kids \ {i}), InsertResult(i, new)
  PROVE  TxInv'
<1>1. /\ pc[i] = "insert"
      /\ \A c \in new : status[c] = "absent" /\ \A t \in Txs : mine[t][c] = Unwritten
      /\ mine' = [mine EXCEPT ![i] = [r \in Rows |-> IF r \in new THEN "pending" ELSE mine[i][r]]]
      /\ pc' = [pc EXCEPT ![i] = "count"]
      /\ UNCHANGED <<status, requested, lock, marks, todo, closing, rootType, attempted, retries, aborts>>
   BY DEF InsertResult, locals, counts
<1>2. TypeOK /\ KidInv(i) /\ ScanInv(i)
   BY DEF TxInv
<1>3. /\ pc'[i] = "count"
      /\ \A r \in Rows : mine'[i][r] = IF r \in new THEN "pending" ELSE mine[i][r]
      /\ \A t \in Txs \ {i} : mine'[t] = mine[t] /\ pc'[t] = pc[t]
   BY <1>1, <1>2, Distinct DEF TypeOK
<1>4. TypeOK'
   <2>1. [r \in Rows |-> IF r \in new THEN "pending" ELSE mine[i][r]] \in [Rows -> Status \cup {Unwritten}]
      BY <1>2, Distinct DEF TypeOK
   <2>2. mine' \in [Txs -> [Rows -> Status \cup {Unwritten}]]
      BY <1>1, <1>2, <2>1, Distinct DEF TypeOK
   <2> QED BY <1>1, <1>2, <2>2, Distinct DEF TypeOK
<1>5. ~ IsScan /\ ~ IsScan'
   BY <1>1, <1>2 DEF KidInv, IsScan
<1>6. KidInv(i)'
   BY <1>1, <1>2, <1>3, <1>5, Distinct DEF KidInv
<1>7. ScanInv(i)'
   BY <1>5 DEF ScanInv
<1>8. \A c \in Kids \ {i} : mine'[i][c] # mine[i][c] =>
             mine'[i][c] = Unwritten \/ \A t \in Txs : mine[t][c] = Unwritten
   BY <1>1, <1>3, Distinct
<1> QED BY <1>1, <1>3, <1>4, <1>6, <1>7, <1>8, Distinct, KidStatement

LEMMA LockRootStep ==
  ASSUME TxInv, NEW i \in Kids, LockRoot(i)
  PROVE  TxInv'
<1>1. /\ pc[i] = "lock_root"
      /\ lock[Root] \in {NoTx, i}
      /\ lock' = [lock EXCEPT ![Root] = i]
      /\ pc' = [pc EXCEPT ![i] = "count"]
      /\ UNCHANGED <<status, requested, mine, marks, todo, closing, rootType, attempted, retries, aborts>>
   BY DEF LockRoot, CanLock, locals, counts
<1>2. TypeOK /\ KidInv(i) /\ ScanInv(i)
   BY DEF TxInv
<1>3. /\ lock'[Root] = i /\ pc'[i] = "count"
      /\ \A r \in Rows \ {Root} : lock'[r] = lock[r]
      /\ \A t \in Txs \ {i} : pc'[t] = pc[t]
   BY <1>1, <1>2, Distinct DEF TypeOK
<1>4. TypeOK'
   BY <1>1, <1>2, Distinct DEF TypeOK
<1>5. KidInv(i)'
   BY <1>1, <1>2, <1>3, Distinct DEF KidInv, IsScan
<1>6. ScanInv(i)'
   BY <1>1, <1>2, <1>3, <1>5, Distinct DEF ScanInv, KidInv, IsScan
<1> QED BY <1>1, <1>3, <1>4, <1>5, <1>6, Distinct, KidStatement

LEMMA CountActiveStep ==
  ASSUME TxInv, NEW i \in Kids, CountActive(i)
  PROVE  TxInv'
<1> DEFINE next == IF \E c \in Kids : View(i)[c] \in Active THEN "commit" ELSE "tally"
<1>1. /\ pc[i] = "count"
      /\ pc' = [pc EXCEPT ![i] = next]
      /\ UNCHANGED <<status, requested, lock, mine, marks, todo, closing, rootType, attempted, retries, aborts>>
   BY DEF CountActive, locals, counts
<1>2. TypeOK /\ KidInv(i) /\ ScanInv(i)
   BY DEF TxInv
<1>3. /\ next \in {"commit", "tally"}
      /\ next = "commit" => \E c \in Kids : View(i)[c] \in Active
      /\ next = "tally" => \A c \in Kids : View(i)[c] \notin Active
   OBVIOUS
<1> HIDE DEF next
<1>4. pc'[i] = next /\ \A t \in Txs \ {i} : pc'[t] = pc[t]
   BY <1>1, <1>2, Distinct DEF TypeOK
<1>5. TypeOK'
   BY <1>1, <1>2, <1>3, Distinct DEF TypeOK
<1>6. \A c \in Kids : View(i)'[c] = View(i)[c]
   BY <1>1, Distinct DEF View
<1>7. KidInv(i)'
   <2>1. pc[i] = "count" /\ mine[i][Root] = Unwritten
      BY <1>1, <1>2 DEF KidInv
   <2> QED BY <1>1, <1>2, <1>3, <1>4, <1>6, <2>1, Distinct DEF KidInv, IsScan
<1>8. ScanInv(i)'
   <2>1. mine[i][Root] = Unwritten
      BY <1>1, <1>2 DEF KidInv
   <2> QED BY <1>1, <1>2, <1>3, <1>4, <1>6, <2>1, Distinct DEF ScanInv, IsScan
<1> QED BY <1>1, <1>4, <1>5, <1>7, <1>8, Distinct, KidStatement

LEMMA TallyStep ==
  ASSUME TxInv, NEW i \in Kids, Tally(i)
  PROVE  TxInv'
<1> DEFINE outcome == RootOutcome(View(i))
<1>1. /\ pc[i] = "tally"
      /\ closing' = [closing EXCEPT ![i] = outcome]
      /\ pc' = [pc EXCEPT ![i] = "close"]
      /\ UNCHANGED <<status, requested, lock, mine, marks, todo, rootType, attempted, retries, aborts>>
   BY DEF Tally, counts
<1>2. TypeOK /\ KidInv(i) /\ ScanInv(i)
   BY DEF TxInv
<1>3. outcome \in Terminal \ {"cancelled"}
   BY OutcomeCloses
<1>4. View(i)' = View(i)
   BY <1>1 DEF View
<1> HIDE DEF outcome
<1>5. /\ pc'[i] = "close" /\ closing'[i] = outcome
      /\ \A t \in Txs \ {i} : pc'[t] = pc[t]
      /\ \A k \in Kids \ {i} : closing'[k] = closing[k]
   BY <1>1, <1>2, Distinct DEF TypeOK
<1>6. TypeOK'
   BY <1>1, <1>2, <1>3, Distinct DEF TypeOK
<1>7. mine[i][Root] = Unwritten
   BY <1>1, <1>2 DEF KidInv
<1>8. KidInv(i)'
   BY <1>1, <1>2, <1>3, <1>4, <1>5, <1>7, Distinct DEF KidInv, IsScan
<1>9. ScanInv(i)'
   BY <1>1, <1>2, <1>5, <1>7, Distinct DEF ScanInv, IsScan
<1> QED BY <1>1, <1>5, <1>6, <1>8, <1>9, Distinct, KidStatement

LEMMA CloseRootStep ==
  ASSUME TxInv, NEW i \in Kids, CloseRoot(i)
  PROVE  TxInv'
<1>1. /\ pc[i] = "close"
      /\ lock[Root] \in {NoTx, i}
      /\ pc' = [pc EXCEPT ![i] = "commit"]
      /\ UNCHANGED <<status, requested, marks, todo, closing, rootType, attempted, retries, aborts>>
   BY DEF CloseRoot, CanLock, locals, counts
<1>2. TypeOK /\ KidInv(i) /\ ScanInv(i)
   BY DEF TxInv
<1>3. pc'[i] = "commit" /\ \A t \in Txs \ {i} : pc'[t] = pc[t]
   BY <1>1, <1>2, Distinct DEF TypeOK
<1>4. /\ mine[i][Root] = Unwritten
      /\ mine[i][i] \in Terminal
      /\ closing[i] \in Terminal \ {"cancelled"}
      /\ \A c \in Kids : View(i)[c] \notin Active
      /\ IsScan => lock[Root] = i
   BY <1>1, <1>2 DEF KidInv, ScanInv
<1>5. CASE status[Root] = "waiting"
   <2>1. /\ mine' = [mine EXCEPT ![i][Root] = closing[i]]
         /\ lock' = [lock EXCEPT ![Root] = i]
      BY <1>5 DEF CloseRoot
   <2>2. /\ mine'[i][Root] = closing[i]
         /\ \A r \in Rows \ {Root} : mine'[i][r] = mine[i][r] /\ lock'[r] = lock[r]
         /\ \A t \in Txs \ {i} : mine'[t] = mine[t]
         /\ lock'[Root] = i
      BY <1>2, <2>1, Distinct DEF TypeOK
   <2>3. TypeOK'
      <3>1. mine' \in [Txs -> [Rows -> Status \cup {Unwritten}]]
         BY <1>2, <1>4, <2>1, Distinct DEF TypeOK
      <3> QED BY <1>1, <1>2, <2>1, <3>1, Distinct DEF TypeOK
   <2>4. \A c \in Kids : View(i)'[c] = View(i)[c]
      BY <1>1, <2>2, Distinct DEF View
   <2>5. KidInv(i)'
      BY <1>1, <1>2, <1>3, <1>4, <1>5, <2>2, <2>4, Distinct DEF KidInv, IsScan
   <2>6. ScanInv(i)'
      BY <1>1, <1>3, <1>4, <2>2, Distinct DEF ScanInv, IsScan
   <2> QED BY <1>1, <1>3, <2>2, <2>3, <2>5, <2>6, Distinct, KidStatement
<1>6. CASE status[Root] # "waiting"
   <2>1. mine' = mine /\ lock' = lock
      BY <1>6 DEF CloseRoot
   <2>2. TypeOK'
      BY <1>1, <1>2, <2>1, Distinct DEF TypeOK
   <2>3. KidInv(i)'
      BY <1>1, <1>2, <1>3, <1>4, <2>1, Distinct DEF KidInv, IsScan
   <2>4. ScanInv(i)'
      BY <1>1, <1>3, <1>4, <1>6, <2>1, Distinct DEF ScanInv, IsScan
   <2> QED BY <1>1, <1>3, <2>1, <2>2, <2>3, <2>4, Distinct, KidStatement
<1> QED BY <1>5, <1>6

(* What is left of a transaction that has ended. *)
LEMMA EndsColumns ==
  ASSUME TypeOK, NEW t \in Txs, Ends(t)
  PROVE  /\ lock' \in [Rows -> Txs \cup {NoTx}]
         /\ mine' \in [Txs -> [Rows -> Status \cup {Unwritten}]]
         /\ mine'[t] = NoWrites
         /\ \A r \in Rows : mine'[t][r] = Unwritten
         /\ \A u \in Txs \ {t} : mine'[u] = mine[u]
         /\ \A r \in Rows : lock[r] # t => lock'[r] = lock[r]
<1>1. NoWrites \in [Rows -> Status \cup {Unwritten}]
   BY DEF NoWrites
<1> QED BY <1>1 DEF Ends, TypeOK, NoWrites

LEMMA RollBackKidStep ==
  ASSUME TxInv, NEW i \in Kids, RollBackKid(i), aborts' \in 0..MaxAborts
  PROVE  TxInv'
<1>1. /\ Ends(i)
      /\ pc' = [pc EXCEPT ![i] = "begin"]
      /\ closing' = [closing EXCEPT ![i] = "none"]
      /\ UNCHANGED <<status, requested, marks, todo, rootType, attempted, retries>>
   BY DEF RollBackKid
<1>2. TypeOK /\ KidInv(i)
   BY DEF TxInv
<1>3. /\ pc'[i] = "begin"
      /\ \A t \in Txs \ {i} : pc'[t] = pc[t]
      /\ \A k \in Kids \ {i} : closing'[k] = closing[k]
   BY <1>1, <1>2, Distinct DEF TypeOK
<1>4. /\ lock' \in [Rows -> Txs \cup {NoTx}]
      /\ mine' \in [Txs -> [Rows -> Status \cup {Unwritten}]]
      /\ mine'[i] = NoWrites
      /\ \A r \in Rows : mine'[i][r] = Unwritten
      /\ \A u \in Txs \ {i} : mine'[u] = mine[u]
      /\ \A r \in Rows : lock[r] # i => lock'[r] = lock[r]
   BY <1>1, <1>2, Distinct, EndsColumns
<1>5. TypeOK'
   BY <1>1, <1>2, <1>4, Distinct DEF TypeOK
<1>6. KidInv(i)'
   <2>1. NoWrites' = NoWrites
      BY DEF NoWrites
   <2> QED BY <1>1, <1>2, <1>3, <1>4, <2>1, Distinct DEF KidInv
<1>7. ScanInv(i)'
   BY <1>3, <1>4, Distinct DEF ScanInv
<1> QED BY <1>1, <1>3, <1>4, <1>5, <1>6, <1>7, Distinct, KidStatement

(* What the commit of child i changes: its own row, the rows it inserts,   *)
(* and the root if it has written it.                                      *)
LEMMA CommitKidStatus ==
  ASSUME TxInv, NEW i \in Kids, CommitKid(i)
  PROVE  /\ status[i] = "running" /\ status'[i] = mine[i][i]
         /\ mine[i][i] \in Terminal \cup Queued
         /\ \A c \in Kids \ {i} : \/ status'[c] = status[c] /\ mine[i][c] = Unwritten
                                  \/ /\ status[c] = "absent" /\ status'[c] = "pending"
                                     /\ mine[i][c] = "pending" /\ ~ IsScan
         /\ \/ status'[Root] = status[Root] /\ mine[i][Root] = Unwritten
            \/ /\ status[Root] = "waiting"
               /\ status'[Root] = mine[i][Root]
               /\ mine[i][Root] \in Terminal \ {"cancelled"}
               /\ lock[Root] = i
<1>1. KidInv(i) /\ pc[i] = "commit" /\ status' = View(i)
   BY DEF TxInv, CommitKid
<1>2. \A r \in Rows : status'[r] = IF mine[i][r] = Unwritten THEN status[r] ELSE mine[i][r]
   BY <1>1 DEF View
<1> QED BY <1>1, <1>2, Distinct DEF KidInv

LEMMA CommitKidStep ==
  ASSUME TxInv, NEW i \in Kids, CommitKid(i)
  PROVE  TxInv'
<1>1. /\ pc[i] = "commit"
      /\ status' = View(i)
      /\ Ends(i)
      /\ pc' = [pc EXCEPT ![i] = "begin"]
      /\ closing' = [closing EXCEPT ![i] = "none"]
      /\ UNCHANGED <<requested, marks, todo, rootType, attempted, retries, aborts>>
   BY DEF CommitKid, counts
<1>2. TypeOK /\ KidInv(i) /\ ScanInv(i)
   BY DEF TxInv
<1>3. /\ pc'[i] = "begin"
      /\ \A t \in Txs \ {i} : pc'[t] = pc[t]
      /\ \A k \in Kids \ {i} : closing'[k] = closing[k]
   BY <1>1, <1>2, Distinct DEF TypeOK
<1>4. /\ lock' \in [Rows -> Txs \cup {NoTx}]
      /\ mine' \in [Txs -> [Rows -> Status \cup {Unwritten}]]
      /\ mine'[i] = NoWrites
      /\ \A r \in Rows : mine'[i][r] = Unwritten
      /\ \A u \in Txs \ {i} : mine'[u] = mine[u]
      /\ \A r \in Rows : lock[r] # i => lock'[r] = lock[r]
   BY <1>1, <1>2, Distinct, EndsColumns
<1>5. /\ status[i] = "running" /\ status'[i] = mine[i][i]
      /\ mine[i][i] \in Terminal \cup Queued
      /\ \A c \in Kids \ {i} : \/ status'[c] = status[c] /\ mine[i][c] = Unwritten
                               \/ /\ status[c] = "absent" /\ status'[c] = "pending"
                                  /\ mine[i][c] = "pending" /\ ~ IsScan
      /\ \/ status'[Root] = status[Root] /\ mine[i][Root] = Unwritten
         \/ /\ status[Root] = "waiting"
            /\ status'[Root] = mine[i][Root]
            /\ mine[i][Root] \in Terminal \ {"cancelled"}
            /\ lock[Root] = i
   BY CommitKidStatus
<1>6. TypeOK'
   <2>1. status' \in [Rows -> Status]
      BY <1>1, <1>2, Distinct DEF View, TypeOK
   <2> QED BY <1>1, <1>2, <1>4, <2>1, Distinct DEF TypeOK
<1>7. KidInv(i)' /\ ScanInv(i)'
   <2>1. NoWrites' = NoWrites
      BY DEF NoWrites
   <2>2. KidInv(i)'
      BY <1>3, <1>4, <1>5, <2>1, Distinct DEF KidInv
   <2>3. ScanInv(i)'
      BY <1>3, <1>4, Distinct DEF ScanInv
   <2> QED BY <2>2, <2>3
<1>8. ASSUME NEW k \in Kids, k # i
      PROVE  KidInv(k)' /\ ScanInv(k)'
   <2>1. KidInv(k) /\ ScanInv(k)
      BY DEF TxInv
   <2>2. mine'[k] = mine[k] /\ pc'[k] = pc[k] /\ closing'[k] = closing[k]
      BY <1>3, <1>4, <1>8, Distinct
   <2>3. status'[k] # "waiting"
      BY <1>5, <1>8, <2>1 DEF KidInv
   <2>4. pc[k] # "begin" => status'[k] = status[k] /\ lock'[k] = lock[k]
      BY <1>4, <1>5, <1>8, <2>1, Distinct DEF KidInv
   <2>5. lock[Root] = k => lock'[Root] = k /\ status'[Root] = status[Root]
      BY <1>4, <1>5, <1>8, Distinct
   <2>6. ASSUME NEW c \in Kids \ {k}, mine[k][c] # Unwritten
         PROVE  status'[c] = status[c] /\ \A t \in Kids \ {k} : mine'[t][c] = Unwritten
      <3>1. /\ status[c] = "absent"
            /\ \A t \in Kids \ {k} : mine[t][c] = Unwritten
         BY <2>1, <2>6 DEF KidInv
      <3>2. c # i /\ mine[i][c] = Unwritten
         BY <1>5, <1>8, <3>1
      <3>3. status'[c] = status[c]
         BY <1>5, <3>2
      <3>4. ASSUME NEW t \in Kids \ {k}
            PROVE  mine'[t][c] = Unwritten
         BY <1>4, <3>1, Distinct
      <3> QED BY <3>3, <3>4
   <2>7. ~ (pc[k] \in {"tally", "close"} \/ mine[k][Root] # Unwritten)
      BY <1>5, <1>8, NobodyActive
   <2>8. ASSUME IsScan, lock[Root] = k, NEW c \in Kids
         PROVE  /\ status[c] \in Active => status'[c] \in Active
                /\ status[c] \notin Active => status'[c] = status[c]
      <3>1. mine[i][i] \notin Terminal
         BY <1>1, <1>2, <1>8, <2>8 DEF ScanInv
      <3> QED BY <1>5, <2>8, <3>1
   <2> QED BY <1>1, <2>2, <2>3, <2>4, <2>5, <2>6, <2>7, <2>8, KidFrame
<1>9. CancelInv'
   <2>1. \A r \in Rows : lock[r] = Canceller => lock'[r] = Canceller
      BY <1>4, Distinct
   <2>2. ASSUME NEW r \in Rows, lock[r] = Canceller, mine[Canceller][r] # Unwritten \/ r = Root
         PROVE  status'[r] = status[r]
      <3>1. r # i
         BY <1>1, <1>2, <2>2, Distinct DEF KidInv
      <3>2. CASE r = Root
         BY <1>5, <2>2, <3>2, Distinct
      <3>3. CASE r \in Kids
         <4>1. status[r] \in Queued \cup {"waiting"}
            BY <2>2, <3>3, Distinct DEF TxInv, CancelInv
         <4> QED BY <1>5, <3>1, <3>3, <4>1
      <3> QED BY <3>2, <3>3
   <2>3. CancelInv /\ mine'[Canceller] = mine[Canceller] /\ pc'[Canceller] = pc[Canceller]
      BY <1>3, <1>4, Distinct DEF TxInv
   <2>4. NoWrites' = NoWrites
      BY DEF NoWrites
   <2> QED BY <1>1, <2>1, <2>2, <2>3, <2>4, Distinct DEF CancelInv
<1>10. status'[Root] \in Terminal \cup {"waiting"}
   BY <1>5 DEF TxInv
<1>11. ClosedRootHasNoActiveKid'
   <2>1. CASE mine[i][Root] # Unwritten
      <3>1. \A c \in Kids : View(i)[c] \notin Active
         BY <1>2, <2>1 DEF KidInv
      <3> QED BY <1>1, <3>1 DEF ClosedRootHasNoActiveKid
   <2>2. CASE mine[i][Root] = Unwritten
      <3>1. status'[Root] = status[Root]
         BY <1>5, <2>2
      <3>2. status[Root] \notin Terminal \ {"cancelled"}
         BY <1>5 DEF TxInv, ClosedRootHasNoActiveKid
      <3> QED BY <3>1, <3>2 DEF ClosedRootHasNoActiveKid
   <2> QED BY <2>1, <2>2
<1> QED BY <1>6, <1>7, <1>8, <1>9, <1>10, <1>11 DEF TxInv

(***************************************************************************)
(* The steps of the canceller.                                             *)
(***************************************************************************)

(* A statement of the canceller that commits nothing: it may lock free     *)
(* rows.                                                                   *)
LEMMA CancelStatement ==
  ASSUME TxInv, TypeOK', CancelInv',
         UNCHANGED <<status, closing, rootType>>,
         \A k \in Kids : mine'[k] = mine[k] /\ pc'[k] = pc[k],
         \A r \in Rows : lock[r] \notin {NoTx, Canceller} => lock'[r] = lock[r]
  PROVE  TxInv'
<1>1. ASSUME NEW k \in Kids
      PROVE  KidInv(k)' /\ ScanInv(k)'
   <2>1. KidInv(k)
      BY DEF TxInv
   <2>2. status'[k] # "waiting"
      BY <2>1 DEF KidInv
   <2>3. pc[k] # "begin" => status'[k] = status[k] /\ lock'[k] = lock[k]
      BY <2>1, Distinct DEF KidInv
   <2>4. lock[Root] = k => lock'[Root] = k /\ status'[Root] = status[Root]
      BY Distinct
   <2>5. \A c \in Kids \ {k} : mine[k][c] # Unwritten =>
             status'[c] = status[c] /\ \A t \in Kids \ {k} : mine'[t][c] = Unwritten
      BY <2>1 DEF KidInv
   <2> QED BY <2>2, <2>3, <2>4, <2>5, KidFrame
<1> QED BY <1>1, SameStatus

LEMMA CancelLockStep ==
  ASSUME TxInv, CancelLock
  PROVE  TxInv'
<1>1. /\ pc[Canceller] = "begin"
      /\ lock[Root] \in {NoTx, Canceller}
      /\ UNCHANGED <<status, requested, mine, marks, todo, closing, rootType, attempted, retries, aborts>>
   BY DEF CancelLock, CanLock, locals, counts
<1>2. TypeOK /\ CancelInv
   BY DEF TxInv
<1>3. \A r \in Rows : mine[Canceller][r] = Unwritten
   BY <1>1, <1>2 DEF CancelInv, NoWrites
<1>4. CASE status[Root] = "waiting"
   <2>1. /\ lock' = [lock EXCEPT ![Root] = Canceller]
         /\ pc' = [pc EXCEPT ![Canceller] = "match_queued"]
      BY <1>4 DEF CancelLock
   <2>2. /\ lock'[Root] = Canceller /\ pc'[Canceller] = "match_queued"
         /\ \A r \in Rows \ {Root} : lock'[r] = lock[r]
         /\ \A k \in Kids : pc'[k] = pc[k]
      BY <1>2, <2>1, Distinct DEF TypeOK
   <2>3. TypeOK'
      BY <1>1, <1>2, <2>1, Distinct DEF TypeOK
   <2>4. CancelInv'
      BY <1>1, <1>3, <1>4, <2>2 DEF CancelInv
   <2> QED BY <1>1, <2>2, <2>3, <2>4, CancelStatement
<1>5. CASE status[Root] # "waiting"
   <2>1. lock' = lock /\ pc' = [pc EXCEPT ![Canceller] = "done"]
      BY <1>5 DEF CancelLock
   <2>2. pc'[Canceller] = "done" /\ \A k \in Kids : pc'[k] = pc[k]
      BY <1>2, <2>1, Distinct DEF TypeOK
   <2>3. TypeOK'
      BY <1>1, <1>2, <2>1, Distinct DEF TypeOK
   <2>4. CancelInv'
      <3>1. NoWrites' = NoWrites
         BY DEF NoWrites
      <3> QED BY <1>1, <1>2, <1>3, <2>2, <3>1 DEF CancelInv
   <2> QED BY <1>1, <2>1, <2>2, <2>3, <2>4, CancelStatement
<1> QED BY <1>4, <1>5

(* The root is among the rows the first UPDATE matches, so that it is      *)
(* cancelled before the second one starts.                                 *)
LEMMA CancelMatchStep ==
  ASSUME TxInv, MatchQueued \/ MatchRunning
  PROVE  TxInv'
<1>1. /\ todo' \subseteq Rows
      /\ \/ /\ pc[Canceller] = "match_queued"
            /\ todo' = {r \in Rows : View(Canceller)[r] \in Queued \cup {"waiting"}}
            /\ pc' = [pc EXCEPT ![Canceller] = "mark_queued"]
         \/ /\ pc[Canceller] = "mark_queued"
            /\ todo = {}
            /\ pc' = [pc EXCEPT ![Canceller] = "mark_running"]
      /\ UNCHANGED <<status, requested, lock, mine, marks, closing, rootType, attempted, retries, aborts>>
   BY DEF MatchQueued, MatchRunning, CancelMatch, counts
<1>2. TypeOK /\ CancelInv
   BY DEF TxInv
<1>3. TypeOK'
   BY <1>1, <1>2, Distinct DEF TypeOK
<1>4. \A k \in Kids : pc'[k] = pc[k]
   BY <1>1, <1>2, Distinct DEF TypeOK
<1>5. CancelInv'
   <2>1. CASE pc[Canceller] = "match_queued"
      <3>1. pc'[Canceller] = "mark_queued"
         BY <1>1, <1>2, <2>1, Distinct DEF TypeOK
      <3>2. Root \in todo' \/ mine[Canceller][Root] = "cancelled"
         BY <1>1, <1>2, <2>1, Distinct, ViewAt DEF CancelInv
      <3> QED BY <1>1, <1>2, <2>1, <3>1, <3>2 DEF CancelInv
   <2>2. CASE pc[Canceller] = "mark_queued"
      <3>1. pc'[Canceller] = "mark_running" /\ mine[Canceller][Root] = "cancelled"
         BY <1>1, <1>2, <2>2, Distinct DEF TypeOK, CancelInv
      <3> QED BY <1>1, <1>2, <2>2, <3>1 DEF CancelInv
   <2> QED BY <1>1, <2>1, <2>2
<1> QED BY <1>1, <1>3, <1>4, <1>5, CancelStatement

LEMMA CancelMarkStep ==
  ASSUME TxInv, NEW r \in Rows, MarkQueued(r) \/ MarkRunning(r)
  PROVE  TxInv'
<1>1. TypeOK /\ CancelInv
   BY DEF TxInv
<1>2. CASE MarkQueued(r)
   <2>1. /\ pc[Canceller] = "mark_queued"
         /\ lock[r] \in {NoTx, Canceller}
         /\ todo' = todo \ {r}
         /\ UNCHANGED <<status, requested, pc, closing, rootType, attempted, retries, aborts>>
      BY <1>2 DEF MarkQueued, CanLock, counts
   <2>2. CASE status[r] \in Queued \cup {"waiting"}
      <3>1. /\ lock' = [lock EXCEPT ![r] = Canceller]
            /\ mine' = [mine EXCEPT ![Canceller][r] = "cancelled"]
            /\ marks' = marks \cup {r}
         BY <1>2, <2>2 DEF MarkQueued
      <3>2. /\ lock'[r] = Canceller /\ mine'[Canceller][r] = "cancelled"
            /\ \A q \in Rows \ {r} : lock'[q] = lock[q] /\ mine'[Canceller][q] = mine[Canceller][q]
            /\ \A k \in Kids : mine'[k] = mine[k]
         BY <1>1, <3>1, Distinct DEF TypeOK
      <3>3. TypeOK'
         <4>1. mine' \in [Txs -> [Rows -> Status \cup {Unwritten}]]
            BY <1>1, <3>1, Distinct DEF TypeOK
         <4> QED BY <1>1, <2>1, <3>1, <4>1, Distinct DEF TypeOK
      <3>4. CancelInv'
         BY <1>1, <2>1, <2>2, <3>2, Distinct DEF CancelInv
      <3> QED BY <2>1, <3>2, <3>3, <3>4, CancelStatement
   <2>3. CASE status[r] \notin Queued \cup {"waiting"}
      <3>1. lock' = lock /\ mine' = mine /\ marks' = marks
         BY <1>2, <2>3 DEF MarkQueued
      <3>2. TypeOK'
         BY <1>1, <2>1, <3>1 DEF TypeOK
      <3>3. CancelInv'
         <4>1. r # Root
            BY <1>1, <2>1, <2>3 DEF CancelInv
         <4> QED BY <1>1, <2>1, <3>1, <4>1 DEF CancelInv
      <3> QED BY <2>1, <3>1, <3>2, <3>3, CancelStatement
   <2> QED BY <2>2, <2>3
<1>3. CASE MarkRunning(r)
   <2>1. /\ pc[Canceller] = "mark_running"
         /\ lock[r] \in {NoTx, Canceller}
         /\ todo' = todo \ {r}
         /\ UNCHANGED <<status, requested, mine, pc, closing, rootType, attempted, retries, aborts>>
         /\ \/ lock' = [lock EXCEPT ![r] = Canceller] /\ marks' = marks \cup {r}
            \/ lock' = lock /\ marks' = marks
      BY <1>3 DEF MarkRunning, CanLock, counts
   <2>2. /\ \A q \in Rows : lock[q] \notin {NoTx, Canceller} => lock'[q] = lock[q]
         /\ \A q \in Rows : lock[q] = Canceller => lock'[q] = Canceller
      BY <1>1, <2>1 DEF TypeOK
   <2>3. TypeOK'
      BY <1>1, <2>1, Distinct DEF TypeOK
   <2>4. CancelInv'
      BY <1>1, <2>1, <2>2, Distinct DEF CancelInv
   <2> QED BY <2>1, <2>2, <2>3, <2>4, CancelStatement
<1> QED BY <1>2, <1>3

LEMMA VictimCancellerStep ==
  ASSUME TxInv, VictimCanceller
  PROVE  TxInv'
<1>1. /\ Ends(Canceller)
      /\ pc' = [pc EXCEPT ![Canceller] = "done"]
      /\ marks' = {}
      /\ todo' = {}
      /\ UNCHANGED <<status, requested, closing, rootType, attempted, retries, aborts>>
   BY DEF VictimCanceller, CancelEnds, counts
<1>2. TypeOK /\ CancelInv
   BY DEF TxInv
<1>3. /\ lock' \in [Rows -> Txs \cup {NoTx}]
      /\ mine' \in [Txs -> [Rows -> Status \cup {Unwritten}]]
      /\ mine'[Canceller] = NoWrites
      /\ \A r \in Rows : mine'[Canceller][r] = Unwritten
      /\ \A u \in Txs \ {Canceller} : mine'[u] = mine[u]
      /\ \A r \in Rows : lock[r] # Canceller => lock'[r] = lock[r]
   BY <1>1, <1>2, Distinct, EndsColumns
<1>4. pc'[Canceller] = "done" /\ \A k \in Kids : pc'[k] = pc[k] /\ mine'[k] = mine[k]
   BY <1>1, <1>2, <1>3, Distinct DEF TypeOK
<1>5. TypeOK'
   BY <1>1, <1>2, <1>3, Distinct DEF TypeOK
<1>6. CancelInv'
   <2>1. NoWrites' = NoWrites
      BY DEF NoWrites
   <2> QED BY <1>3, <1>4, <2>1 DEF CancelInv
<1> QED BY <1>1, <1>3, <1>4, <1>5, <1>6, CancelStatement

(* What the commit of Cancel changes: the root, and queued children. *)
LEMMA CancelCommitStatus ==
  ASSUME TxInv, CancelCommit
  PROVE  /\ status[Root] = "waiting" /\ status'[Root] = "cancelled"
         /\ lock[Root] = Canceller
         /\ \A k \in Kids : \/ status'[k] = status[k] /\ mine[Canceller][k] = Unwritten
                            \/ /\ status[k] \in Queued /\ status'[k] = "cancelled"
                               /\ lock[k] = Canceller
                               /\ mine[Canceller][k] # Unwritten
<1>1. CancelInv /\ pc[Canceller] = "mark_running" /\ status' = View(Canceller)
   BY DEF TxInv, CancelCommit
<1>2. \A r \in Rows : status'[r] = IF mine[Canceller][r] = Unwritten THEN status[r] ELSE mine[Canceller][r]
   BY <1>1 DEF View
<1>3. status[Root] = "waiting" /\ lock[Root] = Canceller /\ mine[Canceller][Root] = "cancelled"
   BY <1>1 DEF CancelInv
<1>4. \A k \in Kids : status[k] # "waiting"
   BY DEF TxInv, KidInv
<1> QED BY <1>1, <1>2, <1>3, <1>4, Distinct DEF CancelInv

LEMMA CancelCommitStep ==
  ASSUME TxInv, CancelCommit
  PROVE  TxInv'
<1>1. /\ status' = View(Canceller)
      /\ requested' = requested \cup marks
      /\ Ends(Canceller)
      /\ pc' = [pc EXCEPT ![Canceller] = "done"]
      /\ marks' = {}
      /\ todo' = {}
      /\ UNCHANGED <<closing, rootType, attempted, retries, aborts>>
   BY DEF CancelCommit, CancelEnds, counts
<1>2. TypeOK /\ CancelInv
   BY DEF TxInv
<1>3. /\ lock' \in [Rows -> Txs \cup {NoTx}]
      /\ mine' \in [Txs -> [Rows -> Status \cup {Unwritten}]]
      /\ mine'[Canceller] = NoWrites
      /\ \A r \in Rows : mine'[Canceller][r] = Unwritten
      /\ \A u \in Txs \ {Canceller} : mine'[u] = mine[u]
      /\ \A r \in Rows : lock[r] # Canceller => lock'[r] = lock[r]
   BY <1>1, <1>2, Distinct, EndsColumns
<1>4. pc'[Canceller] = "done" /\ \A k \in Kids : pc'[k] = pc[k] /\ mine'[k] = mine[k]
   BY <1>1, <1>2, <1>3, Distinct DEF TypeOK
<1>5. /\ status[Root] = "waiting" /\ status'[Root] = "cancelled"
      /\ lock[Root] = Canceller
      /\ \A k \in Kids : \/ status'[k] = status[k]
                         \/ status[k] \in Queued /\ status'[k] = "cancelled" /\ lock[k] = Canceller
   BY CancelCommitStatus
<1>6. TypeOK'
   <2>1. status' \in [Rows -> Status]
      BY <1>1, <1>2, Distinct DEF View, TypeOK
   <2> QED BY <1>1, <1>2, <1>3, <2>1, Distinct DEF TypeOK
<1>7. CancelInv'
   <2>1. NoWrites' = NoWrites
      BY DEF NoWrites
   <2> QED BY <1>3, <1>4, <2>1 DEF CancelInv
<1>8. ASSUME NEW k \in Kids
      PROVE  KidInv(k)' /\ ScanInv(k)'
   <2>1. KidInv(k)
      BY DEF TxInv
   <2>2. status'[k] # "waiting"
      BY <1>5, <2>1 DEF KidInv
   <2>3. pc[k] # "begin" => status'[k] = status[k] /\ lock'[k] = lock[k]
      BY <1>3, <1>5, <2>1, Distinct DEF KidInv
   <2>4. lock[Root] # k
      BY <1>5, Distinct
   <2>5. \A c \in Kids \ {k} : mine[k][c] # Unwritten =>
             status'[c] = status[c] /\ \A t \in Kids \ {k} : mine'[t][c] = Unwritten
      BY <1>4, <1>5, <2>1 DEF KidInv
   <2>6. \A c \in Kids : status[c] \notin Active => status'[c] \notin Active
      BY <1>5
   <2> QED BY <1>1, <1>4, <2>2, <2>3, <2>4, <2>5, <2>6, KidFrame
<1>9. ClosedRootHasNoActiveKid'
   BY <1>5 DEF ClosedRootHasNoActiveKid
<1> QED BY <1>5, <1>6, <1>7, <1>8, <1>9 DEF TxInv

(***************************************************************************)
(* The theorems.                                                           *)
(***************************************************************************)

(* Every step preserves the invariant of the transactions. *)
LEMMA TxInvStep == TxInv /\ [Next]_vars => TxInv'
<1> SUFFICES ASSUME TxInv, [Next]_vars PROVE TxInv'
   OBVIOUS
<1>1. ASSUME NEW k \in Kids, KidStep(k)
      PROVE  TxInv'
   BY <1>1, UpdateKidStep, InsertResultStep, LockRootStep, CountActiveStep, TallyStep,
      CloseRootStep, CommitKidStep DEF KidStep
<1>2. ASSUME NEW k \in Kids, AbortKid(k) \/ VictimKid(k)
      PROVE  TxInv'
   <2>1. aborts' \in 0..MaxAborts
      BY <1>2, RootFinalizationAssumption
         DEF AbortKid, VictimKid, TxInv, TypeOK, RootFinalizationAssumption
   <2> QED BY <1>2, <2>1, RollBackKidStep DEF AbortKid, VictimKid
<1>3. CASE CancelStep
   BY <1>3, CancelLockStep, CancelMatchStep, CancelMarkStep, CancelCommitStep DEF CancelStep
<1>4. CASE UNCHANGED vars
   <2>1. UNCHANGED <<status, requested, lock, mine, marks, todo, pc, closing, rootType, attempted, retries, aborts>>
      BY <1>4 DEF vars
   <2>2. TypeOK'
      BY <2>1 DEF TxInv, TypeOK
   <2>3. CancelInv'
      BY <2>1, CancelFrame
   <2> QED BY <2>1, <2>2, <2>3, CancelStatement
<1> QED BY <1>1, <1>2, <1>3, <1>4, ClaimStep, VictimCancellerStep
        DEF Next, DetectDeadlock, NothingLeft

(* The invariant of the transactions holds in every reachable state. *)
THEOREM TxInvHolds == Spec => []TxInv
BY TxInvInit, TxInvStep, PTL DEF Spec

(* A root that finalizeRoot has closed left no active child behind,        *)
(* whatever the finalizers of its children and Cancel saw of each other.   *)
THEOREM ClosedRootHasNoActiveKidHolds == Spec => []ClosedRootHasNoActiveKid
<1>1. TxInv => ClosedRootHasNoActiveKid
   BY DEF TxInv
<1> QED BY <1>1, TxInvHolds, PTL

(* The committed statuses change only when a child is claimed or a         *)
(* transaction commits.                                                    *)
LEMMA StatusChanges ==
  ASSUME [Next]_vars
  PROVE  \/ status' = status
         \/ \E k \in Kids : Claim(k) \/ CommitKid(k)
         \/ CancelCommit
BY DEF Next, KidStep, UpdateKid, InsertResult, LockRoot, CountActive, Tally, CloseRoot, AbortKid,
       RollBackKid, VictimKid, CancelStep, CancelLock, MatchQueued, MatchRunning, CancelMatch,
       MarkQueued, MarkRunning, DetectDeadlock, VictimCanceller, NothingLeft, vars

(* No row ends twice. *)
THEOREM RowsEndOnceHolds == Spec => RowsEndOnce
<1> DEFINE Kept == \A r \in Rows : status[r] \in Terminal => status'[r] = status[r]
<1>1. TxInv /\ [Next]_vars => [Kept]_vars
   <2> SUFFICES ASSUME TxInv, [Next]_vars, NEW r \in Rows, status[r] \in Terminal
                PROVE  status'[r] = status[r]
      OBVIOUS
   <2>1. ASSUME NEW k \in Kids, Claim(k)
         PROVE  status'[r] = status[r]
      BY <2>1 DEF Claim, TxInv, TypeOK
   <2>2. ASSUME NEW k \in Kids, CommitKid(k)
         PROVE  status'[r] = status[r]
      BY <2>2, CommitKidStatus
   <2>3. CASE CancelCommit
      BY <2>3, CancelCommitStatus
   <2> QED BY <2>1, <2>2, <2>3, StatusChanges
<1> QED BY <1>1, TxInvHolds, PTL DEF Spec, RowsEndOnce

(***************************************************************************)
(* Who waits for whom.                                                     *)
(***************************************************************************)

(* The transactions that have begun: only these hold locks. *)
InFlight ==
    {k \in Kids : pc[k] # "begin"}
        \cup {c \in {Canceller} : pc[c] \notin {"begin", "done"}}

(* The next statement of a transaction in flight has to wait for the lock  *)
(* of a row.                                                               *)
Waits(t) ==
    IF t = Canceller
    THEN /\ pc[t] \in {"mark_queued", "mark_running"}
         /\ todo # {}
         /\ \A r \in todo : ~ CanLock(t, r)
    ELSE \/ pc[t] \in {"lock_root", "close"} /\ ~ CanLock(t, Root)
         \/ pc[t] = "insert" /\ lock[Root] = Canceller

(* Who holds a lock: a child's row is locked by its own transaction or by  *)
(* the canceller, and who has the root has no lock left to ask for, unless *)
(* it is the canceller.                                                    *)
LockInv ==
    /\ \A k \in Kids : /\ lock[k] \in {NoTx, Canceller, k}
                       /\ lock[k] = k => pc[k] # "begin"
                       /\ lock[Root] = k => pc[k] \in {"count", "tally", "close", "commit"}
    /\ \A r \in Rows : lock[r] = Canceller => pc[Canceller] \notin {"begin", "done"}

LEMMA LockInvInit == Init => LockInv
BY Distinct DEF Init, LockInv

(* The lock of a row that t gives up is free. *)
LEMMA EndsLocks ==
  ASSUME TxInv, LockInv, NEW t \in Txs, Ends(t),
         pc'[t] = "begin" \/ t = Canceller, \A s \in Txs \ {t} : pc'[s] = pc[s]
  PROVE  LockInv'
<1>1. \A r \in Rows : lock'[r] = IF lock[r] = t THEN NoTx ELSE lock[r]
   BY DEF Ends
<1>2. \A r \in Rows : lock'[r] # t
   BY <1>1, Distinct
<1>3. \A k \in Kids : lock'[k] \in {NoTx, Canceller, k}
   BY <1>1, Distinct DEF LockInv
<1>4. ASSUME NEW k \in Kids
      PROVE  /\ lock'[k] = k => pc'[k] # "begin"
             /\ lock'[Root] = k => pc'[k] \in {"count", "tally", "close", "commit"}
   BY <1>1, <1>2, Distinct DEF LockInv
<1>5. ASSUME NEW r \in Rows, lock'[r] = Canceller
      PROVE  pc'[Canceller] \notin {"begin", "done"}
   BY <1>1, <1>2, <1>5, Distinct DEF LockInv
<1> QED BY <1>3, <1>4, <1>5 DEF LockInv

LEMMA LockInvStep == TxInv /\ LockInv /\ [Next]_vars => LockInv'
<1> SUFFICES ASSUME TxInv, LockInv, [Next]_vars PROVE LockInv'
   OBVIOUS
<1>1. /\ lock \in [Rows -> Txs \cup {NoTx}]
      /\ pc \in [Txs -> {"begin", "insert", "lock_root", "count", "tally", "close", "commit",
                         "match_queued", "mark_queued", "mark_running", "done"}]
   BY DEF TxInv, TypeOK
<1>2. ASSUME NEW k \in Kids, \E st \in Terminal \cup Queued : UpdateKid(k, st)
      PROVE  LockInv'
   <2>1. PICK st \in Terminal \cup Queued : UpdateKid(k, st)
      BY <1>2
   <2>2. AfterUpdate(st) # "begin"
      BY DEF AfterUpdate
   <2> QED BY <1>1, <2>1, <2>2, Distinct DEF UpdateKid, LockInv
<1>3. ASSUME NEW k \in Kids, (\E new \in SUBSET (Kids \ {k}) : InsertResult(k, new)) \/ CountActive(k) \/ Tally(k)
      PROVE  LockInv'
   <2>1. /\ lock' = lock /\ pc[k] # "begin"
         /\ \E to \in {"count", "tally", "close", "commit"} : pc' = [pc EXCEPT ![k] = to]
      BY <1>3 DEF InsertResult, CountActive, Tally
   <2> QED BY <1>1, <2>1, Distinct DEF LockInv
<1>4. ASSUME NEW k \in Kids, LockRoot(k) \/ CloseRoot(k)
      PROVE  LockInv'
   <2>1. /\ lock' = lock \/ lock' = [lock EXCEPT ![Root] = k]
         /\ \E to \in {"count", "commit"} : pc' = [pc EXCEPT ![k] = to]
      BY <1>4 DEF LockRoot, CloseRoot
   <2> QED BY <1>1, <2>1, Distinct DEF LockInv
<1>5. ASSUME NEW k \in Kids, CommitKid(k) \/ AbortKid(k) \/ VictimKid(k)
      PROVE  LockInv'
   <2>1. Ends(k) /\ pc' = [pc EXCEPT ![k] = "begin"]
      BY <1>5 DEF CommitKid, AbortKid, VictimKid, RollBackKid
   <2>2. pc'[k] = "begin" /\ \A s \in Txs \ {k} : pc'[s] = pc[s]
      BY <1>1, <2>1, Distinct
   <2> QED BY <2>1, <2>2, EndsLocks, Distinct
<1>6. CASE CancelLock
   BY <1>1, <1>6, Distinct DEF CancelLock, LockInv
<1>7. CASE MatchQueued \/ MatchRunning
   <2>1. /\ lock' = lock
         /\ \E to \in {"mark_queued", "mark_running"} : pc' = [pc EXCEPT ![Canceller] = to]
      BY <1>7 DEF MatchQueued, MatchRunning, CancelMatch
   <2> QED BY <1>1, <2>1, Distinct DEF LockInv
<1>8. ASSUME NEW r \in Rows, MarkQueued(r) \/ MarkRunning(r)
      PROVE  LockInv'
   <2>1. /\ lock' = lock \/ lock' = [lock EXCEPT ![r] = Canceller]
         /\ pc' = pc /\ pc[Canceller] \in {"mark_queued", "mark_running"}
      BY <1>8 DEF MarkQueued, MarkRunning
   <2> QED BY <1>1, <2>1, Distinct DEF LockInv
<1>9. CASE CancelCommit \/ VictimCanceller
   <2>1. Ends(Canceller) /\ pc' = [pc EXCEPT ![Canceller] = "done"]
      BY <1>9 DEF CancelCommit, VictimCanceller, CancelEnds
   <2>2. \A s \in Txs \ {Canceller} : pc'[s] = pc[s]
      BY <1>1, <2>1
   <2> QED BY <2>1, <2>2, EndsLocks, Distinct
<1>10. CASE UNCHANGED <<lock, pc>>
   BY <1>10 DEF LockInv
<1>11. ASSUME NEW k \in Kids, Claim(k)
       PROVE  UNCHANGED <<lock, pc>>
   BY <1>11 DEF Claim
<1> QED BY <1>2, <1>3, <1>4, <1>5, <1>6, <1>7, <1>8, <1>9, <1>10, <1>11
        DEF Next, KidStep, CancelStep, DetectDeadlock, NothingLeft, vars

(* Whenever transactions are in flight one of them can go on, or a child   *)
(* waits for the root Cancel has locked while Cancel waits for that child: *)
(* the finalizers of siblings never wait for each other in a circle, in    *)
(* whatever order they end, and the only circle is the one PostgreSQL's    *)
(* deadlock detector breaks.                                               *)
THEOREM OnlyCancelDeadlocks ==
    Spec => [](\/ InFlight = {}
               \/ \E t \in InFlight : ~ Waits(t)
               \/ \E k \in Kids : Deadlocked(k))
<1> DEFINE SomebodyMoves ==
       \/ InFlight = {}
       \/ \E t \in InFlight : ~ Waits(t)
       \/ \E k \in Kids : Deadlocked(k)
<1>1. TxInv /\ LockInv => SomebodyMoves
   <2> SUFFICES ASSUME TxInv, LockInv, NEW t0 \in InFlight, \A t \in InFlight : Waits(t)
                PROVE  \E k \in Kids : Deadlocked(k)
      OBVIOUS
   <2>1. /\ \A k \in Kids : k # Canceller /\ (k \in InFlight <=> pc[k] # "begin")
         /\ Canceller \in InFlight <=> pc[Canceller] \notin {"begin", "done"}
      BY Distinct DEF InFlight
   <2>2. lock[Root] \in Kids \cup {Canceller, NoTx}
      BY Distinct DEF TxInv, TypeOK
   <2>3. lock[Root] \notin Kids
      <3> SUFFICES ASSUME NEW k \in Kids, lock[Root] = k PROVE FALSE
         OBVIOUS
      <3>1. pc[k] \in {"count", "tally", "close", "commit"} /\ k # Canceller
         BY <2>1 DEF LockInv
      <3>2. ~ Waits(k)
         BY <3>1 DEF Waits, CanLock
      <3> QED BY <2>1, <3>1, <3>2
   <2>4. lock[Root] # NoTx
      <3> SUFFICES ASSUME lock[Root] = NoTx PROVE FALSE
         OBVIOUS
      <3>1. \A k \in Kids : ~ Waits(k)
         BY <2>1, Distinct DEF Waits, CanLock
      <3>2. Canceller \in InFlight
         BY <3>1 DEF InFlight
      <3>3. lock[Root] = Canceller
         BY <2>1, <3>2 DEF TxInv, CancelInv
      <3> QED BY <3>3, Distinct
   <2>5. lock[Root] = Canceller
      BY <2>2, <2>3, <2>4
   <2>6. Canceller \in InFlight
      BY <2>1, <2>5, Distinct DEF LockInv
   <2>7. PICK r \in todo : ~ CanLock(Canceller, r)
      BY <2>6 DEF Waits
   <2>8. r \in Kids /\ lock[r] = r
      <3>1. r \in Rows /\ r # Root
         BY <2>5, <2>7 DEF TxInv, TypeOK, CanLock
      <3> QED BY <2>7, <3>1 DEF LockInv, CanLock
   <2>9. Waits(r) /\ r # Canceller
      BY <2>1, <2>8 DEF LockInv
   <2>10. pc[r] \in {"lock_root", "insert", "close"}
      BY <2>9 DEF Waits
   <2> QED BY <2>5, <2>7, <2>8, <2>10 DEF Deadlocked
<1>2. Spec => []LockInv
   BY LockInvInit, LockInvStep, TxInvHolds, PTL DEF Spec
<1> QED BY <1>1, <1>2, TxInvHolds, PTL

(***************************************************************************)
(* What the refinement needs besides: the outcome of the root, the sibling *)
(* of a child that lets the root wait, and the children that escape.       *)
(***************************************************************************)

(* EndInv of child k survives a step of somebody else that forgets no      *)
(* attempt, creates no waiting root, removes no row, lets the canceller    *)
(* lock the root only if k has not inserted anything, and leaves the       *)
(* others alone once k has tallied them.                                   *)
LEMMA EndFrame ==
  ASSUME TxInv, NEW k \in Kids, EndInv(k),
         mine'[k] = mine[k], pc'[k] = pc[k], closing'[k] = closing[k], rootType' = rootType,
         attempted \subseteq attempted',
         status'[k] = "running" => status[k] = "running" \/ k \in attempted',
         status'[Root] = "waiting" => status[Root] = "waiting",
         lock'[Root] = Canceller => lock[Root] = Canceller \/ k \notin KeyShares,
         \A c \in Kids : status[c] # "absent" => status'[c] # "absent",
         pc[k] = "close" \/ mine[k][Root] # Unwritten =>
             \A c \in Kids \ {k} : status'[c] = status[c]
  PROVE  EndInv(k)'
<1>1. KidInv(k)
   BY DEF TxInv
<1>2. \A c \in Kids : /\ mine[k][c] = Unwritten => View(k)[c] = status[c] /\ View(k)'[c] = status'[c]
                      /\ mine[k][c] # Unwritten => View(k)[c] = mine[k][c] /\ View(k)'[c] = mine[k][c]
   BY Distinct DEF View
<1>3. ASSUME pc[k] = "close" \/ mine[k][Root] # Unwritten
      PROVE  RootOutcome(View(k))' = RootOutcome(View(k))
   <2>1. mine[k][k] # Unwritten
      BY <1>1, <1>3 DEF KidInv
   <2>2. \A c \in Kids : View(k)'[c] = View(k)[c]
      BY <1>2, <1>3, <2>1
   <2>3. RootOutcome(View(k))' = RootOutcome(View(k)')
      BY DEF RootOutcome
   <2> QED BY <2>2, <2>3, SameOutcome
<1>4. k \in KeyShares' <=> k \in KeyShares
   BY DEF KeyShares
<1>5. /\ pc[k] = "close" => closing'[k] = RootOutcome(View(k))'
      /\ mine[k][Root] # Unwritten => mine'[k][Root] = RootOutcome(View(k))'
   BY <1>3 DEF EndInv
<1>6. ASSUME pc[k] = "commit", mine[k][k] \in Terminal, mine[k][Root] = Unwritten,
             status'[Root] = "waiting"
      PROVE  \E c \in Kids \ {k} : View(k)'[c] # "absent"
   <2>1. PICK c \in Kids \ {k} : View(k)[c] # "absent"
      BY <1>6 DEF EndInv
   <2> QED BY <1>2, <2>1
<1>7. /\ pc[k] = "insert" => mine[k][k] = "completed"
      /\ \A c \in Kids \ {k} : mine[k][c] # Unwritten => k \in KeyShares
      /\ lock[Root] = Canceller => k \notin KeyShares
      /\ status[k] = "running" => k \in attempted
   BY DEF EndInv
<1> QED BY <1>4, <1>5, <1>6, <1>7 DEF EndInv

LEMMA AtomicInvInit == Init => AtomicInv
<1> SUFFICES ASSUME Init PROVE AtomicInv
   OBVIOUS
<1>1. /\ \A k \in Kids : status[k] # "running"
      /\ \A t \in Txs : pc[t] = "begin"
      /\ \A t \in Txs, r \in Rows : mine[t][r] = Unwritten
   BY Distinct DEF Init, FirstStatus, NoWrites
<1>2. \A k \in Kids : k \notin KeyShares
   BY <1>1, Distinct DEF KeyShares
<1>3. \A k \in Kids : EndInv(k)
   BY <1>1, <1>2, Distinct DEF EndInv
<1>4. EscapeInv
   BY <1>1, Distinct DEF EscapeInv
<1> QED BY <1>3, <1>4 DEF AtomicInv

LEMMA ClaimEnd ==
  ASSUME TxInv, AtomicInv, NEW i \in Kids, Claim(i)
  PROVE  AtomicInv'
<1>1. /\ status[i] \in Queued
      /\ status' = [status EXCEPT ![i] = "running"]
      /\ attempted' = attempted \cup {i}
      /\ UNCHANGED <<lock, mine, pc, todo, closing, rootType>>
   BY DEF Claim, locals
<1>2. /\ status'[i] = "running"
      /\ \A r \in Rows \ {i} : status'[r] = status[r]
   BY <1>1, Distinct DEF TxInv, TypeOK
<1>3. ASSUME NEW k \in Kids
      PROVE  EndInv(k)'
   <2>1. EndInv(k)
      BY DEF AtomicInv
   <2>2. pc[k] = "close" \/ mine[k][Root] # Unwritten =>
             \A c \in Kids \ {k} : status'[c] = status[c]
      <3> SUFFICES ASSUME pc[k] = "close" \/ mine[k][Root] # Unwritten, NEW c \in Kids \ {k}
                   PROVE  c # i
         BY <1>2, Distinct
      <3>1. status[c] \notin Active
         BY NobodyActive
      <3> QED BY <1>1, <3>1
   <2>3. status'[k] = "running" => status[k] = "running" \/ k \in attempted'
      BY <1>1, <1>2, Distinct
   <2>4. /\ status'[Root] = "waiting" => status[Root] = "waiting"
         /\ \A c \in Kids : status[c] # "absent" => status'[c] # "absent"
      BY <1>2, Distinct
   <2> QED BY <1>1, <2>1, <2>2, <2>3, <2>4, EndFrame
<1>4. EscapeInv'
   <2>1. EscapeInv
      BY DEF AtomicInv
   <2> QED BY <1>1, <1>2, <2>1, Distinct DEF EscapeInv
<1> QED BY <1>3, <1>4 DEF AtomicInv

(* A statement of child i that commits nothing. *)
LEMMA KidEnd ==
  ASSUME TxInv, AtomicInv, NEW i \in Kids, EndInv(i)',
         UNCHANGED <<status, todo, rootType, attempted>>,
         \A t \in Txs \ {i} : mine'[t] = mine[t] /\ pc'[t] = pc[t],
         \A k \in Kids \ {i} : closing'[k] = closing[k],
         lock'[Root] = Canceller => lock[Root] = Canceller
  PROVE  AtomicInv'
<1>1. ASSUME NEW k \in Kids, k # i
      PROVE  EndInv(k)'
   <2>1. EndInv(k)
      BY DEF AtomicInv
   <2>2. mine'[k] = mine[k] /\ pc'[k] = pc[k] /\ closing'[k] = closing[k]
      BY <1>1, Distinct
   <2> QED BY <2>1, <2>2, EndFrame
<1>2. EscapeInv'
   <2>1. mine'[Canceller] = mine[Canceller] /\ pc'[Canceller] = pc[Canceller]
      BY Distinct
   <2>2. EscapeInv
      BY DEF AtomicInv
   <2> QED BY <2>1, <2>2 DEF EscapeInv
<1> QED BY <1>1, <1>2 DEF AtomicInv

LEMMA UpdateKidEnd ==
  ASSUME TxInv, AtomicInv, NEW i \in Kids, NEW st \in Terminal \cup Queued, UpdateKid(i, st)
  PROVE  AtomicInv'
<1> DEFINE next == AfterUpdate(st)
<1>1. /\ pc[i] = "begin"
      /\ lock' = [lock EXCEPT ![i] = i]
      /\ mine' = [mine EXCEPT ![i][i] = st]
      /\ pc' = [pc EXCEPT ![i] = next]
      /\ UNCHANGED <<status, todo, closing, rootType, attempted>>
   BY DEF UpdateKid, locals
<1>2. TypeOK /\ KidInv(i) /\ EndInv(i)
   BY DEF TxInv, AtomicInv
<1>3. /\ next \in {"commit", "insert", "lock_root", "count"}
      /\ next = "commit" => st \notin Terminal
      /\ next = "insert" => st = "completed"
      /\ st = "completed" /\ rootType = "dependency_audit" => next = "insert"
   BY <1>2, RootFinalizationAssumption DEF AfterUpdate, TypeOK, RootFinalizationAssumption
<1> HIDE DEF next
<1>4. /\ pc'[i] = next /\ mine'[i][i] = st /\ lock'[Root] = lock[Root]
      /\ \A r \in Rows \ {i} : mine'[i][r] = mine[i][r]
      /\ \A t \in Txs \ {i} : mine'[t] = mine[t] /\ pc'[t] = pc[t]
   BY <1>1, <1>2, Distinct DEF TypeOK
<1>5. \A r \in Rows : mine[i][r] = Unwritten
   BY <1>1, <1>2 DEF KidInv, NoWrites
<1>6. i \notin KeyShares'
   BY <1>1, <1>3, <1>4 DEF KeyShares
<1>7. EndInv(i)'
   BY <1>1, <1>2, <1>3, <1>4, <1>5, <1>6, Distinct DEF EndInv
<1> QED BY <1>1, <1>4, <1>7, KidEnd

LEMMA InsertResultEnd ==
  ASSUME TxInv, AtomicInv, NEW i \in Kids, NEW new \in SUBSET (Kids \ {i}), InsertResult(i, new)
  PROVE  AtomicInv'
<1>1. /\ pc[i] = "insert"
      /\ lock[Root] # Canceller
      /\ mine' = [mine EXCEPT ![i] = [r \in Rows |-> IF r \in new THEN "pending" ELSE mine[i][r]]]
      /\ pc' = [pc EXCEPT ![i] = "count"]
      /\ UNCHANGED <<status, lock, todo, closing, rootType, attempted>>
   BY DEF InsertResult, locals, counts
<1>2. TypeOK /\ KidInv(i) /\ EndInv(i)
   BY DEF TxInv, AtomicInv
<1>3. /\ pc'[i] = "count"
      /\ \A r \in Rows : mine'[i][r] = IF r \in new THEN "pending" ELSE mine[i][r]
      /\ \A t \in Txs \ {i} : mine'[t] = mine[t] /\ pc'[t] = pc[t]
   BY <1>1, <1>2, Distinct DEF TypeOK
<1>4. i \in KeyShares'
   <2>1. mine'[i][i] = "completed"
      BY <1>1, <1>2, <1>3, Distinct DEF EndInv
   <2>2. rootType' = "dependency_audit"
      BY <1>1, <1>2, RootFinalizationAssumption
         DEF KidInv, IsScan, TypeOK, RootFinalizationAssumption
   <2> QED BY <1>3, <2>1, <2>2 DEF KeyShares
<1>5. mine'[i][Root] = Unwritten
   BY <1>1, <1>2, <1>3, Distinct DEF KidInv
<1>6. EndInv(i)'
   BY <1>1, <1>2, <1>3, <1>4, <1>5 DEF EndInv
<1> QED BY <1>1, <1>3, <1>6, KidEnd

LEMMA LockRootEnd ==
  ASSUME TxInv, AtomicInv, NEW i \in Kids, LockRoot(i)
  PROVE  AtomicInv'
<1>1. /\ pc[i] = "lock_root"
      /\ lock' = [lock EXCEPT ![Root] = i]
      /\ pc' = [pc EXCEPT ![i] = "count"]
      /\ UNCHANGED <<status, mine, todo, closing, rootType, attempted>>
   BY DEF LockRoot, locals, counts
<1>2. TypeOK /\ KidInv(i) /\ EndInv(i)
   BY DEF TxInv, AtomicInv
<1>3. /\ lock'[Root] = i /\ pc'[i] = "count"
      /\ \A t \in Txs \ {i} : pc'[t] = pc[t]
   BY <1>1, <1>2, Distinct DEF TypeOK
<1>4. i \in KeyShares' <=> i \in KeyShares
   BY <1>1, <1>3 DEF KeyShares
<1>5. mine[i][Root] = Unwritten
   BY <1>1, <1>2 DEF KidInv
<1>6. EndInv(i)'
   BY <1>1, <1>2, <1>3, <1>4, <1>5, Distinct DEF EndInv
<1> QED BY <1>1, <1>3, <1>6, Distinct, KidEnd

(* The child that counts an active one has a sibling: its own row ends. *)
LEMMA CountActiveEnd ==
  ASSUME TxInv, AtomicInv, NEW i \in Kids, CountActive(i)
  PROVE  AtomicInv'
<1> DEFINE next == IF \E c \in Kids : View(i)[c] \in Active THEN "commit" ELSE "tally"
<1>1. /\ pc[i] = "count"
      /\ pc' = [pc EXCEPT ![i] = next]
      /\ UNCHANGED <<status, lock, mine, todo, closing, rootType, attempted>>
   BY DEF CountActive, locals, counts
<1>2. TypeOK /\ KidInv(i) /\ EndInv(i)
   BY DEF TxInv, AtomicInv
<1>3. next = "commit" => \E c \in Kids \ {i} : View(i)[c] # "absent"
   <2> SUFFICES ASSUME next = "commit" PROVE \E c \in Kids \ {i} : View(i)[c] # "absent"
      OBVIOUS
   <2>1. PICK c \in Kids : View(i)[c] \in Active
      OBVIOUS
   <2>2. View(i)[i] \in Terminal
      BY <1>1, <1>2, Distinct, ViewAt DEF KidInv
   <2> QED BY <2>1, <2>2
<1>4. next \in {"commit", "tally"}
   OBVIOUS
<1> HIDE DEF next
<1>5. pc'[i] = next /\ \A t \in Txs \ {i} : pc'[t] = pc[t]
   BY <1>1, <1>2, Distinct DEF TypeOK
<1>6. View(i)' = View(i)
   BY <1>1 DEF View
<1>7. i \in KeyShares' <=> i \in KeyShares
   BY <1>1, <1>4, <1>5 DEF KeyShares
<1>8. mine[i][Root] = Unwritten
   BY <1>1, <1>2 DEF KidInv
<1>9. EndInv(i)'
   BY <1>1, <1>2, <1>3, <1>4, <1>5, <1>6, <1>7, <1>8 DEF EndInv
<1> QED BY <1>1, <1>5, <1>9, KidEnd

LEMMA TallyEnd ==
  ASSUME TxInv, AtomicInv, NEW i \in Kids, Tally(i)
  PROVE  AtomicInv'
<1>1. /\ pc[i] = "tally"
      /\ closing' = [closing EXCEPT ![i] = RootOutcome(View(i))]
      /\ pc' = [pc EXCEPT ![i] = "close"]
      /\ UNCHANGED <<status, lock, mine, todo, rootType, attempted>>
   BY DEF Tally, counts
<1>2. TypeOK /\ KidInv(i) /\ EndInv(i)
   BY DEF TxInv, AtomicInv
<1>3. RootOutcome(View(i))' = RootOutcome(View(i))
   <2>1. View(i)' = View(i)
      BY <1>1 DEF View
   <2>2. RootOutcome(View(i))' = RootOutcome(View(i)')
      BY DEF RootOutcome
   <2> QED BY <2>1, <2>2
<1>4. /\ pc'[i] = "close" /\ closing'[i] = RootOutcome(View(i))
      /\ \A t \in Txs \ {i} : pc'[t] = pc[t]
      /\ \A k \in Kids \ {i} : closing'[k] = closing[k]
   BY <1>1, <1>2, Distinct DEF TypeOK
<1>5. i \in KeyShares' <=> i \in KeyShares
   BY <1>1, <1>4 DEF KeyShares
<1>6. mine[i][Root] = Unwritten
   BY <1>1, <1>2 DEF KidInv
<1>7. EndInv(i)'
   BY <1>1, <1>2, <1>3, <1>4, <1>5, <1>6 DEF EndInv
<1> QED BY <1>1, <1>4, <1>7, KidEnd

LEMMA CloseRootEnd ==
  ASSUME TxInv, AtomicInv, NEW i \in Kids, CloseRoot(i)
  PROVE  AtomicInv'
<1>1. /\ pc[i] = "close"
      /\ pc' = [pc EXCEPT ![i] = "commit"]
      /\ UNCHANGED <<status, todo, closing, rootType, attempted>>
   BY DEF CloseRoot, locals, counts
<1>2. TypeOK /\ KidInv(i) /\ EndInv(i)
   BY DEF TxInv, AtomicInv
<1>3. pc'[i] = "commit" /\ \A t \in Txs \ {i} : pc'[t] = pc[t]
   BY <1>1, <1>2, Distinct DEF TypeOK
<1>4. /\ mine[i][Root] = Unwritten
      /\ closing[i] = RootOutcome(View(i))
      /\ closing[i] \in Terminal
   BY <1>1, <1>2 DEF KidInv, EndInv
<1>5. CASE status[Root] = "waiting"
   <2>1. /\ mine' = [mine EXCEPT ![i][Root] = closing[i]]
         /\ lock' = [lock EXCEPT ![Root] = i]
      BY <1>5 DEF CloseRoot
   <2>2. /\ mine'[i][Root] = closing[i]
         /\ \A r \in Rows \ {Root} : mine'[i][r] = mine[i][r]
         /\ \A t \in Txs \ {i} : mine'[t] = mine[t]
         /\ lock'[Root] = i
      BY <1>2, <2>1, Distinct DEF TypeOK
   <2>3. RootOutcome(View(i))' = RootOutcome(View(i))
      <3>1. \A c \in Kids : View(i)'[c] = View(i)[c]
         BY <1>1, <2>2, Distinct DEF View
      <3>2. RootOutcome(View(i))' = RootOutcome(View(i)')
         BY DEF RootOutcome
      <3> QED BY <3>1, <3>2, SameOutcome
   <2>4. i \in KeyShares' <=> i \in KeyShares
      BY <1>1, <1>3, <2>2, Distinct DEF KeyShares
   <2>5. EndInv(i)'
      BY <1>1, <1>2, <1>3, <1>4, <2>2, <2>3, <2>4, Distinct DEF EndInv
   <2> QED BY <1>1, <1>3, <2>2, <2>5, Distinct, KidEnd
<1>6. CASE status[Root] # "waiting"
   <2>1. mine' = mine /\ lock' = lock
      BY <1>6 DEF CloseRoot
   <2>2. i \in KeyShares' <=> i \in KeyShares
      BY <1>1, <1>3, <2>1 DEF KeyShares
   <2>3. EndInv(i)'
      BY <1>1, <1>2, <1>3, <1>4, <1>6, <2>1, <2>2 DEF EndInv
   <2> QED BY <1>1, <1>3, <2>1, <2>3, KidEnd
<1> QED BY <1>5, <1>6

(* A child whose transaction has ended. *)
LEMMA IdleEnd ==
  ASSUME NEW i \in Kids, pc'[i] = "begin", \A r \in Rows : mine'[i][r] = Unwritten,
         status'[i] = "running" => i \in attempted'
  PROVE  EndInv(i)'
<1>1. i \notin KeyShares'
   BY Distinct DEF KeyShares
<1> QED BY <1>1, Distinct DEF EndInv

LEMMA RollBackKidEnd ==
  ASSUME TxInv, AtomicInv, NEW i \in Kids, RollBackKid(i)
  PROVE  AtomicInv'
<1>1. /\ Ends(i)
      /\ pc' = [pc EXCEPT ![i] = "begin"]
      /\ closing' = [closing EXCEPT ![i] = "none"]
      /\ UNCHANGED <<status, todo, rootType, attempted>>
   BY DEF RollBackKid
<1>2. TypeOK /\ EndInv(i)
   BY DEF TxInv, AtomicInv
<1>3. /\ pc'[i] = "begin"
      /\ \A t \in Txs \ {i} : pc'[t] = pc[t]
      /\ \A k \in Kids \ {i} : closing'[k] = closing[k]
   BY <1>1, <1>2, Distinct DEF TypeOK
<1>4. /\ \A r \in Rows : mine'[i][r] = Unwritten
      /\ \A u \in Txs \ {i} : mine'[u] = mine[u]
   BY <1>1, <1>2, Distinct, EndsColumns
<1>5. lock'[Root] = Canceller => lock[Root] = Canceller
   BY <1>1, Distinct DEF Ends
<1>6. EndInv(i)'
   BY <1>1, <1>2, <1>3, <1>4, IdleEnd DEF EndInv
<1> QED BY <1>1, <1>3, <1>4, <1>5, <1>6, KidEnd

(* The rows a child inserts are committed while the canceller is away, and *)
(* the row that goes back to the queue has run.                            *)
LEMMA CommitKidEnd ==
  ASSUME TxInv, AtomicInv, NEW i \in Kids, CommitKid(i)
  PROVE  AtomicInv'
<1>1. /\ pc[i] = "commit"
      /\ Ends(i)
      /\ pc' = [pc EXCEPT ![i] = "begin"]
      /\ closing' = [closing EXCEPT ![i] = "none"]
      /\ UNCHANGED <<todo, rootType, attempted>>
   BY DEF CommitKid, counts
<1>2. TypeOK /\ KidInv(i) /\ EndInv(i) /\ CancelInv /\ EscapeInv
   BY DEF TxInv, AtomicInv
<1>3. /\ pc'[i] = "begin"
      /\ \A t \in Txs \ {i} : pc'[t] = pc[t]
      /\ \A k \in Kids \ {i} : closing'[k] = closing[k]
   BY <1>1, <1>2, Distinct DEF TypeOK
<1>4. /\ \A r \in Rows : mine'[i][r] = Unwritten
      /\ \A u \in Txs \ {i} : mine'[u] = mine[u]
   BY <1>1, <1>2, Distinct, EndsColumns
<1>5. lock'[Root] = Canceller => lock[Root] = Canceller
   BY <1>1, Distinct DEF Ends
<1>6. /\ status[i] = "running" /\ status'[i] = mine[i][i]
      /\ mine[i][i] \in Terminal \cup Queued
      /\ \A c \in Kids \ {i} : \/ status'[c] = status[c] /\ mine[i][c] = Unwritten
                               \/ /\ status[c] = "absent" /\ status'[c] = "pending"
                                  /\ mine[i][c] = "pending" /\ ~ IsScan
      /\ \/ status'[Root] = status[Root]
         \/ status[Root] = "waiting" /\ status'[Root] \in Terminal
   BY CommitKidStatus
<1>7. EndInv(i)'
   <2>1. i \in attempted'
      BY <1>1, <1>2, <1>6 DEF EndInv
   <2> QED BY <1>3, <1>4, <2>1, IdleEnd
<1>8. ASSUME NEW k \in Kids, k # i
      PROVE  EndInv(k)'
   <2>1. EndInv(k)
      BY DEF AtomicInv
   <2>2. mine'[k] = mine[k] /\ pc'[k] = pc[k] /\ closing'[k] = closing[k]
      BY <1>3, <1>4, <1>8, Distinct
   <2>3. ~ (pc[k] = "close" \/ mine[k][Root] # Unwritten)
      BY <1>6, <1>8, NobodyActive
   <2>4. /\ status'[k] = "running" => status[k] = "running"
         /\ status'[Root] = "waiting" => status[Root] = "waiting"
         /\ \A c \in Kids : status[c] # "absent" => status'[c] # "absent"
      BY <1>6, <1>8
   <2> QED BY <1>1, <1>5, <2>1, <2>2, <2>3, <2>4, EndFrame
<1>9. EscapeInv'
   <2> SUFFICES ASSUME NEW k \in Kids, k \notin attempted, status'[k] \in Queued,
                       mine[Canceller][k] = Unwritten,
                       pc[Canceller] \in {"mark_queued", "mark_running"},
                       pc[Canceller] = "mark_queued" => k \notin todo
                PROVE  FALSE
      <3>1. mine'[Canceller] = mine[Canceller] /\ pc'[Canceller] = pc[Canceller]
         BY <1>3, <1>4, Distinct
      <3> QED BY <1>1, <3>1 DEF EscapeInv
   <2>1. k # i
      BY <1>2, <1>6 DEF EndInv
   <2>2. status[k] \notin Queued
      BY <1>2 DEF EscapeInv
   <2>3. mine[i][k] # Unwritten
      BY <1>6, <2>1, <2>2
   <2>4. lock[Root] = Canceller
      BY <1>2 DEF CancelInv
   <2> QED BY <1>2, <2>1, <2>3, <2>4 DEF EndInv
<1> QED BY <1>7, <1>8, <1>9 DEF AtomicInv

(* A statement of the canceller: it locks the root only when no child      *)
(* holds it FOR KEY SHARE.                                                 *)
LEMMA CancelEnd ==
  ASSUME TxInv, AtomicInv, EscapeInv', UNCHANGED <<closing, rootType, attempted>>,
         \A k \in Kids : mine'[k] = mine[k] /\ pc'[k] = pc[k],
         \A k \in Kids : \/ status'[k] = status[k]
                         \/ status[k] \in Queued /\ status'[k] = "cancelled",
         status'[Root] = "waiting" => status[Root] = "waiting",
         lock'[Root] = Canceller => lock[Root] = Canceller \/ KeyShares = {}
  PROVE  AtomicInv'
<1>1. ASSUME NEW k \in Kids
      PROVE  EndInv(k)'
   <2>1. EndInv(k)
      BY DEF AtomicInv
   <2>2. pc[k] = "close" \/ mine[k][Root] # Unwritten =>
             \A c \in Kids \ {k} : status'[c] = status[c]
      <3> SUFFICES ASSUME pc[k] = "close" \/ mine[k][Root] # Unwritten, NEW c \in Kids \ {k}
                   PROVE  status'[c] = status[c]
         OBVIOUS
      <3>1. status[c] \notin Active
         BY NobodyActive
      <3> QED BY <3>1
   <2>3. /\ status'[k] = "running" => status[k] = "running"
         /\ \A c \in Kids : status[c] # "absent" => status'[c] # "absent"
      OBVIOUS
   <2> QED BY <2>1, <2>2, <2>3, EndFrame
<1> QED BY <1>1 DEF AtomicInv

LEMMA CancelLockEnd ==
  ASSUME TxInv, AtomicInv, CancelLock
  PROVE  AtomicInv'
<1>1. /\ KeyShares = {}
      /\ pc' = [pc EXCEPT ![Canceller] = "match_queued"] \/ pc' = [pc EXCEPT ![Canceller] = "done"]
      /\ UNCHANGED <<status, mine, todo, closing, rootType, attempted>>
   BY DEF CancelLock, locals, counts
<1>2. /\ pc'[Canceller] \in {"match_queued", "done"}
      /\ \A k \in Kids : pc'[k] = pc[k]
   BY <1>1, Distinct DEF TxInv, TypeOK
<1>3. EscapeInv'
   BY <1>2 DEF EscapeInv
<1> QED BY <1>1, <1>2, <1>3, CancelEnd

LEMMA CancelMatchEnd ==
  ASSUME TxInv, AtomicInv, MatchQueued \/ MatchRunning
  PROVE  AtomicInv'
<1>1. /\ \/ /\ pc[Canceller] = "match_queued"
            /\ todo' = {r \in Rows : View(Canceller)[r] \in Queued \cup {"waiting"}}
            /\ pc' = [pc EXCEPT ![Canceller] = "mark_queued"]
         \/ /\ pc[Canceller] = "mark_queued"
            /\ todo = {}
            /\ pc' = [pc EXCEPT ![Canceller] = "mark_running"]
      /\ UNCHANGED <<status, lock, mine, closing, rootType, attempted>>
   BY DEF MatchQueued, MatchRunning, CancelMatch, counts
<1>2. TypeOK /\ EscapeInv
   BY DEF TxInv, AtomicInv
<1>3. \A k \in Kids : pc'[k] = pc[k]
   BY <1>1, <1>2, Distinct DEF TypeOK
<1>4. EscapeInv'
   <2>1. CASE pc[Canceller] = "match_queued"
      <3>1. pc'[Canceller] = "mark_queued"
         BY <1>1, <1>2, <2>1, Distinct DEF TypeOK
      <3>2. ASSUME NEW k \in Kids, status[k] \in Queued, mine[Canceller][k] = Unwritten
            PROVE  k \in todo'
         BY <1>1, <2>1, <3>2, Distinct, ViewAt
      <3> QED BY <1>1, <3>1, <3>2 DEF EscapeInv
   <2>2. CASE pc[Canceller] = "mark_queued"
      BY <1>1, <1>2, <2>2 DEF EscapeInv
   <2> QED BY <1>1, <2>1, <2>2
<1> QED BY <1>1, <1>3, <1>4, CancelEnd

LEMMA CancelMarkEnd ==
  ASSUME TxInv, AtomicInv, NEW r \in Rows, MarkQueued(r) \/ MarkRunning(r)
  PROVE  AtomicInv'
<1>1. /\ todo' = todo \ {r}
      /\ UNCHANGED <<status, pc, closing, rootType, attempted>>
      /\ pc[Canceller] \in {"mark_queued", "mark_running"}
   BY DEF MarkQueued, MarkRunning, counts
<1>2. TypeOK /\ EscapeInv /\ CancelInv
   BY DEF TxInv, AtomicInv
<1>3. lock[Root] = Canceller
   BY <1>1, <1>2 DEF CancelInv
<1>4. CASE mine' = [mine EXCEPT ![Canceller][r] = "cancelled"]
   <2>1. /\ mine'[Canceller][r] = "cancelled"
         /\ \A q \in Rows \ {r} : mine'[Canceller][q] = mine[Canceller][q]
         /\ \A k \in Kids : mine'[k] = mine[k]
      BY <1>2, <1>4, Distinct DEF TypeOK
   <2>2. EscapeInv'
      BY <1>1, <1>2, <2>1, Distinct DEF EscapeInv
   <2> QED BY <1>1, <1>3, <2>1, <2>2, CancelEnd
<1>5. CASE mine' = mine /\ (pc[Canceller] = "mark_queued" => status[r] \notin Queued)
   <2>1. EscapeInv'
      BY <1>1, <1>2, <1>5 DEF EscapeInv
   <2> QED BY <1>1, <1>3, <1>5, <2>1, CancelEnd
<1> QED BY <1>4, <1>5 DEF MarkQueued, MarkRunning

LEMMA CancelEndsEnd ==
  ASSUME TxInv, AtomicInv, VictimCanceller \/ CancelCommit
  PROVE  AtomicInv'
<1>1. /\ Ends(Canceller)
      /\ pc' = [pc EXCEPT ![Canceller] = "done"]
      /\ UNCHANGED <<closing, rootType, attempted>>
   BY DEF VictimCanceller, CancelCommit, CancelEnds, counts
<1>2. TypeOK
   BY DEF TxInv
<1>3. \A u \in Txs \ {Canceller} : mine'[u] = mine[u]
   BY <1>1, <1>2, Distinct, EndsColumns
<1>4. lock'[Root] # Canceller
   BY <1>1, Distinct DEF Ends
<1>5. pc'[Canceller] = "done" /\ \A k \in Kids : pc'[k] = pc[k] /\ mine'[k] = mine[k]
   BY <1>1, <1>2, <1>3, Distinct DEF TypeOK
<1>6. EscapeInv'
   BY <1>5 DEF EscapeInv
<1>7. /\ \A k \in Kids : \/ status'[k] = status[k]
                         \/ status[k] \in Queued /\ status'[k] = "cancelled"
      /\ status'[Root] = "waiting" => status[Root] = "waiting"
   BY CancelCommitStatus DEF VictimCanceller
<1> QED BY <1>1, <1>4, <1>5, <1>6, <1>7, CancelEnd

LEMMA AtomicInvStep == TxInv /\ AtomicInv /\ [Next]_vars => AtomicInv'
<1> SUFFICES ASSUME TxInv, AtomicInv, [Next]_vars PROVE AtomicInv'
   OBVIOUS
<1>1. ASSUME NEW k \in Kids, KidStep(k)
      PROVE  AtomicInv'
   BY <1>1, UpdateKidEnd, InsertResultEnd, LockRootEnd, CountActiveEnd, TallyEnd,
      CloseRootEnd, CommitKidEnd DEF KidStep
<1>2. CASE CancelStep
   BY <1>2, CancelLockEnd, CancelMatchEnd, CancelMarkEnd, CancelEndsEnd DEF CancelStep
<1>3. CASE UNCHANGED vars
   <2>1. UNCHANGED <<status, lock, mine, todo, pc, closing, rootType, attempted>>
      BY <1>3 DEF vars
   <2>2. EscapeInv'
      BY <2>1 DEF AtomicInv, EscapeInv
   <2> QED BY <2>1, <2>2, CancelEnd
<1> QED BY <1>1, <1>2, <1>3, ClaimEnd, RollBackKidEnd, CancelEndsEnd
        DEF Next, DetectDeadlock, NothingLeft, AbortKid, VictimKid

(* Both invariants hold in every reachable state. *)
THEOREM AtomicInvHolds == Spec => []AtomicInv
<1>1. Init => TxInv /\ AtomicInv
   BY TxInvInit, AtomicInvInit
<1>2. TxInv /\ AtomicInv /\ [Next]_vars => (TxInv /\ AtomicInv)'
   BY TxInvStep, AtomicInvStep
<1> QED BY <1>1, <1>2, PTL DEF Spec

(***************************************************************************)
(* The transactions implement AtomicFinalization: a claim and a commit are *)
(* one abstract step, every other statement is none.                       *)
(***************************************************************************)

(* The type of the root is fixed; only a claim counts an attempt. *)
LEMMA AtomicColumnsFixed ==
  ASSUME [Next]_vars
  PROVE  /\ rootType' = rootType
         /\ attempted' = attempted \/ \E k \in Kids : Claim(k)
<1>1. rootType' = rootType
   BY DEF Next, Claim, KidStep, UpdateKid, InsertResult, LockRoot, CountActive, Tally, CloseRoot,
          CommitKid, AbortKid, RollBackKid, VictimKid, CancelStep, CancelLock, MatchQueued,
          MatchRunning, CancelMatch, MarkQueued, MarkRunning, CancelCommit, CancelEnds,
          DetectDeadlock, VictimCanceller, NothingLeft, counts, vars
<1>2. attempted' = attempted \/ \E k \in Kids : Claim(k)
   BY DEF Next, KidStep, UpdateKid, InsertResult, LockRoot, CountActive, Tally, CloseRoot,
          CommitKid, AbortKid, RollBackKid, VictimKid, CancelStep, CancelLock, MatchQueued,
          MatchRunning, CancelMatch, MarkQueued, MarkRunning, CancelCommit, CancelEnds,
          DetectDeadlock, VictimCanceller, NothingLeft, counts, vars
<1> QED BY <1>1, <1>2

(* The abstract specification knows the same statuses. *)
LEMMA SameVocabulary ==
  /\ AtomicView!Terminal = Terminal
  /\ AtomicView!Queued = Queued
  /\ AtomicView!Active = Active
BY DEF AtomicView!Terminal, AtomicView!Queued, AtomicView!Active

(* It computes the outcome of the root from what is left of its children;  *)
(* finalizeRoot counts them.                                               *)
LEMMA SameClosing ==
  ASSUME NEW v
  PROVE  AtomicView!Closing(v) = RootOutcome(v)
BY DEF AtomicView!Closing, RootOutcome

LEMMA AtomicClaim ==
  ASSUME NEW k \in Kids, Claim(k)
  PROVE  AtomicView!ClaimKid(k)
BY SameVocabulary DEF Claim, AtomicView!ClaimKid

(* The commit of a child ends the child alone, or the child and the root   *)
(* if nobody is active any more.  In an update scan the count of the       *)
(* transaction is still true; in an audit it may not be, but then the      *)
(* sibling it counted has ended since.                                     *)
LEMMA AtomicCommit ==
  ASSUME TxInv, AtomicInv, NEW k \in Kids, CommitKid(k)
  PROVE  \E new \in SUBSET (Kids \ {k}), missed \in BOOLEAN :
            AtomicView!FinishKid(k, mine[k][k], new, missed)
<1> DEFINE new == {c \in Kids \ {k} : mine[k][c] # Unwritten}
           view == [r \in Kids \cup {Root} |->
                       IF r = k THEN mine[k][k] ELSE IF r \in new THEN "pending" ELSE status[r]]
           closes == mine[k][k] \in Terminal /\ view[Root] = "waiting" /\ ~ AtomicView!SomeActive(view)
           missed == closes /\ mine[k][Root] = Unwritten
<1>1. /\ TypeOK /\ KidInv(k) /\ ScanInv(k) /\ EndInv(k)
      /\ pc[k] = "commit" /\ status' = View(k) /\ rootType' = rootType /\ attempted' = attempted
   BY DEF TxInv, AtomicInv, CommitKid, counts
<1>2. /\ status[k] = "running" /\ status'[k] = mine[k][k]
      /\ mine[k][k] \in Terminal \cup Queued
      /\ \A c \in Kids \ {k} : \/ status'[c] = status[c] /\ mine[k][c] = Unwritten
                               \/ /\ status[c] = "absent" /\ status'[c] = "pending"
                                  /\ mine[k][c] = "pending" /\ ~ IsScan
   BY CommitKidStatus
<1>3. /\ view[Root] = status[Root]
      /\ \A c \in Kids : view[c] = status'[c]
   BY <1>2, Distinct
<1>4. AtomicView!SomeActive(view) <=> \E c \in Kids : View(k)[c] \in Active
   BY <1>1, <1>3, SameVocabulary DEF AtomicView!SomeActive
<1>5. AtomicView!Closing(view) = RootOutcome(View(k))
   BY <1>1, <1>3, SameClosing, SameOutcome
<1>6. /\ \A c \in new : status[c] = "absent"
      /\ new # {} => mine[k][k] = "completed" /\ ~ AtomicView!IsUpdateScan
   <2>1. ASSUME NEW c \in new
         PROVE  mine[k][k] = "completed" /\ ~ IsScan /\ status[c] = "absent"
      BY <1>1, <1>2 DEF EndInv, KeyShares
   <2> QED BY <2>1 DEF AtomicView!IsUpdateScan, IsScan
<1>7. missed => AtomicView!Missable(k)
   <2> SUFFICES ASSUME closes, mine[k][Root] = Unwritten PROVE AtomicView!Missable(k)
      OBVIOUS
   <2>1. /\ status[Root] = "waiting" /\ mine[k][k] \in Terminal
         /\ \A c \in Kids : View(k)[c] \notin Active
      BY <1>3, <1>4
   <2>2. ~ IsScan
      BY <1>1, <2>1 DEF ScanInv
   <2>3. PICK c \in Kids \ {k} : View(k)[c] # "absent"
      BY <1>1, <2>1 DEF EndInv
   <2>4. View(k)[c] = status[c]
      BY <1>1, <1>2, <2>1, <2>3
   <2>5. status[c] \in Terminal
      BY <1>1, <2>1, <2>3, <2>4, Distinct DEF TypeOK
   <2> QED BY <2>2, <2>3, <2>5, SameVocabulary
           DEF AtomicView!Missable, AtomicView!IsUpdateScan, IsScan
<1>8. status' = IF closes /\ ~ missed THEN [view EXCEPT ![Root] = AtomicView!Closing(view)] ELSE view
   <2>1. status' = [r \in Kids \cup {Root} |-> status'[r]]
      BY <1>1 DEF View
   <2>2. CASE mine[k][Root] = Unwritten
      <3>1. status'[Root] = status[Root]
         BY <1>1, <2>2, Distinct, ViewAt
      <3>2. status' = view
         BY <1>3, <2>1, <3>1
      <3> QED BY <2>2, <3>2
   <2>3. CASE mine[k][Root] # Unwritten
      <3>1. status'[Root] = RootOutcome(View(k))
         BY <1>1, <2>3, Distinct, ViewAt DEF EndInv
      <3>2. status[Root] = "waiting" /\ \A c \in Kids : View(k)[c] \notin Active
         BY <1>1, <2>3 DEF KidInv
      <3>3. closes /\ ~ missed
         BY <1>1, <1>2, <1>3, <1>4, <2>3, <3>2
      <3>4. status' = [view EXCEPT ![Root] = AtomicView!Closing(view)]
         BY <1>3, <1>5, <2>1, <3>1, Distinct
      <3> QED BY <3>3, <3>4
   <2> QED BY <2>2, <2>3
<1>9. AtomicView!FinishKid(k, mine[k][k], new, missed)
   BY <1>1, <1>2, <1>6, <1>7, <1>8, SameVocabulary DEF AtomicView!FinishKid
<1>10. new \in SUBSET (Kids \ {k}) /\ missed \in BOOLEAN
   OBVIOUS
<1> HIDE DEF new, missed
<1> QED BY <1>9, <1>10

(* The commit of Cancel: the queued children it did not write escape it,   *)
(* and they have run.                                                      *)
LEMMA AtomicCancel ==
  ASSUME TxInv, AtomicInv, CancelCommit
  PROVE  AtomicView!CancelTree({k \in Kids : mine[Canceller][k] = Unwritten /\ status[k] \in Queued})
<1> DEFINE escaped == {k \in Kids : mine[Canceller][k] = Unwritten /\ status[k] \in Queued}
<1>1. /\ status' = View(Canceller) /\ pc[Canceller] = "mark_running"
      /\ rootType' = rootType /\ attempted' = attempted
   BY DEF CancelCommit, CancelEnds, counts
<1>2. /\ status[Root] = "waiting" /\ status'[Root] = "cancelled"
      /\ \A k \in Kids : \/ status'[k] = status[k] /\ mine[Canceller][k] = Unwritten
                         \/ /\ status[k] \in Queued /\ status'[k] = "cancelled"
                            /\ mine[Canceller][k] # Unwritten
   BY CancelCommitStatus
<1>3. \A k \in escaped : status[k] \in Queued /\ k \in attempted
   BY <1>1 DEF AtomicInv, EscapeInv
<1>4. status' = [r \in Kids \cup {Root} |->
                    IF r = Root \/ (status[r] \in Queued /\ r \notin escaped)
                    THEN "cancelled" ELSE status[r]]
   BY <1>1, <1>2, Distinct DEF View
<1> HIDE DEF escaped
<1>5. AtomicView!CancelTree(escaped)
   BY <1>1, <1>2, <1>3, <1>4, SameVocabulary DEF AtomicView!CancelTree
<1> QED BY <1>5 DEF escaped

(* The committed statuses change as if the end of every child, with the    *)
(* end of the root it may bring about, and the cancellation of a tree were *)
(* one atomic step each, for any number of children, rollbacks and         *)
(* deadlock victims.  The lock finalizeRoot takes on the root of an update *)
(* scan leaves no exception; without it, the last child of an audit may    *)
(* leave the root waiting, but only if a sibling has ended; and Cancel may *)
(* pass by a queued child, but only one that has run.                      *)
THEOREM FinalizersAreAtomicHolds == Spec => FinalizersAreAtomic
<1>1. Init => AtomicView!AInit
   <2> SUFFICES ASSUME Init PROVE AtomicView!AInit
      OBVIOUS
   <2>1. status = FirstStatus /\ attempted = {}
      BY DEF Init
   <2>2. PICK k \in Kids : k \in FirstKids[rootType]
      BY RootFinalizationAssumption DEF Init, RootFinalizationAssumption
   <2>3. FirstStatus[k] = "pending" /\ FirstStatus[Root] = "waiting"
      BY <2>2, Distinct DEF FirstStatus
   <2>4. FirstStatus \in [Kids \cup {Root} -> {"absent", "waiting", "pending"}]
      BY DEF FirstStatus
   <2> QED BY <2>1, <2>3, <2>4, SameVocabulary DEF AtomicView!AInit, AtomicView!SomeActive
<1>2. TxInv /\ AtomicInv /\ [Next]_vars => [AtomicView!ANext]_(AtomicView!avars)
   <2> SUFFICES ASSUME TxInv, AtomicInv, [Next]_vars
                PROVE  AtomicView!ANext \/ UNCHANGED AtomicView!avars
      OBVIOUS
   <2>1. ASSUME NEW k \in Kids, Claim(k)
         PROVE  AtomicView!ANext
      BY <2>1, AtomicClaim DEF AtomicView!ANext
   <2>2. ASSUME NEW k \in Kids, CommitKid(k)
         PROVE  AtomicView!ANext
      <3>1. \E new \in SUBSET (Kids \ {k}), missed \in BOOLEAN :
               AtomicView!FinishKid(k, mine[k][k], new, missed)
         BY <2>2, AtomicCommit
      <3>2. mine[k][k] \in AtomicView!Terminal \cup AtomicView!Queued
         BY <2>2, CommitKidStatus, SameVocabulary
      <3> QED BY <3>1, <3>2, Zenon DEF AtomicView!ANext
   <2>3. CASE CancelCommit
      <3>1. {k \in Kids : mine[Canceller][k] = Unwritten /\ status[k] \in Queued} \in SUBSET Kids
         OBVIOUS
      <3> QED BY <2>3, <3>1, AtomicCancel, Zenon DEF AtomicView!ANext
   <2>4. CASE UNCHANGED <<status, rootType, attempted>>
      BY <2>4 DEF AtomicView!avars
   <2> QED BY <2>1, <2>2, <2>3, <2>4, StatusChanges, AtomicColumnsFixed
<1> QED BY <1>1, <1>2, TxInvHolds, AtomicInvHolds, PTL
        DEF Spec, FinalizersAreAtomic, AtomicView!Atomic

=============================================================================
