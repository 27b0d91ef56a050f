-------------------------- MODULE MCAuditExpansion --------------------------
(***************************************************************************)
(* A project that depends on a and c.  Both need c again, in a range that  *)
(* resolves to the same version (so that c depends on itself), and a in    *)
(* another version: their transactions insert the same two jobs, and the   *)
(* two jobs of c the same relationships.                                   *)
(***************************************************************************)
EXTENDS AuditExpansion

CONSTANTS alice, bob

MCClients == {alice, bob}

(* Both ask for the same, or bob for something else. *)
MCRequests == {[c \in MCClients |-> "h1"], [c \in MCClients |-> IF c = alice THEN "h1" ELSE "h2"]}

Dep(name, range) == [name |-> name, range |-> range]
Exact(name, version) == [name |-> name, version |-> version]

a1 == Dep("a", "^1")
a2 == Dep("a", "^2")
c1 == Dep("c", "^1")
c2 == Dep("c", "~1.1")

P == Exact("p", "0")
A1 == Exact("a", "1.3")
A2 == Exact("a", "2.0")
C == Exact("c", "1.1")

MCCoordinates == {a1, a2, c1, c2}
MCPackages == {P, A1, A2, C}
MCProject == P
MCResolve == [k \in MCCoordinates |-> CASE k = a1 -> A1 [] k = a2 -> A2 [] OTHER -> C]
MCRequires == [p \in MCPackages |-> CASE p = P -> {a1, c2} [] p \in {A1, C} -> {c1, a2} [] p = A2 -> {}]

=============================================================================
