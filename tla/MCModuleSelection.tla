------------------------- MODULE MCModuleSelection -------------------------
(***************************************************************************)
(* Four modules, one of them in two versions, with every choice of the     *)
(* requirements below: chains, diamonds, cycles and upgrades.              *)
(***************************************************************************)
EXTENDS ModuleSelection

At(m, v) == [module |-> m, version |-> v]

A == At("a", 1)
B == At("b", 1)
C1 == At("c", 1)
C2 == At("c", 2)
D == At("d", 1)

MCCoordinates == {A, B, C1, C2, D}

(* At most one version of c in a go.mod. *)
OneC == {{}, {C1}, {C2}}

MCGoMods ==
    {[c \in MCCoordinates |-> CASE c = A -> x.a [] c = B -> x.b [] c = C1 -> x.c1
                                [] c = C2 -> x.c2 [] c = D -> x.d] :
       x \in [a : {s \cup t : s \in {{}, {B}}, t \in OneC},
              b : {s \cup t : s \in {{}, {A}}, t \in OneC},
              c1 : SUBSET {A, D}, c2 : SUBSET {B, D}, d : OneC]}

MCPrunings == {{}, {A, C1, D}, MCCoordinates}

MCRootMods == {{A, B}, {A, C1}}

=============================================================================
