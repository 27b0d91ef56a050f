------------------------- MODULE MCRootFinalization -------------------------
(***************************************************************************)
(* Instances of RootFinalization for TLC.                                  *)
(***************************************************************************)
EXTENDS RootFinalization, TLC

CONSTANTS k1, k2, k3

(* A scan inserts all its checks at once, the children of an audit insert  *)
(* children of their own.                                                  *)
MCFirstKids == [t \in RootTypes |-> IF t = "dependency_audit" THEN Kids \ {k3} ELSE Kids]

=============================================================================
