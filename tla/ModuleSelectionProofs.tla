------------------------ MODULE ModuleSelectionProofs ------------------------
(***************************************************************************)
(* Proofs about ModuleSelection, for any finite set of coordinates and any *)
(* contents of their go.mod files: what a round may change, that the       *)
(* result is closed under requirements, that its edges explain it, that no *)
(* round goes above minimal version selection, that the result is the      *)
(* build list when every module occurs in one version, and that the rounds *)
(* are bounded.                                                            *)
(***************************************************************************)
EXTENDS ModuleSelection, FiniteSetTheorems, TLAPS

(* All that the root and the files that count require. *)
Required == rootRequirements \cup UNION {requirements[c] : c \in Counted}

(* The types of the variables. *)
TypeInv ==
    /\ requirements \in [Coordinates -> SUBSET Coordinates]
    /\ pruned \subseteq Coordinates
    /\ rootRequirements \subseteq Coordinates
    /\ rootPruned \in BOOLEAN
    /\ metadataCache \subseteq Coordinates
    /\ loadModes \in [Coordinates -> {loadNone, loadDirect, loadFull}]
    /\ missing \subseteq Coordinates
    /\ phase \in {"round", "select", "fetch", "selected", "failed"}

(* Why a module has its load mode. *)
ModesInv ==
    \A c \in Coordinates :
        /\ c \in rootRequirements => loadModes[c] # loadNone
        /\ c \in rootRequirements /\ ~ rootPruned => loadModes[c] = loadFull
        /\ loadModes[c] = loadDirect => c \in rootRequirements
        /\ loadModes[c] = loadFull =>
              \/ c \in rootRequirements \cup metadataCache
              \/ \E p \in metadataCache : Expands(p) /\ c \in requirements[p]

(* What the phases rely on: once the modes are propagated nobody is        *)
(* promoted any more, and what a round selected stays required.            *)
PhaseInv ==
    /\ modules \subseteq Required
    /\ phase \in {"select", "fetch", "selected"} =>
          \A c \in Coordinates : Promoted(c) => loadModes[c] = loadFull
    /\ phase \in {"fetch", "selected"} => modules = Highest(Required)
    /\ phase = "fetch" => missing = modules \ metadataCache
    /\ phase = "selected" => modules \subseteq metadataCache /\ edges = buildEdges(modules)

(* Nothing is read or loaded in full that does not belong to the whole     *)
(* module graph: every set that is closed in the sense of the reference    *)
(* contains it.                                                            *)
WithinGraph ==
    \A full \in SUBSET Coordinates : FullyLoaded(full) =>
        /\ metadataCache \subseteq Read(full)
        /\ \A c \in Coordinates : loadModes[c] = loadFull => c \in full

(* The inductive invariant of the selection. *)
SelectionInv == TypeInv /\ ModesInv /\ PhaseInv /\ WithinGraph

USE DEF loadNone, loadDirect, loadFull

(***************************************************************************)
(* Highest versions.                                                       *)
(***************************************************************************)

(* A set of coordinates that is not empty has one of the highest version:  *)
(* a smallest set without one would have one less.                         *)
LEMMA HighestOfAll ==
  ASSUME NEW S \in SUBSET Coordinates, S # {}
  PROVE  \E d \in S : \A e \in S : e.version <= d.version
<1> DEFINE Bad == {T \in FiniteSubsetsOf(Coordinates) :
                      T # {} /\ \A d \in T : \E e \in T : ~ (e.version <= d.version)}
<1>1. IsFiniteSet(Coordinates) /\ \A c \in Coordinates : c.version \in Nat
   BY ModuleSelectionAssumption DEF ModuleSelectionAssumption
<1>2. SUFFICES ASSUME Bad # {} PROVE FALSE
   <2>1. S \in FiniteSubsetsOf(Coordinates)
      BY <1>1, FS_Subset DEF FiniteSubsetsOf
   <2>2. S \notin Bad
      BY <1>2
   <2> QED BY <2>1, <2>2
<1>3. PICK T \in Bad : \A U \in Bad : ~ (<<U, T>> \in StrictSubsetOrdering(Coordinates))
   <2>1. IsWellFoundedOn(StrictSubsetOrdering(Coordinates), FiniteSubsetsOf(Coordinates))
      BY FS_StrictSubsetOrderingWellFounded
   <2>2. Bad \subseteq FiniteSubsetsOf(Coordinates)
      OBVIOUS
   <2> QED BY <1>2, <2>1, <2>2, WFMin
<1>4. /\ T \in FiniteSubsetsOf(Coordinates) /\ T # {}
      /\ \A d \in T : \E e \in T : ~ (e.version <= d.version)
   OBVIOUS
<1>5. PICK x \in T : TRUE
   BY <1>4
<1> DEFINE U == T \ {x}
<1>6. U \in FiniteSubsetsOf(Coordinates) /\ <<U, T>> \in StrictSubsetOrdering(Coordinates)
   BY <1>4, <1>5, FS_RemoveElement DEF FiniteSubsetsOf, StrictSubsetOrdering
<1>7. U \notin Bad
   BY <1>3, <1>6
<1>8. U = {} \/ \E d \in U : \A e \in U : e.version <= d.version
   BY <1>6, <1>7
<1>9. \A c \in T : c.version \in Nat
   BY <1>1, <1>4 DEF FiniteSubsetsOf
<1> HIDE DEF Bad
<1>10. CASE U = {}
   BY <1>4, <1>5, <1>9, <1>10
<1>11. CASE \E d \in U : \A e \in U : e.version <= d.version
   <2>1. PICK d \in U : \A e \in U : e.version <= d.version
      BY <1>11
   <2>2. CASE x.version <= d.version
      BY <1>4, <1>5, <1>9, <2>1, <2>2
   <2>3. CASE ~ (x.version <= d.version)
      <3>1. \A e \in T : e.version <= x.version
         BY <1>5, <1>9, <2>1, <2>3
      <3> QED BY <1>4, <1>5, <3>1
   <2> QED BY <2>2, <2>3
<1> QED BY <1>8, <1>10, <1>11

(* Every required coordinate is met by a highest version of its module. *)
LEMMA HighestMeets ==
  ASSUME NEW S \in SUBSET Coordinates, NEW c \in S
  PROVE  \E d \in Highest(S) : d.module = c.module /\ d.version >= c.version
<1> DEFINE same == {d \in S : d.module = c.module}
<1>1. PICK d \in same : \A e \in same : e.version <= d.version
   BY HighestOfAll
<1>2. d \in Highest(S)
   BY <1>1 DEF Highest
<1>3. c.version \in Nat /\ d.version \in Nat
   BY ModuleSelectionAssumption DEF ModuleSelectionAssumption
<1> QED BY <1>1, <1>2, <1>3

(* A module occurs in the highest versions once: it is what a look-up finds. *)
LEMMA HighestIsFound ==
  ASSUME NEW S \in SUBSET Coordinates, NEW r \in S
  PROVE  /\ InSelection(r, Highest(S)) \in Highest(S)
         /\ r \in Highest(S) => InSelection(r, Highest(S)) = r
<1> DEFINE found == InSelection(r, Highest(S))
<1>1. PICK d \in Highest(S) : d.module = r.module
   BY HighestMeets
<1>2. found \in Highest(S) /\ found.module = r.module
   BY <1>1 DEF InSelection
<1>3. ASSUME r \in Highest(S)
      PROVE  found = r
   <2>1. /\ r \in S /\ r \in Coordinates /\ \A e \in S : e.module = r.module => e.version <= r.version
         /\ found \in S /\ found \in Coordinates
         /\ \A e \in S : e.module = found.module => e.version <= found.version
      BY <1>2, <1>3 DEF Highest
   <2>2. \A c \in Coordinates : c.version \in Nat
      BY ModuleSelectionAssumption DEF ModuleSelectionAssumption
   <2>3. \A c, e \in Coordinates : c.module = e.module /\ c.version = e.version => c = e
      BY ModuleSelectionAssumption DEF ModuleSelectionAssumption
   <2> HIDE DEF found
   <2>4. found.version <= r.version /\ r.version <= found.version
      BY <1>2, <2>1
   <2>5. found.version = r.version
      BY <2>1, <2>2, <2>4
   <2> QED BY <1>2, <2>1, <2>3, <2>5
<1> QED BY <1>2, <1>3

LEMMA HighestIsSubset ==
  ASSUME NEW S
  PROVE  Highest(S) \subseteq S
BY DEF Highest

LEMMA RequiredType ==
  ASSUME TypeInv
  PROVE  Required \subseteq Coordinates
BY DEF TypeInv, Required, Counted

(***************************************************************************)
(* The invariant.                                                          *)
(***************************************************************************)

LEMMA InvInit == Init => SelectionInv
<1> SUFFICES ASSUME Init PROVE SelectionInv
   OBVIOUS
<1>1. TypeInv
   BY ModuleSelectionAssumption DEF Init, TypeInv, ModuleSelectionAssumption
<1>2. ModesInv
   BY <1>1 DEF Init, ModesInv, TypeInv
<1>3. PhaseInv
   BY DEF Init, PhaseInv
<1>4. WithinGraph
   BY <1>1 DEF Init, WithinGraph, FullyLoaded, TypeInv
<1> QED BY <1>1, <1>2, <1>3, <1>4 DEF SelectionInv

(* What is expanded or counted stays so, what is required stays required:  *)
(* files are only added and modes only raised.                             *)
LEMMA Monotone ==
  ASSUME TypeInv, UNCHANGED input, metadataCache \subseteq metadataCache',
         \A c \in Coordinates : loadModes'[c] >= loadModes[c],
         loadModes' \in [Coordinates -> {loadNone, loadDirect, loadFull}]
  PROVE  /\ \A p \in metadataCache : Expands(p) => p \in metadataCache' /\ Expands(p)'
         /\ Counted \subseteq Counted'
         /\ Required \subseteq Required'
<1>1. \A p \in metadataCache : Expands(p) => p \in metadataCache' /\ Expands(p)'
   BY DEF TypeInv, input, Expands
<1>2. Counted \subseteq Counted'
   BY DEF TypeInv, Counted
<1>3. Required \subseteq Required'
   BY <1>2 DEF input, Required
<1> QED BY <1>1, <1>2, <1>3

(* A promotion only raises a mode. *)
LEMMA Promotions ==
  ASSUME TypeInv, propagateLoadModes
  PROVE  /\ loadModes' \in [Coordinates -> {loadNone, loadDirect, loadFull}]
         /\ \A c \in Coordinates : loadModes'[c] = IF Promoted(c) THEN loadFull ELSE loadModes[c]
         /\ \A c \in Coordinates : loadModes'[c] >= loadModes[c]
<1>1. loadModes' = [c \in Coordinates |-> IF Promoted(c) THEN promoteLoadMode(c, loadFull) ELSE loadModes[c]]
   BY DEF propagateLoadModes
<1>2. \A c \in Coordinates : promoteLoadMode(c, loadFull) = loadFull
   BY DEF TypeInv, promoteLoadMode
<1>3. \A c \in Coordinates : loadModes'[c] = IF Promoted(c) THEN loadFull ELSE loadModes[c]
   BY <1>1, <1>2
<1>4. loadModes' \in [Coordinates -> {loadNone, loadDirect, loadFull}]
   BY <1>1, <1>2 DEF TypeInv
<1> QED BY <1>3, <1>4 DEF TypeInv

LEMMA PropagateStep ==
  ASSUME SelectionInv, propagateLoadModes
  PROVE  SelectionInv'
<1>1. /\ phase = "round"
      /\ phase' = IF loadModes' = loadModes THEN "select" ELSE "round"
      /\ UNCHANGED <<requirements, pruned, rootRequirements, rootPruned>>
      /\ UNCHANGED <<metadataCache, missing, modules, edges>>
   BY DEF propagateLoadModes, input
<1>2. TypeInv /\ ModesInv /\ PhaseInv /\ WithinGraph
   BY DEF SelectionInv
<1>3. /\ loadModes' \in [Coordinates -> {loadNone, loadDirect, loadFull}]
      /\ \A c \in Coordinates : loadModes'[c] = IF Promoted(c) THEN loadFull ELSE loadModes[c]
      /\ \A c \in Coordinates : loadModes'[c] >= loadModes[c]
   BY <1>2, Promotions
<1>4. /\ \A p \in metadataCache : Expands(p) => Expands(p)'
      /\ Required \subseteq Required'
   BY <1>1, <1>2, <1>3, Monotone DEF input
<1>5. TypeInv'
   BY <1>1, <1>2, <1>3 DEF TypeInv
<1>6. ModesInv'
   <2> SUFFICES ASSUME NEW c \in Coordinates
                PROVE  /\ c \in rootRequirements => loadModes'[c] # loadNone
                       /\ c \in rootRequirements /\ ~ rootPruned => loadModes'[c] = loadFull
                       /\ loadModes'[c] = loadDirect => c \in rootRequirements
                       /\ loadModes'[c] = loadFull =>
                             \/ c \in rootRequirements \cup metadataCache
                             \/ \E p \in metadataCache : Expands(p)' /\ c \in requirements[p]
      BY <1>1 DEF ModesInv
   <2>1. CASE Promoted(c)
      BY <1>3, <1>4, <2>1 DEF Promoted
   <2>2. CASE ~ Promoted(c)
      <3>1. loadModes'[c] = loadModes[c]
         BY <1>3, <2>2
      <3> QED BY <1>2, <1>4, <3>1 DEF ModesInv
   <2> QED BY <2>1, <2>2
<1>7. PhaseInv'
   <2>1. modules' \subseteq Required'
      BY <1>1, <1>2, <1>4 DEF PhaseInv
   <2>2. CASE loadModes' = loadModes
      <3>1. \A c \in Coordinates : Promoted(c)' <=> Promoted(c)
         BY <1>1, <2>2 DEF Promoted, Expands
      <3> QED BY <1>1, <1>3, <2>1, <2>2, <3>1 DEF PhaseInv
   <2>3. CASE loadModes' # loadModes
      BY <1>1, <2>1, <2>3 DEF PhaseInv
   <2> QED BY <2>2, <2>3
<1>8. WithinGraph'
   <2> SUFFICES ASSUME NEW full \in SUBSET Coordinates, FullyLoaded(full)'
                PROVE  /\ metadataCache' \subseteq Read(full)'
                       /\ \A c \in Coordinates : loadModes'[c] = loadFull => c \in full
      BY DEF WithinGraph
   <2>1. FullyLoaded(full) /\ Read(full)' = Read(full)
      BY <1>1 DEF FullyLoaded, Read
   <2>2. /\ metadataCache \subseteq Read(full)
         /\ \A d \in Coordinates : loadModes[d] = loadFull => d \in full
      BY <1>2, <2>1 DEF WithinGraph
   <2>3. ASSUME NEW c \in metadataCache, loadModes[c] = loadNone, c \notin pruned
         PROVE  c \in full
      <3>1. c \notin rootRequirements
         BY <1>2, <2>3 DEF ModesInv, TypeInv
      <3> QED BY <2>1, <2>2, <2>3, <3>1 DEF FullyLoaded
   <2>4. ASSUME NEW p \in metadataCache, Expands(p), NEW c \in requirements[p]
         PROVE  c \in full
      <3>1. p \in Read(full) /\ p \notin pruned \ full
         BY <1>2, <2>2, <2>4 DEF Expands, TypeInv
      <3> QED BY <2>1, <2>4, <3>1 DEF FullyLoaded
   <2>5. \A c \in Coordinates : Promoted(c) => c \in full
      BY <2>3, <2>4 DEF Promoted
   <2> QED BY <1>1, <1>3, <2>1, <2>2, <2>5
<1> QED BY <1>5, <1>6, <1>7, <1>8 DEF SelectionInv

LEMMA RoundStep ==
  ASSUME SelectionInv, Round
  PROVE  SelectionInv'
<1>1. /\ phase = "select"
      /\ modules' = Highest(Required)
      /\ missing' = modules' \ metadataCache
      /\ phase' = IF missing' = {} THEN "selected" ELSE "fetch"
      /\ edges' = IF missing' = {} THEN buildEdges(modules') ELSE {}
      /\ UNCHANGED <<requirements, pruned, rootRequirements, rootPruned>>
      /\ UNCHANGED <<metadataCache, loadModes>>
   BY DEF Round, input, computeSelected, Required, missingCoordinates
<1>2. TypeInv /\ ModesInv /\ PhaseInv /\ WithinGraph
   BY DEF SelectionInv
<1>3. Required' = Required /\ \A c \in Coordinates : Promoted(c)' <=> Promoted(c)
   BY <1>1 DEF Required, Counted, Promoted, Expands
<1>4. modules' \subseteq Required
   BY <1>1, HighestIsSubset
<1>5. TypeInv'
   <2>1. missing' \subseteq Coordinates
      BY <1>1, <1>2, <1>4, RequiredType
   <2> QED BY <1>1, <1>2, <2>1 DEF TypeInv
<1>6. ModesInv'
   BY <1>1, <1>2 DEF ModesInv, Expands
<1>7. PhaseInv'
   <2>1. missing' = {} => modules' \subseteq metadataCache' /\ edges' = buildEdges(modules)'
      BY <1>1 DEF buildEdges, addSelectedEdges, InSelection
   <2>2. \A c \in Coordinates : Promoted(c)' => loadModes'[c] = loadFull
      BY <1>1, <1>2, <1>3 DEF PhaseInv
   <2> QED BY <1>1, <1>3, <1>4, <2>1, <2>2 DEF PhaseInv
<1>8. WithinGraph'
   BY <1>1, <1>2 DEF WithinGraph, FullyLoaded, Read
<1> QED BY <1>5, <1>6, <1>7, <1>8 DEF SelectionInv

(* What is required belongs to the whole module graph. *)
LEMMA RequiredWithin ==
  ASSUME SelectionInv, NEW full \in SUBSET Coordinates, FullyLoaded(full)
  PROVE  Required \subseteq Read(full)
<1>1. TypeInv /\ ModesInv /\ WithinGraph
   BY DEF SelectionInv
<1>2. ASSUME NEW c \in Counted
      PROVE  requirements[c] \subseteq Read(full)
   <2>1. c \in Coordinates /\ loadModes[c] \in {loadDirect, loadFull}
      BY <1>1 DEF Counted, TypeInv
   <2>2. c \in full \cup rootRequirements
      BY <1>1, <2>1 DEF ModesInv, WithinGraph
   <2> QED BY <2>2 DEF Read
<1> QED BY <1>2 DEF Required, Read

LEMMA FetchStep ==
  ASSUME SelectionInv, FetchRound
  PROVE  SelectionInv'
<1>1. /\ phase = "fetch" /\ phase' = "round"
      /\ metadataCache' = metadataCache \cup missing
      /\ UNCHANGED <<requirements, pruned, rootRequirements, rootPruned>>
      /\ UNCHANGED <<loadModes, missing, modules, edges>>
   BY DEF FetchRound, input, addFetchRound
<1>2. TypeInv /\ ModesInv /\ PhaseInv /\ WithinGraph
   BY DEF SelectionInv
<1>3. /\ \A p \in metadataCache : Expands(p) => p \in metadataCache' /\ Expands(p)'
      /\ Required \subseteq Required'
   <2>1. \A c \in Coordinates : loadModes'[c] >= loadModes[c]
      BY <1>1, <1>2 DEF TypeInv
   <2> QED BY <1>1, <1>2, <2>1, Monotone DEF TypeInv, input
<1>4. TypeInv'
   BY <1>1, <1>2 DEF TypeInv
<1>5. ModesInv'
   BY <1>1, <1>2, <1>3 DEF ModesInv
<1>6. PhaseInv'
   BY <1>1, <1>2, <1>3 DEF PhaseInv
<1>7. WithinGraph'
   <2> SUFFICES ASSUME NEW full \in SUBSET Coordinates, FullyLoaded(full)'
                PROVE  /\ metadataCache' \subseteq Read(full)'
                       /\ \A c \in Coordinates : loadModes'[c] = loadFull => c \in full
      BY DEF WithinGraph
   <2>1. FullyLoaded(full) /\ Read(full)' = Read(full)
      BY <1>1 DEF FullyLoaded, Read
   <2>2. missing \subseteq Read(full)
      <3>1. missing \subseteq Required
         BY <1>1, <1>2 DEF PhaseInv
      <3> QED BY <2>1, <3>1, RequiredWithin
   <2> QED BY <1>1, <1>2, <2>1, <2>2 DEF WithinGraph
<1> QED BY <1>4, <1>5, <1>6, <1>7 DEF SelectionInv

LEMMA FailStep ==
  ASSUME SelectionInv, FetchFails
  PROVE  SelectionInv'
<1>1. /\ phase' = "failed" /\ modules' = {}
      /\ UNCHANGED <<requirements, pruned, rootRequirements, rootPruned>>
      /\ UNCHANGED <<metadataCache, loadModes, missing, edges>>
   BY DEF FetchFails, input
<1>2. TypeInv /\ ModesInv /\ WithinGraph
   BY DEF SelectionInv
<1> QED BY <1>1, <1>2 DEF SelectionInv, TypeInv, ModesInv, Expands, PhaseInv, WithinGraph, FullyLoaded, Read

LEMMA InvStep == SelectionInv /\ [Next]_vars => SelectionInv'
<1> SUFFICES ASSUME SelectionInv, [Next]_vars PROVE SelectionInv'
   OBVIOUS
<1>1. CASE UNCHANGED vars
   BY <1>1 DEF vars, SelectionInv, TypeInv, ModesInv, PhaseInv, WithinGraph, FullyLoaded, Read,
               Required, Counted, Expands, Promoted, buildEdges, addSelectedEdges, InSelection
<1> QED BY <1>1, PropagateStep, RoundStep, FetchStep, FailStep DEF Next, Terminated

(* The invariant of the selection holds in every reachable state. *)
THEOREM SelectionInvHolds == Spec => []SelectionInv
BY InvInit, InvStep, PTL DEF Spec

(***************************************************************************)
(* The properties.                                                         *)
(***************************************************************************)

(* Every round of Select that ends in a selection has read the go.mod of   *)
(* every selected version, and meets the requirements of those that count. *)
THEOREM SelectionClosedHolds == Spec => []SelectionClosed
<1>1. SelectionInv => SelectionClosed
   <2> SUFFICES ASSUME SelectionInv, phase = "selected"
                PROVE  /\ modules \subseteq metadataCache
                       /\ \A c \in modules : loadModes[c] # loadNone =>
                             \A r \in requirements[c] :
                                 \E s \in modules : s.module = r.module /\ s.version >= r.version
      BY DEF SelectionClosed
   <2>1. modules \subseteq metadataCache /\ modules = Highest(Required) /\ Required \subseteq Coordinates
      BY RequiredType DEF SelectionInv, PhaseInv
   <2>2. ASSUME NEW c \in modules, loadModes[c] # loadNone, NEW r \in requirements[c]
         PROVE  \E s \in modules : s.module = r.module /\ s.version >= r.version
      <3>1. r \in Required
         BY <2>1, <2>2 DEF Required, Counted
      <3> QED BY <2>1, <3>1, HighestMeets
   <2> QED BY <2>1, <2>2
<1> QED BY <1>1, SelectionInvHolds, PTL

(* The edges of a selection join selected versions and, unless a fetched   *)
(* version was superseded, lead to every module of it (buildSelection).    *)
THEOREM EdgesExplainModulesHolds == Spec => []EdgesExplainModules
<1>1. SelectionInv => EdgesExplainModules
   <2> SUFFICES ASSUME SelectionInv, phase = "selected"
                PROVE  /\ \A e \in edges : e.to \in modules /\ e.from \in modules \cup {Root}
                       /\ metadataCache = modules => \A c \in modules : \E e \in edges : e.to = c
      BY DEF EdgesExplainModules
   <2>1. /\ modules \subseteq Required /\ modules \subseteq metadataCache
         /\ modules = Highest(Required) /\ edges = buildEdges(modules)
      BY DEF SelectionInv, PhaseInv
   <2>a. Required \in SUBSET Coordinates
      BY RequiredType DEF SelectionInv
   <2>b. ASSUME NEW r \in Required
         PROVE  /\ InSelection(r, modules) \in modules
                /\ r \in modules => InSelection(r, modules) = r
      BY <2>1, <2>a, HighestIsFound
   <2>2. \A e \in edges : e.to \in modules /\ e.from \in modules \cup {Root}
      <3>1. ASSUME NEW r \in rootRequirements
            PROVE  InSelection(r, modules) \in modules
         BY <2>b DEF Required
      <3>2. ASSUME NEW c \in modules, loadModes[c] # loadNone, NEW r \in requirements[c]
            PROVE  InSelection(r, modules) \in modules
         <4>1. r \in Required
            BY <2>1, <3>2 DEF Required, Counted
         <4> QED BY <2>b, <4>1
      <3>3. \A e \in addSelectedEdges(Root, rootRequirements, modules) : e.to \in modules /\ e.from = Root
         BY <3>1 DEF addSelectedEdges
      <3>4. \A c \in {s \in modules : loadModes[s] # loadNone} :
               \A e \in addSelectedEdges(c, requirements[c], modules) : e.to \in modules /\ e.from = c
         BY <3>2 DEF addSelectedEdges
      <3> QED BY <2>1, <3>3, <3>4 DEF buildEdges
   <2>3. ASSUME metadataCache = modules, NEW c \in modules
         PROVE  \E e \in edges : e.to = c
      <3>1. CASE c \in rootRequirements
         <4>1. [from |-> Root, to |-> c] \in edges
            <5>1. InSelection(c, modules) = c
               BY <2>1, <2>b
            <5>2. [from |-> Root, to |-> c] \in addSelectedEdges(Root, rootRequirements, modules)
               BY <3>1, <5>1 DEF addSelectedEdges
            <5> QED BY <2>1, <5>2 DEF buildEdges
         <4> QED BY <4>1
      <3>2. ASSUME NEW p \in Counted, c \in requirements[p]
            PROVE  \E e \in edges : e.to = c
         <4>1. p \in modules /\ loadModes[p] # loadNone
            BY <2>3 DEF Counted
         <4>2. [from |-> p, to |-> c] \in addSelectedEdges(p, requirements[p], modules)
            <5>1. InSelection(c, modules) = c
               BY <2>1, <2>b
            <5> QED BY <3>2, <5>1 DEF addSelectedEdges
         <4>3. [from |-> p, to |-> c] \in edges
            BY <2>1, <4>1, <4>2 DEF buildEdges
         <4> QED BY <4>3
      <3> QED BY <2>1, <3>1, <3>2 DEF Required
   <2> QED BY <2>2, <2>3
<1> QED BY <1>1, SelectionInvHolds, PTL

(* A round of Select only raises versions and load modes and never fetches *)
(* a go.mod again.                                                         *)
THEOREM RoundsOnlyRiseHolds == Spec => RoundsOnlyRise
<1> DEFINE Rises ==
       /\ phase' # "failed" =>
             \A c \in modules : \E d \in modules' : d.module = c.module /\ d.version >= c.version
       /\ \A c \in Coordinates : loadModes'[c] >= loadModes[c]
       /\ phase' = "fetch" => missing' \cap metadataCache = {} /\ missing' # {}
<1>1. SelectionInv /\ [Next]_vars => [Rises]_vars
   <2> SUFFICES ASSUME SelectionInv, Next
                PROVE  Rises \/ UNCHANGED vars
      OBVIOUS
   <2>1. TypeInv /\ PhaseInv /\ Required \subseteq Coordinates
      BY RequiredType DEF SelectionInv
   <2>2. /\ \A c \in Coordinates : loadModes[c] >= loadModes[c]
         /\ \A c \in modules : c.version >= c.version
      BY <2>1, ModuleSelectionAssumption DEF TypeInv, PhaseInv, ModuleSelectionAssumption
   <2>3. CASE propagateLoadModes
      <3>1. modules' = modules /\ phase' \in {"select", "round"}
         BY <2>3 DEF propagateLoadModes
      <3> QED BY <2>1, <2>2, <2>3, <3>1, Promotions
   <2>4. CASE Round
      <3>1. /\ modules' = Highest(Required)
            /\ missing' = modules' \ metadataCache
            /\ phase' = IF missing' = {} THEN "selected" ELSE "fetch"
            /\ loadModes' = loadModes
         BY <2>4 DEF Round, computeSelected, Required, missingCoordinates
      <3>2. ASSUME NEW c \in modules
            PROVE  \E d \in modules' : d.module = c.module /\ d.version >= c.version
         <4>1. c \in Required
            BY <2>1 DEF PhaseInv
         <4> QED BY <2>1, <3>1, <4>1, HighestMeets
      <3> QED BY <2>2, <3>1, <3>2
   <2>5. CASE FetchRound
      BY <2>2, <2>5 DEF FetchRound
   <2>6. CASE FetchFails
      BY <2>2, <2>6 DEF FetchFails
   <2> QED BY <2>3, <2>4, <2>5, <2>6 DEF Next, Terminated
<1> QED BY <1>1, SelectionInvHolds, PTL DEF Spec, RoundsOnlyRise

(***************************************************************************)
(* Termination.                                                            *)
(***************************************************************************)

(* The steps of a turn of the loop that are still ahead. *)
TurnLeft ==
    IF phase = "round" THEN 3
    ELSE IF phase = "select" THEN 2
    ELSE IF phase = "fetch" THEN 1
    ELSE 0

Unfetched == Coordinates \ metadataCache

Unpromoted == {c \in Coordinates : loadModes[c] # loadFull}

(* A bound on the steps Select still takes: a fetch pays for the turn it   *)
(* begins with a go.mod that had not been fetched, a pass that changes     *)
(* something with a module that had not been loaded in full.               *)
StepsLeft == 3 * Cardinality(Unfetched) + Cardinality(Unpromoted) + TurnLeft

(* A round is only fetched when it asks for something. *)
AsksForFiles == phase = "fetch" => missing # {}

LEMMA AlwaysAsks == Spec => []AsksForFiles
<1>1. Init => AsksForFiles
   BY DEF Init, AsksForFiles
<1>2. AsksForFiles /\ [Next]_vars => AsksForFiles'
   BY DEF AsksForFiles, Next, propagateLoadModes, Round, FetchRound, FetchFails, Terminated, vars
<1> QED BY <1>1, <1>2, PTL DEF Spec

LEMMA SmallerSet ==
  ASSUME NEW S \in SUBSET Coordinates, NEW T \in SUBSET S
  PROVE  /\ Cardinality(S) \in Nat /\ Cardinality(T) \in Nat
         /\ Cardinality(T) <= Cardinality(S)
         /\ T # S => Cardinality(T) < Cardinality(S)
<1>1. IsFiniteSet(S)
   BY ModuleSelectionAssumption, FS_Subset DEF ModuleSelectionAssumption
<1>2. IsFiniteSet(T) /\ Cardinality(T) <= Cardinality(S) /\ (Cardinality(S) = Cardinality(T) => S = T)
   BY <1>1, FS_Subset
<1>3. Cardinality(S) \in Nat /\ Cardinality(T) \in Nat
   BY <1>1, <1>2, FS_CardinalityType
<1> QED BY <1>2, <1>3

(* The arithmetic of the steps that are left. *)
LEMMA StepsPaid ==
  ASSUME NEW f \in Nat, NEW p \in Nat, NEW t \in 0..3, NEW g \in Nat, NEW q \in Nat, NEW u \in 0..3,
         \/ g = f /\ q = p /\ u < t
         \/ g = f /\ q < p /\ u = t
         \/ g < f /\ q = p /\ u <= t + 2
  PROVE  3 * g + q + u < 3 * f + p + t
OBVIOUS

LEMMA StepsLeftFalls ==
  ASSUME SelectionInv, AsksForFiles, propagateLoadModes \/ Round \/ FetchRound \/ FetchFails
  PROVE  StepsLeft' < StepsLeft
<1> DEFINE F == Cardinality(Unfetched)
           P == Cardinality(Unpromoted)
<1>1. TypeInv /\ PhaseInv
   BY DEF SelectionInv
<1>2. Unfetched \in SUBSET Coordinates /\ Unpromoted \in SUBSET Coordinates
   BY DEF Unfetched, Unpromoted
<1>3. F \in Nat /\ P \in Nat
   BY <1>2, SmallerSet
<1>4. StepsLeft = 3 * F + P + TurnLeft /\ StepsLeft' = 3 * F' + P' + TurnLeft'
   BY DEF StepsLeft
<1>5. CASE propagateLoadModes
   <2>1. /\ phase = "round" /\ Unfetched' = Unfetched
         /\ phase' = IF loadModes' = loadModes THEN "select" ELSE "round"
      BY <1>5 DEF propagateLoadModes, Unfetched
   <2>2. F' = F
      BY <2>1
   <2>3. CASE loadModes' = loadModes
      <3>1. P' = P
         BY <2>3 DEF Unpromoted
      <3>2. TurnLeft = 3 /\ TurnLeft' = 2
         BY <2>1, <2>3 DEF TurnLeft
      <3> HIDE DEF F, P
      <3>3. F \in Nat /\ P \in Nat /\ F' \in Nat /\ P' \in Nat /\ TurnLeft \in 0..3 /\ TurnLeft' \in 0..3
         BY <1>3, <2>2, <3>1, <3>2
      <3>4. 3 * F' + P' + TurnLeft' < 3 * F + P + TurnLeft
         BY <2>2, <3>1, <3>2, <3>3, StepsPaid
      <3> QED BY <1>4, <3>4
   <2>4. CASE loadModes' # loadModes
      <3>1. /\ loadModes' \in [Coordinates -> {loadNone, loadDirect, loadFull}]
            /\ \A c \in Coordinates : loadModes'[c] = IF Promoted(c) THEN loadFull ELSE loadModes[c]
         BY <1>1, <1>5, Promotions
      <3>2. PICK c \in Coordinates : loadModes'[c] # loadModes[c]
         BY <1>1, <2>4, <3>1 DEF TypeInv
      <3>3. c \in Unpromoted /\ c \notin Unpromoted' /\ Unpromoted' \in SUBSET Unpromoted
         BY <3>1, <3>2 DEF Unpromoted
      <3>4. P' \in Nat /\ P' < P
         BY <1>2, <3>3, SmallerSet
      <3>5. TurnLeft = 3 /\ TurnLeft' = 3
         BY <2>1, <2>4 DEF TurnLeft
      <3> HIDE DEF F, P
      <3>6. F \in Nat /\ P \in Nat /\ F' \in Nat /\ P' \in Nat /\ TurnLeft \in 0..3 /\ TurnLeft' \in 0..3
         BY <1>3, <2>2, <3>4, <3>5
      <3>7. 3 * F' + P' + TurnLeft' < 3 * F + P + TurnLeft
         BY <2>2, <3>4, <3>5, <3>6, StepsPaid
      <3> QED BY <1>4, <3>7
   <2> QED BY <2>3, <2>4
<1>6. CASE Round
   <2>1. F' = F /\ P' = P
      BY <1>6 DEF Round, Unfetched, Unpromoted
   <2>2. TurnLeft = 2 /\ TurnLeft' \in 0..1 /\ TurnLeft' < TurnLeft
      BY <1>6 DEF Round, TurnLeft
   <2> HIDE DEF F, P
   <2>3. F \in Nat /\ P \in Nat /\ F' \in Nat /\ P' \in Nat /\ TurnLeft \in 0..3 /\ TurnLeft' \in 0..3
      BY <1>3, <2>1, <2>2
   <2>4. 3 * F' + P' + TurnLeft' < 3 * F + P + TurnLeft
      BY <2>1, <2>2, <2>3, StepsPaid
   <2> QED BY <1>4, <2>4
<1>7. CASE FetchRound
   <2>1. P' = P
      BY <1>7 DEF FetchRound, Unpromoted
   <2>2. TurnLeft = 1 /\ TurnLeft' = 3 /\ TurnLeft' <= TurnLeft + 2
      BY <1>7 DEF FetchRound, TurnLeft
   <2>3. /\ missing \subseteq Coordinates /\ missing # {} /\ missing \cap metadataCache = {}
         /\ metadataCache' = metadataCache \cup missing
      BY <1>1, <1>7 DEF FetchRound, addFetchRound, AsksForFiles, TypeInv, PhaseInv
   <2>4. Unfetched' \in SUBSET Unfetched /\ Unfetched' # Unfetched
      BY <2>3 DEF Unfetched
   <2>5. F' \in Nat /\ F' < F
      BY <1>2, <2>4, SmallerSet
   <2> HIDE DEF F, P
   <2>6. F \in Nat /\ P \in Nat /\ F' \in Nat /\ P' \in Nat /\ TurnLeft \in 0..3 /\ TurnLeft' \in 0..3
      BY <1>3, <2>1, <2>2, <2>5
   <2>7. 3 * F' + P' + TurnLeft' < 3 * F + P + TurnLeft
      BY <2>1, <2>2, <2>5, <2>6, StepsPaid
   <2> QED BY <1>4, <2>7
<1>8. CASE FetchFails
   <2>1. F' = F /\ P' = P
      BY <1>8 DEF FetchFails, Unfetched, Unpromoted
   <2>2. TurnLeft = 1 /\ TurnLeft' = 0
      BY <1>8 DEF FetchFails, TurnLeft
   <2> HIDE DEF F, P
   <2>3. F \in Nat /\ P \in Nat /\ F' \in Nat /\ P' \in Nat /\ TurnLeft \in 0..3 /\ TurnLeft' \in 0..3
      BY <1>3, <2>1, <2>2
   <2>4. 3 * F' + P' + TurnLeft' < 3 * F + P + TurnLeft
      BY <2>1, <2>2, <2>3, StepsPaid
   <2> QED BY <1>4, <2>4
<1> QED BY <1>5, <1>6, <1>7, <1>8

LEMMA StepsLeftType == SelectionInv => StepsLeft \in Nat
<1> SUFFICES ASSUME SelectionInv PROVE StepsLeft \in Nat
   OBVIOUS
<1>1. Cardinality(Unfetched) \in Nat
   BY SmallerSet DEF Unfetched
<1>2. Cardinality(Unpromoted) \in Nat
   BY SmallerSet DEF Unpromoted
<1>3. TurnLeft \in Nat
   BY DEF TurnLeft
<1> QED BY <1>1, <1>2, <1>3 DEF StepsLeft

(* The loop of Select cannot go on for ever: each of its steps, a pass of  *)
(* propagateLoadModes, the selection of a round or its fetch, lowers a     *)
(* natural number, whatever the go.mod files require of each other.        *)
THEOREM SelectIsBounded ==
    Spec => /\ [](StepsLeft \in Nat)
            /\ [][StepsLeft' < StepsLeft]_vars
<1>1. SelectionInv /\ AsksForFiles /\ [Next]_vars => [StepsLeft' < StepsLeft]_vars
   BY StepsLeftFalls DEF Next, Terminated
<1> QED BY <1>1, SelectionInvHolds, AlwaysAsks, StepsLeftType, PTL DEF Spec

(***************************************************************************)
(* Against the reference.                                                  *)
(***************************************************************************)

(* The go.mod files that are loaded in full in the whole module graph. *)
Least ==
    CHOOSE full \in SUBSET Coordinates :
        FullyLoaded(full) /\ \A other \in SUBSET Coordinates : FullyLoaded(other) => full \subseteq other

(* The reference is well defined: fully loaded sets are closed under       *)
(* intersection, so that there is a smallest one.                          *)
LEMMA LeastExists ==
  ASSUME TypeInv
  PROVE  /\ Least \in SUBSET Coordinates
         /\ FullyLoaded(Least)
         /\ \A other \in SUBSET Coordinates : FullyLoaded(other) => Least \subseteq other
         /\ ModuleGraph = Read(Least)
<1> DEFINE common == {c \in Coordinates : \A full \in SUBSET Coordinates : FullyLoaded(full) => c \in full}
<1>1. \A full \in SUBSET Coordinates : FullyLoaded(full) => common \subseteq full
   OBVIOUS
<1>2. \A full \in SUBSET Coordinates : FullyLoaded(full) => Read(common) \subseteq Read(full)
   <2> SUFFICES ASSUME NEW full \in SUBSET Coordinates, FullyLoaded(full)
                PROVE  Read(common) \subseteq Read(full)
      OBVIOUS
   <2>1. common \subseteq full
      BY <1>1
   <2> HIDE DEF common
   <2> QED BY <2>1 DEF Read
<1>3. Read(common) \subseteq Coordinates
   BY DEF Read, TypeInv
<1>4. FullyLoaded(common)
   <2>1. rootPruned \/ rootRequirements \subseteq common
      BY DEF FullyLoaded, TypeInv
   <2>2. ASSUME NEW c \in Read(common), c \notin pruned \cup rootRequirements
         PROVE  c \in common
      BY <1>2, <1>3, <2>2 DEF FullyLoaded
   <2>3. ASSUME NEW c \in Read(common), c \notin pruned \ common, NEW r \in requirements[c]
         PROVE  r \in common
      <3>1. c \in Coordinates /\ r \in Coordinates
         BY <1>3 DEF TypeInv
      <3>2. ASSUME NEW full \in SUBSET Coordinates, FullyLoaded(full)
            PROVE  r \in full
         <4>1. c \in Read(full) /\ c \notin pruned \ full
            BY <1>1, <1>2, <2>3, <3>2
         <4> QED BY <3>2, <4>1 DEF FullyLoaded
      <3> QED BY <3>1, <3>2
   <2> HIDE DEF common
   <2> QED BY <2>1, <2>2, <2>3 DEF FullyLoaded
<1>5. common \in SUBSET Coordinates
   OBVIOUS
<1> HIDE DEF common
<1>6. \E full \in SUBSET Coordinates :
         FullyLoaded(full) /\ \A other \in SUBSET Coordinates : FullyLoaded(other) => full \subseteq other
   BY <1>1, <1>4, <1>5
<1>7. /\ Least \in SUBSET Coordinates
      /\ FullyLoaded(Least)
      /\ \A other \in SUBSET Coordinates : FullyLoaded(other) => Least \subseteq other
   BY <1>6, Zenon DEF Least
<1>8. ModuleGraph = Read(Least)
   BY Zenon DEF ModuleGraph, Least
<1> QED BY <1>7, <1>8

(* No round selects a version that minimal version selection over the      *)
(* whole module graph does not reach.                                      *)
THEOREM NeverAboveMVSHolds == Spec => []NeverAboveMVS
<1>1. SelectionInv => NeverAboveMVS
   <2> SUFFICES ASSUME SelectionInv, NEW c \in modules
                PROVE  \E b \in BuildList : b.module = c.module /\ c.version <= b.version
      BY DEF NeverAboveMVS
   <2>1. TypeInv /\ c \in Required /\ Required \subseteq Coordinates
      BY RequiredType DEF SelectionInv, PhaseInv
   <2>2. c \in ModuleGraph
      BY <2>1, LeastExists, RequiredWithin
   <2>3. ModuleGraph \subseteq Coordinates
      BY <2>1, LeastExists DEF Read, TypeInv
   <2>4. PICK b \in BuildList : b.module = c.module /\ b.version >= c.version
      BY <2>2, <2>3, HighestMeets DEF BuildList
   <2>5. b.version \in Nat /\ c.version \in Nat
      BY <2>1, <2>3, HighestIsSubset, ModuleSelectionAssumption DEF BuildList, ModuleSelectionAssumption
   <2> QED BY <2>4, <2>5
<1> QED BY <1>1, SelectionInvHolds, PTL

(* With one version of each module in the graph Select returns the build   *)
(* list of the reference: when it ends, the files it loads in full are     *)
(* fully loaded in the sense of the reference, and it has read no less.    *)
THEOREM ExactOnSimpleGraphsHolds == Spec => []ExactOnSimpleGraphs
<1>1. SelectionInv => ExactOnSimpleGraphs
   <2> SUFFICES ASSUME SelectionInv, phase = "selected",
                       \A c, d \in ModuleGraph : c.module = d.module => c = d
                PROVE  modules = BuildList
      BY DEF ExactOnSimpleGraphs
   <2> DEFINE F == {c \in Coordinates : loadModes[c] = loadFull}
   <2>1. /\ TypeInv /\ ModesInv
         /\ \A c \in Coordinates : Promoted(c) => loadModes[c] = loadFull
         /\ modules = Highest(Required) /\ modules \subseteq metadataCache
         /\ Required \subseteq Coordinates
      BY RequiredType DEF SelectionInv, PhaseInv
   <2>2. Required \subseteq ModuleGraph /\ ModuleGraph \subseteq Coordinates
      <3>1. ModuleGraph \subseteq Coordinates
         BY <2>1, LeastExists DEF Read, TypeInv
      <3> QED BY <2>1, <3>1, LeastExists, RequiredWithin
   <2>3. \A c \in Coordinates : c.version <= c.version
      BY ModuleSelectionAssumption DEF ModuleSelectionAssumption
   <2>4. modules = Required /\ BuildList = ModuleGraph
      BY <2>1, <2>2, <2>3 DEF Highest, BuildList
   <2>5. \A p \in metadataCache : p \notin Counted => p \in pruned /\ p \notin F
      BY <2>1 DEF Counted, Promoted, TypeInv
   <2>6. F \cup rootRequirements \subseteq Counted
      <3>1. ASSUME NEW c \in Coordinates, loadModes[c] # loadNone, c \in rootRequirements \cup metadataCache
            PROVE  c \in Counted
         BY <2>1, <2>4, <3>1 DEF Counted, Required
      <3>2. ASSUME NEW c \in F, NEW p \in metadataCache, Expands(p), c \in requirements[p]
            PROVE  c \in Counted
         <4>1. p \in Counted
            BY <2>1, <2>5, <3>2 DEF Expands, TypeInv
         <4>2. c \in Required
            BY <3>2, <4>1 DEF Required
         <4> QED BY <2>1, <2>4, <3>2, <4>2 DEF Counted
      <3>3. F \subseteq Counted
         BY <2>1, <3>1, <3>2 DEF ModesInv
      <3>4. rootRequirements \subseteq Counted
         BY <2>1, <3>1 DEF ModesInv, TypeInv
      <3> QED BY <3>3, <3>4
   <2>7. Read(F) \subseteq Required
      <3> HIDE DEF F
      <3> QED BY <2>6 DEF Read, Required
   <2>8. FullyLoaded(F)
      <3>1. rootPruned \/ rootRequirements \subseteq F
         BY <2>1 DEF ModesInv, TypeInv
      <3>2. ASSUME NEW c \in Read(F)
            PROVE  c \in metadataCache /\ c \in Coordinates
         BY <2>1, <2>4, <2>7
      <3>3. ASSUME NEW c \in Read(F)
            PROVE  c \in pruned \cup rootRequirements \cup F
         <4>1. c \in metadataCache /\ c \in Coordinates
            BY <3>2
         <4>2. loadModes[c] = loadNone => c \in pruned
            BY <2>1, <4>1 DEF Promoted
         <4> QED BY <2>1, <4>1, <4>2 DEF ModesInv, TypeInv
      <3>4. ASSUME NEW c \in Read(F), c \notin pruned \ F, NEW r \in requirements[c]
            PROVE  r \in F
         <4>1. c \in metadataCache /\ c \in Coordinates /\ r \in Coordinates
            BY <2>1, <3>2 DEF TypeInv
         <4>2. Expands(c)
            BY <3>4 DEF Expands
         <4>3. Promoted(r)
            BY <3>4, <4>1, <4>2 DEF Promoted
         <4> QED BY <2>1, <4>1, <4>3
      <3> HIDE DEF F
      <3> QED BY <3>1, <3>3, <3>4 DEF FullyLoaded
   <2>9. ModuleGraph \subseteq Read(F)
      <3>1. Least \subseteq F /\ ModuleGraph = Read(Least)
         BY <2>1, <2>8, LeastExists
      <3> HIDE DEF F
      <3> QED BY <3>1 DEF Read
   <2> QED BY <2>2, <2>4, <2>7, <2>9
<1> QED BY <1>1, SelectionInvHolds, PTL

=============================================================================
