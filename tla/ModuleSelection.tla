-------------------------- MODULE ModuleSelection --------------------------
(***************************************************************************)
(* Select of gomod: the rounds that compute a Go build list.  Every round  *)
(* propagates load modes over the go.mod files fetched so far, selects the *)
(* highest required version of each module and fetches the go.mod files of *)
(* the selected versions it has not seen, until none is missing.  Fetching *)
(* a round (QueueRoundFetcher) succeeds as a whole or ends the selection.  *)
(*                                                                         *)
(* A coordinate is a module with a version number; what its go.mod says is *)
(* chosen with the initial state: the requirements, and whether its go     *)
(* directive enables graph pruning (go 1.17).                              *)
(***************************************************************************)
EXTENDS Integers, FiniteSets

CONSTANTS
    Coordinates,    \* records [module, version]
    GoMods,         \* possible contents of all go.mod files: functions from
                    \* Coordinates to sets of coordinates
    Prunings,       \* possible sets of coordinates with go 1.17 or later
    RootMods        \* possible requirements of the root

ASSUME ModuleSelectionAssumption ==
    /\ IsFiniteSet(Coordinates)
    /\ \A c \in Coordinates : c.version \in Nat
    /\ \A c, d \in Coordinates : c.module = d.module /\ c.version = d.version => c = d
    /\ GoMods \subseteq [Coordinates -> SUBSET Coordinates]
    /\ Prunings \subseteq SUBSET Coordinates
    /\ RootMods \subseteq SUBSET Coordinates

VARIABLES
    requirements,       \* what each go.mod requires
    pruned,             \* coordinates for which pruningEnabled
    rootRequirements,
    rootPruned,
    metadataCache,      \* coordinates whose go.mod has been fetched
    loadModes,
    missing,            \* coordinates of the round being fetched
    phase,              \* "round", "select", "fetch", "selected", "failed"
    modules, edges      \* the Selection

vars == <<requirements, pruned, rootRequirements, rootPruned, metadataCache,
          loadModes, missing, phase, modules, edges>>

input == <<requirements, pruned, rootRequirements, rootPruned>>

loadNone == 0
loadDirect == 1
loadFull == 2

Root == [module |-> "root", version |-> 0]

Init ==
    /\ requirements \in GoMods
    /\ pruned \in Prunings
    /\ rootRequirements \in RootMods
    /\ rootPruned \in BOOLEAN
    /\ metadataCache = {}
    /\ loadModes = [c \in Coordinates |->
                      IF c \notin rootRequirements THEN loadNone
                      ELSE IF rootPruned THEN loadDirect ELSE loadFull]
    /\ missing = {}
    /\ phase = "round"
    /\ modules = {}
    /\ edges = {}

(***************************************************************************)
(* propagateLoadModes: passes over the fetched files until one changes     *)
(* nothing.  A pass takes every file as it is at the start of the pass;    *)
(* the code's sees the promotions made earlier in the same pass, which     *)
(* saves passes and ends in the same modes.                                *)
(***************************************************************************)
Expands(c) == loadModes[c] = loadFull \/ c \notin pruned

(* Defect: a module without pruning is loaded, its requirements are not. *)
Promoted_OneLevel(c) == c \in metadataCache /\ loadModes[c] = loadNone /\ c \notin pruned

Promoted(c) ==
    \/ c \in metadataCache /\ loadModes[c] = loadNone /\ c \notin pruned
    \/ \E p \in metadataCache : Expands(p) /\ c \in requirements[p]

promoteLoadMode(c, mode) == IF loadModes[c] >= mode THEN loadModes[c] ELSE mode

propagateLoadModes ==
    /\ phase = "round"
    /\ loadModes' = [c \in Coordinates |-> IF Promoted(c) THEN promoteLoadMode(c, loadFull) ELSE loadModes[c]]
    /\ phase' = IF loadModes' = loadModes THEN "select" ELSE "round"
    /\ UNCHANGED <<input, metadataCache, missing, modules, edges>>

(* The highest version of every module that is required. *)
Highest(required) ==
    {c \in required : \A d \in required : d.module = c.module => d.version <= c.version}

(* Defect: files that pruning leaves out are read as well. *)
Counted_All == metadataCache

(* The files whose requirements take part in the selection. *)
Counted == {c \in metadataCache : loadModes[c] # loadNone}

computeSelected == Highest(rootRequirements \cup UNION {requirements[c] : c \in Counted})

(* The entry of a module in the map of selected versions; reading one that *)
(* is not there gives the empty version.                                   *)
NoVersion == -1

InSelection(r, selected) ==
    IF \E s \in selected : s.module = r.module THEN CHOOSE s \in selected : s.module = r.module
    ELSE [module |-> r.module, version |-> NoVersion]

addSelectedEdges(from, required, selected) ==
    {[from |-> from, to |-> InSelection(r, selected)] : r \in required}

(* Defect: the versions a go.mod names are taken for the selected ones. *)
buildEdges_AsRequired(selected) ==
    {[from |-> Root, to |-> r] : r \in rootRequirements}
        \cup UNION {{[from |-> c, to |-> r] : r \in requirements[c]} : c \in selected}

(* The edges of buildSelection. *)
buildEdges(selected) ==
    addSelectedEdges(Root, rootRequirements, selected)
        \cup UNION {addSelectedEdges(c, requirements[c], selected) :
                      c \in {s \in selected : loadModes[s] # loadNone}}

(* Defect: a module is fetched in the first version that is selected only. *)
missingCoordinates_ByModule(selected) ==
    {c \in selected : \A d \in metadataCache : d.module # c.module}

missingCoordinates(selected) == selected \ metadataCache

(* The rest of a turn of Select's loop, up to the fetch. *)
Round ==
    /\ phase = "select"
    /\ modules' = computeSelected
    /\ missing' = missingCoordinates(modules')
    /\ phase' = IF missing' = {} THEN "selected" ELSE "fetch"
    /\ edges' = IF missing' = {} THEN buildEdges(modules') ELSE {}
    /\ UNCHANGED <<input, metadataCache, loadModes>>

(* Defect: a round forgets the files of the rounds before. *)
addFetchRound_Replaces(requested) == requested

addFetchRound(requested) == metadataCache \cup requested

(* FetchRound and addFetchRound: every file of the round arrives. *)
FetchRound ==
    /\ phase = "fetch"
    /\ metadataCache' = addFetchRound(missing)
    /\ phase' = "round"
    /\ UNCHANGED <<input, loadModes, missing, modules, edges>>

(* A file is refused for good or its job is dead-lettered, the context     *)
(* ends, or the round brings a file nobody asked for (a job an earlier     *)
(* process left in the store): the whole selection fails.                  *)
FetchFails ==
    /\ phase = "fetch"
    /\ phase' = "failed"
    /\ modules' = {}
    /\ UNCHANGED <<input, metadataCache, loadModes, missing, edges>>

Terminated == phase \in {"selected", "failed"} /\ UNCHANGED vars

Next == propagateLoadModes \/ Round \/ FetchRound \/ FetchFails \/ Terminated

Spec == Init /\ [][Next]_vars

(* Select goes on between its calls of FetchRound.  Nothing is assumed of  *)
(* a fetch: the queue of a round may block for ever (WorkerPool).          *)
FairSpec == Spec /\ WF_vars(propagateLoadModes) /\ WF_vars(Round)

(***************************************************************************)
(* Reference: minimal version selection over the whole module graph, every *)
(* version that a loaded go.mod requires being loaded whether or not a     *)
(* higher one is selected.                                                 *)
(***************************************************************************)

(* The go.mod files that are read when those in full are loaded with all   *)
(* that they require, and those of the root at least with their own.       *)
Read(full) == rootRequirements \cup UNION {requirements[c] : c \in full \cup rootRequirements}

FullyLoaded(full) ==
    /\ rootPruned \/ rootRequirements \subseteq full
    /\ \A c \in Read(full) :
          /\ c \in pruned \cup rootRequirements \cup full
          /\ c \in pruned \ full \/ requirements[c] \subseteq full

(* The smallest such set. *)
ModuleGraph ==
    Read(CHOOSE full \in SUBSET Coordinates :
            FullyLoaded(full) /\ \A other \in SUBSET Coordinates : FullyLoaded(other) => full \subseteq other)

BuildList == Highest(ModuleGraph)

(***************************************************************************)
(* Properties.                                                             *)
(***************************************************************************)

(* No round ever selects a version that minimal version selection over the *)
(* whole graph does not reach, graph pruning included.                     *)
NeverAboveMVS ==
    phase \in {"fetch", "selected"} =>
        \A c \in modules : \E b \in BuildList : b.module = c.module /\ c.version <= b.version

(* When the loop ends every selected go.mod has been read, and the         *)
(* requirements of those that count are met by the selected versions.      *)
SelectionClosed ==
    phase = "selected" =>
        /\ modules \subseteq metadataCache
        /\ \A c \in modules : loadModes[c] # loadNone =>
              \A r \in requirements[c] :
                  \E s \in modules : s.module = r.module /\ s.version >= r.version

(* With one version of every module in the graph the result is exactly the *)
(* build list of the reference: nothing pruned by mistake, nothing missed. *)
ExactOnSimpleGraphs ==
    (phase = "selected" /\ \A c, d \in ModuleGraph : c.module = d.module => c = d)
        => modules = BuildList

(* The edges of a selection join selected versions only, whatever versions *)
(* the go.mod files name: none leads to the empty version of a module that *)
(* was not selected.  Unless a fetched version was superseded they explain *)
(* every module of the selection.                                          *)
EdgesExplainModules ==
    phase = "selected" =>
        /\ \A e \in edges : e.to \in modules /\ e.from \in modules \cup {Root}
        /\ metadataCache = modules => \A c \in modules : \E e \in edges : e.to = c

(* A round may only raise versions and load modes and never fetches a      *)
(* go.mod again: this is why the loop ends.                                *)
RoundsOnlyRise ==
    [][/\ phase' # "failed" => \A c \in modules : \E d \in modules' : d.module = c.module /\ d.version >= c.version
       /\ \A c \in Coordinates : loadModes'[c] >= loadModes[c]
       /\ phase' = "fetch" => missing' \cap metadataCache = {} /\ missing' # {}]_vars

(* Select returns if every round of fetches it starts does: it never asks  *)
(* for rounds without end.                                                 *)
SelectReturns == []<>(phase # "fetch") => <>(phase \in {"selected", "failed"})

(* "Select resolves the fixed-point MVS build list": the result is the     *)
(* build list of minimal version selection.                                *)
SelectsBuildList == phase = "selected" => modules = BuildList

=============================================================================
