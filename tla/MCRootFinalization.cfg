CONSTANTS
    k1 = k1
    k2 = k2
    k3 = k3
    Root = Root
    Kids = {k1, k2, k3}
    FirstKids <- MCFirstKids
    Canceller = Canceller
    NoTx = NoTx
    RootTypes = {"dependency_audit", "dependency_update_scan"}
    WithCancel = TRUE
    MaxRetries = 1
    MaxAborts = 1
SPECIFICATION FairSpec
INVARIANT ClosedRootHasNoActiveKid
PROPERTY RowsEndOnce
PROPERTY FinalizersAreAtomic
PROPERTY ScanEnds
