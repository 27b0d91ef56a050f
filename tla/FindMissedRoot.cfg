CONSTANTS
    k1 = k1
    k2 = k2
    k3 = k3
    Root = Root
    Kids = {k1, k2}
    FirstKids <- MCFirstKids
    Canceller = Canceller
    NoTx = NoTx
    RootTypes = {"dependency_audit"}
    WithCancel = FALSE
    MaxRetries = 0
    MaxAborts = 0
SPECIFICATION Spec
INVARIANT RootNotAbandoned
