CONSTANTS
    j1 = j1
    j2 = j2
    j3 = j3
    s1 = s1
    s2 = s2
    w1 = w1
    w2 = w2
    JobIds = {j1, j2, j3}
    NoJob = NoJob
    Slots = {s1}
    Workers = {w1}
    NoWorker = NoWorker
    WorkerOf <- OneProcess
    Submitted = {"dependency_audit", "dependency_update_scan"}
    AttemptLimits = {2}
    MaxAttemptsCap = 2
    MaxStops = 0
    CancelInternal = TRUE
SYMMETRY JobSlotSymmetry
SPECIFICATION Spec
INVARIANT FinalizedRootsAreFinal
INVARIANT EndIsExplained
INVARIANT ScanNeverStuck
INVARIANT ReplaysPaired
