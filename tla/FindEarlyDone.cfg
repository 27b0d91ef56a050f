SPECIFICATION Spec
CONSTANTS
    w1 = w1
    w2 = w2
    External = {e1}
    Children = {c1, c2}
    c1 = c1
    c2 = c2
    Returns <- MCReturns
    Reloaded = {}
    Scheduled = {o2}
    Workers = {w1, w2}
    NoJob = NoJob
    Setups <- MCSetups
    MaxAttempts = 2
    MaxFaults = 0
INVARIANT DoneMeansChunkDone
