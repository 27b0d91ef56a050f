SPECIFICATION FairSpec
CONSTANTS
    w1 = w1
    w2 = w2
    External = {e1}
    Children = {c1, c2}
    c1 = c1
    c2 = c2
    Returns <- MCReturns
    Reloaded = {o1}
    Scheduled = {}
    Workers = {w1, w2}
    NoJob = NoJob
    Setups <- MCSetups
    MaxAttempts = 2
    MaxFaults = 1
INVARIANTS AttemptsSpent OneHolder InFlightIsExact DrainedOnShutdown
PROPERTIES DoneMeansIdle DoneCloses ShutdownReturns
