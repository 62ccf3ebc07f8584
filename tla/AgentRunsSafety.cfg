SPECIFICATION FairSpec
CONSTANTS
    i1 = i1
    i2 = i2
    w1 = w1
    w2 = w2
    c1 = c1
    c2 = c2
    None = None
    Items = {i1, i2}
    Workers = {w1, w2}
    Controllers = {c1}
    MaxRetries = 1
    MaxRunsPerSweep = 1
    MaxFaults = 1
INVARIANTS CancelStops SucceededMeansDone
PROPERTIES SuccessKept RunSettles
CHECK_DEADLOCK FALSE
