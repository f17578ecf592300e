SPECIFICATION Spec
CONSTANTS
    Threads = {t1, t2}
    Workers = {w1, w2}
    Orphan = orphan
    NoBase = noBase
    MaxClaimed = 1
    MaxInputs = 1
    Retries = 1
    MaxVersion = 2
    MaxFaults = 1
    MaxResets = 1
SYMMETRY Symmetry
CONSTRAINT TwoChanges
INVARIANTS TypeOK RunningWithinCap OutputMatchesWatermark  
CHECK_DEADLOCK FALSE
