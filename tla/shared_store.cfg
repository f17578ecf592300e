SPECIFICATION Spec
CONSTANTS
    Devices = {d1,d2}
    Sessions = {s1}
    Existing = {}
    Threads = {t1,t2}
    Edits = {e1}
    Sync = sync
    UserCalls = {u1}
    NoSession = noSession
    NoThread = noThread
    NoDevice = noDevice
    NoKey = noKey
    NoCall = noCall
    MaxSwitches = 3
    MaxRenames = 1
    MaxDeletes = 2
    NetworkFails = TRUE
INVARIANTS TypeOK 
 
SYMMETRY Symmetry
CHECK_DEADLOCK FALSE
