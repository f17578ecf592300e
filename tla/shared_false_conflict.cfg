SPECIFICATION FairSpec
CONSTANTS
    Devices = {d1}
    Sessions = {s1}
    Existing = {s1}
    Threads = {t1}
    Edits = {e1}
    Sync = sync
    UserCalls = {u1}
    NoSession = noSession
    NoThread = noThread
    NoDevice = noDevice
    NoKey = noKey
    NoCall = noCall
    MaxSwitches = 1
    MaxRenames = 1
    MaxDeletes = 0
    NetworkFails = FALSE
PROPERTIES NoFalseConflict
CHECK_DEADLOCK FALSE
