SPECIFICATION FairSpec
CONSTANTS
    Devices = {d1,d2}
    Sessions = {s1,s2}
    Existing = {s1}
    Threads = {t1,t2}
    Edits = {e1,e2}
    Sync = sync
    UserCalls = {u1}
    NoSession = noSession
    NoThread = noThread
    NoDevice = noDevice
    NoKey = noKey
    NoCall = noCall
    MaxSwitches = 2
    MaxRenames = 0
    MaxDeletes = 0
    NetworkFails = FALSE
PROPERTIES  QueueKeepsOrder
CHECK_DEADLOCK FALSE
