\* The documented role of m_InLock.
SPECIFICATION Spec
CONSTANTS
    k1 = k1
    k2 = k2
    Keys = {k1, k2}
    Wanted = {k1, k2}
    Routed = {k2}
    RosQueueSize = 2
    InPendingLimit = 1
    MaxMsgs = 2
    MaxTime = 1
INVARIANT InBoxIsGuarded
