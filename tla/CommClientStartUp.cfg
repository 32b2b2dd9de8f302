\* Registering when connecting took long.
SPECIFICATION FairSpec
CONSTANTS
    k1 = k1
    k2 = k2
    Keys = {k1, k2}
    Wanted = {k1, k2}
    Routed = {}
    RosQueueSize = 2
    InPendingLimit = 2
    MaxMsgs = 1
    MaxTime = 1
PROPERTY WantedIsRegistered
