\* No active queue and no purge: the client is a Mailbox.
SPECIFICATION FairSpec
CONSTANTS
    k1 = k1
    k2 = k2
    Keys = {k1, k2}
    Wanted = {k1, k2}
    Routed = {}
    RosQueueSize = 1
    InPendingLimit = 2
    MaxMsgs = 2
    MaxTime = 1
PROPERTIES Implements CloseReturnsEventually
