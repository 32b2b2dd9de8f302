\* Two variables, one of them routed to an active queue; queues and limits so
\* small that each overflows.
SPECIFICATION Spec
CONSTANTS
    k1 = k1
    k2 = k2
    Keys = {k1, k2}
    Wanted = {k1, k2}
    Routed = {k2}
    RosQueueSize = 2
    InPendingLimit = 1
    MaxMsgs = 3
    MaxTime = 1
INVARIANTS TypeOK Accounted MailInTimeOrder MailPresentSound RegistrationsAgree
    ClosedIsClean
