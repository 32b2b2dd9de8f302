\* One thread manages two queues: where routes lead, and what happens to the mail.
SPECIFICATION Spec
CONSTANTS
    q1 = q1
    q2 = q2
    k1 = k1
    k2 = k2
    app = app
    helper = helper
    Queues = {q1, q2}
    Keys = {k1, k2}
    Patterns = {{k1, k2}}
    Users = {app}
    App = app
    Terminate = Terminate
    MaxMsgs = 3
CONSTRAINT FewAtOnce
SYMMETRY NameSymmetry
INVARIANTS TypeOK EachOnceInOrder Accounted RoutesLeadToQueues WildcardsServed
