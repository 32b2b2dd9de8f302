\* Two threads manage one queue: stopping it, and what becomes of its backlog.
SPECIFICATION FairSpec
CONSTANTS
    q1 = q1
    q2 = q2
    k1 = k1
    k2 = k2
    app = app
    helper = helper
    Queues = {q1}
    Keys = {k1}
    Patterns = {}
    Users = {app, helper}
    App = app
    Terminate = Terminate
    MaxMsgs = 2
INVARIANT NoWorkerWithoutQueue
PROPERTIES StoppingEnds PushedIsHandled
