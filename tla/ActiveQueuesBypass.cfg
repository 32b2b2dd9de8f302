\* A routed variable behind one that has no route.
SPECIFICATION Spec
CONSTANTS
    q1 = q1
    q2 = q2
    k1 = k1
    k2 = k2
    app = app
    helper = helper
    Queues = {q1}
    Keys = {k1, k2}
    Patterns = {{k1}}
    Users = {app}
    App = app
    Terminate = Terminate
    MaxMsgs = 2
PROPERTY RoutedMailIsQueued
