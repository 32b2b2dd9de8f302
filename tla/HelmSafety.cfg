\* A primary and a standby helm, an operator, and time that runs as it likes.
SPECIFICATION Spec
CONSTANTS
    primary = primary
    standby = standby
    Helms = {primary, standby}
    StandbyHelms = {standby}
    Misconfigured = {}
    BehaviorsInConfig = {}
    StartEngaged = {primary}
    StartDisengaged = {standby}
    AllowPark = TRUE
    ParkOnAllStop = TRUE
    Threshold = 1
    SkewPossible = TRUE
    MayCrash = {}
    Orders = {"TRUE", "FALSE", "RESTART"}
    MaxOrders = 2
    QueueSize = 1
VIEW AllButLate
INVARIANTS TypeOK AllStopMeansZero DisabledIsStopped
PROPERTIES GraceIsOneIteration ParkedIsStopped
