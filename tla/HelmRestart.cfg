\* The missions of the tree: the configuration block names the behavior file.
SPECIFICATION Spec
CONSTANTS
    primary = primary
    standby = standby
    Helms = {primary, standby}
    StandbyHelms = {standby}
    Misconfigured = {}
    BehaviorsInConfig = {primary, standby}
    StartEngaged = {primary}
    StartDisengaged = {}
    AllowPark = TRUE
    ParkOnAllStop = TRUE
    Threshold = 1
    SkewPossible = TRUE
    MayCrash = {}
    Orders = {"TRUE", "FALSE", "RESTART"}
    MaxOrders = 1
    QueueSize = 2
PROPERTY RestartedHelmRuns
