\* A primary that may die, or be late and come back, and that a restart puts
\* out of service.
SPECIFICATION FairSpec
CONSTANTS
    primary = primary
    standby = standby
    Helms = {primary, standby}
    StandbyHelms = {standby}
    Misconfigured = {}
    BehaviorsInConfig = {primary}
    StartEngaged = {}
    StartDisengaged = {}
    AllowPark = TRUE
    ParkOnAllStop = TRUE
    Threshold = 1
    SkewPossible = FALSE
    MayCrash = {primary}
    Orders = {"FALSE", "RESTART"}
    MaxOrders = 1
    QueueSize = 2
INVARIANT NoNeedlessTakeover
PROPERTIES StandbyTakesOver OneHelmYields DisabledIsFinal
