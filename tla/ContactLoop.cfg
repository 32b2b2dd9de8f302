SPECIFICATION FairSpec
CONSTANTS
    henry = henry
    avd = avd
    trail = trail
    Contacts = {henry}
    AlertIds = {avd, trail}
    Zones = {"near", "between", "far"}
    AlertZones = {"near"}
    FromFile = {trail}
    Nameless = {}
    Ranges = {"near", "between", "far"}
    CompleteZones = {"far"}
    Prefixed = {trail}
    Requested = {avd}
    StartModes = {"park", "standby"}
    Expire = {avd, trail}
    Faults = {"restart", "malconfig", "lost", "halt"}
    Idles = {avd}
INVARIANTS TypeOK OneAtATime CountsAgree NamesTell
PROPERTIES ImplementsCycle OnlyFaultsForget ThreatIsGuarded AwayIsReleased
