CONSTANTS
    Assets = {"ssh", "rdp", "db", "missing"}
    Profile <- MCProfile
    None = None
    MaxLaunches = 2
    MaxMounts = 2
SPECIFICATION Spec
INVARIANTS
    TabsOwnConnections
    LaunchedOnce
PROPERTIES
    TabsEnd
CHECK_DEADLOCK FALSE
