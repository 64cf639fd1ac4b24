SPECIFICATION AlertingSpec
CONSTANTS
    Sweeps = {s1, s2}
    Zones = {z1, z2}
    short = short
    long = long
    Ips = {short, long}
    IsIn <- MCIsIn
    NoZone = NoZone
    Policies <- MCPolicies
    Threshold = 1
    Window = 1
    Retention = 0
    EventScanLimit = 2
    PolicyLimit = 1
    OpenLimit = 2
    BatchSize = 1
    MaxEvents = 3
    MaxDelay = 1
    MaxSweeps = 2
    MaxFaults = 1
    MaxClock = 1
SYMMETRY Symmetry
INVARIANTS GroupsAreRaised DuplicatesOnlyByOverlap AlertsCountPerZone CleanupsLeaveNothingDue
CHECK_DEADLOCK FALSE
