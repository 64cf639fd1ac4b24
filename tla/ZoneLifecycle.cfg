SPECIFICATION ZoneLifecycleSpec
CONSTANTS
    z1 = z1
    z2 = z2
    d1 = d1
    d2 = d2
    Calls = {c1, c2}
    ZoneIds = {z1, z2}
    DomainIds = {d1, d2}
    Hosts <- MCHosts
    Created <- OneCreated
    Known <- OneKnown
    CascadeLimit = 2
    MaxFields = 1
    MaxCalls = 3
    MaxChanges = 1
SYMMETRY Symmetry
INVARIANTS ZoneTypeOK ServedIsProven CascadePassesNoZone QuietSyncIsRight
PROPERTY NoHeldReferenceDangles
CHECK_DEADLOCK FALSE
