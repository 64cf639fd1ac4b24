SPECIFICATION CacheSpec
CONSTANTS
    Zones = {z1}
    Hostnames = {h1, h2}
    Records = {}
    Versions = {1, 2}
    Schemas = {3, 4}
    MaxEpoch = 0
    Nil = Nil
    Supported = 3
    MaxOutages = 1
INVARIANTS
    CacheTypeOK
    SnapshotSound
PROPERTIES
    LastGoodKept
    IndexFollowed
    VersionFollowed
