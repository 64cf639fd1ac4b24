SPECIFICATION DistSpec
CONSTANTS
    z1 = z1
    z2 = z2
    r1 = r1
    g1 = g1
    w1 = w1
    w2 = w2
    Zones = {z1, z2}
    Hostnames = {h1, h2}
    Records = {r1, g1}
    Versions = {1}
    Schemas = {3}
    MaxEpoch = 0
    Nil = Nil
    Kind <- RuleAndList
    Owner <- OwnedByZ1
    Global = Global
    ClientBumps = FALSE
    MaxWrites = 2
    Workers = {w1}
    Schema <- SameBuild
    ReadOrder <- RulesThenLists
    TenantOrder <- ListsOnly
    Rank <- AnyOrder
    PageLimit = 2
    MaxFaults = 1
INVARIANTS
    DistTypeOK
    StoreConsistent
PROPERTIES
    StoreConverges
    UntouchedStaysPublished
