SPECIFICATION DistSpec
CONSTANTS
    z1 = z1
    z2 = z2
    r1 = r1
    g1 = g1
    w1 = w1
    w2 = w2
    Zones = {z1, z2}
    Hostnames = {h1, h2}
    Records = {}
    Versions = {1}
    Schemas = {3}
    MaxEpoch = 0
    Nil = Nil
    Kind <- AllRules
    Owner <- OwnedByZ1
    Global = Global
    ClientBumps = FALSE
    MaxWrites = 2
    Workers = {w1}
    Schema <- SameBuild
    ReadOrder <- RulesOnly
    TenantOrder <- RulesOnly
    Rank <- AnyOrder
    PageLimit = 2
    MaxFaults = 0
PROPERTIES
    SweepRemovesUnservable
