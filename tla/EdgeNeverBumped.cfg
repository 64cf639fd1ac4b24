SPECIFICATION Spec
CONSTANTS
    z1 = z1
    z2 = z2
    r1 = r1
    g1 = g1
    w1 = w1
    w2 = w2
    Zones = {z1}
    Hostnames = {h1}
    Records = {r1}
    Versions = {1}
    Schemas = {3}
    MaxEpoch = 0
    Nil = Nil
    Kind <- AllRules
    Owner <- OwnedByZ1
    Global = Global
    ClientBumps = FALSE
    MaxWrites = 1
    Workers = {w1}
    Schema <- SameBuild
    ReadOrder <- RulesOnly
    TenantOrder <- RulesOnly
    Rank <- AnyOrder
    PageLimit = 1
    MaxFaults = 0
    Supported = 3
    MaxOutages = 0
PROPERTIES
    EdgeConverges
