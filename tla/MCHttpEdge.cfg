SPECIFICATION EdgeSpec
CONSTANTS
    i1 = i1  i2 = i2  c1 = c1  c2 = c2  m1 = m1
    r1 = r1  r2 = r2  r3 = r3
    Nobody = Nobody
    Instances = {i1, i2}
    Clients = {c1, c2}
    Merchants = {m1}
    Requests = {r1, r2, r3}
    Minute = 2  MaxTrackedClients = 1  EvictionSample = 1
    FairUseWindow = 2  DirectoryTTL = 2
    ClientOf <- MCClientOf
    Settings <- MCSettings
    Offsets <- MCOffsets
    CountTime = 1  QueryTime = 1  MaxTime = 3  MaxMishaps = 1
SYMMETRY MCSymmetry
INVARIANTS
    AllowanceHolds
PROPERTIES
    RefusedForOwnTraffic
    WithdrawnIsUnlisted
    ListingIsFresh
CHECK_DEADLOCK FALSE
