SPECIFICATION AccountSpec
CONSTANTS
    a1 = a1  a2 = a2  s1 = s1  s2 = s2  k1 = k1  k2 = k2  c1 = c1  c2 = c2  c3 = c3
    None = None
    Addresses = {a1, a2}
    Challenges = {c1, c2, c3}
    Sessions = {s1, s2}
    Keys = {k1, k2}
    WalletTTL = 1  AdminSessionTTL = 2  RecipientCooldown = 1  HandlerTime = 0
    MaxTime = 2  MaxSuspensions = 2
SYMMETRY MCSymmetry
INVARIANTS
    ElevationIsProved
    RecipientIsProved
    CooldownHolds
PROPERTIES
    FrozenWhileSuspended
CHECK_DEADLOCK FALSE
