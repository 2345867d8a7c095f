SPECIFICATION FairSpec
CONSTANTS
    p1 = p1
    p2 = p2
    Providers = {p1, p2}
    Primary = p1
    TrustedSets = {{p2}, {p1, p2}}
    Confirmations = 3
    MaxReorg = 1
    Drift = 1
    MaxHeight = 4
    MaxMishaps = 1
INVARIANTS FinalIsPermanent RefusalIsProved PriceIsReal
PROPERTIES HonestProvidersResolve
CHECK_DEADLOCK FALSE
