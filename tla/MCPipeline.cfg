SPECIFICATION FairSpec
CONSTANTS
    p1 = p1  http1 = http1  http2 = http2  bw = bw  cw = cw  rw = rw
    None = None
    Payments = {p1}
    Seeds <- SeedZero
    TxIds <- Rows2
    Hashes <- Rows2
    Confirmations = 2  MaxBlocks = 0  MaxReorgs = 0
    HttpRequests = {http1}  BroadcastWorkers = {bw}
    ConfirmationWorkers = {cw}  RecoveryWorkers = {rw}
    MaxFaults = 1
    LeasesOverrun = FALSE  ReadsRace = FALSE  ClocksDiverge = FALSE
INVARIANTS
    ToldIsRecorded
    
    ConfirmingAgrees
    
PROPERTIES
    ImplementsStore
    EveryIntentResolves
CHECK_DEADLOCK FALSE
