SPECIFICATION FairGapSpec
CONSTANTS
    p1 = p1  p2 = p2  rw = rw
    None = None
    Payments = {p1, p2}
    Seeds <- SeedZero
    TxIds <- Rows3
    Hashes <- Rows4
    Retired = {"expired"}
    Confirmations = 2  MaxBlocks = 0  MaxReorgs = 0
    HttpRequests = {}  BroadcastWorkers = {}
    ConfirmationWorkers = {}  RecoveryWorkers = {rw}
    MaxFaults = 1
    LeasesOverrun = FALSE  ReadsRace = FALSE  ClocksDiverge = FALSE
PROPERTIES
    
    GapIsFilled
CHECK_DEADLOCK FALSE
