SPECIFICATION Spec
CONSTANTS
    p1 = p1  http1 = http1  http2 = http2  bw = bw  cw = cw  rw = rw
    None = None
    Payments = {p1}
    Seeds <- SeedZero
    TxIds <- Rows2
    Hashes <- Rows2
    Confirmations = 2  MaxBlocks = 3  MaxReorgs = 0
    HttpRequests = {http1}  BroadcastWorkers = {bw}
    ConfirmationWorkers = {}  RecoveryWorkers = {}
    MaxFaults = 0
    LeasesOverrun = FALSE  ReadsRace = FALSE  ClocksDiverge = FALSE
PROPERTIES
    WaiterPersists
CHECK_DEADLOCK FALSE
