SPECIFICATION Spec
CONSTANTS
    p1 = p1  http1 = http1  http2 = http2  bw = bw  cw = cw  rw = rw
    None = None
    Payments = {p1}
    Seeds <- SeedZero
    TxIds <- Rows2
    Hashes <- Rows2
    Confirmations = 2  MaxBlocks = 0  MaxReorgs = 1
    HttpRequests = {http1}  BroadcastWorkers = {bw}
    ConfirmationWorkers = {cw}  RecoveryWorkers = {rw}
    MaxFaults = 1
    LeasesOverrun = TRUE  ReadsRace = FALSE  ClocksDiverge = FALSE
INVARIANTS
    SentIsRecorded
    FinalIsOnChain
    UnsettledIsUncharged
CHECK_DEADLOCK FALSE
