SPECIFICATION InFlightSpec
CONSTANTS
    p1 = p1  cw = cw  rw = rw
    None = None
    Payments = {p1}
    Seeds <- SeedZero
    TxIds <- FlightRows
    Hashes <- FlightRows
    Confirmations = 2  MaxBlocks = 0  MaxReorgs = 0
    HttpRequests = {}  BroadcastWorkers = {}
    ConfirmationWorkers = {cw}  RecoveryWorkers = {rw}
    MaxFaults = 1
    LeasesOverrun = TRUE  ReadsRace = FALSE  ClocksDiverge = FALSE
PROPERTIES
    BroadcastIsSettled
CHECK_DEADLOCK FALSE
