--------------------------- MODULE MCReplacements ---------------------------
(* A payment in flight: its transaction, nonce 0, is recorded as broadcast   *)
(* and a node has it.  The confirmation and recovery workers take it from    *)
(* there: fee bumps, sightings, the original landing after all.              *)
EXTENDS SettlementPipeline

CONSTANTS p1, cw, rw

FlightRows == 1..2
SeedZero == {0}

InFlightInit ==
    /\ payment = [p \in Payments |-> "broadcast"]
    /\ redacted = [p \in Payments |-> FALSE]
    /\ tx = [t \in TxIds |->
                IF t = 1 THEN [pay |-> p1, nonce |-> 0, status |-> "broadcast",
                               raw |-> 1, hash |-> 1, bytes |-> FALSE]
                ELSE NoRow]
    /\ nextNonce = 1
    /\ net = {[h |-> 1, nonce |-> 0, pay |-> p1]} /\ chain = <<>> /\ reorgs = 0
    /\ LeaseInit
    /\ clock = [p \in Payments |-> "live"]
    /\ proc = [x \in Processes |-> Idle]
    /\ told = [p \in Payments |-> {}]
    /\ faults = 0

InFlightSpec == InFlightInit /\ [][Next]_vars /\ Fairness
=============================================================================
