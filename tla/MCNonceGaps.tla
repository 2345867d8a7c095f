---------------------------- MODULE MCNonceGaps ----------------------------
(* The nonce gap: p1's intent held nonce 0 and was retired before it was    *)
(* signed (it expired, or its simulation reverted) while p2's transaction,  *)
(* nonce 1, is in flight behind it.  The initial states are those; recovery *)
(* instances take it from there, and /settle may still be called.           *)
EXTENDS SettlementPipeline

CONSTANTS p1, p2, rw,
          Retired  \* how p1 was retired: "expired", "failed"

Rows3 == 1..3
Rows4 == 1..4
SeedZero == {0}

Row(p, nonce, status, h) ==
    [pay |-> p, nonce |-> nonce, status |-> status, raw |-> h, hash |-> h, bytes |-> FALSE]

GapInit ==
    /\ \E final \in Retired :
          payment = [p \in Payments |-> IF p = p1 THEN final ELSE "broadcast"]
    /\ redacted = [p \in Payments |-> FALSE]
    /\ tx = [t \in TxIds |-> CASE t = 1 -> Row(p1, 0, "dropped", None)
                               [] t = 2 -> Row(p2, 1, "broadcast", 1)
                               [] OTHER -> NoRow]
    /\ nextNonce = 2
    /\ net = {[h |-> 1, nonce |-> 1, pay |-> p2]} /\ chain = <<>> /\ reorgs = 0
    /\ LeaseInit
    /\ clock = [p \in Payments |-> IF p = p1 THEN "margin" ELSE "live"]
    /\ proc = [x \in Processes |-> Idle]
    /\ told = [p \in Payments |-> {}]
    /\ faults = 0

GapSpec == GapInit /\ [][Next]_vars

FairGapSpec ==
    /\ GapSpec /\ BaseFairness
    /\ \A x \in RecoveryWorkers, pass \in {"nonce-gaps", "gap-fillers"} : PassFairness(x, pass, 1)
=============================================================================
