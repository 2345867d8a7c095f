-------------------------- MODULE ReplacementFees --------------------------
(* The fees of one signer nonce: the first estimate (EstimateFees), the    *)
(* bumps of a stuck transaction (BumpFees), and the node's pool, which     *)
(* keeps one transaction per nonce and lets another displace it only at a  *)
(* higher price.  Fees are exact naturals: the code computes with big.Int. *)
EXTENDS Integers, Sequences

CONSTANTS BaseFees,  \* base fees the latest block may report
          Ceilings,  \* ETH402_MAX_FEE_PER_GAS_WEI, over the restarts
          TipCaps,   \* ETH402_MAX_PRIORITY_FEE_PER_GAS_WEI, likewise
          MaxVersions \* bound on the transactions signed for the nonce

ASSUME FeeAssumption ==
    /\ BaseFees \subseteq Nat /\ TipCaps \subseteq Nat
    /\ Ceilings \subseteq Nat \ {0}
    /\ MaxVersions \in Nat

VARIABLES baseFee,   \* of the latest block
          ceiling,   \* of the running process
          versions,  \* fee pairs recorded for the nonce, oldest first
          pool       \* index of the version the node holds, 0 when none

feeVars == <<baseFee, ceiling, versions, pool>>

FeePair == [maxFee : Nat, priority : Nat]

FeeTypeOK ==
    /\ baseFee \in BaseFees
    /\ ceiling \in Ceilings
    /\ versions \in Seq(FeePair)
    /\ pool \in 0..Len(versions)

-----------------------------------------------------------------------------
(* fees.go                                                                 *)

Lesser(a, b) == IF a < b THEN a ELSE b
Greater(a, b) == IF a < b THEN b ELSE a

minBump(n) == (11 * n + 9) \div 10

\* Mutant: the tip is not capped by the max fee.
EstimateFeesTipFree(base, tipCap, cap) ==
    LET maxFee == Lesser(2 * base + tipCap, cap)
    IN  [ok |-> maxFee > 0, maxFee |-> maxFee, priority |-> tipCap]

\* A zero max fee is the error return; the caller retries on a later tick.
EstimateFees(base, tipCap, cap) ==
    LET maxFee == Lesser(2 * base + tipCap, cap)
    IN  [ok |-> maxFee > 0, maxFee |-> maxFee, priority |-> Lesser(tipCap, maxFee)]

bumpedTip(oldTip) == Greater((oldTip * 9) \div 8, Greater(minBump(oldTip), oldTip + 1))

\* Mutant: a bump needs room for the full 12.5% in the tip.
BumpFeesGreedy(old, base, cap) ==
    LET est    == EstimateFees(base, bumpedTip(old.priority), cap)
        maxFee == Greater(est.maxFee, minBump(old.maxFee))
    IN  [ok |-> est.ok /\ cap >= minBump(old.maxFee) /\ est.priority >= bumpedTip(old.priority),
         maxFee |-> maxFee, priority |-> Lesser(est.priority, maxFee)]

BumpFees(old, base, cap) ==
    LET est      == EstimateFees(base, bumpedTip(old.priority), cap)
        maxFee   == Greater(est.maxFee, minBump(old.maxFee))
        priority == Lesser(est.priority, maxFee)
    IN  [ok |-> /\ old.maxFee > 0
                /\ est.ok
                /\ est.maxFee >= minBump(old.maxFee) \/ cap >= minBump(old.maxFee)
                /\ priority >= minBump(old.priority),
         maxFee |-> maxFee, priority |-> priority]

Pair(fees) == [maxFee |-> fees.maxFee, priority |-> fees.priority]

-----------------------------------------------------------------------------
(* The node's price-bump rule: both fields strictly higher, and by 10%.    *)

Outbids(new, old) ==
    /\ new.maxFee > old.maxFee /\ new.priority > old.priority
    /\ 10 * new.maxFee >= 11 * old.maxFee
    /\ 10 * new.priority >= 11 * old.priority

Latest == versions[Len(versions)]

-----------------------------------------------------------------------------
FeeInit ==
    /\ baseFee \in BaseFees
    /\ ceiling \in Ceilings
    /\ versions = <<>>
    /\ pool = 0

\* estimateFees, then MarkTxSigned records the pair before the first send.
FirstBroadcast(tip) ==
    LET fees == EstimateFees(baseFee, tip, ceiling) IN
    /\ versions = <<>> /\ MaxVersions > 0
    /\ fees.ok
    /\ versions' = <<Pair(fees)>>
    /\ UNCHANGED <<baseFee, ceiling, pool>>

\* replacementFees on the recorded pair, then MarkTxReplaced records the new
\* one before it is sent, whether or not the old one ever reached the node.
Replace ==
    LET fees == BumpFees(Latest, baseFee, ceiling) IN
    /\ Len(versions) \in 1..(MaxVersions - 1)
    /\ fees.ok
    /\ versions' = Append(versions, Pair(fees))
    /\ UNCHANGED <<baseFee, ceiling, pool>>

\* A send arrives, late or out of order, and the pool's rule applies to it.
Arrive(i) ==
    /\ i # pool
    /\ pool # 0 => Outbids(versions[i], versions[pool])
    /\ pool' = i
    /\ UNCHANGED <<baseFee, ceiling, versions>>

NewBlock ==
    /\ baseFee' \in BaseFees
    /\ UNCHANGED <<ceiling, versions, pool>>

\* A restart with another ceiling: the recorded fees may exceed it.
Reconfigure ==
    /\ ceiling' \in Ceilings
    /\ UNCHANGED <<baseFee, versions, pool>>

FeeNext ==
    \/ \E tip \in TipCaps : FirstBroadcast(tip)
    \/ Replace
    \/ \E i \in 1..Len(versions) : Arrive(i)
    \/ NewBlock
    \/ Reconfigure

FeeSpec == FeeInit /\ [][FeeNext]_feeVars

-----------------------------------------------------------------------------
\* BumpFees: a version outbids every earlier one by the pool's rule, not only
\* the one it replaces, so whichever version a node still holds after lost and
\* delayed sends, the newest displaces it.
ClimbsByRule ==
    \A i, j \in 1..Len(versions) : i < j => Outbids(versions[j], versions[i])

\* The ceiling is the hard spend bound: no recorded pair is above the ceiling
\* of the process that recorded it, and a tip is never above its cap.
SpendStep ==
    versions' # versions =>
        LET new == versions'[Len(versions')] IN new.priority <= new.maxFee /\ new.maxFee <= ceiling
WithinCeiling == [][SpendStep]_feeVars

\* BumpFees gives up only when nothing under the ceiling would be accepted:
\* "no room" is a fact about the ceiling, never about rounding.
RefusedOnlyWithoutRoom ==
    versions # <<>> /\ ~BumpFees(Latest, baseFee, ceiling).ok =>
        \A m \in 0..ceiling : \A t \in 0..m : ~Outbids([maxFee |-> m, priority |-> t], Latest)

\* Inductive: the pairs are well formed and climb, and the pool holds one.
FeeInv ==
    /\ FeeTypeOK
    /\ \A i \in 1..Len(versions) : versions[i].maxFee > 0 /\ versions[i].priority <= versions[i].maxFee
    /\ ClimbsByRule
=============================================================================
