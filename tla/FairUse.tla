------------------------------ MODULE FairUse ------------------------------
(* The per-merchant allowance on authenticated requests: one counter row    *)
(* per merchant and window in the shared database, incremented and read in  *)
(* one statement by every instance on its own clock, and deleted when its   *)
(* window is long over.                                                     *)
EXTENDS Integers

CONSTANTS Merchants,
          FairUseWindow,
          Windows       \* the times a window may start at

VARIABLES allowance, \* MerchantRequestsPerWindow, unlimited when it is 0
          usage      \* merchant_usage.requests, 0 when there is no row

UsageInit == usage = [m \in Merchants |-> [w \in Windows |-> 0]]

Truncate(t) == t - (t % FairUseWindow)

\* Counts before deciding: a refused request counts as well.
CountMerchantRequest(m, w) == usage' = [usage EXCEPT ![m][w] = @ + 1]
Exceeded(m, w) == usage[m][w] + 1 > allowance

\* Mutant: only the current window is kept.
PruneAllElapsed(t) ==
    usage' = [m \in Merchants |-> [w \in Windows |->
                 IF w < Truncate(t) THEN 0 ELSE usage[m][w]]]

\* By a clock that shows t: the two windows before the current one are kept.
PruneMerchantUsage(t) ==
    usage' = [m \in Merchants |-> [w \in Windows |->
                 IF w < Truncate(t - 2 * FairUseWindow) THEN 0 ELSE usage[m][w]]]
=============================================================================
