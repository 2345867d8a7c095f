------------------------- MODULE MCSettlementStore -------------------------
(* Two payments, so that nonces of different payments meet, and enough rows *)
(* for an intent that is replaced twice beside a dropped one with a filler. *)
EXTENDS SettlementStore, TLC

CONSTANTS p1, p2, t1, t2, t3, t4, h1, h2, h3, h4

MCPayments == {p1, p2}
MCTxIds == {t1, t2, t3, t4}
MCHashes == {h1, h2, h3, h4}
MCSymmetry == Permutations(MCPayments) \cup Permutations(MCTxIds) \cup Permutations(MCHashes)
MCSeeds == {0, 1}
============================================================================
