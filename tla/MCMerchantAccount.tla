------------------------- MODULE MCMerchantAccount -------------------------
(* Two wallets, two sessions, two keys: enough for a rotation there and     *)
(* back with two sessions on either side of it.                             *)
EXTENDS MerchantAccount, TLC

CONSTANTS a1, a2, s1, s2, k1, k2, c1, c2, c3

MCSymmetry == Permutations(Addresses) \cup Permutations(Sessions)
              \cup Permutations(Keys) \cup Permutations(Challenges)
=============================================================================
