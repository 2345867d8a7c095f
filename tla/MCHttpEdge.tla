----------------------------- MODULE MCHttpEdge -----------------------------
(* Two instances, one of whose clocks may be ahead as far as it may; tables *)
(* with room for one client; allowances of one.                             *)
EXTENDS HttpEdge, TLC

CONSTANTS i1, i2, c1, c2, m1, r1, r2, r3

MCOffsets == {[i \in Instances |-> IF i = i2 THEN 3 ELSE 0]}
MCClientOf == [r \in Requests |-> IF r = r3 THEN c2 ELSE c1]
\* Each setting switches on what its requests exercise; the set stays the same
\* when r1 and r2 change places.
Asks(a1, a2, a3) == [r \in Requests |-> CASE r = r1 -> a1 [] r = r2 -> a2 [] r = r3 -> a3]
Setting(limited, counted, listed, asks) ==
    [limit |-> limited, allowance |-> counted, listed |-> listed, asks |-> asks]
MCSettings ==
    {Setting(1, 1, {}, Asks("account", "account", "account")),
     Setting(0, 0, {m1}, Asks("explore", "explore", "opt_out")),
     Setting(0, 0, {m1}, Asks("opt_in", "opt_out", "explore")),
     Setting(0, 0, {m1}, Asks("opt_out", "opt_in", "explore")),
     Setting(0, 1, {}, Asks("opt_in", "opt_in", "explore"))}
MCSymmetry == Permutations(Requests \ {r3})
=============================================================================
