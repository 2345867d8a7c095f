-------------------------- MODULE MCVerification --------------------------
(* Either three verified payments and three /settle requests, where the      *)
(* three merchants together could exceed the global quota of two, or m1      *)
(* alone its own of one; or two payments of one authorization, of which p4   *)
(* runs out early, that are verified, settled and forgotten; or two payments *)
(* of m1, of which one may be forgotten before the other is counted.         *)
EXTENDS Verification, TLC

CONSTANTS r1, r2, r3, v1, v2, p1, p2, p3, p4, m1, m2, m3, a1, a2, a3

MCValidBefore == [p \in Payments |-> CASE p = p2 -> 3 [] p = p4 -> 2 [] OTHER -> 9]
MCAuthorizationOf == [p \in Payments |-> CASE p = p2 -> a2 [] p = p3 -> a3 [] OTHER -> a1]
MCClaimants == [p \in Payments |-> <<m1, m2>>]

Admitting(attribution) ==
    [payments |-> {p1, p2, p3}, requests |-> Requests, verifiers |-> {}, resolved |-> {},
     suspended |-> Merchants, end |-> 2,
     state |-> [p \in Payments |-> IF p = p4 THEN "absent" ELSE "verified"],
     merchantOf |-> attribution]
Verifying(r) ==
    [payments |-> {p1, p4}, requests |-> {r}, verifiers |-> Verifiers, resolved |-> {p1, p4},
     suspended |-> {m1}, end |-> 6,
     state |-> [p \in Payments |-> "absent"], merchantOf |-> [p \in Payments |-> None]]

Forgetting(requests) ==
    [payments |-> {p1, p2}, requests |-> requests, verifiers |-> {}, resolved |-> {p2},
     suspended |-> {}, end |-> 7,
     state |-> [p \in Payments |-> IF p \in {p1, p2} THEN "verified" ELSE "absent"],
     merchantOf |-> [p \in Payments |-> IF p \in {p1, p2} THEN m1 ELSE None]]

MCScopes ==
    {Admitting([p \in Payments |-> CASE p = p1 -> m1 [] p = p2 -> m2 [] p = p3 -> m3 [] p = p4 -> None]),
     Admitting([p \in Payments |-> CASE p = p3 -> m3 [] p = p4 -> None [] OTHER -> m1])}
    \cup {Verifying(r) : r \in Requests} \cup {Forgetting(Requests \ {r}) : r \in Requests}
MCSymmetry == Permutations(Requests) \cup Permutations(Verifiers)
=============================================================================
