---------------------------- MODULE PaymentLease ----------------------------
(***************************************************************************)
(* The lease columns of payment_records (claimed_by, claimed_until) and    *)
(* the statements of internal/store/lease.go.  live is claimed_until > now: *)
(* time is the Lapse step, which the owner does not see.                   *)
(***************************************************************************)
CONSTANTS LeasedPayments,  \* the payments a lease is taken on
          Workers,         \* claimed_by identities
          Nobody           \* claimed_by IS NULL

VARIABLE lease

Lease == [by : Workers \cup {Nobody}, live : BOOLEAN]
Free == [by |-> Nobody, live |-> FALSE]

LeaseTypeOK == lease \in [LeasedPayments -> Lease]
LeaseInit == lease = [p \in LeasedPayments |-> Free]

\* claimed_by IS NULL OR claimed_until <= now
Claimable(p) == lease[p].by = Nobody \/ ~ lease[p].live

ClaimPayment(p, w) ==
    /\ Claimable(p)
    /\ lease' = [lease EXCEPT ![p] = [by |-> w, live |-> TRUE]]

\* RenewLease extends a live lease of the caller, which stays live, and leaves
\* a lapsed one alone.
CanRenew(p, w) == lease[p].by = w /\ lease[p].live

\* ReleaseLease tests the name only, and tells the loser ErrLeaseLost.
ReleaseLease(p, w) ==
    lease' = [lease EXCEPT ![p] = IF @.by = w THEN Free ELSE @]

Lapse(p) ==
    /\ lease[p].live
    /\ lease' = [lease EXCEPT ![p].live = FALSE]
=============================================================================
