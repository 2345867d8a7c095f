----------------------------- MODULE Admission -----------------------------
(* CreateSettlementIntent as the database runs it: concurrent transactions  *)
(* that take row and advisory locks one by one, read under READ COMMITTED,  *)
(* and hold every lock until they commit or roll back.  SettlementStore has *)
(* the committed effect as one step; here is why the quotas and the         *)
(* suspension survive the interleavings before it.  now() is the start of   *)
(* the transaction, for the stamp and for the quota window.                 *)
EXTENDS Integers, FiniteSets

CONSTANTS Requests, Payments, Merchants, None,
          ValidBefore,    \* end of the payer's authorization, per payment
          ExpiryMargin, Quota, GlobalQuota, QuotaWindow,
          MaxSuspensions  \* bound: Suspend calls

ASSUME QuotaAssumption ==
    /\ Quota \in Nat \ {0} /\ GlobalQuota \in Nat /\ Quota <= GlobalQuota
    /\ QuotaWindow \in Nat \ {0} /\ ExpiryMargin \in Nat \ {0}
    /\ ValidBefore \in [Payments -> Nat]
    /\ None \notin Requests \cup Payments /\ IsFiniteSet(Payments)

VARIABLES now,         \* the database clock
          state,       \* payment_records.state, "absent" without a row
          requestedAt, \* committed settlement_requested_at, None before
          chargedTo,   \* the merchant an intent was admitted for, None before
          active,      \* merchants whose committed status is 'active'
          suspensions, \* Suspend calls so far
          merchantOf,  \* payment_records.merchant_id, None for NULL
          req,         \* per request: its payment, where its transaction is, and now()
          holder       \* per lock: the request that holds it, None if free

admissionVars == <<now, state, requestedAt, chargedTo, active, suspensions, merchantOf, req, holder>>

\* payment → merchant row → global → signer row.
GlobalLock == "global"
SignerRow == "signer"
Locks == Payments \cup Merchants \cup {GlobalLock, SignerRow}

Payment(r) == req[r].pay
Merchant(r) == merchantOf[req[r].pay]

At(r, step) == req[r].at = step
Open(r) == ~At(r, "new") /\ ~At(r, "done")
Go(r, step) == req' = [req EXCEPT ![r].at = step]
Free(lock) == holder[lock] = None
Take(r, lock) == Free(lock) /\ holder' = [holder EXCEPT ![lock] = r]

\* The end of a transaction, by COMMIT or ROLLBACK, releases what it holds.
Release(r) ==
    /\ holder' = [lock \in Locks |-> IF holder[lock] = r THEN None ELSE holder[lock]]
    /\ Go(r, "done")

Elsewhere == UNCHANGED <<now, active, suspensions, merchantOf>>
WriteNothing == UNCHANGED <<state, requestedAt, chargedTo>> /\ Elsewhere

\* The committed stamps inside the window that ends with r's transaction.
Recent(r, S) ==
    {p \in S : requestedAt[p] # None /\ requestedAt[p] > req[r].started - QuotaWindow}
OfMerchant(m) == {p \in Payments : merchantOf[p] = m}

-----------------------------------------------------------------------------
\* Payments in these states, attributed like this.
AdmissionInit(rows, attribution) ==
    /\ now = 0
    /\ state = rows /\ merchantOf = attribution
    /\ requestedAt = [p \in Payments |-> None]
    /\ chargedTo = [p \in Payments |-> None]
    /\ active = Merchants
    /\ suspensions = 0
    /\ req = [r \in Requests |-> [pay |-> None, at |-> "new", started |-> 0]]
    /\ holder = [lock \in Locks |-> None]

Begin(r, p) ==
    /\ At(r, "new")
    /\ req' = [req EXCEPT ![r] = [pay |-> p, at |-> "begun", started |-> now]]
    /\ WriteNothing /\ UNCHANGED holder

\* SELECT ... FOR UPDATE of the payment.  One already requested is answered as
\* a duplicate, one that is absent, retired or attributed to nobody is refused:
\* no intent in any of these cases.
LockPayment(r) ==
    /\ At(r, "begun") /\ Free(Payment(r))
    /\ IF state[Payment(r)] = "verified" /\ Merchant(r) # None
       THEN Take(r, Payment(r)) /\ Go(r, "payment")
       ELSE Release(r)
    /\ WriteNothing

\* Mutant: the rejection is recorded on a second connection, whose foreign-key
\* check waits for the row lock the caller holds.
rejectSettlementApart(r) == Free(Payment(r)) /\ Release(r) /\ WriteNothing

\* rejectSettlement: the refusal is committed inside the same transaction.
rejectSettlement(r) == Release(r) /\ WriteNothing

\* Mutant: the merchant row is read without FOR UPDATE.
LockMerchantUnheld(r) ==
    /\ At(r, "payment") /\ (Merchant(r) \in active => Free(Merchant(r)))
    /\ IF Merchant(r) \in active /\ ValidBefore[Payment(r)] > req[r].started + ExpiryMargin
       THEN Go(r, "merchant") /\ UNCHANGED holder /\ WriteNothing
       ELSE rejectSettlement(r)

\* Mutant: the attribution made at verification is trusted.
LockMerchantAnyStatus(r) ==
    /\ At(r, "payment") /\ Free(Merchant(r))
    /\ IF ValidBefore[Payment(r)] > req[r].started + ExpiryMargin
       THEN Take(r, Merchant(r)) /\ Go(r, "merchant") /\ WriteNothing
       ELSE rejectSettlement(r)

\* The merchant must be active now, whatever it was at verification (a row that
\* does not match is not waited for); then the authorization must outlive the margin.
LockMerchant(r) ==
    /\ At(r, "payment") /\ (Merchant(r) \in active => Free(Merchant(r)))
    /\ IF Merchant(r) \in active /\ ValidBefore[Payment(r)] > req[r].started + ExpiryMargin
       THEN Take(r, Merchant(r)) /\ Go(r, "merchant") /\ WriteNothing
       ELSE rejectSettlement(r)

CountMerchant(r) ==
    /\ At(r, "merchant")
    /\ IF Cardinality(Recent(r, OfMerchant(Merchant(r)))) >= Quota
       THEN rejectSettlement(r)
       ELSE Go(r, "counted") /\ UNCHANGED holder /\ WriteNothing

\* Mutant: no advisory lock.
LockGlobalSkipped(r) ==
    /\ At(r, "counted")
    /\ Go(r, "global") /\ UNCHANGED holder /\ WriteNothing

LockGlobal(r) ==
    /\ At(r, "counted")
    /\ Take(r, GlobalLock)
    /\ Go(r, "global") /\ WriteNothing

CountGlobal(r) ==
    /\ At(r, "global")
    /\ IF Cardinality(Recent(r, Payments)) >= GlobalQuota
       THEN rejectSettlement(r)
       ELSE Go(r, "admitted") /\ UNCHANGED holder /\ WriteNothing

\* AllocateNonce takes the signer row and keeps it to the end (the nonce itself
\* is SettlementStore's).
AllocateNonce(r) ==
    /\ At(r, "admitted") /\ Take(r, SignerRow)
    /\ UNCHANGED req /\ WriteNothing

Commit(r) ==
    /\ At(r, "admitted") /\ holder[SignerRow] = r
    /\ state' = [state EXCEPT ![Payment(r)] = "broadcasting"]
    /\ requestedAt' = [requestedAt EXCEPT ![Payment(r)] = req[r].started]
    /\ chargedTo' = [chargedTo EXCEPT ![Payment(r)] = Merchant(r)]
    /\ Release(r) /\ Elsewhere

\* The client goes away, a statement times out, the process dies.
Rollback(r) ==
    /\ Open(r)
    /\ Release(r) /\ WriteNothing

\* Suspend and reinstatement update the merchant row, so they wait for its lock.
Suspend(m) ==
    /\ suspensions < MaxSuspensions /\ Free(m)
    /\ active' = IF m \in active THEN active \ {m} ELSE active \cup {m}
    /\ suspensions' = suspensions + 1
    /\ UNCHANGED <<now, state, requestedAt, chargedTo, merchantOf, req, holder>>

Work(r) ==
    \/ LockPayment(r) \/ LockMerchant(r) \/ CountMerchant(r)
    \/ LockGlobal(r) \/ CountGlobal(r) \/ AllocateNonce(r) \/ Commit(r)

-----------------------------------------------------------------------------
\* What m was charged for.
Own(m) == {p \in Payments : chargedTo[p] = m}

\* The stamps of S, and those in the window that ends with one.
Stamps(S) == {requestedAt[p] : p \in {q \in S : requestedAt[q] # None}}
Window(S, t) == {p \in S : requestedAt[p] # None /\ requestedAt[p] \in (t - QuotaWindow + 1)..t}

\* No window, wherever it is laid, holds more intents of one merchant than its
\* quota: the counts of concurrent requests never add up past the limit, also
\* when one that began first commits last, or when a payment that counts is
\* redacted and belongs to no merchant any more.
MerchantQuotaHolds ==
    \A m \in Merchants : \A t \in Stamps(Own(m)) : Cardinality(Window(Own(m), t)) <= Quota

\* ... nor more intents of all merchants together than the global quota.
GlobalQuotaHolds == \A t \in Stamps(Payments) : Cardinality(Window(Payments, t)) <= GlobalQuota

\* A suspension is effective at settlement time: an intent commits only while
\* its merchant is active, not merely because it was when it was checked.
SuspensionStep ==
    \A p \in Payments : requestedAt'[p] # requestedAt[p] => merchantOf[p] \in active
SuspensionHolds == [][SuspensionStep]_admissionVars

\* The lock order admits no cycle and no transaction waits for itself: while any
\* is open, some open transaction can take its next step, so the next /settle is
\* never stuck behind transactions that wait for each other.
NoLockCycle ==
    (\E r \in Requests : Open(r)) => \E r \in Requests : ENABLED Work(r)
=============================================================================
