------------------------ MODULE VerificationProofs ------------------------
(* An authorization pays once, a suspension holds and the quotas are kept,   *)
(* for any payments, merchants, requests, quotas and bounds.                 *)
EXTENDS Verification, FiniteSetTheorems, TLAPS

\* The part of the state that transactions on their way leave alone.
Rows == <<state, merchantOf, active>>

\* Init establishes the invariant.
LEMMA InitInv == Init => LifecycleInv
<1> SUFFICES ASSUME Init PROVE LifecycleInv
    OBVIOUS
<1> USE QuotaAssumption, RetentionAssumption, ScopeAssumption DEF Init, AdmissionInit
<1>1. LifecycleTypeOK
    BY DEF LifecycleTypeOK, States, Steps, VerifySteps, NewVerification
<1>2. LocksHold
    BY DEF LocksHold, At
<1>3. RedactedIsOver
    BY DEF RedactedIsOver
<1>4. ReadIsRecent
    BY DEF ReadIsRecent, NewVerification
<1>5. RowsApart
    BY DEF RowsApart
<1> QED
    BY <1>1, <1>2, <1>3, <1>4, <1>5 DEF LifecycleInv

-----------------------------------------------------------------------------
(* Transactions: what each step does to the locks and to the requests.      *)

\* COMMIT or ROLLBACK: the others keep what they hold.
LEMMA ReleaseKeeps ==
    ASSUME LifecycleTypeOK, LocksHold, NEW r \in Requests, ~At(r, "new"), Release(r),
           UNCHANGED <<merchantOf, active>>,
           \A p \in Payments : p # Payment(r) => state'[p] = state[p],
           state' = state \/ holder[Payment(r)] = r
    PROVE  LocksHold' /\ holder' \in [Locks -> Requests \cup {None}]
           /\ req' \in [Requests -> [pay : Payments \cup {None}, at : Steps, started : Nat]]
<1> USE QuotaAssumption DEF LifecycleTypeOK
<1>1. req' = [req EXCEPT ![r].at = "done"]
      /\ holder' = [lock \in Locks |-> IF holder[lock] = r THEN None ELSE holder[lock]]
    BY DEF Release, Go
<1>2. /\ req' \in [Requests -> [pay : Payments \cup {None}, at : Steps, started : Nat]]
      /\ holder' \in [Locks -> Requests \cup {None}]
    BY <1>1 DEF Steps
<1>3. ASSUME NEW s \in Requests
      PROVE  /\ ~At(s, "new")' => (Payment(s) \in Payments)'
             /\ req'[s].at \in {"payment", "merchant", "counted", "global", "admitted"} =>
                   (holder[Payment(s)] = s /\ state[Payment(s)] = "verified")'
             /\ req'[s].at \in {"merchant", "counted", "global", "admitted"} =>
                   (Merchant(s) \in active /\ holder[Merchant(s)] = s)'
  <2>1. CASE s = r
    <3>1. req'[s].at = "done" /\ req'[s].pay = req[s].pay
        BY <1>1, <2>1
    <3> QED
        BY <3>1, <2>1 DEF At, Payment, Release, LocksHold
  <2>2. CASE s # r
    <3>1. req'[s] = req[s]
        BY <1>1, <2>2
    <3>2. \A lock \in Locks : holder[lock] = s => holder'[lock] = s
        BY <1>1, <2>2
    <3>3. ~At(s, "new") => Payment(s) \in Payments
        BY DEF LocksHold
    <3>4. CASE req[s].at \in {"payment", "merchant", "counted", "global", "admitted"}
      <4>1. holder[Payment(s)] = s /\ state[Payment(s)] = "verified" /\ Payment(s) \in Payments
          BY <3>4, <3>3 DEF LocksHold, At
      <4>2. state'[Payment(s)] = state[Payment(s)]
          BY <4>1, <2>2
      <4>3. Payment(s) \in Locks
          BY <4>1 DEF Locks
      <4>4. CASE req[s].at \in {"merchant", "counted", "global", "admitted"}
        <5>1. Merchant(s) \in active /\ holder[Merchant(s)] = s /\ Merchant(s) \in Locks
            BY <4>4 DEF LocksHold, Locks
        <5> QED
            BY <5>1, <4>1, <4>2, <4>3, <3>1, <3>2 DEF At, Payment, Merchant
      <4> QED
          BY <4>1, <4>2, <4>3, <4>4, <3>1, <3>2 DEF At, Payment
    <3> QED
        BY <3>1, <3>3, <3>4 DEF At, Payment
  <2> QED
      BY <2>1, <2>2
<1> QED
    BY <1>2, <1>3 DEF LocksHold

\* A step inside a transaction that takes at most one free lock: what it has
\* not seen before must be as it says.
LEMMA AdvanceKeeps ==
    ASSUME LifecycleTypeOK, LocksHold, NEW r \in Requests, NEW step \in Steps, step # "new",
           UNCHANGED Rows, NEW lock \in Locks,
           req' = [req EXCEPT ![r].at = step], Payment(r) \in Payments,
           holder' = holder \/ (Free(lock) /\ holder' = [holder EXCEPT ![lock] = r]),
           step \in {"payment", "merchant", "counted", "global", "admitted"} =>
               holder'[Payment(r)] = r /\ state[Payment(r)] = "verified",
           step \in {"merchant", "counted", "global", "admitted"} =>
               Merchant(r) \in active /\ holder'[Merchant(r)] = r
    PROVE  LocksHold' /\ holder' \in [Locks -> Requests \cup {None}]
           /\ req' \in [Requests -> [pay : Payments \cup {None}, at : Steps, started : Nat]]
<1> USE QuotaAssumption DEF LifecycleTypeOK, Rows
<1>1. /\ req' \in [Requests -> [pay : Payments \cup {None}, at : Steps, started : Nat]]
      /\ holder' \in [Locks -> Requests \cup {None}]
    BY DEF Free
<1>2. ASSUME NEW s \in Requests
      PROVE  /\ ~At(s, "new")' => (Payment(s) \in Payments)'
             /\ req'[s].at \in {"payment", "merchant", "counted", "global", "admitted"} =>
                   (holder[Payment(s)] = s /\ state[Payment(s)] = "verified")'
             /\ req'[s].at \in {"merchant", "counted", "global", "admitted"} =>
                   (Merchant(s) \in active /\ holder[Merchant(s)] = s)'
  <2>1. CASE s = r
    <3>1. req'[s].at = step /\ req'[s].pay = req[s].pay
        BY <2>1
    <3> QED
        BY <3>1, <2>1 DEF At, Payment, Merchant
  <2>2. CASE s # r
    <3>1. req'[s] = req[s]
        BY <2>2
    <3>2. \A l \in Locks : holder[l] = s => holder'[l] = s
        BY <2>2 DEF Free
    <3>3. /\ ~At(s, "new") => Payment(s) \in Payments
          /\ req[s].at \in {"payment", "merchant", "counted", "global", "admitted"} =>
                holder[Payment(s)] = s /\ state[Payment(s)] = "verified"
          /\ req[s].at \in {"merchant", "counted", "global", "admitted"} =>
                Merchant(s) \in active /\ holder[Merchant(s)] = s
        BY DEF LocksHold
    <3>4. /\ ~At(s, "new") => Payment(s) \in Locks
          /\ Merchant(s) \in active => Merchant(s) \in Locks
        BY <3>3 DEF Locks
    <3> QED
        BY <3>1, <3>2, <3>3, <3>4 DEF At, Payment, Merchant
  <2> QED
      BY <2>1, <2>2
<1> QED
    BY <1>1, <1>2 DEF LocksHold

\* Rows, authorizations and /verify requests as they were: their part of the
\* invariant is as it was.
LEMMA RestKeeps ==
    ASSUME RedactedIsOver, ReadIsRecent, RowsApart,
           UNCHANGED <<now, state, ver, spent, redacted>>
    PROVE  RedactedIsOver' /\ ReadIsRecent' /\ RowsApart'
<1>1. RedactedIsOver'
    BY DEF RedactedIsOver
<1>2. ReadIsRecent'
    BY DEF ReadIsRecent
<1>3. RowsApart'
    BY DEF RowsApart
<1> QED
    BY <1>1, <1>2, <1>3

\* Requests and locks as they were, and rows the transactions do not hold
\* changed: the locks still hold.
LEMMA LocksKeep ==
    ASSUME LifecycleTypeOK, LocksHold, UNCHANGED <<req, holder>>,
           \A m \in Merchants : ~Free(m) => (m \in active => m \in active'),
           \A p \in Payments : state[p] = "verified" /\ ~Free(p) =>
               state'[p] = state[p] /\ merchantOf'[p] = merchantOf[p]
    PROVE  LocksHold'
<1> USE QuotaAssumption DEF LifecycleTypeOK
<1>1. ASSUME NEW s \in Requests
      PROVE  /\ ~At(s, "new")' => (Payment(s) \in Payments)'
             /\ req'[s].at \in {"payment", "merchant", "counted", "global", "admitted"} =>
                   (holder[Payment(s)] = s /\ state[Payment(s)] = "verified")'
             /\ req'[s].at \in {"merchant", "counted", "global", "admitted"} =>
                   (Merchant(s) \in active /\ holder[Merchant(s)] = s)'
  <2>1. ~At(s, "new") => Payment(s) \in Payments
      BY DEF LocksHold
  <2>2. CASE req[s].at \in {"payment", "merchant", "counted", "global", "admitted"}
    <3>1. holder[Payment(s)] = s /\ state[Payment(s)] = "verified" /\ Payment(s) \in Payments
        BY <2>1, <2>2 DEF LocksHold, At
    <3>2. /\ state'[Payment(s)] = "verified" /\ merchantOf'[Payment(s)] = merchantOf[Payment(s)]
        BY <3>1 DEF Free
    <3>3. CASE req[s].at \in {"merchant", "counted", "global", "admitted"}
      <4>1. Merchant(s) \in active /\ holder[Merchant(s)] = s
          BY <3>3 DEF LocksHold
      <4>2. Merchant(s) \in active'
          BY <4>1 DEF Free
      <4> QED
          BY <4>1, <4>2, <3>1, <3>2 DEF At, Payment, Merchant
    <3> QED
        BY <3>1, <3>2, <3>3 DEF At, Payment
  <2> QED
      BY <2>1, <2>2 DEF At, Payment
<1> QED
    BY <1>1 DEF LocksHold

-----------------------------------------------------------------------------
\* Every step of a /settle transaction keeps the invariant.
LEMMA SettleInv ==
    ASSUME LifecycleInv, NEW r \in Requests, Settle(r), scope.payments \subseteq Payments
    PROVE  LifecycleInv'
<1> USE QuotaAssumption DEF LifecycleInv
<1> DEFINE Kept == LocksHold' /\ holder' \in [Locks -> Requests \cup {None}]
                   /\ req' \in [Requests -> [pay : Payments \cup {None}, at : Steps, started : Nat]]
<1>1. ASSUME Kept, UNCHANGED <<now, state, merchantOf, active, lifecycleVars>> PROVE LifecycleInv'
  <2>1. LifecycleTypeOK'
      BY <1>1 DEF LifecycleTypeOK, lifecycleVars
  <2>2. RedactedIsOver' /\ ReadIsRecent' /\ RowsApart'
      BY <1>1, RestKeeps DEF lifecycleVars
  <2> QED
      BY <1>1, <2>1, <2>2
<1>2. ASSUME ~At(r, "new"), Release(r), WriteNothing PROVE LifecycleInv'
  <2>1. UNCHANGED <<now, state, merchantOf, active>>
      BY <1>2 DEF WriteNothing, Elsewhere
  <2>2. Kept
      BY <1>2, <2>1, ReleaseKeeps
  <2> QED
      BY <2>1, <2>2, <1>1 DEF Settle
<1>3. ASSUME NEW step \in Steps, NEW lock \in Locks, step # "new", ~At(r, "new"), WriteNothing,
             Go(r, step), holder' = holder \/ Take(r, lock),
             step \in {"payment", "merchant", "counted", "global", "admitted"} =>
                 holder'[Payment(r)] = r /\ state[Payment(r)] = "verified",
             step \in {"merchant", "counted", "global", "admitted"} =>
                 Merchant(r) \in active /\ holder'[Merchant(r)] = r
      PROVE  LifecycleInv'
  <2>1. UNCHANGED <<now, state, merchantOf, active>>
      BY <1>3 DEF WriteNothing, Elsewhere
  <2>2. Payment(r) \in Payments
      BY <1>3 DEF LocksHold
  <2>3. Kept
      BY Zenon, <1>3, <2>1, <2>2, AdvanceKeeps DEF Go, Take, Rows
  <2> QED
      BY <2>1, <2>3, <1>1 DEF Settle
<1>4. At(r, "new") \/ Payment(r) \in Locks
    BY DEF LocksHold, Locks
<1>5. ASSUME NEW p \in Payments, Begin(r, p) PROVE LifecycleInv'
  <2>1. UNCHANGED <<now, state, merchantOf, active, holder>> /\ At(r, "new")
        /\ req' = [req EXCEPT ![r] = [pay |-> p, at |-> "begun", started |-> now]]
      BY <1>5 DEF Begin, WriteNothing, Elsewhere
  <2>2. req' \in [Requests -> [pay : Payments \cup {None}, at : Steps, started : Nat]]
      BY <2>1 DEF LifecycleTypeOK, Steps
  <2>3. ASSUME NEW s \in Requests
        PROVE  /\ ~At(s, "new")' => (Payment(s) \in Payments)'
               /\ req'[s].at \in {"payment", "merchant", "counted", "global", "admitted"} =>
                     (holder[Payment(s)] = s /\ state[Payment(s)] = "verified")'
               /\ req'[s].at \in {"merchant", "counted", "global", "admitted"} =>
                     (Merchant(s) \in active /\ holder[Merchant(s)] = s)'
    <3>1. CASE s = r
        BY <3>1, <2>1 DEF LifecycleTypeOK, At, Payment
    <3>2. CASE s # r
      <4>1. req'[s] = req[s]
          BY <3>2, <2>1 DEF LifecycleTypeOK
      <4> QED
          BY <4>1, <2>1 DEF LocksHold, At, Payment, Merchant
    <3> QED
        BY <3>1, <3>2
  <2>4. Kept
      BY <2>1, <2>2, <2>3 DEF LocksHold, LifecycleTypeOK
  <2> QED
      BY <2>1, <2>4, <1>1 DEF Settle
<1>6. ASSUME LockPayment(r) PROVE LifecycleInv'
  <2>1. ~At(r, "new") /\ WriteNothing
      BY <1>6 DEF LockPayment, At
  <2>2. CASE Release(r)
      BY <2>1, <2>2, <1>2
  <2>3. CASE state[Payment(r)] = "verified" /\ Take(r, Payment(r)) /\ Go(r, "payment")
    <3>1. holder'[Payment(r)] = r
        BY <2>1, <2>3, <1>4 DEF Take, LifecycleTypeOK
    <3> QED
        BY <2>1, <2>3, <3>1, <1>3, <1>4 DEF Steps
  <2> QED
      BY <1>6, <2>2, <2>3 DEF LockPayment
<1>7. ASSUME LockMerchant(r) PROVE LifecycleInv'
  <2>1. ~At(r, "new") /\ req[r].at = "payment"
      BY <1>7 DEF LockMerchant, At
  <2>2. holder[Payment(r)] = r /\ state[Payment(r)] = "verified"
      BY <2>1 DEF LocksHold
  <2>3. CASE rejectSettlement(r)
      BY <2>1, <2>3, <1>2 DEF rejectSettlement
  <2>4. CASE Merchant(r) \in active /\ Take(r, Merchant(r)) /\ Go(r, "merchant") /\ WriteNothing
    <3>1. Merchant(r) \in Locks
        BY <2>4 DEF Locks, LifecycleTypeOK
    <3>2. holder'[Merchant(r)] = r /\ holder'[Payment(r)] = r
        BY <2>1, <2>2, <2>4, <3>1, <1>4 DEF Take, LifecycleTypeOK
    <3> QED
        BY <2>1, <2>2, <2>4, <3>1, <3>2, <1>3 DEF Steps
  <2> QED
      BY <1>7, <2>3, <2>4 DEF LockMerchant
<1>8. ASSUME req[r].at \in {"merchant", "counted", "global", "admitted"}
      PROVE  /\ ~At(r, "new") /\ Payment(r) \in Payments
             /\ holder[Payment(r)] = r /\ state[Payment(r)] = "verified"
             /\ Merchant(r) \in active /\ holder[Merchant(r)] = r
             /\ Merchant(r) \in Locks /\ GlobalLock \in Locks /\ SignerRow \in Locks
    BY <1>8 DEF LocksHold, At, Locks, LifecycleTypeOK
<1>9. ASSUME CountMerchant(r) PROVE LifecycleInv'
  <2>1. req[r].at = "merchant"
      BY <1>9 DEF CountMerchant, At
  <2>2. CASE rejectSettlement(r)
      BY <2>1, <2>2, <1>2, <1>8 DEF rejectSettlement
  <2>3. CASE Go(r, "counted") /\ UNCHANGED holder /\ WriteNothing
      BY Zenon, <2>1, <2>3, <1>3, <1>8 DEF Steps
  <2> QED
      BY <1>9, <2>2, <2>3 DEF CountMerchant
<1>10. ASSUME LockGlobal(r) PROVE LifecycleInv'
  <2>1. req[r].at = "counted" /\ Take(r, GlobalLock) /\ Go(r, "global") /\ WriteNothing
      BY <1>10 DEF LockGlobal, At
  <2>2. holder'[Payment(r)] = r /\ holder'[Merchant(r)] = r
      BY <2>1, <1>4, <1>8 DEF Take, LifecycleTypeOK
  <2> QED
      BY <2>1, <2>2, <1>3, <1>8 DEF Steps
<1>11. ASSUME CountGlobal(r) PROVE LifecycleInv'
  <2>1. req[r].at = "global"
      BY Zenon, <1>11 DEF CountGlobal, At
  <2>2. CASE rejectSettlement(r)
      BY <2>1, <2>2, <1>2, <1>8 DEF rejectSettlement
  <2>3. CASE Go(r, "admitted") /\ UNCHANGED holder /\ WriteNothing
      BY <2>1, <2>3, <1>3, <1>8 DEF Steps
  <2> QED
      BY <1>11, <2>2, <2>3 DEF CountGlobal
<1>12. ASSUME AllocateNonce(r) PROVE LifecycleInv'
  <2>1. req[r].at = "admitted" /\ Take(r, SignerRow) /\ req' = req /\ WriteNothing
      BY <1>12 DEF AllocateNonce, At
  <2>2. Go(r, "admitted")
      BY <2>1 DEF Go, LifecycleTypeOK
  <2>3. holder'[Payment(r)] = r /\ holder'[Merchant(r)] = r
      BY <2>1, <1>4, <1>8 DEF Take, LifecycleTypeOK
  <2> QED
      BY <2>1, <2>2, <2>3, <1>3, <1>8 DEF Steps
<1>13. ASSUME Commit(r) PROVE LifecycleInv'
  <2>1. /\ req[r].at = "admitted" /\ Release(r) /\ UNCHANGED <<now, active, merchantOf, lifecycleVars>>
        /\ state' = [state EXCEPT ![Payment(r)] = "broadcasting"]
      BY <1>13 DEF Commit, At, Elsewhere, Settle
  <2>2. /\ ~At(r, "new") /\ Payment(r) \in Payments /\ holder[Payment(r)] = r
        /\ state[Payment(r)] = "verified"
      BY <2>1, <1>8
  <2>3. \A p \in Payments : p # Payment(r) => state'[p] = state[p]
      BY <2>1 DEF LifecycleTypeOK
  <2>4. state'[Payment(r)] = "broadcasting" /\ state' \in [Payments -> States]
      BY <2>1, <2>2 DEF LifecycleTypeOK, States
  <2>5. Kept
      BY <2>1, <2>2, <2>3, ReleaseKeeps
  <2>6. LifecycleTypeOK'
      BY <2>1, <2>4, <2>5 DEF LifecycleTypeOK, lifecycleVars
  <2>7. RedactedIsOver'
      BY Zenon, <2>1, <2>2, <2>3, <2>4 DEF RedactedIsOver, lifecycleVars, LifecycleTypeOK
  <2>8. ReadIsRecent'
      BY Zenon, <2>1 DEF ReadIsRecent, lifecycleVars
  <2>9. RowsApart'
      BY Zenon, <2>1, <2>2, <2>3, <2>4 DEF RowsApart, lifecycleVars
  <2> QED
      BY <2>5, <2>6, <2>7, <2>8, <2>9
<1>14. ASSUME Rollback(r) PROVE LifecycleInv'
    BY <1>14, <1>2 DEF Rollback, Open
<1> QED
    BY <1>5, <1>6, <1>7, <1>9, <1>10, <1>11, <1>12, <1>13, <1>14 DEF Settle, Work

-----------------------------------------------------------------------------
\* A /verify that only moves on itself, to a step whose claims hold.
LEMMA VerifyMoves ==
    ASSUME LifecycleInv, NEW v \in Verifiers, UNCHANGED <<admissionVars, spent, updatedAt, redacted, scope>>,
           NEW next \in [pay : Payments \cup {None}, at : VerifySteps, began : Nat],
           ver' = [ver EXCEPT ![v] = next],
           next.at \in {"parsed", "unused", "checked"} =>
               next.pay \in Payments /\ next.began <= now /\ now <= next.began + VerifyTime,
           next.at \in {"unused", "checked"} =>
               LET payer == spent[AuthorizationOf[next.pay]]
               IN  payer # None => next.began < ValidBefore[payer]
    PROVE  LifecycleInv'
<1> USE DEF LifecycleInv
<1>1. UNCHANGED <<now, state, merchantOf, active, req, holder, spent, redacted, scope>>
    BY DEF admissionVars
<1>2. LifecycleTypeOK'
    BY <1>1 DEF LifecycleTypeOK
<1>3. LocksHold'
    BY Zenon, <1>1, LocksKeep
<1>4. RedactedIsOver' /\ RowsApart'
    BY Zenon, <1>1 DEF RedactedIsOver, RowsApart
<1>5. ReadIsRecent'
  <2> SUFFICES ASSUME NEW w \in Verifiers
               PROVE  /\ ver'[w].at \in {"parsed", "unused", "checked"} =>
                            ver'[w].pay \in Payments /\ ver'[w].began <= now /\ now <= ver'[w].began + VerifyTime
                      /\ ver'[w].at \in {"unused", "checked"} =>
                            LET payer == spent[AuthorizationOf[ver'[w].pay]]
                            IN  payer # None => ver'[w].began < ValidBefore[payer]
      BY Zenon, <1>1 DEF ReadIsRecent
  <2>1. CASE w = v
      BY Zenon, <2>1 DEF LifecycleTypeOK
  <2>2. CASE w # v
    <3>1. ver'[w] = ver[w]
        BY Zenon, <2>2 DEF LifecycleTypeOK
    <3> QED
        BY Zenon, <3>1 DEF ReadIsRecent
  <2> QED
      BY Zenon, <2>1, <2>2
<1> QED
    BY <1>2, <1>3, <1>4, <1>5

\* Every step of a /verify keeps the invariant.  The one that records a payment
\* finds no other row of the authorization, or redacted ones: one that was paid
\* for would have been seen by the read, which is not as old as a redaction.
LEMMA VerifyInv ==
    ASSUME LifecycleInv, NEW v \in Verifiers, Verify(v), scope.payments \subseteq Payments
    PROVE  LifecycleInv'
<1> USE QuotaAssumption, RetentionAssumption, ScopeAssumption DEF LifecycleInv
<1> DEFINE q == ver[v]
<1>0. q \in [pay : Payments \cup {None}, at : VerifySteps, began : Nat] /\ now \in Nat
    BY Zenon DEF LifecycleTypeOK
<1>1. ASSUME NEW answer \in {"valid", "invalid", "unavailable"}, VerifyDone(v, answer),
             UNCHANGED <<admissionVars, spent, updatedAt, redacted, scope>>
      PROVE  LifecycleInv'
  <2>1. [pay |-> None, at |-> answer, began |-> 0] \in
            [pay : Payments \cup {None}, at : VerifySteps, began : Nat]
      BY DEF VerifySteps
  <2>2. ver' = [ver EXCEPT ![v] = [pay |-> None, at |-> answer, began |-> 0]]
      BY <1>1 DEF VerifyDone
  <2> QED
      BY Zenon, <1>1, <2>1, <2>2, VerifyMoves
<1>2. ASSUME NEW p \in Payments, ParseRequest(v, p) PROVE LifecycleInv'
  <2> DEFINE next == [pay |-> p, at |-> "parsed", began |-> now]
  <2>1. next \in [pay : Payments \cup {None}, at : VerifySteps, began : Nat]
      BY <1>0 DEF VerifySteps
  <2>2. next.pay \in Payments /\ next.began <= now /\ now <= next.began + VerifyTime /\ next.at = "parsed"
      BY <1>0
  <2>3. ver' = [ver EXCEPT ![v] = next] /\ UNCHANGED <<admissionVars, spent, updatedAt, redacted, scope>>
      BY <1>2 DEF ParseRequest
  <2> HIDE DEF next
  <2> QED
      BY Zenon, <2>1, <2>2, <2>3, VerifyMoves
<1>3. ASSUME q.at \in {"parsed", "unused", "checked"}
      PROVE  q.pay \in Payments /\ q.began <= now /\ now <= q.began + VerifyTime
    BY Zenon, <1>3 DEF ReadIsRecent
<1>4. ASSUME NEW step \in {"unused", "checked"}, VerifyGo(v, step), q.at \in {"parsed", "unused"},
             LET payer == spent[AuthorizationOf[q.pay]] IN payer # None => q.began < ValidBefore[payer],
             UNCHANGED <<admissionVars, spent, updatedAt, redacted, scope>>
      PROVE  LifecycleInv'
  <2> DEFINE next == [pay |-> q.pay, at |-> step, began |-> q.began]
  <2>1. next \in [pay : Payments \cup {None}, at : VerifySteps, began : Nat]
      BY <1>0 DEF VerifySteps
  <2>2. ver' = [ver EXCEPT ![v] = next]
      BY <1>4 DEF VerifyGo, LifecycleTypeOK
  <2> QED
      BY Zenon, <1>3, <1>4, <2>1, <2>2, VerifyMoves
<1>5. ASSUME ReadContract(v) PROVE LifecycleInv'
  <2>1. q.at = "parsed" /\ UNCHANGED <<admissionVars, spent, updatedAt, redacted, scope>>
      BY <1>5 DEF ReadContract, VerifyAt
  <2>2. CASE VerifyDone(v, "invalid")
      BY <2>1, <2>2, <1>1
  <2>3. CASE spent[AuthorizationOf[q.pay]] = None /\ VerifyGo(v, "unused")
      BY Zenon, <2>1, <2>3, <1>4
  <2> QED
      BY <1>5, <2>2, <2>3 DEF ReadContract
<1>6. ASSUME SchemeVerify(v) PROVE LifecycleInv'
  <2>1. q.at = "unused" /\ UNCHANGED <<admissionVars, spent, updatedAt, redacted, scope>>
      BY Zenon, <1>6 DEF SchemeVerify, VerifyAt
  <2>2. LET payer == spent[AuthorizationOf[q.pay]] IN payer # None => q.began < ValidBefore[payer]
      BY <2>1 DEF ReadIsRecent
  <2> QED
      BY Zenon, <1>6, <2>1, <2>2, <1>1, <1>4 DEF SchemeVerify
<1>7. ASSUME Unavailable(v) PROVE LifecycleInv'
    BY Zenon, <1>7, <1>1 DEF Unavailable
<1>8. ASSUME RecordVerification(v) PROVE LifecycleInv'
  <2> DEFINE p == q.pay
  <2>1. /\ q.at = "checked" /\ p \in Payments /\ recordVerification(p)
        /\ UNCHANGED <<now, active, req, holder, spent, redacted, scope>>
      BY <1>8, <1>3 DEF RecordVerification, VerifyAt
  <2>2. PICK answer \in {"valid", "invalid", "unavailable"} : VerifyDone(v, answer)
      BY <1>8 DEF RecordVerification
  <2>3. ver' = [ver EXCEPT ![v] = [pay |-> None, at |-> answer, began |-> 0]]
      BY <2>2 DEF VerifyDone
  <2>4. ver' \in [Verifiers -> [pay : Payments \cup {None}, at : VerifySteps, began : Nat]]
      BY <2>3 DEF LifecycleTypeOK, VerifySteps
  <2>5. ReadIsRecent'
    <3>1. ASSUME NEW w \in Verifiers PROVE ver'[w] = ver[w] \/ ver'[w].at \in {"valid", "invalid", "unavailable"}
        BY Zenon, <2>3 DEF LifecycleTypeOK
    <3> QED
        BY <2>1, <3>1 DEF ReadIsRecent
  <2>6. CASE UNCHANGED <<state, merchantOf>>
    <3>1. LifecycleTypeOK' /\ RedactedIsOver' /\ RowsApart'
        BY Zenon, <2>1, <2>4, <2>6 DEF LifecycleTypeOK, RedactedIsOver, RowsApart
    <3>2. LocksHold'
        BY Zenon, <2>1, <2>6, LocksKeep
    <3> QED
        BY Zenon, <2>5, <3>1, <3>2
  <2>7. CASE /\ state[p] = "absent" /\ Conflicts(p) = {}
             /\ state' = [state EXCEPT ![p] = "verified"]
             /\ merchantOf' = [merchantOf EXCEPT ![p] = Claimant(p)]
    <3>1. state'[p] = "verified" /\ \A o \in Payments \ {p} : state'[o] = state[o] /\ merchantOf'[o] = merchantOf[o]
        BY <2>1, <2>7 DEF LifecycleTypeOK
    <3>3. LifecycleTypeOK'
        BY Zenon, <2>1, <2>4, <2>7 DEF LifecycleTypeOK, States
    <3>4. LocksHold'
        BY <2>1, <2>7, <3>1, LocksKeep
    <3>5. p \notin redacted
        BY <2>7 DEF RedactedIsOver
    <3>6. RedactedIsOver'
        BY <2>1, <2>7, <3>1, <3>5 DEF RedactedIsOver, LifecycleTypeOK
    <3>7. ASSUME NEW o \in Payments, o # p, AuthorizationOf[o] = AuthorizationOf[p], state[o] # "absent"
          PROVE  o \in redacted /\ state[o] # "confirmed"
      <4>1. o \in redacted
          BY <2>7, <3>7 DEF Conflicts
      <4>2. ASSUME state[o] = "confirmed" PROVE FALSE
        <5>1. spent[AuthorizationOf[p]] = o /\ o # None
            BY <3>7, <4>2 DEF RedactedIsOver
        <5>2. q.began < ValidBefore[o]
            BY <2>1, <5>1 DEF ReadIsRecent
        <5>3. ValidBefore[o] < now - PaymentRetention /\ ValidBefore[o] \in Nat
            BY <4>1 DEF RedactedIsOver
        <5>4. now <= q.began + VerifyTime /\ q.began \in Nat
            BY <1>0, <1>3, <2>1
        <5> QED
            BY <1>0, <5>2, <5>3, <5>4
      <4> QED
          BY Zenon, <4>1, <4>2
    <3>8. RowsApart'
      <4> SUFFICES ASSUME NEW a \in Payments, NEW b \in Payments, a # b,
                          AuthorizationOf[a] = AuthorizationOf[b],
                          state'[a] # "absent", state'[b] # "absent"
                   PROVE  /\ a \in redacted \/ b \in redacted
                          /\ a \in redacted /\ state'[a] = "confirmed" => b \in redacted
          BY <2>1 DEF RowsApart
      <4>1. CASE a = p
          BY <4>1, <3>1, <3>5, <3>7
      <4>2. CASE b = p
          BY <4>2, <3>1, <3>5, <3>7
      <4>3. CASE a # p /\ b # p
          BY <4>3, <3>1 DEF RowsApart
      <4> QED
          BY <4>1, <4>2, <4>3
    <3> QED
        BY Zenon, <2>5, <3>3, <3>4, <3>6, <3>8
  <2> QED
      BY Zenon, <2>1, <2>6, <2>7 DEF recordVerification
<1> QED
    BY <1>2, <1>5, <1>6, <1>7, <1>8 DEF Verify

-----------------------------------------------------------------------------
\* A transfer is mined before its authorization runs out, so later than any
\* read that did not see it.
LEMMA MineInv ==
    ASSUME LifecycleInv, NEW p \in Payments, Mine(p)
    PROVE  LifecycleInv'
<1> USE QuotaAssumption, ScopeAssumption DEF LifecycleInv
<1>1. /\ UNCHANGED <<now, state, merchantOf, active, req, holder, ver, redacted, scope>>
      /\ spent' = [spent EXCEPT ![AuthorizationOf[p]] = p] /\ spent[AuthorizationOf[p]] = None
      /\ now < ValidBefore[p]
    BY DEF Mine, admissionVars
<1>2. \A a \in Authorizations : spent'[a] = spent[a] \/ (spent'[a] = p /\ spent[a] = None)
    BY <1>1 DEF LifecycleTypeOK
<1>3. LifecycleTypeOK'
    BY Zenon, <1>1 DEF LifecycleTypeOK
<1>4. LocksHold'
    BY Zenon, <1>1, LocksKeep
<1>5. RedactedIsOver'
    BY <1>1, <1>2 DEF RedactedIsOver
<1>6. ReadIsRecent'
  <2> SUFFICES ASSUME NEW v \in Verifiers, ver[v].at \in {"unused", "checked"},
                      spent'[AuthorizationOf[ver[v].pay]] # None
               PROVE  ver[v].began < ValidBefore[spent'[AuthorizationOf[ver[v].pay]]]
      BY Zenon, <1>1 DEF ReadIsRecent
  <2>1. ver[v].pay \in Payments /\ ver[v].began <= now /\ ver[v].began \in Nat /\ now \in Nat
      BY Zenon DEF ReadIsRecent, LifecycleTypeOK
  <2>2. CASE spent'[AuthorizationOf[ver[v].pay]] = p
    <3>1. ValidBefore[p] \in Nat
        BY Zenon, QuotaAssumption
    <3>2. ver[v].began < ValidBefore[p]
        BY <1>1, <2>1, <3>1
    <3> QED
        BY <2>2, <3>2
  <2>3. CASE spent'[AuthorizationOf[ver[v].pay]] = spent[AuthorizationOf[ver[v].pay]]
      BY Zenon, <2>3 DEF ReadIsRecent
  <2>4. AuthorizationOf[ver[v].pay] \in Authorizations
      BY Zenon, <2>1
  <2> QED
      BY Zenon, <1>2, <2>2, <2>3, <2>4
<1>7. RowsApart'
    BY <1>1 DEF RowsApart
<1> QED
    BY Zenon, <1>3, <1>4, <1>5, <1>6, <1>7

\* An intent that is resolved is in no transaction's hands and not redacted.
LEMMA ResolveInv ==
    ASSUME LifecycleInv, NEW p \in Payments, Resolve(p)
    PROVE  LifecycleInv'
<1> USE DEF LifecycleInv
<1>1. /\ UNCHANGED <<now, merchantOf, active, req, holder, ver, spent, redacted, scope>>
      /\ state[p] = "broadcasting"
      /\ state' = [state EXCEPT ![p] = IF spent[AuthorizationOf[p]] = p THEN "confirmed" ELSE "failed"]
    BY DEF Resolve
<1>2. /\ \A o \in Payments \ {p} : state'[o] = state[o]
      /\ state'[p] \in {"confirmed", "failed"}
      /\ state'[p] = "confirmed" => spent[AuthorizationOf[p]] = p
    BY Zenon, <1>1 DEF LifecycleTypeOK
<1>3. p \notin redacted
    BY <1>1 DEF RedactedIsOver
<1>4. LifecycleTypeOK'
    BY Zenon, <1>1 DEF LifecycleTypeOK, States
<1>5. LocksHold'
    BY <1>1, <1>2, LocksKeep
<1>6. RedactedIsOver'
    BY <1>1, <1>2, <1>3 DEF RedactedIsOver, LifecycleTypeOK
<1>7. ReadIsRecent'
    BY <1>1 DEF ReadIsRecent
<1>8. RowsApart'
    BY <1>1, <1>2, <1>3 DEF RowsApart
<1> QED
    BY <1>4, <1>5, <1>6, <1>7, <1>8

\* A suspension waits for the merchant's row.
LEMMA SuspendInv ==
    ASSUME LifecycleInv, NEW m \in Merchants, Suspend(m), UNCHANGED lifecycleVars
    PROVE  LifecycleInv'
<1> USE DEF LifecycleInv
<1>1. /\ UNCHANGED <<now, state, merchantOf, req, holder, ver, spent, redacted, scope>> /\ Free(m)
      /\ active' = IF m \in active THEN active \ {m} ELSE active \cup {m}
    BY DEF Suspend, lifecycleVars
<1>2. LifecycleTypeOK'
    BY <1>1 DEF LifecycleTypeOK
<1>3. LocksHold'
    BY <1>1, LocksKeep
<1>4. RedactedIsOver' /\ ReadIsRecent' /\ RowsApart'
    BY <1>1, RestKeeps
<1> QED
    BY <1>2, <1>3, <1>4

\* ApplyRetention skips what is locked; beside a payment that it redacts and
\* that was paid for, every other row of the authorization is redacted already.
LEMMA RetentionInv ==
    ASSUME LifecycleInv, ApplyRetention
    PROVE  LifecycleInv'
<1> USE DEF LifecycleInv
<1>1. /\ UNCHANGED <<now, active, req, holder, ver, spent, scope>>
      /\ state' = [p \in Payments |-> IF p \in Stale THEN "expired" ELSE state[p]]
      /\ merchantOf' = [p \in Payments |-> IF p \in Redactable THEN None ELSE merchantOf[p]]
      /\ redacted' = redacted \cup Redactable
    BY Zenon DEF ApplyRetention
<1>2. ASSUME NEW p \in Payments
      PROVE  /\ p \in Stale => state[p] = "verified" /\ Free(p) /\ state'[p] = "expired" /\ p \notin redacted
             /\ p \notin Stale => state'[p] = state[p]
             /\ p \in Redactable => /\ state[p] \in {"confirmed", "failed", "expired"} /\ p \notin redacted
                                    /\ ValidBefore[p] < now - PaymentRetention
             /\ p \notin Redactable => merchantOf'[p] = merchantOf[p]
    BY Zenon, <1>1 DEF Stale, Redactable, Old, RedactedIsOver
<1>3. LifecycleTypeOK'
    BY Zenon, <1>1 DEF LifecycleTypeOK, States, Redactable
<1>4. LocksHold'
    BY Zenon, <1>1, <1>2, LocksKeep
<1>5. RedactedIsOver'
    BY Zenon, <1>1, <1>2, <1>3 DEF RedactedIsOver, LifecycleTypeOK
<1>6. ReadIsRecent'
    BY Zenon, <1>1 DEF ReadIsRecent
<1>7. RowsApart'
  <2> SUFFICES ASSUME NEW p \in Payments, NEW q \in Payments, p # q,
                      AuthorizationOf[p] = AuthorizationOf[q],
                      state'[p] # "absent", state'[q] # "absent"
               PROVE  /\ p \in redacted' \/ q \in redacted'
                      /\ p \in redacted' /\ state'[p] = "confirmed" => q \in redacted'
      BY DEF RowsApart
  <2>1. state[p] # "absent" /\ state[q] # "absent"
      BY <1>2
  <2>2. p \in redacted \/ q \in redacted
      BY <2>1 DEF RowsApart
  <2>3. ASSUME p \in redacted, state'[p] = "confirmed" PROVE q \in redacted
      BY <2>1, <2>3, <1>2 DEF RowsApart
  <2> QED
      BY Zenon, <1>1, <1>2, <2>2, <2>3
<1> QED
    BY Zenon, <1>3, <1>4, <1>5, <1>6, <1>7

\* Time passes; no /verify outlives its time.
LEMMA TickInv ==
    ASSUME LifecycleInv, Tick
    PROVE  LifecycleInv'
<1> USE QuotaAssumption, RetentionAssumption DEF LifecycleInv
<1>1. /\ UNCHANGED <<state, merchantOf, active, req, holder, ver, spent, redacted, scope>>
      /\ now' = now + 1 /\ now \in Nat
      /\ \A v \in Verifiers : ver[v].pay # None => now - ver[v].began < VerifyTime
    BY Zenon DEF Tick, lifecycleVars, LifecycleTypeOK
<1>2. LifecycleTypeOK'
    BY <1>1 DEF LifecycleTypeOK
<1>3. LocksHold'
    BY <1>1, LocksKeep
<1>4. RedactedIsOver'
    BY <1>1 DEF RedactedIsOver, LifecycleTypeOK
<1>5. ReadIsRecent'
  <2>1. ASSUME NEW v \in Verifiers, ver[v].at \in {"parsed", "unused", "checked"}
        PROVE  ver[v].pay \in Payments /\ ver[v].began <= now + 1 /\ now + 1 <= ver[v].began + VerifyTime
    <3>1. ver[v].pay \in Payments /\ ver[v].began <= now /\ ver[v].began \in Nat
        BY <2>1 DEF ReadIsRecent, LifecycleTypeOK
    <3>2. now - ver[v].began < VerifyTime
        BY <1>1, <3>1
    <3>3. now \in Nat /\ VerifyTime \in Nat
        BY <1>1, RetentionAssumption
    <3>4. ver[v].began <= now + 1
        BY <3>1, <3>3
    <3>5. now + 1 <= ver[v].began + VerifyTime
        BY <3>1, <3>2, <3>3
    <3> QED
        BY <3>1, <3>4, <3>5
  <2> QED
      BY <1>1, <2>1 DEF ReadIsRecent
<1>6. RowsApart'
    BY <1>1 DEF RowsApart
<1> QED
    BY Zenon, <1>2, <1>3, <1>4, <1>5, <1>6

\* Every step keeps the invariant.
LEMMA NextInv == LifecycleInv /\ [Next]_vars => LifecycleInv'
<1> SUFFICES ASSUME LifecycleInv, [Next]_vars PROVE LifecycleInv'
    OBVIOUS
<1>1. /\ scope.payments \subseteq Payments /\ scope.resolved \subseteq Payments
      /\ scope.requests \subseteq Requests /\ scope.verifiers \subseteq Verifiers
      /\ scope.suspended \subseteq Merchants
    BY Zenon, ScopeAssumption DEF LifecycleInv, LifecycleTypeOK
<1>2. ASSUME NEW r \in scope.requests, Settle(r) PROVE LifecycleInv'
    BY <1>1, <1>2, SettleInv
<1>3. ASSUME NEW v \in scope.verifiers, Verify(v) PROVE LifecycleInv'
    BY <1>1, <1>3, VerifyInv
<1>4. ASSUME NEW p \in scope.resolved, Mine(p) \/ Resolve(p) PROVE LifecycleInv'
    BY <1>1, <1>4, MineInv, ResolveInv
<1>5. ASSUME NEW m \in scope.suspended, Suspend(m), UNCHANGED lifecycleVars PROVE LifecycleInv'
    BY <1>1, <1>5, SuspendInv
<1>6. CASE ApplyRetention
    BY <1>6, RetentionInv
<1>7. CASE Tick
    BY <1>7, TickInv
<1>8. CASE UNCHANGED vars
  <2>1. UNCHANGED <<now, state, merchantOf, active, req, holder, ver, spent, redacted, scope>>
      BY <1>8 DEF vars, admissionVars, lifecycleVars
  <2>2. LocksHold'
      BY <2>1, LocksKeep DEF LifecycleInv
  <2>3. LifecycleTypeOK' /\ RedactedIsOver' /\ ReadIsRecent' /\ RowsApart'
      BY <2>1, RestKeeps DEF LifecycleInv, LifecycleTypeOK
  <2> QED
      BY <2>2, <2>3 DEF LifecycleInv
<1> QED
    BY <1>2, <1>3, <1>4, <1>5, <1>6, <1>7, <1>8 DEF Next

\* The invariant of Verify, CreateSettlementIntent and ApplyRetention together.
THEOREM LifecycleInvariant == Spec => []LifecycleInv
<1> QED
    BY InitInv, NextInv, PTL DEF Spec

-----------------------------------------------------------------------------
\* Verify, the unique index and ApplyRetention: of the payments that rest on
\* one authorization at most one is, or can still be, settled.
THEOREM PaysOnce == Spec => []AuthorizationPaysOnce
<1>1. LifecycleInv => AuthorizationPaysOnce
  <2> SUFFICES ASSUME LifecycleInv, NEW p \in Payments, NEW q \in Payments, p # q,
                      AuthorizationOf[p] = AuthorizationOf[q], Live(p), Live(q)
               PROVE  FALSE
      BY DEF AuthorizationPaysOnce
  <2>1. /\ state[p] \in {"verified", "broadcasting", "confirmed"}
        /\ state[q] \in {"verified", "broadcasting", "confirmed"}
      BY DEF Live
  <2>2. ~(state[p] = "confirmed" /\ state[q] = "confirmed")
      BY DEF LifecycleInv, RedactedIsOver
  <2>3. \A o \in redacted : state[o] \in {"confirmed", "failed", "expired"}
      BY Zenon DEF LifecycleInv, RedactedIsOver
  <2>4. p \in redacted => q \in redacted
      BY <2>1, <2>3 DEF LifecycleInv, RowsApart
  <2>5. q \in redacted => p \in redacted
      BY <2>1, <2>3 DEF LifecycleInv, RowsApart
  <2>6. p \in redacted \/ q \in redacted
      BY Zenon, <2>1 DEF LifecycleInv, RowsApart
  <2> QED
      BY <2>1, <2>2, <2>3, <2>4, <2>5, <2>6
<1> QED
    BY <1>1, LifecycleInvariant, PTL

\* Only the commit of an intent stamps a payment.
LEMMA OnlyCommitStamps ==
    ASSUME LifecycleInv, Next, requestedAt' # requestedAt
    PROVE  \E r \in Requests : Commit(r)
<1>1. scope.requests \subseteq Requests
    BY ScopeAssumption DEF LifecycleInv, LifecycleTypeOK
<1> QED
    BY Zenon, <1>1 DEF Next, Settle, Work, Begin, LockPayment, LockMerchant, CountMerchant, LockGlobal,
                CountGlobal, AllocateNonce, Rollback, rejectSettlement, WriteNothing, Verify,
                ParseRequest, ReadContract, SchemeVerify, Unavailable, RecordVerification,
                Mine, Resolve, Suspend, ApplyRetention, Tick, admissionVars

\* CreateSettlementIntent: an intent commits only while its merchant is active.
THEOREM SuspensionIsEffective == Spec => SuspensionHolds
<1> DEFINE Typed == requestedAt = [p \in Payments |-> requestedAt[p]]
<1>1. Init => Typed
    BY DEF Init, AdmissionInit
<1>2. LifecycleInv /\ Typed /\ [Next]_vars => Typed'
  <2>1. ASSUME LifecycleInv, Typed, Next, requestedAt' # requestedAt PROVE Typed'
      BY Zenon, <2>1, OnlyCommitStamps DEF Commit
  <2> QED
      BY <2>1 DEF vars, admissionVars
<1>3. LifecycleInv /\ Typed /\ [Next]_vars => [SuspensionStep]_admissionVars
  <2> SUFFICES ASSUME LifecycleInv, Typed, [Next]_vars, NEW p \in Payments,
                      requestedAt'[p] # requestedAt[p]
               PROVE  merchantOf[p] \in active
      BY DEF SuspensionStep
  <2>1. PICK r \in Requests : Commit(r)
      BY OnlyCommitStamps DEF vars, admissionVars
  <2>2. req[r].at = "admitted" /\ requestedAt' = [requestedAt EXCEPT ![Payment(r)] = req[r].started]
      BY <2>1 DEF Commit, At
  <2>3. p = Payment(r)
      BY <2>2
  <2> QED
      BY <2>2, <2>3 DEF LifecycleInv, LocksHold, Merchant, Payment
<1> QED
    BY <1>1, <1>2, <1>3, LifecycleInvariant, PTL DEF Spec, SuspensionHolds
-----------------------------------------------------------------------------
(* The quotas.                                                              *)

\* The stamps of S in f: since s, in the window that ends at t, and all.
Since(f, S, s) == {p \in S : f[p] # None /\ f[p] > s - QuotaWindow}
Within(f, S, t) == {p \in S : f[p] # None /\ f[p] \in (t - QuotaWindow + 1)..t}
StampsIn(f, S) == {f[p] : p \in {q \in S : f[q] # None}}

\* One more stamp: where it falls into a window, that window holds nothing but
\* it and what its transaction counted; elsewhere nothing is added.
LEMMA OneMore ==
    ASSUME NEW f \in [Payments -> Nat \cup {None}], NEW pay \in Payments, NEW s \in Nat,
           NEW S \in SUBSET Payments, NEW T \in SUBSET Payments, T \ {pay} \subseteq S,
           NEW Q \in Nat, NEW t \in Nat,
           NEW g, g = [f EXCEPT ![pay] = s],
           Cardinality(Since(f, S, s)) < Q, t # s => Cardinality(Within(f, S, t)) <= Q
    PROVE  Cardinality(Within(g, T, t)) <= Q
<1> DEFINE recent == Since(f, S, s)
           before == Within(f, S, t)
           after == Within(g, T, t)
<1> USE DEF Since, Within
<1>1. QuotaWindow \in Nat \ {0} /\ IsFiniteSet(Payments)
    BY Zenon, QuotaAssumption
<1>2. g[pay] = s /\ \A p \in Payments : p # pay => g[p] = f[p]
    OBVIOUS
<1>3. recent \subseteq Payments /\ before \subseteq Payments
    OBVIOUS
<1>4. IsFiniteSet(recent) /\ IsFiniteSet(before)
    BY Zenon, <1>1, <1>3, FS_Subset
<1>5. CASE s \in (t - QuotaWindow + 1)..t
  <2>1. ASSUME NEW p \in after, p # pay PROVE p \in recent
    <3>1. p \in S /\ f[p] = g[p] /\ f[p] # None /\ f[p] \in (t - QuotaWindow + 1)..t /\ f[p] \in Nat
        BY <1>2, <2>1
    <3>2. f[p] > s - QuotaWindow
        BY <1>1, <1>5, <3>1
    <3> QED
        BY Zenon, <3>1, <3>2
  <2>2. after \subseteq recent \cup {pay}
      BY Zenon, <2>1
  <2> HIDE DEF recent, after
  <2>3. IsFiniteSet(recent \cup {pay}) /\ Cardinality(recent \cup {pay}) <= Cardinality(recent) + 1
        /\ Cardinality(recent) \in Nat
    <3>1. Cardinality(recent) \in Nat
        BY Zenon, <1>4, FS_CardinalityType
    <3>2. IsFiniteSet(recent \cup {pay})
          /\ Cardinality(recent \cup {pay}) = IF pay \in recent THEN Cardinality(recent) ELSE Cardinality(recent) + 1
        BY Zenon, <1>4, FS_AddElement
    <3> QED
        BY <3>1, <3>2
  <2>4. Cardinality(after) <= Cardinality(recent \cup {pay}) /\ IsFiniteSet(after)
      BY Zenon, <2>2, <2>3, FS_Subset
  <2>5. Cardinality(after) \in Nat /\ Cardinality(recent \cup {pay}) \in Nat
      BY Zenon, <2>3, <2>4, FS_CardinalityType
  <2>6. Cardinality(recent) < Q
      BY DEF recent
  <2>7. Cardinality(after) <= Q
      BY <2>3, <2>4, <2>5, <2>6
  <2> QED
      BY <2>7 DEF after
<1>6. CASE s \notin (t - QuotaWindow + 1)..t
  <2>1. t # s
      BY <1>1, <1>6
  <2>2. ASSUME NEW p \in after PROVE p \in before
    <3>1. p # pay
        BY Zenon, <1>2, <1>6
    <3>2. p \in S /\ f[p] = g[p]
        BY Zenon, <1>2, <3>1
    <3> QED
        BY Zenon, <3>2
  <2>3. Cardinality(before) <= Q
      BY <2>1
  <2>4. after \subseteq before
      BY Zenon, <2>2
  <2> HIDE DEF before, after
  <2>5. Cardinality(after) <= Cardinality(before) /\ IsFiniteSet(after)
      BY Zenon, <1>4, <2>4, FS_Subset
  <2>6. Cardinality(after) \in Nat /\ Cardinality(before) \in Nat
      BY Zenon, <1>4, <2>5, FS_CardinalityType
  <2>7. Cardinality(after) <= Q
      BY <2>3, <2>5, <2>6
  <2> QED
      BY <2>7 DEF after
<1> QED
    BY Zenon, <1>5, <1>6

\* What every step but a commit leaves of the intents there are.
Kept ==
    /\ requestedAt' = requestedAt /\ chargedTo' = chargedTo /\ redacted \subseteq redacted'
    /\ \A p \in Payments :
          /\ state[p] \notin {"absent", "verified"} =>
                /\ state'[p] \notin {"absent", "verified"}
                /\ p \in redacted' \/ merchantOf'[p] = merchantOf[p]
          /\ state[p] = "verified" => merchantOf'[p] = merchantOf[p]

\* A transaction that does not move keeps what it has counted.
LEMMA CountsKeep ==
    ASSUME LifecycleInv, QuotaInv, Kept, NEW r \in Requests, req'[r] = req[r], now' = now,
           holder[GlobalLock] = r => holder'[GlobalLock] = r
    PROVE  Counts(r)'
<1>1. Counts(r)
    BY Zenon DEF QuotaInv
<1>2. ASSUME req[r].at \in {"merchant", "counted", "global", "admitted"}
      PROVE  Payment(r)' = Payment(r) /\ Merchant(r)' = Merchant(r)
  <2>1. Payment(r) \in Payments /\ state[Payment(r)] = "verified"
      BY <1>2 DEF LifecycleInv, LocksHold, At
  <2> QED
      BY Zenon, <2>1 DEF Kept, Payment, Merchant
<1>3. Own(Merchant(r))' = {p \in Payments : chargedTo[p] = Merchant(r)'}
    BY Zenon DEF Own, Kept
<1>4. ASSUME req[r].at \in {"counted", "global", "admitted"}
      PROVE  (Cardinality(Recent(r, Own(Merchant(r)))) < Quota)'
  <2>1. Merchant(r)' = Merchant(r)
      BY <1>2, <1>4
  <2>2. Own(Merchant(r))' = Own(Merchant(r))
      BY Zenon, <1>3, <2>1 DEF Own
  <2>3. Recent(r, Own(Merchant(r)))' = Recent(r, Own(Merchant(r)))
      BY Zenon, <2>2 DEF Recent, Kept
  <2> QED
      BY Zenon, <1>1, <1>4, <2>3 DEF Counts
<1>5. Recent(r, Payments)' = Recent(r, Payments)
    BY Zenon DEF Recent, Kept
<1>6. (Open(r) => req[r].started <= now /\ now <= req[r].started + SettleTime)'
    BY Zenon, <1>1 DEF Counts, Open, At
<1>7. ASSUME req[r].at \in {"merchant", "counted", "global", "admitted"}
      PROVE  (req[r].started + ExpiryMargin < ValidBefore[Payment(r)])'
    BY Zenon, <1>1, <1>2, <1>7 DEF Counts
<1>8. /\ req[r].at \in {"global", "admitted"} => holder'[GlobalLock] = r
      /\ At(r, "admitted") => (Cardinality(Recent(r, Payments)) < GlobalQuota)'
    BY Zenon, <1>1, <1>5 DEF Counts
<1> QED
    BY Zenon, <1>4, <1>6, <1>7, <1>8 DEF Counts, At

\* It is enough to look at the transactions that move.
LEMMA QuotaKeeps ==
    ASSUME LifecycleInv, QuotaInv, Kept,
           \A r \in Requests :
               \/ Counts(r)'
               \/ /\ req'[r] = req[r] /\ now' = now
                  /\ holder[GlobalLock] = r => holder'[GlobalLock] = r
    PROVE  QuotaInv'
<1>1. ASSUME NEW p \in Payments, requestedAt'[p] # None PROVE Stamped(p)'
  <2>1. Stamped(p) /\ requestedAt'[p] = requestedAt[p] /\ chargedTo'[p] = chargedTo[p]
      BY Zenon, <1>1 DEF Kept, QuotaInv
  <2>2. p \in redacted => p \in redacted'
      BY Zenon DEF Kept
  <2> QED
      BY Zenon, <2>1, <2>2 DEF Kept, Stamped
<1>2. \A r \in Requests : Counts(r)'
    BY Zenon, CountsKeep
<1>3. MerchantQuotaHolds' /\ GlobalQuotaHolds'
  <2>1. \A m : Own(m)' = Own(m)
      BY Zenon DEF Own, Kept
  <2>2. requestedAt' = requestedAt
      BY Zenon DEF Kept
  <2>3. ASSUME NEW S PROVE Stamps(S)' = Stamps(S)
      BY Zenon, <2>2 DEF Stamps
  <2>4. ASSUME NEW S, NEW t PROVE Window(S, t)' = Window(S, t)
      BY Zenon, <2>2 DEF Window
  <2> QED
      BY Zenon, <2>1, <2>3, <2>4 DEF QuotaInv, MerchantQuotaHolds, GlobalQuotaHolds
<1>4. requestedAt' \in [Payments -> Nat \cup {None}] /\ chargedTo' = [p \in Payments |-> chargedTo'[p]]
    BY Zenon DEF QuotaInv, Kept
<1> QED
    BY Zenon, <1>1, <1>2, <1>3, <1>4 DEF QuotaInv

\* CountMerchant counts by the merchant a row names, and misses none that the
\* merchant was charged for: a row is redacted long after its window.
LEMMA NoneForgotten ==
    ASSUME LifecycleInv, QuotaInv, NEW r \in Requests, At(r, "merchant"),
           Cardinality(Recent(r, OfMerchant(Merchant(r)))) < Quota
    PROVE  Cardinality(Recent(r, Own(Merchant(r)))) < Quota
<1>1. /\ req[r].started \in Nat /\ now \in Nat /\ now <= req[r].started + SettleTime
    BY DEF LifecycleInv, LifecycleTypeOK, QuotaInv, Counts, Open, At
<1>2. /\ QuotaWindow \in Nat /\ ExpiryMargin \in Nat /\ PaymentRetention \in Nat /\ SettleTime \in Nat
      /\ QuotaWindow + SettleTime <= PaymentRetention + ExpiryMargin
      /\ ValidBefore \in [Payments -> Nat] /\ IsFiniteSet(Payments) /\ Quota \in Nat
    BY QuotaAssumption, RetentionAssumption
<1>3. ASSUME NEW p \in Recent(r, Own(Merchant(r))) PROVE p \in Recent(r, OfMerchant(Merchant(r)))
  <2>1. /\ p \in Payments /\ chargedTo[p] = Merchant(r) /\ requestedAt[p] # None
        /\ requestedAt[p] > req[r].started - QuotaWindow
      BY Zenon, <1>3 DEF Recent, Own
  <2>2. requestedAt[p] \in Nat /\ requestedAt[p] + ExpiryMargin < ValidBefore[p] /\ ValidBefore[p] \in Nat
        /\ (p \in redacted \/ merchantOf[p] = chargedTo[p])
      BY Zenon, <1>2, <2>1 DEF QuotaInv, Stamped
  <2>3. p \notin redacted
    <3>1. p \in redacted => ValidBefore[p] < now - PaymentRetention
        BY Zenon DEF LifecycleInv, RedactedIsOver
    <3> QED
        BY <1>1, <1>2, <2>1, <2>2, <3>1
  <2> QED
      BY Zenon, <2>1, <2>2, <2>3 DEF Recent, OfMerchant
<1> DEFINE own == Recent(r, Own(Merchant(r)))
           named == Recent(r, OfMerchant(Merchant(r)))
<1>4. own \subseteq named
    BY Zenon, <1>3
<1>5. named \subseteq Payments
    BY Zenon DEF Recent, OfMerchant
<1>6. Cardinality(named) < Quota
    OBVIOUS
<1> HIDE DEF own, named
<1>7. IsFiniteSet(named)
    BY Zenon, <1>2, <1>5, FS_Subset
<1>8. IsFiniteSet(own) /\ Cardinality(own) <= Cardinality(named)
    BY Zenon, <1>4, <1>7, FS_Subset
<1>9. Cardinality(own) \in Nat /\ Cardinality(named) \in Nat
    BY Zenon, <1>7, <1>8, FS_CardinalityType
<1>10. Cardinality(own) < Quota
    BY <1>2, <1>6, <1>8, <1>9
<1> QED
    BY <1>10 DEF own

\* The steps of a transaction that write nothing: what the one that moves has
\* seen, the others keep.
LEMMA MoveQuota ==
    ASSUME LifecycleInv, QuotaInv, NEW r \in Requests, WriteNothing, redacted' = redacted, Counts(r)',
           \A s \in Requests : s # r => req'[s] = req[s] /\ (holder[GlobalLock] = s => holder'[GlobalLock] = s)
    PROVE  QuotaInv'
<1>1. Kept /\ now' = now
    BY Zenon DEF Kept, WriteNothing, Elsewhere
<1> QED
    BY Zenon, <1>1, QuotaKeeps

\* The end of a transaction.
LEMMA ReleaseQuota ==
    ASSUME LifecycleInv, NEW r \in Requests, Release(r)
    PROVE  /\ Counts(r)'
           /\ \A s \in Requests : s # r => req'[s] = req[s] /\ (holder[GlobalLock] = s => holder'[GlobalLock] = s)
<1>1. /\ req' = [req EXCEPT ![r].at = "done"] /\ GlobalLock \in Locks
      /\ holder' = [lock \in Locks |-> IF holder[lock] = r THEN None ELSE holder[lock]]
    BY Zenon DEF Release, Go, Locks
<1>2. req'[r].at = "done"
    BY <1>1 DEF LifecycleInv, LifecycleTypeOK
<1>3. Counts(r)'
    BY <1>2 DEF Counts, Open, At
<1>4. \A s \in Requests : s # r => req'[s] = req[s]
    BY Zenon, <1>1 DEF LifecycleInv, LifecycleTypeOK
<1>5. \A s \in Requests : s # r /\ holder[GlobalLock] = s => holder'[GlobalLock] = s
    BY Zenon, <1>1
<1> QED
    BY Zenon, <1>3, <1>4, <1>5

\* A step inside one: its request, and at most one free lock.
LEMMA GoQuota ==
    ASSUME LifecycleInv, NEW r \in Requests, NEW step, Go(r, step), NEW lock \in Locks,
           holder' = holder \/ Take(r, lock)
    PROVE  /\ req'[r].at = step /\ req'[r].pay = req[r].pay /\ req'[r].started = req[r].started
           /\ \A s \in Requests : s # r => req'[s] = req[s] /\ (holder[GlobalLock] = s => holder'[GlobalLock] = s)
<1>1. req' = [req EXCEPT ![r].at = step] /\ req \in [Requests -> [pay : Payments \cup {None}, at : Steps, started : Nat]]
    BY Zenon DEF Go, LifecycleInv, LifecycleTypeOK
<1>2. req'[r].at = step /\ req'[r].pay = req[r].pay /\ req'[r].started = req[r].started
    BY <1>1
<1>3. \A s \in Requests : s # r => req'[s] = req[s]
    BY Zenon, <1>1
<1>4. \A s \in Requests : holder[GlobalLock] = s => holder'[GlobalLock] = s
  <2>1. holder \in [Locks -> Requests \cup {None}] /\ GlobalLock \in Locks /\ None \notin Requests
      BY Zenon, QuotaAssumption DEF LifecycleInv, LifecycleTypeOK, Locks
  <2>2. CASE holder[lock] = None /\ holder' = [holder EXCEPT ![lock] = r]
      BY <2>1, <2>2
  <2> QED
      BY Zenon, <2>2 DEF Take, Free
<1> QED
    BY Zenon, <1>2, <1>3, <1>4

\* Every step of a transaction but its commit.
LEMMA WorkQuota ==
    ASSUME LifecycleInv, QuotaInv, NEW r \in Requests, redacted' = redacted,
           \/ \E p \in Payments : Begin(r, p)
           \/ LockPayment(r) \/ LockMerchant(r) \/ CountMerchant(r)
           \/ LockGlobal(r) \/ CountGlobal(r) \/ AllocateNonce(r) \/ Rollback(r)
    PROVE  QuotaInv'
<1>0. Counts(r) /\ req \in [Requests -> [pay : Payments \cup {None}, at : Steps, started : Nat]] /\ now \in Nat
    BY Zenon DEF QuotaInv, LifecycleInv, LifecycleTypeOK
<1>1. ASSUME Release(r), WriteNothing PROVE QuotaInv'
    BY Zenon, <1>1, ReleaseQuota, MoveQuota
<1>2. ASSUME NEW p \in Payments, Begin(r, p) PROVE QuotaInv'
  <2>1. /\ WriteNothing /\ holder' = holder /\ now' = now
        /\ req' = [req EXCEPT ![r] = [pay |-> p, at |-> "begun", started |-> now]]
      BY Zenon, <1>2 DEF Begin, WriteNothing, Elsewhere
  <2>2. req'[r].at = "begun" /\ req'[r].started = now
      BY <1>0, <2>1
  <2>3. Counts(r)'
      BY <1>0, <2>1, <2>2, RetentionAssumption DEF Counts, Open, At
  <2>4. \A s \in Requests : s # r => req'[s] = req[s]
      BY Zenon, <1>0, <2>1
  <2> QED
      BY Zenon, <2>1, <2>3, <2>4, MoveQuota
<1>3. ASSUME Open(r), NEW step, Go(r, step), NEW lock \in Locks, holder' = holder \/ Take(r, lock), WriteNothing,
             step \in {"merchant", "counted", "global", "admitted"} =>
                 req[r].started + ExpiryMargin < ValidBefore[Payment(r)],
             step \in {"counted", "global", "admitted"} => Cardinality(Recent(r, Own(Merchant(r)))) < Quota,
             step \in {"global", "admitted"} => holder'[GlobalLock] = r,
             step = "admitted" => Cardinality(Recent(r, Payments)) < GlobalQuota
      PROVE  QuotaInv'
  <2>1. /\ req'[r].at = step /\ req'[r].pay = req[r].pay /\ req'[r].started = req[r].started
        /\ \A s \in Requests : s # r => req'[s] = req[s] /\ (holder[GlobalLock] = s => holder'[GlobalLock] = s)
      BY Zenon, <1>3, GoQuota
  <2>2. now' = now /\ requestedAt' = requestedAt /\ chargedTo' = chargedTo /\ merchantOf' = merchantOf
      BY Zenon, <1>3 DEF WriteNothing, Elsewhere
  <2>3. Payment(r)' = Payment(r) /\ Merchant(r)' = Merchant(r)
      BY Zenon, <2>1, <2>2 DEF Payment, Merchant
  <2>4. Own(Merchant(r))' = Own(Merchant(r))
      BY Zenon, <2>2, <2>3 DEF Own
  <2>5. Recent(r, Own(Merchant(r)))' = Recent(r, Own(Merchant(r))) /\ Recent(r, Payments)' = Recent(r, Payments)
      BY Zenon, <2>1, <2>2, <2>4 DEF Recent
  <2>6. Counts(r)'
      BY Zenon, <1>0, <1>3, <2>1, <2>2, <2>3, <2>5 DEF Counts, At
  <2> QED
      BY Zenon, <1>3, <2>1, <2>6, MoveQuota
<1>4. Payment(r) \in Locks \/ At(r, "new")
    BY Zenon DEF LifecycleInv, LocksHold, Locks
<1>5. GlobalLock \in Locks /\ SignerRow \in Locks
    BY Zenon DEF Locks
\* Which of the four claims of <1>3 a step makes.
<1>steps.
      /\ "payment" \notin {"merchant", "counted", "global", "admitted"}
      /\ \A step \in {"payment", "merchant"} : step \notin {"counted", "global", "admitted"}
      /\ \A step \in {"payment", "merchant", "counted"} : step \notin {"global", "admitted"}
      /\ \A step \in {"payment", "merchant", "counted", "global"} : step # "admitted"
    OBVIOUS
<1>6. CASE LockPayment(r)
  <2>1. At(r, "begun") /\ WriteNothing
        /\ (Release(r) \/ (Take(r, Payment(r)) /\ Go(r, "payment")))
      BY Zenon, <1>6 DEF LockPayment
  <2>2. Open(r) /\ ~At(r, "new")
      BY Zenon, <2>1 DEF Open, At
  <2>3. ASSUME Take(r, Payment(r)), Go(r, "payment") PROVE QuotaInv'
      BY Zenon, <1>steps, <1>3, <1>4, <2>1, <2>2, <2>3
  <2> QED
      BY Zenon, <1>1, <2>1, <2>3
<1>7. CASE LockMerchant(r)
  <2>1. /\ At(r, "payment")
        /\ \/ rejectSettlement(r)
           \/ /\ Merchant(r) \in active /\ ValidBefore[Payment(r)] > req[r].started + ExpiryMargin
              /\ Take(r, Merchant(r)) /\ Go(r, "merchant") /\ WriteNothing
      BY Zenon, <1>7 DEF LockMerchant
  <2>2. Open(r) /\ ~At(r, "new")
      BY Zenon, <2>1 DEF Open, At
  <2>3. ASSUME Merchant(r) \in active, ValidBefore[Payment(r)] > req[r].started + ExpiryMargin,
               Take(r, Merchant(r)), Go(r, "merchant"), WriteNothing
        PROVE  QuotaInv'
    <3>1. Merchant(r) \in Locks
        BY Zenon, <2>3 DEF Locks, LifecycleInv, LifecycleTypeOK
    <3>2. req[r].started + ExpiryMargin < ValidBefore[Payment(r)]
      <4>1. Payment(r) \in Payments
          BY Zenon, <2>2 DEF LifecycleInv, LocksHold
      <4>2. ValidBefore[Payment(r)] \in Nat /\ ExpiryMargin \in Nat /\ req[r].started \in Nat
          BY <1>0, <4>1, QuotaAssumption
      <4> QED
          BY Zenon, <2>3, <4>2
    <3> QED
        BY Zenon, <1>steps, <1>3, <2>2, <2>3, <3>1, <3>2
  <2> QED
      BY Zenon, <1>1, <2>1, <2>3 DEF rejectSettlement
<1>8. CASE CountMerchant(r)
  <2>1. /\ At(r, "merchant")
        /\ \/ rejectSettlement(r)
           \/ /\ ~ (Cardinality(Recent(r, OfMerchant(Merchant(r)))) >= Quota)
              /\ Go(r, "counted") /\ holder' = holder /\ WriteNothing
      BY Zenon, <1>8 DEF CountMerchant
  <2>2. Open(r) /\ req[r].started + ExpiryMargin < ValidBefore[Payment(r)]
      BY <1>0, <2>1 DEF Open, At, Counts
  <2>3. ASSUME ~ (Cardinality(Recent(r, OfMerchant(Merchant(r)))) >= Quota),
               Go(r, "counted"), holder' = holder, WriteNothing
        PROVE  QuotaInv'
    <3>1. OfMerchant(Merchant(r)) \subseteq Payments /\ Recent(r, OfMerchant(Merchant(r))) \subseteq Payments
        BY Zenon DEF OfMerchant, Recent
    <3>2. IsFiniteSet(Recent(r, OfMerchant(Merchant(r))))
        BY Zenon, <3>1, FS_Subset, QuotaAssumption
    <3>3. Cardinality(Recent(r, OfMerchant(Merchant(r)))) \in Nat
        BY Zenon, <3>2, FS_CardinalityType
    <3>4. Cardinality(Recent(r, OfMerchant(Merchant(r)))) < Quota
        BY <2>3, <3>3, QuotaAssumption
    <3>5. Cardinality(Recent(r, Own(Merchant(r)))) < Quota
        BY Zenon, <2>1, <3>4, NoneForgotten
    <3> QED
        BY Zenon, <1>steps, <1>3, <1>5, <2>2, <2>3, <3>5
  <2> QED
      BY Zenon, <1>1, <2>1, <2>3 DEF rejectSettlement
<1>9. CASE LockGlobal(r)
  <2>1. At(r, "counted") /\ Take(r, GlobalLock) /\ Go(r, "global") /\ WriteNothing
      BY Zenon, <1>9 DEF LockGlobal
  <2>2. Open(r) /\ req[r].started + ExpiryMargin < ValidBefore[Payment(r)]
        /\ Cardinality(Recent(r, Own(Merchant(r)))) < Quota
      BY <1>0, <2>1 DEF Open, At, Counts
  <2>3. holder'[GlobalLock] = r
      BY Zenon, <1>5, <2>1 DEF Take, LifecycleInv, LifecycleTypeOK
  <2> QED
      BY Zenon, <1>steps, <1>3, <1>5, <2>1, <2>2, <2>3
<1>10. CASE CountGlobal(r)
  <2>1. /\ At(r, "global")
        /\ \/ rejectSettlement(r)
           \/ /\ ~ (Cardinality(Recent(r, Payments)) >= GlobalQuota)
              /\ Go(r, "admitted") /\ holder' = holder /\ WriteNothing
      BY Zenon, <1>10 DEF CountGlobal
  <2>2. /\ Open(r) /\ req[r].started + ExpiryMargin < ValidBefore[Payment(r)]
        /\ Cardinality(Recent(r, Own(Merchant(r)))) < Quota /\ holder[GlobalLock] = r
      BY <1>0, <2>1 DEF Open, At, Counts
  <2>3. ASSUME ~ (Cardinality(Recent(r, Payments)) >= GlobalQuota),
               Go(r, "admitted"), holder' = holder, WriteNothing
        PROVE  QuotaInv'
    <3>1. Recent(r, Payments) \subseteq Payments
        BY Zenon DEF Recent
    <3>2. IsFiniteSet(Recent(r, Payments))
        BY Zenon, <3>1, FS_Subset, QuotaAssumption
    <3>3. Cardinality(Recent(r, Payments)) \in Nat
        BY Zenon, <3>2, FS_CardinalityType
    <3>4. Cardinality(Recent(r, Payments)) < GlobalQuota
        BY <2>3, <3>3, QuotaAssumption
    <3> QED
        BY Zenon, <1>3, <1>5, <2>2, <2>3, <3>4
  <2> QED
      BY Zenon, <1>1, <2>1, <2>3 DEF rejectSettlement
<1>11. CASE AllocateNonce(r)
  <2>1. At(r, "admitted") /\ Take(r, SignerRow) /\ req' = req /\ WriteNothing
      BY Zenon, <1>11 DEF AllocateNonce
  <2>2. Go(r, "admitted")
      BY <1>0, <2>1 DEF Go, At
  <2>3. /\ Open(r) /\ req[r].started + ExpiryMargin < ValidBefore[Payment(r)]
        /\ Cardinality(Recent(r, Own(Merchant(r)))) < Quota /\ holder[GlobalLock] = r
        /\ Cardinality(Recent(r, Payments)) < GlobalQuota
      BY <1>0, <2>1 DEF Open, At, Counts
  <2>4. holder'[GlobalLock] = r
      BY Zenon, <1>5, <2>1, <2>3 DEF Take, LifecycleInv, LifecycleTypeOK
  <2> QED
      BY Zenon, <1>3, <1>5, <2>1, <2>2, <2>3, <2>4
<1>12. CASE Rollback(r)
    BY Zenon, <1>1, <1>12 DEF Rollback
<1> QED
    BY Zenon, <1>2, <1>6, <1>7, <1>8, <1>9, <1>10, <1>11, <1>12

\* A commit adds to the windows what its transaction counted, under the locks
\* that keep every other commit of the merchant, and of anybody, away.
LEMMA CommitQuota ==
    ASSUME LifecycleInv, QuotaInv, NEW r \in Requests, Commit(r), redacted' = redacted
    PROVE  QuotaInv'
<1>1. PICK pay \in Payments, m \in Merchants, s \in Nat :
         /\ pay = Payment(r) /\ m = Merchant(r) /\ s = req[r].started
         /\ state[pay] = "verified" /\ holder[m] = r /\ holder[GlobalLock] = r
  <2>1. At(r, "admitted") /\ ~At(r, "new") /\ Counts(r)
      BY DEF Commit, At, QuotaInv
  <2>2. /\ Payment(r) \in Payments /\ state[Payment(r)] = "verified"
        /\ Merchant(r) \in active /\ holder[Merchant(r)] = r
      BY <2>1 DEF LifecycleInv, LocksHold, At
  <2>3. Merchant(r) \in Merchants /\ req[r].started \in Nat
      BY <2>2 DEF LifecycleInv, LifecycleTypeOK
  <2>4. holder[GlobalLock] = r
      BY <2>1 DEF Counts, At
  <2> QED
      BY Zenon, <2>2, <2>3, <2>4
<1>2. /\ s + ExpiryMargin < ValidBefore[pay]
      /\ Cardinality(Recent(r, Own(m))) < Quota /\ Cardinality(Recent(r, Payments)) < GlobalQuota
    BY <1>1 DEF QuotaInv, Counts, Commit, At
<1>3. /\ state' = [state EXCEPT ![pay] = "broadcasting"]
      /\ requestedAt' = [requestedAt EXCEPT ![pay] = s] /\ chargedTo' = [chargedTo EXCEPT ![pay] = m]
      /\ Release(r) /\ now' = now /\ merchantOf' = merchantOf
    BY Zenon, <1>1 DEF Commit, Elsewhere
<1>4. /\ requestedAt \in [Payments -> Nat \cup {None}] /\ chargedTo = [p \in Payments |-> chargedTo[p]]
      /\ state \in [Payments -> States] /\ redacted' = redacted
    BY Zenon DEF QuotaInv, LifecycleInv, LifecycleTypeOK
<1>5. /\ state'[pay] = "broadcasting" /\ requestedAt'[pay] = s /\ chargedTo'[pay] = m
      /\ \A p \in Payments : p # pay =>
            state'[p] = state[p] /\ requestedAt'[p] = requestedAt[p] /\ chargedTo'[p] = chargedTo[p]
    BY Zenon, <1>3, <1>4
<1>6. requestedAt[pay] = None
    BY Zenon, <1>1 DEF QuotaInv, Stamped
<1>7. requestedAt' \in [Payments -> Nat \cup {None}] /\ chargedTo' = [p \in Payments |-> chargedTo'[p]]
    BY Zenon, <1>3, <1>4
<1>8. ASSUME NEW p \in Payments, requestedAt'[p] # None PROVE Stamped(p)'
  <2>1. CASE p = pay
    <3>1. state'[p] \notin {"absent", "verified"}
        BY <1>5, <2>1
    <3>2. merchantOf'[p] = chargedTo'[p]
        BY Zenon, <1>1, <1>3, <1>5, <2>1 DEF Merchant, Payment
    <3>3. requestedAt'[p] + ExpiryMargin < ValidBefore[p]
        BY Zenon, <1>2, <1>5, <2>1
    <3> QED
        BY Zenon, <3>1, <3>2, <3>3 DEF Stamped
  <2>2. CASE p # pay
    <3>1. state'[p] = state[p] /\ requestedAt'[p] = requestedAt[p] /\ chargedTo'[p] = chargedTo[p]
          /\ merchantOf'[p] = merchantOf[p]
        BY Zenon, <1>3, <1>5, <2>2
    <3>2. Stamped(p)
        BY Zenon, <1>8, <3>1 DEF QuotaInv
    <3> QED
        BY Zenon, <1>4, <3>1, <3>2 DEF Stamped
  <2> QED
      BY Zenon, <2>1, <2>2
<1>9. ASSUME NEW o \in Requests PROVE Counts(o)'
  <2>1. CASE o = r
      BY Zenon, <1>3, <2>1, ReleaseQuota
  <2>2. CASE o # r
    <3>1. req'[o] = req[o] /\ (holder[GlobalLock] = o => holder'[GlobalLock] = o) /\ Counts(o)
        BY Zenon, <1>3, <2>2, ReleaseQuota DEF QuotaInv
    <3>2. Payment(o)' = Payment(o) /\ Merchant(o)' = Merchant(o)
        BY Zenon, <1>3, <3>1 DEF Payment, Merchant
    <3>3. ~(req[o].at \in {"global", "admitted"}) /\ ~At(o, "admitted")
        BY <1>1, <2>2, <3>1 DEF Counts, At
    <3>4. ASSUME req[o].at \in {"counted", "global", "admitted"}
          PROVE  (Cardinality(Recent(o, Own(Merchant(o)))) < Quota)'
      <4>1. Merchant(o) # m
          BY <1>1, <2>2, <3>4 DEF LifecycleInv, LocksHold
      <4>2. ASSUME NEW p
            PROVE  p \in Recent(o, Own(Merchant(o)))' <=> p \in Recent(o, Own(Merchant(o)))
        <5>1. CASE p = pay
          <6>1. p \notin Own(Merchant(o))'
              BY Zenon, <1>5, <3>2, <4>1, <5>1 DEF Own
          <6> QED
              BY Zenon, <1>6, <5>1, <6>1 DEF Recent
        <5>2. CASE p # pay
          <6>1. p \in Own(Merchant(o))' <=> p \in Own(Merchant(o))
              BY Zenon, <1>5, <3>2, <5>2 DEF Own
          <6>2. p \in Own(Merchant(o)) => requestedAt'[p] = requestedAt[p]
              BY Zenon, <1>5, <5>2 DEF Own
          <6> QED
              BY Zenon, <3>1, <6>1, <6>2 DEF Recent
        <5> QED
            BY Zenon, <5>1, <5>2
      <4>3. Recent(o, Own(Merchant(o)))' = Recent(o, Own(Merchant(o)))
          BY Zenon, <4>2
      <4> QED
          BY Zenon, <3>1, <3>4, <4>3 DEF Counts
    <3>5. (Open(o) => req[o].started <= now /\ now <= req[o].started + SettleTime)'
        BY Zenon, <1>3, <3>1 DEF Counts, Open, At
    <3>6. ASSUME req[o].at \in {"merchant", "counted", "global", "admitted"}
          PROVE  (req[o].started + ExpiryMargin < ValidBefore[Payment(o)])'
        BY Zenon, <3>1, <3>2, <3>6 DEF Counts
    <3> QED
        BY Zenon, <3>1, <3>3, <3>4, <3>5, <3>6 DEF Counts, At
  <2> QED
      BY Zenon, <2>1, <2>2
<1>10. Quota \in Nat /\ GlobalQuota \in Nat
    BY Zenon, QuotaAssumption
\* The windows of a set S, of which pay is or becomes a member.
<1>11. ASSUME NEW S \in SUBSET Payments, NEW T \in SUBSET Payments, T \ {pay} \subseteq S, NEW Q \in Nat,
              Cardinality(Since(requestedAt, S, s)) < Q,
              \A t \in StampsIn(requestedAt, S) : Cardinality(Within(requestedAt, S, t)) <= Q,
              NEW t \in StampsIn(requestedAt', T)
       PROVE  Cardinality(Within(requestedAt', T, t)) <= Q
  <2>1. PICK q \in T : requestedAt'[q] # None /\ t = requestedAt'[q]
      BY Zenon, <1>11 DEF StampsIn
  <2>2. t \in Nat
    <3>1. q \in Payments
        BY Zenon
    <3> QED
        BY Zenon, <1>7, <2>1, <3>1
  <2>3. ASSUME t # s PROVE Cardinality(Within(requestedAt, S, t)) <= Q
    <3>1. q # pay /\ q \in S /\ q \in Payments
        BY Zenon, <1>5, <1>11, <2>1, <2>3
    <3>2. requestedAt[q] = t /\ requestedAt[q] # None
        BY Zenon, <1>5, <2>1, <3>1
    <3>3. t \in StampsIn(requestedAt, S)
        BY Zenon, <3>1, <3>2 DEF StampsIn
    <3> QED
        BY Zenon, <1>11, <3>3
  <2> QED
      BY Zenon, <1>1, <1>3, <1>4, <1>11, <2>2, <2>3, OneMore
<1>12. GlobalQuotaHolds'
  <2>1. \A t \in StampsIn(requestedAt, Payments) : Cardinality(Within(requestedAt, Payments, t)) <= GlobalQuota
      BY Zenon DEF QuotaInv, GlobalQuotaHolds, Stamps, Window, StampsIn, Within
  <2>2. Cardinality(Since(requestedAt, Payments, s)) < GlobalQuota
      BY Zenon, <1>1, <1>2 DEF Recent, Since
  <2>3. \A t \in StampsIn(requestedAt', Payments) : Cardinality(Within(requestedAt', Payments, t)) <= GlobalQuota
      BY Zenon, <1>10, <1>11, <2>1, <2>2
  <2> QED
      BY Zenon, <2>3 DEF GlobalQuotaHolds, Stamps, Window, StampsIn, Within
<1>13. MerchantQuotaHolds'
  <2> SUFFICES ASSUME NEW n \in Merchants, NEW t \in Stamps(Own(n))'
               PROVE  Cardinality(Window(Own(n), t)') <= Quota
      BY Zenon DEF MerchantQuotaHolds
  <2>1. PICK S \in SUBSET Payments, T \in SUBSET Payments : S = Own(n) /\ T = Own(n)'
      BY Zenon DEF Own
  <2>2. T \ {pay} \subseteq S
      BY Zenon, <1>5, <2>1 DEF Own
  <2>3. \A u \in StampsIn(requestedAt, S) : Cardinality(Within(requestedAt, S, u)) <= Quota
      BY Zenon, <2>1 DEF QuotaInv, MerchantQuotaHolds, Stamps, Window, StampsIn, Within
  <2>4. t \in StampsIn(requestedAt', T)
      BY Zenon, <2>1 DEF Stamps, StampsIn
  <2>5. Window(Own(n), t)' = Within(requestedAt', T, t)
      BY Zenon, <2>1 DEF Window, Within
  <2>6. CASE n = m
    <3>1. Cardinality(Since(requestedAt, S, s)) < Quota
        BY Zenon, <1>1, <1>2, <2>1, <2>6 DEF Recent, Since
    <3> QED
        BY Zenon, <1>10, <1>11, <2>1, <2>2, <2>3, <2>4, <2>5, <3>1
  <2>7. CASE n # m
    <3>1. pay \notin T
        BY Zenon, <1>5, <2>1, <2>7 DEF Own
    <3>2. \A p \in T : p \in S /\ requestedAt'[p] = requestedAt[p]
        BY Zenon, <1>5, <2>2, <3>1
    <3>3. t \in StampsIn(requestedAt, S)
        BY Zenon, <2>4, <3>2 DEF StampsIn
    <3>4. PICK before, after : before = Within(requestedAt, S, t) /\ after = Within(requestedAt', T, t)
        BY Zenon
    <3>5. after \subseteq before /\ before \subseteq Payments
        BY Zenon, <3>2, <3>4 DEF Within
    <3>6. IsFiniteSet(before)
        BY Zenon, <3>5, FS_Subset, QuotaAssumption
    <3>7. IsFiniteSet(after) /\ Cardinality(after) <= Cardinality(before)
        BY Zenon, <3>5, <3>6, FS_Subset
    <3>8. Cardinality(after) \in Nat /\ Cardinality(before) \in Nat
        BY Zenon, <3>6, <3>7, FS_CardinalityType
    <3>9. Cardinality(before) <= Quota
        BY Zenon, <2>3, <3>3, <3>4
    <3>10. Cardinality(after) <= Quota
        BY <1>10, <3>7, <3>8, <3>9
    <3> QED
        BY Zenon, <2>5, <3>4, <3>10
  <2> QED
      BY Zenon, <2>6, <2>7
<1> QED
    BY Zenon, <1>7, <1>8, <1>9, <1>12, <1>13 DEF QuotaInv

\* The rest leaves the intents, and the transactions, as they are.
LEMMA OthersQuota ==
    ASSUME LifecycleInv, QuotaInv, [Next]_vars, \A r \in scope.requests : ~Settle(r)
    PROVE  QuotaInv'
<1>1. scope.payments \subseteq Payments /\ scope.resolved \subseteq Payments /\ scope.verifiers \subseteq Verifiers
    BY Zenon, ScopeAssumption DEF LifecycleInv, LifecycleTypeOK
<1>2. state \in [Payments -> States] /\ merchantOf = [p \in Payments |-> merchantOf[p]]
    BY Zenon DEF LifecycleInv, LifecycleTypeOK
<1>3. ASSUME Kept, req' = req, holder' = holder, now' = now PROVE QuotaInv'
    BY Zenon, <1>3, QuotaKeeps
<1>4. ASSUME UNCHANGED <<requestedAt, chargedTo, state, merchantOf, redacted>> PROVE Kept
    BY Zenon, <1>4 DEF Kept
<1>5. ASSUME NEW v \in scope.verifiers, Verify(v) PROVE QuotaInv'
  <2>1. CASE UNCHANGED <<admissionVars, spent, updatedAt, redacted, scope>>
    <3>1. UNCHANGED <<requestedAt, chargedTo, state, merchantOf, redacted, req, holder, now>>
        BY Zenon, <2>1 DEF admissionVars
    <3> QED
        BY Zenon, <1>3, <1>4, <3>1
  <2>2. CASE RecordVerification(v)
    <3>1. UNCHANGED <<now, requestedAt, chargedTo, req, holder, redacted>> /\ recordVerification(ver[v].pay)
        BY Zenon, <2>2 DEF RecordVerification
    <3>2. PICK p : p = ver[v].pay
        BY Zenon
    <3>3. CASE UNCHANGED <<state, merchantOf>>
        BY Zenon, <1>3, <1>4, <3>1, <3>3
    <3>4. CASE /\ state[p] = "absent" /\ state' = [state EXCEPT ![p] = "verified"]
               /\ merchantOf' = [merchantOf EXCEPT ![p] = Claimant(p)]
      <4>1. \A q \in Payments : q # p => state'[q] = state[q] /\ merchantOf'[q] = merchantOf[q]
          BY Zenon, <1>2, <3>4
      <4>2. \A q \in Payments : state[q] # "absent" => q # p
          BY Zenon, <3>4
      <4>3. Kept
          BY Zenon, <3>1, <4>1, <4>2 DEF Kept
      <4> QED
          BY Zenon, <1>3, <3>1, <4>3
    <3> QED
        BY Zenon, <3>1, <3>2, <3>3, <3>4 DEF recordVerification
  <2> QED
      BY Zenon, <1>5, <2>1, <2>2 DEF Verify, ParseRequest, ReadContract, SchemeVerify, Unavailable
<1>6. ASSUME NEW p \in Payments, Mine(p) PROVE QuotaInv'
  <2>1. UNCHANGED <<requestedAt, chargedTo, state, merchantOf, redacted, req, holder, now>>
      BY Zenon, <1>6 DEF Mine, admissionVars
  <2> QED
      BY Zenon, <1>3, <1>4, <2>1
<1>7. ASSUME NEW p \in Payments, Resolve(p) PROVE QuotaInv'
  <2>1. /\ UNCHANGED <<requestedAt, chargedTo, merchantOf, redacted, req, holder, now>>
        /\ state' = [state EXCEPT ![p] = IF spent[AuthorizationOf[p]] = p THEN "confirmed" ELSE "failed"]
      BY Zenon, <1>7 DEF Resolve
  <2>2. \A q \in Payments : state'[q] = state[q] \/ state'[q] \in {"confirmed", "failed"}
      BY Zenon, <1>2, <2>1
  <2>3. Kept
      BY <2>1, <2>2, Zenon DEF Kept
  <2> QED
      BY Zenon, <1>3, <2>1, <2>3
<1>8. ASSUME NEW m, Suspend(m), UNCHANGED lifecycleVars PROVE QuotaInv'
  <2>1. UNCHANGED <<requestedAt, chargedTo, state, merchantOf, redacted, req, holder, now>>
      BY Zenon, <1>8 DEF Suspend, lifecycleVars
  <2> QED
      BY Zenon, <1>3, <1>4, <2>1
<1>9. CASE ApplyRetention
  <2>1. /\ UNCHANGED <<requestedAt, chargedTo, req, holder, now>> /\ redacted' = redacted \cup Redactable
        /\ state' = [p \in Payments |-> IF p \in Stale THEN "expired" ELSE state[p]]
        /\ merchantOf' = [p \in Payments |-> IF p \in Redactable THEN None ELSE merchantOf[p]]
      BY Zenon, <1>9 DEF ApplyRetention
  <2>2. ASSUME NEW p \in Payments
        PROVE  /\ state'[p] = state[p] \/ state'[p] = "expired"
               /\ merchantOf'[p] = merchantOf[p] \/ (p \in redacted' /\ state[p] \in {"confirmed", "failed", "expired"})
      BY Zenon, <2>1 DEF Redactable
  <2>3. Kept
      BY <2>1, <2>2, Zenon DEF Kept
  <2> QED
      BY Zenon, <1>3, <2>1, <2>3
<1>10. CASE Tick
  <2>1. /\ UNCHANGED <<requestedAt, chargedTo, state, merchantOf, redacted, req, holder>> /\ now' = now + 1
        /\ \A r \in Requests : Open(r) => now - req[r].started < SettleTime
      BY Zenon, <1>10 DEF Tick, lifecycleVars
  <2>2. Kept
      BY Zenon, <1>4, <2>1
  <2>3. ASSUME NEW r \in Requests PROVE Counts(r)'
    <3>1. Counts(r) /\ req[r].started \in Nat /\ now \in Nat /\ SettleTime \in Nat
        BY Zenon, RetentionAssumption DEF QuotaInv, LifecycleInv, LifecycleTypeOK
    <3>2. (Open(r) => req[r].started <= now /\ now <= req[r].started + SettleTime)'
      <4>1. Open(r)' => Open(r)
          BY Zenon, <2>1 DEF Open, At
      <4>2. Open(r) => req[r].started <= now /\ now - req[r].started < SettleTime
          BY Zenon, <2>1, <3>1 DEF Counts
      <4> QED
          BY <2>1, <3>1, <4>1, <4>2
    <3>3. Own(Merchant(r))' = Own(Merchant(r)) /\ Payment(r)' = Payment(r)
        BY Zenon, <2>1 DEF Own, Merchant, Payment
    <3>4. Recent(r, Own(Merchant(r)))' = Recent(r, Own(Merchant(r))) /\ Recent(r, Payments)' = Recent(r, Payments)
        BY Zenon, <2>1, <3>3 DEF Recent
    <3> QED
        BY Zenon, <2>1, <3>1, <3>2, <3>3, <3>4 DEF Counts, At
  <2> QED
      BY Zenon, <2>2, <2>3, QuotaKeeps
<1>11. CASE UNCHANGED vars
  <2>1. UNCHANGED <<requestedAt, chargedTo, state, merchantOf, redacted, req, holder, now>>
      BY Zenon, <1>11 DEF vars, admissionVars, lifecycleVars
  <2> QED
      BY Zenon, <1>3, <1>4, <2>1
<1> QED
    BY Zenon, <1>1, <1>5, <1>6, <1>7, <1>8, <1>9, <1>10, <1>11 DEF Next

\* The invariant of the counts.  It rests on the one of the locks, and on
\* RetentionAssumption: no transaction is open for so long that an intent in
\* its window is redacted before it counts.
THEOREM QuotaInvariant == Spec => []QuotaInv
<1>1. Init => QuotaInv
  <2> SUFFICES ASSUME Init PROVE QuotaInv
      OBVIOUS
  <2>1. /\ requestedAt = [p \in Payments |-> None] /\ chargedTo = [p \in Payments |-> None]
        /\ req = [r \in Requests |-> [pay |-> None, at |-> "new", started |-> 0]]
      BY Zenon DEF Init, AdmissionInit
  <2>2. requestedAt \in [Payments -> Nat \cup {None}] /\ chargedTo = [p \in Payments |-> chargedTo[p]]
        /\ \A p \in Payments : requestedAt[p] = None
      BY <2>1
  <2>3. \A r \in Requests : Counts(r)
      BY <2>1 DEF Counts, Open, At
  <2>4. \A S \in SUBSET Payments : Stamps(S) = {}
      BY <2>2 DEF Stamps
  <2>5. \A m \in Merchants : Own(m) \in SUBSET Payments
      BY Zenon DEF Own
  <2>6. MerchantQuotaHolds /\ GlobalQuotaHolds
      BY Zenon, <2>4, <2>5 DEF MerchantQuotaHolds, GlobalQuotaHolds
  <2> QED
      BY Zenon, <2>2, <2>3, <2>6 DEF QuotaInv
<1>2. LifecycleInv /\ QuotaInv /\ [Next]_vars => QuotaInv'
  <2> SUFFICES ASSUME LifecycleInv, QuotaInv, [Next]_vars PROVE QuotaInv'
      OBVIOUS
  <2>1. scope.requests \subseteq Requests /\ scope.payments \subseteq Payments
      BY Zenon, ScopeAssumption DEF LifecycleInv, LifecycleTypeOK
  <2>2. ASSUME NEW r \in scope.requests, Settle(r) PROVE QuotaInv'
    <3>1. r \in Requests /\ redacted' = redacted
        BY Zenon, <2>1, <2>2 DEF Settle, lifecycleVars
    <3> QED
        BY Zenon, <2>1, <2>2, <3>1, WorkQuota, CommitQuota DEF Settle, Work
  <2> QED
      BY Zenon, <2>2, OthersQuota
<1> QED
    BY <1>1, <1>2, LifecycleInvariant, PTL DEF Spec

\* The merchant row lock, the count under it and the retention: no window holds
\* more intents of a merchant than its quota, whatever else is going on.
THEOREM MerchantQuotaIsKept == Spec => []MerchantQuotaHolds
<1>1. QuotaInv => MerchantQuotaHolds
    BY Zenon DEF QuotaInv
<1> QED
    BY <1>1, QuotaInvariant, PTL

\* The advisory lock and the count under it: nor more of all together than the
\* global quota.
THEOREM GlobalQuotaIsKept == Spec => []GlobalQuotaHolds
<1>1. QuotaInv => GlobalQuotaHolds
    BY Zenon DEF QuotaInv
<1> QED
    BY <1>1, QuotaInvariant, PTL
=============================================================================
