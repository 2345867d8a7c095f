---------------------------- MODULE Verification ----------------------------
(* A payment from /verify to the end of its record: Verify reads the chain  *)
(* and then records the payment, Admission turns it into an intent, the     *)
(* settlement pipeline resolves it, and ApplyRetention expires it, or       *)
(* forgets whose it was.  Several payments may rest on one authorization (a *)
(* payer and a nonce): the identity binds every field and the signature.    *)
EXTENDS Admission

CONSTANTS Verifiers,         \* /verify requests
          Authorizations,
          AuthorizationOf,   \* payer and nonce, per payment
          Claimants,         \* merchants with the recipient's address, oldest first
          PaymentRetention,
          VerifyTime,        \* the longest from the chain reads to the record
          SettleTime,        \* the longest a transaction of /settle is open
          Scopes             \* bounds: rows at the start, who asks for what, whom
                             \* suspensions and outcomes reach, until when

\* config.Validate: "payment retention must not be shorter than the merchant
\* quota window".  A request does not last as long as a record is kept, nor a
\* transaction longer than the retention and the margin exceed the window.
ASSUME RetentionAssumption ==
    /\ PaymentRetention \in Nat /\ QuotaWindow <= PaymentRetention
    /\ VerifyTime \in Nat /\ VerifyTime <= PaymentRetention
    /\ SettleTime \in Nat /\ QuotaWindow + SettleTime <= PaymentRetention + ExpiryMargin

\* The bounds are of the right kind; no authorization starts with two payments.
ASSUME ScopeAssumption ==
    /\ AuthorizationOf \in [Payments -> Authorizations]
    /\ \A s \in Scopes :
          /\ s.payments \subseteq Payments /\ s.resolved \subseteq Payments
          /\ s.requests \subseteq Requests /\ s.verifiers \subseteq Verifiers
          /\ s.suspended \subseteq Merchants /\ s.end \in Nat
          /\ s.state \in [Payments -> {"absent", "verified"}]
          /\ s.merchantOf \in [Payments -> Merchants \cup {None}]
          /\ \A p, q \in Payments : p # q /\ AuthorizationOf[p] = AuthorizationOf[q] =>
                s.state[p] = "absent" \/ s.state[q] = "absent"

VARIABLES ver,       \* per /verify: its payment, where it is, when it read
          spent,     \* per authorization: the payment that used it on chain
          updatedAt, \* payment_records.updated_at, confirmed_at once confirmed
          redacted,  \* payments with redacted_at
          scope      \* the bounds of this behaviour

lifecycleVars == <<ver, spent, updatedAt, redacted, scope>>
vars == <<admissionVars, lifecycleVars>>

NewVerification == [pay |-> None, at |-> "new", began |-> 0]

Init ==
    /\ scope \in Scopes
    /\ AdmissionInit(scope.state, scope.merchantOf)
    /\ ver = [v \in Verifiers |-> NewVerification]
    /\ spent = [a \in Authorizations |-> None]
    /\ updatedAt = [p \in Payments |-> 0]
    /\ redacted = {}

-----------------------------------------------------------------------------
(* Verify.  GetCode, and a request ParseRequest refuses, change nothing.    *)

VerifyAt(v, step) == ver[v].at = step
VerifyGo(v, step) == ver' = [ver EXCEPT ![v] = [pay |-> @.pay, at |-> step, began |-> @.began]]
VerifyDone(v, answer) == ver' = [ver EXCEPT ![v] = [pay |-> None, at |-> answer, began |-> 0]]

ParseRequest(v, p) ==
    /\ VerifyAt(v, "new")
    /\ ver' = [ver EXCEPT ![v] = [pay |-> p, at |-> "parsed", began |-> now]]
    /\ UNCHANGED <<admissionVars, spent, updatedAt, redacted, scope>>

\* Mutant: the authorization's state on chain is not asked for.
ReadContractIgnored(v) ==
    /\ VerifyAt(v, "parsed")
    /\ VerifyGo(v, "unused")
    /\ UNCHANGED <<admissionVars, spent, updatedAt, redacted, scope>>

\* authorizationState of the payer and the nonce.
ReadContract(v) ==
    /\ VerifyAt(v, "parsed")
    /\ IF spent[AuthorizationOf[ver[v].pay]] # None THEN VerifyDone(v, "invalid")
                                                    ELSE VerifyGo(v, "unused")
    /\ UNCHANGED <<admissionVars, spent, updatedAt, redacted, scope>>

\* scheme.Verify: the authorization has not run out.
SchemeVerify(v) ==
    /\ VerifyAt(v, "unused")
    /\ IF now < ValidBefore[ver[v].pay] THEN VerifyGo(v, "checked") ELSE VerifyDone(v, "invalid")
    /\ UNCHANGED <<admissionVars, spent, updatedAt, redacted, scope>>

\* A read or a statement fails: the caller gets an error.
Unavailable(v) ==
    /\ \E step \in {"parsed", "unused", "checked"} : VerifyAt(v, step)
    /\ VerifyDone(v, "unavailable")
    /\ UNCHANGED <<admissionVars, spent, updatedAt, redacted, scope>>

\* UNIQUE (network, asset, payer_address, authorization_nonce): a redacted row
\* has no payer and no nonce any more.
Conflicts(p) ==
    {q \in Payments \ {p} : /\ AuthorizationOf[q] = AuthorizationOf[p]
                            /\ state[q] # "absent" /\ q \notin redacted}

\* ORDER BY created_at, id LIMIT 1, of the active ones; NULL if there is none.
Claimant(p) ==
    LET standing == {n \in DOMAIN Claimants[p] : Claimants[p][n] \in active}
    IN  IF standing = {} THEN None
        ELSE Claimants[p][CHOOSE n \in standing : \A k \in standing : n <= k]

\* The insert, the transition and the attempt, in one transaction that no other
\* one of the same authorization overlaps; what exists is left as it is.
recordVerification(p) ==
    IF state[p] = "absent" /\ Conflicts(p) = {}
    THEN /\ state' = [state EXCEPT ![p] = "verified"]
         /\ merchantOf' = [merchantOf EXCEPT ![p] = Claimant(p)]
         /\ updatedAt' = [updatedAt EXCEPT ![p] = now]
    ELSE UNCHANGED <<state, merchantOf, updatedAt>>

\* The reply of the commit may be lost: the caller is told of an error.
RecordVerification(v) ==
    /\ VerifyAt(v, "checked")
    /\ recordVerification(ver[v].pay)
    /\ \/ VerifyDone(v, IF state'[ver[v].pay] = "absent" THEN "invalid" ELSE "valid")
       \/ VerifyDone(v, "unavailable")
    /\ UNCHANGED <<now, requestedAt, chargedTo, active, suspensions, req, holder,
                   spent, redacted, scope>>

-----------------------------------------------------------------------------
(* What the settlement pipeline makes of an intent.                        *)

Mine(p) ==
    /\ state[p] = "broadcasting" /\ now < ValidBefore[p]
    /\ spent[AuthorizationOf[p]] = None
    /\ spent' = [spent EXCEPT ![AuthorizationOf[p]] = p]
    /\ UNCHANGED <<admissionVars, ver, updatedAt, redacted, scope>>

\* Confirmed when its transfer is mined, failed when that cannot happen.
Resolve(p) ==
    /\ state[p] = "broadcasting" /\ Free(p)
    /\ state' = [state EXCEPT ![p] = IF spent[AuthorizationOf[p]] = p THEN "confirmed" ELSE "failed"]
    /\ updatedAt' = [updatedAt EXCEPT ![p] = now]
    /\ UNCHANGED <<now, requestedAt, chargedTo, active, suspensions, merchantOf, req, holder,
                   ver, spent, redacted, scope>>

-----------------------------------------------------------------------------
\* The rows the two statements pick, SKIP LOCKED.
Stale == {p \in Payments : state[p] = "verified" /\ ValidBefore[p] < now /\ Free(p)}
Old(p) == ValidBefore[p] < now - PaymentRetention /\ updatedAt[p] < now - PaymentRetention

Redactable ==
    {p \in Payments : /\ state[p] \in {"confirmed", "failed", "expired"} /\ p \notin redacted
                      /\ Old(p) /\ Free(p)}

ApplyRetention ==
    /\ Stale # {} \/ Redactable # {}
    /\ state' = [p \in Payments |-> IF p \in Stale THEN "expired" ELSE state[p]]
    /\ updatedAt' = [p \in Payments |-> IF p \in Stale \cup Redactable THEN now ELSE updatedAt[p]]
    /\ merchantOf' = [p \in Payments |-> IF p \in Redactable THEN None ELSE merchantOf[p]]
    /\ redacted' = redacted \cup Redactable
    /\ UNCHANGED <<now, requestedAt, chargedTo, active, suspensions, req, holder, ver, spent, scope>>

Tick ==
    /\ now < scope.end
    /\ \A v \in Verifiers : ver[v].pay # None => now - ver[v].began < VerifyTime
    /\ \A r \in Requests : Open(r) => now - req[r].started < SettleTime
    /\ now' = now + 1
    /\ UNCHANGED <<state, requestedAt, chargedTo, active, suspensions, merchantOf, req, holder,
                   lifecycleVars>>

Settle(r) ==
    /\ \/ \E p \in scope.payments : Begin(r, p)
       \/ Work(r) \/ Rollback(r)
    /\ UNCHANGED lifecycleVars

Verify(v) ==
    \/ \E p \in scope.payments : ParseRequest(v, p)
    \/ ReadContract(v) \/ SchemeVerify(v) \/ Unavailable(v) \/ RecordVerification(v)

Next ==
    \/ \E r \in scope.requests : Settle(r)
    \/ \E v \in scope.verifiers : Verify(v)
    \/ \E p \in scope.resolved : Mine(p) \/ Resolve(p)
    \/ \E m \in scope.suspended : Suspend(m) /\ UNCHANGED lifecycleVars
    \/ ApplyRetention
    \/ Tick

Spec == Init /\ [][Next]_vars

-----------------------------------------------------------------------------
\* A payment that has been paid for, or that the facilitator may still settle.
Live(p) ==
    \/ state[p] \in {"broadcasting", "confirmed"}
    \/ state[p] = "verified" /\ now < ValidBefore[p]

\* Verify, the unique index and ApplyRetention: an authorization pays once.  Of
\* the payments that rest on it at most one is accepted and can still be, or
\* has been, settled: also after its row was redacted and the index no longer
\* knows it, and for a request that read the chain before.
AuthorizationPaysOnce ==
    \A p, q \in Payments :
        p # q /\ AuthorizationOf[p] = AuthorizationOf[q] => ~(Live(p) /\ Live(q))

-----------------------------------------------------------------------------
(* The invariant that carries this and the suspension.                     *)

Steps == {"new", "begun", "payment", "merchant", "counted", "global", "admitted", "done"}
VerifySteps == {"new", "parsed", "unused", "checked", "valid", "invalid", "unavailable"}
States == {"absent", "verified", "broadcasting", "confirmed", "failed", "expired"}

LifecycleTypeOK ==
    /\ now \in Nat /\ scope \in Scopes /\ active \subseteq Merchants /\ redacted \subseteq Payments
    /\ state \in [Payments -> States]
    /\ merchantOf = [p \in Payments |-> merchantOf[p]]
    /\ holder \in [Locks -> Requests \cup {None}]
    /\ req \in [Requests -> [pay : Payments \cup {None}, at : Steps, started : Nat]]
    /\ ver \in [Verifiers -> [pay : Payments \cup {None}, at : VerifySteps, began : Nat]]
    /\ spent \in [Authorizations -> Payments \cup {None}]

\* What a transaction has seen under its locks stays so until it ends.
LocksHold ==
    \A r \in Requests :
        /\ ~At(r, "new") => Payment(r) \in Payments
        /\ req[r].at \in {"payment", "merchant", "counted", "global", "admitted"} =>
              holder[Payment(r)] = r /\ state[Payment(r)] = "verified"
        /\ req[r].at \in {"merchant", "counted", "global", "admitted"} =>
              Merchant(r) \in active /\ holder[Merchant(r)] = r

\* A redacted row is over, and so is its authorization, for longer than a
\* /verify takes; one that was paid for shows on chain.
RedactedIsOver ==
    /\ \A p \in redacted : /\ state[p] \in {"confirmed", "failed", "expired"}
                           /\ ValidBefore[p] < now - PaymentRetention
    /\ \A p \in Payments : state[p] = "confirmed" => spent[AuthorizationOf[p]] = p

\* A /verify that goes on has read the chain since it began: what it did not
\* see spent, was spent later.
ReadIsRecent ==
    \A v \in Verifiers :
        /\ ver[v].at \in {"parsed", "unused", "checked"} =>
              ver[v].pay \in Payments /\ ver[v].began <= now /\ now <= ver[v].began + VerifyTime
        /\ ver[v].at \in {"unused", "checked"} =>
              LET payer == spent[AuthorizationOf[ver[v].pay]]
              IN  payer # None => ver[v].began < ValidBefore[payer]

\* Of two rows of an authorization one is redacted; beside one that was paid
\* for, the other is.
RowsApart ==
    \A p, q \in Payments :
        p # q /\ AuthorizationOf[p] = AuthorizationOf[q] /\ state[p] # "absent" /\ state[q] # "absent" =>
            /\ p \in redacted \/ q \in redacted
            /\ p \in redacted /\ state[p] = "confirmed" => q \in redacted

LifecycleInv == LifecycleTypeOK /\ LocksHold /\ RedactedIsOver /\ ReadIsRecent /\ RowsApart

-----------------------------------------------------------------------------
(* The invariant that carries the quotas.                                  *)

\* An intent was requested well before its authorization runs out, and counts
\* for its merchant until it is redacted.
Stamped(p) ==
    /\ state[p] \notin {"absent", "verified"}
    /\ requestedAt[p] + ExpiryMargin < ValidBefore[p]
    /\ p \in redacted \/ merchantOf[p] = chargedTo[p]

\* What a transaction has counted, it may still rely on when it commits.
Counts(r) ==
    /\ Open(r) => req[r].started <= now /\ now <= req[r].started + SettleTime
    /\ req[r].at \in {"merchant", "counted", "global", "admitted"} =>
          req[r].started + ExpiryMargin < ValidBefore[Payment(r)]
    /\ req[r].at \in {"counted", "global", "admitted"} => Cardinality(Recent(r, Own(Merchant(r)))) < Quota
    /\ req[r].at \in {"global", "admitted"} => holder[GlobalLock] = r
    /\ At(r, "admitted") => Cardinality(Recent(r, Payments)) < GlobalQuota

QuotaInv ==
    /\ requestedAt \in [Payments -> Nat \cup {None}] /\ chargedTo = [p \in Payments |-> chargedTo[p]]
    /\ \A p \in Payments : requestedAt[p] # None => Stamped(p)
    /\ \A r \in Requests : Counts(r)
    /\ MerchantQuotaHolds /\ GlobalQuotaHolds
=============================================================================
