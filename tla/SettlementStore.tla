--------------------------- MODULE SettlementStore ---------------------------
(***************************************************************************)
(* The durable settlement record: payment_records, ethereum_transactions   *)
(* and signer_accounts, and one action per store method that writes them.  *)
(* A method is one database transaction, so it is one step; CanX is the    *)
(* conjunction of the row guards, CHECK constraints and unique indexes the *)
(* transaction must pass, and a call made when CanX is false rolls back    *)
(* (ErrSettlementRace, or a constraint error) and writes nothing.          *)
(*                                                                         *)
(* Here a method may be called at any time, by anyone, with any payment    *)
(* and row: what is proved of this module needs neither leases nor fresh   *)
(* reads.  SettlementPipeline says who calls what, when.                   *)
(***************************************************************************)
EXTENDS Integers, FiniteSets, SettlementState

CONSTANTS Payments,  \* payment identities
          TxIds,     \* primary keys of ethereum_transactions
          Hashes,    \* hashes of signed transactions
          Seeds,     \* account nonces the chain may report at a start
          None       \* SQL NULL

ASSUME NoneAssumption == None \notin Payments /\ None \notin Hashes
ASSUME SeedsAssumption == Seeds \subseteq Nat

VARIABLES payment,   \* payment_records.state (Absent: no row)
          redacted,  \* payment_records.redacted_at IS NOT NULL
          tx,        \* ethereum_transactions
          nextNonce  \* signer_accounts.next_nonce of the one signer

storeVars == <<payment, redacted, tx, nextNonce>>

\* raw and hash are the row's hash columns, bytes whether raw_transaction is set.
TxRow == [pay    : Payments \cup {None},
          nonce  : Nat,
          status : TxStatuses \cup {Unused},
          raw    : Hashes \cup {None},
          hash   : Hashes \cup {None},
          bytes  : BOOLEAN]

NoRow == [pay |-> None, nonce |-> 0, status |-> Unused,
          raw |-> None, hash |-> None, bytes |-> FALSE]

StoreTypeOK ==
    /\ payment \in [Payments -> States \cup {Absent}]
    /\ redacted \in [Payments -> BOOLEAN]
    /\ tx \in [TxIds -> TxRow]
    /\ nextNonce \in Nat

StoreInit ==
    /\ payment = [p \in Payments |-> Absent]
    /\ redacted = [p \in Payments |-> FALSE]
    /\ tx = [t \in TxIds |-> NoRow]
    /\ nextNonce \in Seeds

-----------------------------------------------------------------------------
Rows(p) == {t \in TxIds : tx[t].pay = p}
Active(t) == tx[t].status \in ActiveStatuses
ActiveRows(p) == {t \in Rows(p) : Active(t)}

\* Row t has one of the statuses in S and belongs to payment p.
RowIn(p, t, S) == tx[t].pay = p /\ tx[t].status \in S

\* The partial unique index lets row t of payment p become active.
IndexAdmits(p, t) == ActiveRows(p) \subseteq {t}

\* transitionPayment and transitionPaymentIn: every source is checked against
\* the table, the row must be in one of them, and the audit row must pass the
\* CHECK on actor_type.
CanMove(p, froms, to, actor) ==
    /\ \A from \in froms : CanTransition(from, to)
    /\ payment[p] \in froms
    /\ actor \in ActorTypes

Move(p, to) == payment' = [payment EXCEPT ![p] = to]
SetStatus(t, s) == tx' = [tx EXCEPT ![t].status = s]

\* Row t with other columns: no method changes a row's payment or its nonce.
Version(t, status, raw, hash, bytes) ==
    [pay |-> tx[t].pay, nonce |-> tx[t].nonce, status |-> status,
     raw |-> raw, hash |-> hash, bytes |-> bytes]

\* INSERT ... SELECT of a replacement for row t: same payment, same nonce.
Replacement(t, h, withBytes) == Version(t, "broadcast", h, h, withBytes)

-----------------------------------------------------------------------------
(* Verification and retention                                              *)

\* recordVerification inserts the payment as received and moves it to
\* verified in one transaction; a duplicate finds the row and leaves it.
RecordVerification(p) ==
    /\ payment[p] = Absent
    /\ Move(p, "verified")
    /\ UNCHANGED <<redacted, tx, nextNonce>>

\* Mutant: nonces left to consume are not looked at.
CanRedactUnspent(p) ==
    /\ ~redacted[p]
    /\ payment[p] \in {"confirmed", "reverted", "verification_failed", "failed", "expired"}

\* The redaction predicate: finished, and no signer nonce left to consume.
CanRedact(p) ==
    /\ ~redacted[p]
    /\ \/ payment[p] \in {"confirmed", "reverted", "verification_failed"}
       \/ /\ payment[p] \in {"failed", "expired"}
          /\ \A t \in Rows(p) : tx[t].status = "reverted"

\* ApplyRetention: verified payments nobody settled expire, and the
\* authorizations and fillers' bytes of finished payments are erased.  The sets
\* are one batch; a payment that expires in it is too recent to be erased.
ApplyRetention(expired, erased) ==
    /\ \A p \in expired : payment[p] = "verified"
    /\ \A p \in erased : CanRedact(p)
    /\ payment' = [p \in Payments |-> IF p \in expired THEN "expired" ELSE payment[p]]
    /\ redacted' = [p \in Payments |-> redacted[p] \/ p \in erased]
    /\ tx' = [t \in TxIds |-> IF tx[t].pay \in erased THEN [tx[t] EXCEPT !.bytes = FALSE] ELSE tx[t]]
    /\ UNCHANGED nextNonce

-----------------------------------------------------------------------------
(* Intent, first broadcast and finality                                    *)

\* The merchant, quota and expiry checks come first and write nothing; this is
\* what an admitted request commits, nonce allocation included.
CanCreateIntent(p) == payment[p] = "verified" /\ ActiveRows(p) = {}

CreateSettlementIntent(p, n) ==
    /\ CanCreateIntent(p)
    /\ tx[n].status = Unused
    /\ Move(p, "broadcasting")
    /\ tx' = [tx EXCEPT ![n] = [pay |-> p, nonce |-> nextNonce, status |-> "intent",
                                raw |-> None, hash |-> None, bytes |-> FALSE]]
    /\ nextNonce' = nextNonce + 1
    /\ UNCHANGED redacted

\* Mutant: a signature already recorded may be overwritten.
CanMarkTxSignedAgain(t) == tx[t].status \in {"intent", "broadcasting"}

CanMarkTxSigned(t) == tx[t].status = "intent"

MarkTxSigned(t, h) ==
    /\ CanMarkTxSigned(t)
    /\ tx' = [tx EXCEPT ![t] = Version(t, "broadcasting", h, tx[t].hash, tx[t].bytes)]
    /\ UNCHANGED <<payment, redacted, nextNonce>>

CanMarkTxBroadcast(p, t, actor) ==
    RowIn(p, t, {"broadcasting"}) /\ CanMove(p, {"broadcasting"}, "broadcast", actor)

MarkTxBroadcast(p, t, h, actor) ==
    /\ CanMarkTxBroadcast(p, t, actor)
    /\ tx' = [tx EXCEPT ![t] = Version(t, "broadcast", tx[t].raw, h, tx[t].bytes)]
    /\ Move(p, "broadcast")
    /\ UNCHANGED <<redacted, nextNonce>>

\* Mutant: a late failure report sends a broadcast payment to review.
CanMarkTxAmbiguousLate(p, t, actor) ==
    /\ RowIn(p, t, {"broadcasting", "broadcast"})
    /\ CanMove(p, {"broadcasting", "broadcast"}, "manual_review", actor)

CanMarkTxAmbiguous(p, t, actor) ==
    RowIn(p, t, {"broadcasting"}) /\ CanMove(p, {"broadcasting"}, "manual_review", actor)

MarkTxAmbiguous(p, t, actor) ==
    /\ CanMarkTxAmbiguous(p, t, actor)
    /\ SetStatus(t, "ambiguous")
    /\ Move(p, "manual_review")
    /\ UNCHANGED <<redacted, nextNonce>>

\* Mutant: a row already signed may be dropped as an intent.
CanDropSigned(p, t, to, actor) ==
    RowIn(p, t, {"intent", "broadcasting"}) /\ CanMove(p, {"broadcasting"}, to, actor)

\* An intent that must not be broadcast is dropped, and its payment failed
\* (the simulation reverted) or expired (inside the expiry margin).
CanDropIntent(p, t, to, actor) ==
    RowIn(p, t, {"intent"}) /\ CanMove(p, {"broadcasting"}, to, actor)

DropIntent(p, t, to, actor) ==
    /\ CanDropIntent(p, t, to, actor)
    /\ SetStatus(t, "dropped")
    /\ Move(p, to)
    /\ UNCHANGED <<redacted, nextNonce>>

MarkIntentUnsettleable(p, t, actor) == DropIntent(p, t, "failed", actor)
MarkIntentExpired(p, t, actor) == DropIntent(p, t, "expired", actor)

\* Mutant: the payment is moved whatever state it is in.
MarkTxConfirmingUnguarded(p, t, actor) ==
    /\ tx' = IF RowIn(p, t, {"broadcast", "confirming"})
             THEN [tx EXCEPT ![t].status = "confirming"] ELSE tx
    /\ Move(p, "confirming")
    /\ UNCHANGED <<redacted, nextNonce>>

\* Mutant: the row is left as it was.
MarkTxConfirmingPaymentOnly(p, t, actor) ==
    /\ payment[p] \in {"broadcast", "replaced"} /\ actor \in ActorTypes
    /\ Move(p, "confirming")
    /\ UNCHANGED <<redacted, tx, nextNonce>>

\* Neither update's row count is an error here: the row moves if it is still
\* broadcast or confirming, the payment if it is broadcast or replaced, and
\* the transaction commits either way.
MarkTxConfirming(p, t, actor) ==
    /\ tx' = IF RowIn(p, t, {"broadcast", "confirming"})
             THEN [tx EXCEPT ![t].status = "confirming"] ELSE tx
    /\ IF payment[p] \in {"broadcast", "replaced"}
       THEN actor \in ActorTypes /\ Move(p, "confirming")
       ELSE UNCHANGED payment
    /\ UNCHANGED <<redacted, nextNonce>>

\* MarkTxConfirmed and MarkTxReverted; final is the row's new status and the
\* payment's new state alike.
CanFinalize(p, t, final, actor) ==
    /\ RowIn(p, t, {"broadcast", "confirming"})
    /\ CanMove(p, {"broadcast", "confirming", "replaced"}, final, actor)

Finalize(p, t, final, actor) ==
    /\ CanFinalize(p, t, final, actor)
    /\ SetStatus(t, final)
    /\ Move(p, final)
    /\ UNCHANGED <<redacted, nextNonce>>

MarkTxConfirmed(p, t, actor) == Finalize(p, t, "confirmed", actor)
MarkTxReverted(p, t, actor) == Finalize(p, t, "reverted", actor)

\* A second report of the outcome already recorded commits without a write.
terminalSettlementMatches(p, t, final) == payment[p] = final /\ RowIn(p, t, {final})

CanMarkTxReorgedOut(p, t, actor) ==
    RowIn(p, t, {"confirming"}) /\ CanMove(p, {"confirming"}, "broadcast", actor)

MarkTxReorgedOut(p, t, actor) ==
    /\ CanMarkTxReorgedOut(p, t, actor)
    /\ SetStatus(t, "broadcast")
    /\ Move(p, "broadcast")
    /\ UNCHANGED <<redacted, nextNonce>>

-----------------------------------------------------------------------------
(* Recovery: ambiguous sends, replacements                                 *)

CanMarkTxRecoveredBroadcast(p, t, actor) ==
    RowIn(p, t, {"ambiguous"}) /\ CanMove(p, {"manual_review"}, "broadcast", actor)

MarkTxRecoveredBroadcast(p, t, h, actor) ==
    /\ CanMarkTxRecoveredBroadcast(p, t, actor)
    /\ tx' = [tx EXCEPT ![t] = Version(t, "broadcast", tx[t].raw, h, tx[t].bytes)]
    /\ Move(p, "broadcast")
    /\ UNCHANGED <<redacted, nextNonce>>

CanMarkTxAmbiguousReplaced(p, t, actor) ==
    RowIn(p, t, {"ambiguous"}) /\ CanMove(p, {"manual_review"}, "replaced", actor)

\* The superseded row gets the hash its raw hash implies, so it stays watched.
MarkTxAmbiguousReplaced(p, t, n, h, actor) ==
    /\ CanMarkTxAmbiguousReplaced(p, t, actor)
    /\ tx[n].status = Unused
    /\ tx' = [tx EXCEPT ![t] = Version(t, "replaced", tx[t].raw, tx[t].raw, tx[t].bytes),
                        ![n] = Replacement(t, h, FALSE)]
    /\ Move(p, "replaced")
    /\ UNCHANGED <<redacted, nextNonce>>

\* A payment already replaced stays put and writes no audit row.
CanMarkTxReplaced(p, t, actor) ==
    /\ RowIn(p, t, {"broadcast"})
    /\ payment[p] \in {"broadcast", "replaced"}
    /\ payment[p] = "broadcast" => actor \in ActorTypes

MarkTxReplaced(p, t, n, h, actor) ==
    /\ CanMarkTxReplaced(p, t, actor)
    /\ tx[n].status = Unused
    /\ tx' = [tx EXCEPT ![t].status = "replaced", ![n] = Replacement(t, h, FALSE)]
    /\ Move(p, "replaced")
    /\ UNCHANGED <<redacted, nextNonce>>

\* The superseded transaction mined: its replacement leaves the active set
\* before it re-enters, and a success never overrules a confirming payment.
CanMarkReplacementLanded(p, t, ok, actor) ==
    /\ Cardinality(ActiveRows(p)) = 1
    /\ RowIn(p, t, {"replaced"})
    /\ IF ok THEN CanMove(p, {"replaced", "broadcast"}, "confirming", actor)
             ELSE CanMove(p, {"replaced", "broadcast", "confirming"}, "reverted", actor)

MarkReplacementLanded(p, t, ok, actor) ==
    LET to == IF ok THEN "confirming" ELSE "reverted" IN
    /\ CanMarkReplacementLanded(p, t, ok, actor)
    /\ tx' = [u \in TxIds |-> IF u = t THEN [tx[u] EXCEPT !.status = to]
                              ELSE IF u \in ActiveRows(p) THEN [tx[u] EXCEPT !.status = "dropped"]
                              ELSE tx[u]]
    /\ Move(p, to)
    /\ UNCHANGED <<redacted, nextNonce>>

-----------------------------------------------------------------------------
(* Recovery: nonce-gap fillers                                             *)

\* Mutant: a dropped row that was signed is listed too.
BlockingGapSigned(t) ==
    /\ tx[t].status = "dropped"
    /\ payment[tx[t].pay] \in {"expired", "failed"}
    /\ \E u \in TxIds : tx[u].nonce > tx[t].nonce /\ Active(u)

\* ListDroppedBlockingGaps, without the clock: a later nonce is in flight.
BlockingGap(t) ==
    /\ tx[t].status = "dropped" /\ tx[t].raw = None
    /\ payment[tx[t].pay] \in {"expired", "failed"}
    /\ \E u \in TxIds : tx[u].nonce > tx[t].nonce /\ Active(u)

\* ListGapFillers: the prepared fillers still watched.
GapFiller(t) ==
    /\ tx[t].status \in {"broadcast", "replaced"} /\ tx[t].bytes
    /\ payment[tx[t].pay] \in {"expired", "failed"}

\* The update tests the status alone; the unique index may still refuse it.
CanMarkGapFillerPrepared(t) ==
    tx[t].status = "dropped" /\ IndexAdmits(tx[t].pay, t)

\* Mutant: raw_transaction is not recorded.
MarkGapFillerPreparedBare(t, h) ==
    /\ CanMarkGapFillerPrepared(t)
    /\ tx' = [tx EXCEPT ![t] = Version(t, "broadcast", h, h, FALSE)]
    /\ UNCHANGED <<payment, redacted, nextNonce>>

MarkGapFillerPrepared(t, h) ==
    /\ CanMarkGapFillerPrepared(t)
    /\ tx' = [tx EXCEPT ![t] = Version(t, "broadcast", h, h, TRUE)]
    /\ UNCHANGED <<payment, redacted, nextNonce>>

CanMarkGapFillerReplaced(p, t) == RowIn(p, t, {"broadcast"}) /\ tx[t].bytes

MarkGapFillerReplaced(p, t, n, h) ==
    /\ CanMarkGapFillerReplaced(p, t)
    /\ tx[n].status = Unused
    /\ tx' = [tx EXCEPT ![t].status = "replaced", ![n] = Replacement(t, h, TRUE)]
    /\ UNCHANGED <<payment, redacted, nextNonce>>

\* Row t takes status s; every other live filler row of its payment is dropped.
SettleFiller(t, s) ==
    tx' = [u \in TxIds |-> IF u = t THEN [tx[u] EXCEPT !.status = s]
                           ELSE IF RowIn(tx[t].pay, u, {"broadcast", "replaced"})
                                THEN [tx[u] EXCEPT !.status = "dropped"] ELSE tx[u]]

CanMarkGapFillerResolved(t) == tx[t].status \in {"broadcast", "replaced"}

MarkGapFillerResolved(t) ==
    /\ CanMarkGapFillerResolved(t)
    /\ SettleFiller(t, "reverted")
    /\ UNCHANGED <<payment, redacted, nextNonce>>

\* The first update makes t active while its siblings still are what they
\* were, so the unique index is met before the second one drops them.
CanMarkGapFillerSucceeded(p, t, actor) ==
    /\ RowIn(p, t, {"broadcast", "replaced"})
    /\ IndexAdmits(p, t)
    /\ CanMove(p, {"expired"}, "manual_review", actor)

MarkGapFillerSucceeded(p, t, actor) ==
    /\ CanMarkGapFillerSucceeded(p, t, actor)
    /\ SettleFiller(t, "confirming")
    /\ Move(p, "manual_review")
    /\ UNCHANGED <<redacted, nextNonce>>

-----------------------------------------------------------------------------
\* Mutant: the chain's nonce overwrites the ledger.
SeedSignerAccountAnew(seed) == nextNonce' = seed /\ UNCHANGED <<payment, redacted, tx>>

\* SeedSignerAccount, at every start: the ledger never moves backwards.
SeedSignerAccount(seed) ==
    /\ nextNonce' = IF seed > nextNonce THEN seed ELSE nextNonce
    /\ UNCHANGED <<payment, redacted, tx>>

-----------------------------------------------------------------------------
(* Any caller, as stale as it likes.  What a caller does know is what      *)
(* stays true once read: the confirmation paths hold a payment whose       *)
(* transaction reached the network, the filler paths a row that recovery   *)
(* listed, and a signature is never produced twice.                        *)

Watched == {"broadcast", "confirming", "replaced"}
Final == {"confirmed", "reverted"}

\* Hashes no row names; a signature just produced is one of them.
FreshHashes == {h \in Hashes : \A t \in TxIds : tx[t].raw # h}

BroadcastStep(p, t) ==
    \/ \E h \in FreshHashes : MarkTxSigned(t, h)
    \/ MarkTxBroadcast(p, t, tx[t].raw, "http") \/ MarkTxBroadcast(p, t, tx[t].raw, "worker")
    \/ MarkTxAmbiguous(p, t, "worker")
    \/ MarkIntentUnsettleable(p, t, "worker")
    \/ MarkIntentExpired(p, t, "worker")

ConfirmationStep(p, t) ==
    /\ payment[p] \in Watched \cup Final
    /\ \/ MarkTxConfirming(p, t, "worker")
       \/ MarkTxReorgedOut(p, t, "worker")
       \/ \E actor \in {"worker", "http-wait"} :
             MarkTxConfirmed(p, t, actor) \/ MarkTxReverted(p, t, actor)

RecoveryStep(p, t) ==
    \/ MarkTxRecoveredBroadcast(p, t, tx[t].raw, "worker")
    \/ \E n \in TxIds, h \in FreshHashes : MarkTxAmbiguousReplaced(p, t, n, h, "worker")
    \/ \E n \in TxIds, h \in FreshHashes : MarkTxReplaced(p, t, n, h, "worker")
    \/ \E ok \in BOOLEAN : MarkReplacementLanded(p, t, ok, "worker")

GapFillerStep(p, t) ==
    \/ /\ tx[t].pay = p /\ payment[p] \in {"expired", "failed", "manual_review"}
       /\ \E h \in FreshHashes : MarkGapFillerPrepared(t, h)
    \/ \E n \in TxIds, h \in FreshHashes : MarkGapFillerReplaced(p, t, n, h)
    \/ tx[t].pay = p /\ tx[t].bytes /\ MarkGapFillerResolved(t)
    \/ MarkGapFillerSucceeded(p, t, "worker")

PaymentStep(p) ==
    \/ RecordVerification(p)
    \/ \E n \in TxIds : CreateSettlementIntent(p, n)

StoreNext ==
    \/ \E expired, erased \in SUBSET Payments : ApplyRetention(expired, erased)
    \/ \E p \in Payments : PaymentStep(p)
    \/ \E p \in Payments, t \in TxIds :
          \/ BroadcastStep(p, t)
          \/ ConfirmationStep(p, t)
          \/ RecoveryStep(p, t)
          \/ GapFillerStep(p, t)
    \/ \E seed \in Seeds : SeedSignerAccount(seed)

StoreSpec == StoreInit /\ [][StoreNext]_storeVars

-----------------------------------------------------------------------------
(* Properties                                                              *)

\* AllocateNonce and the INSERT ... SELECT of every replacement: two rows carry
\* the same signer nonce exactly when they are versions of one payment's
\* transaction, so no interleaving can make two payments compete for a nonce
\* or one payment spend two; and the ledger is ahead of every row.
NonceDiscipline ==
    \A t, u \in TxIds :
        (tx[t].status # Unused /\ tx[u].status # Unused) =>
            /\ tx[t].nonce < nextNonce
            /\ (tx[t].nonce = tx[u].nonce) <=> (tx[t].pay = tx[u].pay)

\* At most one in-flight transaction per payment, kept by the order of the
\* updates in each method and not only by the index that would abort them.
OneActive ==
    \A t, u \in TxIds :
        (Active(t) /\ Active(u) /\ tx[t].pay = tx[u].pay) => t = u

\* What the rows of a payment look like in each state, whoever moved it there:
\* a payment being watched has a live transaction to watch, a finished one has
\* none, and manual_review always has something for recovery to resolve.
RowsAgree(p) ==
    /\ payment[p] \in {Absent, "verified"} => Rows(p) = {}
    /\ payment[p] = "broadcasting" =>
          \E t \in Rows(p) : /\ tx[t].status \in {"intent", "broadcasting"}
                             /\ \A u \in Rows(p) : u = t
    /\ payment[p] \in {"broadcast", "replaced"} =>
          \E t \in Rows(p) : tx[t].status = "broadcast"
    /\ payment[p] = "confirming" =>
          \E t \in Rows(p) : tx[t].status \in {"broadcast", "confirming"}
    /\ payment[p] = "manual_review" =>
          \E t \in Rows(p) : tx[t].status \in {"ambiguous", "confirming"}
    /\ payment[p] \in Final =>
          /\ \E t \in Rows(p) : tx[t].status = payment[p]
          /\ ActiveRows(p) = {}
    /\ payment[p] \in {"expired", "failed"} =>
          \A t \in Rows(p) : tx[t].bytes \/ tx[t].status \in {"dropped", "reverted"}

\* The record agrees with itself across payments and transactions in every
\* interleaving of the methods: RowsAgree, for every payment.
StateAgrees == \A p \in Payments : RowsAgree(p)

\* Recovery always has its handle: a row that may be on the network names the
\* hash that was persisted before the send, and a row the confirmation worker
\* or observeReplacements polls has that same hash as its tx_hash.
HandleRecorded ==
    \A t \in TxIds :
        /\ tx[t].status \notin {Unused, "intent", "dropped"} => tx[t].raw # None
        /\ tx[t].status \in Watched \cup Final => tx[t].hash = tx[t].raw

\* ApplyRetention never erases what recovery may still read: a redacted payment
\* has no transaction in flight, no filler to resend and no gap left to fill.
RedactionSafe ==
    \A p \in Payments : redacted[p] =>
        /\ payment[p] \in Final \cup {"failed", "expired"}
        /\ ActiveRows(p) = {}
        /\ \A t \in Rows(p) : ~ BlockingGap(t) /\ ~ GapFiller(t)

\* A payment takes an edge of state.go or stays; recording it is received ->
\* verified in one step.
EdgeStep ==
    \A p \in Payments :
        \/ payment'[p] = payment[p]
        \/ CanTransition(payment[p], payment'[p])
        \/ payment[p] = Absent /\ CanTransition("received", payment'[p])

\* Every step of a payment is an edge of state.go, the ones written in SQL
\* without ValidateTransition (MarkTxConfirming, MarkTxReplaced, retention)
\* included.
EdgesOnly == [][EdgeStep]_storeVars

\* A finished payment stays, and a watched one goes on being watched until it
\* finishes.
OneWayStep ==
    \A p \in Payments :
        /\ payment[p] \in Final \cup {"failed"} => payment'[p] = payment[p]
        /\ payment[p] \in Watched => payment'[p] \in Watched \cup Final

\* Finality is a one-way record (ADR-0004 decision 5), and a payment whose
\* transaction reached the network never falls back to review, expiry or a
\* second attempt, whatever late writer arrives.
FinalityOneWay == [][OneWayStep]_storeVars

\* A row that was signed and not dropped keeps its raw hash.
HandleStep ==
    \A t \in TxIds :
        (tx[t].raw # None /\ tx[t].status # "dropped") => tx'[t].raw = tx[t].raw

\* The recovery handle of a transaction that was sent is never overwritten or
\* lost while the payment can still be settled by it.
HandleKept == [][HandleStep]_storeVars

-----------------------------------------------------------------------------
(* What makes the invariants inductive                                     *)

\* No method leaves a payment received or verification_failed; a row exists
\* exactly when it belongs to a payment; a payment not yet admitted has none.
RowsOwned ==
    /\ \A p \in Payments : payment[p] \notin {"received", "verification_failed"}
    /\ \A t \in TxIds : tx[t].status = Unused <=> tx[t].pay = None

\* A row not signed yet has no hash, and one in its first broadcast no bytes.
UnsignedRows ==
    \A t \in TxIds :
        /\ tx[t].status \in {Unused, "intent"} => tx[t].raw = None
        /\ tx[t].status \in {Unused, "intent", "broadcasting", "ambiguous"} => ~ tx[t].bytes

\* Only fillers carry bytes, and only a retired or escalated payment has
\* fillers, with no ambiguous broadcast beside them.
FillersApart ==
    \A t \in TxIds : tx[t].bytes =>
        /\ payment[tx[t].pay] \in {"expired", "failed", "manual_review"}
        /\ \A u \in TxIds : tx[u].pay = tx[t].pay => tx[u].status # "ambiguous"

\* What redaction saw stays true: the payment is finished, and the nonces of a
\* retired one are spent.
RedactedSpent ==
    \A p \in Payments : redacted[p] =>
        /\ payment[p] \in Final \cup {"failed", "expired"}
        /\ payment[p] \in {"failed", "expired"} => \A t \in Rows(p) : tx[t].status = "reverted"

StoreInv ==
    /\ StoreTypeOK /\ RowsOwned /\ UnsignedRows /\ NonceDiscipline /\ OneActive
    /\ HandleRecorded /\ FillersApart /\ StateAgrees /\ RedactedSpent
=============================================================================
