--------------------------- MODULE SettlementState ---------------------------
(***************************************************************************)
(* The vocabulary of internal/settlement/state.go and of the schema: the   *)
(* settlement states of a payment, the edges between them, the statuses of *)
(* an ethereum_transactions row, and the actors an audit row may name.     *)
(***************************************************************************)

States == {"received", "verification_failed", "verified", "broadcasting",
           "broadcast", "confirming", "confirmed", "failed", "reverted",
           "replaced", "expired", "manual_review"}

\* A payment that no verification has recorded yet has no row at all.
Absent == "absent"

\* The transition table: an edge that is not here is refused before any write.
Transitions ==
         ({"received"} \X {"verification_failed", "verified", "expired", "manual_review"})
    \cup ({"verified"} \X {"broadcasting", "expired", "manual_review"})
    \cup ({"broadcasting"} \X {"broadcast", "failed", "expired", "manual_review"})
    \cup ({"broadcast"} \X {"confirming", "confirmed", "reverted", "replaced", "manual_review"})
    \cup ({"confirming"} \X {"broadcast", "confirmed", "reverted", "replaced", "manual_review"})
    \cup ({"replaced"} \X {"confirming", "confirmed", "reverted", "manual_review"})
    \cup ({"expired"} \X {"manual_review"})
    \cup ({"manual_review"} \X {"verified", "broadcast", "confirming", "replaced", "failed", "expired"})

CanTransition(from, to) == <<from, to>> \in Transitions

\* The CHECK constraint on ethereum_transactions.status, plus the row not inserted yet.
TxStatuses == {"intent", "broadcasting", "broadcast", "confirming", "confirmed",
               "reverted", "replaced", "dropped", "ambiguous"}
Unused == "unused"

\* activeTransactionStatuses, which is also the predicate of the partial
\* unique index ethereum_transactions_active_payment_unique.
ActiveStatuses == {"intent", "broadcasting", "broadcast", "confirming", "ambiguous"}

\* The CHECK constraint on payment_transitions.actor_type: an audit row that
\* names any other actor aborts the transaction that writes it.
ActorTypes == {"http", "worker", "operator", "system"}
=============================================================================
