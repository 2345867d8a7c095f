------------------------ MODULE SettlementStoreProofs ------------------------
EXTENDS SettlementStore, TLAPS

(* Proofs about the settlement record (SettlementStore), for any sets of payments, rows,
   hashes and nonces. StoreInv is inductive. Its conjuncts lean on each other: that a
   payment has one active row needs the agreement of state and rows (a guard on the
   state is what keeps a second row out), and that agreement needs the rows to be owned
   and unsigned rows to be young. One lemma per operation shows that it keeps StoreInv;
   the theorems at the end read the properties off it. *)

(* A step that leaves a payment and its rows alone leaves their agreement alone: the
   row guards of the store name one payment, so every other payment is in this case. *)
LEMMA OtherPayment ==
    ASSUME NEW q \in Payments, RowsAgree(q), payment'[q] = payment[q],
           \A u \in TxIds : (tx[u].pay = q \/ tx'[u].pay = q) => tx'[u] = tx[u]
    PROVE  RowsAgree(q)'
  <1>1. Rows(q)' = Rows(q)
    BY DEF Rows
  <1>2. ActiveRows(q)' = ActiveRows(q)
    BY <1>1 DEF ActiveRows, Active, Rows
  <1>. QED BY <1>1, <1>2 DEF RowsAgree, Rows

(* ApplyRetention (the nightly prune) keeps the invariant: it expires payments with no
   live row and erases bytes and evidence, and neither changes a nonce or a status. *)
LEMMA RetentionKeeps ==
    ASSUME StoreInv, NEW expired \in SUBSET Payments, NEW erased \in SUBSET Payments,
           ApplyRetention(expired, erased)
    PROVE  StoreInv'
  <1>. USE NoneAssumption, SeedsAssumption DEF StoreInv, StoreTypeOK, TxRow, Unused, Absent,
           ApplyRetention, CanRedact
  <1>1. StoreTypeOK'
    <2>1. payment' \in [Payments -> States \cup {Absent}]
      BY DEF States
    <2>2. redacted' \in [Payments -> BOOLEAN]
      <3>. \A p \in Payments : (redacted[p] \/ p \in erased) \in BOOLEAN
        BY Zenon
      <3>. QED OBVIOUS
    <2>3. tx' \in [TxIds -> TxRow]
      <3>. SUFFICES ASSUME NEW u \in TxIds
                    PROVE  (IF tx[u].pay \in erased THEN [tx[u] EXCEPT !.bytes = FALSE] ELSE tx[u]) \in TxRow
        OBVIOUS
      <3>1. tx[u] \in TxRow
        OBVIOUS
      <3>2. [tx[u] EXCEPT !.bytes = FALSE] \in TxRow
        BY Zenon, <3>1
      <3>. QED BY <3>1, <3>2
    <2>. QED BY <2>1, <2>2, <2>3
  <1>2. RowsOwned'
    BY DEF RowsOwned
  <1>3. UnsignedRows'
    BY DEF UnsignedRows
  <1>4. NonceDiscipline'
    BY DEF NonceDiscipline
  <1>5. OneActive'
    BY DEF OneActive, Active
  <1>6. HandleRecorded'
    BY DEF HandleRecorded
  <1>7. FillersApart'
    BY DEF FillersApart, UnsignedRows, RowsOwned
  <1>8. StateAgrees'
    BY DEF StateAgrees, RowsAgree, FillersApart, UnsignedRows, OneActive, RowsOwned, Rows,
           ActiveRows, Active, ActiveStatuses, Final, Watched
  <1>9. RedactedSpent'
    BY DEF RedactedSpent, Rows, Final, RowsOwned
  <1>. QED BY <1>1, <1>2, <1>3, <1>4, <1>5, <1>6, <1>7, <1>8, <1>9 DEF StoreInv

(* RecordVerification keeps the invariant: it inserts a payment that has no
   transaction row. *)
LEMMA VerificationKeeps ==
    ASSUME StoreInv, NEW p \in Payments,
           RecordVerification(p)
    PROVE  StoreInv'
  <1>. USE NoneAssumption, SeedsAssumption DEF StoreInv, StoreTypeOK, TxRow, Unused, Absent,
           RecordVerification, Move
  <1>1. StoreTypeOK'
    BY DEF States, TxStatuses, ActiveStatuses
  <1>2. RowsOwned'
    BY DEF RowsOwned
  <1>3. UnsignedRows'
    BY DEF UnsignedRows
  <1>4. NonceDiscipline'
    BY DEF NonceDiscipline
  <1>5. OneActive'
    BY DEF OneActive, Active
  <1>6. HandleRecorded'
    BY DEF HandleRecorded
  <1>7. FillersApart'
    BY DEF FillersApart
  <1>8. StateAgrees'
    <2>. SUFFICES ASSUME NEW q \in Payments PROVE RowsAgree(q)'
      BY DEF StateAgrees
    <2>. RowsAgree(q)
      BY DEF StateAgrees
    <2>1. CASE q = p
      BY <2>1 DEF RowsAgree, Rows, ActiveRows, Active, ActiveStatuses, Final
    <2>2. CASE q # p
      BY <2>2, OtherPayment DEF RowsOwned
    <2>. QED BY <2>1, <2>2
  <1>9. RedactedSpent'
    BY DEF RedactedSpent, Rows, Final
  <1>. QED BY <1>1, <1>2, <1>3, <1>4, <1>5, <1>6, <1>7, <1>8, <1>9 DEF StoreInv

(* CreateSettlementIntent keeps the invariant: the nonce it hands out is the signer's
   next one, and the payment had no active row, by the agreement of state and rows. *)
LEMMA IntentKeeps ==
    ASSUME StoreInv, NEW p \in Payments, NEW n \in TxIds,
           CreateSettlementIntent(p, n)
    PROVE  StoreInv'
  <1>. USE NoneAssumption, SeedsAssumption DEF StoreInv, StoreTypeOK, TxRow, Unused, Absent,
           CreateSettlementIntent, CanCreateIntent, Move
  <1>1. StoreTypeOK'
    BY DEF States, TxStatuses, ActiveStatuses
  <1>2. RowsOwned'
    BY DEF RowsOwned
  <1>3. UnsignedRows'
    BY DEF UnsignedRows
  <1>4. NonceDiscipline'
    BY DEF NonceDiscipline, RowsOwned, StateAgrees, RowsAgree, Rows
  <1>5. OneActive'
    BY DEF OneActive, Active, ActiveStatuses, ActiveRows, Rows
  <1>6. HandleRecorded'
    BY DEF HandleRecorded
  <1>7. FillersApart'
    BY DEF FillersApart
  <1>8. StateAgrees'
    <2>. SUFFICES ASSUME NEW q \in Payments PROVE RowsAgree(q)'
      BY DEF StateAgrees
    <2>. RowsAgree(q)
      BY DEF StateAgrees
    <2>1. CASE q = p
      BY <2>1 DEF RowsAgree, Rows, ActiveRows, Active, ActiveStatuses, Final
    <2>2. CASE q # p
      BY <2>2, OtherPayment DEF RowsOwned
    <2>. QED BY <2>1, <2>2
  <1>9. RedactedSpent'
    BY DEF RedactedSpent, Rows, Final
  <1>. QED BY <1>1, <1>2, <1>3, <1>4, <1>5, <1>6, <1>7, <1>8, <1>9 DEF StoreInv

(* MarkTxSigned keeps the invariant: it writes the hash into a prepared row and moves
   no state. *)
LEMMA SignedKeeps ==
    ASSUME StoreInv, NEW t \in TxIds, NEW h \in FreshHashes,
           MarkTxSigned(t, h)
    PROVE  StoreInv'
  <1>. USE NoneAssumption, SeedsAssumption DEF StoreInv, StoreTypeOK, TxRow, Unused, Absent,
           MarkTxSigned, CanMarkTxSigned, Version, FreshHashes
  <1>1. StoreTypeOK'
    BY DEF States, TxStatuses, ActiveStatuses
  <1>2. RowsOwned'
    BY DEF RowsOwned
  <1>3. UnsignedRows'
    BY DEF UnsignedRows
  <1>4. NonceDiscipline'
    BY DEF NonceDiscipline
  <1>5. OneActive'
    BY DEF OneActive, Active, ActiveStatuses
  <1>6. HandleRecorded'
    BY DEF HandleRecorded, Watched, Final
  <1>7. FillersApart'
    BY DEF FillersApart
  <1>8. StateAgrees'
    <2>. SUFFICES ASSUME NEW q \in Payments PROVE RowsAgree(q)'
      BY DEF StateAgrees
    <2>. RowsAgree(q)
      BY Zenon DEF StateAgrees
    <2>1. CASE q = tx[t].pay
      <3>1. /\ \A u \in TxIds : tx'[u].pay = tx[u].pay /\ (u # t => tx'[u] = tx[u])
            /\ tx[t].status = "intent" /\ tx'[t].status = "broadcasting"
            /\ tx'[t].bytes = tx[t].bytes /\ payment'[q] = payment[q]
        BY DEF RowsOwned
      <3>2. Rows(q)' = Rows(q)
        BY <3>1 DEF Rows
      <3>3. ActiveRows(q)' = ActiveRows(q)
        BY <3>1, <3>2 DEF ActiveRows, Active, ActiveStatuses, Rows
      <3>. HIDE DEF StoreInv, MarkTxSigned
      <3>. QED BY <2>1, <3>1, <3>2, <3>3 DEF RowsAgree, Rows, ActiveRows, Active, ActiveStatuses, Final
    <2>2. CASE q # tx[t].pay
      BY <2>2, OtherPayment DEF RowsOwned
    <2>. QED BY <2>1, <2>2
  <1>9. RedactedSpent'
    BY DEF RedactedSpent, Rows
  <1>. QED BY <1>1, <1>2, <1>3, <1>4, <1>5, <1>6, <1>7, <1>8, <1>9 DEF StoreInv

(* MarkTxBroadcast keeps the invariant: row and payment move together, with the handle
   written in the same transaction. *)
LEMMA BroadcastKeeps ==
    ASSUME StoreInv, NEW p \in Payments, NEW t \in TxIds, NEW actor,
           MarkTxBroadcast(p, t, tx[t].raw, actor)
    PROVE  StoreInv'
  <1>. USE NoneAssumption, SeedsAssumption DEF StoreInv, StoreTypeOK, TxRow, Unused, Absent,
           MarkTxBroadcast, CanMarkTxBroadcast, RowIn, CanMove, Version, Move
  <1>1. StoreTypeOK'
    BY DEF States, TxStatuses, ActiveStatuses
  <1>2. RowsOwned'
    BY DEF RowsOwned
  <1>3. UnsignedRows'
    BY DEF UnsignedRows
  <1>4. NonceDiscipline'
    BY DEF NonceDiscipline
  <1>5. OneActive'
    BY DEF OneActive, Active, ActiveStatuses
  <1>6. HandleRecorded'
    BY DEF HandleRecorded
  <1>7. FillersApart'
    BY DEF FillersApart
  <1>8. StateAgrees'
    <2>. SUFFICES ASSUME NEW q \in Payments PROVE RowsAgree(q)'
      BY DEF StateAgrees
    <2>. RowsAgree(q)
      BY DEF StateAgrees
    <2>1. CASE q = p
      BY <2>1 DEF RowsAgree, Rows, ActiveRows, Active, ActiveStatuses, Final
    <2>2. CASE q # p
      BY <2>2, OtherPayment DEF RowsOwned
    <2>. QED BY <2>1, <2>2
  <1>9. RedactedSpent'
    BY DEF RedactedSpent, Rows, Final
  <1>. QED BY <1>1, <1>2, <1>3, <1>4, <1>5, <1>6, <1>7, <1>8, <1>9 DEF StoreInv

(* MarkTxAmbiguous keeps the invariant: row and payment move to ambiguous together. *)
LEMMA AmbiguousKeeps ==
    ASSUME StoreInv, NEW p \in Payments, NEW t \in TxIds,
           MarkTxAmbiguous(p, t, "worker")
    PROVE  StoreInv'
  <1>. USE NoneAssumption, SeedsAssumption DEF StoreInv, StoreTypeOK, TxRow, Unused, Absent,
           MarkTxAmbiguous, CanMarkTxAmbiguous, RowIn, CanMove, SetStatus, Move
  <1>1. StoreTypeOK'
    BY DEF States, TxStatuses, ActiveStatuses
  <1>2. RowsOwned'
    BY DEF RowsOwned
  <1>3. UnsignedRows'
    BY DEF UnsignedRows
  <1>4. NonceDiscipline'
    BY DEF NonceDiscipline
  <1>5. OneActive'
    BY DEF OneActive, Active, ActiveStatuses
  <1>6. HandleRecorded'
    BY DEF HandleRecorded, Watched, Final
  <1>7. FillersApart'
    BY DEF FillersApart
  <1>8. StateAgrees'
    <2>. SUFFICES ASSUME NEW q \in Payments PROVE RowsAgree(q)'
      BY DEF StateAgrees
    <2>. RowsAgree(q)
      BY DEF StateAgrees
    <2>1. CASE q = p
      BY <2>1 DEF RowsAgree, Rows, ActiveRows, Active, ActiveStatuses, Final
    <2>2. CASE q # p
      BY <2>2, OtherPayment DEF RowsOwned
    <2>. QED BY <2>1, <2>2
  <1>9. RedactedSpent'
    BY DEF RedactedSpent, Rows, Final
  <1>. QED BY <1>1, <1>2, <1>3, <1>4, <1>5, <1>6, <1>7, <1>8, <1>9 DEF StoreInv

(* The pre-broadcast drop (failed or expired) keeps the invariant: the row leaves the
   active set as the payment leaves the active states. *)
LEMMA DropIntentKeeps ==
    ASSUME StoreInv, NEW p \in Payments, NEW t \in TxIds, NEW to \in {"failed", "expired"},
           DropIntent(p, t, to, "worker")
    PROVE  StoreInv'
  <1>. USE NoneAssumption, SeedsAssumption DEF StoreInv, StoreTypeOK, TxRow, Unused, Absent,
           DropIntent, CanDropIntent, RowIn, CanMove, SetStatus, Move
  <1>1. StoreTypeOK'
    BY DEF States, TxStatuses, ActiveStatuses
  <1>2. RowsOwned'
    BY DEF RowsOwned
  <1>3. UnsignedRows'
    BY DEF UnsignedRows
  <1>4. NonceDiscipline'
    BY DEF NonceDiscipline
  <1>5. OneActive'
    BY DEF OneActive, Active, ActiveStatuses
  <1>6. HandleRecorded'
    BY DEF HandleRecorded, Watched, Final
  <1>7. FillersApart'
    BY DEF FillersApart
  <1>8. StateAgrees'
    <2>. SUFFICES ASSUME NEW q \in Payments PROVE RowsAgree(q)'
      BY DEF StateAgrees
    <2>. RowsAgree(q)
      BY DEF StateAgrees
    <2>1. CASE q = p
      BY <2>1 DEF RowsAgree, Rows, ActiveRows, Active, ActiveStatuses, Final
    <2>2. CASE q # p
      BY <2>2, OtherPayment DEF RowsOwned
    <2>. QED BY <2>1, <2>2
  <1>9. RedactedSpent'
    BY DEF RedactedSpent, Rows, Final
  <1>. QED BY <1>1, <1>2, <1>3, <1>4, <1>5, <1>6, <1>7, <1>8, <1>9 DEF StoreInv

(* MarkTxConfirming keeps the invariant: the row was active before and after, and the
   payment stays among the watched states. *)
LEMMA ConfirmingKeeps ==
    ASSUME StoreInv, NEW p \in Payments, NEW t \in TxIds,
           payment[p] \in Watched \cup Final, MarkTxConfirming(p, t, "worker")
    PROVE  StoreInv'
  <1>. USE NoneAssumption, SeedsAssumption DEF StoreInv, StoreTypeOK, TxRow, Unused, Absent,
           MarkTxConfirming, RowIn, Move, Watched, Final
  <1>1. StoreTypeOK'
    BY DEF States, TxStatuses, ActiveStatuses
  <1>2. RowsOwned'
    BY DEF RowsOwned
  <1>3. UnsignedRows'
    BY DEF UnsignedRows
  <1>4. NonceDiscipline'
    BY DEF NonceDiscipline
  <1>5. OneActive'
    BY DEF OneActive, Active, ActiveStatuses
  <1>6. HandleRecorded'
    BY DEF HandleRecorded
  <1>7. FillersApart'
    BY DEF FillersApart, UnsignedRows, RowsOwned
  <1>8. StateAgrees'
    <2>. SUFFICES ASSUME NEW q \in Payments PROVE RowsAgree(q)'
      BY DEF StateAgrees
    <2>. RowsAgree(q)
      BY DEF StateAgrees
    <2>1. CASE q = p
      BY <2>1 DEF RowsAgree, Rows, ActiveRows, Active, ActiveStatuses
    <2>2. CASE q # p
      BY <2>2, OtherPayment DEF RowsOwned
    <2>. QED BY <2>1, <2>2
  <1>9. RedactedSpent'
    BY DEF RedactedSpent, Rows
  <1>. QED BY <1>1, <1>2, <1>3, <1>4, <1>5, <1>6, <1>7, <1>8, <1>9 DEF StoreInv

(* Finalize keeps the invariant: the only active row becomes mined or failed as the
   payment becomes final. *)
LEMMA FinalizeKeeps ==
    ASSUME StoreInv, NEW p \in Payments, NEW t \in TxIds, NEW final \in Final, NEW actor,
           Finalize(p, t, final, actor)
    PROVE  StoreInv'
  <1>. USE NoneAssumption, SeedsAssumption DEF StoreInv, StoreTypeOK, TxRow, Unused, Absent,
           Finalize, CanFinalize, RowIn, CanMove, SetStatus, Move, Final
  <1>1. StoreTypeOK'
    BY DEF States, TxStatuses, ActiveStatuses
  <1>2. RowsOwned'
    BY DEF RowsOwned
  <1>3. UnsignedRows'
    BY DEF UnsignedRows
  <1>4. NonceDiscipline'
    BY DEF NonceDiscipline
  <1>5. OneActive'
    BY DEF OneActive, Active, ActiveStatuses
  <1>6. HandleRecorded'
    BY DEF HandleRecorded, Watched
  <1>7. FillersApart'
    BY DEF FillersApart
  <1>8. StateAgrees'
    <2>. SUFFICES ASSUME NEW q \in Payments PROVE RowsAgree(q)'
      BY DEF StateAgrees
    <2>. RowsAgree(q)
      BY DEF StateAgrees
    <2>1. CASE q = p
      BY <2>1 DEF RowsAgree, FillersApart, UnsignedRows, OneActive, RowsOwned, Rows, ActiveRows, Active,
             ActiveStatuses, Watched
    <2>2. CASE q # p
      BY <2>2, OtherPayment DEF RowsOwned
    <2>. QED BY <2>1, <2>2
  <1>9. RedactedSpent'
    BY DEF RedactedSpent, Rows
  <1>. QED BY <1>1, <1>2, <1>3, <1>4, <1>5, <1>6, <1>7, <1>8, <1>9 DEF StoreInv

(* MarkTxReorgedOut keeps the invariant: a final payment is watched again and its mined
   row is active again; no other row of the payment was active. *)
LEMMA ReorgedOutKeeps ==
    ASSUME StoreInv, NEW p \in Payments, NEW t \in TxIds,
           MarkTxReorgedOut(p, t, "worker")
    PROVE  StoreInv'
  <1>. USE NoneAssumption, SeedsAssumption DEF StoreInv, StoreTypeOK, TxRow, Unused, Absent,
           MarkTxReorgedOut, CanMarkTxReorgedOut, RowIn, CanMove, SetStatus, Move
  <1>1. StoreTypeOK'
    BY DEF States, TxStatuses, ActiveStatuses
  <1>2. RowsOwned'
    BY DEF RowsOwned
  <1>3. UnsignedRows'
    BY DEF UnsignedRows
  <1>4. NonceDiscipline'
    BY DEF NonceDiscipline
  <1>5. OneActive'
    BY DEF OneActive, Active, ActiveStatuses
  <1>6. HandleRecorded'
    BY DEF HandleRecorded, Watched, Final
  <1>7. FillersApart'
    BY DEF FillersApart
  <1>8. StateAgrees'
    <2>. SUFFICES ASSUME NEW q \in Payments PROVE RowsAgree(q)'
      BY DEF StateAgrees
    <2>. RowsAgree(q)
      BY DEF StateAgrees
    <2>1. CASE q = p
      BY <2>1 DEF RowsAgree, Rows, ActiveRows, Active, ActiveStatuses, Final
    <2>2. CASE q # p
      BY <2>2, OtherPayment DEF RowsOwned
    <2>. QED BY <2>1, <2>2
  <1>9. RedactedSpent'
    BY DEF RedactedSpent, Rows, Final
  <1>. QED BY <1>1, <1>2, <1>3, <1>4, <1>5, <1>6, <1>7, <1>8, <1>9 DEF StoreInv

(* MarkTxRecoveredBroadcast keeps the invariant: an ambiguous row and its payment
   become broadcast together. *)
LEMMA RecoveredKeeps ==
    ASSUME StoreInv, NEW p \in Payments, NEW t \in TxIds,
           MarkTxRecoveredBroadcast(p, t, tx[t].raw, "worker")
    PROVE  StoreInv'
  <1>. USE NoneAssumption, SeedsAssumption DEF StoreInv, StoreTypeOK, TxRow, Unused, Absent,
           MarkTxRecoveredBroadcast, CanMarkTxRecoveredBroadcast, RowIn, CanMove, Version, Move
  <1>1. StoreTypeOK'
    BY DEF States, TxStatuses, ActiveStatuses
  <1>2. RowsOwned'
    BY DEF RowsOwned
  <1>3. UnsignedRows'
    BY DEF UnsignedRows
  <1>4. NonceDiscipline'
    BY DEF NonceDiscipline
  <1>5. OneActive'
    BY DEF OneActive, Active, ActiveStatuses
  <1>6. HandleRecorded'
    BY DEF HandleRecorded
  <1>7. FillersApart'
    BY DEF FillersApart
  <1>8. StateAgrees'
    <2>. SUFFICES ASSUME NEW q \in Payments PROVE RowsAgree(q)'
      BY DEF StateAgrees
    <2>. RowsAgree(q)
      BY DEF StateAgrees
    <2>1. CASE q = p
      BY <2>1 DEF RowsAgree, Rows, ActiveRows, Active, ActiveStatuses, Final
    <2>2. CASE q # p
      BY <2>2, OtherPayment DEF RowsOwned
    <2>. QED BY <2>1, <2>2
  <1>9. RedactedSpent'
    BY DEF RedactedSpent, Rows, Final
  <1>. QED BY <1>1, <1>2, <1>3, <1>4, <1>5, <1>6, <1>7, <1>8, <1>9 DEF StoreInv

(* MarkTxAmbiguousReplaced keeps the invariant: the new row takes over the old row's
   nonce and place as the active one. *)
LEMMA AmbiguousReplacedKeeps ==
    ASSUME StoreInv, NEW p \in Payments, NEW t \in TxIds, NEW n \in TxIds, NEW h \in FreshHashes,
           MarkTxAmbiguousReplaced(p, t, n, h, "worker")
    PROVE  StoreInv'
  <1>. USE NoneAssumption, SeedsAssumption DEF StoreInv, StoreTypeOK, TxRow, Unused, Absent,
           MarkTxAmbiguousReplaced, CanMarkTxAmbiguousReplaced, RowIn, CanMove, Version,
           Replacement, FreshHashes, Move
  <1>a. /\ \A u \in TxIds \ {n, t} : tx'[u] = tx[u]
        /\ tx'[t].pay = p /\ tx'[t].status = "replaced" /\ ~ tx'[t].bytes
        /\ tx'[n].pay = p /\ tx'[n].status = "broadcast" /\ ~ tx'[n].bytes
        /\ \A u \in TxIds : tx[u].pay = p => ~ tx[u].bytes
    BY DEF FillersApart
  <1>1. StoreTypeOK'
    BY DEF States, TxStatuses, ActiveStatuses
  <1>2. RowsOwned'
    BY Zenon DEF RowsOwned
  <1>3. UnsignedRows'
    <2>. SUFFICES ASSUME NEW u \in TxIds
                  PROVE  /\ tx'[u].status \in {Unused, "intent"} => tx'[u].raw = None
                         /\ tx'[u].status \in {Unused, "intent", "broadcasting", "ambiguous"} =>
                               ~ tx'[u].bytes
      BY Zenon DEF UnsignedRows
    <2>1. CASE u \in {n, t}
      BY Zenon, <1>a, <2>1
    <2>2. CASE u \notin {n, t}
      BY Zenon, <1>a, <2>2 DEF UnsignedRows
    <2>. QED BY <2>1, <2>2
  <1>4. NonceDiscipline'
    BY DEF NonceDiscipline
  <1>5. OneActive'
    BY DEF OneActive, Active, ActiveStatuses
  <1>6. HandleRecorded'
    BY Zenon DEF HandleRecorded
  <1>7. FillersApart'
    <2>. SUFFICES ASSUME NEW u \in TxIds, tx'[u].bytes
                  PROVE  /\ payment'[tx'[u].pay] \in {"expired", "failed", "manual_review"}
                         /\ \A v \in TxIds : tx'[v].pay = tx'[u].pay => tx'[v].status # "ambiguous"
      BY Zenon DEF FillersApart
    <2>1. tx'[u] = tx[u] /\ tx[u].pay # p
      BY <1>a
    <2>2. payment[tx[u].pay] \in {"expired", "failed", "manual_review"}
          /\ \A v \in TxIds : tx[v].pay = tx[u].pay => tx[v].status # "ambiguous"
      BY <2>1 DEF FillersApart
    <2>3. payment'[tx[u].pay] = payment[tx[u].pay]
      BY <2>1, <2>2 DEF RowsOwned
    <2>4. ASSUME NEW v \in TxIds, tx'[v].pay = tx[u].pay PROVE tx'[v].status # "ambiguous"
      BY <1>a, <2>1, <2>2, <2>4
    <2>. QED BY Zenon, <2>1, <2>2, <2>3, <2>4
  <1>8. StateAgrees'
    <2>. SUFFICES ASSUME NEW q \in Payments PROVE RowsAgree(q)'
      BY DEF StateAgrees
    <2>. RowsAgree(q)
      BY Zenon DEF StateAgrees
    <2>1. CASE q = p
      BY Zenon, <2>1 DEF RowsAgree, Rows, ActiveRows, Active, ActiveStatuses, Final
    <2>2. CASE q # p
      BY <2>2, OtherPayment DEF RowsOwned
    <2>. QED BY <2>1, <2>2
  <1>9. RedactedSpent'
    <2>. SUFFICES ASSUME NEW q \in Payments, redacted[q]
                  PROVE  /\ payment'[q] \in Final \cup {"failed", "expired"}
                         /\ payment'[q] \in {"failed", "expired"} =>
                               \A u \in TxIds : tx'[u].pay = q => tx'[u].status = "reverted"
      BY DEF RedactedSpent, Rows
    <2>1. q # p
      BY DEF RedactedSpent, Final
    <2>2. payment'[q] = payment[q]
      BY Zenon, <2>1
    <2>3. \A u \in TxIds : tx'[u].pay = q => tx'[u] = tx[u]
      BY <1>a, <2>1
    <2>. QED BY <2>2, <2>3 DEF RedactedSpent, Rows
  <1>. QED BY Zenon, <1>1, <1>2, <1>3, <1>4, <1>5, <1>6, <1>7, <1>8, <1>9 DEF StoreInv

(* MarkTxReplaced (a fee bump) keeps the invariant: the old row stops being active in
   the transaction that inserts the new one. *)
LEMMA ReplacedKeeps ==
    ASSUME StoreInv, NEW p \in Payments, NEW t \in TxIds, NEW n \in TxIds, NEW h \in FreshHashes,
           MarkTxReplaced(p, t, n, h, "worker")
    PROVE  StoreInv'
  <1>. USE NoneAssumption, SeedsAssumption DEF StoreInv, StoreTypeOK, TxRow, Unused, Absent,
           MarkTxReplaced, CanMarkTxReplaced, RowIn, Version, Replacement, FreshHashes, Move
  <1>1. StoreTypeOK'
    BY DEF States, TxStatuses, ActiveStatuses
  <1>2. RowsOwned'
    BY DEF RowsOwned
  <1>3. UnsignedRows'
    BY DEF UnsignedRows
  <1>4. NonceDiscipline'
    BY DEF NonceDiscipline
  <1>5. OneActive'
    BY DEF OneActive, Active, ActiveStatuses
  <1>6. HandleRecorded'
    BY DEF HandleRecorded, Watched, Final
  <1>7. FillersApart'
    BY DEF FillersApart
  <1>8. StateAgrees'
    <2>. SUFFICES ASSUME NEW q \in Payments PROVE RowsAgree(q)'
      BY DEF StateAgrees
    <2>. RowsAgree(q)
      BY DEF StateAgrees
    <2>1. CASE q = p
      BY <2>1 DEF RowsAgree, Rows, ActiveRows, Active, ActiveStatuses, Final
    <2>2. CASE q # p
      BY <2>2, OtherPayment DEF RowsOwned
    <2>. QED BY <2>1, <2>2
  <1>9. RedactedSpent'
    BY DEF RedactedSpent, Rows, Final
  <1>. QED BY <1>1, <1>2, <1>3, <1>4, <1>5, <1>6, <1>7, <1>8, <1>9 DEF StoreInv

(* MarkReplacementLanded keeps the invariant: the active row is dropped in the
   transaction that makes the superseded row of the same nonce active or final. *)
LEMMA LandedKeeps ==
    ASSUME StoreInv, NEW p \in Payments, NEW t \in TxIds, NEW ok \in BOOLEAN,
           MarkReplacementLanded(p, t, ok, "worker")
    PROVE  StoreInv'
  <1>. USE NoneAssumption, SeedsAssumption DEF StoreInv, StoreTypeOK, TxRow, Unused, Absent,
           MarkReplacementLanded, CanMarkReplacementLanded, RowIn, CanMove, Move
  <1>a. \A u \in TxIds : /\ tx'[u].pay = tx[u].pay /\ tx'[u].nonce = tx[u].nonce
                         /\ tx'[u].status = Unused <=> tx[u].status = Unused
                         /\ tx[u].pay # p => tx'[u] = tx[u]
    BY DEF ActiveRows, Rows, Active, ActiveStatuses
  <1>1. StoreTypeOK'
    BY DEF States, TxStatuses, ActiveStatuses
  <1>2. RowsOwned'
    BY <1>a DEF RowsOwned
  <1>3. UnsignedRows'
    BY DEF UnsignedRows
  <1>4. NonceDiscipline'
    BY <1>a DEF NonceDiscipline
  <1>5. OneActive'
    BY DEF OneActive, Active, ActiveStatuses, ActiveRows, Rows
  <1>6. HandleRecorded'
    BY DEF HandleRecorded, Watched, Final
  <1>7. FillersApart'
    BY DEF FillersApart
  <1>8. StateAgrees'
    <2>. SUFFICES ASSUME NEW q \in Payments PROVE RowsAgree(q)'
      BY DEF StateAgrees
    <2>. RowsAgree(q)
      BY DEF StateAgrees
    <2>1. CASE q = p
      <3>1. /\ payment'[p] = (IF ok THEN "confirming" ELSE "reverted")
            /\ t \in Rows(p)' /\ tx'[t].status = payment'[p]
        BY Zenon DEF Rows
      <3>2. ~ok => ActiveRows(p)' = {}
        BY <1>a DEF Rows, ActiveRows, Active, ActiveStatuses
      <3>. QED BY <2>1, <3>1, <3>2 DEF RowsAgree, Final
    <2>2. CASE q # p
      BY <1>a, <2>2, OtherPayment
    <2>. QED BY <2>1, <2>2
  <1>9. RedactedSpent'
    BY DEF RedactedSpent, RowsOwned, StateAgrees, RowsAgree, Rows, ActiveRows, Active,
           ActiveStatuses, Final
  <1>. QED BY Zenon, <1>1, <1>2, <1>3, <1>4, <1>5, <1>6, <1>7, <1>8, <1>9 DEF StoreInv

(* MarkGapFillerPrepared keeps the invariant: the unique index admits the row, and it
   keeps the nonce it was allocated. *)
LEMMA PreparedKeeps ==
    ASSUME StoreInv, NEW t \in TxIds, NEW h \in FreshHashes,
           payment[tx[t].pay] \in {"expired", "failed", "manual_review"},
           MarkGapFillerPrepared(t, h)
    PROVE  StoreInv'
  <1>. USE NoneAssumption, SeedsAssumption DEF StoreInv, StoreTypeOK, TxRow, Unused, Absent,
           MarkGapFillerPrepared, CanMarkGapFillerPrepared, IndexAdmits, Version, FreshHashes
  <1>1. StoreTypeOK'
    BY DEF States, TxStatuses, ActiveStatuses
  <1>2. RowsOwned'
    BY DEF RowsOwned
  <1>3. UnsignedRows'
    BY DEF UnsignedRows
  <1>4. NonceDiscipline'
    BY DEF NonceDiscipline
  <1>5. OneActive'
    BY DEF OneActive, Active, ActiveStatuses, ActiveRows, Rows
  <1>6. HandleRecorded'
    BY Zenon DEF HandleRecorded
  <1>7. FillersApart'
    <2>. SUFFICES ASSUME NEW u \in TxIds, tx'[u].bytes
                  PROVE  /\ payment'[tx'[u].pay] \in {"expired", "failed", "manual_review"}
                         /\ \A v \in TxIds : tx'[v].pay = tx'[u].pay => tx'[v].status # "ambiguous"
      BY DEF FillersApart
    <2>1. CASE u = t
      BY <2>1 DEF Rows, ActiveRows, Active, ActiveStatuses
    <2>2. CASE u # t
      BY <2>2 DEF FillersApart
    <2>. QED BY Zenon, <2>1, <2>2
  <1>8. StateAgrees'
    <2>. SUFFICES ASSUME NEW q \in Payments PROVE RowsAgree(q)'
      BY DEF StateAgrees
    <2>. RowsAgree(q)
      BY DEF StateAgrees
    <2>1. CASE q = tx[t].pay
      BY <2>1 DEF RowsAgree, Rows, ActiveRows, Active, ActiveStatuses, Final
    <2>2. CASE q # tx[t].pay
      BY <2>2, OtherPayment DEF RowsOwned
    <2>. QED BY <2>1, <2>2
  <1>9. RedactedSpent'
    BY DEF RedactedSpent, Rows
  <1>. QED BY Zenon, <1>1, <1>2, <1>3, <1>4, <1>5, <1>6, <1>7, <1>8, <1>9 DEF StoreInv

(* MarkGapFillerReplaced keeps the invariant: the old filler stops being active in the
   transaction that inserts the new one, with the same nonce. *)
LEMMA FillerReplacedKeeps ==
    ASSUME StoreInv, NEW p \in Payments, NEW t \in TxIds, NEW n \in TxIds, NEW h \in FreshHashes,
           MarkGapFillerReplaced(p, t, n, h)
    PROVE  StoreInv'
  <1>. USE NoneAssumption, SeedsAssumption DEF StoreInv, StoreTypeOK, TxRow, Unused, Absent,
           MarkGapFillerReplaced, CanMarkGapFillerReplaced, RowIn, Version, Replacement, FreshHashes
  <1>1. StoreTypeOK'
    <2>. tx' \in [TxIds -> TxRow]
      BY DEF TxStatuses
    <2>. QED OBVIOUS
  <1>2. RowsOwned'
    BY DEF RowsOwned
  <1>3. UnsignedRows'
    BY DEF UnsignedRows
  <1>4. NonceDiscipline'
    BY DEF NonceDiscipline
  <1>5. OneActive'
    BY DEF OneActive, Active, ActiveStatuses
  <1>6. HandleRecorded'
    BY DEF HandleRecorded, Watched, Final
  <1>7. FillersApart'
    BY DEF FillersApart
  <1>8. StateAgrees'
    <2>. SUFFICES ASSUME NEW q \in Payments PROVE RowsAgree(q)'
      BY DEF StateAgrees
    <2>. RowsAgree(q)
      BY DEF StateAgrees
    <2>1. CASE q = p
      <3>1. payment[p] \in {"expired", "failed", "manual_review"} /\ payment' = payment
        BY DEF FillersApart
      <3>2. /\ \A u \in TxIds : u \notin {t, n} => tx'[u] = tx[u]
            /\ tx[t].status = "broadcast" /\ tx[n].status = "unused"
            /\ tx'[t].bytes /\ tx'[n].bytes
        BY Zenon
      <3>. HIDE DEF MarkGapFillerReplaced
      <3>3. CASE payment[p] = "manual_review"
        <4>1. PICK u \in TxIds : tx[u].pay = p /\ tx[u].status \in {"ambiguous", "confirming"}
          BY Zenon, <2>1, <3>3 DEF RowsAgree, Rows
        <4>2. u \in TxIds /\ tx'[u] = tx[u]
          BY Zenon, <3>2, <4>1
        <4>. QED BY Zenon, <2>1, <3>1, <3>3, <4>1, <4>2 DEF RowsAgree, Rows, Final
      <3>4. CASE payment[p] \in {"expired", "failed"}
        <4>1. \A u \in TxIds : tx'[u].pay = p => tx'[u].bytes \/ tx'[u].status \in {"dropped", "reverted"}
          BY <2>1, <3>2, <3>4 DEF RowsAgree, Rows
        <4>. QED BY Zenon, <2>1, <3>1, <3>4, <4>1 DEF RowsAgree, Rows, Final
      <3>. QED BY <3>1, <3>3, <3>4
    <2>2. CASE q # p
      BY <2>2, OtherPayment DEF RowsOwned
    <2>. QED BY <2>1, <2>2
  <1>9. RedactedSpent'
    BY DEF RedactedSpent, Rows
  <1>. QED BY <1>1, <1>2, <1>3, <1>4, <1>5, <1>6, <1>7, <1>8, <1>9 DEF StoreInv

(* MarkGapFillerResolved keeps the invariant: the mined filler becomes reverted and
   every live sibling is dropped, so no row of the payment stays active. *)
LEMMA ResolvedKeeps ==
    ASSUME StoreInv, NEW t \in TxIds,
           tx[t].bytes, MarkGapFillerResolved(t)
    PROVE  StoreInv'
  <1>. USE NoneAssumption, SeedsAssumption DEF StoreInv, StoreTypeOK, TxRow, Unused, Absent,
           MarkGapFillerResolved, CanMarkGapFillerResolved, SettleFiller, RowIn
  <1>1. StoreTypeOK'
    BY DEF States, TxStatuses, ActiveStatuses
  <1>2. RowsOwned'
    BY DEF RowsOwned
  <1>3. UnsignedRows'
    BY DEF UnsignedRows
  <1>4. NonceDiscipline'
    BY DEF NonceDiscipline
  <1>5. OneActive'
    BY DEF OneActive, Active, ActiveStatuses
  <1>6. HandleRecorded'
    BY DEF HandleRecorded, Watched, Final
  <1>7. FillersApart'
    BY DEF FillersApart
  <1>8. StateAgrees'
    <2>. SUFFICES ASSUME NEW q \in Payments PROVE RowsAgree(q)'
      BY DEF StateAgrees
    <2>. RowsAgree(q)
      BY DEF StateAgrees
    <2>1. CASE q = tx[t].pay
      <3>1. /\ payment'[q] = payment[q] /\ payment[q] \in {"expired", "failed", "manual_review"}
            /\ \A u \in Rows(q) : tx[u].status # "ambiguous"
        BY <2>1 DEF FillersApart, Rows
      <3>2. \A u \in Rows(q)' : /\ u \in Rows(q) /\ tx'[u].bytes = tx[u].bytes
                                /\ tx'[u].status = tx[u].status \/ tx'[u].status \in {"dropped", "reverted"}
        BY <2>1 DEF Rows
      <3>3. CASE payment[q] = "manual_review"
        <4>1. PICK u \in Rows(q) : tx[u].status = "confirming"
          BY <3>1, <3>3 DEF RowsAgree
        <4>2. u \in Rows(q)' /\ tx'[u].status = "confirming"
          BY <4>1 DEF Rows
        <4>. QED BY Zenon, <3>1, <3>3, <4>2 DEF RowsAgree, Final
      <3>4. CASE payment[q] \in {"expired", "failed"}
        BY <3>1, <3>2, <3>4 DEF RowsAgree, Final
      <3>. QED BY <3>1, <3>3, <3>4
    <2>2. CASE q # tx[t].pay
      BY <2>2, OtherPayment DEF RowsOwned
    <2>. QED BY <2>1, <2>2
  <1>9. RedactedSpent'
    BY DEF RedactedSpent, Rows
  <1>. QED BY Zenon, <1>1, <1>2, <1>3, <1>4, <1>5, <1>6, <1>7, <1>8, <1>9 DEF StoreInv

(* MarkGapFillerSucceeded keeps the invariant: the row that transferred after all is
   the one active row of a payment now in manual review. *)
LEMMA SucceededKeeps ==
    ASSUME StoreInv, NEW p \in Payments, NEW t \in TxIds,
           MarkGapFillerSucceeded(p, t, "worker")
    PROVE  StoreInv'
  <1>. USE NoneAssumption, SeedsAssumption DEF StoreInv, StoreTypeOK, TxRow, Unused, Absent,
           MarkGapFillerSucceeded, CanMarkGapFillerSucceeded, IndexAdmits, SettleFiller, RowIn,
           CanMove, Move
  <1>1. StoreTypeOK'
    <2>1. payment' \in [Payments -> States \cup {Absent}]
      BY DEF States
    <2>2. tx' \in [TxIds -> TxRow]
      BY DEF TxStatuses, ActiveStatuses
    <2>. QED BY <2>1, <2>2
  <1>2. RowsOwned'
    BY DEF RowsOwned
  <1>3. UnsignedRows'
    BY DEF UnsignedRows
  <1>4. NonceDiscipline'
    BY DEF NonceDiscipline
  <1>5. OneActive'
    BY DEF OneActive, Active, ActiveStatuses, ActiveRows, Rows
  <1>6. HandleRecorded'
    BY DEF HandleRecorded, Watched, Final
  <1>7. FillersApart'
    BY DEF FillersApart
  <1>8. StateAgrees'
    <2>. SUFFICES ASSUME NEW q \in Payments PROVE RowsAgree(q)'
      BY DEF StateAgrees
    <2>. RowsAgree(q)
      BY Zenon DEF StateAgrees
    <2>1. CASE q = p
      BY <2>1 DEF RowsAgree, Rows, ActiveRows, Active, ActiveStatuses, Final
    <2>2. CASE q # p
      BY <2>2, OtherPayment DEF RowsOwned
    <2>. QED BY <2>1, <2>2
  <1>9. RedactedSpent'
    BY DEF RedactedSpent, Rows
  <1>. QED BY Zenon, <1>1, <1>2, <1>3, <1>4, <1>5, <1>6, <1>7, <1>8, <1>9 DEF StoreInv

(* SeedSignerAccount keeps the invariant: it only ever raises the next nonce. *)
LEMMA SeedKeeps ==
    ASSUME StoreInv, NEW seed \in Seeds,
           SeedSignerAccount(seed)
    PROVE  StoreInv'
  <1>. USE NoneAssumption, SeedsAssumption DEF StoreInv, StoreTypeOK, TxRow, Unused, Absent,
           SeedSignerAccount
  <1>1. StoreTypeOK'
    BY DEF States, TxStatuses, ActiveStatuses
  <1>2. RowsOwned'
    BY DEF RowsOwned
  <1>3. UnsignedRows'
    BY DEF UnsignedRows
  <1>4. NonceDiscipline'
    BY DEF NonceDiscipline
  <1>5. OneActive'
    BY DEF OneActive, Active
  <1>6. HandleRecorded'
    BY DEF HandleRecorded
  <1>7. FillersApart'
    BY DEF FillersApart
  <1>8. StateAgrees'
    BY OtherPayment DEF StateAgrees
  <1>9. RedactedSpent'
    BY DEF RedactedSpent, Rows
  <1>. QED BY Zenon, <1>1, <1>2, <1>3, <1>4, <1>5, <1>6, <1>7, <1>8, <1>9 DEF StoreInv

-----------------------------------------------------------------------------
\* The empty record, whatever nonce the chain reports first, satisfies the invariant.
LEMMA InitHolds == StoreInit => StoreInv
  <1>. SUFFICES ASSUME StoreInit PROVE StoreInv
    OBVIOUS
  <1>. USE NoneAssumption, SeedsAssumption DEF StoreInit, NoRow, Unused, Absent
  <1>1. StoreTypeOK
    BY DEF StoreTypeOK, TxRow
  <1>2. RowsOwned /\ UnsignedRows /\ NonceDiscipline /\ HandleRecorded /\ FillersApart
    BY DEF RowsOwned, UnsignedRows, NonceDiscipline, HandleRecorded, FillersApart, Watched, Final
  <1>3. OneActive
    BY Zenon DEF OneActive, Active, ActiveStatuses
  <1>4. StateAgrees /\ RedactedSpent
    BY DEF StateAgrees, RowsAgree, RedactedSpent, Rows, Final
  <1>. QED BY <1>1, <1>2, <1>3, <1>4 DEF StoreInv

\* Any call of any method, by any caller, keeps the invariant.
LEMMA NextKeeps == StoreInv /\ [StoreNext]_storeVars => StoreInv'
  <1>. SUFFICES ASSUME StoreInv, [StoreNext]_storeVars PROVE StoreInv'
    OBVIOUS
  <1>1. CASE UNCHANGED storeVars
    <2>. USE <1>1 DEF storeVars, StoreInv
    <2>1. StoreTypeOK' /\ RowsOwned' /\ UnsignedRows' /\ NonceDiscipline'
      BY Zenon DEF StoreTypeOK, RowsOwned, UnsignedRows, NonceDiscipline
    <2>2. OneActive' /\ HandleRecorded' /\ FillersApart' /\ RedactedSpent'
      BY DEF OneActive, Active, HandleRecorded, FillersApart, RedactedSpent, Rows
    <2>3. StateAgrees'
      BY OtherPayment DEF StateAgrees
    <2>. QED BY Zenon, <2>1, <2>2, <2>3
  <1>2. ASSUME NEW expired \in SUBSET Payments, NEW erased \in SUBSET Payments,
               ApplyRetention(expired, erased)
        PROVE  StoreInv'
    BY <1>2, RetentionKeeps
  <1>3. ASSUME NEW p \in Payments, PaymentStep(p) PROVE StoreInv'
    BY <1>3, VerificationKeeps, IntentKeeps DEF PaymentStep
  <1>4. ASSUME NEW p \in Payments, NEW t \in TxIds, BroadcastStep(p, t) PROVE StoreInv'
    BY <1>4, SignedKeeps, BroadcastKeeps, AmbiguousKeeps, DropIntentKeeps
    DEF BroadcastStep, MarkIntentUnsettleable, MarkIntentExpired
  <1>5. ASSUME NEW p \in Payments, NEW t \in TxIds, ConfirmationStep(p, t) PROVE StoreInv'
    BY <1>5, ConfirmingKeeps, FinalizeKeeps, ReorgedOutKeeps
    DEF ConfirmationStep, MarkTxConfirmed, MarkTxReverted, Final
  <1>6. ASSUME NEW p \in Payments, NEW t \in TxIds, RecoveryStep(p, t) PROVE StoreInv'
    BY Zenon, <1>6, RecoveredKeeps, AmbiguousReplacedKeeps, ReplacedKeeps, LandedKeeps DEF RecoveryStep
  <1>7. ASSUME NEW p \in Payments, NEW t \in TxIds, GapFillerStep(p, t) PROVE StoreInv'
    BY <1>7, PreparedKeeps, FillerReplacedKeeps, ResolvedKeeps, SucceededKeeps DEF GapFillerStep
  <1>8. ASSUME NEW seed \in Seeds, SeedSignerAccount(seed) PROVE StoreInv'
    BY <1>8, SeedKeeps
  <1>. QED BY <1>1, <1>2, <1>3, <1>4, <1>5, <1>6, <1>7, <1>8 DEF StoreNext

\* The durable record is consistent in every reachable state, for any number of
\* payments, rows and callers: StoreInv is inductive.
THEOREM StoreInvariant == StoreSpec => []StoreInv
  BY InitHolds, NextKeeps, PTL DEF StoreSpec

\* Every row and every payment stays within the values the schema's checks allow.
THEOREM TypeCorrect == StoreSpec => []StoreTypeOK
  <1>1. StoreInv => StoreTypeOK
    BY DEF StoreInv
  <1>. QED BY <1>1, StoreInvariant, PTL

\* ApplyRetention never erases what recovery may still read.
LEMMA RedactionFollows == StoreInv => RedactionSafe
  <1>. SUFFICES ASSUME StoreInv, NEW p \in Payments, redacted[p]
                PROVE  /\ payment[p] \in Final \cup {"failed", "expired"}
                       /\ ActiveRows(p) = {}
                       /\ \A t \in Rows(p) : ~ BlockingGap(t) /\ ~ GapFiller(t)
    BY DEF RedactionSafe
  <1>. USE NoneAssumption DEF StoreInv, StoreTypeOK
  <1>1. payment[p] \in Final \cup {"failed", "expired"} /\ RowsAgree(p)
    BY Zenon DEF RedactedSpent, StateAgrees
  <1>2. ActiveRows(p) = {}
    BY Zenon, <1>1 DEF RedactedSpent, RowsAgree, Rows, ActiveRows, Active, ActiveStatuses, Final
  <1>3. \A t \in Rows(p) : ~ BlockingGap(t) /\ ~ GapFiller(t)
    BY <1>1, <1>2 DEF RedactedSpent, Rows, BlockingGap, GapFiller, Final
  <1>. QED BY <1>1, <1>2, <1>3

-----------------------------------------------------------------------------
(* The properties checked with TLC, for every value of the constants       *)

\* Nonce allocation and replacement never make two payments share a nonce, nor
\* one payment spend two.
THEOREM NoncesAreExclusive == StoreSpec => []NonceDiscipline
  <1>. StoreInv => NonceDiscipline
    BY DEF StoreInv
  <1>. QED BY StoreInvariant, PTL

\* At most one in-flight transaction per payment.
THEOREM OneInFlight == StoreSpec => []OneActive
  <1>. StoreInv => OneActive
    BY DEF StoreInv
  <1>. QED BY StoreInvariant, PTL

\* payment_records and ethereum_transactions tell the same story in every state.
THEOREM RecordAgrees == StoreSpec => []StateAgrees
  <1>. StoreInv => StateAgrees
    BY DEF StoreInv
  <1>. QED BY StoreInvariant, PTL

\* Every row that may be on the network names its hash.
THEOREM HandlesRecorded == StoreSpec => []HandleRecorded
  <1>. StoreInv => HandleRecorded
    BY DEF StoreInv
  <1>. QED BY StoreInvariant, PTL

\* Retention erases only what nothing will read again.
THEOREM RetentionIsSafe == StoreSpec => []RedactionSafe
  BY StoreInvariant, RedactionFollows, PTL

\* Every step of a payment, by any method and any caller, is an edge of state.go.
THEOREM OnlyEdges == StoreSpec => EdgesOnly
  <1>1. ASSUME StoreInv, [StoreNext]_storeVars PROVE [EdgeStep]_storeVars
    <2>. USE <1>1 DEF StoreInv, StoreTypeOK, EdgeStep, Move, CanMove, CanTransition, Transitions
    <2>1. ASSUME NEW expired \in SUBSET Payments, NEW erased \in SUBSET Payments,
                 ApplyRetention(expired, erased)
          PROVE  EdgeStep
      BY <2>1 DEF ApplyRetention
    <2>2. ASSUME NEW p \in Payments, PaymentStep(p) PROVE EdgeStep
      <3>1. CASE RecordVerification(p)
        BY Zenon, <3>1 DEF RecordVerification
      <3>2. ASSUME NEW n \in TxIds, CreateSettlementIntent(p, n) PROVE EdgeStep
        BY Zenon, <3>2 DEF CreateSettlementIntent, CanCreateIntent
      <3>. QED BY Zenon, <2>2, <3>1, <3>2 DEF PaymentStep
    <2>3. ASSUME NEW p \in Payments, NEW t \in TxIds, BroadcastStep(p, t) PROVE EdgeStep
      <3>1. ASSUME NEW h \in FreshHashes, MarkTxSigned(t, h) PROVE EdgeStep
        BY Zenon, <3>1 DEF MarkTxSigned
      <3>2. ASSUME NEW actor, MarkTxBroadcast(p, t, tx[t].raw, actor) PROVE EdgeStep
        BY <3>2 DEF MarkTxBroadcast, CanMarkTxBroadcast
      <3>3. CASE MarkTxAmbiguous(p, t, "worker")
        BY <3>3 DEF MarkTxAmbiguous, CanMarkTxAmbiguous
      <3>4. CASE MarkIntentUnsettleable(p, t, "worker")
        BY <3>4 DEF MarkIntentUnsettleable, DropIntent, CanDropIntent
      <3>5. CASE MarkIntentExpired(p, t, "worker")
        BY <3>5 DEF MarkIntentExpired, DropIntent, CanDropIntent
      <3>. QED BY Zenon, <2>3, <3>1, <3>2, <3>3, <3>4, <3>5 DEF BroadcastStep
    <2>4. ASSUME NEW p \in Payments, NEW t \in TxIds, ConfirmationStep(p, t) PROVE EdgeStep
      BY <2>4 DEF ConfirmationStep, MarkTxConfirming, MarkTxReorgedOut, CanMarkTxReorgedOut,
         MarkTxConfirmed, MarkTxReverted, Finalize, CanFinalize
    <2>5. ASSUME NEW p \in Payments, NEW t \in TxIds, RecoveryStep(p, t) PROVE EdgeStep
      <3>1. CASE MarkTxRecoveredBroadcast(p, t, tx[t].raw, "worker")
        BY Zenon, <3>1 DEF MarkTxRecoveredBroadcast, CanMarkTxRecoveredBroadcast
      <3>2. ASSUME NEW n \in TxIds, NEW h \in FreshHashes, MarkTxAmbiguousReplaced(p, t, n, h, "worker")
            PROVE  EdgeStep
        BY <3>2 DEF MarkTxAmbiguousReplaced, CanMarkTxAmbiguousReplaced
      <3>3. ASSUME NEW n \in TxIds, NEW h \in FreshHashes, MarkTxReplaced(p, t, n, h, "worker")
            PROVE  EdgeStep
        BY <3>3 DEF MarkTxReplaced, CanMarkTxReplaced
      <3>4. ASSUME NEW ok \in BOOLEAN, MarkReplacementLanded(p, t, ok, "worker") PROVE EdgeStep
        BY <3>4 DEF MarkReplacementLanded, CanMarkReplacementLanded
      <3>. QED BY Zenon, <2>5, <3>1, <3>2, <3>3, <3>4 DEF RecoveryStep
    <2>6. ASSUME NEW p \in Payments, NEW t \in TxIds, GapFillerStep(p, t) PROVE EdgeStep
      <3>1. CASE payment' = payment
        BY Zenon, <3>1
      <3>2. CASE MarkGapFillerSucceeded(p, t, "worker")
        BY <3>2 DEF MarkGapFillerSucceeded, CanMarkGapFillerSucceeded
      <3>. QED BY Zenon, <2>6, <3>1, <3>2
               DEF GapFillerStep, MarkGapFillerPrepared, MarkGapFillerReplaced, MarkGapFillerResolved
    <2>7. ASSUME NEW seed \in Seeds, SeedSignerAccount(seed) PROVE EdgeStep
      BY Zenon, <2>7 DEF SeedSignerAccount
    <2>. QED BY Zenon, <2>1, <2>2, <2>3, <2>4, <2>5, <2>6, <2>7 DEF StoreNext
  <1>. QED BY <1>1, StoreInvariant, PTL DEF StoreSpec, EdgesOnly

\* Every method leaves finished payments alone and watched ones on the watch.
LEMMA OneWaySteps ==
    ASSUME StoreInv, [StoreNext]_storeVars
    PROVE  [OneWayStep]_storeVars
  <1>. USE DEF StoreInv, StoreTypeOK, OneWayStep, Watched, Final, Move, CanMove
  <1>1. ASSUME NEW expired \in SUBSET Payments, NEW erased \in SUBSET Payments,
               ApplyRetention(expired, erased)
        PROVE  OneWayStep
    BY Zenon, <1>1 DEF ApplyRetention
  <1>2. ASSUME NEW p \in Payments, PaymentStep(p) PROVE OneWayStep
    BY <1>2 DEF PaymentStep, RecordVerification, CreateSettlementIntent, CanCreateIntent, Absent
  <1>3. ASSUME NEW p \in Payments, NEW t \in TxIds, BroadcastStep(p, t) PROVE OneWayStep
    BY <1>3 DEF BroadcastStep, MarkTxSigned, MarkTxBroadcast, CanMarkTxBroadcast, MarkTxAmbiguous,
       CanMarkTxAmbiguous, MarkIntentUnsettleable, MarkIntentExpired, DropIntent, CanDropIntent
  <1>4. ASSUME NEW p \in Payments, NEW t \in TxIds, ConfirmationStep(p, t) PROVE OneWayStep
    BY <1>4 DEF ConfirmationStep, MarkTxConfirming, MarkTxReorgedOut, CanMarkTxReorgedOut,
       MarkTxConfirmed, MarkTxReverted, Finalize, CanFinalize
  <1>5. ASSUME NEW p \in Payments, NEW t \in TxIds, RecoveryStep(p, t) PROVE OneWayStep
    BY Zenon, <1>5 DEF RecoveryStep, MarkTxRecoveredBroadcast, CanMarkTxRecoveredBroadcast,
       MarkTxAmbiguousReplaced, CanMarkTxAmbiguousReplaced, MarkTxReplaced, CanMarkTxReplaced,
       MarkReplacementLanded, CanMarkReplacementLanded
  <1>6. ASSUME NEW p \in Payments, NEW t \in TxIds, GapFillerStep(p, t) PROVE OneWayStep
    BY Zenon, <1>6 DEF GapFillerStep, MarkGapFillerPrepared, MarkGapFillerReplaced, MarkGapFillerResolved,
       MarkGapFillerSucceeded, CanMarkGapFillerSucceeded
  <1>7. ASSUME NEW seed \in Seeds, SeedSignerAccount(seed) PROVE OneWayStep
    BY Zenon, <1>7 DEF SeedSignerAccount
  <1>. QED BY <1>1, <1>2, <1>3, <1>4, <1>5, <1>6, <1>7 DEF StoreNext

\* No late writer moves a finished payment, or takes a watched one off the watch.
THEOREM FinalityIsOneWay == StoreSpec => FinalityOneWay
  <1>1. StoreInv /\ [StoreNext]_storeVars => [OneWayStep]_storeVars
    BY OneWaySteps
  <1>. QED BY <1>1, StoreInvariant, PTL DEF StoreSpec, FinalityOneWay

\* Every method keeps the raw hash of a signed row that is not dropped.
LEMMA HandleSteps ==
    ASSUME StoreInv, [StoreNext]_storeVars
    PROVE  [HandleStep]_storeVars
  <1>. USE DEF StoreInv, StoreTypeOK, TxRow, HandleStep, UnsignedRows, SetStatus, Version, Unused
  <1>1. ASSUME NEW expired \in SUBSET Payments, NEW erased \in SUBSET Payments,
               ApplyRetention(expired, erased)
        PROVE  HandleStep
    BY Zenon, <1>1 DEF ApplyRetention
  <1>2. ASSUME NEW p \in Payments, PaymentStep(p) PROVE HandleStep
    BY <1>2 DEF PaymentStep, RecordVerification, CreateSettlementIntent
  <1>3. ASSUME NEW p \in Payments, NEW t \in TxIds, BroadcastStep(p, t) PROVE HandleStep
    BY <1>3 DEF BroadcastStep, MarkTxSigned, CanMarkTxSigned, MarkTxBroadcast, MarkTxAmbiguous,
       MarkIntentUnsettleable, MarkIntentExpired, DropIntent
  <1>4. ASSUME NEW p \in Payments, NEW t \in TxIds, ConfirmationStep(p, t) PROVE HandleStep
    BY <1>4 DEF ConfirmationStep, MarkTxConfirming, MarkTxReorgedOut, MarkTxConfirmed,
       MarkTxReverted, Finalize
  <1>5. ASSUME NEW p \in Payments, NEW t \in TxIds, RecoveryStep(p, t) PROVE HandleStep
    BY <1>5 DEF RecoveryStep, MarkTxRecoveredBroadcast, MarkTxAmbiguousReplaced, MarkTxReplaced,
       Replacement, MarkReplacementLanded
  <1>6. ASSUME NEW p \in Payments, NEW t \in TxIds, GapFillerStep(p, t) PROVE HandleStep
    BY <1>6 DEF GapFillerStep, MarkGapFillerPrepared, CanMarkGapFillerPrepared,
       MarkGapFillerReplaced, Replacement, MarkGapFillerResolved, MarkGapFillerSucceeded, SettleFiller
  <1>7. ASSUME NEW seed \in Seeds, SeedSignerAccount(seed) PROVE HandleStep
    BY <1>7 DEF SeedSignerAccount
  <1>. QED BY <1>1, <1>2, <1>3, <1>4, <1>5, <1>6, <1>7 DEF StoreNext

\* The hash persisted before a send survives until the row is dropped.
THEOREM HandlesAreKept == StoreSpec => HandleKept
  <1>1. StoreInv /\ [StoreNext]_storeVars => [HandleStep]_storeVars
    BY HandleSteps
  <1>. QED BY <1>1, StoreInvariant, PTL DEF StoreSpec, HandleKept
=============================================================================
