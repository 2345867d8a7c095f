---------------------- MODULE SettlementPipelineProofs ----------------------
(***************************************************************************)
(* Proofs about SettlementPipeline, for any number of payments, rows,      *)
(* requests and workers: what a process knows of its payment is right, the *)
(* pipeline implements the store, and callers are told what is recorded.   *)
(***************************************************************************)
EXTENDS SettlementPipeline, SettlementStoreProofs

-----------------------------------------------------------------------------
(* What no method of the store ever undoes                                 *)

\* A row stays its payment's, with its nonce, and its first broadcast is over
\* once it is over.
RowStep ==
    \A t \in TxIds : tx[t].pay # None =>
        /\ tx'[t].pay = tx[t].pay /\ tx'[t].nonce = tx[t].nonce
        /\ tx[t].status \notin FirstBroadcast => tx'[t].status \notin FirstBroadcast

\* The hash of a transaction that is watched, or finished, does not change.
WatchedHashStep ==
    \A t \in TxIds :
        (tx[t].pay # None /\ payment[tx[t].pay] \in Watched \cup Final /\ tx[t].hash # None)
            => tx'[t].hash = tx[t].hash

\* A filler keeps its bytes until its nonce is consumed.
FillerBytesStep ==
    \A t \in TxIds :
        (tx[t].pay # None /\ Abandoned(tx[t].pay) /\ (tx[t].bytes \/ tx[t].status = "reverted"))
            => tx'[t].bytes \/ tx'[t].status = "reverted"

\* An abandoned payment stays abandoned.
AbandonedStep == \A p \in Payments : Abandoned(p) => Abandoned(p)'

\* The rows of every method keep their payments and nonces.
LEMMA RowsStay ==
    ASSUME StoreInv, StoreNext
    PROVE  RowStep
  <1>. USE NoneAssumption DEF StoreInv, StoreTypeOK, TxRow, RowStep, RowsOwned, SetStatus, Version, Unused,
           RowIn, FirstBroadcast, Move
  <1>1. ASSUME NEW expired \in SUBSET Payments, NEW erased \in SUBSET Payments,
               ApplyRetention(expired, erased)
        PROVE  RowStep
    BY <1>1 DEF ApplyRetention
  <1>2. ASSUME NEW p \in Payments, PaymentStep(p) PROVE RowStep
    BY <1>2 DEF PaymentStep, RecordVerification, CreateSettlementIntent
  <1>3. ASSUME NEW p \in Payments, NEW t \in TxIds, BroadcastStep(p, t) PROVE RowStep
    BY <1>3 DEF BroadcastStep, MarkTxSigned, CanMarkTxSigned, MarkTxBroadcast, CanMarkTxBroadcast,
       MarkTxAmbiguous, CanMarkTxAmbiguous, MarkIntentUnsettleable, MarkIntentExpired, DropIntent,
       CanDropIntent
  <1>4. ASSUME NEW p \in Payments, NEW t \in TxIds, ConfirmationStep(p, t) PROVE RowStep
    BY <1>4 DEF ConfirmationStep, MarkTxConfirming, MarkTxReorgedOut, MarkTxConfirmed,
       MarkTxReverted, Finalize
  <1>5. ASSUME NEW p \in Payments, NEW t \in TxIds, RecoveryStep(p, t) PROVE RowStep
    BY <1>5 DEF RecoveryStep, MarkTxRecoveredBroadcast, MarkTxAmbiguousReplaced, MarkTxReplaced,
       Replacement, MarkReplacementLanded
  <1>6. ASSUME NEW p \in Payments, NEW t \in TxIds, GapFillerStep(p, t) PROVE RowStep
    BY <1>6 DEF GapFillerStep, MarkGapFillerPrepared, MarkGapFillerReplaced, Replacement,
       MarkGapFillerResolved, MarkGapFillerSucceeded, SettleFiller
  <1>7. ASSUME NEW seed \in Seeds, SeedSignerAccount(seed) PROVE RowStep
    BY <1>7 DEF SeedSignerAccount
  <1>. QED BY Zenon, <1>1, <1>2, <1>3, <1>4, <1>5, <1>6, <1>7 DEF StoreNext

\* The hash columns agree after every method.
LEMMA HashesStay ==
    ASSUME StoreInv, HashesAgree, StoreNext
    PROVE  HashesAgree'
  <1>. USE NoneAssumption DEF StoreInv, StoreTypeOK, TxRow, HashesAgree, UnsignedRows, SetStatus, Version,
           Unused, RowIn, Move
  <1>1. ASSUME NEW expired \in SUBSET Payments, NEW erased \in SUBSET Payments,
               ApplyRetention(expired, erased)
        PROVE  HashesAgree'
    BY <1>1 DEF ApplyRetention
  <1>2. ASSUME NEW p \in Payments, PaymentStep(p) PROVE HashesAgree'
    BY <1>2 DEF PaymentStep, RecordVerification, CreateSettlementIntent
  <1>3. ASSUME NEW p \in Payments, NEW t \in TxIds, BroadcastStep(p, t) PROVE HashesAgree'
    BY <1>3 DEF BroadcastStep, MarkTxSigned, CanMarkTxSigned, MarkTxBroadcast, MarkTxAmbiguous,
       MarkIntentUnsettleable, MarkIntentExpired, DropIntent
  <1>4. ASSUME NEW p \in Payments, NEW t \in TxIds, ConfirmationStep(p, t) PROVE HashesAgree'
    BY <1>4 DEF ConfirmationStep, MarkTxConfirming, MarkTxReorgedOut, MarkTxConfirmed,
       MarkTxReverted, Finalize
  <1>5. ASSUME NEW p \in Payments, NEW t \in TxIds, RecoveryStep(p, t) PROVE HashesAgree'
    BY <1>5 DEF RecoveryStep, MarkTxRecoveredBroadcast, MarkTxAmbiguousReplaced, MarkTxReplaced,
       Replacement, MarkReplacementLanded
  <1>6. ASSUME NEW p \in Payments, NEW t \in TxIds, GapFillerStep(p, t) PROVE HashesAgree'
    BY <1>6 DEF GapFillerStep, MarkGapFillerPrepared, MarkGapFillerReplaced, Replacement,
       MarkGapFillerResolved, MarkGapFillerSucceeded, SettleFiller
  <1>7. ASSUME NEW seed \in Seeds, SeedSignerAccount(seed) PROVE HashesAgree'
    BY <1>7 DEF SeedSignerAccount
  <1>. QED BY Zenon, <1>1, <1>2, <1>3, <1>4, <1>5, <1>6, <1>7 DEF StoreNext

\* What the confirmation paths poll does not change under them.
LEMMA WatchedHashesStay ==
    ASSUME StoreInv, HashesAgree, StoreNext
    PROVE  WatchedHashStep
  <1>. USE NoneAssumption DEF StoreInv, StoreTypeOK, TxRow, WatchedHashStep, RowsOwned, SetStatus, Version,
           Unused, RowIn, Move, Watched, Final
  <1>1. ASSUME NEW expired \in SUBSET Payments, NEW erased \in SUBSET Payments,
               ApplyRetention(expired, erased)
        PROVE  WatchedHashStep
    BY <1>1 DEF ApplyRetention
  <1>2. ASSUME NEW p \in Payments, PaymentStep(p) PROVE WatchedHashStep
    BY <1>2 DEF PaymentStep, RecordVerification, CreateSettlementIntent
  <1>3. ASSUME NEW p \in Payments, NEW t \in TxIds, BroadcastStep(p, t) PROVE WatchedHashStep
    BY <1>3 DEF BroadcastStep, MarkTxSigned, CanMarkTxSigned, MarkTxBroadcast, CanMarkTxBroadcast,
       CanMove, MarkTxAmbiguous, MarkIntentUnsettleable, MarkIntentExpired, DropIntent
  <1>4. ASSUME NEW p \in Payments, NEW t \in TxIds, ConfirmationStep(p, t) PROVE WatchedHashStep
    BY <1>4 DEF ConfirmationStep, MarkTxConfirming, MarkTxReorgedOut, MarkTxConfirmed,
       MarkTxReverted, Finalize
  <1>5. ASSUME NEW p \in Payments, NEW t \in TxIds, RecoveryStep(p, t) PROVE WatchedHashStep
    BY <1>5 DEF RecoveryStep, MarkTxRecoveredBroadcast, CanMarkTxRecoveredBroadcast, CanMove,
       MarkTxAmbiguousReplaced, CanMarkTxAmbiguousReplaced, MarkTxReplaced,
       Replacement, MarkReplacementLanded
  <1>6. ASSUME NEW p \in Payments, NEW t \in TxIds, GapFillerStep(p, t) PROVE WatchedHashStep
    BY <1>6 DEF GapFillerStep, MarkGapFillerPrepared, MarkGapFillerReplaced, Replacement,
       MarkGapFillerResolved, MarkGapFillerSucceeded, SettleFiller
  <1>7. ASSUME NEW seed \in Seeds, SeedSignerAccount(seed) PROVE WatchedHashStep
    BY <1>7 DEF SeedSignerAccount
  <1>. QED BY Zenon, <1>1, <1>2, <1>3, <1>4, <1>5, <1>6, <1>7 DEF StoreNext

\* No method settles an abandoned payment again.
LEMMA AbandonedStays ==
    ASSUME StoreInv, StoreNext
    PROVE  AbandonedStep
  <1>. SUFFICES ASSUME NEW q \in Payments, Abandoned(q) PROVE Abandoned(q)'
    BY DEF AbandonedStep
  <1>. USE NoneAssumption DEF StoreInv, StoreTypeOK, TxRow, Abandoned, Rows, RowsOwned, SetStatus, Version,
           Unused, RowIn, Move, Watched, Final, CanMove
  <1>1. ASSUME NEW expired \in SUBSET Payments, NEW erased \in SUBSET Payments,
               ApplyRetention(expired, erased)
        PROVE  Abandoned(q)'
    BY <1>1 DEF ApplyRetention
  <1>2. ASSUME NEW p \in Payments, PaymentStep(p) PROVE Abandoned(q)'
    BY <1>2 DEF PaymentStep, RecordVerification, CreateSettlementIntent, CanCreateIntent, Absent
  <1>3. ASSUME NEW p \in Payments, NEW t \in TxIds, BroadcastStep(p, t) PROVE Abandoned(q)'
    BY <1>3 DEF BroadcastStep, MarkTxSigned, MarkTxBroadcast, CanMarkTxBroadcast, MarkTxAmbiguous,
       CanMarkTxAmbiguous, MarkIntentUnsettleable, MarkIntentExpired, DropIntent, CanDropIntent
  <1>4. ASSUME NEW p \in Payments, NEW t \in TxIds, ConfirmationStep(p, t) PROVE Abandoned(q)'
    BY <1>4 DEF ConfirmationStep, MarkTxConfirming, MarkTxReorgedOut, CanMarkTxReorgedOut,
       MarkTxConfirmed, MarkTxReverted, Finalize, CanFinalize
  <1>5. ASSUME NEW p \in Payments, NEW t \in TxIds, RecoveryStep(p, t) PROVE Abandoned(q)'
    <2>1. CASE MarkTxRecoveredBroadcast(p, t, tx[t].raw, "worker")
      BY <2>1 DEF MarkTxRecoveredBroadcast, CanMarkTxRecoveredBroadcast
    <2>2. ASSUME NEW n \in TxIds, NEW h \in FreshHashes, MarkTxAmbiguousReplaced(p, t, n, h, "worker")
          PROVE  Abandoned(q)'
      BY <2>2 DEF MarkTxAmbiguousReplaced, CanMarkTxAmbiguousReplaced, Replacement
    <2>3. ASSUME NEW n \in TxIds, NEW h \in FreshHashes, MarkTxReplaced(p, t, n, h, "worker")
          PROVE  Abandoned(q)'
      BY <2>3 DEF MarkTxReplaced, CanMarkTxReplaced, Replacement
    <2>4. ASSUME NEW ok \in BOOLEAN, MarkReplacementLanded(p, t, ok, "worker") PROVE Abandoned(q)'
      BY <2>4 DEF MarkReplacementLanded, CanMarkReplacementLanded
    <2>. QED BY Zenon, <1>5, <2>1, <2>2, <2>3, <2>4 DEF RecoveryStep
  <1>6. ASSUME NEW p \in Payments, NEW t \in TxIds, GapFillerStep(p, t) PROVE Abandoned(q)'
    BY <1>6 DEF GapFillerStep, MarkGapFillerPrepared, MarkGapFillerReplaced, Replacement,
       MarkGapFillerResolved, MarkGapFillerSucceeded, CanMarkGapFillerSucceeded, SettleFiller
  <1>7. ASSUME NEW seed \in Seeds, SeedSignerAccount(seed) PROVE Abandoned(q)'
    BY <1>7 DEF SeedSignerAccount
  <1>. QED BY Zenon, <1>1, <1>2, <1>3, <1>4, <1>5, <1>6, <1>7 DEF StoreNext

\* Only a filler whose nonce is consumed loses its bytes.
LEMMA FillerBytesStay ==
    ASSUME StoreInv, StoreNext
    PROVE  FillerBytesStep
  <1>. SUFFICES ASSUME NEW u \in TxIds, tx[u].pay # None, Abandoned(tx[u].pay),
                       tx[u].bytes \/ tx[u].status = "reverted"
                PROVE  tx'[u].bytes \/ tx'[u].status = "reverted"
    BY DEF FillerBytesStep
  <1>. USE NoneAssumption DEF StoreInv, StoreTypeOK, TxRow, Abandoned, Rows, RowsOwned, UnsignedRows,
           SetStatus, Version, Unused, RowIn, Move
  <1>1. ASSUME NEW expired \in SUBSET Payments, NEW erased \in SUBSET Payments,
               ApplyRetention(expired, erased)
        PROVE  tx'[u].bytes \/ tx'[u].status = "reverted"
    BY <1>1 DEF ApplyRetention, CanRedact
  <1>2. ASSUME NEW p \in Payments, PaymentStep(p)
        PROVE  tx'[u].bytes \/ tx'[u].status = "reverted"
    BY <1>2 DEF PaymentStep, RecordVerification, CreateSettlementIntent
  <1>3. ASSUME NEW p \in Payments, NEW t \in TxIds, BroadcastStep(p, t)
        PROVE  tx'[u].bytes \/ tx'[u].status = "reverted"
    BY <1>3 DEF BroadcastStep, MarkTxSigned, CanMarkTxSigned, MarkTxBroadcast, CanMarkTxBroadcast,
       MarkTxAmbiguous, CanMarkTxAmbiguous, MarkIntentUnsettleable, MarkIntentExpired, DropIntent,
       CanDropIntent
  <1>4. ASSUME NEW p \in Payments, NEW t \in TxIds, ConfirmationStep(p, t)
        PROVE  tx'[u].bytes \/ tx'[u].status = "reverted"
    BY <1>4 DEF ConfirmationStep, MarkTxConfirming, MarkTxReorgedOut, CanMarkTxReorgedOut,
       MarkTxConfirmed, MarkTxReverted, Finalize, CanFinalize
  <1>5. ASSUME NEW p \in Payments, NEW t \in TxIds, RecoveryStep(p, t)
        PROVE  tx'[u].bytes \/ tx'[u].status = "reverted"
    <2>1. CASE MarkTxRecoveredBroadcast(p, t, tx[t].raw, "worker")
      BY <2>1 DEF MarkTxRecoveredBroadcast, CanMarkTxRecoveredBroadcast
    <2>2. ASSUME NEW n \in TxIds, NEW h \in FreshHashes, MarkTxAmbiguousReplaced(p, t, n, h, "worker")
          PROVE  tx'[u].bytes \/ tx'[u].status = "reverted"
      BY <2>2 DEF MarkTxAmbiguousReplaced, CanMarkTxAmbiguousReplaced, Replacement
    <2>3. ASSUME NEW n \in TxIds, NEW h \in FreshHashes, MarkTxReplaced(p, t, n, h, "worker")
          PROVE  tx'[u].bytes \/ tx'[u].status = "reverted"
      BY <2>3 DEF MarkTxReplaced, CanMarkTxReplaced, Replacement
    <2>4. ASSUME NEW ok \in BOOLEAN, MarkReplacementLanded(p, t, ok, "worker")
          PROVE  tx'[u].bytes \/ tx'[u].status = "reverted"
      BY <2>4 DEF MarkReplacementLanded, CanMarkReplacementLanded, ActiveRows, Active, ActiveStatuses
    <2>. QED BY Zenon, <1>5, <2>1, <2>2, <2>3, <2>4 DEF RecoveryStep
  <1>6. ASSUME NEW p \in Payments, NEW t \in TxIds, GapFillerStep(p, t)
        PROVE  tx'[u].bytes \/ tx'[u].status = "reverted"
    BY <1>6 DEF GapFillerStep, MarkGapFillerPrepared, CanMarkGapFillerPrepared, MarkGapFillerReplaced,
       CanMarkGapFillerReplaced, Replacement, MarkGapFillerResolved, CanMarkGapFillerResolved,
       MarkGapFillerSucceeded, CanMarkGapFillerSucceeded, SettleFiller
  <1>7. ASSUME NEW seed \in Seeds, SeedSignerAccount(seed)
        PROVE  tx'[u].bytes \/ tx'[u].status = "reverted"
    BY <1>7 DEF SeedSignerAccount
  <1>. QED BY Zenon, <1>1, <1>2, <1>3, <1>4, <1>5, <1>6, <1>7 DEF StoreNext

\* Everything a step of the record leaves true.
RecordStep ==
    /\ StoreInv' /\ HashesAgree'
    /\ RowStep /\ WatchedHashStep /\ FillerBytesStep /\ AbandonedStep /\ HandleStep /\ OneWayStep

\* A step of the store, or none, leaves all of it true.
LEMMA RecordSteps ==
    ASSUME StoreInv, HashesAgree, [StoreNext]_storeVars
    PROVE  RecordStep
  <1>1. CASE StoreNext
    <2>1. StoreInv' /\ HashesAgree'
      BY <1>1, NextKeeps, HashesStay
    <2>2. OneWayStep /\ HandleStep
      <3>1. CASE UNCHANGED storeVars
        BY <3>1 DEF storeVars, OneWayStep, HandleStep
      <3>. QED BY <3>1, OneWaySteps, HandleSteps
    <2>. QED BY <1>1, <2>1, <2>2, RowsStay, WatchedHashesStay, FillerBytesStay, AbandonedStays DEF RecordStep
  <1>2. CASE UNCHANGED storeVars
    <2>1. StoreInv'
      BY <1>2, NextKeeps
    <2>2. HashesAgree' /\ RowStep /\ WatchedHashStep /\ FillerBytesStep /\ HandleStep /\ OneWayStep
      BY <1>2 DEF storeVars, HashesAgree, RowStep, WatchedHashStep, FillerBytesStep, HandleStep, OneWayStep
    <2>3. AbandonedStep
      BY <1>2 DEF storeVars, AbandonedStep, Abandoned, Rows
    <2>. QED BY <2>1, <2>2, <2>3 DEF RecordStep
  <1>. QED BY <1>1, <1>2

-----------------------------------------------------------------------------
(* What the processes know                                                 *)

\* What a process knows of the record, apart from its signature.
KnowsRecord(x) ==
    /\ KnowsRow(x) /\ KnowsBytes(x) /\ KnowsWatched(x) /\ KnowsFiller(x) /\ KnowsHash(x)
    /\ ClaimsInline(x)

\* A process that does not move keeps what it knows of the record.
LEMMA KnowledgeStays ==
    ASSUME StoreInv, HashesAgree, RecordStep, NEW x \in Processes, proc'[x] = proc[x], KnowsRecord(x)
    PROVE  KnowsRecord(x)'
  <1>. USE NoneAssumption DEF KnowsRecord, RecordStep
  <1>1. KnowsRow(x)'
    BY DEF KnowsRow, RowStep, At
  <1>2. KnowsBytes(x)'
    BY DEF KnowsBytes, KnowsHash, KnowsRow, RowStep, HandleStep, At, FirstBroadcast, Rowless
  <1>3. KnowsWatched(x)'
    BY DEF KnowsWatched, KnowsRow, Observing, WatchedHashStep, OneWayStep, At, Rowless
  <1>4. KnowsFiller(x)'
    BY DEF KnowsFiller, KnowsRow, Filling, TendingFiller, AbandonedStep, FillerBytesStep, At, Rowless
  <1>5. KnowsHash(x)' /\ ClaimsInline(x)'
    BY DEF KnowsHash, TendingFiller, ClaimsInline, At
  <1>. QED BY <1>1, <1>2, <1>3, <1>4, <1>5

\* A step of process x writes no raw hash but its own, and takes its next hash
\* from a row or from the signer.
HashStep(x) ==
    /\ \A t \in TxIds : tx'[t].raw \in {tx[t].raw, proc[x].hash}
    /\ proc'[x].hash \in {None, proc[x].hash} \cup {tx[t].raw : t \in TxIds} \cup UnusedHashes

\* Nobody comes by the signature another process has just produced.
LEMMA SignaturesStay ==
    ASSUME NEW x \in Processes, NEW y \in Processes, x # y, HashStep(x),
           proc'[y] = proc[y], \A z \in Processes : z # x => proc'[z] = proc[z], KnowsSignature(y)
    PROVE  KnowsSignature(y)'
  <1>. SUFFICES ASSUME proc[y].pc \in Signing
                PROVE  /\ proc[y].hash \in FreshHashes'
                       /\ \A z \in Processes : z # y => proc'[z].hash # proc[y].hash
    BY DEF KnowsSignature
  <1>1. proc[y].hash \in FreshHashes /\ \A z \in Processes : z # y => proc[z].hash # proc[y].hash
    BY DEF KnowsSignature
  <1>2. proc[y].hash \in FreshHashes'
    BY <1>1 DEF FreshHashes, HashStep
  <1>3. proc'[x].hash # proc[y].hash
    BY <1>1, NoneAssumption DEF FreshHashes, HashStep, UnusedHashes
  <1>. QED BY <1>1, <1>2, <1>3

\* Only process x moves.
Moves(x) ==
    proc' \in [Processes -> Task] /\ \A y \in Processes : y # x => proc'[y] = proc[y]

\* A step of one process keeps the invariant if it keeps to the store's methods
\* and the process is right about what it now knows.
LEMMA ProcessStep ==
    ASSUME PipelineInv, NEW x \in Processes, [StoreNext]_storeVars, WorldTypeOK', Moves(x), HashStep(x),
           KnowsRecord(x)', KnowsSignature(x)'
    PROVE  PipelineInv'
  <1>1. RecordStep
    BY RecordSteps DEF PipelineInv
  <1>2. StoreInv' /\ HashesAgree' /\ PipelineTypeOK'
    BY Zenon, <1>1 DEF RecordStep, StoreInv, PipelineTypeOK, Moves
  <1>3. ASSUME NEW y \in Processes PROVE Knows(y)'
    <2>1. CASE y = x
      BY Zenon, <2>1 DEF Knows, KnowsRecord
    <2>2. CASE y # x
      <3>1. proc'[y] = proc[y] /\ KnowsRecord(y) /\ KnowsSignature(y)
        BY Zenon, <2>2 DEF Moves, PipelineInv, Knows, KnowsRecord
      <3>2. KnowsRecord(y)'
        BY Zenon, <1>1, <3>1, KnowledgeStays DEF PipelineInv
      <3>3. KnowsSignature(y)'
        BY Zenon, <2>2, <3>1, SignaturesStay DEF Moves
      <3>. QED BY Zenon, <3>2, <3>3 DEF Knows, KnowsRecord
    <2>. QED BY Zenon, <2>1, <2>2
  <1>. QED BY Zenon, <1>2, <1>3 DEF PipelineInv

\* So does a step in which no process moves and no signature is recorded.
LEMMA WorldStep ==
    ASSUME PipelineInv, [StoreNext]_storeVars, WorldTypeOK', proc' = proc,
           \A t \in TxIds : tx'[t].raw = tx[t].raw
    PROVE  PipelineInv'
  <1>1. RecordStep
    BY RecordSteps DEF PipelineInv
  <1>2. StoreInv' /\ HashesAgree' /\ PipelineTypeOK'
    BY Zenon, <1>1 DEF RecordStep, StoreInv, PipelineTypeOK, PipelineInv
  <1>3. ASSUME NEW y \in Processes PROVE Knows(y)'
    <2>1. KnowsRecord(y) /\ KnowsSignature(y)
      BY Zenon DEF PipelineInv, Knows, KnowsRecord
    <2>2. KnowsRecord(y)'
      BY Zenon, <1>1, <2>1, KnowledgeStays DEF PipelineInv
    <2>3. KnowsSignature(y)'
      BY <2>1 DEF KnowsSignature, FreshHashes
    <2>. QED BY Zenon, <2>2, <2>3 DEF Knows, KnowsRecord
  <1>. QED BY Zenon, <1>2, <1>3 DEF PipelineInv

\* A process that takes up a task moves alone.
LEMMA Becomes ==
    ASSUME proc \in [Processes -> Task], NEW x \in Processes, NEW r \in Task, Take(x, r)
    PROVE  Moves(x) /\ proc'[x] = r
  BY DEF Moves, Take

\* Goto changes the program counter alone.
LEMMA GotoMoves ==
    ASSUME proc \in [Processes -> Task], NEW x \in Processes, NEW pc \in Pcs, Goto(x, pc)
    PROVE  /\ Moves(x)
           /\ proc'[x].pc = pc /\ proc'[x].pay = proc[x].pay /\ proc'[x].row = proc[x].row
           /\ proc'[x].hash = proc[x].hash /\ proc'[x].intent = proc[x].intent
           /\ proc'[x].task = proc[x].task /\ proc'[x].rcpt = proc[x].rcpt
  <1>. DEFINE r == [proc[x] EXCEPT !.pc = pc]
  <1>1. r \in Task
    BY Zenon DEF Task
  <1>2. Take(x, r)
    BY Zenon DEF Goto
  <1>3. Moves(x) /\ proc'[x] = r
    BY Zenon, <1>1, <1>2, Becomes
  <1>. QED BY <1>3 DEF Task

\* The empty task is one.
LEMMA IdleTask == Idle \in Task
  <1>1. NoReceipt \in Receipt
    BY DEF NoReceipt, Receipt
  <1>2. "idle" \in Pcs
    BY DEF Pcs
  <1>. QED BY Zenon, <1>1, <1>2 DEF Idle, Task

\* A process that finishes forgets everything.
LEMMA FinishMoves ==
    ASSUME proc \in [Processes -> Task], NEW x \in Processes, Finish(x)
    PROVE  Moves(x) /\ proc'[x] = Idle
  BY Zenon, IdleTask, Becomes DEF Finish

\* A process that leaves keeps its payment and, if it is a request, what it answers from.
LEMMA LeaveMoves ==
    ASSUME proc \in [Processes -> Task], NEW x \in Processes, NEW h \in Hashes \cup {None},
           NEW i \in TxIds \cup {None}, Leave(x, h, i)
    PROVE  /\ Moves(x)
           /\ proc'[x].pc = "release" /\ proc'[x].pay = proc[x].pay
           /\ proc'[x].hash \in {h, None}
  <1>. DEFINE hash == IF x \in HttpRequests THEN h ELSE None
              intent == IF x \in HttpRequests THEN i ELSE None
              r == [Idle EXCEPT !.pc = "release", !.pay = proc[x].pay, !.hash = hash, !.intent = intent]
  <1>1. hash \in Hashes \cup {None} /\ hash \in {h, None} /\ intent \in TxIds \cup {None} /\ "release" \in Pcs
    BY DEF Pcs
  <1>2. Take(x, r)
    BY Zenon DEF Leave
  <1>. HIDE DEF hash, intent
  <1>3. r \in Task
    BY Zenon, <1>1, IdleTask DEF Task
  <1>4. Moves(x) /\ proc'[x] = r
    BY Zenon, <1>2, <1>3, Becomes
  <1>. QED BY <1>1, <1>4, IdleTask DEF Task

\* What is not on the record or in a process stays as it was.
LEMMA SameWorld ==
    ASSUME WorldTypeOK, UNCHANGED <<chainVars, lease, clock, told>>
    PROVE  WorldTypeOK'
  BY Zenon DEF WorldTypeOK, chainVars, LeaseTypeOK

\* A step of process x that writes at most its own signature on the record.
Records(x) ==
    [StoreNext]_storeVars /\ \A t \in TxIds : tx'[t].raw \in {tx[t].raw, proc[x].hash}

\* A step that leaves the record alone is one.
LEMMA ReadsRecord ==
    ASSUME NEW x, UNCHANGED storeVars
    PROVE  Records(x)
  BY DEF Records, storeVars

\* A process that is idle has nothing to know.
LEMMA IdleKnows ==
    ASSUME NEW x \in Processes, proc'[x] = Idle
    PROVE  KnowsRecord(x)' /\ KnowsSignature(x)'
  <1>1. proc'[x].pc = "idle"
    BY DEF Idle
  <1>. QED BY <1>1 DEF KnowsRecord, KnowsRow, KnowsBytes, KnowsWatched, KnowsFiller, KnowsHash, KnowsSignature,
         ClaimsInline, At,
              Signing, Observing, Filling, TendingFiller

\* A process that holds no row knows its payment, and a confirmation worker that
\* it was watched when it was claimed.
LEMMA RowlessKnows ==
    ASSUME NEW x \in Processes, proc'[x].pc \in Rowless, proc'[x].pay \in Payments,
           proc'[x].pc = "claim" => x \in HttpRequests,
           (x \in ConfirmationWorkers /\ proc'[x].pc \in {"renew", "load"})
              => payment'[proc'[x].pay] \in Watched \cup Final
    PROVE  KnowsRecord(x)' /\ KnowsSignature(x)'
  BY DEF KnowsRecord, KnowsRow, KnowsBytes, KnowsWatched, KnowsFiller, KnowsHash, KnowsSignature,
         ClaimsInline, At,
         Rowless, Signing, Observing, Filling, TendingFiller

\* A process that is not idle has a payment.
LEMMA BusyHasPayment ==
    ASSUME PipelineInv, NEW x \in Processes, ~ At(x, "idle")
    PROVE  proc[x].pay \in Payments
  BY DEF PipelineInv, Knows, KnowsRow

\* Finishing keeps the invariant.
LEMMA FinishStep ==
    ASSUME PipelineInv, NEW x \in Processes, Finish(x), Records(x), WorldTypeOK'
    PROVE  PipelineInv'
  <1>1. Moves(x) /\ proc'[x] = Idle
    BY Zenon, FinishMoves DEF PipelineInv, PipelineTypeOK
  <1>2. HashStep(x)
    <2>1. proc'[x].hash = None
      BY <1>1 DEF Idle
    <2>. QED BY Zenon, <2>1 DEF HashStep, Records
  <1>3. KnowsRecord(x)' /\ KnowsSignature(x)'
    BY Zenon, <1>1, IdleKnows
  <1>. QED BY Zenon, <1>1, <1>2, <1>3, ProcessStep DEF Records

\* So does leaving the payment with a hash read from the record.
LEMMA LeaveStep ==
    ASSUME PipelineInv, NEW x \in Processes, ~ At(x, "idle"),
           NEW h \in {None, proc[x].hash} \cup {tx[t].raw : t \in TxIds},
           NEW i \in TxIds \cup {None}, Leave(x, h, i), Records(x), WorldTypeOK'
    PROVE  PipelineInv'
  <1>. USE DEF PipelineInv, PipelineTypeOK
  <1>1. h \in Hashes \cup {None}
    BY DEF StoreTypeOK, TxRow, Task
  <1>2. /\ Moves(x) /\ proc'[x].pc = "release" /\ proc'[x].pay = proc[x].pay
        /\ proc'[x].hash \in {h, None}
    BY Zenon, <1>1, LeaveMoves
  <1>3. HashStep(x)
    BY <1>2 DEF HashStep, Records
  <1>4. KnowsRecord(x)' /\ KnowsSignature(x)'
    <2>1. proc'[x].pc \in Rowless /\ proc'[x].pc \notin {"renew", "load"}
      BY <1>2 DEF Rowless
    <2>2. proc'[x].pc # "claim" /\ proc'[x].pc \notin {"renew", "load"}
      BY <1>2
    <2>. QED BY Zenon, <1>2, <2>1, <2>2, BusyHasPayment, RowlessKnows
  <1>. QED BY Zenon, <1>2, <1>3, <1>4, ProcessStep DEF Records

\* Giving up and rejecting are that, without a hash.
LEMMA GiveUpStep ==
    ASSUME PipelineInv, NEW x \in Processes, ~ At(x, "idle"), GiveUp(x) \/ Reject(x), Records(x), WorldTypeOK'
    PROVE  PipelineInv'
  <1>1. proc[x].intent \in TxIds \cup {None}
    BY DEF PipelineInv, PipelineTypeOK, Task
  <1>. QED BY Zenon, <1>1, LeaveStep DEF GiveUp, Reject

\* Going on to a step keeps the invariant if the process knows what it needs there.
LEMMA GotoStep ==
    ASSUME PipelineInv, NEW x \in Processes, NEW pc \in Pcs, Goto(x, pc), Records(x), WorldTypeOK',
           KnowsRecord(x)', KnowsSignature(x)'
    PROVE  PipelineInv'
  <1>1. Moves(x) /\ proc'[x].hash = proc[x].hash
    BY Zenon, GotoMoves DEF PipelineInv, PipelineTypeOK
  <1>2. HashStep(x)
    BY Zenon, <1>1 DEF HashStep, Records
  <1>. QED BY Zenon, <1>1, <1>2, ProcessStep DEF Records

\* Going on without a row: the payment is the one the process had.
LEMMA GotoRowlessStep ==
    ASSUME PipelineInv, NEW x \in Processes, ~ At(x, "idle"), NEW pc \in Rowless, pc # "claim", Goto(x, pc),
           UNCHANGED storeVars, WorldTypeOK',
           (x \in ConfirmationWorkers /\ pc \in {"renew", "load"})
              => payment[proc[x].pay] \in Watched \cup Final
    PROVE  PipelineInv'
  <1>1. pc \in Pcs
    BY DEF Pcs, Rowless
  <1>2. proc'[x].pc = pc /\ proc'[x].pay = proc[x].pay
    BY Zenon, <1>1, GotoMoves DEF PipelineInv, PipelineTypeOK
  <1>3. KnowsRecord(x)' /\ KnowsSignature(x)'
    BY Zenon, <1>2, BusyHasPayment, RowlessKnows DEF storeVars
  <1>. QED BY Zenon, <1>1, <1>3, GotoStep, ReadsRecord

\* Taking up a task keeps the invariant if the process knows what it needs for it.
LEMMA TakeStep ==
    ASSUME PipelineInv, NEW x \in Processes, NEW r \in Task, Take(x, r),
           r.hash \in {None, proc[x].hash} \cup {tx[t].raw : t \in TxIds} \cup UnusedHashes,
           Records(x), WorldTypeOK', KnowsRecord(x)', KnowsSignature(x)'
    PROVE  PipelineInv'
  <1>1. Moves(x) /\ proc'[x] = r
    BY Zenon, Becomes DEF PipelineInv, PipelineTypeOK
  <1>2. HashStep(x)
    BY Zenon, <1>1 DEF HashStep, Records
  <1>. QED BY Zenon, <1>1, <1>2, ProcessStep DEF Records

\* The types of what a process may hold.
LEMMA TaskTypes ==
    ASSUME PipelineInv
    PROVE  /\ \A x \in Processes : /\ proc[x] \in Task /\ proc[x].pay \in Payments \cup {None}
                                   /\ proc[x].hash \in Hashes \cup {None}
                                   /\ proc[x].row \in TxIds \cup {None}
                                   /\ proc[x].intent \in TxIds \cup {None}
           /\ \A t \in TxIds : /\ tx[t].raw \in Hashes \cup {None} /\ tx[t].hash \in {None, tx[t].raw}
                               /\ tx[t].hash \in Hashes \cup {None}
                               /\ tx[t].pay # None => tx[t].pay \in Payments
                               /\ tx[t].status \in TxStatuses \cup {Unused}
           /\ \A p \in Payments : \A t \in ActiveRows(p) : t \in TxIds /\ tx[t].pay = p
  BY DEF PipelineInv, PipelineTypeOK, StoreTypeOK, Task, TxRow, HashesAgree, ActiveRows, Rows

\* A receipt is what it is typed to be.
LEMMA ReceiptTypes ==
    ASSUME WorldTypeOK, NEW h, NEW r \in Receipts(h)
    PROVE  r \in Receipt
  <1>. DEFINE Block == [gen : Nat, h : Hashes \cup {Empty}, ok : BOOLEAN]
  <1>1. PICK i \in 1..Len(chain) : r = [n |-> i, gen |-> chain[i].gen, ok |-> chain[i].ok]
    BY DEF Receipts, MinedAt
  <1>2. chain \in Seq(Block)
    BY DEF WorldTypeOK
  <1>3. chain[i] \in Block /\ i \in Nat
    <2>. HIDE DEF Block
    <2>. QED BY <1>1, <1>2
  <1>. QED BY <1>1, <1>3 DEF Receipt

\* A step that only reads writes nothing and leaves the world alone.
LEMMA ReadsOnly ==
    ASSUME PipelineInv, NEW x, UNCHANGED <<storeVars, chainVars, lease, clock, told>>
    PROVE  Records(x) /\ WorldTypeOK' /\ UNCHANGED storeVars
  BY Zenon, ReadsRecord, SameWorld DEF PipelineInv, PipelineTypeOK

\* A task without a row is taken up knowing its payment.
LEMMA RowlessStep ==
    ASSUME PipelineInv, NEW x \in Processes, NEW r \in Task, Take(x, r),
           r.pc \in Rowless, r.pay \in Payments, r.pc = "claim" => x \in HttpRequests,
           (x \in ConfirmationWorkers /\ r.pc \in {"renew", "load"}) => payment'[r.pay] \in Watched \cup Final,
           r.hash \in {None, proc[x].hash} \cup {tx[t].raw : t \in TxIds} \cup UnusedHashes,
           Records(x), WorldTypeOK'
    PROVE  PipelineInv'
  <1>1. proc'[x] = r
    BY Zenon, Becomes DEF PipelineInv, PipelineTypeOK
  <1>2. KnowsRecord(x)' /\ KnowsSignature(x)'
    BY Zenon, <1>1, RowlessKnows
  <1>. QED BY Zenon, <1>2, TakeStep

\* A lease taken or given back is a lease.
LEMMA ClaimKeepsWorld ==
    ASSUME WorldTypeOK, NEW p \in Payments, NEW x \in Processes, UNCHANGED <<chainVars, clock, told>>,
           \/ ClaimPayment(p, Identity(x)) \/ ReleaseLease(p, Identity(x)) \/ Lapse(p)
    PROVE  WorldTypeOK'
  <1>1. Identity(x) \in {"http"} \cup Processes
    BY DEF Identity
  <1>2. LeaseTypeOK'
    <2>. USE <1>1 DEF WorldTypeOK, LeaseTypeOK, Lease
    <2>1. CASE ClaimPayment(p, Identity(x))
      BY <2>1 DEF ClaimPayment
    <2>2. CASE ReleaseLease(p, Identity(x))
      BY <2>2 DEF ReleaseLease, Free
    <2>3. CASE Lapse(p)
      BY <2>3, Zenon DEF Lapse
    <2>. QED BY Zenon, <2>1, <2>2, <2>3
  <1>. QED BY Zenon, <1>2 DEF WorldTypeOK, chainVars

-----------------------------------------------------------------------------
(* /settle and the leases keep the invariant                               *)

\* /settle commits its intent with the nonce, or finds one in flight.
LEMMA SettleCallKeeps ==
    ASSUME PipelineInv, NEW x \in HttpRequests, NEW p \in Payments, SettleNew(x, p) \/ SettleDuplicate(x, p)
    PROVE  PipelineInv' /\ [StoreNext]_storeVars
  <1>. x \in Processes
    BY DEF Processes
  <1>1. PICK n \in TxIds : Take(x, [Idle EXCEPT !.pc = "claim", !.pay = p, !.intent = n])
    BY Zenon, TaskTypes DEF SettleNew, SettleDuplicate, NewRows
  <1>. DEFINE r == [Idle EXCEPT !.pc = "claim", !.pay = p, !.intent = n]
  <1>2. n \in TxIds \cup {None} /\ p \in Payments \cup {None} /\ "claim" \in Pcs /\ "claim" \in Rowless
    BY DEF Pcs, Rowless
  <1>3. r \in Task
    BY Zenon, <1>2, IdleTask DEF Task
  <1>4. r.pc = "claim" /\ r.pay = p /\ r.hash = None
    BY IdleTask DEF Task, Idle
  <1>5. Take(x, r)
    BY Zenon, <1>1
  <1>. HIDE DEF r
  <1>6. Records(x)
    <2>1. CASE SettleNew(x, p)
      <3>1. PICK m \in TxIds : CreateSettlementIntent(p, m)
        BY <2>1, Zenon DEF SettleNew, NewRows
      <3>2. StoreNext
        BY Zenon, <3>1 DEF StoreNext, PaymentStep
      <3>3. \A t \in TxIds : tx'[t].raw = tx[t].raw
        BY <3>1 DEF CreateSettlementIntent, PipelineInv, StoreInv, UnsignedRows, StoreTypeOK
      <3>. QED BY <3>2, <3>3 DEF Records
    <2>2. CASE SettleDuplicate(x, p)
      BY Zenon, <2>2, ReadsRecord DEF SettleDuplicate, OnlyReads
    <2>. QED BY Zenon, <2>1, <2>2
  <1>7. WorldTypeOK'
    BY Zenon, SameWorld DEF SettleNew, SettleDuplicate, OnlyReads, StoreWrite, PipelineInv, PipelineTypeOK
  <1>8. PipelineInv'
    <2>1. r.pc \notin {"renew", "load"}
      BY <1>4
    <2>. QED BY Zenon, <1>2, <1>3, <1>4, <1>5, <1>6, <1>7, <2>1, RowlessStep
  <1>. QED BY Zenon, <1>6, <1>8 DEF Records

\* HttpClaim takes the lease or goes to look for a hash.
LEMMA HttpClaimKeeps ==
    ASSUME PipelineInv, NEW x \in Processes, HttpClaim(x)
    PROVE  PipelineInv' /\ [StoreNext]_storeVars
  <1>1. ~ At(x, "idle") /\ x \notin ConfirmationWorkers
    BY ProcessAssumption DEF HttpClaim, At, PipelineInv, Knows, ClaimsInline
  <1>2. proc[x].pay \in Payments
    BY Zenon, <1>1, BusyHasPayment
  <1>3. UNCHANGED storeVars
    BY Zenon DEF HttpClaim, LeaseWrite
  <1>4. WorldTypeOK'
    BY Zenon, <1>1, <1>2, ClaimKeepsWorld, SameWorld DEF HttpClaim, LeaseWrite, PipelineInv, PipelineTypeOK
  <1>5. "load" \in Rowless /\ "reload" \in Rowless /\ "load" # "claim" /\ "reload" # "claim"
    BY DEF Rowless
  <1>. QED BY Zenon, <1>1, <1>3, <1>4, <1>5, GotoRowlessStep DEF HttpClaim

\* HttpReload looks for a hash.
LEMMA HttpReloadKeeps ==
    ASSUME PipelineInv, NEW x \in Processes, HttpReload(x)
    PROVE  PipelineInv' /\ UNCHANGED storeVars
  <1>1. Records(x) /\ WorldTypeOK' /\ ~ At(x, "idle") /\ UNCHANGED storeVars
    <2>1. ~ At(x, "idle")
      BY Zenon DEF HttpReload, At
    <2>. QED BY Zenon, <2>1, ReadsOnly DEF HttpReload, OnlyReads
  <1>2. CASE Finish(x)
    BY Zenon, <1>1, <1>2, FinishStep
  <1>3. ASSUME NEW t \in ActiveRows(proc[x].pay),
               Take(x, [proc[x] EXCEPT !.pc = "wait", !.intent = t, !.hash = tx[t].hash])
        PROVE  PipelineInv'
    <2>. DEFINE r == [proc[x] EXCEPT !.pc = "wait", !.intent = t, !.hash = tx[t].hash]
    <2>1. Take(x, r)
      BY Zenon, <1>3
    <2>2. /\ t \in TxIds /\ t \in TxIds \cup {None} /\ tx[t].hash \in Hashes \cup {None}
          /\ "wait" \in Pcs /\ proc[x].pay \in Payments /\ proc[x] \in Task
      BY <1>1, BusyHasPayment, TaskTypes DEF Pcs
    <2>3. r \in Task
      BY Zenon, <2>2 DEF Task
    <2>4. r.pc = "wait" /\ r.pay = proc[x].pay /\ r.hash = tx[t].hash
      BY <2>2 DEF Task
    <2>. HIDE DEF r
    <2>5. r.pc \in Rowless /\ r.pc # "claim" /\ r.pc \notin {"renew", "load"}
      BY <2>4 DEF Rowless
    <2>6. r.hash \in {None, proc[x].hash} \cup {tx[u].raw : u \in TxIds} \cup UnusedHashes
      BY <2>2, <2>4, TaskTypes
    <2>. QED BY Zenon, <1>1, <2>1, <2>2, <2>3, <2>4, <2>5, <2>6, RowlessStep
  <1>. QED BY Zenon, <1>1, <1>2, <1>3 DEF HttpReload

\* A request polls for the receipt and its depth.
LEMMA HttpPollKeeps ==
    ASSUME PipelineInv, NEW x \in Processes, HttpObserve(x) \/ HttpDepth(x)
    PROVE  PipelineInv' /\ UNCHANGED storeVars
  <1>1. Records(x) /\ WorldTypeOK' /\ UNCHANGED storeVars
    BY Zenon, ReadsOnly DEF HttpObserve, HttpDepth, OnlyReads
  <1>2. ~ At(x, "idle")
    BY Zenon DEF HttpObserve, HttpDepth, At
  <1>3. CASE Finish(x)
    BY Zenon, <1>1, <1>3, FinishStep
  <1>4. CASE Goto(x, "persist")
    <2>1. "persist" \in Rowless /\ "persist" # "claim" /\ "persist" \notin {"renew", "load"}
      BY DEF Rowless
    <2>. QED BY Zenon, <1>1, <1>2, <1>4, <2>1, GotoRowlessStep
  <1>5. ASSUME NEW c \in {"wait_depth", "wait"}, NEW rcpt \in Receipt,
               Take(x, [proc[x] EXCEPT !.pc = c, !.rcpt = rcpt])
        PROVE  PipelineInv'
    <2>. DEFINE r == [proc[x] EXCEPT !.pc = c, !.rcpt = rcpt]
    <2>1. Take(x, r)
      BY Zenon, <1>5
    <2>2. c \in Pcs /\ proc[x].pay \in Payments /\ proc[x] \in Task
      BY <1>2, BusyHasPayment, TaskTypes DEF Pcs
    <2>3. r \in Task
      BY Zenon, <2>2 DEF Task
    <2>4. r.pc = c /\ r.pay = proc[x].pay /\ r.hash = proc[x].hash
      BY <2>2 DEF Task
    <2>. HIDE DEF r
    <2>5. r.pc \in Rowless /\ r.pc # "claim" /\ r.pc \notin {"renew", "load"}
      BY <2>4 DEF Rowless
    <2>. QED BY Zenon, <1>1, <2>1, <2>2, <2>3, <2>4, <2>5, RowlessStep
  <1>6. NoReceipt \in Receipt
    BY DEF NoReceipt, Receipt
  <1>7. \A h : \A r \in Receipts(h) : r \in Receipt
    BY Zenon, ReceiptTypes DEF PipelineInv, PipelineTypeOK
  <1>. QED BY Zenon, <1>1, <1>3, <1>4, <1>5, <1>6, <1>7 DEF HttpObserve, HttpDepth

\* The audit trail refuses "http-wait": HttpPersist writes no payment.
LEMMA WaiterWritesNothing ==
    ASSUME NEW x \in Processes, HttpPersist(x)
    PROVE  UNCHANGED storeVars
  BY DEF HttpPersist, Attempt, CanFinalize, CanMove, ActorTypes

\* HttpPersist answers.
LEMMA HttpPersistKeeps ==
    ASSUME PipelineInv, NEW x \in Processes, HttpPersist(x)
    PROVE  PipelineInv' /\ UNCHANGED storeVars
  <1>1. UNCHANGED storeVars /\ Records(x)
    BY Zenon, WaiterWritesNothing, ReadsRecord
  <1>2. WorldTypeOK'
    <2>1. told' \in [Payments -> SUBSET {"settled", "failed_on_chain"}]
      BY Zenon DEF HttpPersist, Outcome, PipelineInv, PipelineTypeOK, WorldTypeOK
    <2>. QED BY Zenon, <2>1 DEF HttpPersist, PipelineInv, PipelineTypeOK, WorldTypeOK, LeaseTypeOK, chainVars
  <1>3. Finish(x)
    BY Zenon DEF HttpPersist
  <1>. QED BY Zenon, <1>1, <1>2, <1>3, FinishStep

\* A worker claims a payment its states select.
LEMMA WorkerClaimKeeps ==
    ASSUME PipelineInv, NEW x \in Processes, NEW p \in Payments, WorkerClaim(x, p)
    PROVE  PipelineInv' /\ UNCHANGED storeVars
  <1>. DEFINE r == [Idle EXCEPT !.pc = "renew", !.pay = p]
  <1>1. Take(x, r)
    BY Zenon DEF WorkerClaim
  <1>2. p \in Payments \cup {None} /\ "renew" \in Pcs
    BY DEF Pcs
  <1>3. r \in Task
    BY Zenon, <1>2, IdleTask DEF Task
  <1>4. r.pc = "renew" /\ r.pay = p /\ r.hash = None
    BY IdleTask DEF Task, Idle
  <1>. HIDE DEF r
  <1>5. UNCHANGED storeVars /\ Records(x)
    BY Zenon, ReadsRecord DEF WorkerClaim, LeaseWrite
  <1>6. WorldTypeOK'
    BY Zenon, ClaimKeepsWorld DEF WorkerClaim, LeaseWrite, PipelineInv, PipelineTypeOK
  <1>7. x \in ConfirmationWorkers => payment'[p] \in Watched \cup Final
    BY <1>5, ProcessAssumption DEF WorkerClaim, ClaimStates, storeVars
  <1>8. r.pc \in Rowless /\ r.pc # "claim"
    BY <1>4 DEF Rowless
  <1>. QED BY Zenon, <1>1, <1>3, <1>4, <1>5, <1>6, <1>7, <1>8, RowlessStep

\* It renews its lease or lets go.
LEMMA WorkerRenewKeeps ==
    ASSUME PipelineInv, NEW x \in Processes, WorkerRenew(x)
    PROVE  PipelineInv' /\ UNCHANGED storeVars
  <1>1. Records(x) /\ WorldTypeOK' /\ UNCHANGED storeVars
    BY Zenon, ReadsOnly DEF WorkerRenew, OnlyReads
  <1>2. CASE Finish(x)
    BY Zenon, <1>1, <1>2, FinishStep
  <1>3. CASE Goto(x, "load")
    <2>1. "load" \in Rowless /\ "load" # "claim" /\ ~ At(x, "idle")
      BY DEF Rowless, WorkerRenew, At
    <2>2. x \in ConfirmationWorkers => payment[proc[x].pay] \in Watched \cup Final
      BY DEF PipelineInv, Knows, KnowsWatched, WorkerRenew, At
    <2>. QED BY Zenon, <1>1, <1>3, <2>1, <2>2, GotoRowlessStep
  <1>. QED BY Zenon, <1>1, <1>2, <1>3 DEF WorkerRenew

\* It gives the lease back.
LEMMA ReleaseKeeps ==
    ASSUME PipelineInv, NEW x \in Processes, Release(x)
    PROVE  PipelineInv' /\ UNCHANGED storeVars
  <1>1. ~ At(x, "idle")
    BY DEF Release, At
  <1>2. Records(x) /\ UNCHANGED storeVars
    BY Zenon, ReadsRecord DEF Release, LeaseWrite
  <1>3. WorldTypeOK'
    BY Zenon, <1>1, BusyHasPayment, ClaimKeepsWorld DEF Release, LeaseWrite, PipelineInv, PipelineTypeOK
  <1>4. CASE Finish(x)
    BY Zenon, <1>2, <1>3, <1>4, FinishStep
  <1>5. ASSUME NEW pc \in {"wait", "reload"}, Goto(x, pc) PROVE PipelineInv'
    <2>1. pc \in Rowless /\ pc # "claim" /\ pc \notin {"renew", "load"}
      BY DEF Rowless
    <2>. QED BY Zenon, <1>1, <1>2, <1>3, <1>5, <2>1, GotoRowlessStep
  <1>. QED BY Zenon, <1>2, <1>4, <1>5 DEF Release

\* What the lists say of a row is what the process goes on to rely on.
LEMMA ListedKnows ==
    ASSUME PipelineInv, NEW t \in TxIds, NEW pass \in Passes, tx[t].status # Unused, Listed(t, pass)
    PROVE  /\ tx[t].pay \in Payments
           /\ pass = "replacements" => payment[tx[t].pay] \in Watched /\ tx[t].hash # None
           /\ pass \in {"nonce-gaps", "gap-fillers", "replaced-gap-fillers"} => Abandoned(tx[t].pay)
           /\ pass \in {"gap-fillers", "replaced-gap-fillers"} => tx[t].bytes /\ tx[t].hash # None
  <1>. USE DEF PipelineInv
  <1>1. tx[t].pay \in Payments
    BY DEF StoreInv, StoreTypeOK, TxRow, RowsOwned
  <1>2. ASSUME payment[tx[t].pay] \in {"expired", "failed"} PROVE Abandoned(tx[t].pay)
    BY <1>1, <1>2 DEF Abandoned, StoreInv, StateAgrees, RowsAgree, Rows, UnsignedRows
  <1>3. ASSUME tx[t].status \in {"broadcast", "replaced"} PROVE tx[t].hash # None
    BY <1>3, NoneAssumption DEF StoreInv, HandleRecorded, Watched, Unused
  <1>4. CASE pass = "replacements"
    BY <1>1, <1>3, <1>4 DEF Listed
  <1>5. CASE pass = "nonce-gaps"
    BY <1>1, <1>2, <1>5 DEF Listed, BlockingGap
  <1>6. CASE pass \in {"gap-fillers", "replaced-gap-fillers"}
    BY <1>1, <1>2, <1>3, <1>6, Zenon DEF Listed, GapFiller
  <1>7. CASE pass = "stuck-gap-fillers"
    BY <1>1, <1>7
  <1>. QED BY <1>4, <1>5, <1>6, <1>7 DEF Passes

\* Recovery takes a row from a list.
LEMMA ListRowKeeps ==
    ASSUME PipelineInv, NEW x \in Processes, NEW t \in TxIds, NEW pass \in Passes, ListRow(x, t, pass)
    PROVE  PipelineInv' /\ UNCHANGED storeVars
  <1>. DEFINE r == [Idle EXCEPT !.pc = "under_lease", !.pay = tx[t].pay,
                                !.row = t, !.hash = tx[t].hash, !.task = pass]
  <1>1. Take(x, r)
    BY Zenon DEF ListRow
  <1>2. Records(x) /\ WorldTypeOK' /\ UNCHANGED storeVars
    BY Zenon, ReadsOnly DEF ListRow, OnlyReads
  <1>3. /\ tx[t].pay \in Payments
        /\ pass = "replacements" => payment[tx[t].pay] \in Watched /\ tx[t].hash # None
        /\ pass \in {"nonce-gaps", "gap-fillers", "replaced-gap-fillers"} => Abandoned(tx[t].pay)
        /\ pass \in {"gap-fillers", "replaced-gap-fillers"} => tx[t].bytes /\ tx[t].hash # None
    BY ListedKnows DEF ListRow
  <1>4. /\ tx[t].pay \in Payments \cup {None} /\ "under_lease" \in Pcs /\ t \in TxIds \cup {None}
        /\ tx[t].hash \in Hashes \cup {None} /\ pass \in TxStatuses \cup Passes \cup {None}
    BY <1>3, TaskTypes DEF Pcs
  <1>5. r \in Task
    BY Zenon, <1>4, IdleTask DEF Task
  <1>6. /\ r.pc = "under_lease" /\ r.pay = tx[t].pay /\ r.row = t /\ r.hash = tx[t].hash
        /\ r.task = pass
    BY IdleTask DEF Task, Idle
  <1>7. proc'[x] = r
    BY Zenon, <1>1, <1>5, Becomes DEF PipelineInv, PipelineTypeOK
  <1>. HIDE DEF r
  <1>8. r.hash \in {None, proc[x].hash} \cup {tx[u].raw : u \in TxIds} \cup UnusedHashes
    BY <1>6, TaskTypes
  <1>9. KnowsSignature(x)' /\ KnowsBytes(x)' /\ ClaimsInline(x)'
    BY <1>6, <1>7 DEF KnowsSignature, Signing, KnowsBytes, ClaimsInline, At
  <1>10. KnowsRow(x)' /\ KnowsWatched(x)' /\ KnowsHash(x)'
    BY <1>2, <1>3, <1>6, <1>7 DEF KnowsRow, KnowsWatched, Observing, KnowsHash, TendingFiller, At, storeVars
  <1>11. KnowsFiller(x)'
    BY <1>2, <1>3, <1>6, <1>7 DEF KnowsFiller, Filling, TendingFiller, At, Abandoned, Rows, storeVars
  <1>. QED BY Zenon, <1>1, <1>2, <1>5, <1>8, <1>9, <1>10, <1>11, TakeStep DEF KnowsRecord

\* It works on the row under its payment's lease, or skips it.
LEMMA UnderLeaseKeeps ==
    ASSUME PipelineInv, NEW x \in Processes, UnderLease(x) \/ SkipLeased(x)
    PROVE  PipelineInv' /\ UNCHANGED storeVars
  <1>1. At(x, "under_lease") /\ ~ At(x, "idle")
    BY DEF UnderLease, SkipLeased, At
  <1>2. UNCHANGED storeVars /\ Records(x)
    BY Zenon, ReadsRecord DEF UnderLease, SkipLeased, LeaseWrite, OnlyReads
  <1>3. CASE SkipLeased(x)
    BY Zenon, <1>2, <1>3, FinishStep, SameWorld DEF SkipLeased, OnlyReads, PipelineInv, PipelineTypeOK
  <1>4. CASE UnderLease(x)
    <2>. DEFINE pc == CASE proc[x].task = "replacements" -> "landed"
                        [] proc[x].task = "nonce-gaps" -> "fill"
                        [] proc[x].task = "stuck-gap-fillers" -> "filler_bump"
                        [] OTHER -> "filler"
    <2>1. WorldTypeOK'
      BY Zenon, <1>1, <1>4, BusyHasPayment, ClaimKeepsWorld DEF UnderLease, LeaseWrite, PipelineInv, PipelineTypeOK
    <2>2. /\ pc \in {"landed", "fill", "filler_bump", "filler"}
          /\ pc = "landed" => proc[x].task = "replacements"
          /\ pc = "fill" => proc[x].task = "nonce-gaps"
          /\ pc = "filler" => proc[x].task \in {"gap-fillers", "replaced-gap-fillers"}
      BY <1>1 DEF PipelineInv, Knows, KnowsFiller, Passes
    <2>3. Goto(x, pc)
      BY Zenon, <1>4 DEF UnderLease
    <2>. HIDE DEF pc
    <2>4. pc \in Pcs
      BY <2>2 DEF Pcs
    <2>5. proc'[x].pc = pc /\ proc'[x].pay = proc[x].pay /\ proc'[x].row = proc[x].row
          /\ proc'[x].hash = proc[x].hash
      BY Zenon, <2>3, <2>4, GotoMoves DEF PipelineInv, PipelineTypeOK
    <2>6. KnowsRecord(x) /\ UNCHANGED <<payment, tx>>
      BY <1>2 DEF KnowsRecord, PipelineInv, Knows, storeVars
    <2>7. KnowsSignature(x)' /\ KnowsBytes(x)' /\ ClaimsInline(x)'
      BY <2>2, <2>5 DEF KnowsSignature, Signing, KnowsBytes, ClaimsInline, At
    <2>8. KnowsRow(x)' /\ KnowsWatched(x)' /\ KnowsHash(x)'
      BY <1>1, <2>2, <2>5, <2>6, Zenon DEF KnowsRecord, KnowsRow, KnowsWatched, Observing, KnowsHash,
         TendingFiller, At, Rowless
    <2>9. KnowsFiller(x)'
      BY <1>1, <2>2, <2>5, <2>6 DEF KnowsRecord, KnowsFiller, Filling, TendingFiller, At, Abandoned, Rows
    <2>. QED BY Zenon, <1>2, <2>1, <2>3, <2>4, <2>7, <2>8, <2>9, GotoStep DEF KnowsRecord
  <1>. QED BY Zenon, <1>2, <1>3, <1>4

-----------------------------------------------------------------------------
(* The first broadcast keeps the invariant                                 *)

\* A process that holds a row and nothing else of it.
LEMMA PlainKnows ==
    ASSUME NEW x \in Processes,
           proc'[x].pc \in {"expire", "simulate", "unsettleable", "ambiguous", "bump", "filler_bump"},
           proc'[x].pay \in Payments, proc'[x].row \in TxIds, tx'[proc'[x].row].pay = proc'[x].pay
    PROVE  KnowsRecord(x)' /\ KnowsSignature(x)'
  BY DEF KnowsRecord, KnowsRow, KnowsBytes, KnowsWatched, KnowsFiller, KnowsHash, KnowsSignature,
         ClaimsInline, At, Signing, Observing, Filling, TendingFiller

\* A process past its lease holds a row of its payment.
LEMMA HoldsRow ==
    ASSUME PipelineInv, NEW x \in Processes, ~ At(x, "idle"), proc[x].pc \notin Rowless
    PROVE  proc[x].pay \in Payments /\ proc[x].row \in TxIds /\ tx[proc[x].row].pay = proc[x].pay
  BY DEF PipelineInv, Knows, KnowsRow

\* A new signature is nobody else's.
LEMMA SigningKnows ==
    ASSUME PipelineInv, NEW x \in Processes, UNCHANGED storeVars, NEW r \in Task, Take(x, r),
           r.hash \in Signatures
    PROVE  r.hash \in UnusedHashes /\ KnowsSignature(x)'
  <1>1. Moves(x) /\ proc'[x] = r
    BY Zenon, Becomes DEF PipelineInv, PipelineTypeOK
  <1>2. r.hash \in UnusedHashes
    BY DEF Signatures
  <1>3. KnowsSignature(x)'
    BY <1>1, <1>2 DEF KnowsSignature, UnusedHashes, FreshHashes, Moves, storeVars
  <1>. QED BY <1>2, <1>3

\* Signing for the row a process holds keeps the invariant.
LEMMA SignStep ==
    ASSUME PipelineInv, NEW x \in Processes, NEW r \in Task, Take(x, r), r.hash \in Signatures,
           r.pc \in Signing, r.pay = proc[x].pay, r.row = proc[x].row,
           proc[x].pay \in Payments /\ proc[x].row \in TxIds /\ tx[proc[x].row].pay = proc[x].pay,
           r.pc = "prepare" => Abandoned(proc[x].pay),
           UNCHANGED storeVars, Records(x), WorldTypeOK'
    PROVE  PipelineInv'
  <1>1. proc'[x] = r
    BY Zenon, Becomes DEF PipelineInv, PipelineTypeOK
  <1>2. KnowsSignature(x)' /\ r.hash \in UnusedHashes
    BY Zenon, SigningKnows
  <1>3. KnowsRow(x)' /\ KnowsBytes(x)' /\ KnowsWatched(x)' /\ KnowsHash(x)' /\ ClaimsInline(x)'
    BY <1>1 DEF KnowsRow, KnowsBytes, KnowsWatched, KnowsHash, ClaimsInline, At, Signing, Observing,
       TendingFiller, storeVars
  <1>4. KnowsFiller(x)'
    BY <1>1, Zenon DEF KnowsFiller, At, Signing, Filling, TendingFiller, Abandoned, Rows, storeVars
  <1>. QED BY Zenon, <1>2, <1>3, <1>4, TakeStep DEF KnowsRecord

\* LoadSettlementWork finds a row to broadcast, or the payment is left.
LEMMA BroadcastLoadKeeps ==
    ASSUME PipelineInv, NEW x \in Processes, BroadcastLoad(x)
    PROVE  PipelineInv' /\ UNCHANGED storeVars
  <1>1. Records(x) /\ WorldTypeOK' /\ UNCHANGED storeVars
    BY Zenon, ReadsOnly DEF BroadcastLoad, OnlyReads
  <1>2. ~ At(x, "idle")
    BY Zenon DEF BroadcastLoad, At
  <1>3. CASE GiveUp(x)
    BY Zenon, <1>1, <1>2, <1>3, GiveUpStep
  <1>4. ASSUME NEW t \in ActiveRows(proc[x].pay), Leave(x, tx[t].hash, proc[x].intent)
        PROVE  PipelineInv'
    <2>1. tx[t].hash \in {None, proc[x].hash} \cup {tx[u].raw : u \in TxIds} /\ proc[x].intent \in TxIds \cup {None}
      BY <1>2, TaskTypes, BusyHasPayment
    <2>. QED BY Zenon, <1>1, <1>2, <1>4, <2>1, LeaveStep
  <1>5. ASSUME NEW t \in ActiveRows(proc[x].pay), NEW pc \in {"ambiguous", "expire", "simulate"},
               Take(x, [proc[x] EXCEPT !.row = t, !.pc = pc])
        PROVE  PipelineInv'
    <2>. DEFINE r == [proc[x] EXCEPT !.row = t, !.pc = pc]
    <2>1. Take(x, r)
      BY Zenon, <1>5
    <2>2. /\ t \in TxIds /\ t \in TxIds \cup {None} /\ tx[t].pay = proc[x].pay
          /\ pc \in Pcs /\ proc[x].pay \in Payments /\ proc[x] \in Task
      BY <1>2, BusyHasPayment, TaskTypes DEF Pcs
    <2>3. r \in Task
      BY Zenon, <2>2 DEF Task
    <2>4. r.pc = pc /\ r.pay = proc[x].pay /\ r.hash = proc[x].hash /\ r.row = t
      BY <2>2 DEF Task
    <2>5. proc'[x] = r
      BY Zenon, <2>1, <2>3, Becomes DEF PipelineInv, PipelineTypeOK
    <2>. HIDE DEF r
    <2>6. KnowsRecord(x)' /\ KnowsSignature(x)'
      BY <1>1, <2>2, <2>4, <2>5, PlainKnows DEF storeVars
    <2>. QED BY Zenon, <1>1, <2>1, <2>3, <2>4, <2>6, TakeStep
  <1>6. ASSUME NEW t \in ActiveRows(proc[x].pay),
               CASE tx[t].hash # None -> Leave(x, tx[t].hash, proc[x].intent)
                 [] tx[t].hash = None /\ tx[t].status \notin {"intent", "broadcasting"} -> GiveUp(x)
                 [] OTHER ->
                      Take(x, [proc[x] EXCEPT !.row = t,
                                  !.pc = IF tx[t].status = "broadcasting" THEN "ambiguous"
                                         ELSE IF clock[proc[x].pay] # "live" THEN "expire"
                                         ELSE "simulate"])
        PROVE  PipelineInv'
    <2>. DEFINE pc == IF tx[t].status = "broadcasting" THEN "ambiguous"
                      ELSE IF clock[proc[x].pay] # "live" THEN "expire" ELSE "simulate"
    <2>1. \/ Leave(x, tx[t].hash, proc[x].intent)
          \/ GiveUp(x)
          \/ Take(x, [proc[x] EXCEPT !.row = t, !.pc = pc])
      BY <1>6
    <2>2. pc \in {"ambiguous", "expire", "simulate"}
      OBVIOUS
    <2>. HIDE DEF pc
    <2>. QED BY Zenon, <1>3, <1>4, <1>5, <2>1, <2>2
  <1>. QED BY Zenon, <1>1, <1>3, <1>6 DEF BroadcastLoad

\* The simulation reverts or the transaction is signed.
LEMMA SimulateKeeps ==
    ASSUME PipelineInv, NEW x \in Processes, Simulate(x)
    PROVE  PipelineInv' /\ UNCHANGED storeVars
  <1>1. Records(x) /\ WorldTypeOK' /\ UNCHANGED storeVars
    BY Zenon, ReadsOnly DEF Simulate, OnlyReads
  <1>2. proc[x].pay \in Payments /\ proc[x].row \in TxIds /\ tx[proc[x].row].pay = proc[x].pay
    BY HoldsRow, Zenon DEF Simulate, At, Rowless
  <1>3. CASE Goto(x, "unsettleable")
    <2>1. "unsettleable" \in Pcs
      BY DEF Pcs
    <2>2. proc'[x].pc = "unsettleable" /\ proc'[x].pay = proc[x].pay /\ proc'[x].row = proc[x].row
      BY Zenon, <1>3, <2>1, GotoMoves DEF PipelineInv, PipelineTypeOK
    <2>3. KnowsRecord(x)' /\ KnowsSignature(x)'
      BY <1>1, <1>2, <2>2, PlainKnows DEF storeVars
    <2>. QED BY Zenon, <1>1, <1>3, <2>1, <2>3, GotoStep
  <1>4. ASSUME NEW h \in Signatures, Take(x, [proc[x] EXCEPT !.pc = "signed", !.hash = h])
        PROVE  PipelineInv'
    <2>. DEFINE r == [proc[x] EXCEPT !.pc = "signed", !.hash = h]
    <2>1. Take(x, r)
      BY Zenon, <1>4
    <2>2. h \in Hashes \cup {None} /\ "signed" \in Pcs /\ proc[x] \in Task
      BY TaskTypes DEF Pcs, Signatures, UnusedHashes, FreshHashes
    <2>3. r \in Task
      BY Zenon, <2>2 DEF Task
    <2>4. r.pc = "signed" /\ r.pay = proc[x].pay /\ r.hash = h /\ r.row = proc[x].row
      BY <2>2 DEF Task
    <2>. HIDE DEF r
    <2>5. r.pc \in Signing /\ r.pc # "prepare"
      BY <2>4 DEF Signing
    <2>. QED BY Zenon, <1>1, <1>2, <2>1, <2>3, <2>4, <2>5, SignStep
  <1>. QED BY Zenon, <1>1, <1>3, <1>4 DEF Simulate

\* The inline broadcast and the worker are both actors the audit trail takes.
LEMMA ActorsAudited ==
    \A x : Actor(x) \in {"http", "worker"} /\ Actor(x) \in ActorTypes /\ "worker" \in ActorTypes
  BY DEF Actor, ActorTypes

\* An intent that must not be broadcast is dropped.
LEMMA RetireKeeps ==
    ASSUME PipelineInv, NEW x \in Processes, Retire(x)
    PROVE  PipelineInv' /\ [StoreNext]_storeVars
  <1>. DEFINE p == proc[x].pay
              t == proc[x].row
              to == IF At(x, "expire") THEN "expired" ELSE "failed"
  <1>1. ~ At(x, "idle") /\ p \in Payments /\ t \in TxIds
    BY HoldsRow DEF Retire, At, Rowless
  <1>2. WorldTypeOK'
    BY Zenon, SameWorld DEF Retire, StoreWrite, PipelineInv, PipelineTypeOK
  <1>3. Records(x)
    <2>1. CASE UNCHANGED storeVars
      BY Zenon, <2>1, ReadsRecord
    <2>2. CASE DropIntent(p, t, to, Actor(x))
      <3>1. DropIntent(p, t, to, "worker") /\ to \in {"expired", "failed"}
        BY <2>2, ActorsAudited DEF DropIntent, CanDropIntent, CanMove
      <3>2. StoreNext
        BY Zenon, <1>1, <3>1 DEF StoreNext, BroadcastStep, MarkIntentUnsettleable, MarkIntentExpired
      <3>3. \A u \in TxIds : tx'[u].raw = tx[u].raw
        BY <2>2 DEF DropIntent, SetStatus, PipelineInv, PipelineTypeOK, StoreTypeOK, TxRow
      <3>. QED BY <3>2, <3>3 DEF Records
    <2>. QED BY Zenon, <2>1, <2>2 DEF Retire, Attempt
  <1>4. GiveUp(x) \/ Reject(x)
    BY Zenon DEF Retire
  <1>. QED BY Zenon, <1>1, <1>2, <1>3, <1>4, GiveUpStep DEF Records

\* The raw hash is on record before anything is sent.
LEMMA PersistSignedKeeps ==
    ASSUME PipelineInv, NEW x \in Processes, PersistSigned(x)
    PROVE  PipelineInv' /\ [StoreNext]_storeVars
  <1>. DEFINE p == proc[x].pay
              t == proc[x].row
              h == proc[x].hash
  <1>1. ~ At(x, "idle") /\ p \in Payments /\ t \in TxIds /\ tx[t].pay = p
    BY HoldsRow DEF PersistSigned, At, Rowless
  <1>2. WorldTypeOK'
    BY Zenon, SameWorld DEF PersistSigned, StoreWrite, PipelineInv, PipelineTypeOK
  <1>3. h \in FreshHashes /\ h # None
    BY NoneAssumption, Zenon DEF PersistSigned, PipelineInv, Knows, KnowsSignature, Signing, At, FreshHashes
  <1>4. CASE ~ CanMarkTxSigned(t)
    <2>1. UNCHANGED storeVars /\ GiveUp(x)
      BY Zenon, <1>4 DEF PersistSigned, Attempt
    <2>. QED BY Zenon, <1>1, <1>2, <2>1, ReadsRecord, GiveUpStep DEF Records
  <1>5. CASE CanMarkTxSigned(t)
    <2>1. MarkTxSigned(t, h) /\ Goto(x, "send")
      BY Zenon, <1>5 DEF PersistSigned, Attempt
    <2>2. StoreNext
      BY Zenon, <1>1, <1>3, <2>1 DEF StoreNext, BroadcastStep
    <2>3. tx'[t].raw = h /\ tx'[t].pay = p /\ \A u \in TxIds : tx'[u].raw \in {tx[u].raw, h}
      BY <1>1, <2>1 DEF MarkTxSigned, Version, PipelineInv, PipelineTypeOK, StoreTypeOK
    <2>4. "send" \in Pcs
      BY DEF Pcs
    <2>5. /\ proc'[x].pc = "send" /\ proc'[x].pay = p /\ proc'[x].row = t /\ proc'[x].hash = h
      BY Zenon, <2>1, <2>4, GotoMoves DEF PipelineInv, PipelineTypeOK
    <2>6. KnowsRecord(x)' /\ KnowsSignature(x)'
      BY <1>1, <1>3, <2>3, <2>5 DEF KnowsRecord, KnowsRow, KnowsBytes, KnowsWatched, KnowsFiller, KnowsHash,
         KnowsSignature, ClaimsInline, At, Signing, Observing, Filling, TendingFiller
    <2>7. Records(x)
      BY Zenon, <2>2, <2>3 DEF Records
    <2>. QED BY Zenon, <1>2, <2>1, <2>2, <2>4, <2>6, <2>7, GotoStep
  <1>. QED BY Zenon, <1>4, <1>5

\* What a process sends is a signed transaction.
LEMMA AcceptKeepsWorld ==
    ASSUME PipelineInv, NEW x \in Processes, proc[x].pc \in {"send", "resend", "push"},
           Accept(Signed(proc[x].row, proc[x].hash)), UNCHANGED <<lease, clock, told>>
    PROVE  WorldTypeOK'
  <1>1. proc[x].pay \in Payments /\ proc[x].row \in TxIds /\ tx[proc[x].row].pay = proc[x].pay
    BY HoldsRow DEF At, Rowless
  <1>2. proc[x].hash \in Hashes
    BY TaskTypes, Zenon DEF PipelineInv, Knows, KnowsHash
  <1>3. Signed(proc[x].row, proc[x].hash) \in [h : Hashes, nonce : Nat, pay : Payments]
    BY <1>1, <1>2, Zenon DEF Signed, PipelineInv, PipelineTypeOK, StoreTypeOK, TxRow
  <1>4. net' \subseteq [h : Hashes, nonce : Nat, pay : Payments]
    <2>. DEFINE m == Signed(proc[x].row, proc[x].hash)
                M == [h : Hashes, nonce : Nat, pay : Payments]
    <2>1. m \in M /\ net \subseteq M /\ net' = net \cup {m}
      BY Zenon, <1>3 DEF Accept, PipelineInv, PipelineTypeOK, WorldTypeOK
    <2>. HIDE DEF m, M
    <2>2. net' \subseteq M
      BY <2>1
    <2>. QED BY Zenon, <2>2 DEF M
  <1>. QED BY Zenon, <1>4 DEF Accept, PipelineInv, PipelineTypeOK, WorldTypeOK, LeaseTypeOK

\* Sending keeps the invariant, acknowledged or not.
LEMMA SendKeeps ==
    ASSUME PipelineInv, NEW x \in Processes, Send(x) \/ SendFails(x)
    PROVE  PipelineInv' /\ UNCHANGED storeVars
  <1>1. proc[x].pc \in {"send", "resend", "push"} /\ ~ At(x, "idle")
    BY Zenon DEF Send, SendFails, At
  <1>2. WorldTypeOK'
    BY Zenon, <1>1, AcceptKeepsWorld, SameWorld
       DEF Send, SendFails, NetworkWrite, Lose, PipelineInv, PipelineTypeOK
  <1>3. UNCHANGED storeVars /\ Records(x)
    BY Zenon, ReadsRecord DEF Send, SendFails, NetworkWrite
  <1>4. CASE GiveUp(x)
    BY Zenon, <1>1, <1>2, <1>3, <1>4, GiveUpStep
  <1>5. ASSUME NEW pc \in {"record", "recover", "ambiguous"}, Goto(x, pc), proc[x].pc \in {"send", "resend"}
        PROVE  PipelineInv'
    <2>1. pc \in Pcs
      BY DEF Pcs
    <2>2. proc'[x].pc = pc /\ proc'[x].pay = proc[x].pay /\ proc'[x].row = proc[x].row
          /\ proc'[x].hash = proc[x].hash
      BY Zenon, <1>5, <2>1, GotoMoves DEF PipelineInv, PipelineTypeOK
    <2>3. proc[x].pay \in Payments /\ proc[x].row \in TxIds /\ tx[proc[x].row].pay = proc[x].pay
      BY <1>1, HoldsRow DEF At, Rowless
    <2>4. KnowsBytes(x) /\ KnowsHash(x) /\ UNCHANGED <<payment, tx>>
      BY <1>3 DEF PipelineInv, Knows, storeVars
    <2>5. KnowsRecord(x)' /\ KnowsSignature(x)'
      BY <1>5, <2>2, <2>3, <2>4, Zenon DEF KnowsRecord, KnowsRow, KnowsBytes, KnowsWatched, KnowsFiller, KnowsHash,
         KnowsSignature, ClaimsInline, At, Signing, Observing, Filling, TendingFiller
    <2>. QED BY Zenon, <1>2, <1>3, <1>5, <2>1, <2>5, GotoStep
  <1>6. GiveUp(x) \/ (proc[x].pc \in {"send", "resend"} /\ \E pc \in {"record", "recover", "ambiguous"} : Goto(x, pc))
    BY <1>1, Zenon DEF Send, SendFails, At
  <1>. QED BY Zenon, <1>3, <1>4, <1>5, <1>6

\* The acknowledged broadcast is recorded under the hash that was signed.
LEMMA RecordBroadcastKeeps ==
    ASSUME PipelineInv, NEW x \in Processes, RecordBroadcast(x)
    PROVE  PipelineInv' /\ [StoreNext]_storeVars
  <1>. DEFINE p == proc[x].pay
              t == proc[x].row
              h == proc[x].hash
  <1>1. ~ At(x, "idle") /\ p \in Payments /\ t \in TxIds
    BY HoldsRow DEF RecordBroadcast, At, Rowless
  <1>2. WorldTypeOK'
    BY Zenon, SameWorld DEF RecordBroadcast, StoreWrite, PipelineInv, PipelineTypeOK
  <1>3. Records(x)
    <2>1. CASE UNCHANGED storeVars
      BY Zenon, <2>1, ReadsRecord
    <2>2. CASE MarkTxBroadcast(p, t, h, Actor(x))
      <3>1. tx[t].raw = h
        BY <2>2, Zenon DEF MarkTxBroadcast, CanMarkTxBroadcast, RowIn, RecordBroadcast, PipelineInv, Knows,
           KnowsBytes, At, FirstBroadcast
      <3>2. MarkTxBroadcast(p, t, tx[t].raw, "http") \/ MarkTxBroadcast(p, t, tx[t].raw, "worker")
        BY Zenon, <2>2, <3>1, ActorsAudited
      <3>3. StoreNext
        BY Zenon, <1>1, <3>2 DEF StoreNext, BroadcastStep
      <3>4. \A u \in TxIds : tx'[u].raw = tx[u].raw
        BY <2>2 DEF MarkTxBroadcast, Version, PipelineInv, PipelineTypeOK, StoreTypeOK
      <3>. QED BY <3>3, <3>4 DEF Records
    <2>. QED BY Zenon, <2>1, <2>2 DEF RecordBroadcast, Attempt
  <1>4. h \in {None, proc[x].hash} \cup {tx[u].raw : u \in TxIds} /\ proc[x].intent \in TxIds \cup {None}
    BY TaskTypes
  <1>5. Leave(x, h, proc[x].intent) \/ GiveUp(x)
    BY Zenon DEF RecordBroadcast
  <1>. QED BY Zenon, <1>1, <1>2, <1>3, <1>4, <1>5, GiveUpStep, LeaveStep DEF Records

\* A send without an answer is recorded as ambiguous.
LEMMA RecordAmbiguousKeeps ==
    ASSUME PipelineInv, NEW x \in Processes, RecordAmbiguous(x)
    PROVE  PipelineInv' /\ [StoreNext]_storeVars
  <1>. DEFINE p == proc[x].pay
              t == proc[x].row
  <1>1. ~ At(x, "idle") /\ p \in Payments /\ t \in TxIds
    BY HoldsRow DEF RecordAmbiguous, At, Rowless
  <1>2. WorldTypeOK'
    BY Zenon, SameWorld DEF RecordAmbiguous, StoreWrite, PipelineInv, PipelineTypeOK
  <1>3. Records(x)
    <2>1. CASE UNCHANGED storeVars
      BY Zenon, <2>1, ReadsRecord
    <2>2. CASE MarkTxAmbiguous(p, t, Actor(x))
      <3>1. MarkTxAmbiguous(p, t, "worker")
        BY <2>2, ActorsAudited DEF MarkTxAmbiguous, CanMarkTxAmbiguous, CanMove
      <3>2. StoreNext
        BY Zenon, <1>1, <3>1 DEF StoreNext, BroadcastStep
      <3>3. \A u \in TxIds : tx'[u].raw = tx[u].raw
        BY <2>2 DEF MarkTxAmbiguous, SetStatus, PipelineInv, PipelineTypeOK, StoreTypeOK, TxRow
      <3>. QED BY <3>2, <3>3 DEF Records
    <2>. QED BY Zenon, <2>1, <2>2 DEF RecordAmbiguous, Attempt
  <1>4. GiveUp(x)
    BY Zenon DEF RecordAmbiguous
  <1>. QED BY Zenon, <1>1, <1>2, <1>3, <1>4, GiveUpStep DEF Records

-----------------------------------------------------------------------------
(* Confirmation keeps the invariant                                        *)

\* A process that observes knows its row and its hash, and that the payment was watched.
LEMMA ObservingKnows ==
    ASSUME NEW x \in Processes,
           proc'[x].pc \in {"observe", "depth", "reorged", "confirming", "confirmed", "reverted",
                            "landed", "landed_depth", "land"},
           proc'[x].pay \in Payments, proc'[x].row \in TxIds, tx'[proc'[x].row].pay = proc'[x].pay,
           payment'[proc'[x].pay] \in Watched \cup Final,
           proc'[x].hash # None, tx'[proc'[x].row].hash = proc'[x].hash
    PROVE  KnowsRecord(x)' /\ KnowsSignature(x)'
  BY Zenon DEF KnowsRecord, KnowsRow, KnowsBytes, KnowsWatched, KnowsFiller, KnowsHash, KnowsSignature,
         ClaimsInline, At, Signing, Observing, Filling, TendingFiller

Observation == {"observe", "depth", "reorged", "confirming", "confirmed", "reverted",
                "landed", "landed_depth", "land"}

\* From one step of an observation to the next.
LEMMA ObservationStep ==
    ASSUME PipelineInv, NEW x \in Processes, proc[x].pc \in Observation, UNCHANGED storeVars,
           NEW r \in Task, Take(x, r), r.pc \in Observation,
           r.pay = proc[x].pay, r.row = proc[x].row, r.hash = proc[x].hash, WorldTypeOK'
    PROVE  PipelineInv'
  <1>1. proc'[x] = r
    BY Zenon, Becomes DEF PipelineInv, PipelineTypeOK
  <1>2. proc[x].pay \in Payments /\ proc[x].row \in TxIds /\ tx[proc[x].row].pay = proc[x].pay
    BY HoldsRow, Zenon DEF At, Rowless, Observation
  <1>3. /\ payment[proc[x].pay] \in Watched \cup Final
        /\ proc[x].hash # None /\ tx[proc[x].row].hash = proc[x].hash
    BY Zenon DEF PipelineInv, Knows, KnowsWatched, Observing, Observation
  <1>4. KnowsRecord(x)' /\ KnowsSignature(x)'
    BY <1>1, <1>2, <1>3, ObservingKnows, Zenon DEF storeVars, Observation
  <1>. QED BY Zenon, <1>4, TakeStep, ReadsRecord

\* Goto within an observation.
LEMMA ObservationGoto ==
    ASSUME PipelineInv, NEW x \in Processes, proc[x].pc \in Observation, UNCHANGED storeVars,
           NEW pc \in Observation, Goto(x, pc), WorldTypeOK'
    PROVE  PipelineInv'
  <1>. DEFINE r == [proc[x] EXCEPT !.pc = pc]
  <1>1. pc \in Pcs /\ proc[x] \in Task
    BY TaskTypes, Zenon DEF Pcs, Observation
  <1>2. r \in Task /\ Take(x, r)
    BY Zenon, <1>1 DEF Task, Goto
  <1>3. r.pc = pc /\ r.pay = proc[x].pay /\ r.row = proc[x].row /\ r.hash = proc[x].hash
    BY <1>1 DEF Task
  <1>. HIDE DEF r
  <1>. QED BY Zenon, <1>2, <1>3, ObservationStep

\* A receipt noted within an observation.
LEMMA ObservationReceipt ==
    ASSUME PipelineInv, NEW x \in Processes, proc[x].pc \in Observation, UNCHANGED storeVars,
           NEW pc \in Observation, NEW rcpt \in Receipts(proc[x].hash),
           Take(x, [proc[x] EXCEPT !.pc = pc, !.rcpt = rcpt]), WorldTypeOK'
    PROVE  PipelineInv'
  <1>. DEFINE r == [proc[x] EXCEPT !.pc = pc, !.rcpt = rcpt]
  <1>1. pc \in Pcs /\ proc[x] \in Task
    BY TaskTypes DEF Pcs, Observation
  <1>2. rcpt \in Receipt
    BY Zenon, ReceiptTypes DEF PipelineInv, PipelineTypeOK
  <1>3. r \in Task /\ Take(x, r)
    BY Zenon, <1>1, <1>2 DEF Task
  <1>4. r.pc = pc /\ r.pay = proc[x].pay /\ r.row = proc[x].row /\ r.hash = proc[x].hash
    BY <1>1 DEF Task
  <1>. HIDE DEF r
  <1>. QED BY Zenon, <1>3, <1>4, ObservationStep

\* The confirmation worker loads the transaction to look for.
LEMMA ConfirmationLoadKeeps ==
    ASSUME PipelineInv, NEW x \in Processes, ConfirmationLoad(x)
    PROVE  PipelineInv' /\ UNCHANGED storeVars
  <1>1. Records(x) /\ WorldTypeOK' /\ UNCHANGED storeVars
    BY Zenon, ReadsOnly DEF ConfirmationLoad, OnlyReads
  <1>2. ~ At(x, "idle") /\ payment[proc[x].pay] \in Watched \cup Final
    BY Zenon DEF ConfirmationLoad, At, PipelineInv, Knows, KnowsWatched
  <1>3. CASE GiveUp(x)
    BY Zenon, <1>1, <1>2, <1>3, GiveUpStep
  <1>4. ASSUME NEW t \in ActiveRows(proc[x].pay), tx[t].hash # None,
               Take(x, [proc[x] EXCEPT !.pc = "observe", !.row = t, !.hash = tx[t].hash,
                                       !.task = tx[t].status])
        PROVE  PipelineInv'
    <2>. DEFINE r == [proc[x] EXCEPT !.pc = "observe", !.row = t, !.hash = tx[t].hash,
                                     !.task = tx[t].status]
    <2>1. Take(x, r)
      BY Zenon, <1>4
    <2>2. /\ t \in TxIds /\ t \in TxIds \cup {None} /\ tx[t].pay = proc[x].pay
          /\ tx[t].hash \in Hashes \cup {None}
          /\ "observe" \in Pcs /\ proc[x].pay \in Payments /\ proc[x] \in Task
      BY <1>2, BusyHasPayment, TaskTypes DEF Pcs
    <2>3. tx[t].status \in TxStatuses \cup Passes \cup {None}
      BY <2>2, TaskTypes, NoneAssumption, Zenon DEF PipelineInv, StoreInv, RowsOwned
    <2>4. r \in Task
      BY Zenon, <2>2, <2>3 DEF Task
    <2>5. r.pc = "observe" /\ r.pay = proc[x].pay /\ r.hash = tx[t].hash /\ r.row = t
      BY <2>2 DEF Task
    <2>6. proc'[x] = r
      BY Zenon, <2>1, <2>4, Becomes DEF PipelineInv, PipelineTypeOK
    <2>. HIDE DEF r
    <2>7. KnowsRecord(x)' /\ KnowsSignature(x)'
      BY <1>1, <1>2, <1>4, <2>2, <2>5, <2>6, ObservingKnows DEF storeVars
    <2>8. r.hash \in {None, proc[x].hash} \cup {tx[u].raw : u \in TxIds} \cup UnusedHashes
      BY <2>2, <2>5, TaskTypes
    <2>. QED BY Zenon, <1>1, <2>1, <2>4, <2>7, <2>8, TakeStep
  <1>. QED BY Zenon, <1>1, <1>3, <1>4 DEF ConfirmationLoad

\* The worker looks for the receipt and measures its depth; a superseded
\* transaction is looked for in the same way.
LEMMA ObserveKeeps ==
    ASSUME PipelineInv, NEW x \in Processes,
           Observe(x) \/ ObserveLagging(x) \/ MeasureDepth(x) \/ ObserveReplaced(x) \/ LandedDepth(x)
    PROVE  PipelineInv' /\ UNCHANGED storeVars
  <1>1. Records(x) /\ WorldTypeOK' /\ UNCHANGED storeVars
    BY Zenon, ReadsOnly DEF Observe, ObserveLagging, MeasureDepth, ObserveReplaced, LandedDepth, OnlyReads
  <1>2. proc[x].pc \in Observation /\ ~ At(x, "idle")
    BY Zenon DEF Observe, ObserveLagging, MeasureDepth, ObserveReplaced, LandedDepth, At, Observation
  <1>3. CASE GiveUp(x)
    BY Zenon, <1>1, <1>2, <1>3, GiveUpStep
  <1>4. ASSUME NEW pc \in Observation, Goto(x, pc) PROVE PipelineInv'
    BY Zenon, <1>1, <1>2, <1>4, ObservationGoto
  <1>5. ASSUME NEW pc \in Observation, NEW rcpt \in Receipts(proc[x].hash),
               Take(x, [proc[x] EXCEPT !.pc = pc, !.rcpt = rcpt])
        PROVE  PipelineInv'
    BY Zenon, <1>1, <1>2, <1>5, ObservationReceipt
  <1>6. {"depth", "reorged", "confirming", "confirmed", "reverted", "land", "landed_depth"} \subseteq Observation
    BY DEF Observation
  <1>7. CASE Observe(x) \/ ObserveLagging(x)
    <2>1. "reorged" \in Observation /\ "depth" \in Observation
      BY <1>6
    <2>. QED BY Zenon, <1>1, <1>3, <1>4, <1>5, <1>7, <2>1 DEF Observe, ObserveLagging
  <1>8. CASE MeasureDepth(x)
    <2>. DEFINE pc == IF Depth(proc[x].rcpt) < Confirmations THEN "confirming"
                      ELSE IF proc[x].rcpt.ok THEN "confirmed" ELSE "reverted"
    <2>1. Goto(x, pc)
      BY Zenon, <1>8 DEF MeasureDepth
    <2>2. pc \in Observation
      BY <1>6
    <2>. HIDE DEF pc
    <2>. QED BY Zenon, <1>1, <1>4, <2>1, <2>2
  <1>9. CASE ObserveReplaced(x)
    <2>1. ASSUME NEW rcpt \in Receipts(proc[x].hash),
                 Take(x, [proc[x] EXCEPT !.pc = IF rcpt.ok THEN "land" ELSE "landed_depth", !.rcpt = rcpt])
          PROVE  PipelineInv'
      <3>. DEFINE pc == IF rcpt.ok THEN "land" ELSE "landed_depth"
      <3>1. Take(x, [proc[x] EXCEPT !.pc = pc, !.rcpt = rcpt])
        BY Zenon, <2>1
      <3>2. pc \in Observation
        BY <1>6
      <3>. HIDE DEF pc
      <3>. QED BY Zenon, <1>5, <3>1, <3>2
    <2>. QED BY Zenon, <1>1, <1>3, <1>9, <2>1 DEF ObserveReplaced
  <1>10. CASE LandedDepth(x)
    <2>1. "land" \in Observation
      BY <1>6
    <2>. QED BY Zenon, <1>1, <1>3, <1>4, <1>10, <2>1 DEF LandedDepth
  <1>. QED BY Zenon, <1>1, <1>7, <1>8, <1>9, <1>10

\* What it saw is recorded.
LEMMA RecordObservationKeeps ==
    ASSUME PipelineInv, NEW x \in Processes, RecordObservation(x)
    PROVE  PipelineInv' /\ [StoreNext]_storeVars
  <1>. DEFINE p == proc[x].pay
              t == proc[x].row
  <1>1. proc[x].pc \in Observation /\ ~ At(x, "idle")
    BY DEF RecordObservation, At, Observation, Final
  <1>2. p \in Payments /\ t \in TxIds /\ payment[p] \in Watched \cup Final
    BY <1>1, HoldsRow, Zenon DEF At, Rowless, Observation, PipelineInv, Knows, KnowsWatched, Observing
  <1>3. WorldTypeOK'
    BY Zenon, SameWorld DEF RecordObservation, StoreWrite, PipelineInv, PipelineTypeOK
  <1>. USE DEF PipelineInv, PipelineTypeOK, StoreTypeOK, TxRow
  <1>4. ASSUME UNCHANGED storeVars PROVE Records(x)
    BY Zenon, <1>4, ReadsRecord
  <1>5. ASSUME MarkTxReorgedOut(p, t, "worker") PROVE Records(x)
    <2>1. StoreNext
      BY Zenon, <1>2, <1>5 DEF StoreNext, ConfirmationStep
    <2>2. \A u \in TxIds : tx'[u].raw = tx[u].raw
      BY <1>5 DEF MarkTxReorgedOut, SetStatus
    <2>. QED BY <2>1, <2>2 DEF Records
  <1>6. ASSUME MarkTxConfirming(p, t, "worker") PROVE Records(x)
    <2>1. StoreNext
      BY Zenon, <1>2, <1>6 DEF StoreNext, ConfirmationStep
    <2>2. \A u \in TxIds : tx'[u].raw = tx[u].raw
      BY <1>6 DEF MarkTxConfirming
    <2>. QED BY <2>1, <2>2 DEF Records
  <1>7. ASSUME NEW final \in Final, Finalize(p, t, final, "worker") PROVE Records(x)
    <2>1. \E actor \in {"worker", "http-wait"} : MarkTxConfirmed(p, t, actor) \/ MarkTxReverted(p, t, actor)
      BY <1>7 DEF Final, MarkTxConfirmed, MarkTxReverted
    <2>2. StoreNext
      BY Zenon, <1>2, <2>1 DEF StoreNext, ConfirmationStep
    <2>3. \A u \in TxIds : tx'[u].raw = tx[u].raw
      BY <1>7 DEF Finalize, SetStatus
    <2>. QED BY <2>2, <2>3 DEF Records
  <1>8. Records(x)
    BY Zenon, <1>4, <1>5, <1>6, <1>7 DEF RecordObservation, Attempt
  <1>9. GiveUp(x)
    BY Zenon DEF RecordObservation
  <1>. QED BY Zenon, <1>1, <1>3, <1>8, <1>9, GiveUpStep DEF Records

\* A superseded transaction that was mined is recorded.
LEMMA RecordLandedKeeps ==
    ASSUME PipelineInv, NEW x \in Processes, RecordLanded(x)
    PROVE  PipelineInv' /\ [StoreNext]_storeVars
  <1>. DEFINE p == proc[x].pay
              t == proc[x].row
              ok == proc[x].rcpt.ok
  <1>1. ~ At(x, "idle") /\ p \in Payments /\ t \in TxIds
    BY HoldsRow DEF RecordLanded, At, Rowless
  <1>2. ok \in BOOLEAN
    BY TaskTypes DEF Task, Receipt
  <1>3. WorldTypeOK'
    BY Zenon, SameWorld DEF RecordLanded, StoreWrite, PipelineInv, PipelineTypeOK
  <1>4. Records(x)
    <2>1. CASE UNCHANGED storeVars
      BY Zenon, <2>1, ReadsRecord
    <2>2. CASE MarkReplacementLanded(p, t, ok, "worker")
      <3>1. StoreNext
        BY Zenon, <1>1, <1>2, <2>2 DEF StoreNext, RecoveryStep
      <3>2. \A u \in TxIds : tx'[u].raw = tx[u].raw
        BY <2>2 DEF MarkReplacementLanded, PipelineInv, PipelineTypeOK, StoreTypeOK, TxRow
      <3>. QED BY <3>1, <3>2 DEF Records
    <2>. QED BY Zenon, <2>1, <2>2 DEF RecordLanded, Attempt
  <1>5. GiveUp(x)
    BY Zenon DEF RecordLanded
  <1>. QED BY Zenon, <1>1, <1>3, <1>4, <1>5, GiveUpStep DEF Records

-----------------------------------------------------------------------------
(* Recovery keeps the invariant                                            *)

\* A process that has the bytes of a first broadcast.
LEMMA BytesKnows ==
    ASSUME NEW x \in Processes, proc'[x].pc \in {"lookup", "recover", "resend"},
           proc'[x].pay \in Payments, proc'[x].row \in TxIds, tx'[proc'[x].row].pay = proc'[x].pay,
           proc'[x].hash # None,
           \/ tx'[proc'[x].row].raw = proc'[x].hash
           \/ tx'[proc'[x].row].status \notin FirstBroadcast
    PROVE  KnowsRecord(x)' /\ KnowsSignature(x)'
  BY DEF KnowsRecord, KnowsRow, KnowsBytes, KnowsWatched, KnowsFiller, KnowsHash, KnowsSignature,
         ClaimsInline, At, Signing, Observing, Filling, TendingFiller

\* Recovery loads an ambiguous transaction, or one broadcast too long ago.
LEMMA RecoveryLoadKeeps ==
    ASSUME PipelineInv, NEW x \in Processes, RecoveryLoad(x)
    PROVE  PipelineInv' /\ UNCHANGED storeVars
  <1>1. Records(x) /\ WorldTypeOK' /\ UNCHANGED storeVars
    BY Zenon, ReadsOnly DEF RecoveryLoad, OnlyReads
  <1>2. ~ At(x, "idle")
    BY Zenon DEF RecoveryLoad, At
  <1>3. CASE GiveUp(x)
    BY Zenon, <1>1, <1>2, <1>3, GiveUpStep
  <1>4. ASSUME NEW t \in ActiveRows(proc[x].pay), tx[t].status \in {"ambiguous", "broadcast"},
               Take(x, [proc[x] EXCEPT !.row = t, !.hash = tx[t].raw,
                                       !.pc = IF tx[t].status = "ambiguous" THEN "lookup" ELSE "bump"])
        PROVE  PipelineInv'
    <2>. DEFINE pc == IF tx[t].status = "ambiguous" THEN "lookup" ELSE "bump"
                r == [proc[x] EXCEPT !.row = t, !.hash = tx[t].raw, !.pc = pc]
    <2>1. Take(x, r)
      BY Zenon, <1>4
    <2>2. /\ t \in TxIds /\ t \in TxIds \cup {None} /\ tx[t].pay = proc[x].pay
          /\ tx[t].raw \in Hashes \cup {None}
          /\ proc[x].pay \in Payments /\ proc[x] \in Task
      BY <1>2, BusyHasPayment, TaskTypes
    <2>3. pc \in {"lookup", "bump"} /\ pc \in Pcs
      BY DEF Pcs
    <2>. HIDE DEF pc
    <2>4. r \in Task
      BY Zenon, <2>2, <2>3 DEF Task
    <2>5. r.pc = pc /\ r.pay = proc[x].pay /\ r.hash = tx[t].raw /\ r.row = t
      BY <2>2 DEF Task
    <2>6. proc'[x] = r
      BY Zenon, <2>1, <2>4, Becomes DEF PipelineInv, PipelineTypeOK
    <2>. HIDE DEF r
    <2>7. tx[t].raw # None
      BY <1>4, <2>2 DEF PipelineInv, StoreInv, HandleRecorded, Unused
    <2>8. KnowsRecord(x)' /\ KnowsSignature(x)'
      <3>1. CASE pc = "lookup"
        BY <1>1, <2>2, <2>5, <2>6, <2>7, <3>1, BytesKnows DEF storeVars
      <3>2. CASE pc = "bump"
        BY <1>1, <2>2, <2>5, <2>6, <3>2, PlainKnows DEF storeVars
      <3>. QED BY <2>3, <3>1, <3>2
    <2>9. r.hash \in {None, proc[x].hash} \cup {tx[u].raw : u \in TxIds} \cup UnusedHashes
      BY <2>2, <2>5
    <2>. QED BY Zenon, <1>1, <2>1, <2>4, <2>8, <2>9, TakeStep
  <1>. QED BY Zenon, <1>1, <1>3, <1>4 DEF RecoveryLoad

\* It looks for the ambiguous transaction, resends its bytes or signs it again.
LEMMA LookupKeeps ==
    ASSUME PipelineInv, NEW x \in Processes, Lookup(x)
    PROVE  PipelineInv' /\ UNCHANGED storeVars
  <1>1. Records(x) /\ WorldTypeOK' /\ UNCHANGED storeVars
    BY Zenon, ReadsOnly DEF Lookup, OnlyReads
  <1>2. proc[x].pay \in Payments /\ proc[x].row \in TxIds /\ tx[proc[x].row].pay = proc[x].pay
    BY HoldsRow, Zenon DEF Lookup, At, Rowless
  <1>3. ASSUME NEW pc \in {"recover", "resend"}, Goto(x, pc) PROVE PipelineInv'
    <2>1. pc \in Pcs
      BY DEF Pcs
    <2>2. proc'[x].pc = pc /\ proc'[x].pay = proc[x].pay /\ proc'[x].row = proc[x].row
          /\ proc'[x].hash = proc[x].hash
      BY Zenon, <1>3, <2>1, GotoMoves DEF PipelineInv, PipelineTypeOK
    <2>3. /\ proc[x].hash # None
          /\ tx[proc[x].row].raw = proc[x].hash \/ tx[proc[x].row].status \notin FirstBroadcast
      BY Zenon DEF Lookup, At, PipelineInv, Knows, KnowsBytes, KnowsHash
    <2>4. KnowsRecord(x)' /\ KnowsSignature(x)'
      BY <1>1, <1>2, <2>2, <2>3, BytesKnows, Zenon DEF storeVars
    <2>. QED BY Zenon, <1>1, <1>3, <2>1, <2>4, GotoStep
  <1>4. ASSUME NEW h \in Signatures, Take(x, [proc[x] EXCEPT !.pc = "resigned", !.hash = h])
        PROVE  PipelineInv'
    <2>. DEFINE r == [proc[x] EXCEPT !.pc = "resigned", !.hash = h]
    <2>1. Take(x, r)
      BY Zenon, <1>4
    <2>2. h \in Hashes \cup {None} /\ "resigned" \in Pcs /\ proc[x] \in Task
      BY TaskTypes DEF Pcs, Signatures, UnusedHashes, FreshHashes
    <2>3. r \in Task
      BY Zenon, <2>2 DEF Task
    <2>4. r.pc = "resigned" /\ r.pay = proc[x].pay /\ r.hash = h /\ r.row = proc[x].row
      BY <2>2 DEF Task
    <2>. HIDE DEF r
    <2>5. r.pc \in Signing /\ r.pc # "prepare"
      BY <2>4 DEF Signing
    <2>. QED BY Zenon, <1>1, <1>2, <2>1, <2>3, <2>4, <2>5, SignStep
  <1>5. "recover" \in {"recover", "resend"} /\ "resend" \in {"recover", "resend"}
    OBVIOUS
  <1>. QED BY Zenon, <1>1, <1>3, <1>4, <1>5 DEF Lookup

\* What was found on the network is recorded as broadcast.
LEMMA RecordRecoveredKeeps ==
    ASSUME PipelineInv, NEW x \in Processes, RecordRecovered(x)
    PROVE  PipelineInv' /\ [StoreNext]_storeVars
  <1>. DEFINE p == proc[x].pay
              t == proc[x].row
              h == proc[x].hash
  <1>1. ~ At(x, "idle") /\ p \in Payments /\ t \in TxIds
    BY HoldsRow DEF RecordRecovered, At, Rowless
  <1>2. WorldTypeOK'
    BY Zenon, SameWorld DEF RecordRecovered, StoreWrite, PipelineInv, PipelineTypeOK
  <1>3. Records(x)
    <2>1. CASE UNCHANGED storeVars
      BY Zenon, <2>1, ReadsRecord
    <2>2. CASE MarkTxRecoveredBroadcast(p, t, h, "worker")
      <3>1. tx[t].raw = h
        BY <2>2, Zenon DEF MarkTxRecoveredBroadcast, CanMarkTxRecoveredBroadcast, RowIn, RecordRecovered,
           PipelineInv, Knows, KnowsBytes, At, FirstBroadcast
      <3>2. StoreNext
        BY Zenon, <1>1, <2>2, <3>1 DEF StoreNext, RecoveryStep
      <3>3. \A u \in TxIds : tx'[u].raw = tx[u].raw
        BY <2>2 DEF MarkTxRecoveredBroadcast, Version, PipelineInv, PipelineTypeOK, StoreTypeOK
      <3>. QED BY <3>2, <3>3 DEF Records
    <2>. QED BY Zenon, <2>1, <2>2 DEF RecordRecovered, Attempt
  <1>4. GiveUp(x)
    BY Zenon DEF RecordRecovered
  <1>. QED BY Zenon, <1>1, <1>2, <1>3, <1>4, GiveUpStep DEF Records

\* A task that finds nothing to do yet, or whose call fails, leaves the payment.
LEMMA GivingUpKeeps ==
    ASSUME PipelineInv, NEW x \in Processes, TooEarly(x) \/ CallFails(x)
    PROVE  PipelineInv' /\ UNCHANGED storeVars
  <1>1. Records(x) /\ WorldTypeOK' /\ UNCHANGED storeVars
    BY Zenon, ReadsOnly DEF TooEarly, CallFails, OnlyReads
  <1>2. ~ At(x, "idle")
    BY DEF TooEarly, CallFails, At
  <1>. QED BY Zenon, <1>1, <1>2, GiveUpStep DEF TooEarly, CallFails

\* A process may die at any point.
LEMMA CrashKeeps ==
    ASSUME PipelineInv, NEW x \in Processes, Crash(x)
    PROVE  PipelineInv' /\ UNCHANGED storeVars
  <1>1. Records(x) /\ WorldTypeOK' /\ UNCHANGED storeVars
    BY Zenon, ReadsOnly DEF Crash
  <1>. QED BY Zenon, <1>1, FinishStep DEF Crash

\* A process about to push a row it has just recorded.
LEMMA PushKnows ==
    ASSUME NEW x \in Processes, proc'[x].pc = "push", proc'[x].hash # None,
           proc'[x].pay \in Payments, proc'[x].row \in TxIds, tx'[proc'[x].row].pay = proc'[x].pay
    PROVE  KnowsRecord(x)' /\ KnowsSignature(x)'
  BY Zenon DEF KnowsRecord, KnowsRow, KnowsBytes, KnowsWatched, KnowsFiller, KnowsHash, KnowsSignature,
         ClaimsInline, At, Signing, Observing, Filling, TendingFiller

\* A replacement's row is committed before it is sent.
LEMMA RecordReplacementKeeps ==
    ASSUME PipelineInv, NEW x \in Processes, RecordReplacement(x)
    PROVE  PipelineInv' /\ [StoreNext]_storeVars
  <1>. DEFINE p == proc[x].pay
              t == proc[x].row
              h == proc[x].hash
  <1>1. ~ At(x, "idle") /\ p \in Payments /\ t \in TxIds /\ tx[t].pay = p
    BY HoldsRow, Zenon DEF RecordReplacement, At, Rowless
  <1>2. WorldTypeOK'
    BY Zenon, SameWorld DEF RecordReplacement, StoreWrite, PipelineInv, PipelineTypeOK
  <1>3. h \in FreshHashes /\ h # None
    BY NoneAssumption, Zenon DEF RecordReplacement, PipelineInv, Knows, KnowsSignature, Signing, At, FreshHashes
  <1>4. CASE UNCHANGED storeVars /\ GiveUp(x)
    BY Zenon, <1>1, <1>2, <1>4, ReadsRecord, GiveUpStep DEF Records
  <1>5. ASSUME NEW n \in NewRows,
               \/ MarkTxAmbiguousReplaced(p, t, n, h, "worker")
               \/ MarkTxReplaced(p, t, n, h, "worker")
               \/ MarkGapFillerReplaced(p, t, n, h),
               Take(x, [proc[x] EXCEPT !.pc = "push", !.row = n])
        PROVE  PipelineInv' /\ [StoreNext]_storeVars
    <2>. DEFINE r == [proc[x] EXCEPT !.pc = "push", !.row = n]
    <2>1. Take(x, r)
      BY Zenon, <1>5
    <2>2. n \in TxIds /\ n \in TxIds \cup {None} /\ "push" \in Pcs /\ proc[x] \in Task /\ tx[n].status = Unused
      BY TaskTypes DEF Pcs, NewRows
    <2>3. r \in Task
      BY Zenon, <2>2 DEF Task
    <2>4. r.pc = "push" /\ r.pay = p /\ r.hash = h /\ r.row = n
      BY <2>2 DEF Task
    <2>5. proc'[x] = r
      BY Zenon, <2>1, <2>3, Becomes DEF PipelineInv, PipelineTypeOK
    <2>. HIDE DEF r
    <2>6. StoreNext
      BY Zenon, <1>1, <1>3, <1>5, <2>2 DEF StoreNext, RecoveryStep, GapFillerStep
    <2>7. tx'[n].pay = p /\ \A u \in TxIds : tx'[u].raw \in {tx[u].raw, h}
      <3>. USE <1>1, <2>2 DEF PipelineInv, PipelineTypeOK, StoreTypeOK, TxRow, Replacement, Version
      <3>1. CASE MarkTxAmbiguousReplaced(p, t, n, h, "worker")
        BY <3>1, Zenon DEF MarkTxAmbiguousReplaced
      <3>2. CASE MarkTxReplaced(p, t, n, h, "worker")
        BY <3>2 DEF MarkTxReplaced
      <3>3. CASE MarkGapFillerReplaced(p, t, n, h)
        BY <3>3 DEF MarkGapFillerReplaced
      <3>. QED BY Zenon, <1>5, <3>1, <3>2, <3>3
    <2>8. Records(x)
      BY Zenon, <2>6, <2>7 DEF Records
    <2>9. KnowsRecord(x)' /\ KnowsSignature(x)'
      BY <1>1, <1>3, <2>2, <2>4, <2>5, <2>7, PushKnows, Zenon
    <2>. QED BY Zenon, <1>2, <2>1, <2>3, <2>4, <2>6, <2>8, <2>9, TakeStep
  <1>. QED BY Zenon, <1>4, <1>5 DEF RecordReplacement

\* A fee bump is signed.
LEMMA BumpKeeps ==
    ASSUME PipelineInv, NEW x \in Processes, Bump(x)
    PROVE  PipelineInv' /\ UNCHANGED storeVars
  <1>1. Records(x) /\ WorldTypeOK' /\ UNCHANGED storeVars
    BY Zenon, ReadsOnly DEF Bump, OnlyReads
  <1>2. ~ At(x, "idle") /\ proc[x].pay \in Payments /\ proc[x].row \in TxIds /\ tx[proc[x].row].pay = proc[x].pay
    BY HoldsRow, Zenon DEF Bump, At, Rowless
  <1>3. CASE GiveUp(x)
    BY Zenon, <1>1, <1>2, <1>3, GiveUpStep
  <1>4. ASSUME NEW h \in Signatures,
               Take(x, [proc[x] EXCEPT !.hash = h,
                                       !.pc = IF At(x, "bump") THEN "bumped" ELSE "filler_bumped"])
        PROVE  PipelineInv'
    <2>. DEFINE pc == IF At(x, "bump") THEN "bumped" ELSE "filler_bumped"
                r == [proc[x] EXCEPT !.hash = h, !.pc = pc]
    <2>1. Take(x, r)
      BY Zenon, <1>4
    <2>2. h \in Hashes \cup {None} /\ proc[x] \in Task
      BY TaskTypes, Zenon DEF Signatures, UnusedHashes, FreshHashes
    <2>3. pc \in Pcs /\ pc \in Signing /\ pc # "prepare"
      BY DEF Pcs, Signing
    <2>. HIDE DEF pc
    <2>4. r \in Task
      BY Zenon, <2>2, <2>3 DEF Task
    <2>5. r.pc = pc /\ r.pay = proc[x].pay /\ r.hash = h /\ r.row = proc[x].row
      BY <2>2 DEF Task
    <2>. HIDE DEF r
    <2>. QED BY Zenon, <1>1, <1>2, <2>1, <2>3, <2>4, <2>5, SignStep
  <1>. QED BY Zenon, <1>1, <1>3, <1>4 DEF Bump

\* A filler is signed for a dropped intent.
LEMMA SignFillerKeeps ==
    ASSUME PipelineInv, NEW x \in Processes, SignFiller(x)
    PROVE  PipelineInv' /\ UNCHANGED storeVars
  <1>1. Records(x) /\ WorldTypeOK' /\ UNCHANGED storeVars
    BY Zenon, ReadsOnly DEF SignFiller, OnlyReads
  <1>2. proc[x].pay \in Payments /\ proc[x].row \in TxIds /\ tx[proc[x].row].pay = proc[x].pay
    BY HoldsRow DEF SignFiller, At, Rowless
  <1>3. Abandoned(proc[x].pay)
    BY DEF SignFiller, At, PipelineInv, Knows, KnowsFiller, Filling
  <1>4. PICK h \in Signatures : Take(x, [proc[x] EXCEPT !.pc = "prepare", !.hash = h])
    BY Zenon DEF SignFiller
  <1>. DEFINE r == [proc[x] EXCEPT !.pc = "prepare", !.hash = h]
  <1>5. h \in Hashes \cup {None} /\ "prepare" \in Pcs /\ proc[x] \in Task
    BY TaskTypes DEF Pcs, Signatures, UnusedHashes, FreshHashes
  <1>6. r \in Task /\ Take(x, r)
    BY Zenon, <1>4, <1>5 DEF Task
  <1>7. r.pc = "prepare" /\ r.pay = proc[x].pay /\ r.hash = h /\ r.row = proc[x].row
    BY <1>5 DEF Task
  <1>. HIDE DEF r
  <1>8. r.pc \in Signing
    BY <1>7 DEF Signing
  <1>. QED BY Zenon, <1>1, <1>2, <1>3, <1>6, <1>7, <1>8, SignStep

\* Its bytes are recorded.
LEMMA PrepareFillerKeeps ==
    ASSUME PipelineInv, NEW x \in Processes, PrepareFiller(x)
    PROVE  PipelineInv' /\ [StoreNext]_storeVars
  <1>. DEFINE p == proc[x].pay
              t == proc[x].row
              h == proc[x].hash
  <1>1. ~ At(x, "idle") /\ p \in Payments /\ t \in TxIds /\ tx[t].pay = p
    BY HoldsRow, Zenon DEF PrepareFiller, At, Rowless
  <1>2. WorldTypeOK'
    BY Zenon, SameWorld DEF PrepareFiller, StoreWrite, PipelineInv, PipelineTypeOK
  <1>3. h \in FreshHashes /\ h # None
    BY NoneAssumption, Zenon DEF PrepareFiller, PipelineInv, Knows, KnowsSignature, Signing, At, FreshHashes
  <1>4. CASE ~ CanMarkGapFillerPrepared(t)
    <2>1. UNCHANGED storeVars /\ GiveUp(x)
      BY Zenon, <1>4 DEF PrepareFiller, Attempt
    <2>. QED BY Zenon, <1>1, <1>2, <2>1, ReadsRecord, GiveUpStep DEF Records
  <1>5. CASE CanMarkGapFillerPrepared(t)
    <2>1. MarkGapFillerPrepared(t, h) /\ Goto(x, "push")
      BY Zenon, <1>5 DEF PrepareFiller, Attempt
    <2>2. payment[p] \in {"expired", "failed", "manual_review"}
      BY Zenon DEF PrepareFiller, At, PipelineInv, Knows, KnowsFiller, Filling, Abandoned
    <2>3. StoreNext
      BY Zenon, <1>1, <1>3, <2>1, <2>2 DEF StoreNext, GapFillerStep
    <2>4. tx'[t].pay = p /\ \A u \in TxIds : tx'[u].raw \in {tx[u].raw, h}
      BY <1>1, <2>1 DEF MarkGapFillerPrepared, Version, PipelineInv, PipelineTypeOK, StoreTypeOK
    <2>5. "push" \in Pcs
      BY DEF Pcs
    <2>6. proc'[x].pc = "push" /\ proc'[x].pay = p /\ proc'[x].row = t /\ proc'[x].hash = h
      BY Zenon, <2>1, <2>5, GotoMoves DEF PipelineInv, PipelineTypeOK
    <2>7. KnowsRecord(x)' /\ KnowsSignature(x)'
      BY <1>1, <1>3, <2>4, <2>6, PushKnows, Zenon
    <2>8. Records(x)
      BY Zenon, <2>3, <2>4 DEF Records
    <2>. QED BY Zenon, <1>2, <2>1, <2>3, <2>5, <2>7, <2>8, GotoStep
  <1>. QED BY Zenon, <1>4, <1>5

\* A filler is looked for, and sent again if no node knows it.
LEMMA ObserveFillerKeeps ==
    ASSUME PipelineInv, NEW x \in Processes, ObserveFiller(x)
    PROVE  PipelineInv' /\ UNCHANGED storeVars
  <1>1. Records(x) /\ WorldTypeOK' /\ UNCHANGED storeVars
    BY Zenon, ReadsOnly DEF ObserveFiller, OnlyReads
  <1>2. ~ At(x, "idle") /\ proc[x].pay \in Payments /\ proc[x].row \in TxIds /\ tx[proc[x].row].pay = proc[x].pay
    BY HoldsRow, Zenon DEF ObserveFiller, At, Rowless
  <1>3. /\ proc[x].hash # None /\ Abandoned(proc[x].pay)
        /\ tx[proc[x].row].bytes \/ tx[proc[x].row].status = "reverted"
    BY Zenon DEF ObserveFiller, At, PipelineInv, Knows, KnowsFiller, KnowsHash, TendingFiller
  <1>4. CASE GiveUp(x)
    BY Zenon, <1>1, <1>2, <1>4, GiveUpStep
  <1>5. CASE Goto(x, "push")
    <2>1. "push" \in Pcs
      BY DEF Pcs
    <2>2. proc'[x].pc = "push" /\ proc'[x].pay = proc[x].pay /\ proc'[x].row = proc[x].row
          /\ proc'[x].hash = proc[x].hash
      BY Zenon, <1>5, <2>1, GotoMoves DEF PipelineInv, PipelineTypeOK
    <2>3. KnowsRecord(x)' /\ KnowsSignature(x)'
      BY <1>1, <1>2, <1>3, <2>2, PushKnows DEF storeVars
    <2>. QED BY Zenon, <1>1, <1>5, <2>1, <2>3, GotoStep
  <1>6. ASSUME NEW rcpt \in Receipts(proc[x].hash),
               Take(x, [proc[x] EXCEPT !.pc = "filler_mined", !.rcpt = rcpt])
        PROVE  PipelineInv'
    <2>. DEFINE r == [proc[x] EXCEPT !.pc = "filler_mined", !.rcpt = rcpt]
    <2>1. Take(x, r)
      BY Zenon, <1>6
    <2>2. "filler_mined" \in Pcs /\ proc[x] \in Task /\ rcpt \in Receipt
      BY TaskTypes, ReceiptTypes DEF Pcs, PipelineInv, PipelineTypeOK
    <2>3. r \in Task
      BY Zenon, <2>2 DEF Task
    <2>4. r.pc = "filler_mined" /\ r.pay = proc[x].pay /\ r.hash = proc[x].hash /\ r.row = proc[x].row
      BY <2>2 DEF Task
    <2>5. proc'[x] = r
      BY Zenon, <2>1, <2>3, Becomes DEF PipelineInv, PipelineTypeOK
    <2>. HIDE DEF r
    <2>6. KnowsRow(x)' /\ KnowsBytes(x)' /\ KnowsWatched(x)' /\ KnowsHash(x)' /\ ClaimsInline(x)' /\ KnowsSignature(x)'
      BY <1>1, <1>2, <1>3, <2>4, <2>5, Zenon DEF KnowsRow, KnowsBytes, KnowsWatched, KnowsHash, KnowsSignature,
         ClaimsInline, At, Signing, Observing, TendingFiller, storeVars
    <2>7. KnowsFiller(x)'
      BY <1>1, <1>3, <2>4, <2>5, Zenon DEF KnowsFiller, At, Filling, TendingFiller, Abandoned, Rows, storeVars
    <2>. QED BY Zenon, <1>1, <2>1, <2>3, <2>4, <2>6, <2>7, TakeStep DEF KnowsRecord
  <1>. QED BY Zenon, <1>1, <1>4, <1>5, <1>6 DEF ObserveFiller

\* A mined filler is recorded.
LEMMA RecordFillerKeeps ==
    ASSUME PipelineInv, NEW x \in Processes, RecordFiller(x)
    PROVE  PipelineInv' /\ [StoreNext]_storeVars
  <1>. DEFINE p == proc[x].pay
              t == proc[x].row
  <1>1. ~ At(x, "idle") /\ p \in Payments /\ t \in TxIds /\ tx[t].pay = p
    BY HoldsRow DEF RecordFiller, At, Rowless
  <1>2. WorldTypeOK'
    BY Zenon, SameWorld DEF RecordFiller, StoreWrite, PipelineInv, PipelineTypeOK
  <1>3. Records(x)
    <2>1. CASE UNCHANGED storeVars
      BY Zenon, <2>1, ReadsRecord
    <2>2. CASE MarkGapFillerSucceeded(p, t, "worker")
      <3>1. StoreNext
        BY Zenon, <1>1, <2>2 DEF StoreNext, GapFillerStep
      <3>2. \A u \in TxIds : tx'[u].raw = tx[u].raw
        BY <2>2 DEF MarkGapFillerSucceeded, SettleFiller, PipelineInv, PipelineTypeOK, StoreTypeOK, TxRow
      <3>. QED BY <3>1, <3>2 DEF Records
    <2>3. CASE MarkGapFillerResolved(t)
      <3>1. tx[t].bytes
        BY <2>3, Zenon DEF RecordFiller, At, PipelineInv, Knows, KnowsFiller, TendingFiller,
           MarkGapFillerResolved, CanMarkGapFillerResolved
      <3>2. StoreNext
        BY Zenon, <1>1, <2>3, <3>1 DEF StoreNext, GapFillerStep
      <3>3. \A u \in TxIds : tx'[u].raw = tx[u].raw
        BY <2>3 DEF MarkGapFillerResolved, SettleFiller, PipelineInv, PipelineTypeOK, StoreTypeOK, TxRow
      <3>. QED BY <3>2, <3>3 DEF Records
    <2>. QED BY Zenon, <2>1, <2>2, <2>3 DEF RecordFiller, Attempt
  <1>4. GiveUp(x)
    BY Zenon DEF RecordFiller
  <1>. QED BY Zenon, <1>1, <1>2, <1>3, <1>4, GiveUpStep DEF Records

-----------------------------------------------------------------------------
(* The world keeps the invariant                                           *)

\* A duplicate /settle of a finished payment is told the outcome on record.
LEMMA SettleFinalKeeps ==
    ASSUME PipelineInv, NEW x \in Processes, NEW p \in Payments, SettleFinal(x, p)
    PROVE  PipelineInv' /\ UNCHANGED storeVars
  <1>1. told' \in [Payments -> SUBSET {"settled", "failed_on_chain"}]
    BY DEF SettleFinal, Outcome, PipelineInv, PipelineTypeOK, WorldTypeOK
  <1>2. WorldTypeOK'
    BY Zenon, <1>1 DEF SettleFinal, PipelineInv, PipelineTypeOK, WorldTypeOK, LeaseTypeOK, chainVars
  <1>3. UNCHANGED storeVars /\ proc' = proc /\ [StoreNext]_storeVars
    BY Zenon DEF SettleFinal
  <1>4. \A t \in TxIds : tx'[t].raw = tx[t].raw
    BY <1>3 DEF storeVars
  <1>. QED BY Zenon, <1>2, <1>3, <1>4, WorldStep

\* Verification and retention write the record as the store lets them.
LEMMA HousekeepingKeeps ==
    ASSUME PipelineInv,
           \/ \E p \in Payments : Verify(p)
           \/ \E expired, erased \in SUBSET Payments : Retention(expired, erased)
    PROVE  PipelineInv' /\ [StoreNext]_storeVars
  <1>1. ASSUME NEW p \in Payments, Verify(p) PROVE PipelineInv' /\ [StoreNext]_storeVars
    <2>1. StoreNext
      BY Zenon, <1>1 DEF Verify, StoreNext, PaymentStep
    <2>2. proc' = proc /\ WorldTypeOK'
      BY Zenon, <1>1, SameWorld DEF Verify, PipelineInv, PipelineTypeOK
    <2>3. \A t \in TxIds : tx'[t].raw = tx[t].raw
      BY <1>1 DEF Verify, RecordVerification
    <2>. QED BY Zenon, <2>1, <2>2, <2>3, WorldStep
  <1>2. ASSUME NEW expired \in SUBSET Payments, NEW erased \in SUBSET Payments, Retention(expired, erased)
        PROVE PipelineInv' /\ [StoreNext]_storeVars
    <2>1. StoreNext
      BY Zenon, <1>2 DEF Retention, StoreNext
    <2>2. LeaseTypeOK'
      BY <1>2 DEF Retention, LeaseTypeOK, Lease, Free, PipelineInv, PipelineTypeOK, WorldTypeOK
    <2>3. proc' = proc /\ WorldTypeOK'
      BY Zenon, <1>2, <2>2 DEF Retention, PipelineInv, PipelineTypeOK, WorldTypeOK, chainVars
    <2>4. \A t \in TxIds : tx'[t].raw = tx[t].raw
      BY <1>2 DEF Retention, ApplyRetention, PipelineInv, PipelineTypeOK, StoreTypeOK, TxRow
    <2>. QED BY Zenon, <2>1, <2>3, <2>4, WorldStep
  <1>. QED BY Zenon, <1>1, <1>2

\* Time passes and leases lapse.
LEMMA TimeKeeps ==
    ASSUME PipelineInv, NEW p \in Payments, Advance(p) \/ LeaseLapse(p)
    PROVE  PipelineInv' /\ UNCHANGED storeVars
  <1>1. UNCHANGED storeVars /\ proc' = proc /\ [StoreNext]_storeVars
    BY Zenon DEF Advance, LeaseLapse
  <1>2. \A t \in TxIds : tx'[t].raw = tx[t].raw
    BY <1>1 DEF storeVars
  <1>3. WorldTypeOK'
    <2>1. CASE Advance(p)
      <3>1. clock' \in [Payments -> {"live", "margin", "past"}]
        BY <2>1 DEF Advance, PipelineInv, PipelineTypeOK, WorldTypeOK
      <3>. QED BY Zenon, <2>1, <3>1 DEF Advance, PipelineInv, PipelineTypeOK, WorldTypeOK, LeaseTypeOK, chainVars
    <2>2. CASE LeaseLapse(p)
      <3>1. LeaseTypeOK'
        BY <2>2, Zenon DEF LeaseLapse, Lapse, LeaseTypeOK, Lease, PipelineInv, PipelineTypeOK, WorldTypeOK
      <3>. QED BY Zenon, <2>2, <3>1 DEF LeaseLapse, PipelineInv, PipelineTypeOK, WorldTypeOK, chainVars
    <2>. QED BY Zenon, <2>1, <2>2
  <1>. QED BY Zenon, <1>1, <1>2, <1>3, WorldStep

\* The chain grows, and gives way to another branch.
LEMMA ChainKeeps ==
    ASSUME PipelineInv,
           \/ \E m \in net, ok \in BOOLEAN : MineNext(m, ok)
           \/ BuildEmpty
           \/ \E k \in 1..(Confirmations - 1) : Reorganise(k)
    PROVE  PipelineInv' /\ UNCHANGED storeVars
  <1>. DEFINE Block == [gen : Nat, h : Hashes \cup {Empty}, ok : BOOLEAN]
  <1>1. /\ UNCHANGED storeVars /\ proc' = proc /\ [StoreNext]_storeVars
        /\ UNCHANGED <<net, lease, clock, told>>
    BY Zenon DEF MineNext, Mine, BuildEmpty, EmptyBlock, Reorganise, Reorg
  <1>2. \A t \in TxIds : tx'[t].raw = tx[t].raw
    BY <1>1 DEF storeVars
  <1>3. chain \in Seq(Block) /\ reorgs \in Nat /\ net \subseteq [h : Hashes, nonce : Nat, pay : Payments]
    BY DEF PipelineInv, PipelineTypeOK, WorldTypeOK
  <1>4. chain' \in Seq(Block) /\ reorgs' \in Nat
    <2>1. ASSUME NEW m \in net, NEW ok \in BOOLEAN, Mine(m, ok) PROVE chain' \in Seq(Block) /\ reorgs' \in Nat
      <3>. DEFINE b == [gen |-> reorgs, h |-> m.h, ok |-> ok]
      <3>1. b \in Block
        BY <1>3
      <3>2. chain' = Append(chain, b) /\ reorgs' = reorgs
        BY Zenon, <2>1 DEF Mine
      <3>. HIDE DEF b, Block
      <3>. QED BY <1>3, <3>1, <3>2
    <2>2. ASSUME EmptyBlock PROVE chain' \in Seq(Block) /\ reorgs' \in Nat
      <3>. DEFINE b == [gen |-> reorgs, h |-> Empty, ok |-> FALSE]
      <3>1. b \in Block
        BY <1>3
      <3>2. chain' = Append(chain, b) /\ reorgs' = reorgs
        BY Zenon, <2>2 DEF EmptyBlock
      <3>. HIDE DEF b, Block
      <3>. QED BY <1>3, <3>1, <3>2
    <2>3. ASSUME NEW k, Reorg(k) PROVE chain' \in Seq(Block) /\ reorgs' \in Nat
      <3>. DEFINE b == [gen |-> reorgs + 1, h |-> Empty, ok |-> FALSE]
      <3>1. b \in Block
        BY <1>3
      <3>2. /\ chain' = [i \in 1..Len(chain) |-> IF i <= Len(chain) - k THEN chain[i] ELSE b]
            /\ reorgs' = reorgs + 1
        BY Zenon, <2>3 DEF Reorg
      <3>. HIDE DEF b, Block
      <3>3. \A i \in 1..Len(chain) : chain[i] \in Block
        BY <1>3
      <3>. QED BY <1>3, <3>1, <3>2, <3>3
    <2>. QED BY Zenon, <2>1, <2>2, <2>3 DEF MineNext, BuildEmpty, Reorganise
  <1>5. WorldTypeOK'
    BY Zenon, <1>1, <1>4 DEF PipelineInv, PipelineTypeOK, WorldTypeOK, LeaseTypeOK
  <1>. QED BY Zenon, <1>1, <1>2, <1>5, WorldStep

-----------------------------------------------------------------------------
(* The pipeline implements the store                                       *)

\* A step of a task keeps the invariant and writes only through the store.
LEMMA TaskStepKeeps ==
    ASSUME PipelineInv, NEW x \in Processes, TaskStep(x)
    PROVE  PipelineInv' /\ [StoreNext]_storeVars
  <1>1. CASE BroadcastClaimed(x)
    BY Zenon, <1>1, BroadcastLoadKeeps, SimulateKeeps, RetireKeeps, PersistSignedKeeps, SendKeeps,
       RecordBroadcastKeeps, RecordAmbiguousKeeps DEF BroadcastClaimed
  <1>2. CASE ConfirmationTask(x)
    BY Zenon, <1>2, ConfirmationLoadKeeps, ObserveKeeps, RecordObservationKeeps DEF ConfirmationTask
  <1>3. CASE RecoveryTask(x)
    BY Zenon, <1>3, RecoveryLoadKeeps, LookupKeeps, RecordRecoveredKeeps, RecordReplacementKeeps, BumpKeeps,
       ObserveKeeps, RecordLandedKeeps, SignFillerKeeps, PrepareFillerKeeps, ObserveFillerKeeps,
       RecordFillerKeeps DEF RecoveryTask
  <1>. QED BY Zenon, <1>1, <1>2, <1>3, HttpClaimKeeps, HttpReloadKeeps, HttpPollKeeps, HttpPersistKeeps,
              WorkerRenewKeeps, UnderLeaseKeeps, ReleaseKeeps DEF TaskStep

\* So does every step.
LEMMA PipelineStep ==
    ASSUME PipelineInv, [Next]_vars
    PROVE  PipelineInv' /\ [StoreNext]_storeVars
  <1>1. CASE UNCHANGED vars
    <2>1. UNCHANGED <<storeVars, chainVars, lease, clock, told>> /\ proc' = proc
      BY Zenon, <1>1 DEF vars
    <2>2. WorldTypeOK' /\ [StoreNext]_storeVars
      BY Zenon, <2>1, SameWorld DEF PipelineInv, PipelineTypeOK
    <2>3. \A t \in TxIds : tx'[t].raw = tx[t].raw
      BY <2>1 DEF storeVars
    <2>. QED BY Zenon, <2>1, <2>2, <2>3, WorldStep
  <1>2. ASSUME NEW x \in HttpRequests, NEW p \in Payments, SettleCall(x, p)
        PROVE  PipelineInv' /\ [StoreNext]_storeVars
    <2>1. x \in Processes
      BY DEF Processes
    <2>. QED BY Zenon, <1>2, <2>1, SettleCallKeeps, SettleFinalKeeps DEF SettleCall
  <1>3. ASSUME NEW x \in Processes, WorkerStart(x) \/ TaskStep(x) \/ TooEarly(x) \/ FaultyStep(x)
        PROVE  PipelineInv' /\ [StoreNext]_storeVars
    BY Zenon, <1>3, WorkerClaimKeeps, ListRowKeeps, TaskStepKeeps, GivingUpKeeps, CrashKeeps, SendKeeps,
       ObserveKeeps DEF WorkerStart, FaultyStep
  <1>4. ASSUME NEW p \in Payments, Advance(p) \/ LeaseLapse(p) PROVE PipelineInv' /\ [StoreNext]_storeVars
    BY Zenon, <1>4, TimeKeeps
  <1>. QED BY Zenon, <1>1, <1>2, <1>3, <1>4, HousekeepingKeeps, ChainKeeps DEF Next

\* The initial state satisfies it.
LEMMA PipelineInit ==
    ASSUME Init
    PROVE  PipelineInv
  <1>1. StoreInv
    BY Zenon, InitHolds DEF Init
  <1>2. proc \in [Processes -> Task] /\ \A x \in Processes : proc[x].pc = "idle"
    <2>1. proc = [x \in Processes |-> Idle]
      BY DEF Init
    <2>2. Idle.pc = "idle"
      BY DEF Idle
    <2>. QED BY <2>1, <2>2, IdleTask
  <1>3. HashesAgree
    BY DEF Init, StoreInit, NoRow, HashesAgree
  <1>4. WorldTypeOK
    BY DEF Init, ChainInit, LeaseInit, WorldTypeOK, LeaseTypeOK, Lease, Free
  <1>5. \A x \in Processes : Knows(x)
    BY <1>2, Zenon DEF Knows, KnowsRow, KnowsBytes, KnowsWatched, KnowsFiller, KnowsHash, KnowsSignature,
       ClaimsInline, At, Signing, Observing, Filling, TendingFiller
  <1>. QED BY Zenon, <1>1, <1>2, <1>3, <1>4, <1>5 DEF PipelineInv, PipelineTypeOK, StoreInv

\* Whatever a process has read and still relies on is true, in every state.
THEOREM KnowledgeHolds == Spec => []PipelineInv
  <1>1. Init => PipelineInv
    BY PipelineInit
  <1>2. PipelineInv /\ [Next]_vars => PipelineInv'
    BY PipelineStep
  <1>. QED BY <1>1, <1>2, PTL DEF Spec

\* Every request, worker, crash and fault of the pipeline leaves the record
\* within what SettlementStore allows: the pipeline implements the store.
THEOREM PipelineImplementsStore == Spec => ImplementsStore
  <1>1. Init => StoreInit
    BY DEF Init
  <1>2. PipelineInv /\ [Next]_vars => [StoreNext]_storeVars
    BY PipelineStep
  <1>. QED BY <1>1, <1>2, KnowledgeHolds, PTL DEF Spec, ImplementsStore, StoreSpec

-----------------------------------------------------------------------------
(* What callers are told                                                   *)

\* A step of a task, an answer apart, tells nobody anything.
LEMMA TaskStepsTellNobody ==
    ASSUME NEW x \in Processes, TaskStep(x)
    PROVE  UNCHANGED told \/ HttpPersist(x)
  <1>. USE DEF OnlyReads, StoreWrite, NetworkWrite, LeaseWrite
  <1>1. CASE BroadcastClaimed(x)
    BY Zenon, <1>1 DEF BroadcastClaimed, BroadcastLoad, Simulate, Retire, PersistSigned, Send, RecordBroadcast,
       RecordAmbiguous
  <1>2. CASE ConfirmationTask(x)
    BY Zenon, <1>2 DEF ConfirmationTask, ConfirmationLoad, Observe, MeasureDepth, RecordObservation
  <1>3. CASE RecoveryTask(x)
    BY Zenon, <1>3 DEF RecoveryTask, RecoveryLoad, Lookup, RecordRecovered, RecordReplacement, Bump,
       ObserveReplaced, LandedDepth, RecordLanded, SignFiller, PrepareFiller, ObserveFiller, RecordFiller
  <1>4. CASE HttpClaim(x) \/ HttpReload(x) \/ HttpObserve(x) \/ HttpDepth(x) \/ WorkerRenew(x)
             \/ UnderLease(x) \/ SkipLeased(x) \/ Release(x)
    BY Zenon, <1>4 DEF HttpClaim, HttpReload, HttpObserve, HttpDepth, WorkerRenew, UnderLease, SkipLeased, Release
  <1>. QED BY Zenon, <1>1, <1>2, <1>3, <1>4 DEF TaskStep

\* Callers are told an outcome by a waiting request or a duplicate, and by nobody else.
LEMMA WhoTells ==
    ASSUME [Next]_vars
    PROVE  \/ UNCHANGED told
           \/ \E x \in Processes : HttpPersist(x)
           \/ \E x \in HttpRequests, p \in Payments : SettleFinal(x, p)
  <1>. USE DEF OnlyReads, StoreWrite
  <1>1. ASSUME NEW x \in HttpRequests, NEW p \in Payments, SettleCall(x, p)
        PROVE  UNCHANGED told \/ SettleFinal(x, p)
    BY Zenon, <1>1 DEF SettleCall, SettleNew, SettleDuplicate
  <1>2. ASSUME NEW x \in Processes, WorkerStart(x) \/ TooEarly(x) \/ FaultyStep(x) PROVE UNCHANGED told
    BY Zenon, <1>2 DEF WorkerStart, WorkerClaim, ListRow, TooEarly, FaultyStep, Crash, CallFails, SendFails,
       ObserveLagging, LeaseWrite
  <1>3. ASSUME NEW p \in Payments, Verify(p) \/ Advance(p) \/ LeaseLapse(p) PROVE UNCHANGED told
    BY Zenon, <1>3 DEF Verify, Advance, LeaseLapse
  <1>4. ASSUME NEW expired, NEW erased, Retention(expired, erased) PROVE UNCHANGED told
    BY Zenon, <1>4 DEF Retention
  <1>5. ASSUME NEW m, NEW ok, MineNext(m, ok) PROVE UNCHANGED told
    BY Zenon, <1>5 DEF MineNext
  <1>6. ASSUME NEW k, Reorganise(k) PROVE UNCHANGED told
    BY Zenon, <1>6 DEF Reorganise
  <1>7. CASE BuildEmpty
    BY Zenon, <1>7 DEF BuildEmpty
  <1>8. CASE UNCHANGED vars
    BY Zenon, <1>8 DEF vars
  <1>. QED BY Zenon, <1>1, <1>2, <1>3, <1>4, <1>5, <1>6, <1>7, <1>8, TaskStepsTellNobody DEF Next

\* What /settle told a caller is on the record, and it never tells two outcomes
\* of one payment, however many requests wait on it while the workers finalise it.
THEOREM AnswersAreRecorded == Spec => []ToldIsRecorded
  <1>1. Init => ToldIsRecorded
    BY DEF Init, ToldIsRecorded
  <1>2. PipelineInv /\ ToldIsRecorded /\ [Next]_vars => ToldIsRecorded'
    <2>. SUFFICES ASSUME PipelineInv, ToldIsRecorded, [Next]_vars PROVE ToldIsRecorded'
      OBVIOUS
    <2>1. OneWayStep
      BY Zenon, PipelineStep, RecordSteps DEF PipelineInv, RecordStep
    <2>2. CASE UNCHANGED told
      BY <2>1, <2>2 DEF ToldIsRecorded, OneWayStep, Final
    <2>3. ASSUME NEW x \in Processes, HttpPersist(x), ~ UNCHANGED told PROVE ToldIsRecorded'
      <3>. DEFINE final == IF proc[x].rcpt.ok THEN "confirmed" ELSE "reverted"
      <3>1. /\ payment[proc[x].pay] = final
            /\ told' = [told EXCEPT ![proc[x].pay] = @ \cup {Outcome(final)}]
        BY <2>3, Zenon DEF HttpPersist, CanFinalize, CanMove, ActorTypes, terminalSettlementMatches
      <3>2. UNCHANGED payment
        BY <2>3, WaiterWritesNothing DEF storeVars
      <3>3. told \in [Payments -> SUBSET {"settled", "failed_on_chain"}]
        BY DEF PipelineInv, PipelineTypeOK, WorldTypeOK
      <3>. QED BY <3>1, <3>2, <3>3 DEF ToldIsRecorded, Outcome
    <2>4. ASSUME NEW x \in HttpRequests, NEW p \in Payments, SettleFinal(x, p) PROVE ToldIsRecorded'
      BY <2>4, Zenon DEF SettleFinal, ToldIsRecorded, Outcome, Final, storeVars, PipelineInv, PipelineTypeOK, WorldTypeOK
    <2>. QED BY Zenon, <2>2, <2>3, <2>4, WhoTells
  <1>. QED BY <1>1, <1>2, KnowledgeHolds, PTL DEF Spec
=============================================================================
