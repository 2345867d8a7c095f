------------------------- MODULE SettlementPipeline -------------------------
(***************************************************************************)
(* The settlement service at work: /settle requests and the broadcast,     *)
(* confirmation and recovery workers, on the durable record of             *)
(* SettlementStore, under the leases of PaymentLease, against the network  *)
(* of EthereumChain.  A process does one database transaction or one RPC   *)
(* exchange per step and keeps what it read in its own record, so what it  *)
(* acts on may be stale; it may stop at any step and leave its lease.      *)
(***************************************************************************)
EXTENDS SettlementStore, EthereumChain

CONSTANTS HttpRequests, BroadcastWorkers, ConfirmationWorkers, RecoveryWorkers,
          MaxFaults,      \* bound: faults, failed calls, lagging reads, overrun leases
          LeasesOverrun,  \* a lease may lapse under a process still working
          ReadsRace,      \* a reorganisation may fall between two reads of one observation
          ClocksDiverge   \* the chain may accept an authorization judged expired

ASSUME EnvironmentAssumption == {LeasesOverrun, ReadsRace, ClocksDiverge} \subseteq BOOLEAN

VARIABLES lease,    \* payment_records.claimed_by, claimed_until
          clock,    \* where now stands relative to each valid_before
          proc,     \* what each process is doing and has read
          told,     \* final outcomes /settle has returned per payment
          faults    \* faults so far

vars == <<storeVars, chainVars, lease, clock, proc, told, faults>>

Processes == HttpRequests \cup BroadcastWorkers \cup ConfirmationWorkers \cup RecoveryWorkers

\* A process does one kind of work, and no worker goes by the name of the requests.
ASSUME ProcessAssumption ==
    /\ {"http", None} \cap Processes = {} /\ None # "http"
    /\ HttpRequests \cap (BroadcastWorkers \cup ConfirmationWorkers \cup RecoveryWorkers) = {}
    /\ BroadcastWorkers \cap (ConfirmationWorkers \cup RecoveryWorkers) = {}
    /\ ConfirmationWorkers \cap RecoveryWorkers = {}

\* Every inline /settle claims under the one name "http"; a worker's name is its own.
Identity(x) == IF x \in HttpRequests THEN "http" ELSE x
Actor(x) == IF x \in HttpRequests THEN "http" ELSE "worker"

INSTANCE PaymentLease WITH LeasedPayments <- Payments, Nobody <- None,
                           Workers <- {"http"} \cup Processes

NoReceipt == [n |-> 0, gen |-> 0, ok |-> FALSE]

\* pc; the payment; the row worked on; the hash signed, read or returned; the
\* row /settle will report on; what else was read (a status, a recovery pass);
\* the receipt.
Idle == [pc |-> "idle", pay |-> None, row |-> None, hash |-> None,
         intent |-> None, task |-> None, rcpt |-> NoReceipt]

Init ==
    /\ StoreInit /\ ChainInit /\ LeaseInit
    /\ clock = [p \in Payments |-> "live"]
    /\ proc = [x \in Processes |-> Idle]
    /\ told = [p \in Payments |-> {}]
    /\ faults = 0

-----------------------------------------------------------------------------
At(x, pc) == proc[x].pc = pc
Take(x, task) == proc' = [proc EXCEPT ![x] = task]
Goto(x, pc) == Take(x, [proc[x] EXCEPT !.pc = pc])
Finish(x) == Take(x, Idle)

\* The step gives up or is done with the payment: the deferred release is next.
\* A worker forgets what it read; /settle answers from txHash and intent.
Leave(x, txHash, intent) ==
    Take(x, [Idle EXCEPT !.pc = "release", !.pay = proc[x].pay,
                         !.hash = IF x \in HttpRequests THEN txHash ELSE None,
                         !.intent = IF x \in HttpRequests THEN intent ELSE None])
GiveUp(x) == Leave(x, None, proc[x].intent)
Reject(x) == Leave(x, None, None)

\* A store call: its write, or nothing if it loses the race.
Attempt(can, write) == IF can THEN write ELSE UNCHANGED storeVars

Fault == faults < MaxFaults /\ faults' = faults + 1

OnlyReads == UNCHANGED <<storeVars, chainVars, lease, clock, told, faults>>
StoreWrite == UNCHANGED <<chainVars, lease, clock, told, faults>>
NetworkWrite == UNCHANGED <<storeVars, lease, clock, told, faults>>
LeaseWrite == UNCHANGED <<storeVars, chainVars, clock, told, faults>>

\* Primary keys and hashes are taken in order; a hash nothing remembers is free.
NewRows == {n \in TxIds : tx[n].status = Unused /\ \A m \in TxIds : tx[m].status = Unused => n <= m}
UnusedHashes == {h \in FreshHashes : ~ Known(h) /\ (\A x \in Processes : proc[x].hash # h)
                                                /\ (\A i \in 1..Len(chain) : chain[i].h # h)}
Signatures == {h \in UnusedHashes : \A g \in UnusedHashes : h <= g}

\* What goes to the network: the signed bytes for row t.
Signed(t, h) == [h |-> h, nonce |-> tx[t].nonce, pay |-> tx[t].pay]

-----------------------------------------------------------------------------
(* /settle                                                                 *)

\* Settle: CreateSettlementIntent, which commits a new intent or reports the
\* one in flight or the recorded outcome.  A duplicate whose hash is recorded
\* is answered at once and changes nothing.
SettleNew(x, p) ==
    /\ At(x, "idle") /\ clock[p] = "live"
    /\ \E n \in NewRows :
          /\ CreateSettlementIntent(p, n)
          /\ Take(x, [Idle EXCEPT !.pc = "claim", !.pay = p, !.intent = n])
    /\ StoreWrite

SettleDuplicate(x, p) ==
    /\ At(x, "idle")
    /\ \E t \in ActiveRows(p) :
          /\ tx[t].hash = None
          /\ Take(x, [Idle EXCEPT !.pc = "claim", !.pay = p, !.intent = t])
    /\ OnlyReads

Outcome(final) == IF final = "confirmed" THEN "settled" ELSE "failed_on_chain"

SettleFinal(x, p) ==
    /\ At(x, "idle") /\ payment[p] \in Final
    /\ \E t \in Rows(p) : tx[t].status = payment[p] /\ tx[t].hash # None
    /\ told' = [told EXCEPT ![p] = @ \cup {Outcome(payment[p])}]
    /\ UNCHANGED <<storeVars, chainVars, lease, clock, proc, faults>>

\* Broadcast: a lease another actor holds means the broadcast is pending.
HttpClaim(x) ==
    /\ At(x, "claim")
    /\ IF Claimable(proc[x].pay)
       THEN ClaimPayment(proc[x].pay, Identity(x)) /\ Goto(x, "load")
       ELSE UNCHANGED lease /\ Goto(x, "reload")
    /\ LeaseWrite

\* The broadcast failed: a concurrent actor may still have recorded a hash.
HttpReload(x) ==
    /\ At(x, "reload")
    /\ \/ \E t \in ActiveRows(proc[x].pay) :
             /\ tx[t].hash # None
             /\ Take(x, [proc[x] EXCEPT !.pc = "wait", !.intent = t, !.hash = tx[t].hash])
       \/ /\ \A t \in ActiveRows(proc[x].pay) : tx[t].hash = None
          /\ Finish(x)
    /\ OnlyReads

\* waitForSettlement, the deadline included: an outcome that is not final yet
\* is polled again.
HttpObserve(x) ==
    /\ At(x, "wait")
    /\ \/ \E r \in Receipts(proc[x].hash) :
             Take(x, [proc[x] EXCEPT !.pc = "wait_depth", !.rcpt = r])
       \/ Finish(x)
    /\ OnlyReads

HttpDepth(x) ==
    /\ At(x, "wait_depth")
    /\ IF Depth(proc[x].rcpt) >= Confirmations
       THEN Goto(x, "persist")
       ELSE Take(x, [proc[x] EXCEPT !.pc = "wait", !.rcpt = NoReceipt])
    /\ OnlyReads

\* Mutant: the outcome is answered although it could not be recorded.
HttpPersistOptional(x) ==
    LET p == proc[x].pay
        t == proc[x].intent
        final == IF proc[x].rcpt.ok THEN "confirmed" ELSE "reverted" IN
    /\ At(x, "persist")
    /\ Attempt(CanFinalize(p, t, final, "http-wait"), Finalize(p, t, final, "http-wait"))
    /\ told' = [told EXCEPT ![p] = @ \cup {Outcome(final)}]
    /\ Finish(x)
    /\ UNCHANGED <<chainVars, lease, clock, faults>>

\* respondWithTx: the outcome is answered only if it is on record, written by
\* this request as "http-wait" or already there.
HttpPersist(x) ==
    LET p == proc[x].pay
        t == proc[x].intent
        final == IF proc[x].rcpt.ok THEN "confirmed" ELSE "reverted" IN
    /\ At(x, "persist")
    /\ Attempt(CanFinalize(p, t, final, "http-wait"), Finalize(p, t, final, "http-wait"))
    /\ told' = IF \/ CanFinalize(p, t, final, "http-wait")
                  \/ terminalSettlementMatches(p, t, final)
               THEN [told EXCEPT ![p] = @ \cup {Outcome(final)}] ELSE told
    /\ Finish(x)
    /\ UNCHANGED <<chainVars, lease, clock, faults>>

-----------------------------------------------------------------------------
(* Leases                                                                  *)

ClaimStates(x) ==
    CASE x \in BroadcastWorkers -> {"broadcasting"}
      [] x \in ConfirmationWorkers -> Watched
      [] x \in RecoveryWorkers -> {"manual_review", "broadcast", "replaced"}
      [] OTHER -> {}

\* ClaimPayments, for one payment of the batch ...
WorkerClaim(x, p) ==
    /\ At(x, "idle") /\ payment[p] \in ClaimStates(x)
    /\ ClaimPayment(p, Identity(x))
    /\ Take(x, [Idle EXCEPT !.pc = "renew", !.pay = p])
    /\ LeaseWrite

\* ... and its renewal when the worker gets to it: a lapsed lease is left alone.
WorkerRenew(x) ==
    /\ At(x, "renew")
    /\ IF CanRenew(proc[x].pay, Identity(x)) THEN Goto(x, "load") ELSE Finish(x)
    /\ OnlyReads

\* The deferred release; then /settle waits on the hash, looks again, or is done.
Release(x) ==
    /\ At(x, "release")
    /\ ReleaseLease(proc[x].pay, Identity(x))
    /\ IF proc[x].hash # None THEN Goto(x, "wait")
       ELSE IF proc[x].intent # None THEN Goto(x, "reload")
       ELSE Finish(x)
    /\ LeaseWrite

-----------------------------------------------------------------------------
(* broadcastClaimed: the first broadcast, inline or by the worker          *)

\* Mutant: a broadcast that was cut short is left to somebody else.
BroadcastLoadIntentsOnly(x) ==
    /\ At(x, "load") /\ x \in HttpRequests \cup BroadcastWorkers
    /\ \/ (\A t \in ActiveRows(proc[x].pay) : tx[t].status # "intent") /\ GiveUp(x)
       \/ \E t \in ActiveRows(proc[x].pay) :
             /\ tx[t].status = "intent"
             /\ Take(x, [proc[x] EXCEPT !.row = t,
                           !.pc = IF clock[proc[x].pay] # "live" THEN "expire" ELSE "simulate"])
    /\ OnlyReads

\* LoadSettlementWork and the early returns it decides.
BroadcastLoad(x) ==
    /\ At(x, "load") /\ x \in HttpRequests \cup BroadcastWorkers
    /\ \/ ActiveRows(proc[x].pay) = {} /\ GiveUp(x)
       \/ \E t \in ActiveRows(proc[x].pay) :
             CASE tx[t].hash # None -> Leave(x, tx[t].hash, proc[x].intent)
               [] tx[t].hash = None /\ tx[t].status \notin {"intent", "broadcasting"} -> GiveUp(x)
               [] OTHER ->
                    Take(x, [proc[x] EXCEPT !.row = t,
                                !.pc = IF tx[t].status = "broadcasting" THEN "ambiguous"
                                       ELSE IF clock[proc[x].pay] # "live" THEN "expire"
                                       ELSE "simulate"])
    /\ OnlyReads

\* The simulation reverts, or the transaction is priced and signed.
Simulate(x) ==
    /\ At(x, "simulate")
    /\ \/ Goto(x, "unsettleable")
       \/ \E h \in Signatures : Take(x, [proc[x] EXCEPT !.pc = "signed", !.hash = h])
    /\ OnlyReads

Retire(x) ==
    LET p == proc[x].pay
        t == proc[x].row
        to == IF At(x, "expire") THEN "expired" ELSE "failed" IN
    /\ At(x, "expire") \/ At(x, "unsettleable")
    /\ Attempt(CanDropIntent(p, t, to, Actor(x)), DropIntent(p, t, to, Actor(x)))
    /\ IF CanDropIntent(p, t, to, Actor(x)) THEN Reject(x) ELSE GiveUp(x)
    /\ StoreWrite

\* Mutant: a lost race does not stop the send.
PersistSignedAnyway(x) ==
    /\ At(x, "signed")
    /\ Attempt(CanMarkTxSigned(proc[x].row), MarkTxSigned(proc[x].row, proc[x].hash))
    /\ Goto(x, "send")
    /\ StoreWrite

PersistSigned(x) ==
    /\ At(x, "signed")
    /\ Attempt(CanMarkTxSigned(proc[x].row), MarkTxSigned(proc[x].row, proc[x].hash))
    /\ IF CanMarkTxSigned(proc[x].row) THEN Goto(x, "send") ELSE GiveUp(x)
    /\ StoreWrite

\* SendRawTransaction, acknowledged with the expected hash: the first broadcast,
\* the identical bytes of an ambiguous one, or bytes recorded as broadcast.
Send(x) ==
    /\ proc[x].pc \in {"send", "resend", "push"}
    /\ Accept(Signed(proc[x].row, proc[x].hash))
    /\ CASE At(x, "send") -> Goto(x, "record")
         [] At(x, "resend") -> Goto(x, "recover")
         [] At(x, "push") -> GiveUp(x)
    /\ NetworkWrite

\* No acknowledgement, or of another hash: the bytes may have arrived or not.
\* A failed resend only re-arms the backoff (MarkAmbiguousRetry).
SendFails(x) ==
    /\ proc[x].pc \in {"send", "resend", "push"}
    /\ Accept(Signed(proc[x].row, proc[x].hash)) \/ Lose
    /\ IF At(x, "send") THEN Goto(x, "ambiguous") ELSE GiveUp(x)
    /\ Fault /\ UNCHANGED <<storeVars, lease, clock, told>>

RecordBroadcast(x) ==
    LET p == proc[x].pay
        t == proc[x].row IN
    /\ At(x, "record")
    /\ Attempt(CanMarkTxBroadcast(p, t, Actor(x)), MarkTxBroadcast(p, t, proc[x].hash, Actor(x)))
    /\ IF CanMarkTxBroadcast(p, t, Actor(x))
       THEN Leave(x, proc[x].hash, proc[x].intent) ELSE GiveUp(x)
    /\ StoreWrite

RecordAmbiguous(x) ==
    LET p == proc[x].pay
        t == proc[x].row IN
    /\ At(x, "ambiguous")
    /\ Attempt(CanMarkTxAmbiguous(p, t, Actor(x)), MarkTxAmbiguous(p, t, Actor(x)))
    /\ GiveUp(x)
    /\ StoreWrite

-----------------------------------------------------------------------------
(* Confirmation                                                            *)

ConfirmationLoad(x) ==
    /\ At(x, "load") /\ x \in ConfirmationWorkers
    /\ \/ /\ \A t \in ActiveRows(proc[x].pay) : tx[t].hash = None
          /\ GiveUp(x)
       \/ \E t \in ActiveRows(proc[x].pay) :
             /\ tx[t].hash # None
             /\ Take(x, [proc[x] EXCEPT !.pc = "observe", !.row = t, !.hash = tx[t].hash,
                                         !.task = tx[t].status])
    /\ OnlyReads

\* TransactionReceipt and BlockByNumber.  No canonical receipt unwinds an
\* earlier sighting.
Observe(x) ==
    /\ At(x, "observe")
    /\ \/ /\ Receipts(proc[x].hash) = {}
          /\ IF proc[x].task = "confirming" THEN Goto(x, "reorged") ELSE GiveUp(x)
       \/ \E r \in Receipts(proc[x].hash) :
             Take(x, [proc[x] EXCEPT !.pc = "depth", !.rcpt = r])
    /\ OnlyReads

\* A lagging provider does not have the receipt the chain has.
ObserveLagging(x) ==
    /\ At(x, "observe") /\ Receipts(proc[x].hash) # {}
    /\ IF proc[x].task = "confirming" THEN Goto(x, "reorged") ELSE GiveUp(x)
    /\ Fault /\ UNCHANGED <<storeVars, chainVars, lease, clock, told>>

\* BlockNumber, and the verdict.
MeasureDepth(x) ==
    /\ At(x, "depth")
    /\ Goto(x, IF Depth(proc[x].rcpt) < Confirmations THEN "confirming"
               ELSE IF proc[x].rcpt.ok THEN "confirmed" ELSE "reverted")
    /\ OnlyReads

RecordObservation(x) ==
    LET p == proc[x].pay
        t == proc[x].row IN
    /\ \/ /\ At(x, "reorged")
          /\ Attempt(CanMarkTxReorgedOut(p, t, "worker"), MarkTxReorgedOut(p, t, "worker"))
       \/ At(x, "confirming") /\ MarkTxConfirming(p, t, "worker")
       \/ \E final \in Final :
             /\ At(x, final)
             /\ Attempt(CanFinalize(p, t, final, "worker"), Finalize(p, t, final, "worker"))
    /\ GiveUp(x)
    /\ StoreWrite

-----------------------------------------------------------------------------
(* Recovery of leased payments: ambiguous sends and stuck transactions     *)

\* recoverPayment: an ambiguous transaction, or one broadcast too long ago.
RecoveryLoad(x) ==
    /\ At(x, "load") /\ x \in RecoveryWorkers
    /\ \/ /\ \A t \in ActiveRows(proc[x].pay) : tx[t].status \notin {"ambiguous", "broadcast"}
          /\ GiveUp(x)
       \/ \E t \in ActiveRows(proc[x].pay) :
             /\ tx[t].status \in {"ambiguous", "broadcast"}
             /\ Take(x, [proc[x] EXCEPT !.row = t, !.hash = tx[t].raw,
                                         !.pc = IF tx[t].status = "ambiguous" THEN "lookup" ELSE "bump"])
    /\ OnlyReads

\* Mutant: a second signature is taken for the first one.
LookupResendsAnother(x) ==
    /\ At(x, "lookup")
    /\ \/ /\ Receipts(proc[x].hash) # {} \/ Known(proc[x].hash)
          /\ Goto(x, "recover")
       \/ /\ Receipts(proc[x].hash) = {}
          /\ \E h \in Signatures : Take(x, [proc[x] EXCEPT !.pc = "resend", !.hash = h])
    /\ OnlyReads

\* resolveAmbiguous: a receipt or a mempool sighting re-attaches the hash.
\* Otherwise, once the backoff is over, the identical transaction is signed
\* again: the same bytes from a deterministic signer, another hash from KMS.
Lookup(x) ==
    /\ At(x, "lookup")
    /\ \/ /\ Receipts(proc[x].hash) # {} \/ Known(proc[x].hash)
          /\ Goto(x, "recover")
       \/ /\ Receipts(proc[x].hash) = {}
          /\ \/ Goto(x, "resend")
             \/ \E h \in Signatures : Take(x, [proc[x] EXCEPT !.pc = "resigned", !.hash = h])
    /\ OnlyReads

RecordRecovered(x) ==
    LET p == proc[x].pay
        t == proc[x].row IN
    /\ At(x, "recover")
    /\ Attempt(CanMarkTxRecoveredBroadcast(p, t, "worker"),
               MarkTxRecoveredBroadcast(p, t, proc[x].hash, "worker"))
    /\ GiveUp(x)
    /\ StoreWrite

\* Neither window is over: ReplacementAfter since the broadcast, or the backoff
\* since the last attempt on an ambiguous transaction nobody has seen.
TooEarly(x) ==
    /\ \/ /\ At(x, "load") /\ x \in RecoveryWorkers
          /\ \E t \in ActiveRows(proc[x].pay) : tx[t].status = "broadcast"
       \/ At(x, "lookup") /\ Receipts(proc[x].hash) = {}
    /\ GiveUp(x)
    /\ OnlyReads

\* A signature whose row is inserted and committed before anything is sent:
\* the re-signed ambiguous transaction, the fee bump, the bumped filler.
RecordReplacement(x) ==
    LET p == proc[x].pay
        t == proc[x].row
        h == proc[x].hash
        can == CASE At(x, "resigned") -> CanMarkTxAmbiguousReplaced(p, t, "worker")
                 [] At(x, "bumped") -> CanMarkTxReplaced(p, t, "worker")
                 [] OTHER -> CanMarkGapFillerReplaced(p, t) IN
    /\ At(x, "resigned") \/ At(x, "bumped") \/ At(x, "filler_bumped")
    /\ \/ ~ can /\ UNCHANGED storeVars /\ GiveUp(x)
       \/ \E n \in NewRows :
             /\ \/ At(x, "resigned") /\ MarkTxAmbiguousReplaced(p, t, n, h, "worker")
                \/ At(x, "bumped") /\ MarkTxReplaced(p, t, n, h, "worker")
                \/ At(x, "filler_bumped") /\ MarkGapFillerReplaced(p, t, n, h)
             /\ Take(x, [proc[x] EXCEPT !.pc = "push", !.row = n])
    /\ StoreWrite

\* replaceStuck and bumpStuckGapFiller: no headroom under the fee ceiling (the
\* bound on rows stands for it), or a signature with bumped fees.
Bump(x) ==
    /\ At(x, "bump") \/ At(x, "filler_bump")
    /\ \/ (NewRows = {} \/ Signatures = {}) /\ GiveUp(x)
       \/ /\ NewRows # {}
          /\ \E h \in Signatures :
                Take(x, [proc[x] EXCEPT !.hash = h,
                                     !.pc = IF At(x, "bump") THEN "bumped" ELSE "filler_bumped"])
    /\ OnlyReads

-----------------------------------------------------------------------------
(* Recovery's listed rows: landed originals, nonce gaps, gap fillers       *)

\* Row t is on the list of a recovery pass.
Listed(t, pass) ==
    CASE pass = "replacements" -> tx[t].status = "replaced" /\ payment[tx[t].pay] \in Watched
      [] pass = "nonce-gaps" -> BlockingGap(t) /\ clock[tx[t].pay] = "past"
      [] pass = "gap-fillers" -> GapFiller(t) /\ tx[t].status = "broadcast"
      [] pass = "replaced-gap-fillers" -> GapFiller(t) /\ tx[t].status = "replaced"
      [] pass = "stuck-gap-fillers" -> GapFiller(t) /\ tx[t].status = "broadcast"

Passes == {"replacements", "nonce-gaps", "gap-fillers", "replaced-gap-fillers", "stuck-gap-fillers"}

\* The list is read before the lease is taken, and what it said is kept.
ListRow(x, t, pass) ==
    /\ At(x, "idle") /\ x \in RecoveryWorkers
    /\ tx[t].status # Unused /\ Listed(t, pass)
    /\ Take(x, [Idle EXCEPT !.pc = "under_lease", !.pay = tx[t].pay,
                         !.row = t, !.hash = tx[t].hash, !.task = pass])
    /\ OnlyReads

\* Mutant: the row is worked on without a lease.
UnderLeaseUnclaimed(x) ==
    /\ At(x, "under_lease")
    /\ Goto(x, IF proc[x].task = "replacements" THEN "landed" ELSE "filler")
    /\ OnlyReads

UnderLease(x) ==
    /\ At(x, "under_lease")
    /\ ClaimPayment(proc[x].pay, Identity(x))
    /\ Goto(x, CASE proc[x].task = "replacements" -> "landed"
                 [] proc[x].task = "nonce-gaps" -> "fill"
                 [] proc[x].task = "stuck-gap-fillers" -> "filler_bump"
                 [] OTHER -> "filler")
    /\ LeaseWrite

\* Another worker holds the payment: skipped, not waited for.
SkipLeased(x) ==
    /\ At(x, "under_lease") /\ ~ Claimable(proc[x].pay)
    /\ Finish(x)
    /\ OnlyReads

\* Mutant: a superseded transaction still pending counts as landed.
ObserveReplacedPending(x) ==
    /\ At(x, "landed") /\ Known(proc[x].hash)
    /\ Take(x, [proc[x] EXCEPT !.pc = "land", !.rcpt.ok = TRUE])
    /\ OnlyReads

\* observeReplacements: a success is recorded at any depth, a revert once it
\* is deep enough to be final.
ObserveReplaced(x) ==
    /\ At(x, "landed")
    /\ \/ Receipts(proc[x].hash) = {} /\ GiveUp(x)
       \/ \E r \in Receipts(proc[x].hash) :
             Take(x, [proc[x] EXCEPT !.pc = IF r.ok THEN "land" ELSE "landed_depth", !.rcpt = r])
    /\ OnlyReads

\* Mutant: a revert is final at any depth.
LandedAnyDepth(x) == At(x, "landed_depth") /\ Goto(x, "land") /\ OnlyReads

LandedDepth(x) ==
    /\ At(x, "landed_depth")
    /\ IF Depth(proc[x].rcpt) < Confirmations THEN GiveUp(x) ELSE Goto(x, "land")
    /\ OnlyReads

RecordLanded(x) ==
    LET p == proc[x].pay
        t == proc[x].row
        ok == proc[x].rcpt.ok IN
    /\ At(x, "land")
    /\ Attempt(CanMarkReplacementLanded(p, t, ok, "worker"), MarkReplacementLanded(p, t, ok, "worker"))
    /\ GiveUp(x)
    /\ StoreWrite

\* fillNonceGap: the dropped intent is signed, the bytes recorded, then sent.
SignFiller(x) ==
    /\ At(x, "fill")
    /\ \E h \in Signatures : Take(x, [proc[x] EXCEPT !.pc = "prepare", !.hash = h])
    /\ OnlyReads

PrepareFiller(x) ==
    LET t == proc[x].row IN
    /\ At(x, "prepare")
    /\ Attempt(CanMarkGapFillerPrepared(t), MarkGapFillerPrepared(t, proc[x].hash))
    /\ IF CanMarkGapFillerPrepared(t) THEN Goto(x, "push") ELSE GiveUp(x)
    /\ StoreWrite

\* Mutant: a filler no node knows is not sent again.
ObserveFillerOnce(x) ==
    /\ At(x, "filler")
    /\ \/ Receipts(proc[x].hash) = {} /\ GiveUp(x)
       \/ \E r \in Receipts(proc[x].hash) :
             Take(x, [proc[x] EXCEPT !.pc = "filler_mined", !.rcpt = r])
    /\ OnlyReads

\* observeGapFiller: a receipt resolves the row at any depth; an active filler
\* no node knows is sent again, byte for byte.
ObserveFiller(x) ==
    /\ At(x, "filler")
    /\ \/ /\ Receipts(proc[x].hash) = {}
          /\ IF proc[x].task = "gap-fillers" /\ ~ Known(proc[x].hash)
             THEN Goto(x, "push") ELSE GiveUp(x)
       \/ \E r \in Receipts(proc[x].hash) :
             Take(x, [proc[x] EXCEPT !.pc = "filler_mined", !.rcpt = r])
    /\ OnlyReads

RecordFiller(x) ==
    LET p == proc[x].pay
        t == proc[x].row IN
    /\ At(x, "filler_mined")
    /\ IF proc[x].rcpt.ok
       THEN Attempt(CanMarkGapFillerSucceeded(p, t, "worker"), MarkGapFillerSucceeded(p, t, "worker"))
       ELSE Attempt(CanMarkGapFillerResolved(t), MarkGapFillerResolved(t))
    /\ GiveUp(x)
    /\ StoreWrite

-----------------------------------------------------------------------------
(* The world: verification, time, faults, the chain                       *)

Verify(p) == RecordVerification(p) /\ UNCHANGED <<chainVars, lease, clock, proc, told, faults>>

\* The retention worker.  Redaction also clears the lease columns; the record
\* has not changed for a retention period, days where a lease is minutes.
Retention(expired, erased) ==
    /\ \A p \in expired : clock[p] # "live"
    /\ \A p \in erased : clock[p] = "past" /\ ~ lease[p].live
    /\ ApplyRetention(expired, erased)
    /\ lease' = [p \in Payments |-> IF p \in erased THEN Free ELSE lease[p]]
    /\ UNCHANGED <<chainVars, clock, proc, told, faults>>

\* live: now + margin < valid_before; past: valid_before + margin <= now.
Advance(p) ==
    /\ clock[p] # "past"
    /\ clock' = [clock EXCEPT ![p] = IF @ = "live" THEN "margin" ELSE "past"]
    /\ UNCHANGED <<storeVars, chainVars, lease, proc, told, faults>>

\* Where a process works without a lease.
Unleased == {"idle", "claim", "reload", "wait", "wait_depth", "persist", "under_lease"}

\* x believes it holds the lease on p.
Working(x, p) == proc[x].pay = p /\ proc[x].pc \notin Unleased

LeaseLapse(p) ==
    /\ Lapse(p)
    /\ IF \E x \in Processes : Working(x, p) /\ Identity(x) = lease[p].by
       THEN LeasesOverrun /\ Fault ELSE UNCHANGED faults
    /\ UNCHANGED <<storeVars, chainVars, clock, proc, told>>

\* The process dies or is cancelled, and its lease stays behind.
Crash(x) ==
    /\ ~ At(x, "idle")
    /\ Finish(x)
    /\ Fault /\ UNCHANGED <<storeVars, chainVars, lease, clock, told>>

\* A read, a fee estimate or the signer fails: the task returns its error.
CallFails(x) ==
    /\ proc[x].pc \in {"simulate", "observe", "depth", "lookup", "bump", "filler_bump",
                       "landed", "landed_depth", "fill", "filler"}
    /\ GiveUp(x)
    /\ Fault /\ UNCHANGED <<storeVars, chainVars, lease, clock, told>>

MineNext(m, ok) ==
    /\ ok => (clock[m.pay] # "past" \/ ClocksDiverge)
    /\ Mine(m, ok)
    /\ UNCHANGED <<storeVars, lease, clock, proc, told, faults>>

BuildEmpty == EmptyBlock /\ UNCHANGED <<storeVars, lease, clock, proc, told, faults>>

Reading(x) == proc[x].pc \in {"wait_depth", "depth", "landed_depth"}

Reorganise(k) ==
    /\ ReadsRace \/ \A x \in Processes : ~ Reading(x)
    /\ Reorg(k)
    /\ UNCHANGED <<storeVars, lease, clock, proc, told, faults>>

-----------------------------------------------------------------------------
BroadcastClaimed(x) ==
    \/ BroadcastLoad(x) \/ Simulate(x) \/ Retire(x) \/ PersistSigned(x) \/ Send(x)
    \/ RecordBroadcast(x) \/ RecordAmbiguous(x)

ConfirmationTask(x) ==
    ConfirmationLoad(x) \/ Observe(x) \/ MeasureDepth(x) \/ RecordObservation(x)

RecoveryTask(x) ==
    \/ RecoveryLoad(x) \/ Lookup(x) \/ RecordRecovered(x) \/ RecordReplacement(x)
    \/ Bump(x) \/ ObserveReplaced(x) \/ LandedDepth(x) \/ RecordLanded(x)
    \/ SignFiller(x) \/ PrepareFiller(x) \/ ObserveFiller(x) \/ RecordFiller(x)

WorkerStart(x) ==
    \/ \E p \in Payments : WorkerClaim(x, p)
    \/ \E t \in TxIds, pass \in Passes : ListRow(x, t, pass)

\* A step of a task under way, which the process takes if it is not stopped.
TaskStep(x) ==
    \/ HttpClaim(x) \/ HttpReload(x) \/ HttpObserve(x) \/ HttpDepth(x) \/ HttpPersist(x)
    \/ WorkerRenew(x) \/ UnderLease(x) \/ SkipLeased(x) \/ Release(x)
    \/ BroadcastClaimed(x) \/ ConfirmationTask(x) \/ RecoveryTask(x)

FaultyStep(x) == Crash(x) \/ CallFails(x) \/ SendFails(x) \/ ObserveLagging(x)

SettleCall(x, p) == SettleNew(x, p) \/ SettleDuplicate(x, p) \/ SettleFinal(x, p)

Next ==
    \/ \E x \in HttpRequests, p \in Payments : SettleCall(x, p)
    \/ \E x \in Processes : WorkerStart(x) \/ TaskStep(x) \/ TooEarly(x) \/ FaultyStep(x)
    \/ \E p \in Payments : Verify(p) \/ Advance(p) \/ LeaseLapse(p)
    \/ \E expired, erased \in SUBSET Payments : Retention(expired, erased)
    \/ \E m \in net, ok \in BOOLEAN : MineNext(m, ok)
    \/ BuildEmpty
    \/ \E k \in 1..(Confirmations - 1) : Reorganise(k)

Spec == Init /\ [][Next]_vars

\* A process that is not stopped goes on with its task; a lease nobody works
\* under lapses; time passes; what a node has accepted is mined and buried.
BaseFairness ==
    /\ \A x \in Processes : WF_vars(TaskStep(x))
    /\ \A p \in Payments : WF_vars(LeaseLapse(p)) /\ WF_vars(Advance(p))
    /\ WF_vars(\E m \in net, ok \in BOOLEAN : MineNext(m, ok))
    /\ WF_vars(BuildEmpty)

\* Workers tick for ever and a lease lasts one task, so a worker that finds a
\* payment claimable time and again gets it ...
ClaimFairness(x) == SF_vars(\E p \in Payments : WorkerClaim(x, p))

\* ... also when it took the payment from a list, every row of which it visits ...
PassFairness(x, pass, t) ==
    /\ SF_vars(ListRow(x, t, pass) /\ Claimable(tx[t].pay))
    /\ SF_vars(UnderLease(x) /\ proc[x].task = pass /\ proc[x].row = t)

\* ... and the replacement and backoff windows pass.
WindowFairness(x) == SF_vars(RecoveryLoad(x)) /\ SF_vars(Lookup(x))

\* A row that was replaced has a later one.
Replaceable == {t \in TxIds : \E u \in TxIds : t < u}

Fairness ==
    /\ BaseFairness
    /\ \A x \in BroadcastWorkers \cup ConfirmationWorkers \cup RecoveryWorkers : ClaimFairness(x)
    /\ \A x \in RecoveryWorkers : WindowFairness(x)
    /\ \A x \in RecoveryWorkers, t \in Replaceable : PassFairness(x, "replacements", t)

FairSpec == Spec /\ Fairness

-----------------------------------------------------------------------------
(* Properties                                                              *)

Receipt == [n : Nat, gen : Nat, ok : BOOLEAN]

Pcs == {"idle", "claim", "reload", "wait", "wait_depth", "persist", "renew", "load", "release",
        "expire", "simulate", "unsettleable", "signed", "send", "record", "ambiguous",
        "observe", "depth", "reorged", "confirming", "confirmed", "reverted",
        "lookup", "recover", "resend", "resigned", "bump", "bumped", "push",
        "under_lease", "landed", "landed_depth", "land",
        "fill", "prepare", "filler", "filler_mined", "filler_bump", "filler_bumped"}

Task == [pc : Pcs, pay : Payments \cup {None}, row : TxIds \cup {None},
         hash : Hashes \cup {None}, intent : TxIds \cup {None},
         task : TxStatuses \cup Passes \cup {None}, rcpt : Receipt]

WorldTypeOK ==
    /\ LeaseTypeOK
    /\ net \subseteq [h : Hashes, nonce : Nat, pay : Payments]
    /\ chain \in Seq([gen : Nat, h : Hashes \cup {Empty}, ok : BOOLEAN]) /\ reorgs \in Nat
    /\ clock \in [Payments -> {"live", "margin", "past"}]
    /\ told \in [Payments -> SUBSET {"settled", "failed_on_chain"}]

PipelineTypeOK == StoreTypeOK /\ WorldTypeOK /\ proc \in [Processes -> Task]

\* ADR-0004 decisions 3 and 4: whatever interleaving, crash or lost reply, a
\* signed transaction reaches the network only after its hash, nonce and
\* payment are on record, so recovery can always find it.
SentIsRecorded ==
    \A m \in net : \E t \in TxIds : tx[t].raw = m.h /\ tx[t].nonce = m.nonce /\ tx[t].pay = m.pay

\* A final state is the chain's: the row that made it final was mined with
\* that status at full depth on the canonical chain, and no transfer happened
\* for a payment recorded reverted.
FinalIsOnChain ==
    \A p \in Payments : payment[p] \in Final =>
        \E t \in Rows(p) : /\ tx[t].status = payment[p]
                           /\ \E r \in Receipts(tx[t].hash) :
                                 /\ r.ok = (payment[p] = "confirmed")
                                 /\ Depth(r) >= Confirmations

\* The payer of a payment reported reverted, failed or expired was not charged.
UnsettledIsUncharged ==
    \A p \in Payments : payment[p] \in {"reverted", "failed", "expired"} =>
        \A m \in net : m.pay = p => \A r \in Receipts(m.h) : ~ r.ok

\* A transaction that mined is still watched or already accounted for: the rows
\* recovery drops are ones the network can no longer include.
DroppedNeverMined ==
    \A t \in TxIds : (tx[t].status = "dropped" /\ tx[t].raw # None) => Receipts(tx[t].raw) = {}

\* What /settle told a caller is the durable outcome, and it never told two.
ToldIsRecorded ==
    \A p \in Payments :
        /\ "settled" \in told[p] => payment[p] = "confirmed"
        /\ "failed_on_chain" \in told[p] => payment[p] = "reverted"

\* A payment recorded confirming has its live transaction recorded confirming.
ConfirmingAgrees ==
    \A p \in Payments : payment[p] = "confirming" =>
        \E t \in Rows(p) : tx[t].status = "confirming"

\* The former owner never proceeds on stale ownership: two processes are never
\* at work on one payment.
LeaseExclusion ==
    \A p \in Payments, x, y \in Processes :
        (Working(x, p) /\ Working(y, p) /\ CanRenew(p, Identity(x))) => x = y

\* Every accepted intent reaches an outcome, whichever process dies or send is
\* lost on the way: nothing is left in flight, ambiguous or under a dead lease.
EveryIntentResolves ==
    \A p \in Payments :
        payment[p] = "broadcasting" ~> payment[p] \in Final \cup {"failed", "expired"}

\* A payment whose transaction reached the network is finalised by the
\* confirmation and recovery workers alone, whichever signature is mined.
BroadcastIsSettled ==
    \A p \in Payments : payment[p] \in Watched ~> payment[p] \in Final

\* A nonce dropped before it was signed is consumed in the end, so the
\* transactions behind it can be mined (fillNonceGaps, observeGapFillers).
GapIsFilled == \A t \in TxIds : BlockingGap(t) ~> AccountNonce > tx[t].nonce

\* Every process of the pipeline writes the record only through the store's
\* methods and within what SettlementStore lets any caller do, so what is
\* proved of that module holds here.
ImplementsStore == StoreSpec

\* "The request that observes a final outcome persists it before replying, so
\* an immediate duplicate cannot contradict an outcome that was already
\* returned" (ADR-0004, amendment): respondWithTx leaves a final outcome on record.
WaiterPersists ==
    [][\A x \in HttpRequests : HttpPersist(x) => payment'[proc[x].pay] \in Final]_vars

\* observeGapFiller: a filler that succeeded is escalated to manual review,
\* once, whichever signature of the nonce the network mined.
FillerSuccessEscalates ==
    [][\A x \in RecoveryWorkers :
         (RecordFiller(x) /\ proc[x].rcpt.ok /\ GapFiller(proc[x].row))
            => payment'[proc[x].pay] = "manual_review"]_vars

\* fillNonceGap signs for a nonce nothing was ever sent with: the row it
\* prepares has no signature yet.
GapFilledOnce ==
    [][\A t \in TxIds : (tx[t].status = "dropped" /\ tx'[t].status = "broadcast")
                           => tx[t].raw = None]_vars

-----------------------------------------------------------------------------
(* What makes the invariants inductive: what a process has read and still  *)
(* relies on stays true however stale the rest of its knowledge becomes.   *)

\* A row's transaction hash is the one of the bytes it records.
HashesAgree == \A t \in TxIds : tx[t].hash \in {None, tx[t].raw}

\* A process that has chosen a payment works on one of the table, and the row
\* it has loaded or listed is that payment's.
Rowless == {"claim", "reload", "wait", "wait_depth", "persist", "renew", "load", "release"}

KnowsRow(x) ==
    LET p == proc[x].pay
        t == proc[x].row IN
    \/ At(x, "idle")
    \/ proc[x].pc \in Rowless /\ p \in Payments
    \/ p \in Payments /\ t \in TxIds /\ tx[t].pay = p

\* A signature just produced is in no row, and no other process has it.
Signing == {"signed", "resigned", "bumped", "filler_bumped", "prepare"}

KnowsSignature(x) ==
    proc[x].pc \in Signing =>
        /\ proc[x].hash \in FreshHashes
        /\ \A y \in Processes : y # x => proc[y].hash # proc[x].hash

\* Until the first broadcast is on record, the bytes of the row are the ones
\* the process sends, sent or looks for.
FirstBroadcast == {"intent", "broadcasting", "ambiguous"}

KnowsBytes(x) ==
    proc[x].pc \in {"send", "record", "lookup", "resend", "recover"} =>
        \/ tx[proc[x].row].raw = proc[x].hash
        \/ tx[proc[x].row].status \notin FirstBroadcast

\* The confirmation paths hold a transaction that reached the network.
Observing(x) ==
    \/ proc[x].pc \in {"observe", "depth", "reorged", "confirming", "confirmed", "reverted",
                       "landed", "landed_depth", "land"}
    \/ At(x, "under_lease") /\ proc[x].task = "replacements"

KnowsWatched(x) ==
    /\ (x \in ConfirmationWorkers /\ proc[x].pc \in {"renew", "load"})
          => payment[proc[x].pay] \in Watched \cup Final
    /\ Observing(x) => /\ payment[proc[x].pay] \in Watched \cup Final
                       /\ proc[x].hash # None /\ tx[proc[x].row].hash = proc[x].hash

\* A payment given up, or escalated because its filler succeeded, is not settled
\* any more: no ambiguous broadcast is left that recovery could re-attach.
Abandoned(p) ==
    /\ payment[p] \in {"expired", "failed", "manual_review"}
    /\ \A t \in Rows(p) : tx[t].status # "ambiguous"

Filling(x) ==
    proc[x].pc \in {"fill", "prepare"} \/ (At(x, "under_lease") /\ proc[x].task = "nonce-gaps")

TendingFiller(x) ==
    \/ proc[x].pc \in {"filler", "filler_mined"}
    \/ At(x, "under_lease") /\ proc[x].task \in {"gap-fillers", "replaced-gap-fillers"}

\* The filler paths hold a row of an abandoned payment; its bytes are kept until
\* its nonce is consumed.
KnowsFiller(x) ==
    /\ Filling(x) \/ TendingFiller(x) => Abandoned(proc[x].pay)
    /\ TendingFiller(x) => tx[proc[x].row].bytes \/ tx[proc[x].row].status = "reverted"
    /\ At(x, "under_lease") => proc[x].task \in Passes

\* What is sent, looked for or watched has a hash.
KnowsHash(x) ==
    (proc[x].pc \in {"send", "record", "lookup", "resend", "recover", "push"} \/ TendingFiller(x))
        => proc[x].hash # None

\* Only /settle claims one payment by name, whatever state it is in.
ClaimsInline(x) == At(x, "claim") => x \in HttpRequests

Knows(x) ==
    /\ KnowsRow(x) /\ KnowsSignature(x) /\ KnowsBytes(x) /\ KnowsWatched(x)
    /\ KnowsFiller(x) /\ KnowsHash(x) /\ ClaimsInline(x)

PipelineInv ==
    /\ PipelineTypeOK /\ StoreInv /\ HashesAgree
    /\ \A x \in Processes : Knows(x)

\* Unless a lease overruns, a process at work holds a live lease, and alone:
\* every /settle claims under one name, so the lease does not tell them apart.
HolderInv ==
    /\ \A x \in Processes, p \in Payments : Working(x, p) => CanRenew(p, Identity(x))
    /\ \A x, y \in Processes, p \in Payments : Working(x, p) /\ Working(y, p) => x = y

\* Unless a lease overruns, the transaction the confirmation worker looks for
\* stays the live one of its payment.
Looking == {"observe", "depth", "reorged", "confirming", "confirmed", "reverted"}

FreshInv ==
    \A x \in Processes : proc[x].pc \in Looking => tx[proc[x].row].status \in {"broadcast", "confirming"}

\* Unless the chain reorganises between two reads of one observation, the
\* receipt a verdict rests on is canonical, and too deep to be reorganised once
\* the verdict is final.
Sighted == {"depth", "landed_depth", "confirmed", "reverted", "land"}
OnChain(r, h) == r \in Receipts(h) /\ Depth(r) >= Confirmations

KnowsReceipt(x) ==
    LET r == proc[x].rcpt
        h == proc[x].hash IN
    /\ At(x, "depth") => r \in Receipts(h)
    /\ At(x, "landed_depth") => r \in Receipts(h) /\ ~ r.ok
    /\ proc[x].pc \in Final => OnChain(r, h) /\ r.ok = At(x, "confirmed")
    /\ At(x, "land") /\ ~ r.ok => OnChain(r, h)

ReceiptInv == \A x \in Processes : KnowsReceipt(x)
=============================================================================
