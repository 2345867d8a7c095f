---------------------- MODULE SettlementOutcomeProofs ----------------------
(***************************************************************************)
(* Who works on a payment, and what its outcome is worth, for any number   *)
(* of payments, rows, requests and workers: a lease has one holder, a      *)
(* final payment is final on the chain, and a confirming one has a         *)
(* transaction that confirms.                                              *)
(***************************************************************************)
EXTENDS SettlementPipelineProofs

-----------------------------------------------------------------------------
(* How a process moves on                                                  *)

\* A process that takes up a task has it, and the others are where they were.
LEMMA TakeEffect ==
    ASSUME PipelineInv, NEW x \in Processes, NEW r, Take(x, r)
    PROVE  /\ proc'[x] = r
           /\ \A y \in Processes : y # x => proc'[y] = proc[y]
  BY DEF PipelineInv, PipelineTypeOK, Take

\* x goes on without taking a lease: it works on the payment it worked on, or on none.
Onward(x) ==
    /\ \A y \in Processes : y # x => proc'[y] = proc[y]
    /\ proc'[x].pc \notin Unleased => proc'[x].pay = proc[x].pay /\ proc[x].pc \notin Unleased

\* Without a look at the chain either.
Plain(x) == Onward(x) /\ proc'[x].pc \notin Sighted \cup Looking

\* Taking up a task is plain if the task is.
LEMMA TakePlain ==
    ASSUME PipelineInv, NEW x \in Processes, NEW r, Take(x, r), r.pc \notin Sighted \cup Looking,
           r.pc \notin Unleased => r.pay = proc[x].pay /\ proc[x].pc \notin Unleased
    PROVE  Plain(x)
  BY Zenon, TakeEffect DEF Plain, Onward

\* Going on is plain from one place without a lease to another, or under it.
LEMMA GotoPlain ==
    ASSUME PipelineInv, NEW x \in Processes, NEW pc, Goto(x, pc), pc \notin Sighted \cup Looking,
           pc \notin Unleased => proc[x].pc \notin Unleased
    PROVE  Plain(x)
  <1>. DEFINE r == [proc[x] EXCEPT !.pc = pc]
  <1>1. r.pc = pc /\ r.pay = proc[x].pay
    BY TaskTypes DEF Task
  <1>2. Take(x, r)
    BY Zenon DEF Goto
  <1>. HIDE DEF r
  <1>. QED BY Zenon, <1>1, <1>2, TakePlain

\* So is being done.
LEMMA FinishPlain ==
    ASSUME PipelineInv, NEW x \in Processes, Finish(x)
    PROVE  Plain(x)
  <1>1. Idle.pc \notin Sighted \cup Looking /\ Idle.pc \in Unleased
    BY DEF Idle, Sighted, Looking, Unleased
  <1>. QED BY Zenon, <1>1, TakePlain DEF Finish

\* So is leaving the payment.
LEMMA LeavePlain ==
    ASSUME PipelineInv, NEW x \in Processes, proc[x].pc \notin Unleased,
           \/ \E h, i : Leave(x, h, i)
           \/ GiveUp(x) \/ Reject(x)
    PROVE  Plain(x)
  <1>1. PICK h, i : Leave(x, h, i)
    BY Zenon DEF GiveUp, Reject
  <1>. DEFINE hash == IF x \in HttpRequests THEN h ELSE None
              intent == IF x \in HttpRequests THEN i ELSE None
              r == [Idle EXCEPT !.pc = "release", !.pay = proc[x].pay, !.hash = hash, !.intent = intent]
  <1>2. Take(x, r)
    BY Zenon, <1>1 DEF Leave
  <1>3. r.pc = "release" /\ r.pay = proc[x].pay
    BY DEF Idle
  <1>. HIDE DEF r
  <1>4. r.pc \notin Sighted \cup Looking
    BY <1>3 DEF Sighted, Looking
  <1>. QED BY Zenon, <1>2, <1>3, <1>4, TakePlain

\* The steps of /settle that take no lease.
LEMMA HttpPlain ==
    ASSUME PipelineInv, NEW x \in Processes,
           \/ \E p \in Payments : SettleNew(x, p) \/ SettleDuplicate(x, p)
           \/ HttpReload(x) \/ HttpObserve(x) \/ HttpDepth(x) \/ HttpPersist(x)
    PROVE  Plain(x)
  <1>. USE TaskTypes DEF Task, Sighted, Looking, Unleased
  <1>1. CASE Finish(x)
    BY Zenon, <1>1, FinishPlain
  <1>2. CASE Goto(x, "persist")
    BY <1>2, GotoPlain, Zenon
  <1>3. ASSUME NEW p, NEW t, Take(x, [Idle EXCEPT !.pc = "claim", !.pay = p, !.intent = t]) PROVE Plain(x)
    BY <1>3, TakePlain, Zenon DEF Idle
  <1>4. ASSUME NEW t, NEW h, Take(x, [proc[x] EXCEPT !.pc = "wait", !.intent = t, !.hash = h]) PROVE Plain(x)
    BY <1>4, TakePlain, Zenon
  <1>5. ASSUME NEW pc \in {"wait", "wait_depth"}, NEW r, Take(x, [proc[x] EXCEPT !.pc = pc, !.rcpt = r])
        PROVE  Plain(x)
    BY <1>5, TakePlain, Zenon
  <1>. QED BY Zenon, <1>1, <1>2, <1>3, <1>4, <1>5
           DEF SettleNew, SettleDuplicate, HttpReload, HttpObserve, HttpDepth, HttpPersist

\* The steps of the first broadcast.
LEMMA BroadcastPlain ==
    ASSUME PipelineInv, NEW x \in Processes, BroadcastClaimed(x) \/ SendFails(x)
    PROVE  Plain(x)
  <1>1. proc[x].pc \notin Unleased
    BY Zenon DEF BroadcastClaimed, BroadcastLoad, Simulate, Retire, PersistSigned, Send, SendFails, RecordBroadcast,
       RecordAmbiguous, At, Unleased
  <1>2. ASSUME \/ \E h, i : Leave(x, h, i)
               \/ GiveUp(x) \/ Reject(x)
        PROVE  Plain(x)
    BY Zenon, <1>1, <1>2, LeavePlain
  <1>3. ASSUME NEW pc \in {"unsettleable", "send", "record", "recover", "ambiguous"}, Goto(x, pc) PROVE Plain(x)
    BY <1>1, <1>3, GotoPlain DEF Sighted, Looking
  <1>4. ASSUME NEW t, NEW pc \in {"ambiguous", "expire", "simulate"}, Take(x, [proc[x] EXCEPT !.row = t, !.pc = pc])
        PROVE  Plain(x)
    BY <1>1, <1>4, TakePlain, TaskTypes, Zenon DEF Task, Sighted, Looking
  <1>5. ASSUME NEW h, Take(x, [proc[x] EXCEPT !.pc = "signed", !.hash = h]) PROVE Plain(x)
    BY <1>1, <1>5, TakePlain, TaskTypes, Zenon DEF Task, Sighted, Looking
  <1>6. CASE BroadcastLoad(x)
    <2>1. ASSUME NEW t, 
               CASE tx[t].hash # None -> Leave(x, tx[t].hash, proc[x].intent)
                 [] tx[t].hash = None /\ tx[t].status \notin {"intent", "broadcasting"} -> GiveUp(x)
                 [] OTHER ->
                      Take(x, [proc[x] EXCEPT !.row = t,
                                  !.pc = IF tx[t].status = "broadcasting" THEN "ambiguous"
                                         ELSE IF clock[proc[x].pay] # "live" THEN "expire"
                                         ELSE "simulate"])
          PROVE  Plain(x)
      <3>. DEFINE pc == IF tx[t].status = "broadcasting" THEN "ambiguous"
                        ELSE IF clock[proc[x].pay] # "live" THEN "expire" ELSE "simulate"
      <3>1. \/ Leave(x, tx[t].hash, proc[x].intent)
            \/ GiveUp(x)
            \/ Take(x, [proc[x] EXCEPT !.row = t, !.pc = pc])
        BY <2>1
      <3>2. pc \in {"ambiguous", "expire", "simulate"}
        OBVIOUS
      <3>. HIDE DEF pc
      <3>. QED BY Zenon, <1>2, <1>4, <3>1, <3>2
    <2>. QED BY Zenon, <1>2, <1>6, <2>1 DEF BroadcastLoad
  <1>7. CASE Simulate(x)
    <2>1. "unsettleable" \in {"unsettleable", "send", "record", "recover", "ambiguous"}
      OBVIOUS
    <2>. QED BY Zenon, <1>3, <1>5, <1>7, <2>1 DEF Simulate
  <1>8. CASE Retire(x) \/ RecordBroadcast(x) \/ RecordAmbiguous(x)
    BY Zenon, <1>2, <1>8 DEF Retire, RecordBroadcast, RecordAmbiguous
  <1>9. CASE PersistSigned(x)
    <2>1. "send" \in {"unsettleable", "send", "record", "recover", "ambiguous"}
      OBVIOUS
    <2>. QED BY Zenon, <1>2, <1>3, <1>9, <2>1 DEF PersistSigned
  <1>10. CASE Send(x) \/ SendFails(x)
    <2>1. GiveUp(x) \/ \E pc \in {"record", "recover", "ambiguous"} : Goto(x, pc)
      BY <1>10, Zenon DEF Send, SendFails, At
    <2>2. {"record", "recover", "ambiguous"} \subseteq {"unsettleable", "send", "record", "recover", "ambiguous"}
      OBVIOUS
    <2>. QED BY Zenon, <1>2, <1>3, <2>1, <2>2
  <1>. QED BY Zenon, <1>6, <1>7, <1>8, <1>9, <1>10 DEF BroadcastClaimed

\* The steps of recovery that look for no receipt, and those of the other
\* workers that only record.
LEMMA RecoveryPlain ==
    ASSUME PipelineInv, NEW x \in Processes,
           \/ RecoveryLoad(x) \/ Lookup(x) \/ RecordRecovered(x) \/ RecordReplacement(x) \/ Bump(x)
           \/ RecordLanded(x) \/ SignFiller(x) \/ PrepareFiller(x) \/ ObserveFiller(x) \/ RecordFiller(x)
           \/ RecordObservation(x) \/ TooEarly(x) \/ CallFails(x)
    PROVE  Plain(x)
  <1>1. proc[x].pc \notin Unleased
    BY Zenon DEF RecoveryLoad, Lookup, RecordRecovered, RecordReplacement, Bump, RecordLanded, SignFiller, PrepareFiller,
       ObserveFiller, RecordFiller, RecordObservation, TooEarly, CallFails, At, Unleased, Final
  <1>2. ASSUME GiveUp(x) PROVE Plain(x)
    BY Zenon, <1>1, <1>2, LeavePlain
  <1>3. ASSUME NEW pc \in {"recover", "resend", "push"}, Goto(x, pc) PROVE Plain(x)
    BY <1>1, <1>3, GotoPlain, Zenon DEF Sighted, Looking
  <1>4. "recover" \in {"recover", "resend", "push"} /\ "resend" \in {"recover", "resend", "push"}
        /\ "push" \in {"recover", "resend", "push"}
    OBVIOUS
  <1>. USE TaskTypes DEF Task
  <1>6. ASSUME NEW t, NEW h, NEW pc \in {"lookup", "bump"}, Take(x, [proc[x] EXCEPT !.row = t, !.hash = h, !.pc = pc])
        PROVE  Plain(x)
    BY <1>1, <1>6, TakePlain, Zenon DEF Sighted, Looking
  <1>7. ASSUME NEW h, NEW pc \in {"resigned", "prepare"}, Take(x, [proc[x] EXCEPT !.pc = pc, !.hash = h])
        PROVE  Plain(x)
    BY <1>1, <1>7, TakePlain, Zenon DEF Sighted, Looking
  <1>8. ASSUME NEW h, NEW pc \in {"bumped", "filler_bumped"}, Take(x, [proc[x] EXCEPT !.hash = h, !.pc = pc])
        PROVE  Plain(x)
    BY <1>1, <1>8, TakePlain, Zenon DEF Sighted, Looking
  <1>9. ASSUME NEW n, Take(x, [proc[x] EXCEPT !.pc = "push", !.row = n]) PROVE Plain(x)
    BY <1>1, <1>9, TakePlain, Zenon DEF Sighted, Looking
  <1>10. ASSUME NEW r, Take(x, [proc[x] EXCEPT !.pc = "filler_mined", !.rcpt = r]) PROVE Plain(x)
    BY <1>1, <1>10, TakePlain, Zenon DEF Sighted, Looking
  <1>11. CASE ObserveFiller(x) \/ PrepareFiller(x) \/ RecordReplacement(x)
    BY Zenon, <1>2, <1>3, <1>4, <1>9, <1>10, <1>11
       DEF ObserveFiller, PrepareFiller, RecordReplacement
  <1>12. CASE Lookup(x) \/ SignFiller(x)
    <2>1. "resigned" \in {"resigned", "prepare"} /\ "prepare" \in {"resigned", "prepare"}
      BY Zenon
    <2>. QED BY Zenon, <1>3, <1>4, <1>7, <1>12, <2>1 DEF Lookup, SignFiller
  <1>13. CASE RecoveryLoad(x) \/ Bump(x)
    <2>1. \/ GiveUp(x)
          \/ \E t, h : \E pc \in {"lookup", "bump"} : Take(x, [proc[x] EXCEPT !.row = t, !.hash = h, !.pc = pc])
          \/ \E h : \E pc \in {"bumped", "filler_bumped"} : Take(x, [proc[x] EXCEPT !.hash = h, !.pc = pc])
      <3>1. CASE RecoveryLoad(x)
        <4>1. ASSUME NEW t, Take(x, [proc[x] EXCEPT !.row = t, !.hash = tx[t].raw,
                                       !.pc = IF tx[t].status = "ambiguous" THEN "lookup" ELSE "bump"])
              PROVE  \E pc \in {"lookup", "bump"} : Take(x, [proc[x] EXCEPT !.row = t, !.hash = tx[t].raw, !.pc = pc])
          <5>1. (IF tx[t].status = "ambiguous" THEN "lookup" ELSE "bump") \in {"lookup", "bump"}
            BY Zenon
          <5>. QED BY Zenon, <4>1, <5>1
        <4>. QED BY Zenon, <3>1, <4>1 DEF RecoveryLoad
      <3>2. CASE Bump(x)
        <4>1. (IF At(x, "bump") THEN "bumped" ELSE "filler_bumped") \in {"bumped", "filler_bumped"}
          BY Zenon
        <4>. QED BY Zenon, <3>2, <4>1 DEF Bump
      <3>. QED BY Zenon, <1>13, <3>1, <3>2
    <2>. QED BY Zenon, <1>2, <1>6, <1>8, <2>1
  <1>14. CASE RecordRecovered(x) \/ RecordLanded(x) \/ RecordFiller(x) \/ RecordObservation(x) \/ TooEarly(x) \/ CallFails(x)
    BY Zenon, <1>2, <1>14 DEF RecordRecovered, RecordLanded, RecordFiller, RecordObservation, TooEarly, CallFails
  <1>. QED BY Zenon, <1>11, <1>12, <1>13, <1>14

\* The steps that take up no lease or give one back.
LEMMA UnleasedPlain ==
    ASSUME PipelineInv, NEW x \in Processes,
           \/ \E t \in TxIds, pass \in Passes : ListRow(x, t, pass)
           \/ SkipLeased(x) \/ WorkerRenew(x) \/ Release(x) \/ Crash(x)
    PROVE  Plain(x)
  <1>. USE TaskTypes DEF Task, Sighted, Looking, Unleased
  <1>1. CASE Finish(x)
    BY Zenon, <1>1, FinishPlain
  <1>2. ASSUME At(x, "renew"), Goto(x, "load") PROVE Plain(x)
    BY <1>2, GotoPlain, Zenon DEF At
  <1>3. ASSUME NEW pc \in {"wait", "reload"}, Goto(x, pc) PROVE Plain(x)
    BY <1>3, GotoPlain, Zenon
  <1>4. ASSUME NEW p, NEW t, NEW h, NEW pass,
               Take(x, [Idle EXCEPT !.pc = "under_lease", !.pay = p, !.row = t, !.hash = h, !.task = pass])
        PROVE  Plain(x)
    BY <1>4, TakePlain, Zenon DEF Idle
  <1>5. "wait" \in {"wait", "reload"} /\ "reload" \in {"wait", "reload"}
    BY Zenon
  <1>. QED BY Zenon, <1>1, <1>2, <1>3, <1>4, <1>5 DEF ListRow, SkipLeased, WorkerRenew, Release, Crash

\* The steps that look at the chain, or load what to look for.
Looks(x) ==
    \/ ConfirmationLoad(x) \/ Observe(x) \/ ObserveLagging(x) \/ MeasureDepth(x)
    \/ ObserveReplaced(x) \/ LandedDepth(x)

\* Looking at the chain keeps the lease.
LEMMA SightingsOnward ==
    ASSUME PipelineInv, NEW x \in Processes, Looks(x)
    PROVE  Onward(x)
  <1>1. proc[x].pc \notin Unleased
    BY Zenon DEF Looks, ConfirmationLoad, Observe, ObserveLagging, MeasureDepth, ObserveReplaced, LandedDepth, At, Unleased
  <1>2. ASSUME GiveUp(x) PROVE Onward(x)
    BY Zenon, <1>1, <1>2, LeavePlain DEF Plain
  <1>3. ASSUME NEW pc, Goto(x, pc) PROVE Onward(x)
    <2>1. [proc[x] EXCEPT !.pc = pc].pay = proc[x].pay
      BY TaskTypes DEF Task
    <2>. QED BY Zenon, <1>1, <1>3, <2>1, TakeEffect DEF Goto, Onward
  <1>4. ASSUME NEW pc, NEW r, Take(x, [proc[x] EXCEPT !.pc = pc, !.rcpt = r]) PROVE Onward(x)
    <2>1. [proc[x] EXCEPT !.pc = pc, !.rcpt = r].pay = proc[x].pay
      BY TaskTypes DEF Task
    <2>. QED BY Zenon, <1>1, <1>4, <2>1, TakeEffect DEF Onward
  <1>5. ASSUME NEW t, NEW h, NEW s, Take(x, [proc[x] EXCEPT !.pc = "observe", !.row = t, !.hash = h, !.task = s])
        PROVE  Onward(x)
    <2>1. [proc[x] EXCEPT !.pc = "observe", !.row = t, !.hash = h, !.task = s].pay = proc[x].pay
      BY TaskTypes DEF Task
    <2>. QED BY Zenon, <1>1, <1>5, <2>1, TakeEffect DEF Onward
  <1>. QED BY Zenon, <1>2, <1>3, <1>4, <1>5
           DEF Looks, ConfirmationLoad, Observe, ObserveLagging, MeasureDepth, ObserveReplaced, LandedDepth

-----------------------------------------------------------------------------
(* One process at a time works on a payment                                *)

\* The lease of a payment somebody works on is taken.
LEMMA WorkedOnIsTaken ==
    ASSUME HolderInv, NEW x \in Processes, NEW p \in Payments, Working(x, p)
    PROVE  ~ Claimable(p) /\ lease[p].live
  <1>1. Identity(x) # None
    BY ProcessAssumption, Zenon DEF Identity
  <1>. QED BY <1>1, Zenon DEF HolderInv, CanRenew, Claimable

\* Holders stay holders when nobody starts to work and the lease of a payment
\* worked on stays.
LEMMA HoldersStay ==
    ASSUME HolderInv,
           \A x \in Processes, p \in Payments : Working(x, p)' => Working(x, p) /\ lease'[p] = lease[p]
    PROVE  HolderInv'
  <1>1. ASSUME NEW x \in Processes, NEW p \in Payments, Working(x, p)' PROVE CanRenew(p, Identity(x))'
    <2>1. CanRenew(p, Identity(x)) /\ lease'[p] = lease[p]
      BY Zenon, <1>1 DEF HolderInv
    <2>. QED BY Zenon, <2>1 DEF CanRenew, Identity
  <1>2. ASSUME NEW x \in Processes, NEW y \in Processes, NEW p \in Payments, Working(x, p)', Working(y, p)'
        PROVE  x = y
    BY Zenon, <1>2 DEF HolderInv
  <1>. QED BY Zenon, <1>1, <1>2 DEF HolderInv

\* A process that goes on does not start to work.
LEMMA OnwardStartsNothing ==
    ASSUME NEW x \in Processes, Onward(x), NEW y \in Processes, NEW p \in Payments, Working(y, p)'
    PROVE  Working(y, p)
  BY Zenon DEF Onward, Working

\* A step without a lease change.
LEMMA OnwardHolders ==
    ASSUME HolderInv, NEW x \in Processes, Onward(x), UNCHANGED lease
    PROVE  HolderInv'
  BY Zenon, HoldersStay, OnwardStartsNothing

\* A claim: nobody was at work on the payment.
LEMMA ClaimHolders ==
    ASSUME HolderInv, LeaseTypeOK, NEW x \in Processes, NEW p \in Payments, ClaimPayment(p, Identity(x)),
           proc'[x].pay = p, \A y \in Processes : y # x => proc'[y] = proc[y]
    PROVE  HolderInv'
  <1>1. \A y \in Processes : ~ Working(y, p)
    BY Zenon, WorkedOnIsTaken DEF ClaimPayment
  <1>2. /\ lease'[p] = [by |-> Identity(x), live |-> TRUE]
        /\ \A q \in Payments : q # p => lease'[q] = lease[q]
    BY Zenon DEF ClaimPayment, LeaseTypeOK
  <1>3. CanRenew(p, Identity(x))'
    BY <1>2 DEF CanRenew, Identity
  <1>4. ASSUME NEW y \in Processes, NEW q \in Payments, Working(y, q)', ~ (y = x /\ q = p)
        PROVE  y # x /\ q # p /\ Working(y, q) /\ lease'[q] = lease[q]
    <2>1. y # x
      BY <1>4 DEF Working
    <2>2. Working(y, q)
      BY <1>4, <2>1 DEF Working
    <2>. QED BY Zenon, <1>1, <1>2, <2>1, <2>2
  <1>5. ASSUME NEW y \in Processes, NEW q \in Payments, Working(y, q)' PROVE CanRenew(q, Identity(y))'
    <2>1. CASE y = x /\ q = p
      BY Zenon, <1>3, <2>1
    <2>2. CASE ~ (y = x /\ q = p)
      <3>1. CanRenew(q, Identity(y)) /\ lease'[q] = lease[q]
        BY Zenon, <1>4, <1>5, <2>2 DEF HolderInv
      <3>. QED BY Zenon, <3>1 DEF CanRenew, Identity
    <2>. QED BY Zenon, <2>1, <2>2
  <1>6. ASSUME NEW y \in Processes, NEW z \in Processes, NEW q \in Payments, Working(y, q)', Working(z, q)'
        PROVE  y = z
    <2>1. CASE q = p
      BY Zenon, <1>4, <1>6, <2>1
    <2>2. CASE q # p
      BY Zenon, <1>4, <1>6, <2>2 DEF HolderInv
    <2>. QED BY Zenon, <2>1, <2>2
  <1>. QED BY Zenon, <1>5, <1>6 DEF HolderInv

\* The steps that claim.
LEMMA ClaimsHolders ==
    ASSUME PipelineInv, HolderInv, NEW x \in Processes,
           HttpClaim(x) \/ UnderLease(x) \/ \E p \in Payments : WorkerClaim(x, p)
    PROVE  HolderInv'
  <1>. USE TaskTypes DEF Task
  <1>0. LeaseTypeOK
    BY Zenon DEF PipelineInv, PipelineTypeOK, WorldTypeOK
  <1>1. ASSUME NEW pc, Goto(x, pc), At(x, "claim") \/ At(x, "under_lease"), ClaimPayment(proc[x].pay, Identity(x))
        PROVE  HolderInv'
    <2>1. [proc[x] EXCEPT !.pc = pc].pay = proc[x].pay
      OBVIOUS
    <2>2. proc'[x].pay = proc[x].pay /\ \A y \in Processes : y # x => proc'[y] = proc[y]
      BY Zenon, <1>1, <2>1, TakeEffect DEF Goto
    <2>3. proc[x].pay \in Payments
      BY <1>1, BusyHasPayment DEF At
    <2>. QED BY Zenon, <1>0, <1>1, <2>2, <2>3, ClaimHolders
  <1>2. ASSUME NEW p \in Payments, WorkerClaim(x, p) PROVE HolderInv'
    <2>1. [Idle EXCEPT !.pc = "renew", !.pay = p].pay = p
      BY DEF Idle
    <2>2. proc'[x].pay = p /\ \A y \in Processes : y # x => proc'[y] = proc[y]
      BY Zenon, <1>2, <2>1, TakeEffect DEF WorkerClaim
    <2>. QED BY Zenon, <1>0, <1>2, <2>2, ClaimHolders DEF WorkerClaim
  <1>3. CASE HttpClaim(x)
    <2>1. CASE Claimable(proc[x].pay)
      BY Zenon, <1>1, <1>3, <2>1 DEF HttpClaim
    <2>2. CASE ~ Claimable(proc[x].pay)
      <3>1. Goto(x, "reload") /\ UNCHANGED lease
        BY Zenon, <1>3, <2>2 DEF HttpClaim
      <3>2. Onward(x)
        BY <3>1, GotoPlain DEF Plain, Unleased, Sighted, Looking
      <3>. QED BY Zenon, <3>1, <3>2, OnwardHolders
    <2>. QED BY Zenon, <2>1, <2>2
  <1>. QED BY Zenon, <1>1, <1>2, <1>3 DEF UnderLease

\* The deferred release gives back the lease of the one who worked on the payment.
LEMMA ReleaseHolders ==
    ASSUME PipelineInv, HolderInv, NEW x \in Processes, Release(x)
    PROVE  HolderInv'
  <1>1. Onward(x)
    BY Zenon, UnleasedPlain DEF Plain
  <1>2. proc'[x].pc \in Unleased
    <2>1. ASSUME NEW pc \in {"wait", "reload"}, Goto(x, pc) PROVE proc'[x].pc \in Unleased
      BY <2>1, TakeEffect, TaskTypes DEF Goto, Task, Unleased
    <2>2. ASSUME Finish(x) PROVE proc'[x].pc \in Unleased
      BY <2>2, TakeEffect DEF Finish, Idle, Unleased
    <2>3. "wait" \in {"wait", "reload"} /\ "reload" \in {"wait", "reload"}
      OBVIOUS
    <2>. QED BY Zenon, <2>1, <2>2, <2>3 DEF Release
  <1>3. Working(x, proc[x].pay)
    BY DEF Release, At, Working, Unleased
  <1>4. ASSUME NEW y \in Processes, NEW q \in Payments, Working(y, q)'
        PROVE  Working(y, q) /\ lease'[q] = lease[q]
    <2>1. Working(y, q)
      BY Zenon, <1>1, <1>4, OnwardStartsNothing
    <2>2. y # x
      BY Zenon, <1>2, <1>4 DEF Working
    <2>3. q # proc[x].pay
      BY Zenon, <1>3, <2>1, <2>2 DEF HolderInv
    <2>. QED BY <2>1, <2>3 DEF Release, ReleaseLease, PipelineInv, PipelineTypeOK, WorldTypeOK, LeaseTypeOK
  <1>. QED BY Zenon, <1>4, HoldersStay

\* Time and retention take no lease from anybody at work.
LEMMA WorldHolders ==
    ASSUME PipelineInv, HolderInv, ~ LeasesOverrun,
           \/ \E p \in Payments : LeaseLapse(p)
           \/ \E expired, erased \in SUBSET Payments : Retention(expired, erased)
    PROVE  HolderInv'
  <1>. USE DEF PipelineInv, PipelineTypeOK, WorldTypeOK, LeaseTypeOK
  <1>1. UNCHANGED proc
    BY Zenon DEF LeaseLapse, Retention
  <1>2. ASSUME NEW y \in Processes, NEW q \in Payments, Working(y, q)' PROVE Working(y, q)
    BY Zenon, <1>1, <1>2 DEF Working
  <1>3. ASSUME NEW p \in Payments, LeaseLapse(p), NEW y \in Processes, NEW q \in Payments, Working(y, q)
        PROVE  lease'[q] = lease[q]
    <2>1. q # p
      <3>1. CanRenew(q, Identity(y))
        BY Zenon, <1>3 DEF HolderInv
      <3>. QED BY Zenon, <1>3, <3>1 DEF LeaseLapse, CanRenew
    <2>. QED BY <1>3, <2>1 DEF LeaseLapse, Lapse
  <1>4. ASSUME NEW expired \in SUBSET Payments, NEW erased \in SUBSET Payments, Retention(expired, erased),
               NEW y \in Processes, NEW q \in Payments, Working(y, q)
        PROVE  lease'[q] = lease[q]
    <2>1. lease[q].live
      BY Zenon, <1>4, WorkedOnIsTaken
    <2>. QED BY <1>4, <2>1 DEF Retention
  <1>. QED BY Zenon, <1>2, <1>3, <1>4, HoldersStay

\* Everything else leaves the leases alone.
LEMMA TaskKeepsLease ==
    ASSUME PipelineInv, NEW x \in Processes,
           \/ \E p \in Payments : SettleCall(x, p)
           \/ \E t \in TxIds, pass \in Passes : ListRow(x, t, pass)
           \/ HttpReload(x) \/ HttpObserve(x) \/ HttpDepth(x) \/ HttpPersist(x) \/ WorkerRenew(x) \/ SkipLeased(x)
           \/ BroadcastClaimed(x) \/ ConfirmationTask(x) \/ RecoveryTask(x) \/ TooEarly(x) \/ FaultyStep(x)
    PROVE  UNCHANGED lease /\ (Onward(x) \/ UNCHANGED proc)
  <1>1. UNCHANGED lease
    BY Zenon DEF SettleCall, SettleNew, SettleDuplicate, SettleFinal, ListRow, HttpReload, HttpObserve, HttpDepth,
       HttpPersist, WorkerRenew, SkipLeased, BroadcastClaimed, BroadcastLoad, Simulate, Retire, PersistSigned,
       Send, RecordBroadcast, RecordAmbiguous, ConfirmationTask, ConfirmationLoad, Observe, MeasureDepth,
       RecordObservation, RecoveryTask, RecoveryLoad, Lookup, RecordRecovered, RecordReplacement, Bump,
       ObserveReplaced, LandedDepth, RecordLanded, SignFiller, PrepareFiller, ObserveFiller, RecordFiller,
       TooEarly, FaultyStep, Crash, CallFails, SendFails, ObserveLagging,
       OnlyReads, StoreWrite, NetworkWrite
  <1>2. Onward(x) \/ UNCHANGED proc
    BY Zenon, HttpPlain, BroadcastPlain, RecoveryPlain, UnleasedPlain, SightingsOnward
       DEF SettleCall, SettleFinal, FaultyStep, ConfirmationTask, RecoveryTask, Looks, Plain
  <1>. QED BY Zenon, <1>1, <1>2

\* A step of the service keeps the holders, unless a lease may overrun.
LEMMA HolderStep ==
    ASSUME PipelineInv, HolderInv, ~ LeasesOverrun, [Next]_vars
    PROVE  HolderInv'
  <1>1. ASSUME UNCHANGED <<lease, proc>> PROVE HolderInv'
    BY <1>1 DEF HolderInv, Working, CanRenew, Identity
  <1>2. ASSUME NEW x \in Processes, UNCHANGED lease /\ (Onward(x) \/ UNCHANGED proc) PROVE HolderInv'
    BY Zenon, <1>1, <1>2, OnwardHolders
  <1>3. ASSUME NEW x \in HttpRequests, NEW p \in Payments, SettleCall(x, p) PROVE HolderInv'
    <2>1. x \in Processes
      BY Zenon DEF Processes
    <2>. QED BY Zenon, <1>2, <1>3, <2>1, TaskKeepsLease
  <1>4. ASSUME NEW x \in Processes, WorkerStart(x) \/ TaskStep(x) \/ TooEarly(x) \/ FaultyStep(x) PROVE HolderInv'
    BY Zenon, <1>2, <1>4, TaskKeepsLease, ClaimsHolders, ReleaseHolders DEF WorkerStart, TaskStep
  <1>5. ASSUME NEW p \in Payments, Verify(p) \/ Advance(p) PROVE HolderInv'
    BY Zenon, <1>1, <1>5 DEF Verify, Advance
  <1>6. CASE \/ \E m \in net, ok \in BOOLEAN : MineNext(m, ok)
             \/ BuildEmpty
             \/ \E k \in 1..(Confirmations - 1) : Reorganise(k)
    BY Zenon, <1>1, <1>6 DEF MineNext, BuildEmpty, Reorganise
  <1>7. CASE UNCHANGED vars
    BY Zenon, <1>1, <1>7 DEF vars
  <1>. QED BY Zenon, <1>3, <1>4, <1>5, <1>6, <1>7, WorldHolders DEF Next

\* No process starts at work.
LEMMA HolderInit == Init => HolderInv
  BY DEF Init, Idle, HolderInv, Working, Unleased

\* ADR-0004, leases: unless a lease overruns the work it covers, a process at
\* work on a payment holds its lease and is the only one at work on it, for
\* any number of requests and workers, crashes included.
THEOREM WorkersAreAlone ==
    ASSUME ~ LeasesOverrun
    PROVE  Spec => []HolderInv
  <1>1. PipelineInv /\ HolderInv /\ [Next]_vars => HolderInv'
    BY Zenon, HolderStep
  <1>. QED BY <1>1, KnowledgeHolds, HolderInit, PTL DEF Spec

\* So the former owner never proceeds on stale ownership.
THEOREM FormerOwnersStop ==
    ASSUME ~ LeasesOverrun
    PROVE  Spec => []LeaseExclusion
  <1>1. HolderInv => LeaseExclusion
    BY Zenon DEF HolderInv, LeaseExclusion
  <1>. QED BY <1>1, WorkersAreAlone, PTL

-----------------------------------------------------------------------------
(* Who writes the record                                                   *)

\* The steps of a process that write it, all of them under the lease.
Recording(x) ==
    \/ Retire(x) \/ PersistSigned(x) \/ RecordBroadcast(x) \/ RecordAmbiguous(x)
    \/ RecordObservation(x) \/ RecordRecovered(x) \/ RecordReplacement(x) \/ RecordLanded(x)
    \/ PrepareFiller(x) \/ RecordFiller(x)

\* The steps that write it without one.
Housekeeping ==
    \/ \E x \in Processes, p \in Payments : SettleNew(x, p)
    \/ \E p \in Payments : Verify(p)
    \/ \E expired, erased \in SUBSET Payments : Retention(expired, erased)

\* Nothing else writes it.
LEMMA WhoWrites ==
    ASSUME [Next]_vars
    PROVE  UNCHANGED storeVars \/ Housekeeping \/ \E x \in Processes : Recording(x)
  <1>1. ASSUME NEW x \in Processes, ~ Recording(x),
               BroadcastClaimed(x) \/ ConfirmationTask(x) \/ RecoveryTask(x)
        PROVE  UNCHANGED storeVars
    BY Zenon, <1>1 DEF Recording, BroadcastClaimed, BroadcastLoad, Simulate, Send, ConfirmationTask,
       ConfirmationLoad, Observe, MeasureDepth, RecoveryTask, RecoveryLoad, Lookup, Bump, ObserveReplaced,
       LandedDepth, SignFiller, ObserveFiller, OnlyReads, NetworkWrite
  <1>2. ASSUME NEW x \in Processes,
               \/ HttpClaim(x) \/ HttpReload(x) \/ HttpObserve(x) \/ HttpDepth(x) \/ HttpPersist(x)
               \/ WorkerRenew(x) \/ UnderLease(x) \/ SkipLeased(x) \/ Release(x)
        PROVE  UNCHANGED storeVars
    BY Zenon, <1>2, WaiterWritesNothing DEF HttpClaim, HttpReload, HttpObserve, HttpDepth, WorkerRenew, UnderLease,
       SkipLeased, Release, OnlyReads, LeaseWrite
  <1>3. ASSUME NEW x \in Processes, WorkerStart(x) \/ TooEarly(x) \/ FaultyStep(x) PROVE UNCHANGED storeVars
    BY Zenon, <1>3 DEF WorkerStart, WorkerClaim, ListRow, TooEarly, FaultyStep, Crash, CallFails, SendFails,
       ObserveLagging, OnlyReads, LeaseWrite
  <1>4. ASSUME NEW x \in HttpRequests, NEW p \in Payments, SettleCall(x, p)
        PROVE  UNCHANGED storeVars \/ Housekeeping
    <2>1. x \in Processes
      BY Zenon DEF Processes
    <2>. QED BY Zenon, <1>4, <2>1 DEF SettleCall, SettleDuplicate, SettleFinal, Housekeeping, OnlyReads
  <1>5. CASE \/ \E p \in Payments : Advance(p) \/ LeaseLapse(p)
             \/ \E m \in net, ok \in BOOLEAN : MineNext(m, ok)
             \/ BuildEmpty
             \/ \E k \in 1..(Confirmations - 1) : Reorganise(k)
    BY Zenon, <1>5 DEF Advance, LeaseLapse, MineNext, BuildEmpty, Reorganise
  <1>6. CASE UNCHANGED vars
    BY Zenon, <1>6 DEF vars
  <1>. QED BY Zenon, <1>1, <1>2, <1>3, <1>4, <1>5, <1>6 DEF Next, TaskStep, Housekeeping

\* Of payment p the step writes its own rows and state at most.
WritesOnly(p) ==
    /\ \A q \in Payments : q # p => payment'[q] = payment[q]
    /\ \A t \in TxIds : tx[t].pay # p /\ tx'[t].pay # p => tx'[t] = tx[t]

\* A process writes only the rows and the state of the payment it works on.
LEMMA WritersKeepToTheirPayment ==
    ASSUME PipelineInv, NEW x \in Processes, Recording(x)
    PROVE  proc[x].pc \notin Unleased /\ proc[x].pay \in Payments /\ WritesOnly(proc[x].pay)
  <1>. DEFINE p == proc[x].pay
              t == proc[x].row
  <1>1. proc[x].pc \notin Unleased
    BY Zenon DEF Recording, Retire, PersistSigned, RecordBroadcast, RecordAmbiguous, RecordObservation, RecordRecovered,
       RecordReplacement, RecordLanded, PrepareFiller, RecordFiller, At, Unleased, Final
  <1>2. p \in Payments /\ t \in TxIds /\ tx[t].pay = p
    BY HoldsRow, Zenon DEF Recording, Retire, PersistSigned, RecordBroadcast, RecordAmbiguous, RecordObservation,
       RecordRecovered, RecordReplacement, RecordLanded, PrepareFiller, RecordFiller, At, Rowless, Final
  <1>. HIDE DEF p, t
  <1>. USE <1>2, NoneAssumption DEF WritesOnly, PipelineInv, PipelineTypeOK, StoreTypeOK, TxRow, Move, SetStatus,
           RowIn, Version
  <1>3. ASSUME UNCHANGED storeVars PROVE WritesOnly(p)
    BY <1>3 DEF storeVars
  <1>4. ASSUME NEW to, NEW actor, DropIntent(p, t, to, actor) PROVE WritesOnly(p)
    BY <1>4 DEF DropIntent
  <1>5. ASSUME NEW h, MarkTxSigned(t, h) PROVE WritesOnly(p)
    BY <1>5 DEF MarkTxSigned
  <1>6. ASSUME NEW h, NEW actor, MarkTxBroadcast(p, t, h, actor) PROVE WritesOnly(p)
    BY <1>6 DEF MarkTxBroadcast
  <1>7. ASSUME NEW actor, MarkTxAmbiguous(p, t, actor) PROVE WritesOnly(p)
    BY <1>7 DEF MarkTxAmbiguous
  <1>8. ASSUME NEW actor, MarkTxReorgedOut(p, t, actor) PROVE WritesOnly(p)
    BY <1>8 DEF MarkTxReorgedOut
  <1>9. ASSUME NEW actor, MarkTxConfirming(p, t, actor) PROVE WritesOnly(p)
    BY <1>9 DEF MarkTxConfirming
  <1>10. ASSUME NEW final, NEW actor, Finalize(p, t, final, actor) PROVE WritesOnly(p)
    BY <1>10 DEF Finalize
  <1>11. ASSUME NEW h, NEW actor, MarkTxRecoveredBroadcast(p, t, h, actor) PROVE WritesOnly(p)
    BY <1>11 DEF MarkTxRecoveredBroadcast
  <1>12. ASSUME NEW n \in TxIds, NEW h, NEW actor, MarkTxAmbiguousReplaced(p, t, n, h, actor) PROVE WritesOnly(p)
    BY <1>12 DEF MarkTxAmbiguousReplaced, Replacement
  <1>13. ASSUME NEW n \in TxIds, NEW h, NEW actor, MarkTxReplaced(p, t, n, h, actor) PROVE WritesOnly(p)
    BY <1>13 DEF MarkTxReplaced, Replacement
  <1>14. ASSUME NEW n \in TxIds, NEW h, MarkGapFillerReplaced(p, t, n, h) PROVE WritesOnly(p)
    BY <1>14 DEF MarkGapFillerReplaced, Replacement
  <1>15. ASSUME NEW ok, NEW actor, MarkReplacementLanded(p, t, ok, actor) PROVE WritesOnly(p)
    BY <1>15 DEF MarkReplacementLanded, ActiveRows, Rows
  <1>16. ASSUME NEW h, MarkGapFillerPrepared(t, h) PROVE WritesOnly(p)
    BY <1>16 DEF MarkGapFillerPrepared
  <1>17. ASSUME MarkGapFillerResolved(t) PROVE WritesOnly(p)
    BY <1>17 DEF MarkGapFillerResolved, SettleFiller
  <1>18. ASSUME NEW actor, MarkGapFillerSucceeded(p, t, actor) PROVE WritesOnly(p)
    BY <1>18 DEF MarkGapFillerSucceeded, SettleFiller
  <1>19. \A n \in NewRows : n \in TxIds
    BY DEF NewRows
  <1>20. WritesOnly(p)
    <2>. USE DEF p, t, Attempt
    <2>1. CASE Retire(x) \/ PersistSigned(x) \/ RecordBroadcast(x) \/ RecordAmbiguous(x)
      BY Zenon, <1>3, <1>4, <1>5, <1>6, <1>7, <2>1 DEF Retire, PersistSigned, RecordBroadcast, RecordAmbiguous
    <2>2. CASE RecordObservation(x) \/ RecordRecovered(x)
      BY Zenon, <1>3, <1>8, <1>9, <1>10, <1>11, <2>2 DEF RecordObservation, RecordRecovered
    <2>3. CASE RecordReplacement(x)
      BY Zenon, <1>3, <1>12, <1>13, <1>14, <1>19, <2>3 DEF RecordReplacement
    <2>4. CASE RecordLanded(x) \/ PrepareFiller(x) \/ RecordFiller(x)
      BY Zenon, <1>3, <1>15, <1>16, <1>17, <1>18, <2>4 DEF RecordLanded, PrepareFiller, RecordFiller
    <2>. QED BY Zenon, <2>1, <2>2, <2>3, <2>4 DEF Recording
  <1>. QED BY Zenon, <1>1, <1>2, <1>20 DEF p

-----------------------------------------------------------------------------
(* A final state is the chain's                                            *)

\* A row's final status is never changed.
FinalRowStep == \A t \in TxIds : tx[t].status \in Final => tx'[t].status = tx[t].status

\* No method writes a row that is final.
LEMMA FinalRowsStay ==
    ASSUME StoreInv, [StoreNext]_storeVars
    PROVE  FinalRowStep
  <1>. USE NoneAssumption DEF StoreInv, StoreTypeOK, TxRow, FinalRowStep, RowsOwned, SetStatus, Version, Unused,
           RowIn, Move, Watched, Final
  <1>0. CASE UNCHANGED storeVars
    BY <1>0 DEF storeVars
  <1>1. ASSUME NEW expired \in SUBSET Payments, NEW erased \in SUBSET Payments,
               ApplyRetention(expired, erased)
        PROVE  FinalRowStep
    BY <1>1 DEF ApplyRetention
  <1>2. ASSUME NEW p \in Payments, PaymentStep(p) PROVE FinalRowStep
    BY <1>2 DEF PaymentStep, RecordVerification, CreateSettlementIntent
  <1>3. ASSUME NEW p \in Payments, NEW t \in TxIds, BroadcastStep(p, t) PROVE FinalRowStep
    BY <1>3 DEF BroadcastStep, MarkTxSigned, CanMarkTxSigned, MarkTxBroadcast, CanMarkTxBroadcast,
       MarkTxAmbiguous, CanMarkTxAmbiguous, MarkIntentUnsettleable, MarkIntentExpired, DropIntent, CanDropIntent
  <1>4. ASSUME NEW p \in Payments, NEW t \in TxIds, ConfirmationStep(p, t) PROVE FinalRowStep
    BY <1>4 DEF ConfirmationStep, MarkTxConfirming, MarkTxReorgedOut, CanMarkTxReorgedOut, MarkTxConfirmed,
       MarkTxReverted, Finalize, CanFinalize
  <1>5. ASSUME NEW p \in Payments, NEW t \in TxIds, RecoveryStep(p, t) PROVE FinalRowStep
    <2>1. CASE MarkTxRecoveredBroadcast(p, t, tx[t].raw, "worker")
      BY <2>1 DEF MarkTxRecoveredBroadcast, CanMarkTxRecoveredBroadcast
    <2>2. ASSUME NEW n \in TxIds, NEW h \in FreshHashes, MarkTxAmbiguousReplaced(p, t, n, h, "worker")
          PROVE  FinalRowStep
      BY <2>2 DEF MarkTxAmbiguousReplaced, CanMarkTxAmbiguousReplaced, Replacement
    <2>3. ASSUME NEW n \in TxIds, NEW h \in FreshHashes, MarkTxReplaced(p, t, n, h, "worker")
          PROVE  FinalRowStep
      BY <2>3 DEF MarkTxReplaced, CanMarkTxReplaced, Replacement
    <2>4. ASSUME NEW ok \in BOOLEAN, MarkReplacementLanded(p, t, ok, "worker") PROVE FinalRowStep
      BY <2>4 DEF MarkReplacementLanded, CanMarkReplacementLanded, ActiveRows, Rows, Active, ActiveStatuses
    <2>. QED BY Zenon, <1>5, <2>1, <2>2, <2>3, <2>4 DEF RecoveryStep
  <1>6. ASSUME NEW p \in Payments, NEW t \in TxIds, GapFillerStep(p, t) PROVE FinalRowStep
    BY <1>6 DEF GapFillerStep, MarkGapFillerPrepared, CanMarkGapFillerPrepared, MarkGapFillerReplaced,
       CanMarkGapFillerReplaced, Replacement, MarkGapFillerResolved, CanMarkGapFillerResolved,
       MarkGapFillerSucceeded, CanMarkGapFillerSucceeded, SettleFiller
  <1>7. ASSUME NEW seed \in Seeds, SeedSignerAccount(seed) PROVE FinalRowStep
    BY <1>7 DEF SeedSignerAccount
  <1>. QED BY Zenon, <1>0, <1>1, <1>2, <1>3, <1>4, <1>5, <1>6, <1>7 DEF StoreNext

\* What is buried stays, and so does every receipt while the chain only grows.
Buried == \A r, h : OnChain(r, h) => OnChain(r, h)'
Grows == \A r, h : r \in Receipts(h) => r \in Receipts(h)'

\* A block on top buries what is below it.
LEMMA BlocksBury ==
    ASSUME WorldTypeOK, NEW b, chain' = Append(chain, b)
    PROVE  Buried /\ Grows
  <1>. DEFINE Block == [gen : Nat, h : Hashes \cup {Empty}, ok : BOOLEAN]
  <1>1. chain \in Seq(Block)
    BY DEF WorldTypeOK
  <1>. HIDE DEF Block
  <1>2. Len(chain') = Len(chain) + 1 /\ Len(chain) \in Nat /\ \A i \in 1..Len(chain) : chain'[i] = chain[i]
    BY <1>1
  <1>3. \A i, h : i \in MinedAt(h) => i \in 1..Len(chain) /\ i \in MinedAt(h)' /\ chain'[i] = chain[i]
    BY <1>2 DEF MinedAt
  <1>4. Grows
    BY Zenon, <1>3 DEF Grows, Receipts
  <1>5. ASSUME NEW r, NEW h, r \in Receipts(h) PROVE Depth(r) >= Confirmations => Depth(r)' >= Confirmations
    <2>1. r.n \in 1..Len(chain)
      BY <1>3, <1>5 DEF Receipts
    <2>. QED BY <1>2, <2>1, ConfirmationsAssumption DEF Depth
  <1>. QED BY Zenon, <1>4, <1>5 DEF Buried, Grows, OnChain

\* A reorganisation does not reach what is buried deep enough.
LEMMA ReorgsAreShallow ==
    ASSUME WorldTypeOK, NEW k, Reorg(k)
    PROVE  Buried
  <1>. DEFINE Block == [gen : Nat, h : Hashes \cup {Empty}, ok : BOOLEAN]
              b == [gen |-> reorgs + 1, h |-> Empty, ok |-> FALSE]
  <1>1. chain \in Seq(Block)
    BY DEF WorldTypeOK
  <1>2. /\ k \in 1..Len(chain) /\ k < Confirmations
        /\ chain' = [i \in 1..Len(chain) |-> IF i <= Len(chain) - k THEN chain[i] ELSE b]
    BY Zenon DEF Reorg
  <1>. HIDE DEF Block, b
  <1>3. Len(chain) \in Nat /\ Len(chain') = Len(chain) /\ \A i \in 1..Len(chain) : i <= Len(chain) - k => chain'[i] = chain[i]
    BY <1>1, <1>2
  <1>4. ASSUME NEW i \in 1..Len(chain), NEW h, i \in MinedAt(h), Len(chain) - i + 1 >= Confirmations
        PROVE  i \in MinedAt(h)' /\ chain'[i] = chain[i]
    BY <1>2, <1>3, <1>4, ConfirmationsAssumption DEF MinedAt
  <1>5. ASSUME NEW r, NEW h, OnChain(r, h) PROVE OnChain(r, h)'
    <2>1. PICK i \in MinedAt(h) : r = [n |-> i, gen |-> chain[i].gen, ok |-> chain[i].ok]
      BY Zenon, <1>5 DEF OnChain, Receipts
    <2>2. i \in 1..Len(chain)
      BY <2>1 DEF MinedAt
    <2>3. r.n = i
      BY <2>1
    <2>4. Len(chain) - i + 1 >= Confirmations
      BY <1>3, <1>5, <2>2, <2>3 DEF OnChain, Depth
    <2>5. i \in MinedAt(h)' /\ chain'[i] = chain[i]
      BY Zenon, <1>4, <2>1, <2>2, <2>4
    <2>6. r \in Receipts(h)'
      BY Zenon, <2>1, <2>5 DEF Receipts
    <2>7. Depth(r)' >= Confirmations
      BY <1>3, <2>2, <2>3, <2>4 DEF Depth
    <2>. QED BY Zenon, <2>6, <2>7 DEF OnChain
  <1>. QED BY Zenon, <1>5 DEF Buried

\* A chain that stays keeps all of it.
LEMMA StillChainKeeps ==
    ASSUME UNCHANGED chain
    PROVE  Buried /\ Grows
  <1>1. \A r, h : Receipts(h)' = Receipts(h) /\ Depth(r)' = Depth(r)
    BY Zenon DEF Receipts, MinedAt, Depth
  <1>. QED BY Zenon, <1>1 DEF Buried, Grows, OnChain

\* No process touches the chain.
LEMMA ProcessesBuildNothing ==
    ASSUME NEW x \in Processes,
           \/ \E p \in Payments : SettleCall(x, p)
           \/ WorkerStart(x) \/ TaskStep(x) \/ TooEarly(x) \/ FaultyStep(x)
    PROVE  UNCHANGED chain
  <1>1. CASE BroadcastClaimed(x) \/ ConfirmationTask(x)
    BY <1>1, Zenon DEF BroadcastClaimed, BroadcastLoad, Simulate, Retire, PersistSigned, Send, RecordBroadcast,
       RecordAmbiguous, ConfirmationTask, ConfirmationLoad, Observe, MeasureDepth, RecordObservation,
       OnlyReads, StoreWrite, chainVars, Accept
  <1>2. CASE RecoveryTask(x)
    BY <1>2, Zenon DEF RecoveryTask, RecoveryLoad, Lookup, RecordRecovered, RecordReplacement, Bump,
       ObserveReplaced, LandedDepth, RecordLanded, SignFiller, PrepareFiller, ObserveFiller, RecordFiller,
       OnlyReads, StoreWrite, chainVars
  <1>3. CASE \/ HttpClaim(x) \/ HttpReload(x) \/ HttpObserve(x) \/ HttpDepth(x) \/ HttpPersist(x)
             \/ WorkerRenew(x) \/ UnderLease(x) \/ SkipLeased(x) \/ Release(x)
    BY <1>3, Zenon DEF HttpClaim, HttpReload, HttpObserve, HttpDepth, HttpPersist, WorkerRenew, UnderLease,
       SkipLeased, Release, OnlyReads, LeaseWrite, chainVars
  <1>4. CASE WorkerStart(x) \/ TooEarly(x) \/ FaultyStep(x)
    BY <1>4, Zenon DEF WorkerStart, WorkerClaim, ListRow, TooEarly, FaultyStep, Crash, CallFails, SendFails,
       ObserveLagging, OnlyReads, LeaseWrite, chainVars, Accept, Lose
  <1>5. CASE \E p \in Payments : SettleCall(x, p)
    BY <1>5, Zenon DEF SettleCall, SettleNew, SettleDuplicate, SettleFinal, StoreWrite, OnlyReads, chainVars
  <1>. QED BY Zenon, <1>1, <1>2, <1>3, <1>4, <1>5 DEF TaskStep

\* Every step keeps what is buried, and every receipt a process may be reading.
LEMMA ChainSteps ==
    ASSUME PipelineInv, ~ ReadsRace, [Next]_vars
    PROVE  Buried /\ (Grows \/ (proc' = proc /\ \A x \in Processes : ~ Reading(x)))
  <1>0. WorldTypeOK
    BY Zenon DEF PipelineInv, PipelineTypeOK
  <1>1. ASSUME UNCHANGED chain PROVE Buried /\ Grows
    BY Zenon, <1>1, StillChainKeeps
  <1>2. ASSUME NEW x \in HttpRequests, NEW p \in Payments, SettleCall(x, p) PROVE UNCHANGED chain
    <2>1. x \in Processes
      BY Zenon DEF Processes
    <2>. QED BY Zenon, <1>2, <2>1, ProcessesBuildNothing
  <1>3. ASSUME NEW p \in Payments, Verify(p) \/ Advance(p) \/ LeaseLapse(p) PROVE UNCHANGED chain
    BY <1>3 DEF Verify, Advance, LeaseLapse, chainVars
  <1>4. ASSUME NEW expired, NEW erased, Retention(expired, erased) PROVE UNCHANGED chain
    BY <1>4 DEF Retention, chainVars
  <1>5. CASE UNCHANGED vars
    BY Zenon, <1>1, <1>5 DEF vars, chainVars
  <1>6. CASE (\E m \in net, ok \in BOOLEAN : MineNext(m, ok)) \/ BuildEmpty
    BY Zenon, <1>0, <1>6, BlocksBury DEF MineNext, Mine, BuildEmpty, EmptyBlock
  <1>7. CASE \E k \in 1..(Confirmations - 1) : Reorganise(k)
    BY Zenon, <1>0, <1>7, ReorgsAreShallow DEF Reorganise
  <1>. QED BY Zenon, <1>1, <1>2, <1>3, <1>4, <1>5, <1>6, <1>7, ProcessesBuildNothing DEF Next

\* A process that keeps its place keeps its receipt.
LEMMA ReceiptStays ==
    ASSUME NEW x \in Processes, proc'[x] = proc[x], KnowsReceipt(x), Buried, Grows \/ ~ Reading(x)
    PROVE  KnowsReceipt(x)'
  <1>1. PICK r, h : r = proc[x].rcpt /\ h = proc[x].hash
    BY Zenon
  <1>2. r = proc'[x].rcpt /\ h = proc'[x].hash
    BY Zenon, <1>1
  <1>3. (r \in Receipts(h) /\ Reading(x) => r \in Receipts(h)') /\ (OnChain(r, h) => OnChain(r, h)')
    BY Zenon DEF Grows, Buried
  <1>4. /\ At(x, "depth") => r \in Receipts(h)
        /\ At(x, "landed_depth") => r \in Receipts(h) /\ ~ r.ok
        /\ proc[x].pc \in Final => OnChain(r, h) /\ r.ok = At(x, "confirmed")
        /\ At(x, "land") /\ ~ r.ok => OnChain(r, h)
    BY Zenon, <1>1 DEF KnowsReceipt
  <1>5. At(x, "depth") \/ At(x, "landed_depth") => Reading(x)
    BY DEF At, Reading
  <1>6. /\ At(x, "depth")' => r \in Receipts(h)'
        /\ At(x, "landed_depth")' => r \in Receipts(h)' /\ ~ r.ok
        /\ proc'[x].pc \in Final => OnChain(r, h)' /\ r.ok = At(x, "confirmed")'
        /\ At(x, "land")' /\ ~ r.ok => OnChain(r, h)'
    BY Zenon, <1>3, <1>4, <1>5 DEF At
  <1>. QED BY Zenon, <1>2, <1>6 DEF KnowsReceipt, Final

\* A process that has no verdict needs no receipt.
LEMMA UnsightedKnowsReceipt ==
    ASSUME NEW x \in Processes, proc'[x].pc \notin Sighted
    PROVE  KnowsReceipt(x)'
  BY DEF KnowsReceipt, At, Sighted, Final

\* The chain has a length.
LEMMA ChainLength ==
    ASSUME PipelineInv
    PROVE  Len(chain) \in Nat
  <1>. DEFINE Block == [gen : Nat, h : Hashes \cup {Empty}, ok : BOOLEAN]
  <1>1. chain \in Seq(Block)
    BY Zenon DEF PipelineInv, PipelineTypeOK, WorldTypeOK
  <1>. HIDE DEF Block
  <1>. QED BY <1>1

\* What a process has just read of the chain is so.
LEMMA SightingsKnowReceipts ==
    ASSUME PipelineInv, NEW x \in Processes, KnowsReceipt(x), Looks(x)
    PROVE  KnowsReceipt(x)'
  <1>1. UNCHANGED chain
    BY Zenon DEF Looks, ConfirmationLoad, Observe, ObserveLagging, MeasureDepth, ObserveReplaced, LandedDepth,
       OnlyReads, chainVars
  <1>2. \A r, h : Receipts(h)' = Receipts(h) /\ OnChain(r, h)' = OnChain(r, h)
    BY <1>1 DEF OnChain, Receipts, MinedAt, Depth
  <1>3. ASSUME GiveUp(x) PROVE KnowsReceipt(x)'
    <2>1. proc[x].pc \in {"load", "observe", "depth", "landed", "landed_depth"}
      BY Zenon DEF Looks, ConfirmationLoad, Observe, ObserveLagging, MeasureDepth, ObserveReplaced, LandedDepth, At
    <2>2. proc[x].pc \notin Unleased
      BY <2>1 DEF Unleased
    <2>. QED BY Zenon, <1>3, <2>2, LeavePlain, UnsightedKnowsReceipt DEF Plain
  <1>4. ASSUME NEW pc, Goto(x, pc)
        PROVE  proc'[x].pc = pc /\ proc'[x].rcpt = proc[x].rcpt /\ proc'[x].hash = proc[x].hash
    BY <1>4, TakeEffect, TaskTypes DEF Goto, Task
  <1>5. ASSUME NEW r, NEW pc, Take(x, [proc[x] EXCEPT !.pc = pc, !.rcpt = r])
        PROVE  proc'[x].pc = pc /\ proc'[x].rcpt = r /\ proc'[x].hash = proc[x].hash
    <2>. DEFINE task == [proc[x] EXCEPT !.pc = pc, !.rcpt = r]
    <2>1. task.pc = pc /\ task.rcpt = r /\ task.hash = proc[x].hash
      BY TaskTypes DEF Task
    <2>. QED BY Zenon, <1>5, <2>1, TakeEffect
  <1>6. CASE Observe(x) \/ ObserveLagging(x)
    <2>1. CASE Goto(x, "reorged")
      <3>1. proc'[x].pc = "reorged"
        BY Zenon, <1>4, <2>1
      <3>2. proc'[x].pc \notin Sighted
        BY <3>1 DEF Sighted
      <3>. QED BY Zenon, <3>2, UnsightedKnowsReceipt
    <2>2. ASSUME NEW r \in Receipts(proc[x].hash), Take(x, [proc[x] EXCEPT !.pc = "depth", !.rcpt = r])
          PROVE  KnowsReceipt(x)'
      <3>1. proc'[x].pc = "depth" /\ proc'[x].rcpt = r /\ proc'[x].hash = proc[x].hash
        BY Zenon, <1>5, <2>2
      <3>2. r \in Receipts(proc[x].hash)
        OBVIOUS
      <3>3. (proc[x].rcpt \in Receipts(proc[x].hash))'
        <4>1. PICK h : h = proc[x].hash
          BY Zenon
        <4>2. r \in Receipts(h)' /\ h = proc'[x].hash
          BY Zenon, <1>2, <3>1, <3>2, <4>1
        <4>. QED BY Zenon, <3>1, <4>2
      <3>4. At(x, "depth")' /\ ~ At(x, "landed_depth")' /\ ~ At(x, "land")' /\ proc'[x].pc \notin {"confirmed", "reverted"}
        BY <3>1 DEF At
      <3>. QED BY Zenon, <3>3, <3>4 DEF KnowsReceipt, Final
    <2>. QED BY Zenon, <1>3, <1>6, <2>1, <2>2 DEF Observe, ObserveLagging
  <1>7. PICK r, h : r = proc[x].rcpt /\ h = proc[x].hash
    BY Zenon
  <1>8. CASE MeasureDepth(x)
    <2>. DEFINE pc == IF Depth(r) < Confirmations THEN "confirming"
                      ELSE IF r.ok THEN "confirmed" ELSE "reverted"
    <2>1. proc'[x].pc = pc /\ proc'[x].rcpt = r /\ proc'[x].hash = h
      BY <1>4, <1>7, <1>8 DEF MeasureDepth
    <2>2. r \in Receipts(h) /\ r.ok \in BOOLEAN /\ Depth(r) \in Int
      <3>1. r \in Receipts(h)
        BY Zenon, <1>7, <1>8 DEF MeasureDepth, KnowsReceipt
      <3>2. r \in Receipt
        BY Zenon, <3>1, ReceiptTypes DEF PipelineInv, PipelineTypeOK
      <3>3. Len(chain) \in Nat
        BY Zenon, ChainLength
      <3>. QED BY <3>1, <3>2, <3>3 DEF Receipt, Depth
    <2>3. pc \in Final => OnChain(r, h) /\ r.ok = (pc = "confirmed")
      BY <2>2, ConfirmationsAssumption DEF Final, OnChain
    <2>4. pc \in {"confirming", "confirmed", "reverted"}
      OBVIOUS
    <2>. HIDE DEF pc
    <2>5. proc'[x].pc \in Final => OnChain(r, h)' /\ r.ok = At(x, "confirmed")'
      BY Zenon, <1>2, <2>1, <2>3 DEF At
    <2>6. ~ At(x, "depth")' /\ ~ At(x, "landed_depth")' /\ ~ At(x, "land")'
      BY <2>1, <2>4 DEF At
    <2>. QED BY Zenon, <2>1, <2>5, <2>6 DEF KnowsReceipt, Final
  <1>9. CASE ObserveReplaced(x)
    <2>1. ASSUME NEW s \in Receipts(h),
                 Take(x, [proc[x] EXCEPT !.pc = IF s.ok THEN "land" ELSE "landed_depth", !.rcpt = s])
          PROVE  KnowsReceipt(x)'
      <3>. DEFINE pc == IF s.ok THEN "land" ELSE "landed_depth"
      <3>1. proc'[x].pc = pc /\ proc'[x].rcpt = s /\ proc'[x].hash = h
        BY Zenon, <1>5, <1>7, <2>1
      <3>2. s \in Receipts(h)'
        BY Zenon, <1>2
      <3>3. (s.ok => pc = "land") /\ (~ s.ok => pc = "landed_depth")
        BY Zenon
      <3>. HIDE DEF pc
      <3>4. ~ At(x, "depth")' /\ proc'[x].pc \notin {"confirmed", "reverted"} /\ ~ (At(x, "land")' /\ ~ s.ok)
            /\ (At(x, "landed_depth")' => ~ s.ok)
        BY <3>1, <3>3 DEF At
      <3>. QED BY Zenon, <3>1, <3>2, <3>4 DEF KnowsReceipt, Final
    <2>. QED BY Zenon, <1>3, <1>7, <1>9, <2>1 DEF ObserveReplaced
  <1>10. CASE LandedDepth(x)
    <2>1. ASSUME Goto(x, "land"), ~ (Depth(r) < Confirmations) PROVE KnowsReceipt(x)'
      <3>1. proc'[x].pc = "land" /\ proc'[x].rcpt = r /\ proc'[x].hash = h
        BY <1>4, <1>7, <2>1
      <3>2. r \in Receipts(h)
        BY Zenon, <1>7, <1>10 DEF LandedDepth, KnowsReceipt
      <3>3. Depth(r) \in Int
        <4>1. r \in Receipt
          BY Zenon, <3>2, ReceiptTypes DEF PipelineInv, PipelineTypeOK
        <4>2. Len(chain) \in Nat
          BY Zenon, ChainLength
        <4>. QED BY <4>1, <4>2 DEF Receipt, Depth
      <3>4. OnChain(r, h)
        BY <2>1, <3>2, <3>3, ConfirmationsAssumption DEF OnChain
      <3>5. OnChain(r, h)'
        BY Zenon, <1>2, <3>4
      <3>6. ~ At(x, "depth")' /\ ~ At(x, "landed_depth")' /\ proc'[x].pc \notin {"confirmed", "reverted"}
        BY <3>1 DEF At
      <3>. QED BY Zenon, <3>1, <3>5, <3>6 DEF KnowsReceipt, Final
    <2>. QED BY Zenon, <1>3, <1>7, <1>10, <2>1 DEF LandedDepth
  <1>11. CASE ConfirmationLoad(x)
    <2>1. ASSUME NEW t, NEW g, NEW s, Take(x, [proc[x] EXCEPT !.pc = "observe", !.row = t, !.hash = g, !.task = s])
          PROVE  KnowsReceipt(x)'
      <3>. DEFINE task == [proc[x] EXCEPT !.pc = "observe", !.row = t, !.hash = g, !.task = s]
      <3>1. task.pc \notin Sighted
        BY TaskTypes DEF Task, Sighted
      <3>. QED BY Zenon, <2>1, <3>1, TakeEffect, UnsightedKnowsReceipt
    <2>. QED BY Zenon, <1>3, <1>11, <2>1 DEF ConfirmationLoad
  <1>. QED BY Zenon, <1>6, <1>8, <1>9, <1>10, <1>11 DEF Looks

\* Claims sight nothing.
LEMMA ClaimsUnsighted ==
    ASSUME PipelineInv, NEW x \in Processes,
           HttpClaim(x) \/ UnderLease(x) \/ \E p \in Payments : WorkerClaim(x, p)
    PROVE  proc'[x].pc \notin Sighted \cup Looking /\ \A y \in Processes : y # x => proc'[y] = proc[y]
  <1>. USE TaskTypes DEF Task, Sighted, Looking
  <1>1. ASSUME NEW pc \in {"load", "reload", "landed", "fill", "filler_bump", "filler"}, Goto(x, pc)
        PROVE  proc'[x].pc \notin Sighted \cup Looking /\ \A y \in Processes : y # x => proc'[y] = proc[y]
    BY <1>1, TakeEffect DEF Goto
  <1>2. ASSUME NEW p \in Payments, WorkerClaim(x, p)
        PROVE  proc'[x].pc \notin Sighted \cup Looking /\ \A y \in Processes : y # x => proc'[y] = proc[y]
    <2>1. [Idle EXCEPT !.pc = "renew", !.pay = p].pc = "renew"
      BY DEF Idle
    <2>2. proc'[x].pc = "renew" /\ \A y \in Processes : y # x => proc'[y] = proc[y]
      BY Zenon, <1>2, <2>1, TakeEffect DEF WorkerClaim
    <2>. QED BY <2>2
  <1>3. HttpClaim(x) \/ UnderLease(x)
          => \E pc \in {"load", "reload", "landed", "fill", "filler_bump", "filler"} : Goto(x, pc)
    BY DEF HttpClaim, UnderLease
  <1>. QED BY Zenon, <1>1, <1>2, <1>3

\* Every step of a process is plain, a claim, or a sighting.
LEMMA TaskSightings ==
    ASSUME PipelineInv, NEW x \in Processes,
           \/ \E p \in Payments : SettleCall(x, p)
           \/ WorkerStart(x) \/ TaskStep(x) \/ TooEarly(x) \/ FaultyStep(x)
    PROVE  \/ proc' = proc
           \/ proc'[x].pc \notin Sighted \cup Looking /\ \A y \in Processes : y # x => proc'[y] = proc[y]
           \/ Looks(x) /\ \A y \in Processes : y # x => proc'[y] = proc[y]
  BY Zenon, HttpPlain, BroadcastPlain, RecoveryPlain, UnleasedPlain, SightingsOnward, ClaimsUnsighted
     DEF SettleCall, SettleFinal, WorkerStart, TaskStep, FaultyStep, ConfirmationTask, RecoveryTask, Looks,
         Plain, Onward

\* A step keeps every receipt known, unless reorganisations race with reads.
LEMMA ReceiptStep ==
    ASSUME PipelineInv, ReceiptInv, ~ ReadsRace, [Next]_vars
    PROVE  ReceiptInv'
  <1>1. ASSUME proc' = proc PROVE ReceiptInv'
    BY Zenon, <1>1, ReceiptStays, ChainSteps DEF ReceiptInv
  <1>2. ASSUME NEW x \in Processes,
               \/ \E p \in Payments : SettleCall(x, p)
               \/ WorkerStart(x) \/ TaskStep(x) \/ TooEarly(x) \/ FaultyStep(x)
        PROVE  ReceiptInv'
    <2>1. Buried /\ Grows
      BY Zenon, <1>2, ProcessesBuildNothing, StillChainKeeps
    <2>2. ASSUME NEW y \in Processes, proc'[y] = proc[y] PROVE KnowsReceipt(y)'
      BY Zenon, <2>1, <2>2, ReceiptStays DEF ReceiptInv
    <2>3. KnowsReceipt(x)' \/ proc' = proc
      BY Zenon, <1>2, TaskSightings, UnsightedKnowsReceipt, SightingsKnowReceipts DEF ReceiptInv
    <2>. QED BY Zenon, <1>1, <1>2, <2>2, <2>3, TaskSightings DEF ReceiptInv
  <1>3. ASSUME NEW x \in HttpRequests, NEW p \in Payments, SettleCall(x, p) PROVE ReceiptInv'
    <2>1. x \in Processes
      BY Zenon DEF Processes
    <2>. QED BY Zenon, <1>2, <1>3, <2>1
  <1>4. CASE \/ \E p \in Payments : Verify(p) \/ Advance(p) \/ LeaseLapse(p)
             \/ \E expired, erased \in SUBSET Payments : Retention(expired, erased)
             \/ \E m \in net, ok \in BOOLEAN : MineNext(m, ok)
             \/ BuildEmpty
             \/ \E k \in 1..(Confirmations - 1) : Reorganise(k)
    BY Zenon, <1>1, <1>4 DEF Verify, Advance, LeaseLapse, Retention, MineNext, BuildEmpty, Reorganise
  <1>5. CASE UNCHANGED vars
    BY Zenon, <1>1, <1>5 DEF vars
  <1>. QED BY Zenon, <1>2, <1>3, <1>4, <1>5 DEF Next

\* A payment enters confirming, or becomes final, by what is recorded of a
\* look at the chain and by nothing else.
LEMMA WhoConcludes ==
    ASSUME PipelineInv, [Next]_vars, NEW p \in Payments, payment'[p] # payment[p],
           payment'[p] \in Final \cup {"confirming"}
    PROVE  \E x \in Processes : /\ p = proc[x].pay /\ ~ UNCHANGED storeVars
                                /\ RecordObservation(x) \/ RecordLanded(x)
  <1>. USE DEF PipelineInv, PipelineTypeOK, StoreTypeOK, Final, Move
  <1>2. ~ UNCHANGED storeVars
    BY DEF storeVars
  <1>3. ~ Housekeeping
    BY Zenon DEF Housekeeping, SettleNew, CreateSettlementIntent, Verify, RecordVerification, Retention, ApplyRetention
  <1>4. PICK x \in Processes : Recording(x)
    BY Zenon, <1>2, <1>3, WhoWrites
  <1>5. p = proc[x].pay
    BY Zenon, <1>4, WritersKeepToTheirPayment DEF WritesOnly
  <1>6. ~ (Retire(x) \/ PersistSigned(x) \/ RecordBroadcast(x) \/ RecordAmbiguous(x) \/ RecordRecovered(x))
    <2>1. ~ Retire(x)
      BY <1>2, <1>5 DEF Retire, Attempt, DropIntent
    <2>2. ~ (PersistSigned(x) \/ RecordBroadcast(x) \/ RecordAmbiguous(x) \/ RecordRecovered(x))
      BY <1>2, <1>5, Zenon DEF PersistSigned, RecordBroadcast, RecordAmbiguous, RecordRecovered, Attempt,
         MarkTxSigned, MarkTxBroadcast, MarkTxAmbiguous, MarkTxRecoveredBroadcast
    <2>. QED BY Zenon, <2>1, <2>2
  <1>7. ~ (RecordReplacement(x) \/ PrepareFiller(x) \/ RecordFiller(x))
    <2>1. ~ RecordReplacement(x)
      BY <1>2, <1>5, Zenon DEF RecordReplacement, MarkTxAmbiguousReplaced, MarkTxReplaced, MarkGapFillerReplaced
    <2>2. ~ PrepareFiller(x)
      BY <1>2, <1>5, Zenon DEF PrepareFiller, Attempt, MarkGapFillerPrepared
    <2>3. ~ RecordFiller(x)
      BY <1>2, <1>5 DEF RecordFiller, Attempt, MarkGapFillerResolved, MarkGapFillerSucceeded
    <2>. QED BY Zenon, <2>1, <2>2, <2>3
  <1>. QED BY Zenon, <1>2, <1>4, <1>5, <1>6, <1>7 DEF Recording

\* Process x records the verdict it has reached on the row it holds.
Verdict(x, final) ==
    LET p == proc[x].pay
        t == proc[x].row IN
    \/ At(x, final) /\ Finalize(p, t, final, "worker")
    \/ At(x, "land") /\ ~ proc[x].rcpt.ok /\ final = "reverted" /\ MarkReplacementLanded(p, t, FALSE, "worker")

\* A payment becomes final by a verdict and by nothing else.
LEMMA WhoFinalises ==
    ASSUME PipelineInv, [Next]_vars, NEW p \in Payments, payment[p] \notin Final, payment'[p] \in Final
    PROVE  \E x \in Processes : p = proc[x].pay /\ Verdict(x, payment'[p])
  <1>. USE DEF PipelineInv, PipelineTypeOK, StoreTypeOK, Final, Move
  <1>1. payment'[p] # payment[p]
    BY Zenon
  <1>2. PICK x \in Processes : /\ p = proc[x].pay /\ ~ UNCHANGED storeVars
                               /\ RecordObservation(x) \/ RecordLanded(x)
    BY Zenon, <1>1, WhoConcludes
  <1>3. CASE RecordObservation(x)
    <2>1. ~ MarkTxReorgedOut(p, proc[x].row, "worker")
      BY DEF MarkTxReorgedOut
    <2>2. ~ MarkTxConfirming(p, proc[x].row, "worker")
      BY DEF MarkTxConfirming
    <2>3. PICK final \in Final : At(x, final) /\ Finalize(p, proc[x].row, final, "worker")
      BY Zenon, <1>2, <1>3, <2>1, <2>2 DEF RecordObservation, Attempt
    <2>4. payment'[p] = final
      BY <2>3 DEF Finalize
    <2>. QED BY Zenon, <1>2, <2>3, <2>4 DEF Verdict
  <1>4. CASE RecordLanded(x)
    <2>1. MarkReplacementLanded(p, proc[x].row, proc[x].rcpt.ok, "worker") /\ At(x, "land")
      BY Zenon, <1>2, <1>4 DEF RecordLanded, Attempt
    <2>2. payment'[p] = "reverted" /\ ~ proc[x].rcpt.ok
      BY <2>1 DEF MarkReplacementLanded
    <2>3. proc[x].rcpt.ok = FALSE
      BY <2>2, TaskTypes DEF Task, Receipt
    <2>. QED BY Zenon, <1>2, <2>1, <2>2, <2>3 DEF Verdict
  <1>. QED BY Zenon, <1>2, <1>3, <1>4

\* Row t makes payment p final: it was mined with that outcome, deep enough.
Settles(t, p) ==
    /\ t \in Rows(p) /\ tx[t].status = payment[p]
    /\ \E r : OnChain(r, tx[t].hash) /\ r.ok = (payment[p] = "confirmed")

\* FinalIsOnChain says that every final payment has such a row.
LEMMA FinalMeansSettled ==
    FinalIsOnChain <=> \A p \in Payments : payment[p] \in Final => \E t \in TxIds : Settles(t, p)
  <1>1. ASSUME NEW p \in Payments, NEW t \in Rows(p), tx[t].status = payment[p],
               NEW r \in Receipts(tx[t].hash), r.ok = (payment[p] = "confirmed"), Depth(r) >= Confirmations
        PROVE  t \in TxIds /\ Settles(t, p)
    BY Zenon, <1>1 DEF Settles, OnChain, Rows
  <1>2. ASSUME NEW p \in Payments, NEW t \in TxIds, Settles(t, p)
        PROVE  /\ t \in Rows(p) /\ tx[t].status = payment[p]
               /\ \E r \in Receipts(tx[t].hash) : r.ok = (payment[p] = "confirmed") /\ Depth(r) >= Confirmations
    BY Zenon, <1>2 DEF Settles, OnChain
  <1>3. FinalIsOnChain => \A p \in Payments : payment[p] \in Final => \E t \in TxIds : Settles(t, p)
    BY Zenon, <1>1 DEF FinalIsOnChain
  <1>4. (\A p \in Payments : payment[p] \in Final => \E t \in TxIds : Settles(t, p)) => FinalIsOnChain
    BY Zenon, <1>2 DEF FinalIsOnChain
  <1>. QED BY Zenon, <1>3, <1>4

\* A row that settles its payment goes on doing so.
LEMMA SettlementStays ==
    ASSUME PipelineInv, [StoreNext]_storeVars, Buried, NEW p \in Payments, payment[p] \in Final,
           NEW t \in TxIds, Settles(t, p)
    PROVE  Settles(t, p)' /\ payment'[p] = payment[p]
  <1>1. RecordStep /\ FinalRowStep
    BY Zenon, RecordSteps, FinalRowsStay DEF PipelineInv
  <1>2. payment'[p] = payment[p]
    BY Zenon, <1>1 DEF RecordStep, OneWayStep
  <1>3. tx[t].pay = p /\ p # None
    BY Zenon, NoneAssumption DEF Settles, Rows
  <1>4. tx[t].hash # None
    BY NoneAssumption DEF Settles, PipelineInv, StoreInv, HandleRecorded, Final, Unused
  <1>5. tx'[t].pay = p /\ tx'[t].hash = tx[t].hash /\ tx'[t].status = tx[t].status
    BY Zenon, <1>1, <1>3, <1>4 DEF RecordStep, RowStep, WatchedHashStep, FinalRowStep, Settles
  <1>6. PICK r, h : h = tx[t].hash /\ OnChain(r, h) /\ r.ok = (payment[p] = "confirmed")
    BY Zenon DEF Settles
  <1>7. OnChain(r, h)' /\ h = tx'[t].hash
    BY Zenon, <1>5, <1>6 DEF Buried
  <1>. QED BY Zenon, <1>2, <1>5, <1>6, <1>7 DEF Settles, Rows

\* A verdict settles.
LEMMA VerdictSettles ==
    ASSUME PipelineInv, NEW x \in Processes, KnowsReceipt(x), Buried, NEW final \in Final, Verdict(x, final),
           [StoreNext]_storeVars, NEW p \in Payments, p = proc[x].pay, payment'[p] = final
    PROVE  \E t \in TxIds : Settles(t, p)'
  <1>1. PICK t \in TxIds : t = proc[x].row /\ tx[t].pay = p
    BY HoldsRow, Zenon DEF Verdict, At, Rowless, Final
  <1>2. Observing(x) /\ (At(x, final) \/ (At(x, "land") /\ ~ proc[x].rcpt.ok /\ final = "reverted"))
    BY Zenon DEF Verdict, Observing, At, Final
  <1>3. PICK r, h : r = proc[x].rcpt /\ h = proc[x].hash
    BY Zenon
  <1>4. h # None /\ tx[t].hash = h /\ payment[p] \in Watched \cup Final
    BY Zenon, <1>1, <1>2, <1>3 DEF PipelineInv, Knows, KnowsWatched
  <1>5. r.ok \in BOOLEAN
    BY <1>3, TaskTypes, Zenon DEF Task, Receipt
  <1>6. OnChain(r, h) /\ r.ok = (final = "confirmed")
    BY <1>2, <1>3, <1>5, Zenon DEF KnowsReceipt, At, Final
  <1>7. OnChain(r, h)'
    BY Zenon, <1>6 DEF Buried
  <1>8. RecordStep
    BY Zenon, RecordSteps DEF PipelineInv
  <1>9. tx'[t].pay = p /\ tx'[t].hash = h
    BY Zenon, <1>1, <1>4, <1>8, NoneAssumption DEF RecordStep, RowStep, WatchedHashStep
  <1>10. tx'[t].status = final
    <2>1. SetStatus(t, final) \/ (final = "reverted" /\ MarkReplacementLanded(p, t, FALSE, "worker"))
      BY Zenon, <1>1 DEF Verdict, Finalize
    <2>2. tx \in [TxIds -> TxRow]
      BY Zenon DEF PipelineInv, PipelineTypeOK, StoreTypeOK
    <2>3. CASE SetStatus(t, final)
      BY <2>2, <2>3 DEF SetStatus, TxRow
    <2>4. CASE final = "reverted" /\ MarkReplacementLanded(p, t, FALSE, "worker")
      BY <2>2, <2>4 DEF MarkReplacementLanded, TxRow
    <2>. QED BY Zenon, <2>1, <2>3, <2>4
  <1>. QED BY Zenon, <1>6, <1>7, <1>9, <1>10 DEF Settles, Rows

\* A step keeps every final state the chain's.
LEMMA FinalStep ==
    ASSUME PipelineInv, ReceiptInv, ~ ReadsRace, FinalIsOnChain, [Next]_vars
    PROVE  FinalIsOnChain'
  <1>1. Buried /\ [StoreNext]_storeVars
    BY Zenon, ChainSteps, PipelineStep
  <1>2. ASSUME NEW p \in Payments, payment'[p] \in Final PROVE \E t \in TxIds : Settles(t, p)'
    <2>1. CASE payment[p] \in Final
      BY Zenon, <1>1, <2>1, FinalMeansSettled, SettlementStays
    <2>2. CASE payment[p] \notin Final
      BY Zenon, <1>1, <1>2, <2>2, WhoFinalises, VerdictSettles DEF ReceiptInv
    <2>. QED BY Zenon, <2>1, <2>2
  <1>3. (\A p \in Payments : payment[p] \in Final => \E t \in TxIds : Settles(t, p))'
    BY Zenon, <1>2 DEF Final
  <1>. QED BY <1>3, FinalMeansSettled, PTL

\* Nothing is final, and nobody has a receipt, at the start.
LEMMA FinalInit == Init => ReceiptInv /\ FinalIsOnChain
  <1>1. Init => ReceiptInv
    BY DEF Init, Idle, ReceiptInv, KnowsReceipt, At, Final
  <1>2. Init => FinalIsOnChain
    BY DEF Init, StoreInit, FinalIsOnChain, Final, Absent
  <1>. QED BY Zenon, <1>1, <1>2

\* ADR-0004 decision 5, finality: unless a reorganisation falls between two
\* reads of one observation, every payment recorded confirmed or reverted has
\* a transaction mined with that status at full depth on the canonical chain,
\* however many workers look, whatever is replaced and however often the chain
\* reorganises.
THEOREM FinalityIsOnChain ==
    ASSUME ~ ReadsRace
    PROVE  Spec => []FinalIsOnChain
  <1>1. PipelineInv /\ ReceiptInv /\ FinalIsOnChain /\ [Next]_vars => ReceiptInv' /\ FinalIsOnChain'
    BY Zenon, ReceiptStep, FinalStep
  <1>. QED BY <1>1, KnowledgeHolds, FinalInit, PTL DEF Spec

-----------------------------------------------------------------------------
(* What the confirmation worker looks for                                  *)

\* The transaction it loads is the live one of a payment being watched.
LEMMA LoadsLive ==
    ASSUME PipelineInv, NEW p \in Payments, payment[p] \in Watched \cup Final, NEW t \in ActiveRows(p)
    PROVE  tx[t].status \in {"broadcast", "confirming"}
  <1>1. t \in TxIds /\ tx[t].pay = p /\ Active(t)
    BY Zenon DEF ActiveRows, Rows
  <1>2. PICK u \in Rows(p) : tx[u].status \in {"broadcast", "confirming"}
    BY Zenon DEF PipelineInv, StoreInv, StateAgrees, RowsAgree, Watched, Final
  <1>3. u \in TxIds /\ tx[u].pay = p /\ Active(u)
    BY <1>2 DEF Rows, Active, ActiveStatuses
  <1>4. t = u
    BY Zenon, <1>1, <1>3 DEF PipelineInv, StoreInv, OneActive
  <1>. QED BY Zenon, <1>2, <1>4

\* A worker that looks works under its lease, on a row of its payment.
LEMMA LookingIsWork ==
    ASSUME PipelineInv, NEW x \in Processes, proc[x].pc \in Looking
    PROVE  /\ Working(x, proc[x].pay) /\ proc[x].pay \in Payments /\ proc[x].row \in TxIds
           /\ tx[proc[x].row].pay = proc[x].pay
  <1>1. proc[x].pc \notin Unleased
    BY DEF Looking, Unleased
  <1>2. ~ At(x, "idle") /\ proc[x].pc \notin Rowless
    BY DEF Looking, Rowless, At
  <1>. QED BY Zenon, <1>1, <1>2 DEF PipelineInv, Knows, KnowsRow, Working

\* Its row stays live while it looks: nobody else writes about its payment.
LEMMA LookedAtStays ==
    ASSUME PipelineInv, HolderInv, [Next]_vars, [StoreNext]_storeVars,
           NEW y \in Processes, proc[y].pc \in Looking, proc'[y].pc \in Looking,
           tx[proc[y].row].status \in {"broadcast", "confirming"}
    PROVE  tx'[proc[y].row].status \in {"broadcast", "confirming"}
  <1>1. PICK p \in Payments, t \in TxIds : /\ p = proc[y].pay /\ t = proc[y].row /\ tx[t].pay = p
                                           /\ Working(y, p) /\ tx[t].status \in {"broadcast", "confirming"}
    BY Zenon, LookingIsWork
  <1>2. CASE UNCHANGED storeVars
    BY <1>1, <1>2 DEF storeVars
  <1>3. CASE Housekeeping
    <2>. USE <1>1 DEF PipelineInv, PipelineTypeOK, StoreTypeOK, TxRow, Unused
    <2>1. ASSUME NEW x \in Processes, NEW q \in Payments, SettleNew(x, q)
          PROVE  tx'[t].status \in {"broadcast", "confirming"}
      <3>1. PICK n : CreateSettlementIntent(q, n)
        BY Zenon, <2>1 DEF SettleNew
      <3>. QED BY <3>1, Zenon DEF CreateSettlementIntent
    <2>2. ASSUME NEW q \in Payments, Verify(q) PROVE tx'[t].status \in {"broadcast", "confirming"}
      BY <2>2 DEF Verify, RecordVerification
    <2>3. ASSUME NEW expired, NEW erased, Retention(expired, erased)
          PROVE  tx'[t].status \in {"broadcast", "confirming"}
      <3>1. ApplyRetention(expired, erased)
        BY Zenon, <2>3 DEF Retention
      <3>. QED BY <3>1 DEF ApplyRetention
    <2>. QED BY Zenon, <1>1, <1>3, <2>1, <2>2, <2>3 DEF Housekeeping
  <1>4. ASSUME NEW x \in Processes, Recording(x) PROVE tx'[t] = tx[t]
    <2>1. proc[x].pc \notin Unleased /\ proc[x].pay \in Payments /\ WritesOnly(proc[x].pay)
      BY Zenon, <1>4, WritersKeepToTheirPayment
    <2>2. x # y
      <3>1. SUFFICES ASSUME x = y PROVE FALSE
        BY Zenon
      <3>2. RecordObservation(y)
        BY <1>4, <3>1, Zenon DEF Recording, Retire, PersistSigned, RecordBroadcast, RecordAmbiguous, RecordRecovered,
           RecordReplacement, RecordLanded, PrepareFiller, RecordFiller, At, Looking
      <3>3. Plain(y)
        BY Zenon, <2>1, <3>1, <3>2, LeavePlain DEF RecordObservation
      <3>. QED BY Zenon, <3>3 DEF Plain
    <2>3. proc[x].pay # p
      BY Zenon, <1>1, <2>1, <2>2 DEF HolderInv, Working
    <2>4. tx'[t].pay = p
      BY Zenon, <1>1, NoneAssumption, RecordSteps DEF RecordStep, RowStep, PipelineInv
    <2>. QED BY Zenon, <1>1, <2>1, <2>3, <2>4 DEF WritesOnly
  <1>. QED BY Zenon, <1>1, <1>2, <1>3, <1>4, WhoWrites

\* A look at the chain leaves the worker with the row it had, or a live one.
LEMMA LooksAtLive ==
    ASSUME PipelineInv, FreshInv, NEW x \in Processes, Looks(x), proc'[x].pc \in Looking
    PROVE  tx'[proc'[x].row].status \in {"broadcast", "confirming"}
  <1>1. tx' = tx
    BY Zenon DEF Looks, ConfirmationLoad, Observe, ObserveLagging, MeasureDepth, ObserveReplaced, LandedDepth,
       OnlyReads, storeVars
  <1>2. ASSUME GiveUp(x) PROVE FALSE
    <2>1. proc[x].pc \in {"load", "observe", "depth", "landed", "landed_depth"}
      BY Zenon DEF Looks, ConfirmationLoad, Observe, ObserveLagging, MeasureDepth, ObserveReplaced, LandedDepth, At
    <2>2. proc[x].pc \notin Unleased
      BY <2>1 DEF Unleased
    <2>. QED BY Zenon, <1>2, <2>2, LeavePlain DEF Plain
  <1>3. ASSUME NEW pc, Goto(x, pc) PROVE proc'[x].pc = pc /\ proc'[x].row = proc[x].row
    BY <1>3, TakeEffect, TaskTypes DEF Goto, Task
  <1>4. ASSUME NEW r, NEW pc, Take(x, [proc[x] EXCEPT !.pc = pc, !.rcpt = r])
        PROVE  proc'[x].pc = pc /\ proc'[x].row = proc[x].row
    <2>. DEFINE task == [proc[x] EXCEPT !.pc = pc, !.rcpt = r]
    <2>1. task.pc = pc /\ task.row = proc[x].row
      BY TaskTypes DEF Task
    <2>. QED BY Zenon, <1>4, <2>1, TakeEffect
  <1>5. ASSUME proc[x].pc \in {"observe", "depth"}, proc'[x].row = proc[x].row
        PROVE  tx'[proc'[x].row].status \in {"broadcast", "confirming"}
    <2>1. proc[x].pc \in Looking
      BY <1>5 DEF Looking
    <2>. QED BY Zenon, <1>1, <1>5, <2>1 DEF FreshInv
  <1>6. CASE Observe(x) \/ ObserveLagging(x) \/ MeasureDepth(x)
    <2>1. proc[x].pc \in {"observe", "depth"}
      BY Zenon, <1>6 DEF Observe, ObserveLagging, MeasureDepth, At
    <2>2. proc'[x].row = proc[x].row
      BY Zenon, <1>2, <1>3, <1>4, <1>6 DEF Observe, ObserveLagging, MeasureDepth
    <2>. QED BY Zenon, <1>5, <2>1, <2>2
  <1>7. CASE ObserveReplaced(x) \/ LandedDepth(x)
    <2>1. proc'[x].pc \in {"land", "landed_depth"}
      BY Zenon, <1>2, <1>3, <1>4, <1>7 DEF ObserveReplaced, LandedDepth
    <2>. QED BY <2>1 DEF Looking
  <1>8. CASE ConfirmationLoad(x)
    <2>1. PICK t \in ActiveRows(proc[x].pay) :
             Take(x, [proc[x] EXCEPT !.pc = "observe", !.row = t, !.hash = tx[t].hash, !.task = tx[t].status])
      BY Zenon, <1>2, <1>8 DEF ConfirmationLoad
    <2>. DEFINE task == [proc[x] EXCEPT !.pc = "observe", !.row = t, !.hash = tx[t].hash, !.task = tx[t].status]
    <2>2. task.row = t
      BY TaskTypes DEF Task
    <2>3. proc'[x].row = t
      BY Zenon, <2>1, <2>2, TakeEffect
    <2>4. proc[x].pay \in Payments /\ payment[proc[x].pay] \in Watched \cup Final
      BY <1>8, Zenon DEF ConfirmationLoad, At, PipelineInv, Knows, KnowsRow, KnowsWatched, Rowless
    <2>. QED BY Zenon, <1>1, <2>1, <2>3, <2>4, LoadsLive
  <1>. QED BY Zenon, <1>6, <1>7, <1>8 DEF Looks

\* A step leaves every worker that looks with a live row.
LEMMA FreshStep ==
    ASSUME PipelineInv, HolderInv, FreshInv, [Next]_vars
    PROVE  FreshInv'
  <1>1. [StoreNext]_storeVars
    BY Zenon, PipelineStep
  <1>2. ASSUME NEW y \in Processes, proc'[y] = proc[y], proc'[y].pc \in Looking
        PROVE  tx'[proc'[y].row].status \in {"broadcast", "confirming"}
    BY Zenon, <1>1, <1>2, LookedAtStays DEF FreshInv
  <1>3. ASSUME proc' = proc PROVE FreshInv'
    BY Zenon, <1>2, <1>3 DEF FreshInv, Looking
  <1>4. ASSUME NEW x \in Processes,
               \/ \E p \in Payments : SettleCall(x, p)
               \/ WorkerStart(x) \/ TaskStep(x) \/ TooEarly(x) \/ FaultyStep(x)
        PROVE  FreshInv'
    <2>1. proc' = proc \/ \A y \in Processes : y # x => proc'[y] = proc[y]
      BY Zenon, <1>4, TaskSightings
    <2>2. proc' = proc \/ (proc'[x].pc \in Looking => Looks(x))
      BY Zenon, <1>4, TaskSightings
    <2>3. ASSUME NEW y \in Processes, proc'[y].pc \in Looking, proc' # proc
          PROVE  tx'[proc'[y].row].status \in {"broadcast", "confirming"}
      BY Zenon, <1>2, <2>1, <2>2, <2>3, LooksAtLive
    <2>. QED BY Zenon, <1>3, <2>3 DEF FreshInv, Looking
  <1>5. ASSUME NEW x \in HttpRequests, NEW p \in Payments, SettleCall(x, p) PROVE FreshInv'
    <2>1. x \in Processes
      BY Zenon DEF Processes
    <2>. QED BY Zenon, <1>4, <1>5, <2>1
  <1>6. CASE \/ \E p \in Payments : Verify(p) \/ Advance(p) \/ LeaseLapse(p)
             \/ \E expired, erased \in SUBSET Payments : Retention(expired, erased)
             \/ \E m \in net, ok \in BOOLEAN : MineNext(m, ok)
             \/ BuildEmpty
             \/ \E k \in 1..(Confirmations - 1) : Reorganise(k)
    BY Zenon, <1>3, <1>6 DEF Verify, Advance, LeaseLapse, Retention, MineNext, BuildEmpty, Reorganise
  <1>7. CASE UNCHANGED vars
    BY Zenon, <1>3, <1>7 DEF vars
  <1>. QED BY Zenon, <1>4, <1>5, <1>6, <1>7 DEF Next

\* A confirming row of a confirming payment stays, unless the payment moves on.
ConfirmingRowStep ==
    \A t \in TxIds :
        (tx[t].pay \in Payments /\ tx[t].status = "confirming" /\ payment[tx[t].pay] = "confirming"
            /\ payment'[tx[t].pay] = "confirming") => tx'[t].status = "confirming"

\* No method takes the row alone.
LEMMA ConfirmingRowsStay ==
    ASSUME StoreInv, [StoreNext]_storeVars
    PROVE  ConfirmingRowStep
  <1>. USE NoneAssumption DEF StoreInv, StoreTypeOK, TxRow, ConfirmingRowStep, SetStatus, Version, Unused, RowIn,
           Move
  <1>0. CASE UNCHANGED storeVars
    BY <1>0 DEF storeVars
  <1>1. ASSUME NEW expired \in SUBSET Payments, NEW erased \in SUBSET Payments,
               ApplyRetention(expired, erased)
        PROVE  ConfirmingRowStep
    BY <1>1 DEF ApplyRetention
  <1>2. ASSUME NEW p \in Payments, PaymentStep(p) PROVE ConfirmingRowStep
    BY <1>2 DEF PaymentStep, RecordVerification, CreateSettlementIntent
  <1>3. ASSUME NEW p \in Payments, NEW t \in TxIds, BroadcastStep(p, t) PROVE ConfirmingRowStep
    BY <1>3 DEF BroadcastStep, MarkTxSigned, CanMarkTxSigned, MarkTxBroadcast, CanMarkTxBroadcast,
       MarkTxAmbiguous, CanMarkTxAmbiguous, MarkIntentUnsettleable, MarkIntentExpired, DropIntent, CanDropIntent
  <1>4. ASSUME NEW p \in Payments, NEW t \in TxIds, ConfirmationStep(p, t) PROVE ConfirmingRowStep
    BY <1>4 DEF ConfirmationStep, MarkTxConfirming, MarkTxReorgedOut, CanMarkTxReorgedOut, MarkTxConfirmed,
       MarkTxReverted, Finalize, CanFinalize
  <1>5. ASSUME NEW p \in Payments, NEW t \in TxIds, RecoveryStep(p, t) PROVE ConfirmingRowStep
    <2>1. CASE MarkTxRecoveredBroadcast(p, t, tx[t].raw, "worker")
      BY <2>1 DEF MarkTxRecoveredBroadcast, CanMarkTxRecoveredBroadcast
    <2>2. ASSUME NEW n \in TxIds, NEW h \in FreshHashes, MarkTxAmbiguousReplaced(p, t, n, h, "worker")
          PROVE  ConfirmingRowStep
      BY <2>2 DEF MarkTxAmbiguousReplaced, CanMarkTxAmbiguousReplaced, Replacement
    <2>3. ASSUME NEW n \in TxIds, NEW h \in FreshHashes, MarkTxReplaced(p, t, n, h, "worker")
          PROVE  ConfirmingRowStep
      BY <2>3 DEF MarkTxReplaced, CanMarkTxReplaced, Replacement
    <2>4. ASSUME NEW ok \in BOOLEAN, MarkReplacementLanded(p, t, ok, "worker") PROVE ConfirmingRowStep
      BY <2>4 DEF MarkReplacementLanded, CanMarkReplacementLanded, CanMove, ActiveRows, Rows
    <2>. QED BY Zenon, <1>5, <2>1, <2>2, <2>3, <2>4 DEF RecoveryStep
  <1>6. ASSUME NEW p \in Payments, NEW t \in TxIds, GapFillerStep(p, t) PROVE ConfirmingRowStep
    BY <1>6 DEF GapFillerStep, MarkGapFillerPrepared, CanMarkGapFillerPrepared, MarkGapFillerReplaced,
       CanMarkGapFillerReplaced, Replacement, MarkGapFillerResolved, CanMarkGapFillerResolved,
       MarkGapFillerSucceeded, CanMarkGapFillerSucceeded, SettleFiller
  <1>7. ASSUME NEW seed \in Seeds, SeedSignerAccount(seed) PROVE ConfirmingRowStep
    BY <1>7 DEF SeedSignerAccount
  <1>. QED BY Zenon, <1>0, <1>1, <1>2, <1>3, <1>4, <1>5, <1>6, <1>7 DEF StoreNext

\* A step that makes a payment confirming makes its row so.
LEMMA ConfirmingStep ==
    ASSUME PipelineInv, FreshInv, [Next]_vars, [StoreNext]_storeVars, ConfirmingAgrees
    PROVE  ConfirmingAgrees'
  <1>1. RecordStep /\ ConfirmingRowStep
    BY Zenon, RecordSteps, ConfirmingRowsStay DEF PipelineInv
  <1>2. ASSUME NEW p \in Payments, NEW t \in TxIds, tx[t].pay = p, tx'[t].status = "confirming"
        PROVE  \E u \in Rows(p)' : tx'[u].status = "confirming"
    <2>1. t \in Rows(p)'
      BY Zenon, <1>1, <1>2, NoneAssumption DEF RecordStep, RowStep, Rows
    <2>. QED BY Zenon, <1>2, <2>1
  <1>3. ASSUME NEW p \in Payments, payment'[p] = "confirming"
        PROVE  \E t \in Rows(p)' : tx'[t].status = "confirming"
    <2>1. CASE payment[p] = "confirming"
      <3>1. PICK t \in Rows(p) : tx[t].status = "confirming"
        BY Zenon, <2>1 DEF ConfirmingAgrees
      <3>2. t \in TxIds /\ tx[t].pay = p
        BY Zenon, <3>1 DEF Rows
      <3>3. tx'[t].status = "confirming"
        BY Zenon, <1>1, <1>3, <2>1, <3>1, <3>2 DEF ConfirmingRowStep
      <3>. QED BY Zenon, <1>2, <3>2, <3>3
    <2>2. CASE payment[p] # "confirming"
      <3>1. PICK x \in Processes : /\ p = proc[x].pay /\ ~ UNCHANGED storeVars
                                   /\ RecordObservation(x) \/ RecordLanded(x)
        BY Zenon, <1>3, <2>2, WhoConcludes
      <3>2. PICK t \in TxIds : t = proc[x].row /\ tx[t].pay = p
        BY HoldsRow, <3>1 DEF RecordObservation, RecordLanded, At, Rowless, Final
      <3>. USE DEF PipelineInv, PipelineTypeOK, StoreTypeOK, TxRow, SetStatus, Move
      <3>3. ASSUME At(x, "confirming"), MarkTxConfirming(p, t, "worker") PROVE tx'[t].status = "confirming"
        <4>1. tx[t].status \in {"broadcast", "confirming"}
          BY <3>2, <3>3 DEF FreshInv, Looking, At
        <4>. QED BY <3>2, <3>3, <4>1 DEF MarkTxConfirming, RowIn
      <3>4. ~ MarkTxReorgedOut(p, t, "worker")
        BY <1>3 DEF MarkTxReorgedOut
      <3>5. \A final \in Final : ~ Finalize(p, t, final, "worker")
        BY <1>3 DEF Finalize, Final
      <3>6. ASSUME NEW ok, MarkReplacementLanded(p, t, ok, "worker") PROVE tx'[t].status = "confirming"
        BY <1>3, <3>6 DEF MarkReplacementLanded
      <3>7. tx'[t].status = "confirming"
        BY Zenon, <3>1, <3>2, <3>3, <3>4, <3>5, <3>6 DEF RecordObservation, RecordLanded, Attempt
      <3>. QED BY Zenon, <1>2, <3>2, <3>7
    <2>. QED BY Zenon, <2>1, <2>2
  <1>. QED BY Zenon, <1>3 DEF ConfirmingAgrees, Rows

\* MarkTxConfirming moves the payment whether or not it moves the row.  Unless
\* a lease overruns, the row it is called with is still live, and the two never
\* come apart, however stale the rest of what the worker read.
THEOREM ConfirmingIsConfirming ==
    ASSUME ~ LeasesOverrun
    PROVE  Spec => []ConfirmingAgrees
  <1>1. Init => FreshInv /\ ConfirmingAgrees
    <2>1. Init => FreshInv
      BY DEF Init, Idle, FreshInv, Looking
    <2>2. Init => ConfirmingAgrees
      BY DEF Init, StoreInit, ConfirmingAgrees, Absent
    <2>. QED BY Zenon, <2>1, <2>2
  <1>2. PipelineInv /\ HolderInv /\ FreshInv /\ ConfirmingAgrees /\ [Next]_vars => FreshInv' /\ ConfirmingAgrees'
    BY Zenon, FreshStep, ConfirmingStep, PipelineStep
  <1>. QED BY <1>1, <1>2, KnowledgeHolds, WorkersAreAlone, PTL DEF Spec
=============================================================================
