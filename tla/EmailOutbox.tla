----------------------------- MODULE EmailOutbox -----------------------------
(***************************************************************************)
(* The one-time links of one merchant and the outbox that mails them       *)
(* (internal/merchant/service.go, email_delivery.go): registration and     *)
(* sign-in requests, delivery workers of several instances with their      *)
(* claims, SMTP, crashes, and the pruning of old tokens.                   *)
(*                                                                         *)
(* A database statement or transaction is one step; a worker remembers     *)
(* what it read, and above all when: deliverNext reads the clock once and  *)
(* uses it for two statements, and again after SMTP has answered.          *)
(***************************************************************************)
EXTENDS Integers, FiniteSets

CONSTANTS
    MaxLinks,          \* tokens that may be issued
    Workers,           \* one RunEmailDelivery loop per instance
    EmailTTL, Resend,  \* life of a link; pause after a mail went out
    EmailClaim,        \* life of a worker's claim on a delivery
    RetryMinimum, RetryMaximum,
    EphemeralAfter,    \* retention of expired tokens
    MaxTime, LastRequest,   \* bounds: of the clock, of requests for a link
    MaxFaults          \* bound on crashes, refused sends, unreadable payloads

VARIABLES
    clock,
    links,             \* how many tokens were ever issued
    token,             \* rows of email_verification_tokens
    outbox,            \* rows of email_delivery_outbox, one per token
    worker,            \* what each delivery worker is doing and has read
    mailbox,           \* the links SMTP has accepted at least once
    faults

vars == <<clock, links, token, outbox, worker, mailbox, faults>>

Links == 1..MaxLinks

\* SQL NULL in a timestamp column.
Never == -1

ASSUME OutboxAssumption ==
    /\ MaxLinks \in Nat /\ LastRequest \in Nat /\ MaxFaults \in Nat
    /\ EmailTTL \in Nat \ {0} /\ Resend \in Nat /\ EmailClaim \in Nat \ {0}
    /\ EphemeralAfter \in Nat /\ RetryMinimum \in Nat /\ RetryMaximum \in Nat
    \* A token is kept for as long as its mail counts against the next one.
    /\ Resend <= EphemeralAfter

NoToken == [issued |-> FALSE, created |-> Never, expires |-> Never,
            sent |-> Never, consumed |-> FALSE]
NoDelivery == [status |-> "none", next |-> Never, until |-> Never,
               attempts |-> 0, sealed |-> FALSE]
Idle == [pc |-> "idle", link |-> 0, attempt |-> 0, at |-> Never]
Polling(now) == [pc |-> "claim", link |-> 0, attempt |-> 0, at |-> now]
Sending(i, n) == [pc |-> "send", link |-> i, attempt |-> n, at |-> Never]

OutboxInit ==
    /\ clock = 0 /\ links = 0 /\ faults = 0 /\ mailbox = {}
    /\ token = [i \in Links |-> NoToken]
    /\ outbox = [i \in Links |-> NoDelivery]
    /\ worker = [w \in Workers |-> Idle]

\* A delivery that is neither delivered nor abandoned, and its claim.
Open(i) == outbox[i].status = "pending"
Unclaimed(i, now) == outbox[i].until = Never \/ outbox[i].until <= now

\* claim_token is fresh for every claim, as attempts is: a worker still owns
\* its delivery when no claim was made or ended since its own.
Owns(w) ==
    LET i == worker[w].link IN
        Open(i) /\ outbox[i].until # Never /\ outbox[i].attempts = worker[w].attempt

-----------------------------------------------------------------------------
(* Requests for a link.                                                    *)

\* Mutant: only a mail that went out counts, not one on its way.
SuppressedBySent(now) ==
    \E i \in Links : token[i].issued /\ token[i].sent # Never /\ token[i].sent > now - Resend

\* The link that makes another one unnecessary, as both requests test it.
Suppressed(now) ==
    \E i \in Links :
        /\ token[i].issued
        /\ \/ token[i].sent # Never /\ token[i].sent > now - Resend
           \/ token[i].sent = Never /\ token[i].expires > now
              /\ outbox[i].status \notin {"delivered", "abandoned"}

\* Token and outbox row are inserted by the transaction of the request.
enqueueEmail ==
    LET i == links + 1 IN
        /\ links < MaxLinks
        /\ links' = i
        /\ token' = [token EXCEPT ![i] =
              [issued |-> TRUE, created |-> clock, expires |-> clock + EmailTTL,
               sent |-> Never, consumed |-> FALSE]]
        /\ outbox' = [outbox EXCEPT ![i] =
              [status |-> "pending", next |-> clock, until |-> Never,
               attempts |-> 0, sealed |-> TRUE]]
        /\ UNCHANGED <<clock, worker, mailbox, faults>>

\* A first registration inserts the merchant and asks nothing; a repeated one,
\* like a sign-in request, is silently dropped while a link is on its way or
\* was mailed a moment ago. Both hold the merchant's row, new or locked.
Register == clock <= LastRequest /\ (links > 0 => ~Suppressed(clock)) /\ enqueueEmail
RequestAdminLink == links > 0 /\ clock <= LastRequest /\ ~Suppressed(clock) /\ enqueueEmail

\* Whoever has the mailed link may use it once while it lives.
verifyEmail(i) ==
    /\ i \in mailbox /\ token[i].issued /\ ~token[i].consumed /\ token[i].expires > clock
    /\ token' = [token EXCEPT ![i].consumed = TRUE]
    /\ UNCHANGED <<clock, links, outbox, worker, mailbox, faults>>

-----------------------------------------------------------------------------
(* deliverNext.                                                            *)

Abandoned(d) == [status |-> "abandoned", next |-> d.next, until |-> Never,
                 attempts |-> d.attempts, sealed |-> FALSE]
Delivered(d) == [status |-> "delivered", next |-> d.next, until |-> Never,
                 attempts |-> d.attempts, sealed |-> FALSE]
Released(d, next) == [status |-> d.status, next |-> next, until |-> Never,
                      attempts |-> d.attempts, sealed |-> d.sealed]

\* Mutant: a claimed delivery is left to its owner, who may be dead.
AbandonExpiredUnclaimed(w) ==
    /\ worker[w].pc = "idle"
    /\ worker' = [worker EXCEPT ![w] = Polling(clock)]
    /\ outbox' = [i \in Links |->
          IF Open(i) /\ token[i].expires <= clock /\ outbox[i].until = Never
          THEN Abandoned(outbox[i]) ELSE outbox[i]]
    /\ UNCHANGED <<clock, links, token, mailbox, faults>>

\* Reads the clock, then gives up what expired and nobody holds.
AbandonExpired(w) ==
    /\ worker[w].pc = "idle"
    /\ worker' = [worker EXCEPT ![w] = Polling(clock)]
    /\ outbox' = [i \in Links |->
          IF Open(i) /\ token[i].expires <= clock /\ Unclaimed(i, clock)
          THEN Abandoned(outbox[i]) ELSE outbox[i]]
    /\ UNCHANGED <<clock, links, token, mailbox, faults>>

Claimable(i, now) ==
    /\ Open(i) /\ outbox[i].next <= now /\ Unclaimed(i, now) /\ token[i].expires > now

\* Takes the oldest delivery that is due, by the clock read before.
Claim(w) ==
    /\ worker[w].pc = "claim"
    /\ LET now == worker[w].at
           due == {i \in Links : Claimable(i, now)} IN
           \/ /\ due = {}
              /\ worker' = [worker EXCEPT ![w] = Idle]
              /\ UNCHANGED outbox
           \/ \E i \in due :
                /\ \A j \in due : i <= j
                /\ outbox' = [outbox EXCEPT ![i].until = now + EmailClaim,
                                            ![i].attempts = @ + 1]
                /\ worker' = [worker EXCEPT ![w] = Sending(i, outbox[i].attempts + 1)]
    /\ UNCHANGED <<clock, links, token, mailbox, faults>>

\* SMTP accepts the message; deliveredAt is read before the transaction.
Send(w) ==
    /\ worker[w].pc = "send"
    /\ mailbox' = mailbox \cup {worker[w].link}
    /\ worker' = [worker EXCEPT ![w].pc = "sent", ![w].at = clock]
    /\ UNCHANGED <<clock, links, token, outbox, faults>>

\* An error before or after the message was accepted (a lost reply, QUIT).
SendFails(w) ==
    /\ worker[w].pc = "send" /\ faults < MaxFaults
    /\ faults' = faults + 1
    /\ \/ UNCHANGED mailbox
       \/ mailbox' = mailbox \cup {worker[w].link}
    /\ worker' = [worker EXCEPT ![w].pc = "failed", ![w].at = clock]
    /\ UNCHANGED <<clock, links, token, outbox>>

\* Mutant: sent_at is written before the claim is found to be gone.
RecordDeliveredAnyway(w) ==
    /\ worker[w].pc = "sent"
    /\ LET i == worker[w].link IN
           /\ token' = [token EXCEPT ![i].sent = IF @ = Never THEN worker[w].at ELSE @]
           /\ \/ /\ Owns(w)
                 /\ outbox' = [outbox EXCEPT ![i] = Delivered(@)]
              \/ ~Owns(w) /\ UNCHANGED outbox
    /\ worker' = [worker EXCEPT ![w] = Idle]
    /\ UNCHANGED <<clock, links, mailbox, faults>>

\* delivered_at and sent_at, unless the claim is no longer this worker's.
RecordDelivered(w) ==
    /\ worker[w].pc = "sent"
    /\ LET i == worker[w].link IN
           \/ /\ Owns(w)
              /\ outbox' = [outbox EXCEPT ![i] = Delivered(@)]
              /\ token' = [token EXCEPT ![i].sent = IF @ = Never THEN worker[w].at ELSE @]
           \/ ~Owns(w) /\ UNCHANGED <<outbox, token>>
    /\ worker' = [worker EXCEPT ![w] = Idle]
    /\ UNCHANGED <<clock, links, mailbox, faults>>

\* Five seconds, doubled up to five minutes.
retryDelay(attempt) ==
    LET doubled == RetryMinimum * 2^(attempt - 1) IN
        IF doubled < RetryMaximum THEN doubled ELSE RetryMaximum

\* Mutant: the claim is released by delivery, whoever holds it now.
RecordFailureBlindly(w) ==
    /\ worker[w].pc = "failed"
    /\ LET i == worker[w].link IN
           \/ /\ Open(i)
              /\ outbox' = [outbox EXCEPT ![i] =
                    Released(@, worker[w].at + retryDelay(worker[w].attempt))]
           \/ ~Open(i) /\ UNCHANGED outbox
    /\ worker' = [worker EXCEPT ![w] = Idle]
    /\ UNCHANGED <<clock, links, token, mailbox, faults>>

RecordFailure(w) ==
    /\ worker[w].pc = "failed"
    /\ LET i == worker[w].link IN
           \/ /\ Owns(w)
              /\ outbox' = [outbox EXCEPT ![i] =
                    Released(@, worker[w].at + retryDelay(worker[w].attempt))]
           \/ ~Owns(w) /\ UNCHANGED outbox
    /\ worker' = [worker EXCEPT ![w] = Idle]
    /\ UNCHANGED <<clock, links, token, mailbox, faults>>

\* The payload does not open under the worker's outbox key.
abandonCorruptEmail(w) ==
    /\ worker[w].pc = "send" /\ faults < MaxFaults
    /\ faults' = faults + 1
    /\ LET i == worker[w].link IN
           \/ Owns(w) /\ outbox' = [outbox EXCEPT ![i] = Abandoned(@)]
           \/ ~Owns(w) /\ UNCHANGED outbox
    /\ worker' = [worker EXCEPT ![w] = Idle]
    /\ UNCHANGED <<clock, links, token, mailbox>>

-----------------------------------------------------------------------------
(* Retention, faults, time.                                                *)

\* Deleting a token deletes its delivery (ON DELETE CASCADE).
PruneTokens ==
    LET old == {i \in Links : token[i].issued /\ token[i].expires < clock - EphemeralAfter} IN
        /\ old # {}
        /\ token' = [i \in Links |-> IF i \in old THEN NoToken ELSE token[i]]
        /\ outbox' = [i \in Links |-> IF i \in old THEN NoDelivery ELSE outbox[i]]
        /\ UNCHANGED <<clock, links, worker, mailbox, faults>>

\* The process dies, or a statement fails: the claim stays until it lapses.
Crash(w) ==
    /\ worker[w].pc # "idle" /\ faults < MaxFaults
    /\ faults' = faults + 1
    /\ worker' = [worker EXCEPT ![w] = Idle]
    /\ UNCHANGED <<clock, links, token, outbox, mailbox>>

Tick == /\ clock < MaxTime
        /\ clock' = clock + 1
        /\ UNCHANGED <<links, token, outbox, worker, mailbox, faults>>

WorkerStep(w) ==
    \/ AbandonExpired(w) \/ Claim(w) \/ Send(w) \/ SendFails(w)
    \/ RecordDelivered(w) \/ RecordFailure(w) \/ abandonCorruptEmail(w) \/ Crash(w)

OutboxNext ==
    \/ Register \/ RequestAdminLink \/ PruneTokens \/ Tick
    \/ \E i \in Links : verifyEmail(i)
    \/ \E w \in Workers : WorkerStep(w)

OutboxSpec == OutboxInit /\ [][OutboxNext]_vars

\* The loop of each instance ticks for ever and SMTP has a timeout, so a worker
\* goes on; time passes. Nothing is assumed of requests, faults or retention.
FairOutboxSpec ==
    /\ OutboxSpec
    /\ WF_vars(Tick)
    /\ \A w \in Workers :
        /\ WF_vars(AbandonExpired(w) \/ Claim(w) \/ Send(w))
        /\ WF_vars(RecordDelivered(w) \/ RecordFailure(w))

-----------------------------------------------------------------------------
(* Properties.                                                             *)

\* While a link lives, the merchant gets no second one unless the first was
\* mailed at least Resend ago or could not be read: requests, two workers and a
\* claim that lapses cannot get round the test in Register and
\* RequestAdminLink.
LinksApart ==
    \A i, j \in Links :
        (i < j /\ token[i].issued /\ token[j].issued /\ token[j].created < token[i].expires)
        => \/ outbox[i].status = "abandoned"
           \/ token[i].sent # Never /\ token[i].sent + Resend <= token[j].created

\* sent_at is set exactly for a delivered link, which SMTP then has accepted;
\* the sealed token is kept exactly as long as it may have to be mailed; a
\* claim is only on a delivery still open. Late workers write under deliverNext's
\* claim test or not at all.
OutboxAgrees ==
    \A i \in Links :
        /\ token[i].issued <=> outbox[i].status # "none"
        /\ token[i].sent # Never <=> outbox[i].status = "delivered"
        /\ outbox[i].status = "delivered" \/ token[i].consumed => i \in mailbox
        /\ outbox[i].sealed <=> Open(i)
        /\ outbox[i].until # Never => Open(i)

\* A claim ends by the worker that made it, by lapsing, or with the pruned row:
\* a worker whose delivery was taken over never releases or finishes the claim
\* of its successor (deliverNext: claim_token in every WHERE).
ClaimEndsByOwner ==
    [][\A i \in Links :
        (outbox[i].until # Never
            /\ <<outbox'[i].until, outbox'[i].attempts>> # <<outbox[i].until, outbox[i].attempts>>)
        => \/ outbox[i].until <= clock \/ outbox'[i].status = "none"
           \/ \E w \in Workers : worker[w].link = i /\ Owns(w) /\ worker'[w] # worker[w]]_vars

\* Every delivery is finished in the end, mailed or given up, although workers
\* die with their claims.
DeliveryEnds == \A i \in Links : Open(i) ~> ~Open(i)
=============================================================================
