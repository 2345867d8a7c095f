-------------------------- MODULE EmailOutboxProofs --------------------------
(***************************************************************************)
(* What EmailOutbox promises for any number of links and workers and any   *)
(* durations: the invariants of the outbox, and that no worker ends the    *)
(* claim of another.                                                       *)
(***************************************************************************)
EXTENDS EmailOutbox, TLAPS

TokenRows == [issued : BOOLEAN, created : Int, expires : Int, sent : Int, consumed : BOOLEAN]
DeliveryRows == [status : {"none", "pending", "delivered", "abandoned"},
                 next : Int, until : Int, attempts : Nat, sealed : BOOLEAN]
WorkerStates == [pc : {"idle", "claim", "send", "sent", "failed"},
                 link : Nat, attempt : Nat, at : Int]

\* The columns and the workers' memory are well formed.
OutboxTypeOK ==
    /\ clock \in Nat /\ links \in 0..MaxLinks
    /\ token \in [Links -> TokenRows]
    /\ outbox \in [Links -> DeliveryRows]
    /\ worker \in [Workers -> WorkerStates]
    /\ mailbox \subseteq Links

\* Tokens are issued in order and stamped with the clock.
IssuedInOrder ==
    \A i \in Links :
        /\ token[i].issued => i <= links /\ token[i].created <= clock
        /\ ~token[i].issued => token[i].sent = Never /\ ~token[i].consumed

\* What a worker is about to record has happened, at a time that has passed.
WorkersRecall ==
    \A w \in Workers :
        /\ worker[w].at <= clock
        /\ worker[w].pc \in {"send", "sent", "failed"} =>
              worker[w].link \in Links /\ worker[w].attempt # 0
        /\ worker[w].pc \in {"claim", "sent", "failed"} => worker[w].at # Never
        /\ worker[w].pc = "sent" => worker[w].link \in mailbox

OutboxInv == OutboxTypeOK /\ IssuedInOrder /\ WorkersRecall /\ OutboxAgrees /\ LinksApart

-----------------------------------------------------------------------------

\* The empty records are well-formed ones.
LEMMA EmptyRows ==
    NoToken \in TokenRows /\ NoDelivery \in DeliveryRows /\ Idle \in WorkerStates
  BY DEF NoToken, NoDelivery, Idle, TokenRows, DeliveryRows, WorkerStates, Never

\* What the end of a claim makes of a delivery is a well-formed row.
LEMMA EndedRows ==
    ASSUME NEW d \in DeliveryRows, NEW next \in Int
    PROVE  /\ Delivered(d) \in DeliveryRows /\ Released(d, next) \in DeliveryRows
           /\ Delivered(d).status = "delivered" /\ Delivered(d).until = Never /\ ~Delivered(d).sealed
           /\ Released(d, next).status = d.status /\ Released(d, next).sealed = d.sealed
  <1>1. Never \in Int
    BY DEF Never
  <1>2. Delivered(d) \in DeliveryRows
    BY <1>1 DEF Delivered, DeliveryRows
  <1>3. Released(d, next) \in DeliveryRows
    BY <1>1 DEF Released, DeliveryRows
  <1>. QED BY <1>2, <1>3 DEF Delivered, Released

\* The backoff is a duration.
LEMMA RetryDelayType ==
    ASSUME NEW attempt \in Nat \ {0}
    PROVE  retryDelay(attempt) \in Int
  <1>1. attempt - 1 \in Nat
    OBVIOUS
  <1>2. 2^(attempt - 1) \in Int
    BY <1>1
  <1>3. RetryMinimum \in Int /\ RetryMaximum \in Int
    BY OutboxAssumption
  <1>. QED BY <1>2, <1>3 DEF retryDelay

\* With nothing issued and nobody at work the invariant holds.
LEMMA InitHolds == OutboxInit => OutboxInv
  <1>. SUFFICES ASSUME OutboxInit PROVE OutboxInv
    OBVIOUS
  <1>0. MaxLinks \in Nat
    BY OutboxAssumption
  <1>1. OutboxTypeOK
    BY <1>0, EmptyRows DEF OutboxInit, OutboxTypeOK
  <1>2. IssuedInOrder
    BY DEF OutboxInit, IssuedInOrder, NoToken
  <1>3. WorkersRecall
    BY DEF OutboxInit, WorkersRecall, Idle, Never
  <1>4. OutboxAgrees
    BY DEF OutboxInit, OutboxAgrees, Open, NoToken, NoDelivery, Never
  <1>5. LinksApart
    BY DEF OutboxInit, LinksApart, NoToken
  <1>. QED BY <1>1, <1>2, <1>3, <1>4, <1>5 DEF OutboxInv

\* A new link keeps the invariant: the test of the request is what LinksApart
\* needs of the links before it.
LEMMA EnqueueKeeps ==
    ASSUME OutboxInv, links > 0 => ~Suppressed(clock), enqueueEmail
    PROVE  OutboxInv'
  <1>. DEFINE new == links + 1
              tk == [issued |-> TRUE, created |-> clock, expires |-> clock + EmailTTL,
                     sent |-> Never, consumed |-> FALSE]
              dl == [status |-> "pending", next |-> clock, until |-> Never,
                     attempts |-> 0, sealed |-> TRUE]
  <1>0. /\ MaxLinks \in Nat /\ EmailTTL \in Nat \ {0} /\ Resend \in Nat
        /\ clock \in Nat /\ links \in Nat /\ new \in Links
        /\ clock' = clock /\ links' = new /\ worker' = worker /\ mailbox' = mailbox
    BY OutboxAssumption DEF OutboxInv, OutboxTypeOK, enqueueEmail, Links
  <1>1. token' = [token EXCEPT ![new] = tk]
    BY DEF enqueueEmail
  <1>2. outbox' = [outbox EXCEPT ![new] = dl]
    BY DEF enqueueEmail
  <1>3. token \in [Links -> TokenRows] /\ outbox \in [Links -> DeliveryRows]
    BY DEF OutboxInv, OutboxTypeOK
  <1>4. tk \in TokenRows /\ dl \in DeliveryRows
    BY <1>0 DEF TokenRows, DeliveryRows, Never
  <1>5. /\ token'[new] = tk /\ outbox'[new] = dl
        /\ \A i \in Links \ {new} : token'[i] = token[i] /\ outbox'[i] = outbox[i]
    BY <1>0, <1>1, <1>2, <1>3
  <1>6. ~token[new].issued /\ token[new].sent = Never /\ ~token[new].consumed
    BY <1>0 DEF OutboxInv, IssuedInOrder
  <1>. HIDE DEF tk, dl, new
  <1>7. OutboxTypeOK'
    <2>1. token' \in [Links -> TokenRows] /\ outbox' \in [Links -> DeliveryRows]
      BY Zenon, <1>1, <1>2, <1>3, <1>4
    <2>2. links' \in 0..MaxLinks
      BY <1>0 DEF Links
    <2>. QED BY <1>0, <2>1, <2>2 DEF OutboxInv, OutboxTypeOK
  <1>8. IssuedInOrder'
    <2>. SUFFICES ASSUME NEW i \in Links
                  PROVE  /\ token'[i].issued => i <= links' /\ token'[i].created <= clock'
                         /\ ~token'[i].issued => token'[i].sent = Never /\ ~token'[i].consumed
      BY DEF IssuedInOrder
    <2>1. CASE i = new
      BY <2>1, <1>0, <1>5 DEF tk, Links
    <2>2. CASE i # new
      <3>1. /\ token[i].issued => i <= links /\ token[i].created <= clock
            /\ ~token[i].issued => token[i].sent = Never /\ ~token[i].consumed
        BY DEF OutboxInv, IssuedInOrder
      <3>2. i <= links => i <= links'
        BY <1>0 DEF Links, new
      <3>. QED BY <2>2, <1>0, <1>5, <3>1, <3>2
    <2>. QED BY <2>1, <2>2
  <1>9. WorkersRecall'
    BY <1>0 DEF OutboxInv, WorkersRecall
  <1>10. OutboxAgrees'
    <2>. SUFFICES ASSUME NEW i \in Links
                  PROVE  /\ token'[i].issued <=> outbox'[i].status # "none"
                         /\ token'[i].sent # Never <=> outbox'[i].status = "delivered"
                         /\ outbox'[i].status = "delivered" \/ token'[i].consumed => i \in mailbox'
                         /\ outbox'[i].sealed <=> outbox'[i].status = "pending"
                         /\ outbox'[i].until # Never => outbox'[i].status = "pending"
      BY DEF OutboxAgrees, Open
    <2>1. CASE i = new
      BY <2>1, <1>5 DEF tk, dl
    <2>2. CASE i # new
      BY <2>2, <1>0, <1>5 DEF OutboxInv, OutboxAgrees, Open
    <2>. QED BY <2>1, <2>2
  <1>11. LinksApart'
    <2>. SUFFICES ASSUME NEW i \in Links, NEW j \in Links, i < j,
                         token'[i].issued, token'[j].issued, token'[j].created < token'[i].expires
                  PROVE  \/ outbox'[i].status = "abandoned"
                         \/ token'[i].sent # Never /\ token'[i].sent + Resend <= token'[j].created
      BY DEF LinksApart
    <2>1. CASE i # new /\ j # new
      BY <2>1, <1>5 DEF OutboxInv, LinksApart
    <2>2. CASE i = new
      BY <2>2, <1>0, <1>5 DEF OutboxInv, IssuedInOrder, Links, new
    <2>3. CASE j = new /\ i # new
      <3>1. token[i].issued /\ clock < token[i].expires /\ token'[i] = token[i]
            /\ outbox'[i] = outbox[i] /\ token'[j].created = clock
        BY <2>3, <1>5 DEF tk
      <3>2. i <= links
        BY <3>1 DEF OutboxInv, IssuedInOrder
      <3>3. ~Suppressed(clock)
        BY <1>0, <3>2 DEF Links
      <3>4. token[i].sent \in Int /\ token[i].expires \in Int
        BY <1>3 DEF TokenRows
      <3>5. CASE token[i].sent # Never
        BY <3>1, <3>3, <3>4, <3>5, <1>0 DEF Suppressed
      <3>6. CASE token[i].sent = Never
        BY <3>1, <3>3, <3>4, <3>6, <1>0 DEF Suppressed, OutboxInv, OutboxAgrees
      <3>. QED BY <3>5, <3>6
    <2>. QED BY <2>1, <2>2, <2>3
  <1>. QED BY <1>7, <1>8, <1>9, <1>10, <1>11 DEF OutboxInv

\* What a worker's step does to one delivery and its token, gathered: it keeps
\* issue and creation, and either leaves them, records a mail that went out, or
\* gives the delivery up, claims or releases it.
Untouched(i) == token'[i] = token[i] /\ outbox'[i] = outbox[i]
Stamped(i) ==
    /\ token'[i].issued = token[i].issued /\ token'[i].created = token[i].created
    /\ token'[i].expires = token[i].expires /\ token'[i].consumed = token[i].consumed
Recorded(i) ==
    /\ Stamped(i) /\ Open(i) /\ i \in mailbox'
    /\ token'[i].sent # Never
    /\ outbox'[i].status = "delivered" /\ outbox'[i].until = Never /\ ~outbox'[i].sealed
GivenUp(i) ==
    /\ token'[i] = token[i] /\ Open(i)
    /\ outbox'[i].status = "abandoned" /\ outbox'[i].until = Never /\ ~outbox'[i].sealed
Held(i) ==
    /\ token'[i] = token[i] /\ Open(i)
    /\ outbox'[i].status = "pending" /\ outbox'[i].sealed = outbox[i].sealed

\* A step of that kind keeps what the record promises.
LEMMA DeliveryStepKeeps ==
    ASSUME OutboxInv, OutboxTypeOK', mailbox \subseteq mailbox', clock' = clock, links' = links,
           \A i \in Links : Untouched(i) \/ Recorded(i) \/ GivenUp(i) \/ Held(i)
    PROVE  IssuedInOrder' /\ OutboxAgrees' /\ LinksApart'
  <1>0. token \in [Links -> TokenRows] /\ Resend \in Nat
    BY OutboxAssumption DEF OutboxInv, OutboxTypeOK
  <1>1. \A i \in Links : token'[i].issued = token[i].issued /\ token'[i].created = token[i].created
                         /\ token'[i].expires = token[i].expires
                         /\ token'[i].consumed = token[i].consumed
    BY DEF Untouched, Recorded, GivenUp, Held, Stamped
  <1>2. \A i \in Links : Open(i) => token[i].issued /\ token[i].sent = Never
    BY DEF OutboxInv, OutboxAgrees, Open
  <1>3. \A i \in Links : ~token[i].issued => token'[i].sent = token[i].sent
    BY <1>2 DEF Untouched, Recorded, GivenUp, Held
  <1>4. IssuedInOrder'
    BY <1>1, <1>3 DEF OutboxInv, IssuedInOrder
  <1>5. OutboxAgrees'
    <2>. SUFFICES ASSUME NEW i \in Links
                  PROVE  /\ token'[i].issued <=> outbox'[i].status # "none"
                         /\ token'[i].sent # Never <=> outbox'[i].status = "delivered"
                         /\ outbox'[i].status = "delivered" \/ token'[i].consumed => i \in mailbox'
                         /\ outbox'[i].sealed <=> outbox'[i].status = "pending"
                         /\ outbox'[i].until # Never => outbox'[i].status = "pending"
      BY DEF OutboxAgrees, Open
    <2>0. /\ token[i].issued <=> outbox[i].status # "none"
          /\ token[i].sent # Never <=> outbox[i].status = "delivered"
          /\ outbox[i].status = "delivered" \/ token[i].consumed => i \in mailbox
          /\ outbox[i].sealed <=> outbox[i].status = "pending"
          /\ outbox[i].until # Never => outbox[i].status = "pending"
      BY DEF OutboxInv, OutboxAgrees, Open
    <2>1. CASE Untouched(i)
      BY <2>0, <2>1 DEF Untouched
    <2>2. CASE Recorded(i)
      BY <2>0, <2>2 DEF Recorded, Stamped, Open
    <2>3. CASE GivenUp(i)
      BY <2>0, <2>3 DEF GivenUp, Open
    <2>4. CASE Held(i)
      BY <2>0, <2>4 DEF Held, Open
    <2>. QED BY <2>1, <2>2, <2>3, <2>4
  <1>6. LinksApart'
    <2>. SUFFICES ASSUME NEW i \in Links, NEW j \in Links, i < j,
                         token'[i].issued, token'[j].issued, token'[j].created < token'[i].expires
                  PROVE  \/ outbox'[i].status = "abandoned"
                         \/ token'[i].sent # Never /\ token'[i].sent + Resend <= token'[j].created
      BY DEF LinksApart
    <2>1. \/ outbox[i].status = "abandoned"
          \/ token[i].sent # Never /\ token[i].sent + Resend <= token[j].created
      BY <1>1 DEF OutboxInv, LinksApart
    <2>2. ~Open(i)
      BY <2>1, <1>2 DEF Open
    <2>3. Untouched(i)
      BY <2>2 DEF Recorded, GivenUp, Held
    <2>. QED BY <2>1, <2>3, <1>1 DEF Untouched
  <1>. QED BY <1>4, <1>5, <1>6

\* What a worker may remember, and that the others are not disturbed.
Recalls(r) ==
    /\ r.at <= clock
    /\ r.pc \in {"send", "sent", "failed"} => r.link \in Links /\ r.attempt # 0
    /\ r.pc \in {"claim", "sent", "failed"} => r.at # Never
    /\ r.pc = "sent" => r.link \in mailbox'

LEMMA WorkerKeeps ==
    ASSUME OutboxInv, NEW w \in Workers, NEW r \in WorkerStates, Recalls(r),
           worker' = [worker EXCEPT ![w] = r], clock' = clock, mailbox \subseteq mailbox'
    PROVE  worker' \in [Workers -> WorkerStates] /\ WorkersRecall'
  <1>1. worker \in [Workers -> WorkerStates] /\ WorkersRecall
    BY DEF OutboxInv, OutboxTypeOK
  <1>2. worker'[w] = r /\ \A v \in Workers \ {w} : worker'[v] = worker[v]
    BY <1>1
  <1>3. WorkersRecall'
    <2>. SUFFICES ASSUME NEW v \in Workers
                  PROVE  /\ worker'[v].at <= clock
                         /\ worker'[v].pc \in {"send", "sent", "failed"} =>
                               worker'[v].link \in Links /\ worker'[v].attempt # 0
                         /\ worker'[v].pc \in {"claim", "sent", "failed"} => worker'[v].at # Never
                         /\ worker'[v].pc = "sent" => worker'[v].link \in mailbox'
      BY DEF WorkersRecall
    <2>1. CASE v = w
      BY <2>1, <1>2 DEF Recalls
    <2>2. CASE v # w
      BY <2>2, <1>1, <1>2 DEF WorkersRecall
    <2>. QED BY <2>1, <2>2
  <1>. QED BY <1>1, <1>3

\* An idle worker recalls nothing.
LEMMA IdleRecalls == OutboxInv => Recalls(Idle)
  BY DEF OutboxInv, OutboxTypeOK, Recalls, Idle, Never

\* Giving up what expired keeps the invariant.
LEMMA AbandonKeeps ==
    ASSUME OutboxInv, NEW w \in Workers, AbandonExpired(w)
    PROVE  OutboxInv'
  <1>0. /\ clock \in Nat /\ clock' = clock /\ links' = links /\ token' = token /\ mailbox' = mailbox
        /\ worker' = [worker EXCEPT ![w] = Polling(clock)]
        /\ outbox \in [Links -> DeliveryRows]
    BY DEF AbandonExpired, OutboxInv, OutboxTypeOK
  <1>1. Polling(clock) \in WorkerStates /\ Recalls(Polling(clock))
    BY <1>0 DEF Polling, WorkerStates, Recalls, Never
  <1>2. worker' \in [Workers -> WorkerStates] /\ WorkersRecall'
    BY Zenon, <1>0, <1>1, WorkerKeeps
  <1>3. \A i \in Links : \/ outbox'[i] = outbox[i]
                         \/ Open(i) /\ outbox'[i] = Abandoned(outbox[i])
    BY DEF AbandonExpired
  <1>4. \A i \in Links : /\ Abandoned(outbox[i]) \in DeliveryRows
                         /\ Abandoned(outbox[i]).status = "abandoned"
                         /\ Abandoned(outbox[i]).until = Never
                         /\ ~Abandoned(outbox[i]).sealed
    BY <1>0 DEF Abandoned, DeliveryRows, Never
  <1>5. outbox' \in [Links -> DeliveryRows]
    BY <1>0, <1>3, <1>4 DEF AbandonExpired
  <1>6. OutboxTypeOK'
    BY <1>0, <1>2, <1>5 DEF OutboxInv, OutboxTypeOK
  <1>7. \A i \in Links : Untouched(i) \/ GivenUp(i)
    BY <1>0, <1>3, <1>4 DEF Untouched, GivenUp
  <1>. QED BY <1>0, <1>2, <1>6, <1>7, DeliveryStepKeeps DEF OutboxInv

\* A claim, or finding nothing to claim, keeps it.
LEMMA ClaimKeeps ==
    ASSUME OutboxInv, NEW w \in Workers, Claim(w)
    PROVE  OutboxInv'
  <1>0. /\ clock \in Nat /\ clock' = clock /\ links' = links /\ token' = token /\ mailbox' = mailbox
        /\ outbox \in [Links -> DeliveryRows] /\ worker \in [Workers -> WorkerStates]
    BY DEF Claim, OutboxInv, OutboxTypeOK
  <1>1. CASE worker' = [worker EXCEPT ![w] = Idle] /\ outbox' = outbox
    <2>1. worker' \in [Workers -> WorkerStates] /\ WorkersRecall'
      BY Zenon, <1>0, <1>1, WorkerKeeps, EmptyRows, IdleRecalls
    <2>2. OutboxTypeOK'
      BY <1>0, <1>1, <2>1 DEF OutboxInv, OutboxTypeOK
    <2>3. \A i \in Links : Untouched(i)
      BY <1>0, <1>1 DEF Untouched
    <2>. QED BY <1>0, <2>1, <2>2, <2>3, DeliveryStepKeeps DEF OutboxInv
  <1>2. ASSUME NEW i \in Links, Open(i),
               outbox' = [outbox EXCEPT ![i].until = worker[w].at + EmailClaim,
                                        ![i].attempts = @ + 1],
               worker' = [worker EXCEPT ![w] = Sending(i, outbox[i].attempts + 1)]
        PROVE  OutboxInv'
    <2>0. outbox[i] \in DeliveryRows /\ worker[w].at \in Int /\ EmailClaim \in Nat
      BY <1>0, OutboxAssumption DEF WorkerStates
    <2>1. Sending(i, outbox[i].attempts + 1) \in WorkerStates
      BY <2>0, OutboxAssumption DEF Sending, WorkerStates, DeliveryRows, Never, Links
    <2>2. Recalls(Sending(i, outbox[i].attempts + 1))
      BY <1>0, <2>0 DEF Sending, Recalls, DeliveryRows, Never
    <2>3. worker' \in [Workers -> WorkerStates] /\ WorkersRecall'
      BY Zenon, <1>0, <1>2, <2>1, <2>2, WorkerKeeps
    <2>4. /\ outbox' \in [Links -> DeliveryRows]
          /\ outbox'[i].status = outbox[i].status /\ outbox'[i].sealed = outbox[i].sealed
          /\ \A j \in Links \ {i} : outbox'[j] = outbox[j]
      BY <1>0, <1>2, <2>0 DEF DeliveryRows
    <2>5. OutboxTypeOK'
      BY <1>0, <2>3, <2>4 DEF OutboxInv, OutboxTypeOK
    <2>6. \A j \in Links : Untouched(j) \/ Held(j)
      BY <1>0, <1>2, <2>4 DEF Untouched, Held, Open
    <2>. QED BY <1>0, <2>3, <2>5, <2>6, DeliveryStepKeeps DEF OutboxInv
  <1>. QED BY Zenon, <1>1, <1>2 DEF Claim, Claimable

\* SMTP's answer, either way, changes the worker and perhaps the mailbox.
LEMMA SendKeeps ==
    ASSUME OutboxInv, NEW w \in Workers, Send(w) \/ SendFails(w)
    PROVE  OutboxInv'
  <1>. DEFINE pc == worker'[w].pc
              r == [pc |-> pc, link |-> worker[w].link, attempt |-> worker[w].attempt, at |-> clock]
  <1>0. /\ clock \in Nat /\ clock' = clock /\ links' = links /\ token' = token /\ outbox' = outbox
        /\ worker \in [Workers -> WorkerStates] /\ worker[w].pc = "send"
    BY DEF Send, SendFails, OutboxInv, OutboxTypeOK
  <1>1. worker[w].link \in Links /\ worker[w].attempt # 0
    BY <1>0 DEF OutboxInv, WorkersRecall
  <1>2. mailbox' \subseteq Links /\ mailbox \subseteq mailbox'
    BY <1>1 DEF Send, SendFails, OutboxInv, OutboxTypeOK
  <1>3. /\ pc \in {"sent", "failed"}
        /\ pc = "sent" => worker[w].link \in mailbox'
        /\ worker' = [worker EXCEPT ![w] = r]
    BY <1>0 DEF Send, SendFails, WorkerStates
  <1>4. r \in WorkerStates /\ Recalls(r)
    BY <1>0, <1>1, <1>3 DEF WorkerStates, Recalls, Never
  <1>. HIDE DEF r
  <1>5. worker' \in [Workers -> WorkerStates] /\ WorkersRecall'
    BY Zenon, <1>0, <1>2, <1>3, <1>4, WorkerKeeps
  <1>6. OutboxTypeOK'
    BY <1>0, <1>2, <1>5 DEF OutboxInv, OutboxTypeOK
  <1>7. \A i \in Links : Untouched(i)
    BY <1>0 DEF Untouched
  <1>. QED BY <1>0, <1>2, <1>5, <1>6, <1>7, DeliveryStepKeeps DEF OutboxInv

\* The result of an attempt, recorded under the worker's claim or not at all.
LEMMA RecordKeeps ==
    ASSUME OutboxInv, NEW w \in Workers,
           RecordDelivered(w) \/ RecordFailure(w) \/ abandonCorruptEmail(w) \/ Crash(w)
    PROVE  OutboxInv'
  <1>. DEFINE i == worker[w].link
  <1>0. /\ clock \in Nat /\ clock' = clock /\ links' = links /\ mailbox' = mailbox
        /\ worker' = [worker EXCEPT ![w] = Idle]
        /\ worker[w] \in WorkerStates
        /\ outbox \in [Links -> DeliveryRows] /\ token \in [Links -> TokenRows]
    BY DEF RecordDelivered, RecordFailure, abandonCorruptEmail, Crash, OutboxInv, OutboxTypeOK
  <1>1. worker' \in [Workers -> WorkerStates] /\ WorkersRecall'
    BY Zenon, <1>0, WorkerKeeps, EmptyRows, IdleRecalls
  <1>2. SUFFICES /\ outbox' \in [Links -> DeliveryRows] /\ token' \in [Links -> TokenRows]
                 /\ \A j \in Links : Untouched(j) \/ Recorded(j) \/ GivenUp(j) \/ Held(j)
    <2>1. OutboxTypeOK'
      BY <1>0, <1>1, <1>2 DEF OutboxInv, OutboxTypeOK
    <2>. QED BY <1>0, <1>1, <1>2, <2>1, DeliveryStepKeeps DEF OutboxInv
  <1>3. CASE outbox' = outbox /\ token' = token
    BY <1>0, <1>3 DEF Untouched
  <1>4. CASE RecordDelivered(w) /\ Owns(w)
    <2>1. i \in Links /\ i \in mailbox /\ worker[w].at # Never /\ worker[w].at \in Int
      BY <1>0, <1>4 DEF RecordDelivered, OutboxInv, WorkersRecall, WorkerStates
    <2>2. Open(i) /\ token[i].sent = Never /\ token[i].issued
      BY <1>4, <2>1 DEF Owns, Open, OutboxInv, OutboxAgrees
    <2>3. /\ outbox' = [outbox EXCEPT ![i] = Delivered(outbox[i])]
          /\ token' = [token EXCEPT ![i].sent = worker[w].at]
      BY <1>4, <2>2 DEF RecordDelivered
    <2>4. outbox[i] \in DeliveryRows /\ token[i] \in TokenRows
      BY <1>0, <2>1
    <2>5. /\ token' \in [Links -> TokenRows]
          /\ token'[i].sent = worker[w].at /\ Stamped(i)
          /\ \A j \in Links \ {i} : token'[j] = token[j]
      BY <1>0, <2>1, <2>3, <2>4 DEF TokenRows, Stamped
    <2>6. /\ outbox' \in [Links -> DeliveryRows]
          /\ outbox'[i].status = "delivered" /\ outbox'[i].until = Never /\ ~outbox'[i].sealed
          /\ \A j \in Links \ {i} : outbox'[j] = outbox[j]
      BY <1>0, <2>1, <2>3, <2>4, EndedRows
    <2>7. Recorded(i)
      BY <1>0, <2>1, <2>2, <2>5, <2>6 DEF Recorded
    <2>. QED BY <2>5, <2>6, <2>7 DEF Untouched
  <1>5. CASE RecordFailure(w) /\ Owns(w)
    <2>1. i \in Links /\ worker[w].attempt \in Nat \ {0} /\ worker[w].at \in Int
      BY <1>0, <1>5 DEF RecordFailure, OutboxInv, WorkersRecall, WorkerStates
    <2>2. Open(i) /\ outbox[i] \in DeliveryRows
      BY <1>0, <1>5, <2>1 DEF Owns
    <2>. DEFINE due == worker[w].at + retryDelay(worker[w].attempt)
    <2>3. due \in Int
      BY <2>1, RetryDelayType
    <2>4. /\ outbox' = [outbox EXCEPT ![i] = Released(outbox[i], due)]
          /\ token' = token
      BY <1>5 DEF RecordFailure
    <2>. HIDE DEF due
    <2>5. /\ outbox' \in [Links -> DeliveryRows]
          /\ outbox'[i].status = outbox[i].status /\ outbox'[i].sealed = outbox[i].sealed
          /\ \A j \in Links \ {i} : outbox'[j] = outbox[j]
      BY Zenon, <1>0, <2>1, <2>2, <2>3, <2>4, EndedRows
    <2>6. Held(i)
      BY <2>2, <2>4, <2>5 DEF Held, Open
    <2>. QED BY <1>0, <2>4, <2>5, <2>6 DEF Untouched
  <1>6. CASE abandonCorruptEmail(w) /\ Owns(w)
    <2>1. i \in Links
      BY <1>6 DEF abandonCorruptEmail, OutboxInv, WorkersRecall
    <2>2. Open(i) /\ outbox[i] \in DeliveryRows
      BY <1>0, <1>6, <2>1 DEF Owns
    <2>3. outbox' = [outbox EXCEPT ![i] = Abandoned(outbox[i])] /\ token' = token
      BY <1>6 DEF abandonCorruptEmail
    <2>4. /\ Abandoned(outbox[i]) \in DeliveryRows
          /\ Abandoned(outbox[i]).status = "abandoned"
          /\ Abandoned(outbox[i]).until = Never
          /\ ~Abandoned(outbox[i]).sealed
      BY <2>2 DEF Abandoned, DeliveryRows, Never
    <2>5. /\ outbox' \in [Links -> DeliveryRows]
          /\ outbox'[i] = Abandoned(outbox[i])
          /\ \A j \in Links \ {i} : outbox'[j] = outbox[j]
      BY <1>0, <2>1, <2>3, <2>4
    <2>6. GivenUp(i)
      BY <2>2, <2>3, <2>4, <2>5 DEF GivenUp
    <2>. QED BY <1>0, <2>3, <2>5, <2>6 DEF Untouched
  <1>. QED BY <1>3, <1>4, <1>5, <1>6 DEF RecordDelivered, RecordFailure, abandonCorruptEmail, Crash

\* Using a mailed link keeps it.
LEMMA VerifyKeeps ==
    ASSUME OutboxInv, NEW i \in Links, verifyEmail(i)
    PROVE  OutboxInv'
  <1>0. /\ clock' = clock /\ links' = links /\ outbox' = outbox /\ worker' = worker
        /\ mailbox' = mailbox /\ token[i].issued /\ i \in mailbox
        /\ token' = [token EXCEPT ![i].consumed = TRUE] /\ token \in [Links -> TokenRows]
    BY DEF verifyEmail, OutboxInv, OutboxTypeOK
  <1>1. /\ token' \in [Links -> TokenRows]
        /\ \A j \in Links : /\ token'[j].issued = token[j].issued
                             /\ token'[j].created = token[j].created
                             /\ token'[j].expires = token[j].expires
                             /\ token'[j].sent = token[j].sent
                             /\ token'[j].consumed => token[j].consumed \/ j = i
    BY Zenon, <1>0 DEF TokenRows
  <1>2. OutboxTypeOK'
    BY <1>0, <1>1 DEF OutboxInv, OutboxTypeOK
  <1>3. IssuedInOrder'
    BY <1>0, <1>1 DEF OutboxInv, IssuedInOrder
  <1>4. WorkersRecall'
    BY <1>0 DEF OutboxInv, WorkersRecall
  <1>5. OutboxAgrees'
    BY <1>0, <1>1 DEF OutboxInv, OutboxAgrees, Open
  <1>6. LinksApart'
    BY <1>0, <1>1 DEF OutboxInv, LinksApart
  <1>. QED BY <1>2, <1>3, <1>4, <1>5, <1>6 DEF OutboxInv

\* Deleting old tokens with their deliveries keeps it.
LEMMA PruneKeeps ==
    ASSUME OutboxInv, PruneTokens
    PROVE  OutboxInv'
  <1>0. /\ clock' = clock /\ links' = links /\ worker' = worker /\ mailbox' = mailbox
        /\ token \in [Links -> TokenRows] /\ outbox \in [Links -> DeliveryRows]
    BY DEF PruneTokens, OutboxInv, OutboxTypeOK
  <1>. DEFINE old == {i \in Links : token[i].issued /\ token[i].expires < clock - EphemeralAfter}
  <1>1. /\ token' = [i \in Links |-> IF i \in old THEN NoToken ELSE token[i]]
        /\ outbox' = [i \in Links |-> IF i \in old THEN NoDelivery ELSE outbox[i]]
    BY DEF PruneTokens
  <1>. HIDE DEF old
  <1>2. token' \in [Links -> TokenRows] /\ outbox' \in [Links -> DeliveryRows]
    BY <1>0, <1>1, EmptyRows
  <1>3. \A i \in Links : \/ Untouched(i)
                         \/ token'[i] = NoToken /\ outbox'[i] = NoDelivery
    BY <1>0, <1>1 DEF Untouched
  <1>4. OutboxTypeOK'
    BY <1>0, <1>2, <1>3 DEF OutboxInv, OutboxTypeOK
  <1>5. IssuedInOrder'
    BY <1>0, <1>2, <1>3 DEF OutboxInv, IssuedInOrder, Untouched, NoToken
  <1>6. WorkersRecall'
    BY <1>0 DEF OutboxInv, WorkersRecall
  <1>7. OutboxAgrees'
    BY <1>0, <1>2, <1>3 DEF OutboxInv, OutboxAgrees, Open, Untouched, NoToken, NoDelivery
  <1>8. LinksApart'
    BY <1>3 DEF OutboxInv, LinksApart, Untouched, NoToken
  <1>. QED BY <1>4, <1>5, <1>6, <1>7, <1>8 DEF OutboxInv

\* Time keeps it.
LEMMA TickKeeps ==
    ASSUME OutboxInv, Tick
    PROVE  OutboxInv'
  <1>0. /\ clock \in Nat /\ clock' = clock + 1 /\ links' = links /\ token' = token
        /\ outbox' = outbox /\ worker' = worker /\ mailbox' = mailbox
        /\ token \in [Links -> TokenRows] /\ worker \in [Workers -> WorkerStates]
    BY DEF Tick, OutboxInv, OutboxTypeOK
  <1>2. OutboxTypeOK'
    BY <1>0 DEF OutboxInv, OutboxTypeOK
  <1>3. IssuedInOrder'
    BY <1>0 DEF OutboxInv, IssuedInOrder, TokenRows
  <1>4. WorkersRecall'
    BY <1>0 DEF OutboxInv, WorkersRecall, WorkerStates
  <1>5. OutboxAgrees' /\ LinksApart'
    BY <1>0 DEF OutboxInv, OutboxAgrees, LinksApart, Open
  <1>. QED BY <1>2, <1>3, <1>4, <1>5 DEF OutboxInv

\* Every step keeps the invariant.
LEMMA OutboxNextKeeps ==
    ASSUME OutboxInv, [OutboxNext]_vars
    PROVE  OutboxInv'
  <1>1. CASE Register \/ RequestAdminLink
    BY <1>1, EnqueueKeeps DEF Register, RequestAdminLink
  <1>2. CASE PruneTokens \/ Tick
    BY <1>2, PruneKeeps, TickKeeps
  <1>3. ASSUME NEW i \in Links, verifyEmail(i) PROVE OutboxInv'
    BY <1>3, VerifyKeeps
  <1>4. ASSUME NEW w \in Workers, WorkerStep(w) PROVE OutboxInv'
    BY Zenon, <1>4, AbandonKeeps, ClaimKeeps, SendKeeps, RecordKeeps DEF WorkerStep
  <1>5. CASE UNCHANGED vars
    BY <1>5 DEF vars, OutboxInv, OutboxTypeOK, IssuedInOrder, WorkersRecall, OutboxAgrees,
                LinksApart, Open
  <1>. QED BY <1>1, <1>2, <1>3, <1>4, <1>5 DEF OutboxNext

-----------------------------------------------------------------------------

\* The inductive invariant, for any number of links and workers.
THEOREM OutboxInvariant == OutboxSpec => []OutboxInv
  <1>. QED BY InitHolds, OutboxNextKeeps, PTL DEF OutboxSpec

\* Register and RequestAdminLink issue no second link while one is on its way
\* or was mailed less than Resend ago, whatever workers record when.
THEOREM LinksStayApart == OutboxSpec => []LinksApart
  <1>1. OutboxInv => LinksApart
    BY DEF OutboxInv
  <1>. QED BY <1>1, OutboxInvariant, PTL

\* sent_at, delivered_at, the sealed token and the claim agree, and a delivered
\* link was accepted by SMTP (deliverNext).
THEOREM RecordsAgree == OutboxSpec => []OutboxAgrees
  <1>1. OutboxInv => OutboxAgrees
    BY DEF OutboxInv
  <1>. QED BY <1>1, OutboxInvariant, PTL

\* No worker finishes or releases the claim of another (deliverNext), however
\* many there are and however late they record.
THEOREM OnlyOwnersEndClaims == OutboxSpec => ClaimEndsByOwner
  <1>. DEFINE Changed(i) ==
          <<outbox'[i].until, outbox'[i].attempts>> # <<outbox[i].until, outbox[i].attempts>>
  <1>. DEFINE Ended(i) ==
          (outbox[i].until # Never /\ Changed(i))
          => \/ outbox[i].until <= clock \/ outbox'[i].status = "none"
             \/ \E w \in Workers : worker[w].link = i /\ Owns(w) /\ worker'[w] # worker[w]
  <1>1. ASSUME OutboxInv, [OutboxNext]_vars
        PROVE  [\A i \in Links : Ended(i)]_vars
    <2>. SUFFICES ASSUME OutboxNext, NEW i \in Links, outbox[i].until # Never, Changed(i)
                  PROVE  \/ outbox[i].until <= clock \/ outbox'[i].status = "none"
                         \/ \E w \in Workers : worker[w].link = i /\ Owns(w)
                                                /\ worker'[w] # worker[w]
      BY <1>1
    <2>0. /\ clock \in Nat /\ links \in Nat
          /\ outbox \in [Links -> DeliveryRows] /\ token \in [Links -> TokenRows]
          /\ worker \in [Workers -> WorkerStates]
          /\ Open(i) /\ token[i].issued /\ outbox[i].until \in Int
      BY <1>1, OutboxAssumption DEF OutboxInv, OutboxTypeOK, OutboxAgrees, Open, DeliveryRows
    <2>10. outbox'[i] # outbox[i]
      OBVIOUS
    <2>1. CASE enqueueEmail
      <3>1. i # links + 1
        <4>1. i <= links
          BY <1>1, <2>0 DEF OutboxInv, IssuedInOrder
        <4>2. i \in Int
          BY OutboxAssumption DEF Links
        <4>. QED BY <2>0, <4>1, <4>2
      <3>. QED BY <2>0, <2>10, <2>1, <3>1 DEF enqueueEmail
    <2>2. CASE PruneTokens
      BY <2>0, <2>10, <2>2 DEF PruneTokens, NoDelivery
    <2>3. CASE UNCHANGED outbox
      BY <2>10, <2>3
    <2>4. ASSUME NEW w \in Workers, AbandonExpired(w)
          PROVE  outbox[i].until <= clock
      BY <2>0, <2>10, <2>4 DEF AbandonExpired, Unclaimed
    <2>5. ASSUME NEW w \in Workers, Claim(w)
          PROVE  outbox[i].until <= clock
      <3>1. worker[w].at <= clock /\ worker[w].at \in Int
        BY <1>1, <2>0 DEF OutboxInv, WorkersRecall, WorkerStates
      <3>2. PICK j \in Links : /\ Claimable(j, worker[w].at)
                               /\ \A k \in Links \ {j} : outbox'[k] = outbox[k]
        BY Zenon, <2>0, <2>10, <2>5 DEF Claim
      <3>3. Unclaimed(i, worker[w].at)
        BY <2>10, <3>2 DEF Claimable
      <3>. QED BY <2>0, <3>1, <3>3 DEF Unclaimed
    <2>6. ASSUME NEW w \in Workers,
                 RecordDelivered(w) \/ RecordFailure(w) \/ abandonCorruptEmail(w)
          PROVE  worker[w].link = i /\ Owns(w) /\ worker'[w] # worker[w]
      <3>1. worker'[w] = Idle /\ worker[w].pc # "idle"
        BY <2>0, <2>6 DEF RecordDelivered, RecordFailure, abandonCorruptEmail
      <3>2. worker'[w] # worker[w]
        BY <3>1 DEF Idle
      <3>3. outbox' # outbox => Owns(w)
        BY <2>6 DEF RecordDelivered, RecordFailure, abandonCorruptEmail
      <3>4. \A k \in Links : k # worker[w].link => outbox'[k] = outbox[k]
        BY <2>0, <2>6 DEF RecordDelivered, RecordFailure, abandonCorruptEmail
      <3>. QED BY <2>10, <3>2, <3>3, <3>4
    <2>7. ASSUME NEW w \in Workers, Send(w) \/ SendFails(w) \/ Crash(w) PROVE UNCHANGED outbox
      BY <2>7 DEF Send, SendFails, Crash
    <2>8. Tick => UNCHANGED outbox
      BY DEF Tick
    <2>9. \A k \in Links : verifyEmail(k) => UNCHANGED outbox
      BY DEF verifyEmail
    <2>. QED
      BY Zenon, <2>1, <2>2, <2>3, <2>4, <2>5, <2>6, <2>7, <2>8, <2>9
      DEF OutboxNext, WorkerStep, Register, RequestAdminLink
  <1>2. OutboxSpec => [][\A i \in Links : Ended(i)]_vars
    BY <1>1, OutboxInvariant, PTL DEF OutboxSpec
  <1>. QED BY Zenon, <1>2 DEF ClaimEndsByOwner
=============================================================================
