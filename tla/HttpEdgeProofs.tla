--------------------------- MODULE HttpEdgeProofs ---------------------------
(* What the edge promises a merchant, for any number of instances, clients, *)
(* merchants and requests: the allowance of a window is kept by all of them *)
(* together, and the directory forgets whom it must.                        *)
EXTENDS HttpEdge, FiniteSetTheorems, TLAPS

-----------------------------------------------------------------------------
(* Windows                                                                 *)

\* Truncate: a window starts at most its length before what falls in it.
LEMMA WindowStart ==
    ASSUME NEW t \in Int
    PROVE  Truncate(t) \in Int /\ Truncate(t) <= t /\ t - FairUseWindow < Truncate(t)
<1>1. FairUseWindow \in Nat \ {0}
  BY EdgeAssumption
<1>2. t % FairUseWindow \in 0..(FairUseWindow - 1)
  BY <1>1
<1> QED
  BY <1>1, <1>2 DEF Truncate

\* A later time falls in no earlier window.
LEMMA WindowsInOrder ==
    ASSUME NEW s \in Int, NEW t \in Int, s <= t
    PROVE  Truncate(s) <= Truncate(t)
<1> DEFINE F == FairUseWindow
           a == s \div F
           b == t \div F
<1>1. F \in Nat \ {0}
  BY EdgeAssumption
<1>2. a \in Int /\ b \in Int
  BY <1>1
<1>3. s = F * a + (s % F) /\ t = F * b + (t % F)
  BY <1>1
<1>4. s % F \in 0..(F - 1) /\ t % F \in 0..(F - 1)
  BY <1>1
<1> HIDE DEF a, b
<1>5. a <= b
  <2> SUFFICES ASSUME b + 1 <= a PROVE FALSE
    BY <1>2
  <2>1. F * (b + 1) <= F * a
    BY <1>1, <1>2
  <2>2. F * (b + 1) = F * b + F
    BY <1>1, <1>2
  <2> QED
    BY <1>1, <1>2, <1>3, <1>4, <2>1, <2>2
<1>6. F * a <= F * b
  BY <1>1, <1>2, <1>5
<1> QED
  BY <1>1, <1>2, <1>3, <1>4, <1>6 DEF Truncate

\* What starts at a time of the model has a row.
LEMMA WindowsHaveRows ==
    ASSUME NEW t \in 0..(MaxTime + 2 * FairUseWindow)
    PROVE  Truncate(t) \in Windows
<1>1. FairUseWindow \in Nat \ {0} /\ MaxTime \in Nat
  BY EdgeAssumption
<1>2. Truncate(0) = 0
  BY <1>1 DEF Truncate
<1>3. Truncate(0) <= Truncate(t)
  BY <1>1, WindowsInOrder
<1> QED
  BY <1>1, <1>2, <1>3, WindowStart DEF Windows

-----------------------------------------------------------------------------
(* Types                                                                   *)

Answers == {NoAnswer, "rate_limited", "exceeded", "served", "listed"}

\* Answered: what is left of a request once it is answered.
LEMMA WhatIsLeft ==
    ASSUME limit \in Nat, allowance \in Nat, NEW q \in Request, NEW a \in Answers
    PROVE  /\ Answered(q, a) \in Request
           /\ Answered(q, a).pc = "done" /\ Answered(q, a).answer = a
           /\ Answered(q, a).window = q.window /\ Answered(q, a).charged = q.charged
           /\ allowance > 0 => Answered(q, a).merchant = q.merchant
<1> DEFINE i == IF limit = 0 THEN Nobody ELSE q.inst
           t == IF limit = 0 THEN 0 ELSE q.arrived
           m == IF allowance = 0 THEN Nobody ELSE q.merchant
<1>1. /\ i \in Instances \cup {Nobody} /\ t \in Nat /\ m \in Merchants \cup {Nobody}
      /\ q.window \in Int /\ q.charged \in Charges
      /\ allowance > 0 => m = q.merchant
  BY DEF Request
<1>2. New \in Request
  BY DEF New, Request, NoAnswer, Routes, Charges
<1>3. Answered(q, a) = [New EXCEPT !.pc = "done", !.answer = a, !.inst = i, !.arrived = t,
                                   !.merchant = m, !.window = q.window, !.charged = q.charged]
  BY Zenon DEF Answered
<1> HIDE DEF i, t, m
<1>4. Answered(q, a) \in Request
  <2>1. "done" \in {"new", "done"} \cup OfMerchant \cup OfDirectory
    OBVIOUS
  <2> QED
    BY <1>1, <1>2, <1>3, <2>1, Zenon DEF Request, Answers
<1>5. /\ Answered(q, a).pc = "done" /\ Answered(q, a).answer = a
      /\ Answered(q, a).window = q.window /\ Answered(q, a).charged = q.charged
      /\ Answered(q, a).merchant = m
  BY <1>3 DEF New
<1> QED
  BY <1>1, <1>4, <1>5

\* fairUse: what accounting makes of a request.
AccountedAs(q, exceeded) ==
    CASE exceeded -> Answered(q, "exceeded")
      [] ~exceeded /\ q.route = "account" -> Answered(q, "served")
      [] OTHER -> [q EXCEPT !.pc = "consent"]

\* What q, the request r once it is accounted, keeps of r.
GoesOn(r, q, exceeded, charged) ==
    /\ q.charged = charged /\ q.window = req[r].window
    /\ allowance > 0 => q.merchant = req[r].merchant
    /\ \/ q.pc = "done" /\ q.answer = IF exceeded THEN "exceeded" ELSE "served"
       \/ /\ ~exceeded /\ q.pc = "consent"
          /\ q.inst = req[r].inst /\ q.merchant = req[r].merchant /\ q.answer = req[r].answer

\* fairUse: an accounted request is answered or goes on, and is charged so.
LEMMA WhatIsAccounted ==
    ASSUME EdgeTypeOK, NEW r \in Requests, NEW exceeded \in BOOLEAN, NEW charged \in Charges,
           Accounted(r, exceeded, charged)
    PROVE  \E q \in Request : req' = [req EXCEPT ![r] = q] /\ GoesOn(r, q, exceeded, charged)
<1> DEFINE p == [req[r] EXCEPT !.charged = charged, !.began = 0]
           q == AccountedAs(p, exceeded)
<1>1. req[r] \in Request
  BY DEF EdgeTypeOK
<1>2. p \in Request
  BY <1>1, Zenon DEF Request
<1>3. p.charged = charged /\ p.window = req[r].window /\ p.merchant = req[r].merchant
         /\ p.inst = req[r].inst /\ p.answer = req[r].answer
  BY <1>1 DEF Request
<1>4. req' = [req EXCEPT ![r] = q]
  BY Zenon DEF Accounted, AccountedAs
<1> HIDE DEF p
<1>5. CASE exceeded
  <2>1. q = Answered(p, "exceeded")
    BY <1>5 DEF AccountedAs
  <2> HIDE DEF q
  <2>2. limit \in Nat /\ allowance \in Nat /\ "exceeded" \in Answers
    BY DEF EdgeTypeOK, Answers
  <2>3. /\ q \in Request /\ q.pc = "done" /\ q.answer = "exceeded"
        /\ q.window = p.window /\ q.charged = p.charged
        /\ allowance > 0 => q.merchant = p.merchant
    BY <1>2, <2>1, <2>2, WhatIsLeft, Zenon
  <2>4. GoesOn(r, q, exceeded, charged)
    BY <1>3, <1>5, <2>3 DEF GoesOn
  <2> QED
    BY <1>4, <2>3, <2>4, Zenon
<1>6. CASE ~exceeded /\ p.route = "account"
  <2>1. q = Answered(p, "served")
    BY <1>6 DEF AccountedAs
  <2> HIDE DEF q
  <2>2. limit \in Nat /\ allowance \in Nat /\ "served" \in Answers
    BY DEF EdgeTypeOK, Answers
  <2>3. /\ q \in Request /\ q.pc = "done" /\ q.answer = "served"
        /\ q.window = p.window /\ q.charged = p.charged
        /\ allowance > 0 => q.merchant = p.merchant
    BY <1>2, <2>1, <2>2, WhatIsLeft, Zenon
  <2>4. GoesOn(r, q, exceeded, charged)
    BY <1>3, <1>6, <2>3 DEF GoesOn
  <2> QED
    BY <1>4, <2>3, <2>4, Zenon
<1>7. CASE ~exceeded /\ p.route # "account"
  <2>1. q = [p EXCEPT !.pc = "consent"]
    BY <1>7 DEF AccountedAs
  <2> HIDE DEF q
  <2>2. q \in Request
    BY <1>2, <2>1 DEF Request, OfMerchant
  <2>3. q.pc = "consent" /\ q.charged = p.charged /\ q.window = p.window /\ q.merchant = p.merchant
          /\ q.inst = p.inst /\ q.answer = p.answer
    BY <1>2, <2>1 DEF Request
  <2>4. GoesOn(r, q, exceeded, charged)
    BY <1>3, <1>7, <2>3 DEF GoesOn
  <2> QED
    BY <1>4, <2>2, <2>4, Zenon
<1> QED
  BY <1>5, <1>6, <1>7, Zenon

-----------------------------------------------------------------------------
(* How requests move                                                       *)

\* The accounting that p has had is the accounting that q has had.
KeepsCharge(p, q) ==
    /\ q.charged = "yes" <=> p.charged = "yes"
    /\ p.charged = "yes" => /\ q.window = p.window
                            /\ q.answer = "exceeded" <=> p.answer = "exceeded"
                            /\ allowance > 0 => q.merchant = p.merchant

\* The handlers: answering keeps the accounting.
LEMMA AnsweringKeeps ==
    ASSUME EdgeTypeOK, NEW q \in Request, NEW a \in Answers \ {"exceeded"}, Placed(q), Billed(q),
           q.pc # "done"
    PROVE  /\ Answered(q, a) \in Request /\ Placed(Answered(q, a)) /\ Billed(Answered(q, a))
           /\ KeepsCharge(q, Answered(q, a))
<1> DEFINE p == Answered(q, a)
<1>1. /\ p \in Request /\ p.pc = "done" /\ p.answer = a
      /\ p.window = q.window /\ p.charged = q.charged
      /\ allowance > 0 => p.merchant = q.merchant
  <2>1. limit \in Nat /\ allowance \in Nat /\ a \in Answers
    BY DEF EdgeTypeOK
  <2> QED
    BY <2>1, WhatIsLeft, Zenon
<1> HIDE DEF p
<1>2. Placed(p)
  BY <1>1 DEF Placed, OfMerchant, OfDirectory
<1>3. Billed(p)
  BY <1>1 DEF Billed
<1>4. KeepsCharge(q, p)
  BY <1>1 DEF Billed, KeepsCharge, NoAnswer
<1> QED
  BY <1>1, <1>2, <1>3, <1>4 DEF p

\* Arrive: the limiter lets a request in or answers it.
LEMMA ArriveMoves ==
    ASSUME EdgeTypeOK, NEW r \in Requests, NEW i \in Instances, NEW m \in Merchants \cup {Nobody},
           Placed(req[r]), Billed(req[r]), Arrive(r, i, m)
    PROVE  \E q \in Request : /\ req' = [req EXCEPT ![r] = q]
                              /\ Placed(q) /\ Billed(q) /\ KeepsCharge(req[r], q)
                              /\ q.pc \in {"explore", "authenticated", "done"} /\ q.answer # "listed"
<1> DEFINE p == req[r]
           t == IF limit = 0 THEN 0 ELSE now
           c == IF p.route = "explore" THEN "explore" ELSE "authenticated"
           q == [p EXCEPT !.inst = i, !.merchant = m, !.arrived = t, !.pc = c]
<1>1. p \in Request /\ t \in Nat
  BY EdgeAssumption DEF EdgeTypeOK
<1>2. p.pc = "new" /\ (c = "authenticated" => m \in Merchants)
  BY DEF Arrive, At
<1>3. c \in {"explore", "authenticated"}
  OBVIOUS
<1>4. req' = [req EXCEPT ![r] = q] \/ req' = [req EXCEPT ![r] = Answered(q, "rate_limited")]
  BY Zenon DEF Arrive
<1> HIDE DEF p, t, c
<1>5. q \in Request
  <2>1. c \in {"new", "done"} \cup OfMerchant \cup OfDirectory
    BY <1>3 DEF OfMerchant, OfDirectory
  <2>2. i \in Instances \cup {Nobody}
    OBVIOUS
  <2> QED
    BY <1>1, <2>1, <2>2, Zenon DEF Request
<1>6. /\ q.pc = c /\ q.inst = i /\ q.merchant = m /\ q.charged = p.charged /\ q.window = p.window
      /\ q.answer = p.answer
  BY <1>1 DEF Request
<1> HIDE DEF q
<1>7. p.charged = "no" /\ p.answer = NoAnswer
  BY <1>2 DEF Billed, p
<1>8. Placed(q)
  BY <1>2, <1>3, <1>6 DEF Placed, OfMerchant
<1>9. Billed(q)
  BY <1>3, <1>6, <1>7 DEF Billed
<1>10. KeepsCharge(p, q)
  BY <1>6, <1>7 DEF KeepsCharge
<1>11. CASE req' = [req EXCEPT ![r] = q]
  <2>1. q.pc \in {"explore", "authenticated", "done"} /\ q.answer # "listed"
    BY <1>3, <1>6, <1>7 DEF NoAnswer
  <2> QED
    BY <1>5, <1>8, <1>9, <1>10, <1>11, <2>1, Zenon DEF p
<1>12. CASE req' = [req EXCEPT ![r] = Answered(q, "rate_limited")]
  <2> DEFINE o == Answered(q, "rate_limited")
  <2>1. q.pc # "done" /\ "rate_limited" \in Answers \ {"exceeded"} /\ "rate_limited" \in Answers
    BY <1>3, <1>6 DEF Answers
  <2>2. o \in Request /\ Placed(o) /\ Billed(o) /\ KeepsCharge(q, o)
    BY <1>5, <1>8, <1>9, <2>1, AnsweringKeeps, Zenon
  <2>3. o.pc = "done" /\ o.answer = "rate_limited"
    BY <1>5, <2>1, WhatIsLeft DEF EdgeTypeOK
  <2> HIDE DEF o
  <2>4. KeepsCharge(p, o)
    BY <1>6, <1>7, <2>2 DEF KeepsCharge
  <2>5. o.pc \in {"explore", "authenticated", "done"} /\ o.answer # "listed"
    BY <2>3
  <2> QED
    BY <1>12, <2>2, <2>4, <2>5, Zenon DEF p, o
<1> QED
  BY <1>4, <1>11, <1>12, Zenon

\* r, and no other request, moves on to q, its accounting kept.
MovesTo(r, q) ==
    /\ req' = [req EXCEPT ![r] = q]
    /\ Placed(q) /\ Billed(q) /\ KeepsCharge(req[r], q)

\* The handlers: where they answer.
LEMMA AnswerMoves ==
    ASSUME EdgeTypeOK, NEW r \in Requests, NEW a \in Answers \ {"exceeded"},
           Placed(req[r]), Billed(req[r]), ~At(r, "done"), Answer(r, a)
    PROVE  \E q \in Request : MovesTo(r, q) /\ q.pc = "done" /\ q.answer = a
<1> DEFINE q == Answered(req[r], a)
<1>1. req[r] \in Request /\ req[r].pc # "done" /\ limit \in Nat /\ allowance \in Nat /\ a \in Answers
  BY DEF EdgeTypeOK, At
<1>2. q \in Request /\ Placed(q) /\ Billed(q) /\ KeepsCharge(req[r], q)
  BY <1>1, AnsweringKeeps, Zenon
<1>3. q.pc = "done" /\ q.answer = a
  BY <1>1, WhatIsLeft, Zenon
<1>4. req' = [req EXCEPT ![r] = q]
  BY Zenon DEF Answer
<1> QED
  BY <1>2, <1>3, <1>4, Zenon DEF MovesTo

\* fairUse and its failures: accounting that is skipped or not known to be done.
LEMMA UnaccountedMoves ==
    ASSUME EdgeTypeOK, NEW r \in Requests, NEW charged \in {"no", "unknown"},
           Placed(req[r]), Billed(req[r]), At(r, "authenticated") \/ At(r, "count"),
           charged = "unknown" => At(r, "count"), Accounted(r, FALSE, charged)
    PROVE  \E q \in Request : MovesTo(r, q) /\ q.pc \in {"consent", "done"} /\ q.answer # "listed"
<1>1. FALSE \in BOOLEAN /\ charged \in Charges
  BY DEF Charges
<1>2. PICK q \in Request : req' = [req EXCEPT ![r] = q] /\ GoesOn(r, q, FALSE, charged)
  BY <1>1, WhatIsAccounted, Zenon
<1>3. /\ req[r].charged = "no" /\ req[r].answer = NoAnswer
      /\ req[r].inst \in Instances /\ req[r].merchant \in Merchants
      /\ charged = "unknown" => req[r].window \in Windows
  BY DEF Billed, Placed, At, OfMerchant
<1>4. Placed(q)
  BY <1>2, <1>3 DEF GoesOn, Placed, OfMerchant, OfDirectory
<1>5. Billed(q)
  BY <1>2, <1>3 DEF GoesOn, Billed
<1>6. KeepsCharge(req[r], q)
  BY <1>2, <1>3 DEF GoesOn, KeepsCharge
<1>7. q.pc \in {"consent", "done"} /\ q.answer # "listed"
  BY <1>2, <1>3 DEF GoesOn, NoAnswer
<1> QED
  BY <1>2, <1>4, <1>5, <1>6, <1>7, Zenon DEF MovesTo

\* fairUse: the clock is read before the statement runs.
LEMMA CountingBegins ==
    ASSUME EdgeTypeOK, NEW r \in Requests, Placed(req[r]), Billed(req[r]), At(r, "authenticated"),
           req' = [req EXCEPT ![r].pc = "count", ![r].began = now,
                              ![r].window = Truncate(Clock(req[r].inst))]
    PROVE  \E q \in Request : MovesTo(r, q) /\ q.pc = "count" /\ q.answer # "listed"
<1> DEFINE p == req[r]
           w == Truncate(Clock(p.inst))
           q == [p EXCEPT !.pc = "count", !.began = now, !.window = w]
<1>1. p \in Request /\ now \in Nat
  BY EdgeAssumption DEF EdgeTypeOK
<1>2. p.inst \in Instances /\ p.merchant \in Merchants /\ p.charged = "no" /\ p.answer = NoAnswer
  BY DEF At, Placed, Billed, OfMerchant
<1>3. w \in Windows /\ w \in Int /\ Truncate(now) <= w
  <2>1. {MaxTime, FairUseWindow, CountTime} \subseteq Nat
    BY EdgeAssumption
  <2>2. Clock(p.inst) \in 0..(MaxTime + 2 * FairUseWindow) /\ now <= Clock(p.inst)
          /\ Clock(p.inst) \in Int /\ now \in Int
    BY <1>2, <2>1 DEF Clock, EdgeTypeOK
  <2> QED
    BY <2>2, WindowsHaveRows, WindowsInOrder, WindowStart
<1>4. req' = [req EXCEPT ![r] = q]
  BY Zenon DEF EdgeTypeOK
<1> HIDE DEF p, w
<1>5. q \in Request
  <2>1. "count" \in {"new", "done"} \cup OfMerchant \cup OfDirectory
    BY DEF OfMerchant
  <2> QED
    BY <1>1, <1>3, <2>1, Zenon DEF Request
<1>6. /\ q.pc = "count" /\ q.began = now /\ q.window = w /\ q.inst = p.inst /\ q.merchant = p.merchant
      /\ q.charged = p.charged /\ q.answer = p.answer
  BY <1>1 DEF Request
<1> HIDE DEF q
<1>7. Placed(q)
  BY <1>1, <1>2, <1>6, EdgeAssumption DEF Placed
<1>8. Billed(q)
  BY <1>2, <1>3, <1>6 DEF Billed
<1>9. KeepsCharge(p, q)
  BY <1>2, <1>6 DEF KeepsCharge
<1>10. q.answer # "listed"
  BY <1>2, <1>6 DEF NoAnswer
<1> QED
  BY <1>4, <1>5, <1>6, <1>7, <1>8, <1>9, <1>10, Zenon DEF MovesTo, p

\* setPublicProfileConsent and PublicLeaderboard: where they go on.
LEMMA HandlingMoves ==
    ASSUME EdgeTypeOK, NEW r \in Requests, Placed(req[r]), Billed(req[r]),
           \/ At(r, "consent") /\ Goto(r, "invalidate")
           \/ At(r, "explore") /\ Wait(r, "query")
           \/ At(r, "query") /\ req' = [req EXCEPT ![r].pc = "rows", ![r].rows = Listable]
    PROVE  \E q \in Request :
             /\ MovesTo(r, q) /\ q.answer # "listed" /\ q.inst = req[r].inst
             /\ \/ At(r, "consent") /\ q.pc = "invalidate"
                \/ At(r, "explore") /\ q.pc = "query"
                \/ At(r, "query") /\ q.pc = "rows" /\ q.began = req[r].began /\ q.rows = Listable
<1> DEFINE p == req[r]
           c == CASE At(r, "consent") -> "invalidate" [] At(r, "explore") -> "query" [] OTHER -> "rows"
           t == IF At(r, "explore") THEN now ELSE p.began
           s == IF At(r, "query") THEN Listable ELSE p.rows
           q == [p EXCEPT !.pc = c, !.began = t, !.rows = s]
<1>1. p \in Request /\ now \in Nat /\ Listable \in SUBSET Merchants
  BY EdgeAssumption DEF EdgeTypeOK, Listable
<1>2. /\ p.inst \in Instances /\ p.answer = NoAnswer
      /\ At(r, "consent") => p.merchant \in Merchants
      /\ At(r, "query") => p.began <= now /\ now - p.began <= QueryTime
  BY DEF At, Placed, Billed, OfMerchant, OfDirectory
<1>3. t \in Nat /\ s \in SUBSET Merchants
  BY <1>1 DEF Request
<1>4. \/ At(r, "consent") /\ c = "invalidate" /\ t = p.began /\ s = p.rows
      \/ At(r, "explore") /\ c = "query" /\ t = now /\ s = p.rows
      \/ At(r, "query") /\ c = "rows" /\ t = p.began /\ s = Listable
  BY DEF At
<1>5. req' = [req EXCEPT ![r] = q]
  <2>1. CASE At(r, "consent") /\ Goto(r, "invalidate")
    BY <1>1, <2>1, Zenon DEF Goto, EdgeTypeOK, At, Request
  <2>2. CASE At(r, "explore") /\ Wait(r, "query")
    BY <1>1, <2>2, Zenon DEF Wait, EdgeTypeOK, At, Request
  <2>3. CASE At(r, "query") /\ req' = [req EXCEPT ![r].pc = "rows", ![r].rows = Listable]
    BY <1>1, <2>3, Zenon DEF EdgeTypeOK, At, Request
  <2> QED
    BY <2>1, <2>2, <2>3, Zenon
<1> HIDE DEF p, c, t, s
<1>6. q \in Request
  <2>1. c \in {"new", "done"} \cup OfMerchant \cup OfDirectory
    BY <1>4 DEF OfMerchant, OfDirectory
  <2> QED
    BY <1>1, <1>3, <2>1, Zenon DEF Request
<1>7. /\ q.pc = c /\ q.began = t /\ q.rows = s /\ q.inst = p.inst /\ q.merchant = p.merchant
      /\ q.charged = p.charged /\ q.window = p.window /\ q.answer = p.answer
  BY <1>1 DEF Request
<1> HIDE DEF q
<1>8. Placed(q)
  BY <1>1, <1>2, <1>4, <1>7, EdgeAssumption DEF Placed, OfMerchant, OfDirectory
<1>9. Billed(q)
  BY <1>2, <1>4, <1>7 DEF Billed, p
<1>10. KeepsCharge(p, q)
  BY <1>7 DEF KeepsCharge
<1>11. q.answer # "listed" /\ q.inst = p.inst
  BY <1>2, <1>7 DEF NoAnswer
<1>12. \/ At(r, "consent") /\ q.pc = "invalidate"
       \/ At(r, "explore") /\ q.pc = "query"
       \/ At(r, "query") /\ q.pc = "rows" /\ q.began = p.began /\ q.rows = Listable
  BY <1>4, <1>7
<1> QED
  BY <1>5, <1>6, <1>8, <1>9, <1>10, <1>11, <1>12, Zenon DEF MovesTo, p

\* The handlers of one request: all but the statement that counts.
HandlesOne(r) ==
    \/ fairUse(r) \/ Consent(r) \/ Invalidate(r)
    \/ ServeCached(r) \/ BeginQuery(r) \/ Query(r) \/ StoreRows(r)
    \/ CountFails(r) \/ ConsentFails(r) \/ QueryFails(r)

\* The handlers: a request that moves keeps its accounting, and lists the
\* directory only where PublicLeaderboard returns it.
LEMMA HandlerMoves ==
    ASSUME EdgeTypeOK, NEW r \in Requests, Placed(req[r]), Billed(req[r]), HandlesOne(r)
    PROVE  \E q \in Request : /\ MovesTo(r, q)
                              /\ q.answer = "listed" => ServeCached(r) \/ StoreRows(r)
                              /\ q.pc \in {"query", "rows"} => BeginQuery(r) \/ Query(r)
<1>1. CASE fairUse(r)
  <2>1. CASE allowance = 0
    <3>1. At(r, "authenticated") /\ Accounted(r, FALSE, "no")
      BY <1>1, <2>1, Zenon DEF fairUse
    <3>2. "no" \in {"no", "unknown"} /\ ("no" = "unknown" => At(r, "count"))
      OBVIOUS
    <3>3. PICK q \in Request : MovesTo(r, q) /\ q.pc \in {"consent", "done"} /\ q.answer # "listed"
      BY <3>1, <3>2, UnaccountedMoves, Zenon
    <3> QED
      BY <3>3
  <2>2. CASE allowance # 0
    <3>1. PICK q \in Request : MovesTo(r, q) /\ q.pc = "count" /\ q.answer # "listed"
      BY <1>1, <2>2, CountingBegins, Zenon DEF fairUse
    <3> QED
      BY <3>1
  <2> QED
    BY <2>1, <2>2, Zenon
<1>2. CASE CountFails(r)
  <2>1. At(r, "count") /\ Accounted(r, FALSE, "unknown") /\ "unknown" \in {"no", "unknown"}
    BY <1>2, Zenon DEF CountFails
  <2>2. PICK q \in Request : MovesTo(r, q) /\ q.pc \in {"consent", "done"} /\ q.answer # "listed"
    BY <2>1, UnaccountedMoves, Zenon
  <2> QED
    BY <2>2
<1>3. ASSUME Answer(r, "served"), ~At(r, "done")
      PROVE  \E q \in Request : MovesTo(r, q) /\ q.pc = "done" /\ q.answer = "served"
  BY <1>3, AnswerMoves DEF Answers
<1>4. ASSUME Answer(r, "listed"), ~At(r, "done")
      PROVE  \E q \in Request : MovesTo(r, q) /\ q.pc = "done" /\ q.answer = "listed"
  BY <1>4, AnswerMoves DEF Answers
<1>5. CASE Consent(r)
  <2>1. CASE At(r, "consent") /\ Goto(r, "invalidate")
    <3>1. PICK q \in Request : MovesTo(r, q) /\ q.answer # "listed"
                                 /\ (\/ At(r, "consent") /\ q.pc = "invalidate"
                                     \/ At(r, "explore") /\ q.pc = "query"
                                     \/ At(r, "query") /\ q.pc = "rows")
      BY <2>1, HandlingMoves, Zenon
    <3> QED
      BY <2>1, <3>1 DEF At
  <2>2. CASE At(r, "consent") /\ Answer(r, "served")
    <3>1. ~At(r, "done")
      BY <2>2 DEF At
    <3>2. PICK q \in Request : MovesTo(r, q) /\ q.pc = "done" /\ q.answer = "served"
      BY <1>3, <2>2, <3>1, Zenon
    <3> QED
      BY <3>2
  <2> QED
    BY <1>5, <2>1, <2>2, Zenon DEF Consent
<1>6. CASE Invalidate(r) \/ ConsentFails(r) \/ QueryFails(r)
  <2>1. Answer(r, "served") /\ ~At(r, "done")
    BY <1>6 DEF Invalidate, ConsentFails, QueryFails, At
  <2>2. PICK q \in Request : MovesTo(r, q) /\ q.pc = "done" /\ q.answer = "served"
    BY <1>3, <2>1, Zenon
  <2> QED
    BY <2>2
<1>7. CASE ServeCached(r) \/ StoreRows(r)
  <2>1. Answer(r, "listed") /\ ~At(r, "done")
    BY <1>7 DEF ServeCached, StoreRows, At
  <2>2. PICK q \in Request : MovesTo(r, q) /\ q.pc = "done" /\ q.answer = "listed"
    BY <1>4, <2>1, Zenon
  <2> QED
    BY <1>7, <2>2
<1>8. CASE BeginQuery(r)
  <2>1. At(r, "explore") /\ Wait(r, "query")
    BY <1>8, Zenon DEF BeginQuery
  <2>2. PICK q \in Request : MovesTo(r, q) /\ q.answer # "listed"
    BY <2>1, HandlingMoves, Zenon
  <2> QED
    BY <1>8, <2>2, Zenon
<1>9. CASE Query(r)
  <2>1. At(r, "query") /\ req' = [req EXCEPT ![r].pc = "rows", ![r].rows = Listable]
    BY <1>9, Zenon DEF Query
  <2>2. PICK q \in Request : MovesTo(r, q) /\ q.answer # "listed"
    BY <2>1, HandlingMoves, Zenon
  <2> QED
    BY <1>9, <2>2, Zenon
<1> QED
  BY <1>1, <1>2, <1>5, <1>6, <1>7, <1>8, <1>9, Zenon DEF HandlesOne

\* The handlers: a move of one request is a move of all.
LEMMA OneMoves ==
    ASSUME EdgeTypeOK, \A x \in Requests : Placed(req[x]) /\ Billed(req[x]), now' = now,
           NEW r \in Requests, NEW q \in Request, MovesTo(r, q)
    PROVE  /\ req' \in [Requests -> Request]
           /\ \A x \in Requests : Placed(req[x])' /\ Billed(req[x])' /\ KeepsCharge(req[x], req'[x])
<1>1. req \in [Requests -> Request] /\ req' = [req EXCEPT ![r] = q]
  BY Zenon DEF EdgeTypeOK, MovesTo
<1>2. req' \in [Requests -> Request]
  BY <1>1
<1>3. ASSUME NEW x \in Requests
      PROVE  Placed(req'[x]) /\ Billed(req'[x]) /\ KeepsCharge(req[x], req'[x])
  <2>1. CASE x = r
    <3>1. req'[x] = q
      BY <1>1, <2>1
    <3> QED
      BY <2>1, <3>1, Zenon DEF MovesTo
  <2>2. CASE x # r
    <3>1. req'[x] = req[x]
      BY <1>1, <2>2
    <3>2. KeepsCharge(req[x], req[x])
      BY DEF KeepsCharge
    <3> QED
      BY <3>1, <3>2, Zenon
  <2> QED
    BY <2>1, <2>2, Zenon
<1>4. ASSUME NEW x \in Requests, Placed(req'[x]), Billed(req'[x]) PROVE Placed(req[x])' /\ Billed(req[x])'
  BY <1>4, Zenon DEF Placed, Billed
<1> QED
  BY <1>2, <1>3, <1>4, Zenon

\* Restart: what an instance was handling is answered for it.
LEMMA RestartMoves ==
    ASSUME EdgeTypeOK, \A x \in Requests : Placed(req[x]) /\ Billed(req[x]),
           NEW i \in Instances, Restart(i)
    PROVE  /\ req' \in [Requests -> Request]
           /\ \A x \in Requests : /\ Placed(req[x])' /\ Billed(req[x])' /\ KeepsCharge(req[x], req'[x])
                                  /\ \/ req'[x] = req[x]
                                     \/ req'[x].pc = "done" /\ req'[x].answer = "served"
<1>1. req' = [r \in Requests |-> IF req[r].inst = i /\ ~At(r, "done")
                                   THEN Answered(req[r], "served") ELSE req[r]]
  BY Zenon DEF Restart
<1>2. now' = now
  BY DEF Restart, Untouched
<1>3. ASSUME NEW x \in Requests
      PROVE  /\ req'[x] \in Request /\ Placed(req'[x]) /\ Billed(req'[x]) /\ KeepsCharge(req[x], req'[x])
             /\ \/ req'[x] = req[x]
                \/ req'[x].pc = "done" /\ req'[x].answer = "served"
  <2>1. CASE req[x].inst = i /\ ~At(x, "done")
    <3>1. req'[x] = Answered(req[x], "served")
      BY <1>1, <2>1, Zenon
    <3>2. /\ req[x] \in Request /\ req[x].pc # "done" /\ limit \in Nat /\ allowance \in Nat
          /\ "served" \in Answers /\ "served" \in Answers \ {"exceeded"}
      BY <2>1 DEF EdgeTypeOK, At, Answers
    <3>3. Answered(req[x], "served").pc = "done" /\ Answered(req[x], "served").answer = "served"
      BY <3>2, WhatIsLeft, Zenon
    <3> QED
      BY <3>1, <3>2, <3>3, AnsweringKeeps, Zenon
  <2>2. CASE ~(req[x].inst = i /\ ~At(x, "done"))
    <3>1. req'[x] = req[x]
      BY <1>1, <2>2, Zenon
    <3>2. KeepsCharge(req[x], req[x]) /\ req[x] \in Request
      BY DEF KeepsCharge, EdgeTypeOK
    <3> QED
      BY <3>1, <3>2, Zenon
  <2> QED
    BY <2>1, <2>2, Zenon
<1>4. ASSUME NEW x \in Requests, Placed(req'[x]), Billed(req'[x]) PROVE Placed(req[x])' /\ Billed(req[x])'
  BY <1>2, <1>4, Zenon DEF Placed, Billed
<1>5. req' \in [Requests -> Request]
  BY <1>1, <1>3, Zenon
<1> QED
  BY <1>3, <1>4, <1>5, Zenon

\* Tick: time passes for the requests under way, and is forgotten of the others.
LEMMA TickMoves ==
    ASSUME EdgeTypeOK, \A x \in Requests : Placed(req[x]) /\ Billed(req[x]), Tick
    PROVE  /\ req' \in [Requests -> Request]
           /\ \A x \in Requests : /\ Placed(req[x])' /\ Billed(req[x])' /\ KeepsCharge(req[x], req'[x])
                                  /\ \/ req'[x] = req[x]
                                     \/ At(x, "done") /\ req'[x].pc = "done"
<1>1. req' = [r \in Requests |-> IF At(r, "done") /\ now' - req[r].arrived >= Minute
                                   THEN [req[r] EXCEPT !.inst = Nobody, !.arrived = 0] ELSE req[r]]
  BY Zenon DEF Tick
<1>2. now' = now + 1 /\ now \in Nat /\ CountTime \in Nat /\ QueryTime \in Nat
  <2>1. {CountTime, QueryTime, MaxTime} \subseteq Nat /\ now \in 0..MaxTime
    BY EdgeAssumption DEF EdgeTypeOK
  <2>2. now' = now + 1
    BY Zenon DEF Tick
  <2> QED
    BY <2>1, <2>2
<1>3. ASSUME NEW x \in Requests
      PROVE  /\ req'[x] \in Request /\ Placed(req[x])' /\ Billed(req'[x]) /\ KeepsCharge(req[x], req'[x])
             /\ \/ req'[x] = req[x]
                \/ At(x, "done") /\ req'[x].pc = "done"
  <2>0. req[x] \in Request
    BY DEF EdgeTypeOK
  <2>1. CASE At(x, "done") /\ now' - req[x].arrived >= Minute
    <3> DEFINE p == req[x]
               q == [p EXCEPT !.inst = Nobody, !.arrived = 0]
    <3>1. req'[x] = q
      BY <1>1, <2>1, Zenon
    <3>2. p \in Request /\ p.pc = "done" /\ 0 \in Nat /\ Nobody \in Instances \cup {Nobody}
      BY <2>0, <2>1 DEF At
    <3> HIDE DEF p
    <3>3. q \in Request
      BY <3>2, Zenon DEF Request
    <3>4. /\ q.pc = p.pc /\ q.charged = p.charged /\ q.window = p.window /\ q.merchant = p.merchant
          /\ q.answer = p.answer
      BY <3>2 DEF Request
    <3> HIDE DEF q
    <3>5. KeepsCharge(p, q)
      BY <3>4 DEF KeepsCharge
    <3>6. Billed(q)
      BY <3>2, <3>4 DEF Billed, p
    <3>7. Placed(req[x])'
      BY <3>1, <3>2, <3>4 DEF Placed, OfMerchant, OfDirectory
    <3> QED
      BY <2>1, <3>1, <3>2, <3>3, <3>4, <3>5, <3>6, <3>7 DEF p
  <2>2. CASE ~(At(x, "done") /\ now' - req[x].arrived >= Minute)
    <3>1. req'[x] = req[x]
      BY <1>1, <2>2, Zenon
    <3>2. KeepsCharge(req[x], req[x])
      BY DEF KeepsCharge
    <3>3. /\ At(x, "count") => now - req[x].began < CountTime
          /\ At(x, "query") \/ At(x, "rows") => now - req[x].began < QueryTime
      BY Zenon DEF Tick
    <3>4. req[x].began \in Nat
      BY <2>0 DEF Request
    <3>5. Placed(req[x])'
      BY <1>2, <3>1, <3>3, <3>4 DEF Placed, At
    <3> QED
      BY <2>0, <3>1, <3>2, <3>5, Zenon
  <2> QED
    BY <2>1, <2>2, Zenon
<1>4. ASSUME NEW x \in Requests, Billed(req'[x]) PROVE Billed(req[x])'
  BY <1>4, Zenon DEF Billed
<1>5. req' \in [Requests -> Request]
  BY <1>1, <1>3, Zenon
<1> QED
  BY <1>3, <1>4, <1>5, Zenon

\* The steps that count no request against an allowance.
CountsNone ==
    \/ \E r \in Requests, i \in Instances, m \in Merchants \cup {Nobody} : Arrive(r, i, m)
    \/ \E r \in Requests : HandlesOne(r)
    \/ \E i \in Instances : Prune(i) \/ Restart(i)
    \/ \E m \in Merchants : SetMerchantStatus(m)
    \/ Tick

\* Every step counts a request or none.
LEMMA CountsOneOrNone == EdgeStep => CountsNone \/ \E r \in Requests : Count(r)
  BY Zenon DEF EdgeStep, HandlerStep, CountsNone, HandlesOne

\* The handlers take no time.
LEMMA HandlersTakeNoTime ==
    ASSUME NEW r \in Requests, HandlesOne(r) \/ Count(r)
    PROVE  now' = now /\ allowance' = allowance
  BY Zenon
     DEF HandlesOne, fairUse, Count, CountFails, Consent, ConsentFails, Invalidate, ServeCached,
         BeginQuery, Query, StoreRows, QueryFails, Untouched, Configured

\* Whatever counts no request keeps what was counted.
LEMMA RequestsMove ==
    ASSUME EdgeTypeOK, \A x \in Requests : Placed(req[x]) /\ Billed(req[x]), CountsNone
    PROVE  /\ req' \in [Requests -> Request]
           /\ \A x \in Requests : Placed(req[x])' /\ Billed(req[x])' /\ KeepsCharge(req[x], req'[x])
<1>1. ASSUME NEW r \in Requests, NEW i \in Instances, NEW m \in Merchants \cup {Nobody}, Arrive(r, i, m)
      PROVE  /\ req' \in [Requests -> Request]
             /\ \A x \in Requests : Placed(req[x])' /\ Billed(req[x])' /\ KeepsCharge(req[x], req'[x])
  <2>1. PICK q \in Request : MovesTo(r, q)
    BY <1>1, ArriveMoves, Zenon DEF MovesTo
  <2>2. now' = now
    BY <1>1, Zenon DEF Arrive, Untouched
  <2> QED
    BY <2>1, <2>2, OneMoves, Zenon
<1>2. ASSUME NEW r \in Requests, HandlesOne(r)
      PROVE  /\ req' \in [Requests -> Request]
             /\ \A x \in Requests : Placed(req[x])' /\ Billed(req[x])' /\ KeepsCharge(req[x], req'[x])
  <2>1. PICK q \in Request : MovesTo(r, q)
    BY <1>2, HandlerMoves, Zenon
  <2>2. now' = now
    BY <1>2, HandlersTakeNoTime, Zenon
  <2> QED
    BY <2>1, <2>2, OneMoves, Zenon
<1>3. ASSUME NEW i \in Instances, Restart(i)
      PROVE  /\ req' \in [Requests -> Request]
             /\ \A x \in Requests : Placed(req[x])' /\ Billed(req[x])' /\ KeepsCharge(req[x], req'[x])
  BY <1>3, RestartMoves, Zenon
<1>4. ASSUME Tick
      PROVE  /\ req' \in [Requests -> Request]
             /\ \A x \in Requests : Placed(req[x])' /\ Billed(req[x])' /\ KeepsCharge(req[x], req'[x])
  BY <1>4, TickMoves, Zenon
<1>5. ASSUME UNCHANGED <<req, now>>
      PROVE  /\ req' \in [Requests -> Request]
             /\ \A x \in Requests : Placed(req[x])' /\ Billed(req[x])' /\ KeepsCharge(req[x], req'[x])
  <2>1. req' = req /\ now' = now
    BY <1>5
  <2>2. ASSUME NEW x \in Requests PROVE KeepsCharge(req[x], req'[x])
    BY <2>1 DEF KeepsCharge
  <2>3. ASSUME NEW x \in Requests PROVE Placed(req[x])' /\ Billed(req[x])'
    BY <2>1, Zenon DEF Placed, Billed
  <2> QED
    BY <2>1, <2>2, <2>3, Zenon DEF EdgeTypeOK
<1>6. ASSUME NEW i \in Instances, Prune(i) PROVE UNCHANGED <<req, now>>
  BY <1>6 DEF Prune, Untouched
<1>7. ASSUME NEW m \in Merchants, SetMerchantStatus(m) PROVE UNCHANGED <<req, now>>
  BY <1>7 DEF SetMerchantStatus, Untouched
<1> QED
  BY <1>1, <1>2, <1>3, <1>4, <1>5, <1>6, <1>7, Zenon DEF CountsNone

\* CountMerchantRequest: the request is charged, and let through or not.
LEMMA CountMoves ==
    ASSUME EdgeTypeOK, \A x \in Requests : Placed(req[x]) /\ Billed(req[x]),
           NEW r \in Requests, Count(r)
    PROVE  /\ req' \in [Requests -> Request]
           /\ \A x \in Requests : Placed(req[x])' /\ Billed(req[x])'
           /\ \A x \in Requests \ {r} : req'[x] = req[x]
           /\ req'[r].charged = "yes" /\ req'[r].window = req[r].window
           /\ allowance > 0 => req'[r].merchant = req[r].merchant
           /\ req'[r].answer = "exceeded" <=> Exceeded(req[r].merchant, req[r].window)
           /\ req'[r].pc \notin {"query", "rows"} /\ req'[r].answer # "listed"
<1> DEFINE e == Exceeded(req[r].merchant, req[r].window)
<1>1. At(r, "count") /\ Accounted(r, e, "yes")
  BY Zenon DEF Count
<1>2. e \in BOOLEAN /\ "yes" \in Charges
  BY DEF Exceeded, Charges
<1>3. PICK q \in Request : req' = [req EXCEPT ![r] = q] /\ GoesOn(r, q, e, "yes")
  <2> HIDE DEF e
  <2> QED
    BY <1>1, <1>2, WhatIsAccounted, Zenon
<1> HIDE DEF e
<1>4. req \in [Requests -> Request]
  BY DEF EdgeTypeOK
<1>5. /\ req[r].answer = NoAnswer /\ req[r].window \in Windows
      /\ req[r].inst \in Instances /\ req[r].merchant \in Merchants
  BY <1>1 DEF Billed, Placed, At, OfMerchant
<1>6. req' \in [Requests -> Request] /\ req'[r] = q /\ \A x \in Requests \ {r} : req'[x] = req[x]
  BY <1>3, <1>4
<1>7. Placed(q)
  BY <1>3, <1>5 DEF GoesOn, Placed, OfMerchant, OfDirectory
<1>8. Billed(q)
  BY <1>3, <1>5 DEF GoesOn, Billed
<1>9. now' = now
  BY HandlersTakeNoTime, Zenon
<1>10. ASSUME NEW x \in Requests PROVE Placed(req'[x]) /\ Billed(req'[x])
  <2>1. CASE x = r
    BY <1>6, <1>7, <1>8, <2>1, Zenon
  <2>2. CASE x # r
    <3>1. req'[x] = req[x]
      BY <1>6, <2>2
    <3> QED
      BY <3>1, Zenon
  <2> QED
    BY <2>1, <2>2, Zenon
<1>11. ASSUME NEW x \in Requests PROVE Placed(req[x])' /\ Billed(req[x])'
  BY <1>9, <1>10, Zenon DEF Placed, Billed
<1>12. /\ q.charged = "yes" /\ q.window = req[r].window
       /\ allowance > 0 => q.merchant = req[r].merchant
       /\ q.answer = "exceeded" <=> e
       /\ q.pc \notin {"query", "rows"} /\ q.answer # "listed"
  BY <1>2, <1>3, <1>5 DEF GoesOn, NoAnswer
<1> QED
  BY <1>6, <1>11, <1>12, Zenon DEF e

-----------------------------------------------------------------------------
(* The allowance                                                           *)

\* The settings of an instance last as long as it does, and time moves by Tick.
LEMMA SettingsStay ==
    ASSUME EdgeStep
    PROVE  UNCHANGED <<limit, allowance, offset>> /\ (now' = now \/ Tick)
<1>1. ASSUME NEW r \in Requests, HandlesOne(r) \/ Count(r)
      PROVE  UNCHANGED <<limit, allowance, offset>> /\ now' = now
  BY <1>1, Zenon
     DEF HandlesOne, fairUse, Count, CountFails, Consent, ConsentFails, Invalidate, ServeCached,
         BeginQuery, Query, StoreRows, QueryFails, Untouched, Configured
<1>2. CASE CountsNone
  BY <1>1, <1>2, Zenon DEF CountsNone, Arrive, Prune, Restart, SetMerchantStatus, Tick, Untouched, Configured
<1> QED
  BY <1>1, <1>2, CountsOneOrNone, Zenon

\* CountMerchantRequest and PruneMerchantUsage: what happens to the counters.
LEMMA UsageStep ==
    ASSUME EdgeStep
    PROVE  \/ usage' = usage
           \/ \E r \in Requests : At(r, "count") /\ CountMerchantRequest(req[r].merchant, req[r].window)
           \/ \E i \in Instances : Prune(i)
<1>1. ASSUME NEW r \in Requests, HandlesOne(r) \/ Count(r)
      PROVE  \/ usage' = usage
             \/ At(r, "count") /\ CountMerchantRequest(req[r].merchant, req[r].window)
  BY <1>1, Zenon
     DEF HandlesOne, fairUse, Count, CountFails, Consent, ConsentFails, Invalidate, ServeCached,
         BeginQuery, Query, StoreRows, QueryFails
<1>2. CASE CountsNone
  BY <1>1, <1>2, Zenon DEF CountsNone, Arrive, Restart, SetMerchantStatus, Tick
<1> QED
  BY <1>1, <1>2, CountsOneOrNone, Zenon

\* The counters stay counters.
LEMMA UsageTyped ==
    ASSUME EdgeTypeOK, \A x \in Requests : Placed(req[x]) /\ Billed(req[x]), EdgeStep
    PROVE  usage' \in [Merchants -> [Windows -> Nat]]
<1>1. usage \in [Merchants -> [Windows -> Nat]]
  BY DEF EdgeTypeOK
<1>2. ASSUME NEW r \in Requests, At(r, "count"), CountMerchantRequest(req[r].merchant, req[r].window)
      PROVE  usage' \in [Merchants -> [Windows -> Nat]]
  <2>1. req[r].merchant \in Merchants /\ req[r].window \in Windows
    BY <1>2 DEF Placed, Billed, At, OfMerchant
  <2> QED
    BY <1>1, <1>2, <2>1 DEF CountMerchantRequest
<1>3. ASSUME NEW i \in Instances, Prune(i) PROVE usage' \in [Merchants -> [Windows -> Nat]]
  BY <1>1, <1>3 DEF Prune, PruneMerchantUsage
<1> QED
  BY <1>1, <1>2, <1>3, UsageStep, Zenon

\* What PublicDirectory and the consents are made of stays so.
LEMMA DirectoryTyped ==
    ASSUME EdgeTypeOK, \A x \in Requests : Placed(req[x]) /\ Billed(req[x]), EdgeStep
    PROVE  /\ consent' \subseteq Merchants /\ active' \subseteq Merchants
           /\ cached' \in [Instances -> [listed : SUBSET Merchants, expires : Int]]
           /\ publicMu' \in [Instances -> Requests \cup {Nobody}]
           /\ withdrawn' \in [Instances -> SUBSET Merchants]
<1> DEFINE Typed == /\ consent' \subseteq Merchants /\ active' \subseteq Merchants
                    /\ cached' \in [Instances -> [listed : SUBSET Merchants, expires : Int]]
                    /\ publicMu' \in [Instances -> Requests \cup {Nobody}]
                    /\ withdrawn' \in [Instances -> SUBSET Merchants]
<1>1. /\ consent \subseteq Merchants /\ active \subseteq Merchants
      /\ cached \in [Instances -> [listed : SUBSET Merchants, expires : Int]]
      /\ publicMu \in [Instances -> Requests \cup {Nobody}]
      /\ withdrawn \in [Instances -> SUBSET Merchants]
      /\ now \in Int /\ DirectoryTTL \in Int
  BY EdgeAssumption DEF EdgeTypeOK
<1>2. NoPage \in [listed : SUBSET Merchants, expires : Int]
  BY DEF NoPage
<1>3. ASSUME UNCHANGED <<consent, active, cached, publicMu, withdrawn>> PROVE Typed
  BY <1>1, <1>3
<1>4. ASSUME NEW r \in Requests, At(r, "consent"), Recorded(r) PROVE
             consent' \subseteq Merchants /\ withdrawn' \in [Instances -> SUBSET Merchants]
  <2>1. req[r].merchant \in Merchants
    BY <1>4 DEF At, Placed, OfMerchant
  <2>2. consent' \subseteq Merchants
    BY <1>1, <1>4, <2>1 DEF Recorded, SetConsent
  <2>3. withdrawn' \in [Instances -> SUBSET Merchants]
    BY <1>1, <1>4, <2>1 DEF Recorded
  <2> QED
    BY <2>2, <2>3
<1>5. ASSUME NEW r \in Requests, Consent(r) \/ ConsentFails(r) PROVE Typed
  <2>1. UNCHANGED <<active, cached, publicMu>> /\ At(r, "consent")
    BY <1>5, Zenon DEF Consent, ConsentFails
  <2>2. Recorded(r) \/ UNCHANGED <<consent, withdrawn>>
    BY <1>5, Zenon DEF Consent, ConsentFails
  <2> QED
    BY <1>1, <1>4, <2>1, <2>2
<1>6. ASSUME NEW r \in Requests, Invalidate(r) PROVE Typed
  <2>1. req[r].merchant \in Merchants /\ req[r].inst \in Instances
    BY <1>6 DEF Invalidate, At, Placed, OfMerchant
  <2>2. UNCHANGED <<consent, active, publicMu>>
    BY <1>6 DEF Invalidate
  <2>3. cached' \in [Instances -> [listed : SUBSET Merchants, expires : Int]]
    BY <1>1, <1>2, <1>6, <2>1, Zenon DEF Invalidate, invalidatePublicLeaderboard
  <2>4. withdrawn' \in [Instances -> SUBSET Merchants]
    BY <1>1, <1>6, <2>1 DEF Invalidate
  <2> QED
    BY <1>1, <2>2, <2>3, <2>4
<1>7. ASSUME NEW m \in Merchants, SetMerchantStatus(m) PROVE Typed
  <2>1. UNCHANGED <<consent, cached, publicMu, withdrawn>> /\ SetStatus(m)
    BY <1>7 DEF SetMerchantStatus
  <2> QED
    BY <1>1, <2>1 DEF SetStatus
<1>8. ASSUME NEW r \in Requests, BeginQuery(r) PROVE Typed
  <2>1. UNCHANGED <<consent, active, cached, withdrawn>> /\ Lock(req[r].inst, r)
    BY <1>8 DEF BeginQuery
  <2> QED
    BY <1>1, <2>1, Zenon DEF Lock
<1>9. ASSUME NEW i \in Instances, Unlock(i) PROVE publicMu' \in [Instances -> Requests \cup {Nobody}]
  BY <1>1, <1>9 DEF Unlock
<1>10. ASSUME NEW r \in Requests, StoreRows(r) PROVE Typed
  <2>1. UNCHANGED <<consent, active, withdrawn>> /\ Unlock(req[r].inst)
    BY <1>10 DEF StoreRows
  <2>2. req[r].rows \in SUBSET Merchants /\ req[r].inst \in Instances
    <3>1. req[r] \in Request
      BY DEF EdgeTypeOK
    <3> QED
      BY <1>10, <3>1 DEF StoreRows, At, Placed, OfDirectory, Request
  <2>3. cached' \in [Instances -> [listed : SUBSET Merchants, expires : Int]]
    <3> DEFINE page == [listed |-> req[r].rows, expires |-> now + DirectoryTTL]
    <3>1. page \in [listed : SUBSET Merchants, expires : Int]
      BY <1>1, <2>2
    <3>2. cached' = [cached EXCEPT ![req[r].inst] = page]
      BY <1>10, Zenon DEF StoreRows, StorePage
    <3> HIDE DEF page
    <3> QED
      BY <1>1, <3>1, <3>2, Zenon
  <2> QED
    BY <1>1, <1>9, <2>1, <2>2, <2>3
<1>11. ASSUME NEW r \in Requests, QueryFails(r) PROVE Typed
  <2>1. UNCHANGED <<consent, active, cached, withdrawn>> /\ Unlock(req[r].inst)
    BY <1>11, Zenon DEF QueryFails
  <2>2. req[r].inst \in Instances
    BY <1>11 DEF QueryFails, At, Placed, OfDirectory
  <2> QED
    BY <1>1, <1>9, <2>1, <2>2
<1>12. ASSUME NEW i \in Instances, Restart(i) PROVE Typed
  <2>1. UNCHANGED <<consent, active, withdrawn>> /\ Unlock(i)
    BY <1>12, Zenon DEF Restart
  <2>2. cached' \in [Instances -> [listed : SUBSET Merchants, expires : Int]]
    BY <1>1, <1>2, <1>12, Zenon DEF Restart
  <2> QED
    BY <1>1, <1>9, <2>1, <2>2
<1>13. ASSUME NEW r \in Requests,
              fairUse(r) \/ Count(r) \/ CountFails(r) \/ ServeCached(r) \/ Query(r)
       PROVE  UNCHANGED <<consent, active, cached, publicMu, withdrawn>>
  BY <1>13, Zenon DEF fairUse, Count, CountFails, ServeCached, Query, DirectoryElse
<1>14. ASSUME \/ \E r \in Requests, i \in Instances, m \in Merchants \cup {Nobody} : Arrive(r, i, m)
              \/ \E i \in Instances : Prune(i)
              \/ Tick
       PROVE  UNCHANGED <<consent, active, cached, publicMu, withdrawn>>
  BY <1>14, Zenon DEF Arrive, Prune, Tick, DirectoryElse
<1> QED
  BY <1>3, <1>5, <1>6, <1>7, <1>8, <1>10, <1>11, <1>12, <1>13, <1>14, Zenon
     DEF EdgeStep, HandlerStep

\* Every step keeps the types, the places and the charges.
LEMMA EdgeTypeStep ==
    ASSUME EdgeTypeOK, \A x \in Requests : Placed(req[x]) /\ Billed(req[x]), EdgeNext
    PROVE  EdgeTypeOK' /\ \A x \in Requests : Placed(req[x])' /\ Billed(req[x])'
<1>1. EdgeStep /\ listedAt' = [m \in Merchants |-> IF m \in Listable' THEN now' ELSE listedAt[m]]
  BY Zenon DEF EdgeNext
<1>2. req' \in [Requests -> Request] /\ \A x \in Requests : Placed(req[x])' /\ Billed(req[x])'
  <2>1. CASE CountsNone
    BY <2>1, RequestsMove, Zenon
  <2>2. ASSUME NEW r \in Requests, Count(r)
        PROVE  req' \in [Requests -> Request] /\ \A x \in Requests : Placed(req[x])' /\ Billed(req[x])'
    BY <2>2, CountMoves, Zenon
  <2> QED
    BY <1>1, <2>1, <2>2, CountsOneOrNone, Zenon
<1>3. now' \in 0..MaxTime
  <2>1. MaxTime \in Nat /\ now \in 0..MaxTime
    BY EdgeAssumption DEF EdgeTypeOK
  <2>2. CASE now' = now
    BY <2>1, <2>2
  <2>3. CASE Tick
    <3>1. now < MaxTime /\ now' = now + 1
      BY <2>3, Zenon DEF Tick
    <3> QED
      BY <2>1, <3>1
  <2> QED
    BY <1>1, <2>2, <2>3, SettingsStay, Zenon
<1>4. listedAt' \in [Merchants -> Int]
  <2>1. listedAt \in [Merchants -> Int] /\ now' \in Int
    BY <1>3 DEF EdgeTypeOK
  <2> QED
    BY <1>1, <2>1
<1>5. /\ limit' \in Nat /\ allowance' \in Nat
      /\ offset' \in [Instances -> 0..(2 * FairUseWindow - CountTime)]
  <2>1. limit' = limit /\ allowance' = allowance /\ offset' = offset
    BY <1>1, SettingsStay
  <2> QED
    BY <2>1, Zenon DEF EdgeTypeOK
<1>6. usage' \in [Merchants -> [Windows -> Nat]]
  BY <1>1, UsageTyped, Zenon
<1>7. /\ consent' \subseteq Merchants /\ active' \subseteq Merchants
      /\ cached' \in [Instances -> [listed : SUBSET Merchants, expires : Int]]
      /\ publicMu' \in [Instances -> Requests \cup {Nobody}]
      /\ withdrawn' \in [Instances -> SUBSET Merchants]
  BY <1>1, DirectoryTyped, Zenon
<1>8. EdgeTypeOK'
  BY <1>2, <1>3, <1>4, <1>5, <1>6, <1>7, Zenon DEF EdgeTypeOK
<1> QED
  BY <1>2, <1>8, Zenon

\* The oldest window that a request can still be counted in.
Oldest(t) == Truncate(t - CountTime)

\* PruneMerchantUsage: no instance's clock is so far ahead that it deletes the
\* row of a window that is still being written to.
LEMMA OpenWindowsStay ==
    ASSUME EdgeTypeOK, \A x \in Requests : Placed(req[x]) /\ Billed(req[x]), EdgeStep,
           NEW m \in Merchants, NEW w \in Windows, w >= Oldest(now)
    PROVE  usage'[m][w] >= usage[m][w]
<1>1. usage \in [Merchants -> [Windows -> Nat]] /\ usage[m][w] \in Nat
  BY DEF EdgeTypeOK
<1>2. CASE usage' = usage
  BY <1>1, <1>2
<1>3. ASSUME NEW r \in Requests, At(r, "count"), CountMerchantRequest(req[r].merchant, req[r].window)
      PROVE  usage'[m][w] >= usage[m][w]
  <2>1. req[r].merchant \in Merchants /\ req[r].window \in Windows
    BY <1>3 DEF Placed, Billed, At, OfMerchant
  <2>2. usage'[m][w] = IF m = req[r].merchant /\ w = req[r].window THEN usage[m][w] + 1 ELSE usage[m][w]
    BY <1>1, <1>3, <2>1 DEF CountMerchantRequest
  <2> QED
    BY <1>1, <2>2
<1>4. ASSUME NEW i \in Instances, Prune(i) PROVE usage'[m][w] >= usage[m][w]
  <2> DEFINE t == Clock(i) - 2 * FairUseWindow
  <2>1. usage'[m][w] = IF w < Truncate(t) THEN 0 ELSE usage[m][w]
    BY <1>4, Zenon DEF Prune, PruneMerchantUsage
  <2>2. /\ FairUseWindow \in Nat /\ CountTime \in Nat /\ MaxTime \in Nat
        /\ now \in 0..MaxTime /\ offset[i] \in 0..(2 * FairUseWindow - CountTime)
    BY EdgeAssumption DEF EdgeTypeOK
  <2>3. t \in Int /\ now - CountTime \in Int /\ t <= now - CountTime
    BY <2>2 DEF Clock
  <2> HIDE DEF t
  <2>4. Truncate(t) <= Oldest(now)
    BY <2>3, WindowsInOrder, Zenon DEF Oldest
  <2>5. Truncate(t) \in Int /\ Oldest(now) \in Int /\ w \in Int
    BY <2>2, <2>3, WindowStart DEF Oldest, Windows
  <2> QED
    BY <1>1, <2>1, <2>4, <2>5
<1> QED
  BY <1>2, <1>3, <1>4, UsageStep, Zenon

\* As time goes on, windows only close.
LEMMA WindowsClose ==
    ASSUME EdgeTypeOK, EdgeStep
    PROVE  Oldest(now) \in Int /\ Oldest(now)' \in Int /\ Oldest(now) <= Oldest(now)'
<1>1. CountTime \in Nat /\ now \in Nat
  BY EdgeAssumption DEF EdgeTypeOK
<1>2. now' \in Int /\ now <= now'
  <2>1. CASE now' = now
    BY <1>1, <2>1
  <2>2. CASE Tick
    <3>1. now' = now + 1
      BY <2>2, Zenon DEF Tick
    <3> QED
      BY <1>1, <3>1
  <2> QED
    BY <2>1, <2>2, SettingsStay, Zenon
<1>3. now - CountTime \in Int /\ now' - CountTime \in Int /\ now - CountTime <= now' - CountTime
  <2>1. \A s, t \in Int, d \in Nat : s <= t => s - d \in Int /\ t - d \in Int /\ s - d <= t - d
    OBVIOUS
  <2>2. now \in Int
    BY <1>1
  <2> QED
    BY <1>1, <1>2, <2>1, <2>2, Zenon
<1>4. Truncate(now - CountTime) \in Int /\ Truncate(now' - CountTime) \in Int
        /\ Truncate(now - CountTime) <= Truncate(now' - CountTime)
  BY <1>3, WindowStart, WindowsInOrder, Zenon
<1> QED
  BY <1>4, Zenon DEF Oldest

\* What counts no request admits none.
LEMMA NoneAdmitted ==
    ASSUME EdgeTypeOK, \A x \in Requests : Placed(req[x]) /\ Billed(req[x]), CountsNone,
           allowance > 0, NEW m \in Merchants, NEW w \in Windows
    PROVE  Admitted(m, w)' = Admitted(m, w)
<1>1. \A x \in Requests : KeepsCharge(req[x], req'[x])
  BY RequestsMove, Zenon
<1>2. ASSUME NEW x \in Requests
      PROVE  x \in Admitted(m, w)' <=> x \in Admitted(m, w)
  BY <1>1 DEF KeepsCharge, Admitted, Charged
<1>3. Admitted(m, w) \subseteq Requests /\ Admitted(m, w)' \subseteq Requests
  BY DEF Admitted, Charged
<1> QED
  BY <1>2, <1>3, Zenon

\* CountMerchantRequest: a request that is counted is admitted unless it exceeds
\* the allowance, and to its own window only.
LEMMA OneAdmitted ==
    ASSUME EdgeTypeOK, \A x \in Requests : Placed(req[x]) /\ Billed(req[x]),
           NEW r \in Requests, Count(r),
           allowance > 0, NEW m \in Merchants, NEW w \in Windows
    PROVE  /\ r \notin Admitted(m, w)
           /\ Admitted(m, w)' =
                IF m = req[r].merchant /\ w = req[r].window /\ ~Exceeded(m, w)
                THEN Admitted(m, w) \cup {r} ELSE Admitted(m, w)
<1>1. req[r].charged = "no"
  BY DEF Count, At, Billed
<1>2. /\ \A x \in Requests \ {r} : req'[x] = req[x]
      /\ req'[r].charged = "yes" /\ req'[r].window = req[r].window
      /\ req'[r].merchant = req[r].merchant
      /\ req'[r].answer = "exceeded" <=> Exceeded(req[r].merchant, req[r].window)
  BY CountMoves, Zenon
<1>3. r \notin Admitted(m, w)
  BY <1>1 DEF Admitted, Charged
<1>4. ASSUME NEW x \in Requests \ {r}
      PROVE  x \in Admitted(m, w)' <=> x \in Admitted(m, w)
  BY <1>2 DEF Admitted, Charged
<1>5. r \in Admitted(m, w)' <=> m = req[r].merchant /\ w = req[r].window /\ ~Exceeded(m, w)
  BY <1>2 DEF Admitted, Charged
<1>6. Admitted(m, w) \subseteq Requests /\ Admitted(m, w)' \subseteq Requests
  BY DEF Admitted, Charged
<1> HIDE DEF Admitted
<1> QED
  BY <1>3, <1>4, <1>5, <1>6

\* The counters keep covering what was let through, and that the allowance.
LEMMA CoveredStep ==
    ASSUME AllowanceInv, EdgeNext
    PROVE  Covered'
<1>1. /\ EdgeTypeOK /\ EdgeStep /\ EdgeTypeOK'
      /\ \A x \in Requests : Placed(req[x]) /\ Billed(req[x])
  BY EdgeTypeStep, Zenon DEF AllowanceInv, EdgeNext
<1>2. allowance' = allowance
  BY <1>1, SettingsStay
<1> SUFFICES ASSUME allowance > 0, NEW m \in Merchants, NEW w \in Windows
             PROVE  /\ IsFiniteSet(Admitted(m, w)') /\ Cardinality(Admitted(m, w)') <= allowance
                    /\ w >= Oldest(now)' => Cardinality(Admitted(m, w)') <= usage'[m][w]
  BY <1>2, Zenon DEF Covered, Oldest
<1> DEFINE A == Admitted(m, w)
           B == Admitted(m, w)'
           n == Cardinality(A)
<1>3. /\ IsFiniteSet(A) /\ n <= allowance
      /\ w >= Oldest(now) => n <= usage[m][w]
  BY Zenon DEF AllowanceInv, Covered, Oldest
<1>4. n \in Nat /\ allowance \in Nat /\ usage[m][w] \in Nat /\ usage'[m][w] \in Nat
  <2>1. n \in Nat
    BY <1>3, FS_CardinalityType
  <2> QED
    BY <1>1, <2>1 DEF EdgeTypeOK
<1>5. w \in Int /\ Oldest(now) \in Int /\ Oldest(now)' \in Int /\ Oldest(now) <= Oldest(now)'
  BY <1>1, WindowsClose DEF Windows
<1>6. w >= Oldest(now) => usage'[m][w] >= usage[m][w]
  BY <1>1, OpenWindowsStay, Zenon
<1> HIDE DEF A, B
<1>7. CASE B = A
  <2>1. w >= Oldest(now)' => n <= usage'[m][w]
    BY <1>3, <1>4, <1>5, <1>6
  <2> QED
    BY <1>3, <1>7, <2>1 DEF B
<1>8. ASSUME NEW r \in Requests, Count(r), m = req[r].merchant, w = req[r].window, ~Exceeded(m, w),
             r \notin A, B = A \cup {r}
      PROVE  /\ IsFiniteSet(B) /\ Cardinality(B) <= allowance
             /\ w >= Oldest(now)' => Cardinality(B) <= usage'[m][w]
  <2>1. IsFiniteSet(B) /\ Cardinality(B) = n + 1
    BY <1>3, <1>8, FS_AddElement
  <2>2. usage[m][w] + 1 <= allowance
    BY <1>4, <1>8 DEF Exceeded
  <2>3. usage'[m][w] = usage[m][w] + 1
    <3>1. usage \in [Merchants -> [Windows -> Nat]]
      BY <1>1 DEF EdgeTypeOK
    <3>2. usage' = [usage EXCEPT ![m][w] = @ + 1]
      BY <1>8, Zenon DEF Count, CountMerchantRequest
    <3> QED
      BY <3>1, <3>2
  <2>4. w >= Oldest(now)
    <3>1. req[r].began \in Nat /\ now \in Nat /\ CountTime \in Nat
      <4>1. req[r] \in Request
        BY <1>1 DEF EdgeTypeOK
      <4>2. req[r].began \in Nat
        BY <4>1 DEF Request
      <4> QED
        BY <1>1, <4>2, EdgeAssumption DEF EdgeTypeOK
    <3>2. now - req[r].began <= CountTime /\ Truncate(req[r].began) <= w
      BY <1>1, <1>8 DEF Count, At, Placed, Billed
    <3>3. now - CountTime \in Int /\ req[r].began \in Int /\ now - CountTime <= req[r].began
      BY <3>1, <3>2
    <3>4. Oldest(now) <= Truncate(req[r].began) /\ Truncate(req[r].began) \in Int
      BY <3>3, WindowsInOrder, WindowStart, Zenon DEF Oldest
    <3> QED
      BY <1>5, <3>2, <3>4
  <2>5. n <= usage[m][w]
    BY <1>3, <2>4
  <2> QED
    BY <1>4, <2>1, <2>2, <2>3, <2>5
<1>9. CASE CountsNone
  <2>1. B = A
    BY <1>1, <1>9, NoneAdmitted, Zenon DEF A, B
  <2> QED
    BY <1>7, <2>1, Zenon
<1>10. ASSUME NEW r \in Requests, Count(r)
       PROVE  /\ IsFiniteSet(B) /\ Cardinality(B) <= allowance
              /\ w >= Oldest(now)' => Cardinality(B) <= usage'[m][w]
  <2>1. /\ r \notin A
        /\ B = IF m = req[r].merchant /\ w = req[r].window /\ ~Exceeded(m, w) THEN A \cup {r} ELSE A
    BY <1>1, <1>10, OneAdmitted, Zenon DEF A, B
  <2>2. CASE m = req[r].merchant /\ w = req[r].window /\ ~Exceeded(m, w)
    BY <1>8, <1>10, <2>1, <2>2, Zenon
  <2>3. CASE ~(m = req[r].merchant /\ w = req[r].window /\ ~Exceeded(m, w))
    BY <1>7, <2>1, <2>3, Zenon DEF B
  <2> QED
    BY <2>2, <2>3, Zenon
<1> QED
  BY <1>1, <1>9, <1>10, CountsOneOrNone, Zenon DEF B

\* A window that nobody was charged to admitted nobody.
LEMMA AllowanceFollows == AllowanceInv => AllowanceHolds
<1> SUFFICES ASSUME AllowanceInv, NEW m \in Merchants, NEW r \in Requests, allowance > 0
             PROVE  Cardinality(Admitted(m, req[r].window)) <= allowance
  BY Zenon DEF AllowanceHolds
<1> DEFINE w == req[r].window
<1>1. CASE w \in Windows
  BY <1>1, Zenon DEF AllowanceInv, Covered
<1>2. CASE w \notin Windows
  <2>1. Admitted(m, w) = {}
    BY <1>2 DEF AllowanceInv, Billed, Admitted, Charged
  <2>2. allowance \in Nat
    BY DEF AllowanceInv, EdgeTypeOK
  <2> QED
    BY <2>1, <2>2, FS_EmptySet
<1> QED
  BY <1>1, <1>2, Zenon

\* newRateLimiter and the rest: a fresh deployment.
LEMMA EdgeStarts == EdgeInit => AllowanceInv
<1> SUFFICES ASSUME EdgeInit PROVE AllowanceInv
  OBVIOUS
<1>1. PICK s \in Settings : /\ consent = s.listed /\ limit = s.limit /\ allowance = s.allowance
                            /\ req = [r \in Requests |-> [New EXCEPT !.route = s.asks[r]]]
  BY Zenon DEF EdgeInit
<1>2. s.limit \in Nat /\ s.allowance \in Nat /\ s.listed \in SUBSET Merchants /\ s.asks \in [Requests -> Routes]
  <2>1. s \in [limit : Nat, allowance : Nat, listed : SUBSET Merchants, asks : [Requests -> Routes]]
    BY EdgeAssumption
  <2> QED
    BY <2>1
<1>3. New \in Request
  BY DEF New, Request, NoAnswer, Routes, Charges
<1>4. ASSUME NEW r \in Requests
      PROVE  /\ req[r] \in Request /\ req[r].pc = "new" /\ req[r].charged = "no"
             /\ req[r].answer = NoAnswer
  <2> DEFINE c == s.asks[r]
  <2>1. c \in Routes
    BY <1>2
  <2>2. req[r] = [New EXCEPT !.route = c]
    BY <1>1, Zenon
  <2> HIDE DEF c
  <2>3. req[r] \in Request
    BY <1>3, <2>1, <2>2, Zenon DEF Request
  <2>4. req[r].pc = "new" /\ req[r].charged = "no" /\ req[r].answer = NoAnswer
    BY <2>2 DEF New
  <2> QED
    BY <2>3, <2>4
<1>5. req \in [Requests -> Request]
  BY <1>1, <1>4, Zenon
<1>6. EdgeTypeOK
  <2>1. /\ now = 0 /\ usage = [m \in Merchants |-> [w \in Windows |-> 0]] /\ active = Merchants
        /\ cached = [i \in Instances |-> NoPage] /\ publicMu = [i \in Instances |-> Nobody]
        /\ listedAt = [m \in Merchants |-> IF m \in consent THEN 0 ELSE NeverListed]
        /\ withdrawn = [i \in Instances |-> {}]
    BY Zenon DEF EdgeInit, UsageInit, DirectoryInit
  <2>2. offset \in [Instances -> 0..(2 * FairUseWindow - CountTime)]
    BY EdgeAssumption, Zenon DEF EdgeInit
  <2>3. now \in 0..MaxTime
    BY <2>1, EdgeAssumption
  <2>4. usage \in [Merchants -> [Windows -> Nat]]
    BY <2>1
  <2>5. NeverListed \in Int
    BY EdgeAssumption DEF NeverListed
  <2>6. listedAt \in [Merchants -> Int]
    BY <2>1, <2>5
  <2>7. cached \in [Instances -> [listed : SUBSET Merchants, expires : Int]]
    BY <2>1 DEF NoPage
  <2>8. publicMu \in [Instances -> Requests \cup {Nobody}] /\ withdrawn \in [Instances -> SUBSET Merchants]
    BY <2>1
  <2>9. limit \in Nat /\ allowance \in Nat /\ consent \subseteq Merchants /\ active \subseteq Merchants
    BY <1>1, <1>2, <2>1
  <2> QED
    BY <1>5, <2>2, <2>3, <2>4, <2>6, <2>7, <2>8, <2>9, Zenon DEF EdgeTypeOK
<1>7. ASSUME NEW r \in Requests PROVE Placed(req[r]) /\ Billed(req[r])
  BY <1>4 DEF Placed, Billed, OfMerchant, OfDirectory
<1>8. ASSUME NEW m \in Merchants, NEW w \in Windows PROVE Admitted(m, w) = {}
  BY <1>4 DEF Admitted, Charged
<1>9. Covered
  <2>1. \A n \in Nat : 0 <= n
    OBVIOUS
  <2>2. allowance \in Nat /\ \A m \in Merchants, w \in Windows : usage[m][w] \in Nat
    BY <1>6 DEF EdgeTypeOK
  <2>3. IsFiniteSet({}) /\ Cardinality({}) = 0
    BY FS_EmptySet, Zenon
  <2> QED
    BY <1>8, <2>1, <2>2, <2>3, Zenon DEF Covered
<1> QED
  BY <1>6, <1>7, <1>9, Zenon DEF AllowanceInv

\* A step that changes nothing.
LEMMA AllowanceStutters == AllowanceInv /\ UNCHANGED vars => AllowanceInv'
<1> SUFFICES ASSUME AllowanceInv, UNCHANGED vars PROVE AllowanceInv'
  OBVIOUS
<1>1. /\ now' = now /\ limit' = limit /\ allowance' = allowance /\ offset' = offset /\ usage' = usage
      /\ consent' = consent /\ active' = active /\ cached' = cached /\ publicMu' = publicMu
      /\ req' = req /\ listedAt' = listedAt /\ withdrawn' = withdrawn
  BY DEF vars
<1> QED
  BY <1>1, Zenon DEF AllowanceInv, EdgeTypeOK, Covered, Admitted, Charged, Placed, Billed

\* The edge: what holds of the allowance and the counters in every state.
THEOREM AllowanceInvariant == EdgeSpec => []AllowanceInv
<1>1. AllowanceInv /\ EdgeNext => AllowanceInv'
  <2> SUFFICES ASSUME AllowanceInv, EdgeNext PROVE AllowanceInv'
    OBVIOUS
  <2>1. EdgeTypeOK' /\ \A x \in Requests : Placed(req[x])' /\ Billed(req[x])'
    BY EdgeTypeStep, Zenon DEF AllowanceInv
  <2> QED
    BY <2>1, CoveredStep, Zenon DEF AllowanceInv
<1> QED
  BY <1>1, EdgeStarts, AllowanceStutters, PTL DEF EdgeSpec

\* CountMerchantRequest and PruneMerchantUsage: all instances together admit no
\* more of a merchant's requests to a window than its allowance, however far
\* their clocks are apart within what pruning allows for.
THEOREM AllowanceIsShared == EdgeSpec => []AllowanceHolds
  BY AllowanceInvariant, AllowanceFollows, PTL

-----------------------------------------------------------------------------
(* The directory                                                           *)

\* A handler moves its own request only.
LEMMA OthersStay ==
    ASSUME EdgeTypeOK, NEW r \in Requests, NEW q \in Request, MovesTo(r, q), NEW x \in Requests
    PROVE  req'[x] = IF x = r THEN q ELSE req[x]
<1>1. req \in [Requests -> Request] /\ req' = [req EXCEPT ![r] = q]
  BY Zenon DEF EdgeTypeOK, MovesTo
<1> QED
  BY <1>1

\* PublicLeaderboard: a request waits for the query because it did, or because
\* it begins or goes on to.
LEMMA WhoQueries ==
    ASSUME EdgeTypeOK, \A y \in Requests : Placed(req[y]) /\ Billed(req[y]), EdgeStep,
           NEW x \in Requests, req'[x].pc \in {"query", "rows"}
    PROVE  req'[x] = req[x] \/ BeginQuery(x) \/ Query(x)
<1>1. ASSUME NEW r \in Requests, NEW i \in Instances, NEW m \in Merchants \cup {Nobody}, Arrive(r, i, m)
      PROVE  req'[x] = req[x]
  <2>1. PICK q \in Request : MovesTo(r, q) /\ q.pc \in {"explore", "authenticated", "done"}
    BY <1>1, ArriveMoves, Zenon DEF MovesTo
  <2>2. req'[x] = IF x = r THEN q ELSE req[x]
    BY <2>1, OthersStay, Zenon
  <2> QED
    BY <2>1, <2>2
<1>2. ASSUME NEW r \in Requests, HandlesOne(r)
      PROVE  req'[x] = req[x] \/ BeginQuery(x) \/ Query(x)
  <2>1. PICK q \in Request : MovesTo(r, q) /\ (q.pc \in {"query", "rows"} => BeginQuery(r) \/ Query(r))
    BY <1>2, HandlerMoves, Zenon
  <2>2. req'[x] = IF x = r THEN q ELSE req[x]
    BY <2>1, OthersStay, Zenon
  <2> QED
    BY <2>1, <2>2, Zenon
<1>3. ASSUME NEW i \in Instances, Restart(i) PROVE req'[x] = req[x]
  <2>1. req'[x] = req[x] \/ req'[x].pc = "done"
    BY <1>3, RestartMoves, Zenon
  <2> QED
    BY <2>1
<1>4. ASSUME Tick PROVE req'[x] = req[x]
  <2>1. req'[x] = req[x] \/ req'[x].pc = "done"
    BY <1>4, TickMoves, Zenon
  <2> QED
    BY <2>1
<1>5. ASSUME (\E i \in Instances : Prune(i)) \/ \E m \in Merchants : SetMerchantStatus(m)
      PROVE  req'[x] = req[x]
  <2>1. req' = req
    BY <1>5, Zenon DEF Prune, SetMerchantStatus
  <2> QED
    BY <2>1
<1>6. ASSUME NEW r \in Requests, Count(r) PROVE req'[x] = req[x]
  <2>1. req'[r].pc \notin {"query", "rows"} /\ \A y \in Requests \ {r} : req'[y] = req[y]
    BY <1>6, CountMoves, Zenon
  <2> QED
    BY <2>1
<1> QED
  BY <1>1, <1>2, <1>3, <1>4, <1>5, <1>6, CountsOneOrNone, Zenon DEF CountsNone

\* PublicLeaderboard: only there is a page listed.
LEMMA WhoLists ==
    ASSUME EdgeTypeOK, \A y \in Requests : Placed(req[y]) /\ Billed(req[y]), EdgeStep,
           NEW x \in Requests, Lists(x)
    PROVE  ServeCached(x) \/ StoreRows(x)
<1>0. req'[x].answer = "listed" /\ req'[x] # req[x] /\ ~At(x, "done")
  <2>1. req[x].answer = NoAnswer
    BY DEF Lists, At, Billed
  <2> QED
    BY <2>1 DEF Lists, NoAnswer
<1>1. ASSUME NEW r \in Requests, NEW i \in Instances, NEW m \in Merchants \cup {Nobody}, Arrive(r, i, m)
      PROVE  FALSE
  <2>1. PICK q \in Request : MovesTo(r, q) /\ q.answer # "listed"
    BY <1>1, ArriveMoves, Zenon DEF MovesTo
  <2>2. req'[x] = IF x = r THEN q ELSE req[x]
    BY <2>1, OthersStay, Zenon
  <2> QED
    BY <1>0, <2>1, <2>2
<1>2. ASSUME NEW r \in Requests, HandlesOne(r)
      PROVE  ServeCached(x) \/ StoreRows(x)
  <2>1. PICK q \in Request : MovesTo(r, q) /\ (q.answer = "listed" => ServeCached(r) \/ StoreRows(r))
    BY <1>2, HandlerMoves, Zenon
  <2>2. req'[x] = IF x = r THEN q ELSE req[x]
    BY <2>1, OthersStay, Zenon
  <2> QED
    BY <1>0, <2>1, <2>2, Zenon
<1>3. ASSUME NEW i \in Instances, Restart(i) PROVE FALSE
  <2>1. req'[x] = req[x] \/ req'[x].answer = "served"
    BY <1>3, RestartMoves, Zenon
  <2> QED
    BY <1>0, <2>1
<1>4. ASSUME Tick PROVE FALSE
  <2>1. req'[x] = req[x] \/ At(x, "done")
    BY <1>4, TickMoves, Zenon
  <2> QED
    BY <1>0, <2>1
<1>5. ASSUME (\E i \in Instances : Prune(i)) \/ \E m \in Merchants : SetMerchantStatus(m)
      PROVE  FALSE
  <2>1. req' = req
    BY <1>5, Zenon DEF Prune, SetMerchantStatus
  <2> QED
    BY <1>0, <2>1
<1>6. ASSUME NEW r \in Requests, Count(r) PROVE FALSE
  <2>1. req'[r].answer # "listed" /\ \A y \in Requests \ {r} : req'[y] = req[y]
    BY <1>6, CountMoves, Zenon
  <2> QED
    BY <1>0, <2>1
<1> QED
  BY <1>1, <1>2, <1>3, <1>4, <1>5, <1>6, CountsOneOrNone, Zenon DEF CountsNone

\* What happens to the mutexes, the pages and the consents.
LEMMA DirectoryStep ==
    ASSUME EdgeStep
    PROVE  /\ \/ publicMu' = publicMu
              \/ \E r \in Requests : BeginQuery(r) \/ StoreRows(r) \/ QueryFails(r)
              \/ \E i \in Instances : Restart(i)
           /\ \/ cached' = cached
              \/ \E r \in Requests : Invalidate(r) \/ StoreRows(r)
              \/ \E i \in Instances : Restart(i)
           /\ \/ consent' = consent /\ withdrawn' = withdrawn
              \/ \E r \in Requests : Invalidate(r) \/ (Recorded(r) /\ cached' = cached)
<1>1. ASSUME NEW r \in Requests,
             fairUse(r) \/ Count(r) \/ CountFails(r) \/ ServeCached(r) \/ Query(r)
      PROVE  consent' = consent /\ cached' = cached /\ publicMu' = publicMu /\ withdrawn' = withdrawn
  BY <1>1, Zenon DEF fairUse, Count, CountFails, ServeCached, Query, DirectoryElse
<1>2. ASSUME \/ \E r \in Requests, i \in Instances, m \in Merchants \cup {Nobody} : Arrive(r, i, m)
             \/ \E i \in Instances : Prune(i)
             \/ \E m \in Merchants : SetMerchantStatus(m)
             \/ Tick
      PROVE  consent' = consent /\ cached' = cached /\ publicMu' = publicMu /\ withdrawn' = withdrawn
  BY <1>2, Zenon DEF Arrive, Prune, Tick, SetMerchantStatus, DirectoryElse
<1>3. ASSUME NEW r \in Requests, Consent(r) \/ ConsentFails(r)
      PROVE  /\ publicMu' = publicMu /\ cached' = cached
             /\ Recorded(r) \/ (consent' = consent /\ withdrawn' = withdrawn)
  BY <1>3, Zenon DEF Consent, ConsentFails
<1>4. ASSUME NEW r \in Requests, BeginQuery(r) \/ QueryFails(r)
      PROVE  consent' = consent /\ cached' = cached /\ withdrawn' = withdrawn
  BY <1>4, Zenon DEF BeginQuery, QueryFails
<1>5. ASSUME NEW r \in Requests, StoreRows(r) PROVE consent' = consent /\ withdrawn' = withdrawn
  BY <1>5, Zenon DEF StoreRows
<1>6. ASSUME NEW i \in Instances, Restart(i) PROVE consent' = consent /\ withdrawn' = withdrawn
  BY <1>6, Zenon DEF Restart
<1>7. ASSUME NEW r \in Requests, Invalidate(r) PROVE publicMu' = publicMu
  BY <1>7, Zenon DEF Invalidate
<1> QED
  BY <1>1, <1>2, <1>3, <1>4, <1>5, <1>6, <1>7, Zenon DEF EdgeStep, HandlerStep

\* PublicLeaderboard: the mutex is held across the query.
LEMMA QueriedStep ==
    ASSUME DirectoryInv, EdgeNext
    PROVE  Queried'
<1>1. /\ EdgeTypeOK /\ EdgeStep /\ Queried
      /\ \A y \in Requests : Placed(req[y]) /\ Billed(req[y])
  BY Zenon DEF DirectoryInv, AllowanceInv, EdgeNext
<1>2. publicMu \in [Instances -> Requests \cup {Nobody}] /\ req \in [Requests -> Request]
  BY <1>1 DEF EdgeTypeOK
<1> SUFFICES ASSUME NEW x \in Requests, req'[x].pc \in {"query", "rows"}
             PROVE  publicMu'[req'[x].inst] = x
  BY DEF Queried, At
<1> DEFINE i == req[x].inst
<1>3. CASE BeginQuery(x)
  <2>1. i \in Instances /\ Lock(i, x) /\ Wait(x, "query")
    BY <1>1, <1>3 DEF BeginQuery, At, Placed, OfDirectory
  <2>2. req'[x].inst = i
    BY <1>2, <2>1 DEF Wait, Request
  <2> QED
    BY <1>2, <2>1, <2>2 DEF Lock
<1>4. CASE Query(x)
  <2>1. publicMu[i] = x
    BY <1>1, <1>4 DEF Query, Queried, At
  <2>2. publicMu' = publicMu /\ req' = [req EXCEPT ![x].pc = "rows", ![x].rows = Listable]
    BY <1>4, Zenon DEF Query, DirectoryElse
  <2>3. req'[x].inst = i
    BY <1>2, <2>2 DEF Request
  <2> QED
    BY <2>1, <2>2, <2>3
<1>5. CASE req'[x] = req[x]
  <2>1. publicMu[i] = x /\ i \in Instances /\ x # Nobody
    BY <1>1, <1>5, EdgeAssumption DEF Queried, At, Placed, OfDirectory
  <2>2. CASE publicMu' = publicMu
    BY <1>5, <2>1, <2>2
  <2>3. ASSUME NEW r \in Requests, BeginQuery(r) PROVE publicMu'[i] = x
    <3>1. publicMu[req[r].inst] = Nobody /\ publicMu' = [publicMu EXCEPT ![req[r].inst] = r]
      BY <2>3, Zenon DEF BeginQuery, Lock
    <3> QED
      BY <1>2, <2>1, <3>1
  <2>4. ASSUME NEW r \in Requests, StoreRows(r) \/ QueryFails(r) PROVE publicMu'[i] = x
    <3>1. At(r, "query") \/ At(r, "rows")
      BY <2>4, Zenon DEF StoreRows, QueryFails
    <3>2. publicMu[req[r].inst] = r
      BY <1>1, <3>1, Zenon DEF Queried
    <3>3. r # x
      <4>1. Answer(r, "listed") \/ Answer(r, "served")
        BY <2>4, Zenon DEF StoreRows, QueryFails
      <4>2. PICK a \in Answers : req' = [req EXCEPT ![r] = Answered(req[r], a)]
        BY <4>1 DEF Answer, Answers
      <4>3. req[r] \in Request /\ limit \in Nat /\ allowance \in Nat
        BY <1>1 DEF EdgeTypeOK
      <4>4. Answered(req[r], a).pc = "done"
        BY <4>2, <4>3, WhatIsLeft, Zenon
      <4>5. req'[r].pc = "done"
        BY <1>2, <4>2, <4>4, Zenon
      <4> QED
        BY <4>5
    <3>4. publicMu' = [publicMu EXCEPT ![req[r].inst] = Nobody]
      BY <2>4, Zenon DEF StoreRows, QueryFails, Unlock
    <3> QED
      BY <1>2, <2>1, <3>2, <3>3, <3>4
  <2>5. ASSUME NEW j \in Instances, Restart(j) PROVE publicMu'[i] = x
    <3>1. i # j
      <4> SUFFICES ASSUME i = j PROVE FALSE
        OBVIOUS
      <4>1. ~At(x, "done")
        BY <1>5 DEF At
      <4>2. req'[x] = Answered(req[x], "served")
        BY <2>5, <4>1, Zenon DEF Restart
      <4>3. req[x] \in Request /\ limit \in Nat /\ allowance \in Nat /\ "served" \in Answers
        BY <1>1 DEF EdgeTypeOK, Answers
      <4>4. Answered(req[x], "served").pc = "done"
        BY <4>3, WhatIsLeft, Zenon
      <4> QED
        BY <4>2, <4>4
    <3>2. publicMu' = [publicMu EXCEPT ![j] = Nobody]
      BY <2>5, Zenon DEF Restart, Unlock
    <3> QED
      BY <1>2, <2>1, <3>1, <3>2
  <2>6. publicMu'[i] = x
    BY <1>1, <2>2, <2>3, <2>4, <2>5, <2>1, DirectoryStep, Zenon
  <2> QED
    BY <1>5, <2>6
<1> QED
  BY <1>1, <1>3, <1>4, <1>5, WhoQueries, Zenon

\* setPublicProfileConsent: the page that is dropped, and that no query is under
\* way when it is, are what keeps those who withdrew off the pages.
LEMMA UnlistedStep ==
    ASSUME DirectoryInv, EdgeNext
    PROVE  Unlisted'
<1>1. /\ EdgeTypeOK /\ EdgeStep /\ Queried /\ Unlisted
      /\ \A y \in Requests : Placed(req[y]) /\ Billed(req[y])
  BY Zenon DEF DirectoryInv, AllowanceInv, EdgeNext
<1>2. /\ withdrawn \in [Instances -> SUBSET Merchants] /\ req \in [Requests -> Request]
      /\ cached \in [Instances -> [listed : SUBSET Merchants, expires : Int]]
  BY <1>1 DEF EdgeTypeOK
<1>3. ASSUME NEW r \in Requests, Recorded(r), NEW i \in Instances
      PROVE  withdrawn'[i] \cap consent' = {} /\ withdrawn'[i] \subseteq withdrawn[i]
  BY <1>1, <1>3 DEF Recorded, SetConsent, Unlisted
<1>4. ASSUME NEW r \in Requests, Invalidate(r), NEW i \in Instances
      PROVE  /\ consent' = consent
             /\ IF i = req[r].inst
                THEN /\ publicMu[i] = Nobody /\ cached'[i].listed = {}
                     /\ withdrawn'[i] = withdrawn[i] \cup ({req[r].merchant} \ consent)
                ELSE cached'[i] = cached[i] /\ withdrawn'[i] = withdrawn[i]
  <2>1. /\ consent' = consent /\ publicMu[req[r].inst] = Nobody
        /\ cached' = [cached EXCEPT ![req[r].inst] = NoPage]
        /\ withdrawn' = [withdrawn EXCEPT ![req[r].inst] = @ \cup ({req[r].merchant} \ consent)]
    BY <1>4, Zenon DEF Invalidate, invalidatePublicLeaderboard
  <2>2. NoPage.listed = {}
    BY DEF NoPage
  <2> QED
    BY <1>2, <2>1, <2>2
<1>5. ASSUME NEW i \in Instances PROVE withdrawn'[i] \cap consent' = {}
  <2>1. CASE consent' = consent /\ withdrawn' = withdrawn
    BY <1>1, <2>1 DEF Unlisted
  <2>2. ASSUME NEW r \in Requests, Invalidate(r) PROVE withdrawn'[i] \cap consent' = {}
    BY <1>1, <1>4, <2>2 DEF Unlisted
  <2> QED
    BY <1>1, <1>3, <2>1, <2>2, DirectoryStep, Zenon
<1>6. ASSUME NEW i \in Instances PROVE withdrawn'[i] \cap cached'[i].listed = {}
  <2>1. withdrawn[i] \cap cached[i].listed = {}
    BY <1>1 DEF Unlisted
  <2>2. ASSUME NEW r \in Requests, Invalidate(r) PROVE withdrawn'[i] \cap cached'[i].listed = {}
    BY <1>4, <2>1, <2>2
  <2>3. CASE cached' = cached /\ \A r \in Requests : ~Invalidate(r)
    <3>1. withdrawn'[i] \subseteq withdrawn[i]
      BY <1>1, <1>3, <2>3, DirectoryStep
    <3> QED
      BY <2>1, <2>3, <3>1
  <2>4. ASSUME NEW r \in Requests, StoreRows(r) PROVE withdrawn'[i] \cap cached'[i].listed = {}
    <3> DEFINE page == [listed |-> req[r].rows, expires |-> now + DirectoryTTL]
    <3>1. cached' = [cached EXCEPT ![req[r].inst] = page] /\ withdrawn' = withdrawn
      BY <2>4, Zenon DEF StoreRows, StorePage
    <3>2. page.listed = req[r].rows
      OBVIOUS
    <3> HIDE DEF page
    <3>3. withdrawn[req[r].inst] \cap req[r].rows = {}
      BY <1>1, <2>4, Zenon DEF StoreRows, Unlisted
    <3>4. CASE i = req[r].inst
      BY <1>2, <3>1, <3>2, <3>3, <3>4
    <3>5. CASE i # req[r].inst
      BY <1>2, <2>1, <3>1, <3>5
    <3> QED
      BY <3>4, <3>5
  <2>5. ASSUME NEW j \in Instances, Restart(j) PROVE withdrawn'[i] \cap cached'[i].listed = {}
    <3>1. cached' = [cached EXCEPT ![j] = NoPage] /\ withdrawn' = withdrawn
      BY <2>5, Zenon DEF Restart
    <3>2. NoPage.listed = {}
      BY DEF NoPage
    <3> QED
      BY <1>2, <2>1, <3>1, <3>2
  <2> QED
    BY <1>1, <2>2, <2>3, <2>4, <2>5, DirectoryStep, Zenon
<1>7. ASSUME NEW x \in Requests, req'[x].pc = "rows"
      PROVE  withdrawn'[req'[x].inst] \cap req'[x].rows = {}
  <2>1. CASE Query(x)
    <3>1. /\ req' = [req EXCEPT ![x].pc = "rows", ![x].rows = Listable] /\ withdrawn' = withdrawn
          /\ At(x, "query")
      BY <2>1, Zenon DEF Query
    <3>2. req'[x].inst = req[x].inst /\ req'[x].rows = Listable
      BY <1>2, <3>1 DEF Request
    <3>3. req[x].inst \in Instances
      BY <1>1, <3>1 DEF At, Placed, OfDirectory
    <3>4. withdrawn[req[x].inst] \cap consent = {}
      BY <1>1, <3>3 DEF Unlisted
    <3>5. withdrawn[req[x].inst] \cap Listable = {}
      BY <3>4, Zenon DEF Listable
    <3> QED
      BY <3>1, <3>2, <3>5, Zenon
  <2>2. CASE req'[x] = req[x]
    <3>1. /\ req[x].inst \in Instances /\ publicMu[req[x].inst] = x /\ x # Nobody
          /\ withdrawn[req[x].inst] \cap req[x].rows = {}
      BY <1>1, <1>7, <2>2, EdgeAssumption DEF Queried, Unlisted, At, Placed, OfDirectory
    <3>2. withdrawn'[req[x].inst] \subseteq withdrawn[req[x].inst]
      <4>1. ASSUME NEW r \in Requests, Invalidate(r)
            PROVE  withdrawn'[req[x].inst] = withdrawn[req[x].inst]
        BY <1>4, <3>1, <4>1
      <4>2. CASE withdrawn' = withdrawn
        BY <4>2
      <4>3. ASSUME NEW r \in Requests, Recorded(r)
            PROVE  withdrawn'[req[x].inst] \subseteq withdrawn[req[x].inst]
        BY <1>3, <3>1, <4>3
      <4> QED
        BY <1>1, <4>1, <4>2, <4>3, DirectoryStep, Zenon
    <3> QED
      BY <2>2, <3>1, <3>2
  <2>3. CASE BeginQuery(x)
    <3>1. req' = [req EXCEPT ![x].pc = "query", ![x].began = now]
      BY <2>3, Zenon DEF BeginQuery, Wait
    <3>2. req'[x].pc = "query"
      BY <1>2, <3>1 DEF Request
    <3> QED
      BY <1>7, <3>2
  <2>4. req'[x].pc \in {"query", "rows"}
    BY <1>7
  <2> QED
    BY <1>1, <2>1, <2>2, <2>3, <2>4, WhoQueries, Zenon
<1> QED
  BY <1>5, <1>6, <1>7, Zenon DEF Unlisted, At

\* PublicLeaderboard: how old what a page or a query under way lists can be.
LEMMA RecentStep ==
    ASSUME DirectoryInv, EdgeNext
    PROVE  Recent'
<1>1. /\ EdgeTypeOK /\ EdgeStep /\ Recent
      /\ \A y \in Requests : Placed(req[y]) /\ Billed(req[y])
      /\ listedAt' = [m \in Merchants |-> IF m \in Listable' THEN now' ELSE listedAt[m]]
  BY Zenon DEF DirectoryInv, AllowanceInv, EdgeNext
<1>2. /\ req \in [Requests -> Request] /\ listedAt \in [Merchants -> Int]
      /\ cached \in [Instances -> [listed : SUBSET Merchants, expires : Int]]
      /\ now \in Int /\ DirectoryTTL \in Nat /\ QueryTime \in Nat
  BY <1>1, EdgeAssumption DEF EdgeTypeOK
<1>3. now' \in Int /\ now <= now'
  <2>1. CASE now' = now
    BY <1>2, <2>1
  <2>2. CASE Tick
    <3>1. now' = now + 1
      BY <2>2, Zenon DEF Tick
    <3> QED
      BY <1>2, <3>1
  <2> QED
    BY <1>1, <2>1, <2>2, SettingsStay, Zenon
<1>4. ASSUME NEW m \in Merchants
      PROVE  /\ listedAt'[m] <= now' /\ (m \in Listable' => listedAt'[m] = now')
             /\ listedAt[m] \in Int /\ listedAt'[m] \in Int /\ listedAt[m] <= listedAt'[m]
  <2>1. listedAt[m] \in Int /\ listedAt[m] <= now
    BY <1>1, <1>2 DEF Recent
  <2>2. listedAt'[m] = IF m \in Listable' THEN now' ELSE listedAt[m]
    BY <1>1, Zenon
  <2> QED
    BY <1>2, <1>3, <2>1, <2>2
<1>5. ASSUME NEW i \in Instances, NEW m \in cached'[i].listed
      PROVE  cached'[i].expires <= listedAt'[m] + DirectoryTTL + QueryTime
  <2>1. ASSUME cached'[i] = cached[i] PROVE cached'[i].expires <= listedAt'[m] + DirectoryTTL + QueryTime
    <3>1. m \in Merchants /\ cached[i].expires \in Int
      BY <1>2, <1>5, <2>1
    <3>2. cached[i].expires <= listedAt[m] + DirectoryTTL + QueryTime
      BY <1>1, <1>5, <2>1 DEF Recent
    <3> QED
      BY <1>2, <1>4, <2>1, <3>1, <3>2
  <2>2. NoPage.listed = {}
    BY DEF NoPage
  <2>3. ASSUME NEW r \in Requests, Invalidate(r) PROVE cached'[i] = cached[i]
    <3>1. cached' = [cached EXCEPT ![req[r].inst] = NoPage]
      BY <2>3, Zenon DEF Invalidate, invalidatePublicLeaderboard
    <3> QED
      BY <1>2, <1>5, <2>2, <3>1
  <2>4. ASSUME NEW j \in Instances, Restart(j) PROVE cached'[i] = cached[i]
    <3>1. cached' = [cached EXCEPT ![j] = NoPage]
      BY <2>4, Zenon DEF Restart
    <3> QED
      BY <1>2, <1>5, <2>2, <3>1
  <2>5. ASSUME NEW r \in Requests, StoreRows(r)
        PROVE  cached'[i].expires <= listedAt'[m] + DirectoryTTL + QueryTime
    <3> DEFINE page == [listed |-> req[r].rows, expires |-> now + DirectoryTTL]
    <3>1. cached' = [cached EXCEPT ![req[r].inst] = page] /\ At(r, "rows")
      BY <2>5, Zenon DEF StoreRows, StorePage
    <3>2. page.listed = req[r].rows /\ page.expires = now + DirectoryTTL
      OBVIOUS
    <3> HIDE DEF page
    <3>3. CASE i # req[r].inst
      <4>1. cached'[i] = cached[i]
        BY <1>2, <3>1, <3>3
      <4> QED
        BY <2>1, <4>1
    <3>4. CASE i = req[r].inst
      <4>1. cached'[i] = page
        BY <1>2, <3>1, <3>4
      <4>2. m \in req[r].rows /\ cached'[i].expires = now + DirectoryTTL
        BY <1>5, <3>2, <4>1
      <4>3. req[r] \in Request
        BY <1>2
      <4>4. m \in Merchants /\ req[r].began \in Nat
        BY <4>2, <4>3 DEF Request
      <4>5. req[r].began <= listedAt[m] /\ now - req[r].began <= QueryTime
        BY <1>1, <3>1, <4>2 DEF Recent, Placed, At
      <4> QED
        BY <1>2, <1>4, <4>2, <4>4, <4>5
    <3> QED
      BY <3>3, <3>4
  <2>6. CASE cached' = cached
    BY <2>1, <2>6
  <2> QED
    BY <1>1, <2>1, <2>3, <2>4, <2>5, <2>6, DirectoryStep, Zenon
<1>6. ASSUME NEW x \in Requests, req'[x].pc = "rows", NEW m \in req'[x].rows
      PROVE  req'[x].began <= listedAt'[m]
  <2>1. CASE Query(x)
    <3>1. req' = [req EXCEPT ![x].pc = "rows", ![x].rows = Listable] /\ At(x, "query")
      BY <2>1, Zenon DEF Query
    <3>2. req'[x].began = req[x].began /\ req'[x].rows = Listable /\ req[x].began \in Nat
      BY <1>2, <3>1 DEF Request
    <3>3. m \in Merchants /\ m \in Listable
      BY <1>1, <1>6, <3>2 DEF Listable, EdgeTypeOK
    <3>4. listedAt[m] = now
      BY <1>1, <3>3, Zenon DEF Recent
    <3>5. req[x].began <= now
      BY <1>1, <3>1 DEF At, Placed
    <3> QED
      BY <1>2, <1>4, <3>2, <3>3, <3>4, <3>5
  <2>2. CASE req'[x] = req[x]
    <3>1. req[x] \in Request /\ m \in req[x].rows
      BY <1>2, <1>6, <2>2
    <3>2. m \in Merchants /\ req[x].began \in Nat
      BY <3>1 DEF Request
    <3>3. req[x].began <= listedAt[m]
      BY <1>1, <1>6, <2>2, <3>1 DEF Recent, At
    <3> QED
      BY <1>4, <2>2, <3>2, <3>3
  <2>3. CASE BeginQuery(x)
    <3>1. req' = [req EXCEPT ![x].pc = "query", ![x].began = now]
      BY <2>3, Zenon DEF BeginQuery, Wait
    <3>2. req'[x].pc = "query"
      BY <1>2, <3>1 DEF Request
    <3> QED
      BY <1>6, <3>2
  <2>4. req'[x].pc \in {"query", "rows"}
    BY <1>6
  <2> QED
    BY <1>1, <2>1, <2>2, <2>3, <2>4, WhoQueries, Zenon
<1> QED
  BY <1>4, <1>5, <1>6, Zenon DEF Recent, At

\* The directory of a fresh deployment lists nobody yet.
LEMMA DirectoryStarts == EdgeInit => DirectoryInv
<1> SUFFICES ASSUME EdgeInit PROVE DirectoryInv
  OBVIOUS
<1>1. AllowanceInv
  BY EdgeStarts
<1>2. PICK s \in Settings : req = [r \in Requests |-> [New EXCEPT !.route = s.asks[r]]]
  BY Zenon DEF EdgeInit
<1>3. ASSUME NEW r \in Requests PROVE req[r].pc = "new"
  <2>1. req[r] = [New EXCEPT !.route = s.asks[r]]
    BY <1>2, Zenon
  <2> QED
    BY <2>1 DEF New
<1>4. /\ now = 0 /\ active = Merchants /\ cached = [i \in Instances |-> NoPage]
      /\ listedAt = [m \in Merchants |-> IF m \in consent THEN 0 ELSE NeverListed]
      /\ withdrawn = [i \in Instances |-> {}]
  BY Zenon DEF EdgeInit, DirectoryInit
<1>5. Queried
  BY <1>3 DEF Queried, At
<1>6. Unlisted
  BY <1>3, <1>4 DEF Unlisted, At, NoPage
<1>7. Recent
  <2>1. NeverListed \in Int /\ NeverListed <= 0
    BY EdgeAssumption DEF NeverListed
  <2>2. \A m \in Merchants : listedAt[m] <= now /\ (m \in Listable => listedAt[m] = now)
    BY <1>4, <2>1 DEF Listable
  <2>3. \A i \in Instances : cached[i].listed = {}
    BY <1>4 DEF NoPage
  <2> QED
    BY <1>3, <2>2, <2>3 DEF Recent, At
<1> QED
  BY <1>1, <1>5, <1>6, <1>7 DEF DirectoryInv

\* A step that changes nothing.
LEMMA DirectoryStutters == DirectoryInv /\ UNCHANGED vars => DirectoryInv'
<1> SUFFICES ASSUME DirectoryInv, UNCHANGED vars PROVE DirectoryInv'
  OBVIOUS
<1>1. AllowanceInv'
  BY AllowanceStutters DEF DirectoryInv
<1>2. /\ now' = now /\ consent' = consent /\ active' = active /\ cached' = cached /\ publicMu' = publicMu
      /\ req' = req /\ listedAt' = listedAt /\ withdrawn' = withdrawn
  BY DEF vars
<1>3. (Queried /\ Unlisted /\ Recent)'
  BY <1>2, Zenon DEF DirectoryInv, Queried, Unlisted, Recent, Listable, At
<1> QED
  BY <1>1, <1>3 DEF DirectoryInv

\* The edge: what holds of the directory in every state.
THEOREM DirectoryInvariant == EdgeSpec => []DirectoryInv
<1>1. DirectoryInv /\ EdgeNext => DirectoryInv'
  <2> SUFFICES ASSUME DirectoryInv, EdgeNext PROVE DirectoryInv'
    OBVIOUS
  <2>1. EdgeTypeOK' /\ \A x \in Requests : Placed(req[x])' /\ Billed(req[x])'
    BY EdgeTypeStep, Zenon DEF DirectoryInv, AllowanceInv
  <2>2. Covered'
    BY CoveredStep, Zenon DEF DirectoryInv
  <2> QED
    BY <2>1, <2>2, QueriedStep, UnlistedStep, RecentStep, Zenon DEF DirectoryInv, AllowanceInv
<1> QED
  BY <1>1, DirectoryStarts, DirectoryStutters, PTL DEF EdgeSpec

\* setPublicProfileConsent: an instance that answered an opt-out lists the
\* merchant on no page from then on, until the merchant opts in again.
THEOREM OptOutsAreKept == EdgeSpec => WithdrawnIsUnlisted
<1>1. DirectoryInv /\ [EdgeNext]_vars =>
        [\A r \in Requests : Lists(r) => Listing(r) \cap withdrawn[req[r].inst] = {}]_vars
  <2> SUFFICES ASSUME DirectoryInv, EdgeNext, NEW r \in Requests, Lists(r)
               PROVE  Listing(r) \cap withdrawn[req[r].inst] = {}
    BY Zenon
  <2>1. /\ EdgeTypeOK /\ EdgeStep /\ Unlisted
        /\ \A y \in Requests : Placed(req[y]) /\ Billed(req[y])
    BY Zenon DEF DirectoryInv, AllowanceInv, EdgeNext
  <2>2. CASE ServeCached(r)
    <3>1. At(r, "explore") /\ req[r].inst \in Instances
      BY <2>1, <2>2 DEF ServeCached, At, Placed, OfDirectory
    <3>2. Listing(r) = cached[req[r].inst].listed
      BY <3>1 DEF Listing, At
    <3> QED
      BY <2>1, <3>1, <3>2 DEF Unlisted
  <2>3. CASE StoreRows(r)
    <3>1. At(r, "rows")
      BY <2>3, Zenon DEF StoreRows
    <3>2. Listing(r) = req[r].rows
      BY <3>1, Zenon DEF Listing
    <3> QED
      BY <2>1, <3>1, <3>2 DEF Unlisted
  <2> QED
    BY <2>1, <2>2, <2>3, WhoLists, Zenon
<1> QED
  BY <1>1, DirectoryInvariant, PTL DEF EdgeSpec, WithdrawnIsUnlisted

\* PublicLeaderboard: no instance lists a merchant longer than a page's lifetime
\* and a query after it could last be listed, whoever changed the consent.
THEOREM ListingsExpire == EdgeSpec => ListingIsFresh
<1>1. DirectoryInv /\ [EdgeNext]_vars =>
        [\A r \in Requests : Lists(r) =>
            \A m \in Listing(r) : now < listedAt[m] + DirectoryTTL + QueryTime]_vars
  <2> SUFFICES ASSUME DirectoryInv, EdgeNext, NEW r \in Requests, Lists(r), NEW m \in Listing(r)
               PROVE  now < listedAt[m] + DirectoryTTL + QueryTime
    BY Zenon
  <2>1. /\ EdgeTypeOK /\ EdgeStep /\ Recent
        /\ \A y \in Requests : Placed(req[y]) /\ Billed(req[y])
    BY Zenon DEF DirectoryInv, AllowanceInv, EdgeNext
  <2>2. /\ now \in Int /\ DirectoryTTL \in Nat \ {0} /\ QueryTime \in Nat
        /\ listedAt \in [Merchants -> Int] /\ req[r] \in Request
        /\ cached \in [Instances -> [listed : SUBSET Merchants, expires : Int]]
    BY <2>1, EdgeAssumption DEF EdgeTypeOK
  <2>3. CASE ServeCached(r)
    <3>1. At(r, "explore") /\ req[r].inst \in Instances /\ Fresh(req[r].inst, now)
      BY <2>1, <2>3 DEF ServeCached, At, Placed, OfDirectory
    <3>2. m \in cached[req[r].inst].listed
      BY <3>1 DEF Listing, At
    <3>3. m \in Merchants /\ cached[req[r].inst].expires \in Int
      BY <2>2, <3>1, <3>2
    <3>4. cached[req[r].inst].expires <= listedAt[m] + DirectoryTTL + QueryTime
      BY <2>1, <3>1, <3>2, Zenon DEF Recent
    <3>5. now < cached[req[r].inst].expires
      BY <3>1, Zenon DEF Fresh
    <3>6. listedAt[m] \in Int
      BY <2>2, <3>3
    <3> QED
      BY <2>2, <3>3, <3>4, <3>5, <3>6
  <2>4. CASE StoreRows(r)
    <3>1. At(r, "rows")
      BY <2>4, Zenon DEF StoreRows
    <3>2. m \in req[r].rows
      BY <3>1, Zenon DEF Listing
    <3>3. m \in Merchants /\ req[r].began \in Nat
      BY <2>2, <3>2 DEF Request
    <3>4. req[r].began <= listedAt[m] /\ now - req[r].began <= QueryTime
      BY <2>1, <3>1, <3>2 DEF Recent, Placed, At
    <3>5. listedAt[m] \in Int
      BY <2>2, <3>3
    <3> QED
      BY <2>2, <3>3, <3>4, <3>5
  <2> QED
    BY <2>1, <2>3, <2>4, WhoLists, Zenon
<1> QED
  BY <1>1, DirectoryInvariant, PTL DEF EdgeSpec, ListingIsFresh
=============================================================================
