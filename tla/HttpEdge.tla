------------------------------ MODULE HttpEdge ------------------------------
(* Requests at the edge of several instances that share a database: every   *)
(* request passes the limiter of its instance, one of a merchant then the   *)
(* fair-use allowance, and one for the public directory the page cache.  A  *)
(* handler does one statement, or one critical section, per step.           *)
EXTENDS Integers, FiniteSets

CONSTANTS Instances, Clients, Merchants, Requests, Nobody,
          ClientOf,   \* who sends each request
          Settings,   \* limits, allowances, consents, and what is asked for
          Minute, MaxTrackedClients, EvictionSample,
          FairUseWindow, DirectoryTTL,
          Offsets,    \* how the instances' clocks may be set
          CountTime,  \* the longest an accounting statement takes
          QueryTime,  \* the longest the directory's query takes
          MaxTime,    \* bound: the time
          MaxMishaps  \* bound: failures, restarts, suspensions

Routes == {"explore", "account", "opt_in", "opt_out"}

\* PruneMerchantUsage: "a clock skew between instances cannot delete a window
\* that is still being written to", a skew of up to two windows, that is.
ASSUME EdgeAssumption ==
    /\ {Minute, MaxTrackedClients, EvictionSample} \subseteq Nat \ {0}
    /\ {FairUseWindow, DirectoryTTL} \subseteq Nat \ {0}
    /\ {CountTime, QueryTime, MaxTime, MaxMishaps} \subseteq Nat
    /\ ClientOf \in [Requests -> Clients]
    /\ Settings \subseteq [limit : Nat, allowance : Nat, listed : SUBSET Merchants,
                     asks : [Requests -> Routes]]
    /\ Nobody \notin Requests
    /\ Offsets \subseteq [Instances -> 0..(2 * FairUseWindow - CountTime)]

VARIABLES now, limit, clients, lastSweep,    \* RateLimiter
          allowance, usage,                  \* FairUse
          consent, active, cached, publicMu, \* PublicDirectory
          offset,    \* per instance: its clock against the slowest
          req,       \* the requests
          listedAt,  \* per merchant: when it could last be listed
          withdrawn, \* per instance: merchants it told that they are opted out
          mishaps    \* mishaps so far

INSTANCE RateLimiter
Windows == 0..(MaxTime + 2 * FairUseWindow)
INSTANCE FairUse
INSTANCE PublicDirectory

vars == <<now, limit, clients, lastSweep, allowance, usage, consent, active, cached, publicMu,
          offset, req, listedAt, withdrawn, mishaps>>

NoAnswer == "none"
New == [pc |-> "new", inst |-> Nobody, route |-> "explore", merchant |-> Nobody,
        arrived |-> 0, began |-> 0, window |-> -1, charged |-> "no", rows |-> {}, answer |-> NoAnswer]

\* Further back than a page can be old.
NeverListed == -(DirectoryTTL + QueryTime)

EdgeInit ==
    /\ now = 0 /\ newRateLimiter /\ UsageInit /\ DirectoryInit
    /\ offset \in Offsets
    /\ \E s \in Settings :
          /\ consent = s.listed
          /\ limit = s.limit /\ allowance = s.allowance
          /\ req = [r \in Requests |-> [New EXCEPT !.route = s.asks[r]]]
    /\ listedAt = [m \in Merchants |-> IF m \in consent THEN 0 ELSE NeverListed]
    /\ withdrawn = [i \in Instances |-> {}]
    /\ mishaps = 0

-----------------------------------------------------------------------------
At(r, pc) == req[r].pc = pc
Goto(r, pc) == req' = [req EXCEPT ![r].pc = pc]
Wait(r, pc) == req' = [req EXCEPT ![r].pc = pc, ![r].began = now]

\* The handler returns; what is still known of the request is what was counted,
\* by the limiter or against the allowance.
Answered(q, answer) ==
    [New EXCEPT !.pc = "done", !.answer = answer,
                !.inst = IF limit = 0 THEN Nobody ELSE q.inst,
                !.arrived = IF limit = 0 THEN 0 ELSE q.arrived,
                !.merchant = IF allowance = 0 THEN Nobody ELSE q.merchant,
                !.window = q.window, !.charged = q.charged]
Answer(r, answer) == req' = [req EXCEPT ![r] = Answered(req[r], answer)]

Clock(i) == now + offset[i]
Mishap == mishaps < MaxMishaps /\ mishaps' = mishaps + 1

LimiterElse == UNCHANGED <<clients, lastSweep>>
DirectoryElse == UNCHANGED <<consent, active, cached, publicMu>>
Configured == UNCHANGED <<limit, allowance, offset>>
Untouched == UNCHANGED now /\ Configured

Arrive(r, i, m) ==
    /\ At(r, "new")
    /\ (req[r].route = "explore") <=> (m = Nobody)
    /\ LET arrival == [req[r] EXCEPT !.inst = i, !.merchant = m,
                           !.arrived = IF limit = 0 THEN 0 ELSE now,
                           !.pc = IF req[r].route = "explore" THEN "explore" ELSE "authenticated"]
       IN  \E allowed \in BOOLEAN :
              /\ middleware(i, ClientOf[r], allowed)
              /\ req' = [req EXCEPT ![r] = IF allowed THEN arrival
                                           ELSE Answered(arrival, "rate_limited")]
    /\ DirectoryElse /\ UNCHANGED withdrawn /\ Untouched /\ UNCHANGED <<usage, mishaps>>

-----------------------------------------------------------------------------
(* fairUse: with an allowance the clock is read, then the statement runs.  *)

\* What follows the accounting: a refusal, the answer, or the wrapped handler.
Accounted(r, exceeded, charged) ==
    LET q == [req[r] EXCEPT !.charged = charged, !.began = 0]
    IN  req' = [req EXCEPT ![r] = CASE exceeded -> Answered(q, "exceeded")
                                    [] ~exceeded /\ q.route = "account" -> Answered(q, "served")
                                    [] OTHER -> [q EXCEPT !.pc = "consent"]]

fairUse(r) ==
    /\ At(r, "authenticated")
    /\ IF allowance = 0 THEN Accounted(r, FALSE, "no")
       ELSE req' = [req EXCEPT ![r].pc = "count", ![r].began = now,
                               ![r].window = Truncate(Clock(req[r].inst))]
    /\ LimiterElse /\ DirectoryElse /\ UNCHANGED withdrawn /\ Untouched /\ UNCHANGED <<usage, mishaps>>

Count(r) ==
    /\ At(r, "count")
    /\ CountMerchantRequest(req[r].merchant, req[r].window)
    /\ Accounted(r, Exceeded(req[r].merchant, req[r].window), "yes")
    /\ LimiterElse /\ DirectoryElse /\ UNCHANGED withdrawn /\ Untouched /\ UNCHANGED mishaps

\* Accounting failed, or its reply was lost: the request is served all the same.
CountFails(r) ==
    /\ At(r, "count") /\ Mishap
    /\ CountMerchantRequest(req[r].merchant, req[r].window) \/ UNCHANGED usage
    /\ Accounted(r, FALSE, "unknown")
    /\ LimiterElse /\ DirectoryElse /\ UNCHANGED withdrawn /\ Untouched

Prune(i) ==
    /\ PruneMerchantUsage(Clock(i))
    /\ LimiterElse /\ DirectoryElse /\ UNCHANGED withdrawn /\ Untouched /\ UNCHANGED <<req, mishaps>>

-----------------------------------------------------------------------------
(* setPublicProfileConsent: commit, invalidate, answer.                    *)

OptsIn(r) == req[r].route = "opt_in"

\* An opt-in that commits ends what an earlier opt-out promised.
Recorded(r) ==
    /\ SetConsent(req[r].merchant, OptsIn(r))
    /\ withdrawn' = [i \in Instances |->
                        IF OptsIn(r) THEN withdrawn[i] \ {req[r].merchant} ELSE withdrawn[i]]

Consent(r) ==
    /\ At(r, "consent")
    /\ \/ Recorded(r) /\ Goto(r, "invalidate")
       \/ req[r].merchant \notin active /\ Answer(r, "served") /\ UNCHANGED <<consent, withdrawn>>
    /\ LimiterElse /\ Untouched /\ UNCHANGED <<active, cached, publicMu, usage, mishaps>>

\* The commit reports an error, whether or not it took effect.
ConsentFails(r) ==
    /\ At(r, "consent") /\ Mishap
    /\ Recorded(r) \/ UNCHANGED <<consent, withdrawn>>
    /\ Answer(r, "served")
    /\ LimiterElse /\ Untouched /\ UNCHANGED <<active, cached, publicMu, usage>>

Invalidate(r) ==
    /\ At(r, "invalidate")
    /\ invalidatePublicLeaderboard(req[r].inst)
    /\ Answer(r, "served")
    /\ withdrawn' = [withdrawn EXCEPT ![req[r].inst] = @ \cup ({req[r].merchant} \ consent)]
    /\ LimiterElse /\ Untouched /\ UNCHANGED <<consent, active, publicMu, usage, mishaps>>

SetMerchantStatus(m) ==
    /\ Mishap /\ SetStatus(m)
    /\ UNCHANGED withdrawn /\ LimiterElse /\ Untouched
    /\ UNCHANGED <<consent, cached, publicMu, usage, req>>

-----------------------------------------------------------------------------
(* PublicLeaderboard                                                       *)

ServeCached(r) ==
    /\ At(r, "explore") /\ Fresh(req[r].inst, now)
    /\ Answer(r, "listed") /\ UNCHANGED withdrawn
    /\ LimiterElse /\ DirectoryElse /\ Untouched /\ UNCHANGED <<usage, mishaps>>

BeginQuery(r) ==
    /\ At(r, "explore") /\ ~Fresh(req[r].inst, now)
    /\ Lock(req[r].inst, r) /\ Wait(r, "query")
    /\ UNCHANGED withdrawn /\ LimiterElse /\ Untouched
    /\ UNCHANGED <<consent, active, cached, usage, mishaps>>

Query(r) ==
    /\ At(r, "query")
    /\ req' = [req EXCEPT ![r].pc = "rows", ![r].rows = Listable]
    /\ UNCHANGED withdrawn /\ LimiterElse /\ DirectoryElse /\ Untouched /\ UNCHANGED <<usage, mishaps>>

StoreRows(r) ==
    /\ At(r, "rows")
    /\ StorePage(req[r].inst, req[r].rows, now) /\ Unlock(req[r].inst)
    /\ Answer(r, "listed") /\ UNCHANGED withdrawn
    /\ LimiterElse /\ Untouched /\ UNCHANGED <<consent, active, usage, mishaps>>

\* The page goes out without the directory, and the cache is as it was.
QueryFails(r) ==
    /\ At(r, "query") \/ At(r, "rows")
    /\ Mishap /\ Answer(r, "served") /\ Unlock(req[r].inst)
    /\ UNCHANGED withdrawn /\ LimiterElse /\ Untouched
    /\ UNCHANGED <<consent, active, cached, usage>>

-----------------------------------------------------------------------------
\* An instance starts again: what it kept in memory is gone.
Restart(i) ==
    /\ Mishap
    /\ clients' = [clients EXCEPT ![i] = [c \in Clients |-> NoWindow]]
    /\ lastSweep' = [lastSweep EXCEPT ![i] = NeverSwept]
    /\ cached' = [cached EXCEPT ![i] = NoPage]
    /\ Unlock(i)
    /\ req' = [r \in Requests |-> IF req[r].inst = i /\ ~At(r, "done")
                                   THEN Answered(req[r], "served") ELSE req[r]]
    /\ UNCHANGED withdrawn /\ Untouched /\ UNCHANGED <<consent, active, usage>>

\* Statements end in time.  What was answered over a minute ago counts for no
\* limiter any more.
Tick ==
    /\ now < MaxTime
    /\ \A r \in Requests : /\ At(r, "count") => now - req[r].began < CountTime
                           /\ At(r, "query") \/ At(r, "rows") => now - req[r].began < QueryTime
    /\ now' = now + 1
    /\ req' = [r \in Requests |-> IF At(r, "done") /\ now' - req[r].arrived >= Minute
                                   THEN [req[r] EXCEPT !.inst = Nobody, !.arrived = 0] ELSE req[r]]
    /\ UNCHANGED withdrawn /\ LimiterElse /\ DirectoryElse /\ Configured /\ UNCHANGED <<usage, mishaps>>

HandlerStep(r) ==
    \/ fairUse(r) \/ Count(r) \/ Consent(r) \/ Invalidate(r)
    \/ ServeCached(r) \/ BeginQuery(r) \/ Query(r) \/ StoreRows(r)

EdgeStep ==
    \/ \E r \in Requests, i \in Instances, m \in Merchants \cup {Nobody} : Arrive(r, i, m)
    \/ \E r \in Requests : HandlerStep(r)
    \/ \E r \in Requests : CountFails(r) \/ ConsentFails(r) \/ QueryFails(r)
    \/ \E i \in Instances : Prune(i) \/ Restart(i)
    \/ \E m \in Merchants : SetMerchantStatus(m)
    \/ Tick

EdgeNext ==
    /\ EdgeStep
    /\ listedAt' = [m \in Merchants |-> IF m \in Listable' THEN now' ELSE listedAt[m]]

EdgeSpec == EdgeInit /\ [][EdgeNext]_vars

-----------------------------------------------------------------------------
\* The requests of r's client at r's instance in the minute that ends now.
OwnTraffic(r) ==
    {q \in Requests : /\ ~At(q, "new") /\ ClientOf[q] = ClientOf[r]
                      /\ req[q].inst = req[r].inst /\ req[q].arrived > now - Minute}

\* The requests charged to window w of merchant m, as far as known.
Charged(m, w, known) ==
    {q \in Requests : req[q].merchant = m /\ req[q].window = w /\ req[q].charged \in known}

RefusedStep ==
    \A r \in Requests : req[r].answer # req'[r].answer =>
        /\ req'[r].answer = "rate_limited" => Cardinality(OwnTraffic(r)') > limit
        /\ req'[r].answer = "exceeded" =>
              Cardinality(Charged(req[r].merchant, req[r].window, {"yes", "unknown"})) >= allowance

\* evictLocked, middleware, CountMerchantRequest: a request is refused only for
\* what its own client, or its own merchant, asked before, never because others
\* filled a table, whatever is evicted, swept or pruned in between.
RefusedForOwnTraffic == [][RefusedStep]_vars

\* Those of them that were let through.
Admitted(m, w) == {r \in Charged(m, w, {"yes"}) : req[r].answer # "exceeded"}

\* CountMerchantRequest and PruneMerchantUsage: all instances together admit no
\* more of a merchant's requests to one window than its allowance, with their
\* clocks apart and rows being pruned.
AllowanceHolds ==
    \A m \in Merchants, w \in {req[r].window : r \in Requests} :
        allowance > 0 => Cardinality(Admitted(m, w)) <= allowance

\* The step in which r is answered with a page, and whom that lists.
Lists(r) == ~At(r, "done") /\ req'[r].answer = "listed"
Listing(r) == IF At(r, "rows") THEN req[r].rows ELSE cached[req[r].inst].listed

\* setPublicProfileConsent: once an instance has answered an opt-out, no page of
\* that instance lists the merchant, also not one whose query ran before.
WithdrawnIsUnlisted ==
    [][\A r \in Requests : Lists(r) => Listing(r) \cap withdrawn[req[r].inst] = {}]_vars

\* PublicLeaderboard: whichever instance answers, whoever changed the consent or
\* the status and whether or not it could drop the page, a merchant is listed
\* less than a page's lifetime and a query after it could last be.
ListingIsFresh ==
    [][\A r \in Requests : Lists(r) =>
          \A m \in Listing(r) : now < listedAt[m] + DirectoryTTL + QueryTime]_vars

-----------------------------------------------------------------------------
(* What makes these inductive                                              *)

OfMerchant == {"authenticated", "count", "consent", "invalidate"}
OfDirectory == {"explore", "query", "rows"}
Charges == {"no", "yes", "unknown"}
Request == [pc : {"new", "done"} \cup OfMerchant \cup OfDirectory, inst : Instances \cup {Nobody},
            route : Routes, merchant : Merchants \cup {Nobody}, arrived : Nat, began : Nat, window : Int,
            charged : Charges, rows : SUBSET Merchants,
            answer : {NoAnswer, "rate_limited", "exceeded", "served", "listed"}]

\* The types of all but the limiters' tables.
EdgeTypeOK ==
    /\ now \in 0..MaxTime /\ limit \in Nat /\ allowance \in Nat
    /\ offset \in [Instances -> 0..(2 * FairUseWindow - CountTime)]
    /\ usage \in [Merchants -> [Windows -> Nat]]
    /\ consent \subseteq Merchants /\ active \subseteq Merchants
    /\ cached \in [Instances -> [listed : SUBSET Merchants, expires : Int]]
    /\ publicMu \in [Instances -> Requests \cup {Nobody}]
    /\ req \in [Requests -> Request]
    /\ listedAt \in [Merchants -> Int]
    /\ withdrawn \in [Instances -> SUBSET Merchants]

\* A request under way is at an instance, and of a merchant if it is counted;
\* the statement or query it waits for has not outrun its time.
Placed(q) ==
    /\ q.pc \in OfMerchant \cup OfDirectory => q.inst \in Instances
    /\ q.pc \in OfMerchant => q.merchant \in Merchants
    /\ q.pc = "count" => q.began <= now /\ now - q.began <= CountTime
    /\ q.pc \in {"query", "rows"} => q.began <= now /\ now - q.began <= QueryTime

\* A request is charged once, to the window its instance's clock showed, and
\* then goes on or is answered.
Billed(q) ==
    /\ q.pc \in {"new", "authenticated", "count"} => q.charged = "no"
    /\ q.charged # "no" => q.window \in Windows
    /\ q.pc = "count" => q.window \in Windows /\ Truncate(q.began) <= q.window
    /\ q.pc # "done" => q.answer = NoAnswer

\* The counter of a window that can still be charged covers those let through.
Covered ==
    allowance > 0 => \A m \in Merchants, w \in Windows :
        /\ IsFiniteSet(Admitted(m, w)) /\ Cardinality(Admitted(m, w)) <= allowance
        /\ w >= Truncate(now - CountTime) => Cardinality(Admitted(m, w)) <= usage[m][w]

AllowanceInv ==
    /\ EdgeTypeOK /\ Covered
    /\ \A r \in Requests : Placed(req[r]) /\ Billed(req[r])

\* The mutex of an instance is held across the query.
Queried == \A r \in Requests : At(r, "query") \/ At(r, "rows") => publicMu[req[r].inst] = r

\* Who withdrew at an instance is in none of its pages, made or in the making.
Unlisted ==
    /\ \A i \in Instances : withdrawn[i] \cap consent = {} /\ withdrawn[i] \cap cached[i].listed = {}
    /\ \A r \in Requests : At(r, "rows") => withdrawn[req[r].inst] \cap req[r].rows = {}

\* How long ago those in a page could be listed.
Recent ==
    /\ \A m \in Merchants : listedAt[m] <= now /\ (m \in Listable => listedAt[m] = now)
    /\ \A i \in Instances : \A m \in cached[i].listed :
          cached[i].expires <= listedAt[m] + DirectoryTTL + QueryTime
    /\ \A r \in Requests : At(r, "rows") => \A m \in req[r].rows : req[r].began <= listedAt[m]

DirectoryInv == AllowanceInv /\ Queried /\ Unlisted /\ Recent
=============================================================================
