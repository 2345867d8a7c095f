---------------------------- MODULE RateLimiter ----------------------------
(* The per-client limiter of the HTTP edge: a bounded table of one-minute   *)
(* windows per instance, kept under one mutex, so that a request is counted *)
(* and judged in one step.                                                  *)
EXTENDS Integers, FiniteSets

CONSTANTS Instances, Clients,
          Minute,            \* the length of a window
          MaxTrackedClients, \* the size of a table
          EvictionSample     \* entries eviction looks at

VARIABLES now,       \* the time, the same everywhere up to an offset
          limit,     \* requests per client and minute, none when it is 0
          clients,   \* per instance: each client's window
          lastSweep  \* per instance: when the table was last swept

NoWindow == [started |-> 0, count |-> 0]
NeverSwept == -1

newRateLimiter ==
    /\ clients = [i \in Instances |-> [c \in Clients |-> NoWindow]]
    /\ lastSweep = [i \in Instances |-> NeverSwept]

Tracked(table) == {c \in Clients : table[c] # NoWindow}
Expired(window) == now - window.started >= Minute

\* Once a minute every window that is over is deleted.
SweepDue(i) == lastSweep[i] = NeverSwept \/ now - lastSweep[i] >= Minute
Swept(i) ==
    IF SweepDue(i)
    THEN [c \in Clients |-> IF Expired(clients[i][c]) THEN NoWindow ELSE clients[i][c]]
    ELSE clients[i]

\* What evictLocked may delete, the map being iterated in any order: the first
\* expired window it meets, or the oldest of a sample without one.
Victims(table) ==
    {v \in Tracked(table) :
        \E sample \in SUBSET Tracked(table) :
            /\ v \in sample
            /\ Cardinality(sample) <= EvictionSample
            /\ Cardinality(sample) < EvictionSample => sample = Tracked(table)
            /\ ~Expired(table[v]) =>
                  \A c \in sample : ~Expired(table[c]) /\ table[v].started <= table[c].started}

\* The tables a request of client c may be counted in.
evictLocked(table, c) ==
    IF c \notin Tracked(table) /\ Cardinality(Tracked(table)) >= MaxTrackedClients
    THEN {[table EXCEPT ![v] = NoWindow] : v \in Victims(table)}
    ELSE {table}

Counted(window) ==
    IF window = NoWindow \/ Expired(window)
    THEN [started |-> now, count |-> 1]
    ELSE [window EXCEPT !.count = @ + 1]

Unlimited == limit = 0 /\ UNCHANGED <<clients, lastSweep>>

\* Mutant: with the table full, every client that is not in it shares one
\* window, here that of some client in the table.
middlewareShared(i, c, allowed) ==
    \/ Unlimited /\ allowed
    \/ /\ limit > 0
       /\ lastSweep' = [lastSweep EXCEPT ![i] = IF SweepDue(i) THEN now ELSE @]
       /\ \E key \in IF c \in Tracked(Swept(i)) \/ Cardinality(Tracked(Swept(i))) < MaxTrackedClients
                     THEN {c} ELSE Tracked(Swept(i)) :
             LET window == Counted(Swept(i)[key])
             IN  /\ clients' = [clients EXCEPT ![i] = [Swept(i) EXCEPT ![key] = window]]
                 /\ allowed = (window.count <= limit)

\* Client c asks instance i: the request is counted and allowed or refused.
middleware(i, c, allowed) ==
    \/ Unlimited /\ allowed
    \/ /\ limit > 0
       /\ lastSweep' = [lastSweep EXCEPT ![i] = IF SweepDue(i) THEN now ELSE @]
       /\ \E table \in evictLocked(Swept(i), c) :
             LET window == Counted(table[c])
             IN  /\ clients' = [clients EXCEPT ![i] = [table EXCEPT ![c] = window]]
                 /\ allowed = (window.count <= limit)
=============================================================================
