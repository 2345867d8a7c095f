-------------------------- MODULE PublicDirectory --------------------------
(* The public merchant directory: consents in the shared database, and in   *)
(* each instance a cached page guarded by a mutex that is held across the   *)
(* query.  Changing a consent commits first and then drops the page of the  *)
(* instance that did it; the pages of the others run out by themselves.     *)
EXTENDS Integers

CONSTANTS Instances, Merchants, Nobody,
          DirectoryTTL  \* PublicDirectoryTTL

VARIABLES consent,  \* merchants with public_profile_opted_in_at
          active,   \* merchants whose status is 'active'
          cached,   \* per instance: publicCached and publicExpires
          publicMu  \* per instance: who holds the mutex

NoPage == [listed |-> {}, expires |-> -1]

DirectoryInit ==
    /\ active = Merchants
    /\ cached = [i \in Instances |-> NoPage]
    /\ publicMu = [i \in Instances |-> Nobody]

\* WHERE m.status='active' AND m.public_profile_opted_in_at IS NOT NULL
Listable == consent \cap active

Lock(i, who) == publicMu[i] = Nobody /\ publicMu' = [publicMu EXCEPT ![i] = who]
Unlock(i) == publicMu' = [publicMu EXCEPT ![i] = Nobody]

\* Mutant: a page is still served at the time it runs out.
FreshInclusive(i, time) == publicMu[i] = Nobody /\ time <= cached[i].expires

\* PublicLeaderboard finds a page that has not run out, with the mutex free.
Fresh(i, time) == publicMu[i] = Nobody /\ time < cached[i].expires

\* The page runs out DirectoryTTL after the query came back.
StorePage(i, listed, time) ==
    cached' = [cached EXCEPT ![i] = [listed |-> listed, expires |-> time + DirectoryTTL]]

\* setPublicProfileConsent: the row is locked, the merchant must be active.
SetConsent(m, enabled) ==
    /\ m \in active
    /\ consent' = IF enabled THEN consent \cup {m} ELSE consent \ {m}

\* Mutant: the page is dropped without waiting for a query under way.
invalidateUnlocked(i) == cached' = [cached EXCEPT ![i] = NoPage]

invalidatePublicLeaderboard(i) ==
    /\ publicMu[i] = Nobody
    /\ cached' = [cached EXCEPT ![i] = NoPage]

\* Suspend and reinstate leave the pages alone.
SetStatus(m) == active' = IF m \in active THEN active \ {m} ELSE active \cup {m}
=============================================================================
