-------------------------- MODULE MerchantAccount --------------------------
(* One merchant's account: the recipient and the proofs behind it, admin    *)
(* sessions, API keys, suspension.  Every operation names one merchant, and *)
(* its transaction locks the merchant row before it decides, so it is one   *)
(* step; WalletChallenge and adminVerifyWallet use two transactions and are *)
(* two.  A submitted signature is one of the challenge's own address:       *)
(* anything else is refused before a write.  Registration and the mailing   *)
(* of links come before AccountInit.                                        *)
EXTENDS Integers, Sequences

CONSTANTS Addresses, Challenges, Sessions, Keys,
          None,
          WalletTTL, AdminSessionTTL, RecipientCooldown,
          HandlerTime,    \* bound: the clock between the two writes of one request
          MaxTime,        \* bound: the clock
          MaxSuspensions  \* bound: Suspend calls

\* A request takes seconds, the cooldown is a day (ETH402_RECIPIENT_CHANGE_COOLDOWN).
ASSUME AccountAssumption ==
    /\ WalletTTL \in Nat \ {0} /\ AdminSessionTTL \in Nat \ {0}
    /\ RecipientCooldown \in Nat /\ HandlerTime \in Nat /\ HandlerTime < RecipientCooldown
    /\ None \notin Addresses

VARIABLES clock,
          account,    \* the merchants row
          challenge,  \* wallet_verification_challenges
          session,    \* merchant_admin_sessions
          apiKey,     \* api_keys
          history,    \* recipient_address_history, in order
          reading,    \* WalletChallenge between its read and its insert
          marking,    \* adminVerifyWallet between activation and elevation
          suspensions,
          provedBy    \* ghost: the address whose signature elevated a session

accountVars == <<clock, account, challenge, session, apiKey, history,
                 reading, marking, suspensions, provedBy>>

Never == -1
Actions == {"verify_recipient", "change_recipient", "authenticate_admin"}
Statuses == {"pending", "active", "suspended"}

NoChallenge == [addr |-> None, action |-> "none", expires |-> 0, consumed |-> FALSE]
NoSession == [status |-> "none", expires |-> 0, walletAt |-> Never]

\* What the columns hold.
Account == [status : Statuses, email : BOOLEAN, recipient : Addresses, walletAt : Nat \cup {Never}]
Challenge == [addr : Addresses, action : Actions, expires : Nat, consumed : BOOLEAN]
Session == [status : {"none", "live", "revoked"}, expires : Nat, walletAt : Nat \cup {Never}]
Entry == [addr : Addresses, at : Nat, by : Challenges]

AccountTypeOK ==
    /\ clock \in Nat
    /\ account \in Account
    /\ challenge \in [Challenges -> {NoChallenge} \cup Challenge]
    /\ session \in [Sessions -> Session]
    /\ apiKey \in [Keys -> {"none", "live", "revoked"}]
    /\ history \in Seq(Entry)
    /\ reading \in {None} \cup [addr : Addresses, action : {"verify_recipient", "authenticate_admin"}]
    /\ marking \in {None} \cup [session : Sessions, addr : Addresses, since : Nat]
    /\ provedBy \in [Sessions -> Addresses \cup {None}]

-----------------------------------------------------------------------------
\* newAdminSession's row while it can be used.
Usable(s) == session[s].status = "live" /\ clock < session[s].expires

\* A wallet proof counts while it is no older than the merchant's own
\* (AuthenticateAdmin, lockWalletAuthenticatedAdmin).
Elevated(s) ==
    /\ account.status = "active" /\ account.walletAt # Never
    /\ session[s].walletAt # Never /\ session[s].walletAt >= account.walletAt

lockWalletAuthenticatedAdmin(s) == Usable(s) /\ Elevated(s)

\* Mutant: the status Authenticate saw is trusted.
lockAuthenticatedAPIKeyAdmitted(k) == apiKey[k] = "live"

\* The merchant is active and the key unrevoked now, whatever the middleware saw.
lockAuthenticatedAPIKey(k) == account.status = "active" /\ apiKey[k] = "live"

\* NewChallenge and persistWalletChallenge, on an unused row c.
persistWalletChallenge(c, addr, action) ==
    /\ challenge[c] = NoChallenge
    /\ challenge' = [challenge EXCEPT ![c] =
           [addr |-> addr, action |-> action, expires |-> clock + WalletTTL, consumed |-> FALSE]]

\* The checks every verification makes of its challenge, before consuming it.
Proven(c, action) ==
    /\ challenge[c].action = action /\ ~challenge[c].consumed
    /\ clock < challenge[c].expires

Consume(c) == challenge' = [challenge EXCEPT ![c].consumed = TRUE]

Record(c) == history' = Append(history, [addr |-> challenge[c].addr, at |-> clock, by |-> c])

NewKey(k) == apiKey[k] = "none" /\ apiKey' = [apiKey EXCEPT ![k] = "live"]

\* The row of max(verified_at): rows are written in order.
LastProof == history[Len(history)]

\* Mutant: the cooldown is anchored to the first proof.
CooledDownFirst == clock - history[1].at >= RecipientCooldown

\* The cooldown runs from the last recipient proof.
CooledDown == history # <<>> => clock - LastProof.at >= RecipientCooldown

-----------------------------------------------------------------------------
\* A registered merchant whose link has been mailed.
AccountInit ==
    /\ clock = 0
    /\ account \in [status : {"pending"}, email : {FALSE}, recipient : Addresses, walletAt : {Never}]
    /\ challenge = [c \in Challenges |-> NoChallenge]
    /\ session = [s \in Sessions |-> NoSession]
    /\ apiKey = [k \in Keys |-> "none"]
    /\ history = <<>>
    /\ reading = None /\ marking = None /\ suspensions = 0
    /\ provedBy = [s \in Sessions |-> None]

\* A link is followed.  From the page it opens a session, from the API it does not.
verifyEmail(issued) ==
    /\ \A s \in issued : session[s].status = "none"
    /\ account' = [account EXCEPT !.email = TRUE]
    /\ session' = [s \in Sessions |->
           IF s \in issued
           THEN [status |-> "live", expires |-> clock + AdminSessionTTL, walletAt |-> Never]
           ELSE session[s]]
    /\ UNCHANGED <<clock, challenge, apiKey, history, reading, marking, suspensions, provedBy>>

\* WalletChallenge reads the merchant without a lock ...  (The panel asks for a
\* sign-in challenge for an active merchant only, the public API for a first proof.)
WalletChallenge(action) ==
    /\ reading = None
    /\ account.email /\ account.status # "suspended"
    /\ action = "authenticate_admin" =>
           account.status = "active" /\ \E s \in Sessions : Usable(s)
    /\ reading' = [addr |-> account.recipient, action |-> action]
    /\ UNCHANGED <<clock, account, challenge, session, apiKey, history, marking, suspensions, provedBy>>

\* ... and inserts the challenge for what it read.
WalletChallengeInsert(c) ==
    /\ reading # None
    /\ persistWalletChallenge(c, reading.addr, reading.action)
    /\ reading' = None
    /\ UNCHANGED <<clock, account, session, apiKey, history, marking, suspensions, provedBy>>

\* A pending merchant replaces its unverified recipient.
PendingRecipientChallenge(c, addr) ==
    /\ \E s \in Sessions : session[s].status # "none"
    /\ account.status = "pending" /\ account.email /\ account.walletAt = Never
    /\ account' = [account EXCEPT !.recipient = addr]
    /\ persistWalletChallenge(c, addr, "verify_recipient")
    /\ UNCHANGED <<clock, session, apiKey, history, reading, marking, suspensions, provedBy>>

\* AuthenticatedWalletChallenge and AdminWalletChallenge.
ChangeChallenge(c, addr) ==
    /\ \/ \E k \in Keys : lockAuthenticatedAPIKey(k) /\ account.email
       \/ \E s \in Sessions : lockWalletAuthenticatedAdmin(s)
    /\ addr # account.recipient
    /\ persistWalletChallenge(c, addr, "change_recipient")
    /\ UNCHANGED <<clock, account, session, apiKey, history, reading, marking, suspensions, provedBy>>

\* verifyWallet of a first recipient: the merchant becomes active and gets its
\* initial key.  A request of the admin panel goes on to elevate its session.
VerifyRecipient(c, k, asker) ==
    /\ Proven(c, "verify_recipient")
    /\ account.status = "pending" /\ account.email /\ account.walletAt = Never
    /\ account.recipient = challenge[c].addr
    /\ account' = [account EXCEPT !.status = "active", !.walletAt = clock]
    /\ Consume(c) /\ Record(c) /\ NewKey(k)
    /\ \/ UNCHANGED marking
       \/ /\ Usable(asker)
          /\ marking' = [session |-> asker, addr |-> challenge[c].addr, since |-> clock]
    /\ UNCHANGED <<clock, session, reading, suspensions, provedBy>>

\* MarkAdminSessionWalletVerified: its own transaction, with no look at the merchant.
MarkAdminSessionWalletVerified ==
    /\ marking # None /\ Usable(marking.session)
    /\ session' = [session EXCEPT ![marking.session].walletAt = clock]
    /\ provedBy' = [provedBy EXCEPT ![marking.session] = marking.addr]
    /\ marking' = None
    /\ UNCHANGED <<clock, account, challenge, apiKey, history, reading, suspensions>>

\* The session was closed, or the request is gone: the key was issued all the same.
MarkFails ==
    /\ marking # None /\ marking' = None
    /\ UNCHANGED <<clock, account, challenge, session, apiKey, history, reading, suspensions, provedBy>>

\* VerifyAdminWallet: the session signs in with the current recipient's wallet.
VerifyAdminWallet(c, s) ==
    /\ Proven(c, "authenticate_admin") /\ Usable(s)
    /\ account.status = "active" /\ account.recipient = challenge[c].addr
    /\ Consume(c)
    /\ session' = [session EXCEPT ![s].walletAt = clock]
    /\ provedBy' = [provedBy EXCEPT ![s] = challenge[c].addr]
    /\ UNCHANGED <<clock, account, apiKey, history, reading, marking, suspensions>>

\* The checks and the row update the two ways to change a recipient share.
RotateTo(c) ==
    /\ Proven(c, "change_recipient")
    /\ account.status = "active" /\ account.walletAt # Never
    /\ challenge[c].addr # account.recipient
    /\ CooledDown
    /\ account' = [account EXCEPT !.recipient = challenge[c].addr, !.walletAt = clock]
    /\ Consume(c) /\ Record(c)

\* Mutant: only the API key's own session state is touched.
LoweredNone == session

\* Every session of the merchant loses its elevation.
Lowered == [s \in Sessions |-> [session[s] EXCEPT !.walletAt = Never]]

\* VerifyAuthenticatedWallet: with an API key.
VerifyAuthenticatedWallet(c, k) ==
    /\ lockAuthenticatedAPIKey(k) /\ RotateTo(c)
    /\ session' = Lowered
    /\ UNCHANGED <<clock, apiKey, reading, marking, suspensions, provedBy>>

\* VerifyAdminRecipientChange: with an elevated session, which stays elevated.
VerifyAdminRecipientChange(c, s) ==
    /\ lockWalletAuthenticatedAdmin(s) /\ RotateTo(c)
    /\ session' = [Lowered EXCEPT ![s] = [Lowered[s] EXCEPT !.walletAt = clock]]
    /\ provedBy' = [provedBy EXCEPT ![s] = challenge[c].addr]
    /\ UNCHANGED <<clock, apiKey, reading, marking, suspensions>>

RevokeAdminSession(s) ==
    /\ session[s].status = "live"
    /\ session' = [session EXCEPT ![s].status = "revoked"]
    /\ UNCHANGED <<clock, account, challenge, apiKey, history, reading, marking, suspensions, provedBy>>

\* What createAPIKey and revokeAPIKey ask for.
MayManageKeys ==
    \/ \E k \in Keys : lockAuthenticatedAPIKey(k)
    \/ \E s \in Sessions : lockWalletAuthenticatedAdmin(s)

createAPIKey(k) ==
    /\ MayManageKeys /\ NewKey(k)
    /\ UNCHANGED <<clock, account, challenge, session, history, reading, marking, suspensions, provedBy>>

revokeAPIKey(k) ==
    /\ MayManageKeys /\ apiKey[k] = "live"
    /\ apiKey' = [apiKey EXCEPT ![k] = "revoked"]
    /\ UNCHANGED <<clock, account, challenge, session, history, reading, marking, suspensions, provedBy>>

\* Mutant: a reinstatement does not ask for a suspension.
SuspendBlindly(reinstate) ==
    /\ suspensions < MaxSuspensions
    /\ (~reinstate) => account.status = "active"
    /\ account' = [account EXCEPT !.status = IF reinstate THEN "active" ELSE "suspended"]
    /\ suspensions' = suspensions + 1
    /\ UNCHANGED <<clock, challenge, session, apiKey, history, reading, marking, provedBy>>

\* An open merchant_suspensions row exists exactly while the status is suspended.
Suspend(reinstate) ==
    /\ suspensions < MaxSuspensions
    /\ account.status = IF reinstate THEN "suspended" ELSE "active"
    /\ account' = [account EXCEPT !.status = IF reinstate THEN "active" ELSE "suspended"]
    /\ suspensions' = suspensions + 1
    /\ UNCHANGED <<clock, challenge, session, apiKey, history, reading, marking, provedBy>>

Tick ==
    /\ clock < MaxTime
    /\ marking # None => clock - marking.since < HandlerTime
    /\ clock' = clock + 1
    /\ UNCHANGED <<account, challenge, session, apiKey, history, reading, marking, suspensions, provedBy>>

AccountNext ==
    \/ verifyEmail({}) \/ \E s \in Sessions : verifyEmail({s}) \/ RevokeAdminSession(s)
    \/ \E action \in {"verify_recipient", "authenticate_admin"} : WalletChallenge(action)
    \/ \E c \in Challenges :
          \/ WalletChallengeInsert(c)
          \/ \E addr \in Addresses : PendingRecipientChallenge(c, addr) \/ ChangeChallenge(c, addr)
          \/ \E k \in Keys : VerifyAuthenticatedWallet(c, k)
                              \/ \E s \in Sessions : VerifyRecipient(c, k, s)
          \/ \E s \in Sessions : VerifyAdminWallet(c, s) \/ VerifyAdminRecipientChange(c, s)
    \/ MarkAdminSessionWalletVerified \/ MarkFails
    \/ \E k \in Keys : createAPIKey(k) \/ revokeAPIKey(k)
    \/ \E reinstate \in BOOLEAN : Suspend(reinstate)
    \/ Tick

AccountSpec == AccountInit /\ [][AccountNext]_accountVars

-----------------------------------------------------------------------------
\* An admin session acts for the wallet in charge: whichever request elevated
\* it, and whatever rotated the recipient since, it was elevated by a signature
\* of the recipient the merchant has now.
ElevationIsProved ==
    \A s \in Sessions : Usable(s) /\ Elevated(s) => provedBy[s] = account.recipient

\* A merchant that can receive settlements has proved the recipient it has: the
\* last entry of the history is that address, and every entry rests on a
\* consumed challenge of its own, signed by the address.
RecipientIsProved ==
    /\ account.status # "pending" => history # <<>> /\ LastProof.addr = account.recipient
    /\ \A i \in 1..Len(history) :
          LET c == history[i].by IN challenge[c].consumed /\ challenge[c].addr = history[i].addr
    /\ \A i, j \in 1..Len(history) : history[i].by = history[j].by => i = j

\* Recipient changes are a cooldown apart, whichever of the two ways they took.
CooldownHolds ==
    \A i \in 2..Len(history) : history[i].at - history[i - 1].at >= RecipientCooldown

\* While a merchant is suspended nothing in its name commits: not its recipient,
\* not a key, not a challenge to change the recipient, also for a request
\* admitted before the suspension.
FrozenStep ==
    account.status = "suspended" =>
        /\ account'.recipient = account.recipient /\ apiKey' = apiKey /\ history' = history
        /\ \A c \in Challenges : challenge'[c].action = "change_recipient" => challenge'[c] = challenge[c]
FrozenWhileSuspended == [][FrozenStep]_accountVars

-----------------------------------------------------------------------------
(* What makes the invariants inductive                                     *)

\* A merchant is pending until its first proof, and from then on its proof is
\* as old as the last entry of its history.
PendingIsUnproved ==
    IF account.status = "pending"
    THEN /\ account.walletAt = Never /\ history = <<>> /\ marking = None
         /\ \A s \in Sessions : session[s].walletAt = Never
    ELSE history # <<>> /\ LastProof.at = account.walletAt /\ account.walletAt <= clock

\* A session's proof that is no older than the merchant's is the recipient's,
\* whether or not the session can still be used.
ProofIsRecipients ==
    \A s \in Sessions : (session[s].walletAt # Never /\ session[s].walletAt >= account.walletAt)
                            => provedBy[s] = account.recipient

\* Between activation and elevation no cooldown can have passed, so the request
\* still elevates its session for the recipient it activated.
MarkingIsPrompt ==
    marking # None => /\ marking.addr = account.recipient /\ marking.since = account.walletAt
                      /\ clock - marking.since <= HandlerTime

AccountInv ==
    /\ AccountTypeOK /\ PendingIsUnproved /\ ProofIsRecipients /\ MarkingIsPrompt
    /\ RecipientIsProved /\ CooldownHolds
=============================================================================
