----------------------- MODULE MerchantAccountProofs -----------------------
(* The account invariants for any number of addresses, challenges, sessions *)
(* and keys, any lifetimes and any cooldown longer than one request.        *)
EXTENDS MerchantAccount, TLAPS

\* The fields of the rows have their types.
LEMMA AccountTypes ==
    ASSUME AccountTypeOK
    PROVE  /\ clock \in Nat /\ account.status \in Statuses /\ account.recipient \in Addresses
           /\ account.walletAt \in Nat \cup {Never}
           /\ \A s \in Sessions : session[s] \in Session /\ session[s].walletAt \in Nat \cup {Never}
  BY DEF AccountTypeOK, Account, Session

\* A challenge that proves an action is one that was issued, to an address.
LEMMA ProvenWasIssued ==
    ASSUME AccountTypeOK, NEW c \in Challenges, NEW action \in Actions, Proven(c, action)
    PROVE  challenge[c] \in Challenge /\ challenge[c].addr \in Addresses /\ challenge[c].consumed = FALSE
  BY DEF AccountTypeOK, Challenge, Proven, NoChallenge, Actions

-----------------------------------------------------------------------------
(* Types                                                                   *)

\* A challenge is inserted, or consumed, as one.
LEMMA ChallengeTypes ==
    ASSUME AccountTypeOK, NEW c \in Challenges
    PROVE  /\ \A addr \in Addresses, action \in Actions : persistWalletChallenge(c, addr, action)
                 => challenge' \in [Challenges -> {NoChallenge} \cup Challenge]
           /\ challenge[c] \in Challenge /\ Consume(c)
                 => challenge' \in [Challenges -> {NoChallenge} \cup Challenge]
  <1>1. challenge \in [Challenges -> {NoChallenge} \cup Challenge] /\ clock \in Nat
    BY Zenon DEF AccountTypeOK
  <1>2. ASSUME NEW addr \in Addresses, NEW action \in Actions, persistWalletChallenge(c, addr, action)
        PROVE  challenge' \in [Challenges -> {NoChallenge} \cup Challenge]
    <2>1. clock + WalletTTL \in Nat
      BY <1>1, AccountAssumption
    <2>2. [addr |-> addr, action |-> action, expires |-> clock + WalletTTL, consumed |-> FALSE] \in Challenge
      BY Zenon, <2>1 DEF Challenge
    <2>. QED BY Zenon, <1>1, <1>2, <2>2 DEF persistWalletChallenge
  <1>3. ASSUME challenge[c] \in Challenge, Consume(c)
        PROVE  challenge' \in [Challenges -> {NoChallenge} \cup Challenge]
    <2>1. [challenge[c] EXCEPT !.consumed = TRUE] \in Challenge
      BY Zenon, <1>3 DEF Challenge
    <2>. QED BY Zenon, <1>1, <1>3, <2>1 DEF Consume
  <1>. QED BY Zenon, <1>2, <1>3

\* A session keeps its type whatever proof it is given or loses.
LEMMA SessionTypes ==
    ASSUME NEW r \in Session, NEW t \in Nat \cup {Never}
    PROVE  [r EXCEPT !.walletAt = t] \in Session
  BY Zenon DEF Session

\* The history grows by an entry.
LEMMA RecordTypes ==
    ASSUME AccountTypeOK, NEW c \in Challenges, challenge[c] \in Challenge, Record(c)
    PROVE  history' \in Seq(Entry)
  <1>. DEFINE e == [addr |-> challenge[c].addr, at |-> clock, by |-> c]
  <1>1. challenge[c].addr \in Addresses /\ clock \in Nat /\ history \in Seq(Entry)
    BY DEF AccountTypeOK, Challenge
  <1>2. e \in Entry
    BY Zenon, <1>1 DEF Entry
  <1>3. history' = Append(history, e)
    BY Zenon DEF Record
  <1>. HIDE DEF e
  <1>. QED BY <1>1, <1>2, <1>3

\* Every request keeps the types of the rows.
LEMMA TypeStep ==
    ASSUME AccountTypeOK, [AccountNext]_accountVars
    PROVE  AccountTypeOK'
  <1>1. /\ clock \in Nat /\ account \in Account /\ session \in [Sessions -> Session]
        /\ challenge \in [Challenges -> {NoChallenge} \cup Challenge] /\ history \in Seq(Entry)
        /\ apiKey \in [Keys -> {"none", "live", "revoked"}]
        /\ provedBy \in [Sessions -> Addresses \cup {None}]
        /\ account.recipient \in Addresses
    BY Zenon, AccountTypes DEF AccountTypeOK
  <1>2. /\ [account EXCEPT !.email = TRUE] \in Account
        /\ \A a \in Addresses : [account EXCEPT !.recipient = a] \in Account
        /\ \A st \in Statuses : [account EXCEPT !.status = st] \in Account
        /\ \A st \in Statuses : [account EXCEPT !.status = st, !.walletAt = clock] \in Account
        /\ \A a \in Addresses : [account EXCEPT !.recipient = a, !.walletAt = clock] \in Account
    BY Zenon, <1>1 DEF Account
  <1>3. ASSUME NEW k \in Keys, NewKey(k) \/ apiKey' = [apiKey EXCEPT ![k] = "revoked"]
        PROVE  apiKey' \in [Keys -> {"none", "live", "revoked"}]
    BY Zenon, <1>1, <1>3 DEF NewKey
  <1>4. ASSUME NEW issued \in SUBSET Sessions, verifyEmail(issued) PROVE AccountTypeOK'
    <2>1. clock + AdminSessionTTL \in Nat
      BY <1>1, AccountAssumption
    <2>2. [status |-> "live", expires |-> clock + AdminSessionTTL, walletAt |-> Never] \in Session
      BY Zenon, <2>1 DEF Session
    <2>3. session' \in [Sessions -> Session]
      BY Zenon, <1>1, <1>4, <2>2 DEF verifyEmail
    <2>. QED BY Zenon, <1>2, <1>4, <2>3 DEF verifyEmail, AccountTypeOK
  <1>5. ASSUME NEW s \in Sessions, RevokeAdminSession(s) PROVE AccountTypeOK'
    <2>1. [session[s] EXCEPT !.status = "revoked"] \in Session
      BY Zenon, <1>1 DEF Session
    <2>. QED BY Zenon, <1>1, <1>5, <2>1 DEF RevokeAdminSession, AccountTypeOK
  <1>6. ASSUME NEW action \in {"verify_recipient", "authenticate_admin"}, WalletChallenge(action) PROVE AccountTypeOK'
    BY Zenon, <1>1, <1>6 DEF WalletChallenge, AccountTypeOK
  <1>7. ASSUME NEW c \in Challenges, WalletChallengeInsert(c) PROVE AccountTypeOK'
    <2>1. reading.addr \in Addresses /\ reading.action \in Actions
      BY <1>7 DEF WalletChallengeInsert, AccountTypeOK, Actions
    <2>. QED BY Zenon, <1>7, <2>1, ChallengeTypes DEF WalletChallengeInsert, AccountTypeOK
  <1>8. ASSUME NEW c \in Challenges, NEW addr \in Addresses, PendingRecipientChallenge(c, addr) PROVE AccountTypeOK'
    <2>1. "verify_recipient" \in Actions
      BY DEF Actions
    <2>. QED BY Zenon, <1>2, <1>8, <2>1, ChallengeTypes DEF PendingRecipientChallenge, AccountTypeOK
  <1>9. ASSUME NEW c \in Challenges, NEW addr \in Addresses, ChangeChallenge(c, addr) PROVE AccountTypeOK'
    <2>1. "change_recipient" \in Actions
      BY DEF Actions
    <2>. QED BY Zenon, <1>2, <1>9, <2>1, ChallengeTypes DEF ChangeChallenge, AccountTypeOK
  <1>10. ASSUME NEW c \in Challenges, NEW k \in Keys, NEW s \in Sessions, VerifyRecipient(c, k, s) PROVE AccountTypeOK'
    <2>1. "verify_recipient" \in Actions /\ "active" \in Statuses
      BY DEF Actions, Statuses
    <2>2. challenge[c] \in Challenge /\ challenge[c].addr \in Addresses
      BY Zenon, <1>10, <2>1, ProvenWasIssued DEF VerifyRecipient
    <2>. DEFINE m == [session |-> s, addr |-> challenge[c].addr, since |-> clock]
    <2>3. m \in [session : Sessions, addr : Addresses, since : Nat]
      BY Zenon, <1>1, <2>2
    <2>4. marking' = marking \/ marking' = m
      BY Zenon, <1>10 DEF VerifyRecipient
    <2>. HIDE DEF m
    <2>5. marking' \in {None} \cup [session : Sessions, addr : Addresses, since : Nat]
      BY Zenon, <2>3, <2>4 DEF AccountTypeOK
    <2>6. account' \in Account
      BY Zenon, <1>2, <1>10, <2>1 DEF VerifyRecipient
    <2>. QED BY Zenon, <1>1, <1>3, <1>10, <2>2, <2>5, <2>6, ChallengeTypes, RecordTypes
         DEF VerifyRecipient, AccountTypeOK
  <1>11. CASE MarkAdminSessionWalletVerified
    <2>1. marking.session \in Sessions /\ marking.addr \in Addresses
      BY <1>11 DEF MarkAdminSessionWalletVerified, AccountTypeOK
    <2>2. session' \in [Sessions -> Session]
      BY Zenon, <1>1, <1>11, <2>1, SessionTypes DEF MarkAdminSessionWalletVerified
    <2>3. provedBy' \in [Sessions -> Addresses \cup {None}]
      BY Zenon, <1>1, <1>11, <2>1 DEF MarkAdminSessionWalletVerified
    <2>. QED BY Zenon, <1>11, <2>2, <2>3 DEF MarkAdminSessionWalletVerified, AccountTypeOK
  <1>12. ASSUME NEW c \in Challenges, NEW s \in Sessions, VerifyAdminWallet(c, s) PROVE AccountTypeOK'
    <2>1. "authenticate_admin" \in Actions
      BY DEF Actions
    <2>2. challenge[c] \in Challenge /\ challenge[c].addr \in Addresses
      BY Zenon, <1>12, <2>1, ProvenWasIssued DEF VerifyAdminWallet
    <2>3. session' \in [Sessions -> Session] /\ provedBy' \in [Sessions -> Addresses \cup {None}]
      BY Zenon, <1>1, <1>12, <2>2, SessionTypes DEF VerifyAdminWallet
    <2>. QED BY Zenon, <1>12, <2>2, <2>3, ChallengeTypes DEF VerifyAdminWallet, AccountTypeOK
  <1>13. Lowered \in [Sessions -> Session]
    BY Zenon, <1>1, SessionTypes DEF Lowered
  <1>14. ASSUME NEW c \in Challenges, RotateTo(c)
         PROVE  /\ challenge[c].addr \in Addresses /\ account' \in Account /\ history' \in Seq(Entry)
                /\ challenge' \in [Challenges -> {NoChallenge} \cup Challenge]
    <2>1. "change_recipient" \in Actions
      BY DEF Actions
    <2>2. challenge[c] \in Challenge /\ challenge[c].addr \in Addresses
      BY Zenon, <1>14, <2>1, ProvenWasIssued DEF RotateTo
    <2>3. account' \in Account
      BY Zenon, <1>2, <1>14, <2>2 DEF RotateTo
    <2>. QED BY Zenon, <1>14, <2>2, <2>3, ChallengeTypes, RecordTypes DEF RotateTo
  <1>15. ASSUME NEW c \in Challenges, NEW k \in Keys, VerifyAuthenticatedWallet(c, k) PROVE AccountTypeOK'
    BY Zenon, <1>13, <1>14, <1>15 DEF VerifyAuthenticatedWallet, AccountTypeOK
  <1>16. ASSUME NEW c \in Challenges, NEW s \in Sessions, VerifyAdminRecipientChange(c, s) PROVE AccountTypeOK'
    <2>1. [Lowered[s] EXCEPT !.walletAt = clock] \in Session
      BY Zenon, <1>1, <1>13, SessionTypes
    <2>2. session' \in [Sessions -> Session]
      BY Zenon, <1>13, <1>16, <2>1 DEF VerifyAdminRecipientChange
    <2>3. provedBy' \in [Sessions -> Addresses \cup {None}]
      BY Zenon, <1>1, <1>14, <1>16 DEF VerifyAdminRecipientChange
    <2>. QED BY Zenon, <1>14, <1>16, <2>2, <2>3 DEF VerifyAdminRecipientChange, AccountTypeOK
  <1>17. CASE MarkFails
    BY Zenon, <1>17 DEF MarkFails, AccountTypeOK
  <1>18. ASSUME NEW k \in Keys, createAPIKey(k) \/ revokeAPIKey(k) PROVE AccountTypeOK'
    BY Zenon, <1>3, <1>18 DEF createAPIKey, revokeAPIKey, AccountTypeOK
  <1>19. ASSUME NEW reinstate \in BOOLEAN, Suspend(reinstate) PROVE AccountTypeOK'
    <2>1. "active" \in Statuses /\ "suspended" \in Statuses
      BY DEF Statuses
    <2>2. account' \in Account
      BY Zenon, <1>2, <1>19, <2>1 DEF Suspend
    <2>. QED BY Zenon, <1>19, <2>2 DEF Suspend, AccountTypeOK
  <1>20. CASE Tick
    <2>1. clock + 1 \in Nat
      BY <1>1
    <2>. QED BY Zenon, <1>20, <2>1 DEF Tick, AccountTypeOK
  <1>21. CASE UNCHANGED accountVars
    BY Zenon, <1>21 DEF accountVars, AccountTypeOK
  <1>22. \A s \in Sessions : {s} \in SUBSET Sessions
    OBVIOUS
  <1>. QED BY Zenon, <1>4, <1>5, <1>6, <1>7, <1>8, <1>9, <1>10, <1>11, <1>12, <1>15, <1>16, <1>17, <1>18, <1>19,
          <1>20, <1>21, <1>22 DEF AccountNext

-----------------------------------------------------------------------------
(* The history                                                             *)

\* A consumed challenge stays consumed, and its address the one that signed.
ConsumedStay ==
    \A c \in Challenges :
        challenge[c].consumed => challenge'[c].consumed /\ challenge'[c].addr = challenge[c].addr

\* A new challenge takes an unused row; a proof consumes one.
LEMMA ChallengesStay ==
    ASSUME AccountTypeOK, NEW c \in Challenges
    PROVE  /\ \A addr, action : persistWalletChallenge(c, addr, action) => ConsumedStay
           /\ challenge[c] \in Challenge /\ Consume(c)
                 => ConsumedStay /\ challenge'[c].consumed /\ challenge'[c].addr = challenge[c].addr
  <1>1. challenge \in [Challenges -> {NoChallenge} \cup Challenge]
    BY Zenon DEF AccountTypeOK
  <1>2. ~ NoChallenge.consumed
    BY DEF NoChallenge
  <1>3. ASSUME NEW addr, NEW action, persistWalletChallenge(c, addr, action) PROVE ConsumedStay
    BY Zenon, <1>1, <1>2, <1>3 DEF persistWalletChallenge, ConsumedStay
  <1>4. ASSUME challenge[c] \in Challenge, Consume(c)
        PROVE  ConsumedStay /\ challenge'[c].consumed /\ challenge'[c].addr = challenge[c].addr
    <2>1. /\ [challenge[c] EXCEPT !.consumed = TRUE].consumed
          /\ [challenge[c] EXCEPT !.consumed = TRUE].addr = challenge[c].addr
      BY <1>4 DEF Challenge
    <2>2. challenge'[c] = [challenge[c] EXCEPT !.consumed = TRUE] /\ \A d \in Challenges : d # c => challenge'[d] = challenge[d]
      BY Zenon, <1>1, <1>4 DEF Consume
    <2>. QED BY Zenon, <2>1, <2>2 DEF ConsumedStay
  <1>. QED BY Zenon, <1>3, <1>4

\* The entries of the history go on resting on their challenges.
LEMMA HistoryStays ==
    ASSUME AccountTypeOK, RecipientIsProved, CooldownHolds, ConsumedStay, history' = history,
           account'.status # "pending" => account.status # "pending" /\ account'.recipient = account.recipient
    PROVE  RecipientIsProved' /\ CooldownHolds'
  <1>1. CooldownHolds'
    BY Zenon DEF CooldownHolds
  <1>2. \A i \in 1..Len(history) : history[i].by \in Challenges
    <2>1. history \in Seq(Entry)
      BY Zenon DEF AccountTypeOK
    <2>2. \A i \in 1..Len(history) : history[i] \in Entry
      BY <2>1
    <2>. QED BY <2>2 DEF Entry
  <1>3. ASSUME NEW i \in 1..Len(history')
        PROVE  challenge'[history'[i].by].consumed /\ challenge'[history'[i].by].addr = history'[i].addr
    BY Zenon, <1>2, <1>3 DEF RecipientIsProved, ConsumedStay
  <1>. QED BY Zenon, <1>1, <1>3 DEF RecipientIsProved, LastProof

\* A proof adds an entry of its own.
LEMMA HistoryGrows ==
    ASSUME AccountTypeOK, RecipientIsProved, CooldownHolds, NEW c \in Challenges, challenge[c] \in Challenge,
           challenge[c].consumed = FALSE, Consume(c), Record(c), CooledDown, account'.recipient = challenge[c].addr
    PROVE  RecipientIsProved' /\ CooldownHolds' /\ history' # <<>> /\ LastProof'.at = clock
  <1>. DEFINE e == [addr |-> challenge[c].addr, at |-> clock, by |-> c]
              n == Len(history)
  <1>1. e.addr = challenge[c].addr /\ e.at = clock /\ e.by = c
    OBVIOUS
  <1>2. history \in Seq(Entry) /\ clock \in Nat
    BY Zenon DEF AccountTypeOK
  <1>3. challenge[c].addr \in Addresses
    BY DEF Challenge
  <1>4. e \in Entry
    BY Zenon, <1>2, <1>3 DEF Entry
  <1>5. history' = Append(history, e)
    BY Zenon DEF Record
  <1>6. ConsumedStay /\ challenge'[c].consumed /\ challenge'[c].addr = challenge[c].addr
    BY Zenon, ChallengesStay
  <1>. HIDE DEF e
  <1>7. /\ n \in Nat /\ Len(history') = n + 1 /\ history'[n + 1] = e
        /\ \A i \in 1..n : history'[i] = history[i] /\ history[i] \in Entry
    BY <1>2, <1>4, <1>5
  <1>8. history' # <<>> /\ LastProof' = e
    BY <1>7 DEF LastProof
  <1>9. \A i \in 1..n : history[i].by \in Challenges /\ history[i].at \in Nat
    BY <1>7 DEF Entry
  <1>10. \A i \in 1..n : /\ challenge'[history[i].by].consumed /\ challenge'[history[i].by].addr = history[i].addr
                         /\ history[i].by # c
    BY Zenon, <1>6, <1>9 DEF RecipientIsProved, ConsumedStay
  <1>. HIDE DEF n
  <1>11. \A i \in 1..Len(history') : i \in 1..n \/ i = n + 1
    BY <1>7
  <1>12. \A i \in 1..Len(history') : /\ challenge'[history'[i].by].consumed
                                     /\ challenge'[history'[i].by].addr = history'[i].addr
    BY Zenon, <1>1, <1>6, <1>7, <1>10, <1>11
  <1>13. ASSUME NEW i \in 1..Len(history'), NEW j \in 1..Len(history'), history'[i].by = history'[j].by PROVE i = j
    <2>1. CASE i \in 1..n /\ j \in 1..n
      <3>1. history[i].by = history[j].by
        BY Zenon, <1>7, <1>13, <2>1
      <3>. QED BY Zenon, <2>1, <3>1 DEF RecipientIsProved, n
    <2>2. i \in 1..n /\ j = n + 1 => FALSE
      BY Zenon, <1>1, <1>7, <1>10, <1>13
    <2>3. j \in 1..n /\ i = n + 1 => FALSE
      BY Zenon, <1>1, <1>7, <1>10, <1>13
    <2>. QED BY Zenon, <1>11, <2>1, <2>2, <2>3
  <1>14. RecipientIsProved'
    BY Zenon, <1>1, <1>8, <1>12, <1>13 DEF RecipientIsProved
  <1>15. CooldownHolds'
    <2>1. ASSUME NEW i \in 2..n PROVE history'[i].at - history'[i - 1].at >= RecipientCooldown
      <3>1. i \in 1..n /\ i - 1 \in 1..n
        BY <1>7
      <3>2. history[i].at - history[i - 1].at >= RecipientCooldown
        BY Zenon, <2>1 DEF CooldownHolds, n
      <3>. QED BY Zenon, <1>7, <3>1, <3>2
    <2>2. ASSUME n # 0 PROVE history'[n + 1].at - history'[n].at >= RecipientCooldown
      <3>1. n \in 1..n /\ history # <<>>
        BY <1>2, <1>7, <2>2 DEF n
      <3>2. clock - history[n].at >= RecipientCooldown
        BY Zenon, <3>1 DEF CooledDown, LastProof, n
      <3>. QED BY Zenon, <1>1, <1>7, <3>1, <3>2
    <2>3. \A i \in 2..Len(history') : i \in 2..n \/ (i = n + 1 /\ i - 1 = n /\ n # 0)
      BY <1>7
    <2>. QED BY Zenon, <2>1, <2>2, <2>3 DEF CooldownHolds
  <1>. QED BY Zenon, <1>1, <1>8, <1>14, <1>15

-----------------------------------------------------------------------------
(* One step per request                                                    *)

\* A request that leaves the recipient, its proof and the sessions' alone.
Quiet ==
    /\ clock' = clock /\ history' = history /\ provedBy' = provedBy /\ marking' \in {marking, None}
    /\ account'.recipient = account.recipient /\ account'.walletAt = account.walletAt
    /\ account'.status = "pending" <=> account.status = "pending"
    /\ \A s \in Sessions : session'[s].walletAt \in {session[s].walletAt, Never}
    /\ ConsumedStay

\* It keeps the invariant.
LEMMA QuietKeeps ==
    ASSUME AccountInv, AccountTypeOK', Quiet
    PROVE  AccountInv'
  <1>1. PendingIsUnproved'
    <2>1. CASE account.status = "pending"
      BY Zenon, <2>1 DEF AccountInv, PendingIsUnproved, Quiet
    <2>2. CASE account.status # "pending"
      BY Zenon, <2>2 DEF AccountInv, PendingIsUnproved, Quiet, LastProof
    <2>. QED BY Zenon, <2>1, <2>2
  <1>2. ProofIsRecipients'
    BY Zenon DEF AccountInv, ProofIsRecipients, Quiet
  <1>3. MarkingIsPrompt'
    BY Zenon DEF AccountInv, MarkingIsPrompt, Quiet
  <1>4. RecipientIsProved' /\ CooldownHolds'
    BY Zenon, HistoryStays DEF AccountInv, Quiet
  <1>. QED BY Zenon, <1>1, <1>2, <1>3, <1>4 DEF AccountInv

\* These requests are quiet.
LEMMA QuietRequests ==
    ASSUME AccountTypeOK,
           \/ \E issued \in SUBSET Sessions : verifyEmail(issued)
           \/ \E s \in Sessions : RevokeAdminSession(s)
           \/ \E action : WalletChallenge(action)
           \/ \E c \in Challenges : WalletChallengeInsert(c) \/ \E addr : ChangeChallenge(c, addr)
           \/ \E k \in Keys : createAPIKey(k) \/ revokeAPIKey(k)
           \/ \E reinstate \in BOOLEAN : Suspend(reinstate)
           \/ MarkFails \/ UNCHANGED accountVars
    PROVE  Quiet
  <1>1. ASSUME challenge' = challenge PROVE ConsumedStay
    BY Zenon, <1>1 DEF ConsumedStay
  <1>2. account \in Account /\ session \in [Sessions -> Session]
    BY Zenon DEF AccountTypeOK
  <1>3. ASSUME NEW issued \in SUBSET Sessions, verifyEmail(issued) PROVE Quiet
    <2>1. /\ [account EXCEPT !.email = TRUE].recipient = account.recipient
          /\ [account EXCEPT !.email = TRUE].walletAt = account.walletAt
          /\ [account EXCEPT !.email = TRUE].status = account.status
      BY <1>2 DEF Account
    <2>2. ASSUME NEW s \in Sessions PROVE session'[s].walletAt \in {session[s].walletAt, Never}
      <3>1. CASE s \in issued
        BY <1>3, <3>1 DEF verifyEmail
      <3>2. CASE s \notin issued
        BY Zenon, <1>3, <3>2 DEF verifyEmail
      <3>. QED BY Zenon, <3>1, <3>2
    <2>. QED BY Zenon, <1>1, <1>3, <2>1, <2>2 DEF verifyEmail, Quiet
  <1>4. ASSUME NEW s \in Sessions, RevokeAdminSession(s) PROVE Quiet
    <2>1. [session[s] EXCEPT !.status = "revoked"].walletAt = session[s].walletAt
      BY <1>2 DEF Session
    <2>2. \A r \in Sessions : session'[r].walletAt = session[r].walletAt
      BY Zenon, <1>2, <1>4, <2>1 DEF RevokeAdminSession
    <2>. QED BY Zenon, <1>1, <1>4, <2>2 DEF RevokeAdminSession, Quiet
  <1>5. ASSUME NEW action, WalletChallenge(action) PROVE Quiet
    BY Zenon, <1>1, <1>5 DEF WalletChallenge, Quiet
  <1>6. ASSUME NEW c \in Challenges, WalletChallengeInsert(c) \/ \E addr : ChangeChallenge(c, addr) PROVE Quiet
    BY Zenon, <1>6, ChallengesStay DEF WalletChallengeInsert, ChangeChallenge, Quiet
  <1>7. ASSUME NEW k \in Keys, createAPIKey(k) \/ revokeAPIKey(k) PROVE Quiet
    BY Zenon, <1>1, <1>7 DEF createAPIKey, revokeAPIKey, Quiet
  <1>8. ASSUME NEW reinstate \in BOOLEAN, Suspend(reinstate) PROVE Quiet
    <2>. DEFINE st == IF reinstate THEN "active" ELSE "suspended"
    <2>1. account' = [account EXCEPT !.status = st]
      BY Zenon, <1>8 DEF Suspend
    <2>2. account.status # "pending" /\ st # "pending"
      BY <1>8 DEF Suspend
    <2>. HIDE DEF st
    <2>3. account'.recipient = account.recipient /\ account'.walletAt = account.walletAt /\ account'.status = st
      BY <1>2, <2>1 DEF Account
    <2>. QED BY Zenon, <1>1, <1>8, <2>2, <2>3 DEF Suspend, Quiet
  <1>9. CASE MarkFails \/ UNCHANGED accountVars
    BY Zenon, <1>1, <1>9 DEF MarkFails, accountVars, Quiet
  <1>. QED BY Zenon, <1>3, <1>4, <1>5, <1>6, <1>7, <1>8, <1>9

\* A pending merchant's other recipient needs its own proof.
LEMMA PendingRecipientKeeps ==
    ASSUME AccountInv, AccountTypeOK', NEW c \in Challenges, NEW addr \in Addresses,
           PendingRecipientChallenge(c, addr)
    PROVE  AccountInv'
  <1>1. account \in Account /\ AccountTypeOK
    BY Zenon DEF AccountInv, AccountTypeOK
  <1>2. account'.status = "pending" /\ account'.walletAt = account.walletAt
    BY <1>1 DEF PendingRecipientChallenge, Account
  <1>3. account.status = "pending"
    BY Zenon DEF PendingRecipientChallenge
  <1>4. PendingIsUnproved' /\ marking = None /\ \A s \in Sessions : session[s].walletAt = Never
    BY Zenon, <1>2, <1>3 DEF AccountInv, PendingIsUnproved, PendingRecipientChallenge
  <1>5. RecipientIsProved' /\ CooldownHolds'
    BY Zenon, <1>1, <1>2, ChallengesStay, HistoryStays DEF AccountInv, PendingRecipientChallenge
  <1>6. ProofIsRecipients' /\ MarkingIsPrompt'
    BY Zenon, <1>4 DEF ProofIsRecipients, MarkingIsPrompt, PendingRecipientChallenge
  <1>. QED BY Zenon, <1>4, <1>5, <1>6 DEF AccountInv

\* The first proof activates the merchant, and may be on its way to a session.
LEMMA VerifyRecipientKeeps ==
    ASSUME AccountInv, AccountTypeOK', NEW c \in Challenges, NEW k \in Keys, NEW s \in Sessions,
           VerifyRecipient(c, k, s)
    PROVE  AccountInv'
  <1>1. account \in Account /\ AccountTypeOK /\ clock \in Nat
    BY Zenon DEF AccountInv, AccountTypeOK
  <1>2. account'.status = "active" /\ account'.walletAt = clock /\ account'.recipient = account.recipient
    BY <1>1 DEF VerifyRecipient, Account
  <1>3. /\ account.status = "pending" /\ history = <<>> /\ marking = None
        /\ \A r \in Sessions : session'[r].walletAt = Never
    BY Zenon DEF AccountInv, PendingIsUnproved, VerifyRecipient
  <1>4. challenge[c] \in Challenge /\ challenge[c].consumed = FALSE /\ account.recipient = challenge[c].addr
    <2>1. "verify_recipient" \in Actions
      BY DEF Actions
    <2>. QED BY Zenon, <1>1, <2>1, ProvenWasIssued DEF VerifyRecipient
  <1>5. CooledDown
    BY Zenon, <1>3 DEF CooledDown
  <1>6. RecipientIsProved' /\ CooldownHolds' /\ history' # <<>> /\ LastProof'.at = clock
    BY Zenon, <1>1, <1>2, <1>4, <1>5, HistoryGrows DEF AccountInv, VerifyRecipient
  <1>7. clock' = clock
    BY Zenon DEF VerifyRecipient
  <1>8. PendingIsUnproved'
    BY <1>1, <1>2, <1>6, <1>7 DEF PendingIsUnproved
  <1>9. ProofIsRecipients'
    BY Zenon, <1>3 DEF ProofIsRecipients
  <1>10. MarkingIsPrompt'
    <2>. DEFINE m == [session |-> s, addr |-> challenge[c].addr, since |-> clock]
    <2>1. marking' = None \/ marking' = m
      BY Zenon, <1>3 DEF VerifyRecipient
    <2>2. m.addr = challenge[c].addr /\ m.since = clock
      OBVIOUS
    <2>. HIDE DEF m
    <2>3. clock - clock <= HandlerTime
      BY <1>1, AccountAssumption
    <2>. QED BY Zenon, <1>2, <1>4, <1>7, <2>1, <2>2, <2>3 DEF MarkingIsPrompt
  <1>. QED BY Zenon, <1>6, <1>8, <1>9, <1>10 DEF AccountInv

\* A session's proof is given the time and the address of the one who signed.
LEMMA ElevationKeeps ==
    ASSUME AccountInv, AccountTypeOK', NEW s \in Sessions, account.status # "pending",
           session' = [session EXCEPT ![s].walletAt = clock],
           provedBy' = [provedBy EXCEPT ![s] = account.recipient],
           ConsumedStay, UNCHANGED <<clock, account, history>>, marking' \in {marking, None}
    PROVE  AccountInv'
  <1>1. AccountTypeOK /\ clock \in Nat
    BY Zenon DEF AccountInv, AccountTypeOK
  <1>2. \A r \in Sessions : r # s => session'[r] = session[r] /\ provedBy'[r] = provedBy[r]
    BY Zenon, <1>1 DEF AccountTypeOK
  <1>3. provedBy'[s] = account.recipient
    BY Zenon, <1>1 DEF AccountTypeOK
  <1>4. PendingIsUnproved'
    BY Zenon DEF AccountInv, PendingIsUnproved, LastProof
  <1>5. ProofIsRecipients'
    BY Zenon, <1>2, <1>3 DEF AccountInv, ProofIsRecipients
  <1>6. MarkingIsPrompt'
    BY Zenon DEF AccountInv, MarkingIsPrompt
  <1>7. RecipientIsProved' /\ CooldownHolds'
    BY Zenon, <1>1, HistoryStays DEF AccountInv
  <1>. QED BY Zenon, <1>4, <1>5, <1>6, <1>7 DEF AccountInv

\* The two ways to give it.
LEMMA SignInKeeps ==
    ASSUME AccountInv, AccountTypeOK',
           \/ MarkAdminSessionWalletVerified
           \/ \E c \in Challenges, s \in Sessions : VerifyAdminWallet(c, s)
    PROVE  AccountInv'
  <1>0. AccountTypeOK
    BY Zenon DEF AccountInv
  <1>1. CASE MarkAdminSessionWalletVerified
    <2>1. marking # None /\ marking.session \in Sessions
      BY <1>0, <1>1 DEF MarkAdminSessionWalletVerified, AccountTypeOK
    <2>2. marking.addr = account.recipient /\ account.status # "pending"
      BY Zenon, <2>1 DEF AccountInv, MarkingIsPrompt, PendingIsUnproved
    <2>3. ConsumedStay
      BY Zenon, <1>1 DEF MarkAdminSessionWalletVerified, ConsumedStay
    <2>. QED BY Zenon, <1>1, <2>1, <2>2, <2>3, ElevationKeeps DEF MarkAdminSessionWalletVerified
  <1>2. ASSUME NEW c \in Challenges, NEW s \in Sessions, VerifyAdminWallet(c, s) PROVE AccountInv'
    <2>1. "authenticate_admin" \in Actions
      BY DEF Actions
    <2>2. ConsumedStay
      BY Zenon, <1>0, <1>2, <2>1, ProvenWasIssued, ChallengesStay DEF VerifyAdminWallet
    <2>3. account.status # "pending"
      BY <1>2 DEF VerifyAdminWallet
    <2>. QED BY Zenon, <1>2, <2>2, <2>3, ElevationKeeps DEF VerifyAdminWallet
  <1>. QED BY Zenon, <1>1, <1>2

\* A rotation takes every proof older than itself from every session.
LEMMA RotationKeeps ==
    ASSUME AccountInv, AccountTypeOK', NEW c \in Challenges, RotateTo(c), UNCHANGED <<clock, marking>>,
           \A s \in Sessions : \/ session'[s].walletAt = Never
                               \/ provedBy'[s] = challenge[c].addr
    PROVE  AccountInv'
  <1>1. account \in Account /\ AccountTypeOK /\ clock \in Nat
    BY Zenon DEF AccountInv, AccountTypeOK
  <1>2. /\ account'.status = account.status /\ account'.walletAt = clock
        /\ account'.recipient = challenge[c].addr
    BY <1>1 DEF RotateTo, Account
  <1>3. challenge[c] \in Challenge /\ challenge[c].consumed = FALSE
    <2>1. "change_recipient" \in Actions
      BY DEF Actions
    <2>. QED BY Zenon, <1>1, <2>1, ProvenWasIssued DEF RotateTo
  <1>4. RecipientIsProved' /\ CooldownHolds' /\ history' # <<>> /\ LastProof'.at = clock
    BY Zenon, <1>1, <1>2, <1>3, HistoryGrows DEF AccountInv, RotateTo
  <1>5. account.status # "pending"
    BY DEF RotateTo
  <1>6. marking = None
    <2>1. SUFFICES ASSUME marking # None PROVE FALSE
      BY Zenon
    <2>2. marking.since = account.walletAt /\ clock - marking.since <= HandlerTime
      BY Zenon, <2>1 DEF AccountInv, MarkingIsPrompt
    <2>3. history # <<>> /\ LastProof.at = account.walletAt
      BY Zenon, <1>5 DEF AccountInv, PendingIsUnproved
    <2>4. clock - account.walletAt >= RecipientCooldown
      BY Zenon, <2>3 DEF RotateTo, CooledDown
    <2>5. account.walletAt \in Int
      BY <1>1 DEF Account, Never
    <2>. QED BY <1>1, <2>2, <2>4, <2>5, AccountAssumption
  <1>7. PendingIsUnproved'
    BY <1>1, <1>2, <1>4, <1>5 DEF PendingIsUnproved
  <1>8. ProofIsRecipients'
    BY Zenon, <1>2 DEF ProofIsRecipients
  <1>9. MarkingIsPrompt'
    BY Zenon, <1>6 DEF MarkingIsPrompt
  <1>. QED BY Zenon, <1>4, <1>7, <1>8, <1>9 DEF AccountInv

\* The two ways to rotate.
LEMMA RotationsKeep ==
    ASSUME AccountInv, AccountTypeOK', NEW c \in Challenges,
           \/ \E k \in Keys : VerifyAuthenticatedWallet(c, k)
           \/ \E s \in Sessions : VerifyAdminRecipientChange(c, s)
    PROVE  AccountInv'
  <1>1. session \in [Sessions -> Session] /\ provedBy \in [Sessions -> Addresses \cup {None}]
    BY Zenon DEF AccountInv, AccountTypeOK
  <1>2. \A r \in Sessions : [session[r] EXCEPT !.walletAt = Never].walletAt = Never
    BY <1>1 DEF Session
  <1>3. \A r \in Sessions : Lowered[r].walletAt = Never
    BY Zenon, <1>2 DEF Lowered
  <1>4. ASSUME NEW k \in Keys, VerifyAuthenticatedWallet(c, k) PROVE AccountInv'
    BY Zenon, <1>3, <1>4, RotationKeeps DEF VerifyAuthenticatedWallet
  <1>5. ASSUME NEW s \in Sessions, VerifyAdminRecipientChange(c, s) PROVE AccountInv'
    <2>1. \A r \in Sessions : r # s => session'[r] = Lowered[r]
      BY Zenon, <1>5 DEF VerifyAdminRecipientChange, Lowered
    <2>2. provedBy'[s] = challenge[c].addr
      BY Zenon, <1>1, <1>5 DEF VerifyAdminRecipientChange
    <2>. QED BY Zenon, <1>3, <1>5, <2>1, <2>2, RotationKeeps DEF VerifyAdminRecipientChange
  <1>. QED BY Zenon, <1>4, <1>5

\* Time passes, for a request between its two writes no longer than it takes.
LEMMA TickKeeps ==
    ASSUME AccountInv, AccountTypeOK', Tick
    PROVE  AccountInv'
  <1>1. AccountTypeOK /\ account.walletAt \in Int /\ clock \in Nat /\ clock' = clock + 1
    BY AccountTypes DEF AccountInv, Tick, Never
  <1>2. PendingIsUnproved'
    BY <1>1 DEF AccountInv, PendingIsUnproved, Tick, LastProof
  <1>3. ProofIsRecipients'
    BY Zenon DEF AccountInv, ProofIsRecipients, Tick
  <1>4. MarkingIsPrompt'
    BY <1>1, AccountAssumption DEF AccountInv, MarkingIsPrompt, Tick
  <1>5. RecipientIsProved' /\ CooldownHolds'
    BY Zenon, <1>1, HistoryStays DEF AccountInv, Tick, ConsumedStay
  <1>. QED BY Zenon, <1>2, <1>3, <1>4, <1>5 DEF AccountInv

\* Every request keeps the invariant.
LEMMA AccountStep ==
    ASSUME AccountInv, [AccountNext]_accountVars
    PROVE  AccountInv'
  <1>1. AccountTypeOK /\ AccountTypeOK'
    BY Zenon, TypeStep DEF AccountInv
  <1>2. {} \in SUBSET Sessions /\ \A s \in Sessions : {s} \in SUBSET Sessions
    OBVIOUS
  <1>. QED BY Zenon, <1>1, <1>2, QuietRequests, QuietKeeps, PendingRecipientKeeps, VerifyRecipientKeeps, SignInKeeps,
              RotationsKeep, TickKeeps DEF AccountNext

\* A registered merchant has proved nothing.
LEMMA AccountStart == AccountInit => AccountInv
  <1>. SUFFICES ASSUME AccountInit PROVE AccountInv
    OBVIOUS
  <1>1. account \in Account /\ account.status = "pending" /\ account.walletAt = Never
    <2>1. "pending" \in Statuses
      BY DEF Statuses
    <2>2. PICK a \in Addresses : account = [status |-> "pending", email |-> FALSE, recipient |-> a, walletAt |-> Never]
      <3>1. account \in [status : {"pending"}, email : {FALSE}, recipient : Addresses, walletAt : {Never}]
        BY Zenon DEF AccountInit
      <3>. QED BY Zenon, <3>1
    <2>3. account \in Account
      BY Zenon, <2>1, <2>2 DEF Account
    <2>. QED BY <2>2, <2>3
  <1>2. NoSession \in Session /\ NoSession.walletAt = Never
    BY DEF NoSession, Session
  <1>3. history = <<>> /\ history \in Seq(Entry) /\ Len(history) = 0
    BY DEF AccountInit
  <1>4. AccountTypeOK
    BY Zenon, <1>1, <1>2, <1>3 DEF AccountInit, AccountTypeOK
  <1>5. RecipientIsProved /\ CooldownHolds
    BY <1>1, <1>3 DEF RecipientIsProved, CooldownHolds
  <1>6. PendingIsUnproved /\ ProofIsRecipients /\ MarkingIsPrompt
    BY Zenon, <1>1, <1>2, <1>3 DEF AccountInit, PendingIsUnproved, ProofIsRecipients, MarkingIsPrompt
  <1>. QED BY Zenon, <1>4, <1>5, <1>6 DEF AccountInv

-----------------------------------------------------------------------------
\* The inductive invariant of the account holds in every state.
THEOREM AccountInvariant == AccountSpec => []AccountInv
  <1>1. AccountInv /\ [AccountNext]_accountVars => AccountInv'
    BY Zenon, AccountStep
  <1>. QED BY <1>1, AccountStart, PTL DEF AccountSpec

\* AuthenticateAdmin and lockWalletAuthenticatedAdmin: a session that passes
\* their test was elevated by a signature of the recipient the merchant has now.
\* The request that activates a merchant elevates in a second transaction with no
\* look at the merchant; that is sound because a cooldown outlasts a request.
THEOREM SessionsActForTheRecipient == AccountSpec => []ElevationIsProved
  <1>1. AccountInv => ElevationIsProved
    BY Zenon DEF AccountInv, ProofIsRecipients, ElevationIsProved, Elevated
  <1>. QED BY <1>1, AccountInvariant, PTL

\* verifyWallet, VerifyAuthenticatedWallet, VerifyAdminRecipientChange: the
\* recipient of a merchant past registration is the last proved address, and no
\* challenge proves twice.
THEOREM RecipientsAreProved == AccountSpec => []RecipientIsProved
  <1>1. AccountInv => RecipientIsProved
    BY Zenon DEF AccountInv
  <1>. QED BY <1>1, AccountInvariant, PTL

\* Two entries of the history that follow each other are a cooldown apart,
\* whichever request rotated the recipient.
THEOREM RotationsAreApart == AccountSpec => []CooldownHolds
  <1>1. AccountInv => CooldownHolds
    BY Zenon DEF AccountInv
  <1>. QED BY <1>1, AccountInvariant, PTL

\* A suspended merchant's recipient, keys and pending changes stay what they
\* were, also for a request its middleware admitted before the suspension.
THEOREM SuspensionFreezes == AccountSpec => FrozenWhileSuspended
  <1>1. ASSUME AccountTypeOK, [AccountNext]_accountVars, account.status = "suspended"
        PROVE  FrozenStep
    <2>1. account \in Account
      BY Zenon, <1>1 DEF AccountTypeOK
    <2>2. ~ MayManageKeys
      BY <1>1 DEF MayManageKeys, lockAuthenticatedAPIKey, lockWalletAuthenticatedAdmin, Elevated
    <2>3. \A c, k, s : /\ ~ VerifyAuthenticatedWallet(c, k) /\ ~ VerifyAdminRecipientChange(c, s)
                       /\ ~ VerifyRecipient(c, k, s) /\ ~ VerifyAdminWallet(c, s)
      BY <1>1 DEF VerifyAuthenticatedWallet, VerifyAdminRecipientChange, VerifyRecipient, VerifyAdminWallet, RotateTo
    <2>4. \A c \in Challenges, addr \in Addresses : ~ PendingRecipientChallenge(c, addr) /\ ~ ChangeChallenge(c, addr)
      BY <1>1, <2>2 DEF PendingRecipientChallenge, ChangeChallenge, MayManageKeys
    <2>5. ASSUME account'.recipient = account.recipient, UNCHANGED <<apiKey, history, challenge>> PROVE FrozenStep
      BY Zenon, <2>5 DEF FrozenStep
    <2>6. /\ [account EXCEPT !.email = TRUE].recipient = account.recipient
          /\ \A st : [account EXCEPT !.status = st].recipient = account.recipient
      BY <2>1 DEF Account
    <2>7. ASSUME NEW issued, verifyEmail(issued) PROVE FrozenStep
      BY Zenon, <2>5, <2>6, <2>7 DEF verifyEmail
    <2>8. ASSUME NEW reinstate, Suspend(reinstate) PROVE FrozenStep
      BY Zenon, <2>5, <2>6, <2>8 DEF Suspend
    <2>9. ASSUME \/ \E s \in Sessions : RevokeAdminSession(s)
                 \/ \E action : WalletChallenge(action)
                 \/ MarkAdminSessionWalletVerified \/ MarkFails \/ Tick \/ UNCHANGED accountVars
          PROVE  FrozenStep
      BY Zenon, <2>5, <2>9 DEF RevokeAdminSession, WalletChallenge, MarkAdminSessionWalletVerified, MarkFails, Tick,
         accountVars
    <2>10. ASSUME NEW c \in Challenges, WalletChallengeInsert(c) PROVE FrozenStep
      <3>1. reading.action # "change_recipient"
        BY <1>1, <2>10 DEF WalletChallengeInsert, AccountTypeOK
      <3>2. challenge \in [Challenges -> {NoChallenge} \cup Challenge]
        BY Zenon, <1>1 DEF AccountTypeOK
      <3>3. \A d \in Challenges : challenge'[d].action = "change_recipient" => challenge'[d] = challenge[d]
        BY <2>10, <3>1, <3>2 DEF WalletChallengeInsert, persistWalletChallenge
      <3>. QED BY Zenon, <2>10, <3>3 DEF WalletChallengeInsert, FrozenStep
    <2>11. \A k \in Keys : ~ createAPIKey(k) /\ ~ revokeAPIKey(k)
      BY Zenon, <2>2 DEF createAPIKey, revokeAPIKey
    <2>. QED BY Zenon, <1>1, <2>3, <2>4, <2>7, <2>8, <2>9, <2>10, <2>11 DEF AccountNext
  <1>2. AccountInv /\ [AccountNext]_accountVars => [FrozenStep]_accountVars
    BY Zenon, <1>1 DEF AccountInv, FrozenStep
  <1>. QED BY <1>2, AccountInvariant, PTL DEF AccountSpec, FrozenWhileSuspended
=============================================================================
