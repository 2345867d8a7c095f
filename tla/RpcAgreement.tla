---------------------------- MODULE RpcAgreement ----------------------------
(***************************************************************************)
(* One payment seen through the providers of the JSON-RPC clients          *)
(* (internal/ethereum): every payment-critical read asks all of them at    *)
(* once, and what the service decides rests on their agreement. A trusted  *)
(* provider shows the network's chain, perhaps late; any other answers as  *)
(* it likes. One payment goes through verification, simulation, pricing,   *)
(* the broadcast and the observations of settlement/service.go; what its   *)
(* rows become on the way is SettlementPipeline.                           *)
(***************************************************************************)
EXTENDS Integers, Sequences, FiniteSets

CONSTANTS
    Providers,      \* the configured providers
    Primary,        \* the one that gets eth_sendRawTransaction
    TrustedSets,    \* the sets of providers that may be the trusted ones
    Confirmations,  \* depth that makes an outcome final
    MaxReorg,       \* blocks a reorganization may replace
    Drift,          \* blocks that may come between two reads of an observation
    MaxHeight,      \* bound on the chain
    MaxMishaps      \* bound on reorganizations and failed calls to trusted providers

ASSUME RpcAssumption ==
    /\ Primary \in Providers /\ IsFiniteSet(Providers)
    /\ TrustedSets \subseteq (SUBSET Providers) \ {{}}
    /\ {Confirmations, MaxReorg, Drift, MaxHeight, MaxMishaps} \subseteq Nat
    /\ MaxReorg + Drift < Confirmations

VARIABLES
    trusted,   \* the providers that tell the truth
    chain,     \* the network's chain, a sequence of blocks
    orphans,   \* the blocks it dropped
    forks,     \* reorganizations so far
    view,      \* the chain each trusted provider shows
    sent,      \* the transaction reached the network
    pc,        \* the read under way
    answer,    \* what each provider said to it
    receipt,   \* the receipt this observation is about
    drift,     \* blocks trusted providers gained since its canonical read began
    price,     \* the block the fees were taken from
    outcome,   \* what the service concluded
    faults

vars == <<trusted, chain, orphans, forks, view, sent, pc, answer, receipt, drift, price,
          outcome, faults>>

-----------------------------------------------------------------------------
(* Chains. A block is named by its height and fork; of its transactions    *)
(* only those that matter here: the payment's own, which succeeds or       *)
(* fails, and another that uses up the authorization.                      *)

Contents == {"none", "success", "failed", "other"}
Block == [number : Nat, fork : Nat, holds : Contents]

Has(c, held) == \E n \in 1..Len(c) : c[n].holds \in held
Spent(c) == Has(c, {"success", "other"})

\* What the next block may hold. Once the transaction is out, that another one
\* came first shows in its failing.
Mineable(c) ==
    {"none"} \cup (IF ~sent /\ ~Spent(c) THEN {"other"} ELSE {})
             \cup (IF sent /\ ~Has(c, {"success", "failed"}) THEN {"failed"} ELSE {})
             \cup (IF sent /\ ~Has(c, {"success", "failed", "other"}) THEN {"success"} ELSE {})

Grown(c, f, held) == Append(c, [number |-> Len(c) + 1, fork |-> f, holds |-> held])
Prefix(c, k) == [n \in 1..k |-> c[n]]

-----------------------------------------------------------------------------
(* Answers: a value, an error the node reports, or none in time. Values    *)
(* are tuples; <<>> is JSON's null.                                        *)

Unasked == [kind |-> "unasked", value |-> <<>>]
Value(v) == [kind |-> "value", value |-> v]
RPCError(message) == [kind |-> "rpc", value |-> <<message>>]
Unavailable == [kind |-> "down", value |-> <<>>]

\* What an honest node with chain c answers to the current read.
BlockAt(c, n) ==
    IF n \in 1..Len(c) THEN Value(<<c[n].number, c[n].fork>>) ELSE Unavailable
Honest(c) ==
    CASE pc = "verify" -> Value(IF Spent(c) THEN <<"used">> ELSE <<"unused">>)
      [] pc = "simulate" -> IF Spent(c) THEN RPCError("reverted") ELSE Value(<<>>)
      [] pc \in {"feeHead", "head"} -> Value(<<Len(c)>>)
      [] pc = "feeBlock" -> BlockAt(c, price[1])
      [] pc = "canonical" -> BlockAt(c, receipt[1])
      [] pc = "receipt" ->
           LET mined == {n \in 1..Len(c) : c[n].holds \in {"success", "failed"}} IN
               Value(IF mined = {} THEN <<>>
                     ELSE LET n == CHOOSE n \in mined : TRUE
                          IN  <<c[n].number, c[n].fork, c[n].holds>>)

\* What any node may answer to it. A block of another number, or a receipt of
\* another transaction, is invalid data and counts as no answer.
Heights == 1..(MaxHeight + 1)
Possible ==
    CASE pc = "verify" -> {<<"used">>, <<"unused">>}
      [] pc = "simulate" -> {<<>>}
      [] pc \in {"feeHead", "head"} -> {<<n>> : n \in Heights}
      [] pc = "feeBlock" -> {<<price[1], f>> : f \in 0..MaxMishaps}
      [] pc = "canonical" -> {<<receipt[1], f>> : f \in 0..MaxMishaps}
      [] pc = "receipt" -> {<<>>} \cup ((1..MaxHeight) \X (0..MaxMishaps) \X {"success", "failed"})
Claims == {Value(v) : v \in Possible} \cup {RPCError("reverted"), Unavailable}
          \cup (IF pc = "simulate" THEN {RPCError("refused")} ELSE {})

\* One provider of a read answers; each is asked on its own. An untrusted one
\* may say anything, so when it does makes no difference: it comes last.
Answer(p) ==
    /\ pc # "done" /\ answer[p] = Unasked
    /\ \/ p \in trusted /\ answer' = [answer EXCEPT ![p] = Honest(view[p])] /\ UNCHANGED faults
       \/ /\ p \in trusted /\ forks + faults < MaxMishaps
          /\ answer' = [answer EXCEPT ![p] = Unavailable] /\ faults' = faults + 1
       \/ /\ p \notin trusted /\ \A q \in trusted : answer[q] # Unasked
          /\ \E claim \in Claims : answer' = [answer EXCEPT ![p] = claim]
          /\ UNCHANGED faults
    /\ UNCHANGED <<trusted, chain, orphans, forks, view, sent, pc, receipt, drift, price, outcome>>

-----------------------------------------------------------------------------
(* Agreement.                                                              *)

Values == {answer[p].value : p \in Providers}

exactComparable ==
    IF \A p \in Providers : answer[p] = answer[Primary] THEN answer[Primary] ELSE Unavailable

\* Mutant: the faster provider's head.
HighestHead ==
    LET heads == {v[1] : v \in Values}
        high == CHOOSE h \in heads : \A g \in heads : g <= h
        low == CHOOSE h \in heads : \A g \in heads : h <= g IN
        IF high - low <= 2 THEN Value(<<high>>) ELSE Unavailable

\* BlockNumber tolerates heads up to two blocks apart, and returns the lowest.
maxLatestBlockSkew == 2
lowestHead ==
    LET heads == {v[1] : v \in Values}
        low == CHOOSE h \in heads : \A g \in heads : h <= g IN
        IF \A h \in heads : h - low <= maxLatestBlockSkew THEN Value(<<low>>) ELSE Unavailable

\* Mutant: a provider that does not answer is left out.
AgreementOfTheRest(reconciled) ==
    LET there == {p \in Providers : answer[p] # Unavailable} IN
        IF there # {} /\ \A p, q \in there : answer[p] = answer[q]
        THEN answer[CHOOSE p \in there : TRUE] ELSE Unavailable

\* Mutant: the error of one is the error of all.
AgreementOfAnyError(reconciled) ==
    IF \A p \in Providers : answer[p].kind = "value" THEN reconciled
    ELSE IF \E p \in Providers : answer[p].kind = "rpc"
    THEN answer[CHOOSE p \in Providers : answer[p].kind = "rpc"]
    ELSE Unavailable

\* Every provider must give a value, or every one the same error.
readClientAgreement(reconciled) ==
    IF \A p \in Providers : answer[p].kind = "value" THEN reconciled
    ELSE IF \A p \in Providers : answer[p].kind = "rpc" THEN exactComparable
    ELSE Unavailable

\* The verification client takes values only.
readAgreement ==
    IF \A p \in Providers : answer[p].kind = "value" THEN exactComparable ELSE Unavailable

-----------------------------------------------------------------------------
(* What the service does with an agreed answer. Any failure ends the call  *)
(* and a later one begins again.                                           *)

Goto(next) == pc' = next /\ answer' = [p \in Providers |-> Unasked]
Conclude(what) == Goto("done") /\ outcome' = what
Answered(read) == pc = read /\ \A p \in Providers : answer[p] # Unasked
Network == <<trusted, chain, orphans, forks, view, faults>>

\* Verification reads authorizationState.
ReadContract ==
    /\ Answered("verify")
    /\ LET agreed == readAgreement IN
           \/ agreed = Unavailable /\ Goto("verify") /\ UNCHANGED outcome
           \/ agreed = Value(<<"used">>) /\ Conclude("refused")
           \/ agreed = Value(<<"unused">>) /\ Goto("simulate") /\ UNCHANGED outcome
    /\ UNCHANGED <<Network, sent, receipt, drift, price>>

\* The simulation; only a revert retires the intent.
Call ==
    /\ Answered("simulate")
    /\ LET agreed == readClientAgreement(exactComparable) IN
           \/ agreed.kind = "value" /\ Goto("feeHead") /\ UNCHANGED outcome
           \/ agreed = RPCError("reverted") /\ Conclude("retired")
           \/ agreed \in {RPCError("refused"), Unavailable} /\ Goto("simulate") /\ UNCHANGED outcome
    /\ UNCHANGED <<Network, sent, receipt, drift, price>>

\* BlockByNumber(nil): the agreed head first.
FeeHead ==
    /\ Answered("feeHead")
    /\ LET agreed == readClientAgreement(lowestHead) IN
           \/ agreed.kind = "value" /\ Goto("feeBlock") /\ price' = agreed.value
           \/ agreed.kind # "value" /\ Goto("simulate") /\ UNCHANGED price
    /\ UNCHANGED <<Network, sent, receipt, drift, outcome>>

\* Then the block of that height, and with its base fee the transaction is
\* signed and sent, to the primary provider alone.
FeeBlock ==
    /\ Answered("feeBlock")
    /\ LET agreed == readClientAgreement(exactComparable) IN
           \/ /\ agreed.kind = "value" /\ Goto("receipt") /\ price' = agreed.value
              /\ sent' \in (IF Primary \in trusted THEN {TRUE} ELSE BOOLEAN)
           \/ agreed.kind # "value" /\ Goto("simulate") /\ price' = <<>> /\ UNCHANGED sent
    /\ UNCHANGED <<Network, receipt, drift, outcome>>

TransactionReceipt ==
    /\ Answered("receipt")
    /\ LET agreed == readClientAgreement(exactComparable) IN
           \/ agreed.kind = "value" /\ agreed.value # <<>>
              /\ Goto("canonical") /\ receipt' = agreed.value
           \/ (agreed.kind = "value" => agreed.value = <<>>) /\ Goto("receipt") /\ UNCHANGED receipt
    /\ UNCHANGED <<Network, sent, drift, price, outcome>>

Again == Goto("receipt") /\ receipt' = <<>> /\ drift' = 0

\* The receipt counts only while its block is canonical.
BlockByNumber ==
    /\ Answered("canonical")
    /\ LET agreed == readClientAgreement(exactComparable) IN
           \/ agreed = Value(<<receipt[1], receipt[2]>>) /\ Goto("head") /\ UNCHANGED <<receipt, drift>>
           \/ agreed # Value(<<receipt[1], receipt[2]>>) /\ Again
    /\ UNCHANGED <<Network, sent, price, outcome>>

\* Mutant: the block itself does not count.
DepthBelow(head) == IF head >= receipt[1] THEN head - receipt[1] ELSE 0

Depth(head) == IF head >= receipt[1] THEN head - receipt[1] + 1 ELSE 0

\* Confirmation and observeSettlement: final at full depth, else look again.
Confirmation ==
    /\ Answered("head")
    /\ LET agreed == readClientAgreement(lowestHead) IN
           \/ /\ agreed.kind = "value" /\ Depth(agreed.value[1]) >= Confirmations
              /\ Conclude(IF receipt[3] = "success" THEN "confirmed" ELSE "reverted")
              /\ UNCHANGED <<receipt, drift>>
           \/ /\ agreed.kind = "value" => Depth(agreed.value[1]) < Confirmations
              /\ Again /\ UNCHANGED outcome
    /\ UNCHANGED <<Network, sent, price>>

-----------------------------------------------------------------------------
(* The network and the trusted providers. The network makes no step        *)
(* between the last answer to a read and the decision on it, which does    *)
(* not look at the chain.                                                  *)

Awaiting == \E p \in Providers : answer[p] = Unasked
Service == <<trusted, sent, pc, answer, receipt, price, outcome, faults>>

Extend ==
    /\ Awaiting /\ Len(chain) < MaxHeight
    /\ \E held \in Mineable(chain) : chain' = Grown(chain, forks, held)
    /\ UNCHANGED <<Service, orphans, forks, view, drift>>

\* The last k blocks give way to as many others, which hold anything.
Reorg ==
    /\ Awaiting /\ forks + faults < MaxMishaps
    /\ forks' = forks + 1
    /\ \E k \in 1..MaxReorg :
          /\ k < Len(chain)
          /\ chain' \in {[n \in 1..Len(chain) |->
                            IF n <= Len(chain) - k THEN chain[n]
                            ELSE [number |-> n, fork |-> forks + 1, holds |-> held[n]]] :
                         held \in [Len(chain) - k + 1 .. Len(chain) -> Contents]}
          /\ \A n \in Len(chain) - k + 1 .. Len(chain) :
                chain'[n].holds \in Mineable(Prefix(chain', n - 1))
          /\ orphans' = orphans \cup {chain[n] : n \in Len(chain) - k + 1 .. Len(chain)}
    /\ UNCHANGED <<Service, view, drift>>

\* A trusted provider moves to more of the network's chain, or to another fork
\* of it, but in the course of an observation by no more than Drift blocks.
Sync(p) ==
    /\ p \in trusted /\ pc # "done"
    /\ \E k \in 1..Len(chain) :
          LET gained == IF k > Len(view[p]) THEN k - Len(view[p]) ELSE 0 IN
              /\ \E n \in 1..k : n <= Len(view[p]) => view[p][n] # chain[n]
              /\ view' = [view EXCEPT ![p] = Prefix(chain, k)]
              /\ \/ pc \notin {"canonical", "head"} /\ UNCHANGED drift
                 \/ pc \in {"canonical", "head"} /\ drift + gained <= Drift /\ drift' = drift + gained
    /\ UNCHANGED <<Service, chain, orphans, forks>>

Genesis == <<[number |-> 1, fork |-> 0, holds |-> "none"]>>

Init ==
    /\ trusted \in TrustedSets
    /\ chain = Genesis /\ orphans = {} /\ forks = 0
    /\ view = [p \in Providers |-> Genesis]
    /\ sent = FALSE /\ pc = "verify" /\ answer = [p \in Providers |-> Unasked]
    /\ receipt = <<>> /\ drift = 0 /\ price = <<>> /\ outcome = "open" /\ faults = 0

Decide == ReadContract \/ Call \/ FeeHead \/ FeeBlock \/ TransactionReceipt \/ BlockByNumber
          \/ Confirmation

Next == Extend \/ Reorg \/ Decide \/ \E p \in Providers : Answer(p) \/ Sync(p)

Spec == Init /\ [][Next]_vars

\* Calls have a timeout and the workers tick for ever, so reads are answered
\* and decided on; a trusted provider keeps up with the network.
FairSpec ==
    /\ Spec
    /\ WF_vars(Decide \/ \E p \in Providers : Answer(p))
    /\ WF_vars(\E p \in Providers : Sync(p))

-----------------------------------------------------------------------------
(* Properties.                                                             *)

\* An outcome recorded as final is the network's, for good: one trusted
\* provider is enough, whatever the others say, however late it is, and
\* although its reads for one observation are not made at one moment
\* (Confirmation, observeSettlement).
FinalIsPermanent ==
    /\ outcome = "confirmed" =>
          receipt[1] \in 1..Len(chain)
          /\ chain[receipt[1]] = [number |-> receipt[1], fork |-> receipt[2], holds |-> "success"]
    /\ outcome = "reverted" =>
          receipt[1] \in 1..Len(chain)
          /\ chain[receipt[1]] = [number |-> receipt[1], fork |-> receipt[2], holds |-> "failed"]

\* A payment is turned away as unsettleable only if the authorization was used
\* on the chain: no outage or error of a provider passes for a revert
\* (readClientAgreement, Call, readAgreement).
RefusalIsProved ==
    outcome \in {"refused", "retired"} =>
        Spent(chain) \/ \E b \in orphans : b.holds \in {"success", "other"}

\* The base fee that prices the transaction is that of a block of the network,
\* not one a single provider made up (BlockByNumber of the agreed head).
PriceIsReal ==
    sent => \E b \in orphans \cup {chain[n] : n \in 1..Len(chain)} : price = <<b.number, b.fork>>

\* With every provider honest the agreement does not stand in the way: once the
\* transaction is deep enough its outcome is found, although the providers lag
\* and disagree in between.
Buried == \E n \in 1..Len(chain) : /\ chain[n].holds \in {"success", "failed"}
                                   /\ n + Confirmations - 1 <= Len(chain)
HonestProvidersResolve == trusted = Providers => (Buried ~> outcome # "open")
=============================================================================
