--------------------------- MODULE EthereumProofs ---------------------------
(***************************************************************************)
(* What the chain tells, and what it costs.  What provider agreement is    *)
(* worth, for any number of providers of which one can be trusted, and any *)
(* depth that exceeds what the chain may reorganize and what it may grow   *)
(* during one observation; and what fee bumps are worth, for every base    *)
(* fee, tip and ceiling.                                                   *)
(***************************************************************************)
EXTENDS RpcAgreement, ReplacementFees, WellFoundedInduction, TLAPS

\* The blocks the network ever had.
Made(b) == b \in orphans \/ \E n \in 1..Len(chain) : b = chain[n]

\* Blocks are told apart by number and fork.
ChainOK ==
    /\ trusted \in TrustedSets /\ forks \in Nat /\ chain \in Seq(Block)
    /\ \A n \in 1..Len(chain) : chain[n].number = n /\ chain[n].fork <= forks
    /\ \A b \in orphans : b \in Block /\ b.fork < forks
    /\ \A b, c \in Block : (Made(b) /\ Made(c) /\ b.number = c.number /\ b.fork = c.fork) => b = c

\* A provider shows blocks of the network, and those it shows deeper than a
\* reorganization goes are the network's for good.
ViewOK(v) ==
    /\ v \in Seq(Block)
    /\ \A n \in 1..Len(v) :
          /\ v[n].number = n /\ Made(v[n])
          /\ n + MaxReorg <= Len(v) => n + MaxReorg <= Len(chain) /\ chain[n] = v[n]

ViewsOK == view = [p \in Providers |-> view[p]] /\ \A p \in Providers : ViewOK(view[p])

Names(r, b) == r = <<b.number, b.fork, b.holds>> /\ b.holds \in {"success", "failed"}
Real(r) == \E b \in Block : Made(b) /\ Names(r, b)
Permanent(r) ==
    \E n \in 1..Len(chain) : n = r[1] /\ n + MaxReorg <= Len(chain) /\ chain[n].fork = r[2]

\* The canonical read of p proves the receipt final, or p was not far enough.
Caught(p) == Permanent(receipt) \/ Len(view[p]) < receipt[1] + MaxReorg + drift

SpentEver == Spent(chain) \/ \E b \in orphans : b.holds \in {"success", "other"}

\* What the answers of a trusted provider are evidence of.
Evidence(p) ==
    /\ (pc = "verify" /\ answer[p] = Value(<<"used">>)) => SpentEver
    /\ (pc = "simulate" /\ answer[p] = RPCError("reverted")) => SpentEver
    /\ (pc = "receipt" /\ answer[p].kind = "value" /\ answer[p].value # <<>>) =>
          Real(answer[p].value)
    /\ (pc = "canonical" /\ answer[p] = Value(<<receipt[1], receipt[2]>>)) => Caught(p)
    /\ (pc = "head" /\ answer[p].kind = "value") =>
          Permanent(receipt) \/ answer[p].value[1] < receipt[1] + MaxReorg + drift

\* An observation in progress, and its conclusion.
ReadsOK ==
    /\ drift \in 0..Drift
    /\ answer = [p \in Providers |-> answer[p]]
    /\ \A p \in Providers : (pc = "head" /\ answer[p].kind = "value") =>
          \E h \in Nat : answer[p].value = <<h>>
    /\ \A p \in trusted : Evidence(p)
    /\ pc \in {"canonical", "head"} => Real(receipt)
    /\ pc = "head" => \A p \in trusted : Caught(p)
    /\ outcome \in {"refused", "retired"} => SpentEver
    /\ outcome \in {"confirmed", "reverted"} =>
          /\ pc = "done" /\ Real(receipt) /\ Permanent(receipt)
          /\ outcome = "confirmed" <=> receipt[3] = "success"

RpcInv == ChainOK /\ ViewsOK /\ ReadsOK

-----------------------------------------------------------------------------

\* What a copy of a chain's beginning is.
LEMMA PrefixIs ==
    ASSUME NEW c \in Seq(Block), NEW k \in 0..Len(c)
    PROVE  /\ Prefix(c, k) \in Seq(Block) /\ Len(Prefix(c, k)) = k
           /\ \A n \in 1..k : Prefix(c, k)[n] = c[n]
  BY DEF Prefix

\* An outcome on a real receipt for a permanent block is the network's.
LEMMA PermanentIsFinal ==
    ASSUME ChainOK, NEW r, Real(r), Permanent(r)
    PROVE  r[1] \in 1..Len(chain)
           /\ chain[r[1]] = [number |-> r[1], fork |-> r[2], holds |-> r[3]]
           /\ r[3] \in {"success", "failed"}
  <1>1. PICK n \in 1..Len(chain) : n = r[1] /\ chain[n].fork = r[2]
    BY DEF Permanent
  <1>2. PICK b \in Block : Made(b) /\ Names(r, b)
    BY DEF Real
  <1>3. /\ b.number = r[1] /\ b.fork = r[2] /\ b.holds = r[3]
        /\ r[3] \in {"success", "failed"}
    BY <1>2 DEF Names
  <1>4. chain[n] \in Block /\ chain[n].number = n /\ Made(chain[n])
    BY <1>1 DEF ChainOK, Made
  <1>5. chain[n] = b
    BY <1>1, <1>2, <1>3, <1>4 DEF ChainOK
  <1>6. b = [number |-> b.number, fork |-> b.fork, holds |-> b.holds]
    BY <1>2 DEF Block
  <1>. QED BY <1>1, <1>3, <1>5, <1>6

-----------------------------------------------------------------------------
(* The network.                                                            *)

\* What is so stays so: blocks made, authorizations used, blocks out of reach.
Grows ==
    /\ \A b : Made(b) => Made(b)'
    /\ SpentEver => SpentEver'
    /\ \A r : Permanent(r) => Permanent(r)'
    /\ Len(chain) <= Len(chain')
    /\ \A n \in 1..Len(chain) : n + MaxReorg <= Len(chain) => chain'[n] = chain[n]

\* A new block is like no other.
LEMMA ExtendGrows ==
    ASSUME ChainOK, Extend
    PROVE  ChainOK' /\ Grows
  <1>1. PICK held \in Contents : chain' = Grown(chain, forks, held)
    BY DEF Extend, Mineable, Contents
  <1>. DEFINE new == [number |-> Len(chain) + 1, fork |-> forks, holds |-> held]
  <1>2. orphans' = orphans /\ forks' = forks /\ trusted' = trusted
    BY DEF Extend, Service
  <1>3. chain \in Seq(Block) /\ Len(chain) \in Nat /\ forks \in Nat /\ new \in Block
    BY DEF ChainOK, Block
  <1>4. /\ chain' \in Seq(Block) /\ Len(chain') = Len(chain) + 1
        /\ \A n \in 1..Len(chain) : chain'[n] = chain[n]
        /\ chain'[Len(chain) + 1] = new
    BY <1>1, <1>3 DEF Grown
  <1>. HIDE DEF new
  <1>5. \A b : Made(b)' <=> Made(b) \/ b = new
    <2>1. \A n : n \in 1..Len(chain') <=> n \in 1..Len(chain) \/ n = Len(chain) + 1
      BY <1>3, <1>4
    <2>. QED BY <1>2, <1>4, <2>1 DEF Made
  <1>6. new.number = Len(chain) + 1 /\ new.fork = forks
    BY DEF new
  <1>7. ASSUME NEW b \in Block, Made(b), b.fork = new.fork PROVE b.number # new.number
    <2>1. CASE b \in orphans
      BY <1>3, <1>6, <1>7, <2>1 DEF ChainOK, Block
    <2>2. CASE \E n \in 1..Len(chain) : b = chain[n]
      BY <1>3, <1>6, <2>2 DEF ChainOK
    <2>. QED BY <1>7, <2>1, <2>2 DEF Made
  <1>8. \A b, c \in Block : (Made(b)' /\ Made(c)' /\ b.number = c.number /\ b.fork = c.fork) => b = c
    BY <1>5, <1>7 DEF ChainOK
  <1>9. \A n \in 1..Len(chain') : chain'[n].number = n /\ chain'[n].fork <= forks'
    BY <1>2, <1>3, <1>4, <1>6 DEF ChainOK
  <1>10. ChainOK'
    BY <1>2, <1>4, <1>8, <1>9 DEF ChainOK
  <1>11. SpentEver => SpentEver'
    BY <1>2, <1>3, <1>4 DEF SpentEver, Spent, Has
  <1>12. ASSUME NEW r, Permanent(r) PROVE Permanent(r)'
    <2>1. PICK n \in 1..Len(chain) : n = r[1] /\ n + MaxReorg <= Len(chain) /\ chain[n].fork = r[2]
      BY <1>12 DEF Permanent
    <2>a. Len(chain) \in Nat /\ Len(chain') = Len(chain) + 1 /\ MaxReorg \in Nat
      BY <1>3, <1>4, RpcAssumption
    <2>2. n \in 1..Len(chain') /\ n + MaxReorg <= Len(chain')
      BY <2>a, <2>1
    <2>3. chain'[n].fork = r[2]
      BY <1>4, <2>1
    <2>. QED BY <2>1, <2>2, <2>3 DEF Permanent
  <1>. QED BY <1>3, <1>4, <1>5, <1>10, <1>11, <1>12 DEF Grows

\* Neither are the blocks of a new fork, and what it replaces lay within reach.
LEMMA ReorgGrows ==
    ASSUME ChainOK, Reorg
    PROVE  ChainOK' /\ Grows
  <1>0. /\ chain \in Seq(Block) /\ Len(chain) \in Nat /\ forks \in Nat /\ MaxReorg \in Nat
        /\ forks' = forks + 1 /\ trusted' = trusted
    BY RpcAssumption DEF ChainOK, Reorg, Service
  <1>19. PICK k \in 1..MaxReorg :
          /\ k < Len(chain)
          /\ \E held \in [Len(chain) - k + 1 .. Len(chain) -> Contents] :
               chain' = [n \in 1..Len(chain) |->
                           IF n <= Len(chain) - k THEN chain[n]
                           ELSE [number |-> n, fork |-> forks + 1, holds |-> held[n]]]
          /\ orphans' = orphans \cup {chain[n] : n \in Len(chain) - k + 1 .. Len(chain)}
    BY Zenon DEF Reorg
  <1>1. PICK held \in [Len(chain) - k + 1 .. Len(chain) -> Contents] :
          /\ k < Len(chain) /\ k \in 1..MaxReorg
          /\ chain' = [n \in 1..Len(chain) |->
                         IF n <= Len(chain) - k THEN chain[n]
                         ELSE [number |-> n, fork |-> forks + 1, holds |-> held[n]]]
          /\ orphans' = orphans \cup {chain[n] : n \in Len(chain) - k + 1 .. Len(chain)}
    BY <1>19
  <1>. DEFINE old == 1 .. Len(chain) - k
  <1>. DEFINE new == Len(chain) - k + 1 .. Len(chain)
  <1>2. k \in Nat /\ Len(chain) - k \in Nat
    BY <1>0, <1>1
  <1>3. \A n : n \in 1..Len(chain) <=> n \in old \/ n \in new
    BY <1>0, <1>1, <1>2
  <1>4. \A n \in new : held[n] \in Contents /\ n \in Nat /\ ~(n <= Len(chain) - k)
    BY <1>0, <1>1, <1>2
  <1>5. \A n \in 1..Len(chain) : chain'[n] \in Block
    <2>1. \A n \in old : chain'[n] = chain[n] /\ chain[n] \in Block
      BY <1>0, <1>1, <1>2
    <2>2. \A n \in new : chain'[n] = [number |-> n, fork |-> forks + 1, holds |-> held[n]]
      BY <1>1, <1>3, <1>4
    <2>3. ASSUME NEW n \in new PROVE chain'[n] \in Block
      <3>1. n \in Nat /\ forks + 1 \in Nat /\ held[n] \in Contents
        BY <1>0, <1>4
      <3>2. [number |-> n, fork |-> forks + 1, holds |-> held[n]] \in Block
        BY <3>1 DEF Block
      <3>3. chain'[n] = [number |-> n, fork |-> forks + 1, holds |-> held[n]]
        BY <2>2
      <3>. QED BY <3>2, <3>3
    <2>. QED BY <1>3, <2>1, <2>3
  <1>6. /\ chain' \in Seq(Block) /\ Len(chain') = Len(chain)
    BY <1>0, <1>1, <1>5
  <1>7. \A n \in old : chain'[n] = chain[n]
    BY <1>0, <1>1, <1>2
  <1>8. \A n \in new : chain'[n].number = n /\ chain'[n].fork = forks + 1
    BY <1>0, <1>1, <1>3, <1>4
  <1>9. \A n \in 1..Len(chain') : chain'[n].number = n /\ chain'[n].fork <= forks'
    <2>1. ASSUME NEW n \in old PROVE chain'[n].number = n /\ chain'[n].fork <= forks + 1
      <3>1. n \in 1..Len(chain) /\ chain[n] \in Block
        BY <1>0, <1>3
      <3>2. chain[n].number = n /\ chain[n].fork <= forks /\ chain[n].fork \in Nat
        BY Zenon, <3>1 DEF ChainOK, Block
      <3>. QED BY <1>0, <1>7, <3>2
    <2>. QED BY <1>0, <1>3, <1>6, <1>8, <2>1
  <1>10. \A b \in orphans' : b \in Block /\ b.fork < forks'
    <2>1. \A b \in orphans : b \in Block /\ b.fork \in Nat /\ b.fork < forks
      BY DEF ChainOK, Block
    <2>2. ASSUME NEW n \in new
          PROVE  chain[n] \in Block /\ chain[n].fork \in Nat /\ chain[n].fork <= forks
      <3>1. n \in 1..Len(chain) /\ chain[n] \in Block
        BY <1>0, <1>3
      <3>. QED BY <3>1 DEF ChainOK, Block
    <2>3. \A b \in orphans' : b \in orphans \/ \E n \in new : b = chain[n]
      BY <1>1
    <2>. QED BY <1>0, <2>1, <2>2, <2>3
  <1>11. \A b : Made(b) => Made(b)'
    BY <1>1, <1>3, <1>6, <1>7 DEF Made
  <1>12. \A b \in Block : Made(b)' => Made(b) \/ \E n \in new : b = chain'[n]
    BY <1>0, <1>1, <1>3, <1>6, <1>7 DEF Made
  <1>13. \A b \in Block : Made(b) => b.fork <= forks
    BY <1>0 DEF Made, ChainOK, Block
  <1>14. \A b, c \in Block : (Made(b)' /\ Made(c)' /\ b.number = c.number /\ b.fork = c.fork) => b = c
    <2>. SUFFICES ASSUME NEW b \in Block, NEW c \in Block, Made(b)', Made(c)',
                         b.number = c.number, b.fork = c.fork
                  PROVE  b = c
      OBVIOUS
    <2>1. CASE Made(b) /\ Made(c)
      BY <2>1 DEF ChainOK
    <2>2. CASE b.fork = forks + 1
      <3>1. (\E n \in new : b = chain'[n]) /\ \E n \in new : c = chain'[n]
        <4>1. ~Made(b) /\ ~Made(c)
          <5>1. ~(b.fork <= forks) /\ ~(c.fork <= forks)
            BY <1>0, <2>2
          <5>. QED BY <1>13, <5>1
        <4>. QED BY <1>12, <4>1
      <3>. QED BY <1>8, <3>1
    <2>. QED BY <1>0, <1>8, <1>12, <2>1, <2>2
  <1>15. ChainOK'
    BY <1>0, <1>6, <1>9, <1>10, <1>14 DEF ChainOK
  <1>16. SpentEver => SpentEver'
    BY <1>1, <1>3, <1>6, <1>7 DEF SpentEver, Spent, Has
  <1>17. \A n \in 1..Len(chain) : n + MaxReorg <= Len(chain) => n \in old
    BY <1>0, <1>1, <1>2
  <1>18. \A r : Permanent(r) => Permanent(r)'
    BY <1>6, <1>7, <1>17 DEF Permanent
  <1>. QED BY <1>0, <1>6, <1>7, <1>11, <1>15, <1>16, <1>17, <1>18 DEF Grows

\* The network's steps keep the invariant.
LEMMA NetworkKeeps ==
    ASSUME RpcInv, Extend \/ Reorg
    PROVE  RpcInv'
  <1>1. ChainOK' /\ Grows
    BY ExtendGrows, ReorgGrows DEF RpcInv
  <1>2. /\ trusted' = trusted /\ pc' = pc /\ answer' = answer /\ receipt' = receipt
        /\ outcome' = outcome /\ view' = view /\ drift' = drift
    BY DEF Extend, Reorg, Service
  <1>3. \A r : Real(r) => Real(r)'
    BY <1>1 DEF Real, Grows, Names
  <1>4. ViewsOK'
    <2>1. ASSUME NEW v, ViewOK(v) PROVE ViewOK(v)'
      <3>1. v \in Seq(Block) /\ Len(v) \in Nat /\ Len(chain) \in Nat /\ Len(chain') \in Nat
            /\ MaxReorg \in Nat
        BY <1>1, <2>1, RpcAssumption DEF RpcInv, ViewOK, ChainOK
      <3>2. ASSUME NEW n \in 1..Len(v)
            PROVE  /\ v[n].number = n /\ Made(v[n])'
                   /\ n + MaxReorg <= Len(v) => n + MaxReorg <= Len(chain') /\ chain'[n] = v[n]
        BY <1>1, <2>1, <3>1 DEF ViewOK, Grows
      <3>. QED BY <3>1, <3>2 DEF ViewOK
    <2>. QED BY <1>2, <2>1 DEF RpcInv, ViewsOK
  <1>5. \A p \in Providers : Caught(p) => Caught(p)'
    BY <1>1, <1>2 DEF Caught, Grows
  <1>6. \A p \in trusted : Evidence(p)'
    BY Zenon, <1>1, <1>2, <1>3, <1>5, RpcAssumption DEF RpcInv, ChainOK, ReadsOK, Evidence, Grows
  <1>7. ReadsOK'
    BY <1>1, <1>2, <1>3, <1>5, <1>6, RpcAssumption DEF RpcInv, ChainOK, ReadsOK, Grows
  <1>. QED BY <1>1, <1>4, <1>7 DEF RpcInv

\* The number of a real receipt is one.
LEMMA RealNumber ==
    ASSUME NEW r, Real(r)
    PROVE  r[1] \in Nat
  BY DEF Real, Names, Block

\* What is gained on both sides of a comparison changes nothing.
LEMMA Shift ==
    ASSUME NEW a \in Nat, NEW b \in Nat, NEW c \in Nat, NEW d \in Nat, NEW e \in Nat,
           b <= a + (e - d), a < c + d
    PROVE  b < c + e
  OBVIOUS

\* A trusted provider that moves on uses up the observation's allowance.
LEMMA SyncKeeps ==
    ASSUME RpcInv, NEW p \in Providers, Sync(p)
    PROVE  RpcInv'
  <1>0. /\ trusted' = trusted /\ chain' = chain /\ orphans' = orphans /\ forks' = forks
        /\ pc' = pc /\ answer' = answer /\ receipt' = receipt /\ outcome' = outcome
    BY DEF Sync, Service
  <1>1. /\ chain \in Seq(Block) /\ Len(chain) \in Nat
        /\ view = [q \in Providers |-> view[q]] /\ \A q \in Providers : view[q] \in Seq(Block)
        /\ drift \in Nat /\ drift <= Drift /\ Drift \in Nat /\ MaxReorg \in Nat
    BY RpcAssumption DEF RpcInv, ChainOK, ViewsOK, ViewOK, ReadsOK
  <1>2. PICK k \in 1..Len(chain) :
          LET gained == IF k > Len(view[p]) THEN k - Len(view[p]) ELSE 0 IN
              /\ view' = [view EXCEPT ![p] = Prefix(chain, k)]
              /\ \/ pc \notin {"canonical", "head"} /\ drift' = drift
                 \/ drift + gained <= Drift /\ drift' = drift + gained
    BY Zenon DEF Sync
  <1>3. k \in 0..Len(chain) /\ k \in Nat
    BY <1>1
  <1>4. /\ Prefix(chain, k) \in Seq(Block) /\ Len(Prefix(chain, k)) = k
        /\ \A n \in 1..k : Prefix(chain, k)[n] = chain[n]
    BY <1>1, <1>3, PrefixIs
  <1>5. /\ view' = [q \in Providers |-> view'[q]] /\ view'[p] = Prefix(chain, k)
        /\ \A q \in Providers \ {p} : view'[q] = view[q]
    BY Zenon, <1>1, <1>2, <1>4
  <1>6. /\ drift' \in Nat /\ drift' <= Drift /\ drift <= drift'
        /\ pc \in {"canonical", "head"} => Len(view'[p]) <= Len(view[p]) + (drift' - drift)
    BY <1>1, <1>2, <1>3, <1>4, <1>5
  <1>7. \A b : Made(b)' <=> Made(b)
    BY <1>0 DEF Made
  <1>8. ChainOK'
    BY <1>0, <1>7 DEF RpcInv, ChainOK
  <1>9. ViewsOK'
    <2>1. \A v : ViewOK(v)' <=> ViewOK(v)
      BY <1>0, <1>7 DEF ViewOK
    <2>2. ViewOK(Prefix(chain, k))
      <3>1. ASSUME NEW n \in 1..k PROVE n \in 1..Len(chain) /\ k <= Len(chain)
        BY <1>1, <1>2, <1>3
      <3>2. ASSUME NEW n \in 1..k PROVE chain[n].number = n /\ Made(chain[n])
        BY <3>1 DEF Made, RpcInv, ChainOK
      <3>. QED BY <1>1, <1>3, <1>4, <3>1, <3>2 DEF ViewOK
    <2>. QED BY <1>5, <2>1, <2>2 DEF RpcInv, ViewsOK
  <1>10. \A r : (Real(r)' <=> Real(r)) /\ (Permanent(r)' <=> Permanent(r))
    BY <1>0, <1>7 DEF Real, Permanent, Names
  <1>11. SpentEver' <=> SpentEver
    BY <1>0 DEF SpentEver, Spent, Has
  <1>12. ASSUME NEW q \in Providers, pc \in {"canonical", "head"}, Caught(q)
         PROVE  Caught(q)'
    <2>1. receipt[1] \in Nat
      BY <1>12, RealNumber DEF RpcInv, ReadsOK
    <2>2. Len(view[q]) \in Nat /\ Len(view'[q]) \in Nat
      BY <1>1, <1>5
    <2>3. Len(view'[q]) <= Len(view[q]) + (drift' - drift)
      <3>1. CASE q = p
        BY <1>6, <1>12, <3>1
      <3>2. CASE q # p
        <4>1. view'[q] = view[q]
          BY <1>5, <3>2
        <4>. QED BY <1>1, <1>6, <2>2, <4>1
      <3>. QED BY <3>1, <3>2
    <2>4. Permanent(receipt) \/ Len(view'[q]) < receipt[1] + MaxReorg + drift'
      <3>1. Permanent(receipt) \/ Len(view[q]) < receipt[1] + MaxReorg + drift
        BY <1>12 DEF Caught
      <3>2. receipt[1] + MaxReorg \in Nat /\ drift \in Nat /\ drift' \in Nat
        BY <1>1, <1>6, <2>1
      <3>3. CASE Len(view[q]) < receipt[1] + MaxReorg + drift
        <4>. DEFINE limit == receipt[1] + MaxReorg
        <4>. HIDE DEF limit
        <4>1. limit \in Nat /\ Len(view[q]) < limit + drift
          BY <3>2, <3>3 DEF limit
        <4>2. Len(view'[q]) < limit + drift'
          BY Zenon, <2>2, <2>3, <3>2, <4>1, Shift
        <4>. QED BY <4>2 DEF limit
      <3>. QED BY <3>1, <3>3
    <2>. QED BY <1>0, <1>10, <2>4 DEF Caught
  <1>13. ASSUME NEW q \in trusted PROVE Evidence(q)'
    <2>1. q \in Providers /\ Evidence(q)
      BY <1>13, RpcAssumption DEF RpcInv, ReadsOK, ChainOK
    <2>2. CASE pc = "head" /\ answer[q].kind = "value"
      <3>1. receipt[1] \in Nat /\ \E h \in Nat : answer[q].value = <<h>>
        BY <2>1, <2>2, RealNumber DEF RpcInv, ReadsOK
      <3>2. Permanent(receipt) \/ answer[q].value[1] < receipt[1] + MaxReorg + drift
        BY <2>1, <2>2 DEF Evidence
      <3>3. Permanent(receipt) \/ answer[q].value[1] < receipt[1] + MaxReorg + drift'
        BY <1>1, <1>6, <3>1, <3>2
      <3>. QED BY <1>0, <1>10, <2>2, <3>3 DEF Evidence
    <2>3. CASE ~(pc = "head" /\ answer[q].kind = "value")
      BY <1>0, <1>10, <1>11, <1>12, <2>1, <2>3 DEF Evidence
    <2>. QED BY <2>2, <2>3
  <1>14. \A q \in trusted : q \in Providers
    BY RpcAssumption DEF RpcInv, ChainOK
  <1>15. ReadsOK'
    BY <1>0, <1>1, <1>6, <1>10, <1>11, <1>12, <1>13, <1>14 DEF RpcInv, ReadsOK
  <1>. QED BY <1>8, <1>9, <1>15 DEF RpcInv

\* An honest answer is evidence.
LEMMA HonestEvidence ==
    ASSUME RpcInv, NEW p \in trusted, answer'[p] = Honest(view[p]),
           UNCHANGED <<trusted, chain, orphans, forks, view, pc, receipt, drift>>
    PROVE  Evidence(p)'
  <1>0. /\ p \in Providers /\ view[p] \in Seq(Block) /\ Len(view[p]) \in Nat
        /\ MaxReorg \in Nat /\ drift \in Nat
    BY RpcAssumption DEF RpcInv, ChainOK, ViewsOK, ViewOK, ReadsOK
  <1>1. ASSUME NEW n \in 1..Len(view[p])
        PROVE  view[p][n] \in Block /\ view[p][n].number = n /\ Made(view[p][n])
    BY <1>0 DEF RpcInv, ViewsOK, ViewOK
  <1>2. Spent(view[p]) => SpentEver
    BY <1>1 DEF Spent, Has, SpentEver, Made
  <1>3. SpentEver' <=> SpentEver
    BY DEF SpentEver, Spent, Has
  <1>4. \A r : (Real(r)' <=> Real(r)) /\ (Permanent(r)' <=> Permanent(r))
    BY DEF Real, Permanent, Names, Made
  <1>5. CASE pc = "verify"
    <2>1. answer'[p] = Value(IF Spent(view[p]) THEN <<"used">> ELSE <<"unused">>)
      BY <1>5 DEF Honest
    <2>2. ~Spent(view[p]) => answer'[p] # Value(<<"used">>)
      BY <2>1 DEF Value
    <2>. QED BY <1>2, <1>3, <1>5, <2>2 DEF Evidence
  <1>6. CASE pc = "simulate"
    <2>1. answer'[p] = IF Spent(view[p]) THEN RPCError("reverted") ELSE Value(<<>>)
      BY <1>6 DEF Honest
    <2>2. ~Spent(view[p]) => answer'[p] # RPCError("reverted")
      BY <2>1 DEF Value, RPCError
    <2>. QED BY <1>2, <1>3, <1>6, <2>2 DEF Evidence
  <1>7. CASE pc = "receipt"
    <2>. DEFINE mined == {n \in 1..Len(view[p]) : view[p][n].holds \in {"success", "failed"}}
    <2>. DEFINE m == CHOOSE n \in mined : TRUE
    <2>1. answer'[p] = Value(IF mined = {} THEN <<>>
                             ELSE <<view[p][m].number, view[p][m].fork, view[p][m].holds>>)
      BY Zenon, <1>7 DEF Honest
    <2>2. CASE mined = {}
      BY <1>7, <2>1, <2>2 DEF Evidence, Value
    <2>3. CASE mined # {}
      <3>1. m \in mined
        BY Zenon, <2>3
      <3>2. view[p][m] \in Block /\ Made(view[p][m]) /\ view[p][m].holds \in {"success", "failed"}
        BY Zenon, <1>1, <3>1
      <3>. HIDE DEF m, mined
      <3>3. answer'[p].value = <<view[p][m].number, view[p][m].fork, view[p][m].holds>>
        BY <2>1, <2>3 DEF Value
      <3>4. Real(answer'[p].value)
        <4>1. Names(answer'[p].value, view[p][m])
          BY <3>2, <3>3 DEF Names
        <4>. QED BY <3>2, <4>1 DEF Real
      <3>. QED BY <1>4, <1>7, <3>4 DEF Evidence
    <2>. QED BY Zenon, <2>2, <2>3
  <1>8. CASE pc = "canonical"
    <2>. SUFFICES ASSUME answer'[p] = Value(<<receipt[1], receipt[2]>>) PROVE Caught(p)
      BY <1>4, <1>8 DEF Evidence, Caught
    <2>1. answer'[p] = BlockAt(view[p], receipt[1])
      BY <1>8 DEF Honest
    <2>2. receipt[1] \in Nat
      BY <1>8, RealNumber DEF RpcInv, ReadsOK
    <2>3. receipt[1] \in 1..Len(view[p]) /\ view[p][receipt[1]].fork = receipt[2]
      BY <2>1 DEF BlockAt, Value, Unavailable
    <2>4. CASE receipt[1] + MaxReorg <= Len(view[p])
      <3>1. receipt[1] + MaxReorg <= Len(chain) /\ chain[receipt[1]] = view[p][receipt[1]]
        BY <1>0, <2>3, <2>4 DEF RpcInv, ViewsOK, ViewOK
      <3>2. receipt[1] \in 1..Len(chain)
        BY <1>0, <2>2, <2>3, <3>1 DEF RpcInv, ChainOK
      <3>. QED BY <2>3, <3>1, <3>2 DEF Caught, Permanent
    <2>. QED BY <1>0, <2>2, <2>4 DEF Caught
  <1>9. CASE pc = "head"
    <2>1. answer'[p] = Value(<<Len(view[p])>>)
      BY Zenon, <1>9 DEF Honest
    <2>2. answer'[p].value[1] = Len(view[p])
      BY <2>1 DEF Value
    <2>3. Caught(p)
      BY <1>9 DEF RpcInv, ReadsOK
    <2>. QED BY <1>4, <1>9, <2>2, <2>3 DEF Evidence, Caught
  <1>. QED BY Zenon, <1>5, <1>6, <1>7, <1>8, <1>9 DEF Evidence

-----------------------------------------------------------------------------
(* Reads.                                                                  *)

\* What depends on the network only, and on what was concluded of it.
Before == <<trusted, chain, orphans, forks, view>>

LEMMA NetworkStays ==
    ASSUME RpcInv, UNCHANGED Before
    PROVE  /\ ChainOK' /\ ViewsOK' /\ (SpentEver' <=> SpentEver)
           /\ \A r : (Real(r)' <=> Real(r)) /\ (Permanent(r)' <=> Permanent(r))
  <1>1. \A b : Made(b)' <=> Made(b)
    BY DEF Made, Before
  <1>2. ChainOK'
    BY <1>1 DEF RpcInv, ChainOK, Before
  <1>3. \A v : ViewOK(v)' <=> ViewOK(v)
    BY <1>1 DEF ViewOK, Before
  <1>4. ViewsOK'
    BY <1>3 DEF RpcInv, ViewsOK, Before
  <1>5. SpentEver' <=> SpentEver
    BY DEF SpentEver, Spent, Has, Before
  <1>6. \A r : (Real(r)' <=> Real(r)) /\ (Permanent(r)' <=> Permanent(r))
    BY <1>1 DEF Real, Permanent, Names, Before
  <1>. QED BY <1>2, <1>4, <1>5, <1>6

\* An answer keeps the invariant, whoever gives it.
LEMMA AnswerKeeps ==
    ASSUME RpcInv, NEW p \in Providers, Answer(p)
    PROVE  RpcInv'
  <1>0. /\ UNCHANGED Before
        /\ pc' = pc /\ receipt' = receipt /\ drift' = drift /\ outcome' = outcome /\ pc # "done"
        /\ view' = view /\ trusted' = trusted
    BY DEF Answer, Before
  <1>1. /\ ChainOK' /\ ViewsOK' /\ (SpentEver' <=> SpentEver)
        /\ \A r : (Real(r)' <=> Real(r)) /\ (Permanent(r)' <=> Permanent(r))
    BY <1>0, NetworkStays
  <1>2. \A q \in trusted : q \in Providers
    BY RpcAssumption DEF RpcInv, ChainOK
  <1>3. PICK said : /\ answer' = [answer EXCEPT ![p] = said]
                    /\ p \in trusted => said \in {Honest(view[p]), Unavailable}
                    /\ p \notin trusted => said \in Claims
    BY DEF Answer
  <1>4. /\ answer' = [q \in Providers |-> answer'[q]] /\ answer'[p] = said
        /\ \A q \in Providers \ {p} : answer'[q] = answer[q]
    BY Zenon, <1>3 DEF RpcInv, ReadsOK
  <1>5. ASSUME NEW q \in trusted, q # p PROVE Evidence(q)'
    <2>1. answer'[q] = answer[q] /\ Evidence(q)
      BY <1>2, <1>4, <1>5 DEF RpcInv, ReadsOK
    <2>2. Caught(q)' <=> Caught(q)
      BY <1>0, <1>1 DEF Caught
    <2>. QED BY <1>0, <1>1, <2>1, <2>2 DEF Evidence
  <1>6. ASSUME p \in trusted PROVE Evidence(p)'
    <2>1. CASE said = Honest(view[p])
      BY <1>0, <1>4, <1>6, <2>1, HonestEvidence DEF Before
    <2>2. CASE said = Unavailable
      BY <1>0, <1>4, <2>2 DEF Evidence, Unavailable, Value, RPCError
    <2>. QED BY <1>3, <1>6, <2>1, <2>2
  <1>7. ASSUME pc = "head", said.kind = "value" PROVE \E h \in Nat : said.value = <<h>>
    <2>1. CASE p \in trusted
      <3>1. said = Value(<<Len(view[p])>>)
        BY <1>3, <1>7, <2>1 DEF Honest, Unavailable
      <3>2. Len(view[p]) \in Nat
        BY DEF RpcInv, ViewsOK, ViewOK
      <3>. QED BY <3>1, <3>2 DEF Value
    <2>2. CASE p \notin trusted
      <3>1. said \in {Value(v) : v \in {<<n>> : n \in Heights}}
        BY <1>3, <1>7, <2>2 DEF Claims, Possible, RPCError, Unavailable
      <3>2. PICK h \in Heights : said = Value(<<h>>)
        BY <3>1
      <3>3. h \in Nat
        BY <3>2, RpcAssumption DEF Heights
      <3>. QED BY <3>2, <3>3 DEF Value
    <2>. QED BY <2>1, <2>2
  <1>8. \A q \in Providers : Caught(q) <=> Caught(q)'
    BY <1>0, <1>1 DEF Caught
  <1>9. \A q \in trusted : Evidence(q)'
    BY <1>5, <1>6
  <1>10. \A q \in Providers : (pc' = "head" /\ answer'[q].kind = "value") =>
            \E h \in Nat : answer'[q].value = <<h>>
    BY <1>0, <1>4, <1>7 DEF RpcInv, ReadsOK
  <1>11. ReadsOK'
    BY <1>0, <1>1, <1>2, <1>4, <1>8, <1>9, <1>10 DEF RpcInv, ReadsOK
  <1>. QED BY <1>1, <1>11 DEF RpcInv

\* Beginning another read forgets the answers, and with them what they prove.
LEMMA GotoForgets ==
    ASSUME NEW next, Goto(next)
    PROVE  /\ pc' = next /\ answer' = [q \in Providers |-> answer'[q]]
           /\ \A q \in Providers : answer'[q] = Unasked
           /\ \A q \in Providers : Evidence(q)'
  <1>1. pc' = next /\ answer' = [q \in Providers |-> Unasked]
    BY DEF Goto
  <1>2. \A q \in Providers : answer'[q].kind = "unasked"
    BY <1>1 DEF Unasked
  <1>3. ASSUME NEW q \in Providers PROVE Evidence(q)'
    <2>1. answer'[q].kind # "value" /\ answer'[q].kind # "rpc"
      BY <1>2
    <2>2. \A v : Value(v).kind = "value" /\ RPCError(v).kind = "rpc"
      BY DEF Value, RPCError
    <2>. QED BY <2>1, <2>2 DEF Evidence
  <1>. QED BY <1>1, <1>3

\* A step that only ends a read, and keeps what an observation rests on.
LEMMA ReadEnds ==
    ASSUME RpcInv, UNCHANGED Before, NEW next, Goto(next),
           drift' \in 0..Drift,
           next \in {"canonical", "head"} => Real(receipt)',
           next = "head" => \A q \in trusted : Caught(q)',
           outcome' \in {"refused", "retired"} => SpentEver,
           outcome' \in {"confirmed", "reverted"} =>
              /\ next = "done" /\ Real(receipt)' /\ Permanent(receipt)'
              /\ outcome' = "confirmed" <=> receipt'[3] = "success"
    PROVE  RpcInv'
  <1>1. ChainOK' /\ ViewsOK' /\ (SpentEver' <=> SpentEver)
    BY NetworkStays
  <1>2. /\ pc' = next /\ answer' = [q \in Providers |-> answer'[q]]
        /\ \A q \in Providers : answer'[q] = Unasked
        /\ \A q \in Providers : Evidence(q)'
    BY GotoForgets
  <1>3. trusted' = trusted /\ \A q \in trusted : q \in Providers
    BY RpcAssumption DEF RpcInv, ChainOK, Before
  <1>4. \A q \in Providers : answer'[q].kind # "value"
    BY <1>2 DEF Unasked
  <1>5. ReadsOK'
    BY <1>1, <1>2, <1>3, <1>4 DEF ReadsOK
  <1>. QED BY <1>1, <1>5 DEF RpcInv

\* An agreed answer is everyone's.
LEMMA AgreedByAll ==
    /\ readClientAgreement(exactComparable) # Unavailable =>
          \A q \in Providers : answer[q] = readClientAgreement(exactComparable)
    /\ readAgreement # Unavailable => \A q \in Providers : answer[q] = readAgreement
  <1>1. exactComparable # Unavailable => \A q \in Providers : answer[q] = exactComparable
    BY DEF exactComparable
  <1>2. readClientAgreement(exactComparable) \in {exactComparable, Unavailable}
    BY DEF readClientAgreement
  <1>3. readAgreement \in {exactComparable, Unavailable}
    BY DEF readAgreement
  <1>. QED BY <1>1, <1>2, <1>3

\* The agreed head is no higher than anyone's.
LEMMA LowestIsLow ==
    ASSUME \A q \in Providers : \E h \in Nat : answer[q].value = <<h>>,
           lowestHead.kind = "value"
    PROVE  /\ lowestHead.value[1] \in Nat
           /\ \A q \in Providers : lowestHead.value[1] <= answer[q].value[1]
  <1>. DEFINE heads == {v[1] : v \in Values}
  <1>. DEFINE low == CHOOSE h \in heads : \A g \in heads : h <= g
  <1>1. heads \subseteq Nat /\ \A q \in Providers : answer[q].value[1] \in heads
    BY DEF Values
  <1>2. heads # {}
    BY Zenon, <1>1, RpcAssumption
  <1>3. PICK m \in heads : \A g \in heads : ~(<<g, m>> \in OpToRel(<, Nat))
    BY Zenon, <1>1, <1>2, NatLessThanWellFounded, WFMin
  <1>4. \A g \in heads : m <= g
    <2>1. OpToRel(<, Nat) = {ss \in Nat \X Nat : ss[1] < ss[2]}
      BY Zenon DEF OpToRel
    <2>2. ASSUME NEW g \in heads PROVE m <= g
      <3>1. g \in Nat /\ m \in Nat
        BY <1>1
      <3>2. ~(<<g, m>> \in {ss \in Nat \X Nat : ss[1] < ss[2]})
        BY Zenon, <1>3, <2>1
      <3>3. ~(g < m)
        BY <3>1, <3>2
      <3>. QED BY <3>1, <3>3
    <2>. QED BY <2>2
  <1>5. low \in heads /\ \A g \in heads : low <= g
    BY <1>4
  <1>6. lowestHead = Value(<<low>>)
    BY Zenon DEF lowestHead, Unavailable
  <1>. HIDE DEF low, heads
  <1>7. lowestHead.value[1] = low
    BY <1>6 DEF Value
  <1>. QED BY <1>1, <1>5, <1>7

\* One trusted provider, at least.
LEMMA SomeoneTrusted ==
    ASSUME RpcInv
    PROVE  \E q \in trusted : q \in Providers /\ Evidence(q)
  BY RpcAssumption DEF RpcInv, ChainOK, ReadsOK

\* The decisions before the broadcast.
LEMMA PrepareKeeps ==
    ASSUME RpcInv, ReadContract \/ Call \/ FeeHead \/ FeeBlock
    PROVE  RpcInv'
  <1>0. /\ UNCHANGED Before /\ receipt' = receipt /\ drift' = drift /\ drift \in 0..Drift
        /\ pc \in {"verify", "simulate", "feeHead", "feeBlock"}
    BY Zenon DEF ReadContract, Call, FeeHead, FeeBlock, Network, Before, Answered, RpcInv, ReadsOK
  <1>1. outcome \notin {"confirmed", "reverted"} /\ (outcome \in {"refused", "retired"} => SpentEver)
    BY <1>0 DEF RpcInv, ReadsOK
  <1>2. PICK q \in trusted : q \in Providers /\ Evidence(q)
    BY SomeoneTrusted
  <1>3. CASE ReadContract
    <2>1. CASE readAgreement = Value(<<"used">>) /\ Conclude("refused")
      <3>1. answer[q] = Value(<<"used">>)
        BY <1>2, <2>1, AgreedByAll DEF Value, Unavailable
      <3>2. SpentEver
        BY <1>2, <1>3, <3>1 DEF Evidence, ReadContract, Answered
      <3>. QED BY <1>0, <2>1, <3>2, ReadEnds DEF Conclude
    <2>2. CASE outcome' = outcome /\ (Goto("verify") \/ Goto("simulate"))
      BY <1>0, <1>1, <2>2, ReadEnds
    <2>. QED BY <1>3, <2>1, <2>2 DEF ReadContract
  <1>4. CASE Call
    <2>1. CASE readClientAgreement(exactComparable) = RPCError("reverted") /\ Conclude("retired")
      <3>1. answer[q] = RPCError("reverted")
        BY <1>2, <2>1, AgreedByAll DEF RPCError, Unavailable
      <3>2. SpentEver
        BY <1>2, <1>4, <3>1 DEF Evidence, Call, Answered
      <3>. QED BY <1>0, <2>1, <3>2, ReadEnds DEF Conclude
    <2>2. CASE outcome' = outcome /\ (Goto("feeHead") \/ Goto("simulate"))
      BY <1>0, <1>1, <2>2, ReadEnds
    <2>. QED BY <1>4, <2>1, <2>2 DEF Call
  <1>5. CASE FeeHead \/ FeeBlock
    <2>1. outcome' = outcome /\ (Goto("feeBlock") \/ Goto("simulate") \/ Goto("receipt"))
      BY Zenon, <1>5 DEF FeeHead, FeeBlock
    <2>. QED BY Zenon, <1>0, <1>1, <2>1, ReadEnds
  <1>. QED BY <1>3, <1>4, <1>5

\* The decisions of an observation.
LEMMA ObserveKeeps ==
    ASSUME RpcInv, TransactionReceipt \/ BlockByNumber \/ Confirmation
    PROVE  RpcInv'
  <1>0. /\ UNCHANGED Before /\ trusted' = trusted /\ view' = view
        /\ pc \in {"receipt", "canonical", "head"} /\ drift \in 0..Drift /\ 0 \in 0..Drift
        /\ Drift \in Nat
    <2>1. UNCHANGED Network /\ pc \in {"receipt", "canonical", "head"}
      BY DEF TransactionReceipt, BlockByNumber, Confirmation, Answered
    <2>2. Drift \in Nat /\ drift \in 0..Drift
      BY RpcAssumption DEF RpcInv, ReadsOK
    <2>. QED BY <2>1, <2>2 DEF Network, Before
  <1>1. outcome \notin {"confirmed", "reverted"} /\ (outcome \in {"refused", "retired"} => SpentEver)
    BY <1>0 DEF RpcInv, ReadsOK
  <1>2. PICK q \in trusted : q \in Providers /\ Evidence(q)
    BY SomeoneTrusted
  <1>3. \A r : (Real(r)' <=> Real(r)) /\ (Permanent(r)' <=> Permanent(r))
    BY <1>0, NetworkStays
  <1>4. CASE Again /\ outcome' = outcome
    BY <1>0, <1>1, <1>4, ReadEnds DEF Again
  <1>5. CASE TransactionReceipt
    <2>. DEFINE agreed == readClientAgreement(exactComparable)
    <2>1. outcome' = outcome /\ drift' = drift /\ pc = "receipt"
      BY <1>5 DEF TransactionReceipt, Answered
    <2>2. CASE agreed.kind = "value" /\ agreed.value # <<>> /\ Goto("canonical")
               /\ receipt' = agreed.value
      <3>1. answer[q] = agreed
        BY <1>2, <2>2, AgreedByAll DEF Unavailable
      <3>2. Real(agreed.value)
        BY Zenon, <1>2, <2>1, <2>2, <3>1 DEF Evidence
      <3>3. Real(receipt)'
        BY <1>3, <2>2, <3>2
      <3>. QED BY Zenon, <1>0, <1>1, <2>1, <2>2, <3>3, ReadEnds
    <2>3. CASE Goto("receipt")
      BY <1>0, <1>1, <2>1, <2>3, ReadEnds
    <2>. QED BY <1>5, <2>2, <2>3 DEF TransactionReceipt
  <1>6. CASE BlockByNumber
    <2>. DEFINE agreed == readClientAgreement(exactComparable)
    <2>1. outcome' = outcome /\ pc = "canonical"
      BY <1>6 DEF BlockByNumber, Answered
    <2>2. CASE agreed = Value(<<receipt[1], receipt[2]>>) /\ Goto("head")
               /\ receipt' = receipt /\ drift' = drift
      <3>1. \A p \in Providers : answer[p] = Value(<<receipt[1], receipt[2]>>)
        BY <2>2, AgreedByAll DEF Unavailable, Value
      <3>2. \A p \in trusted : Caught(p)
        BY Zenon, <2>1, <3>1, RpcAssumption DEF RpcInv, ReadsOK, ChainOK, Evidence
      <3>3. \A p \in trusted : Caught(p)'
        BY <1>0, <1>3, <2>2, <3>2 DEF Caught
      <3>4. Real(receipt)'
        BY <1>3, <2>1, <2>2 DEF RpcInv, ReadsOK
      <3>. QED BY Zenon, <1>0, <1>1, <2>1, <2>2, <3>3, <3>4, ReadEnds
    <2>. QED BY <1>4, <1>6, <2>1, <2>2 DEF BlockByNumber
  <1>7. CASE Confirmation
    <2>. DEFINE agreed == readClientAgreement(lowestHead)
    <2>1. pc = "head" /\ Real(receipt) /\ receipt[1] \in Nat
      BY <1>7, RealNumber DEF Confirmation, Answered, RpcInv, ReadsOK
    <2>2. CASE agreed.kind = "value" /\ Depth(agreed.value[1]) >= Confirmations
               /\ Conclude(IF receipt[3] = "success" THEN "confirmed" ELSE "reverted")
               /\ receipt' = receipt /\ drift' = drift
      <3>1. agreed = lowestHead /\ \A p \in Providers : answer[p].kind = "value"
        <4>1. CASE \A p \in Providers : answer[p].kind = "value"
          BY <4>1 DEF readClientAgreement
        <4>2. CASE ~\A p \in Providers : answer[p].kind = "value"
          <5>1. agreed \in {exactComparable, Unavailable}
            BY <4>2 DEF readClientAgreement
          <5>2. exactComparable.kind # "value"
            BY <4>2 DEF exactComparable, Unavailable
          <5>. QED BY <2>2, <5>1, <5>2 DEF Unavailable
        <4>. QED BY <4>1, <4>2
      <3>2. \A p \in Providers : \E h \in Nat : answer[p].value = <<h>>
        BY <2>1, <3>1 DEF RpcInv, ReadsOK
      <3>3. agreed.value[1] \in Nat /\ agreed.value[1] <= answer[q].value[1]
        BY <1>2, <2>2, <3>1, <3>2, LowestIsLow
      <3>4. answer[q].value[1] \in Nat
        BY <1>2, <3>2
      <3>5. Permanent(receipt) \/ answer[q].value[1] < receipt[1] + MaxReorg + drift
        BY <1>2, <2>1, <3>1 DEF Evidence
      <3>6. MaxReorg \in Nat /\ Confirmations \in Nat /\ MaxReorg + Drift < Confirmations
            /\ drift \in Nat /\ drift <= Drift
        BY <1>0, RpcAssumption
      <3>7. agreed.value[1] - receipt[1] + 1 >= Confirmations
        <4>. HIDE DEF agreed
        <4>1. Depth(agreed.value[1]) >= Confirmations
          BY <2>2
        <4>2. CASE agreed.value[1] >= receipt[1]
          BY <4>1, <4>2 DEF Depth
        <4>3. CASE ~(agreed.value[1] >= receipt[1])
          <5>1. Depth(agreed.value[1]) = 0
            BY <4>3 DEF Depth
          <5>2. 0 >= Confirmations
            BY <4>1, <5>1
          <5>. QED BY <1>0, <3>6, <5>2
        <4>. QED BY Zenon, <4>2, <4>3
      <3>8. ~(answer[q].value[1] < receipt[1] + MaxReorg + drift)
        <4>. HIDE DEF agreed
        <4>. QED BY <1>0, <2>1, <3>3, <3>4, <3>6, <3>7
      <3>9. Real(receipt)' /\ Permanent(receipt)'
        BY <1>3, <2>1, <2>2, <3>5, <3>8
      <3>10. Goto("done") /\ outcome' = IF receipt[3] = "success" THEN "confirmed" ELSE "reverted"
        BY <2>2 DEF Conclude
      <3>. QED BY <1>0, <2>2, <3>9, <3>10, ReadEnds
    <2>. QED BY <1>4, <1>7, <2>2 DEF Confirmation
  <1>. QED BY <1>5, <1>6, <1>7

-----------------------------------------------------------------------------

\* At the start the chain is the genesis block and nothing was read.
LEMMA RpcInitHolds == Init => RpcInv
  <1>. SUFFICES ASSUME Init PROVE RpcInv
    OBVIOUS
  <1>. DEFINE g == [number |-> 1, fork |-> 0, holds |-> "none"]
  <1>1. g \in Block /\ g.number = 1 /\ g.fork = 0
    BY DEF Block, Contents
  <1>2. chain = <<g>> /\ orphans = {} /\ forks = 0 /\ view = [p \in Providers |-> <<g>>]
        /\ trusted \in TrustedSets
    BY DEF Init, Genesis
  <1>. HIDE DEF g
  <1>3. chain \in Seq(Block) /\ Len(chain) = 1 /\ chain[1] = g
    BY <1>1, <1>2
  <1>4. \A b : Made(b) <=> b = g
    BY <1>2, <1>3 DEF Made
  <1>5. ChainOK
    BY <1>1, <1>2, <1>3, <1>4 DEF ChainOK
  <1>6. ViewOK(chain)
    BY <1>1, <1>3, <1>4 DEF ViewOK
  <1>7. ViewsOK
    BY <1>2, <1>6 DEF ViewsOK
  <1>8. ReadsOK
    <2>1. /\ pc = "verify" /\ outcome = "open" /\ drift = 0 /\ 0 \in 0..Drift
          /\ answer = [p \in Providers |-> Unasked] /\ \A p \in trusted : p \in Providers
      BY <1>2, RpcAssumption DEF Init
    <2>2. \A p \in Providers : answer[p].kind = "unasked"
      BY Zenon, <2>1 DEF Unasked
    <2>3. \A p \in Providers : Evidence(p)
      BY <2>2 DEF Evidence, Value, RPCError
    <2>. QED BY Zenon, <2>1, <2>2, <2>3 DEF ReadsOK
  <1>. QED BY <1>5, <1>7, <1>8 DEF RpcInv

\* Every step keeps it.
LEMMA RpcNextKeeps ==
    ASSUME RpcInv, [Next]_vars
    PROVE  RpcInv'
  <1>1. CASE Next
    BY <1>1, NetworkKeeps, PrepareKeeps, ObserveKeeps, AnswerKeeps, SyncKeeps DEF Next, Decide
  <1>2. CASE UNCHANGED vars
    <2>1. /\ UNCHANGED Before /\ view' = view /\ trusted' = trusted /\ pc' = pc
          /\ answer' = answer /\ receipt' = receipt /\ drift' = drift /\ outcome' = outcome
      BY <1>2 DEF vars, Before
    <2>2. /\ ChainOK' /\ ViewsOK' /\ (SpentEver' <=> SpentEver)
          /\ \A r : (Real(r)' <=> Real(r)) /\ (Permanent(r)' <=> Permanent(r))
      BY <2>1, NetworkStays
    <2>3. \A p : Caught(p)' <=> Caught(p)
      BY Zenon, <2>1, <2>2 DEF Caught
    <2>4. ASSUME NEW p PROVE Evidence(p)' <=> Evidence(p)
      BY Zenon, <2>1, <2>2, <2>3 DEF Evidence
    <2>5. ReadsOK'
      BY <2>1, <2>2, <2>3, <2>4 DEF RpcInv, ReadsOK
    <2>. QED BY <2>2, <2>5 DEF RpcInv
  <1>. QED BY <1>1, <1>2

\* The inductive invariant.
THEOREM RpcInvariant == Spec => []RpcInv
  <1>. QED BY RpcInitHolds, RpcNextKeeps, PTL DEF Spec

\* What Confirmation and observeSettlement record as final is on the network's
\* chain and stays there, if one of the configured providers is honest.
THEOREM FinalStays == Spec => []FinalIsPermanent
  <1>1. RpcInv => FinalIsPermanent
    <2>. SUFFICES ASSUME RpcInv PROVE FinalIsPermanent
      OBVIOUS
    <2>1. ASSUME outcome \in {"confirmed", "reverted"}
          PROVE  /\ receipt[1] \in 1..Len(chain)
                 /\ chain[receipt[1]] = [number |-> receipt[1], fork |-> receipt[2],
                                         holds |-> receipt[3]]
                 /\ receipt[3] \in {"success", "failed"}
      BY <2>1, PermanentIsFinal DEF RpcInv, ReadsOK
    <2>2. outcome = "confirmed" => receipt[3] = "success"
      BY DEF RpcInv, ReadsOK
    <2>3. outcome = "reverted" => receipt[3] = "failed"
      BY <2>1 DEF RpcInv, ReadsOK
    <2>. QED BY <2>1, <2>2, <2>3 DEF FinalIsPermanent
  <1>. QED BY <1>1, RpcInvariant, PTL

\* No payment is refused or retired (readAgreement, Call) unless the chain had
\* used its authorization.
THEOREM RefusalsAreProved == Spec => []RefusalIsProved
  <1>1. RpcInv => RefusalIsProved
    BY DEF RpcInv, ReadsOK, RefusalIsProved, SpentEver
  <1>. QED BY <1>1, RpcInvariant, PTL

-----------------------------------------------------------------------------
(* The price of the transaction.                                           *)

\* A price that is that of a block the network had.
Priced(v) == \E b \in Block : Made(b) /\ v = <<b.number, b.fork>>

\* The transaction is sent only once it is priced, and what a trusted provider
\* answers for the block of the agreed head is such a price, wherever the head
\* came from.
PriceInv ==
    /\ sent => pc \in {"receipt", "canonical", "head", "done"} /\ Priced(price)
    /\ pc = "feeBlock" => \A p \in trusted : answer[p].kind = "value" => Priced(answer[p].value)

\* A price once real stays so: a block dropped is one the network had.
LEMMA PricedStays ==
    ASSUME RpcInv, [Next]_vars, NEW v, Priced(v)
    PROVE  Priced(v)'
  <1>1. CASE Extend \/ Reorg
    <2>1. \A b : Made(b) => Made(b)'
      BY Zenon, <1>1, ExtendGrows, ReorgGrows DEF RpcInv, Grows
    <2>. QED BY Zenon, <2>1 DEF Priced
  <1>2. CASE ~(Extend \/ Reorg)
    <2>1. chain' = chain /\ orphans' = orphans
      BY Zenon, <1>2 DEF Next, Decide, ReadContract, Call, FeeHead, FeeBlock, TransactionReceipt, BlockByNumber,
         Confirmation, Answer, Sync, Network, vars
    <2>2. \A b : Made(b) => Made(b)'
      BY Zenon, <2>1 DEF Made
    <2>. QED BY Zenon, <2>2 DEF Priced
  <1>. QED BY Zenon, <1>1, <1>2

\* A trusted provider prices by a block it shows.
LEMMA HonestPrice ==
    ASSUME RpcInv, NEW p \in Providers, pc = "feeBlock", Honest(view[p]).kind = "value"
    PROVE  Priced(Honest(view[p]).value)
  <1>1. Honest(view[p]) = BlockAt(view[p], price[1])
    BY DEF Honest
  <1>2. price[1] \in 1..Len(view[p])
    BY <1>1 DEF BlockAt, Unavailable
  <1>3. PICK b : b = view[p][price[1]]
    BY Zenon
  <1>4. b \in Block /\ Made(b)
    BY <1>2, <1>3 DEF RpcInv, ViewsOK, ViewOK
  <1>5. Honest(view[p]).value = <<b.number, b.fork>>
    BY <1>1, <1>2, <1>3 DEF BlockAt, Value
  <1>. QED BY Zenon, <1>4, <1>5 DEF Priced

\* A new read has no answers, so nothing is claimed of them.
LEMMA NewReadUnpriced ==
    ASSUME RpcInv, NEW next, Goto(next), trusted' = trusted
    PROVE  pc' = next /\ \A p \in trusted' : answer'[p].kind # "value"
  <1>1. pc' = next /\ answer' = [p \in Providers |-> Unasked] /\ \A p \in trusted : p \in Providers
    BY RpcAssumption DEF Goto, RpcInv, ChainOK
  <1>2. Unasked.kind # "value"
    BY DEF Unasked
  <1>. QED BY Zenon, <1>1, <1>2

\* FeeBlock takes a price that all agree on, one of them trusted.
LEMMA AgreedPriceIsReal ==
    ASSUME RpcInv, PriceInv, pc = "feeBlock", readClientAgreement(exactComparable).kind = "value"
    PROVE  Priced(readClientAgreement(exactComparable).value)
  <1>1. PICK q \in trusted : q \in Providers
    BY Zenon, SomeoneTrusted
  <1>2. answer[q] = readClientAgreement(exactComparable)
    BY <1>1, AgreedByAll DEF Unavailable
  <1>. QED BY Zenon, <1>1, <1>2 DEF PriceInv

\* Every step keeps the price real.
LEMMA PriceStep ==
    ASSUME RpcInv, PriceInv, [Next]_vars
    PROVE  PriceInv'
  <1>1. \A v : Priced(v) => Priced(v)'
    BY Zenon, PricedStays
  <1>2. ASSUME UNCHANGED <<trusted, sent, pc, answer, price>> PROVE PriceInv'
    <2>1. trusted' = trusted /\ sent' = sent /\ pc' = pc /\ answer' = answer /\ price' = price
      BY <1>2
    <2>. QED BY Zenon, <1>1, <2>1 DEF PriceInv
  <1>3. CASE Extend \/ Reorg \/ (\E p \in Providers : Sync(p)) \/ UNCHANGED vars
    BY <1>2, <1>3 DEF Extend, Reorg, Sync, Service, vars
  <1>4. ASSUME NEW p \in Providers, Answer(p) PROVE PriceInv'
    <2>1. trusted' = trusted /\ sent' = sent /\ pc' = pc /\ price' = price
      BY <1>4 DEF Answer
    <2>2. PICK said : /\ answer' = [answer EXCEPT ![p] = said]
                      /\ p \in trusted => said \in {Honest(view[p]), Unavailable}
      BY <1>4 DEF Answer
    <2>3. answer'[p] = said /\ \A q \in Providers \ {p} : answer'[q] = answer[q]
      BY Zenon, <2>2 DEF RpcInv, ReadsOK
    <2>4. \A q \in trusted : q \in Providers
      BY Zenon, RpcAssumption DEF RpcInv, ChainOK
    <2>5. ASSUME NEW q \in trusted, pc = "feeBlock", answer'[q].kind = "value" PROVE Priced(answer'[q].value)
      <3>1. CASE q = p
        <4>1. said # Unavailable
          BY <2>3, <2>5, <3>1 DEF Unavailable
        <4>. QED BY Zenon, <2>2, <2>3, <2>5, <3>1, <4>1, HonestPrice
      <3>2. CASE q # p
        BY Zenon, <2>3, <2>4, <2>5, <3>2 DEF PriceInv
      <3>. QED BY Zenon, <3>1, <3>2
    <2>. QED BY Zenon, <1>1, <2>1, <2>5 DEF PriceInv
  <1>5. ASSUME NEW next, Goto(next), trusted' = trusted,
               sent' => next \in {"receipt", "canonical", "head", "done"} /\ Priced(price')
        PROVE  PriceInv'
    BY Zenon, <1>1, <1>5, NewReadUnpriced DEF PriceInv
  <1>6. CASE ReadContract \/ Call \/ FeeHead
    <2>1. trusted' = trusted /\ sent' = sent /\ pc \in {"verify", "simulate", "feeHead"}
      BY <1>6 DEF ReadContract, Call, FeeHead, Network, Answered
    <2>2. ~ sent
      BY <2>1 DEF PriceInv
    <2>3. \E next : Goto(next)
      BY Zenon, <1>6 DEF ReadContract, Call, FeeHead, Conclude
    <2>. QED BY Zenon, <1>5, <2>1, <2>2, <2>3
  <1>7. CASE FeeBlock
    <2>1. trusted' = trusted /\ pc = "feeBlock" /\ ~ sent
      BY Zenon, <1>7 DEF FeeBlock, Network, Answered, PriceInv
    <2>2. CASE Goto("simulate") /\ sent' = sent
      BY Zenon, <1>5, <2>1, <2>2
    <2>3. CASE /\ readClientAgreement(exactComparable).kind = "value" /\ Goto("receipt")
               /\ price' = readClientAgreement(exactComparable).value
      BY Zenon, <1>5, <2>1, <2>3, AgreedPriceIsReal
    <2>. QED BY Zenon, <1>7, <2>2, <2>3 DEF FeeBlock
  <1>8. CASE TransactionReceipt \/ BlockByNumber \/ Confirmation
    <2>1. trusted' = trusted /\ sent' = sent /\ price' = price
      BY <1>8 DEF TransactionReceipt, BlockByNumber, Confirmation, Network
    <2>2. \E next \in {"receipt", "canonical", "head", "done"} : Goto(next)
      BY Zenon, <1>8 DEF TransactionReceipt, BlockByNumber, Confirmation, Again, Conclude
    <2>. QED BY Zenon, <1>5, <2>1, <2>2 DEF PriceInv
  <1>. QED BY Zenon, <1>3, <1>4, <1>6, <1>7, <1>8 DEF Next, Decide

\* The base fee that FeeBlock prices the transaction with is that of a block
\* of the network, if one provider is honest: whatever head the others make
\* the agreed one, the block at it is asked of all.
THEOREM PricesAreReal == Spec => []PriceIsReal
  <1>1. Init => PriceInv
    BY DEF Init, PriceInv
  <1>2. RpcInv /\ PriceInv /\ [Next]_vars => PriceInv'
    BY Zenon, PriceStep
  <1>3. PriceInv => PriceIsReal
    BY DEF PriceInv, Priced, Made, PriceIsReal
  <1>. QED BY <1>1, <1>2, <1>3, RpcInvariant, PTL DEF Spec

-----------------------------------------------------------------------------
(* Fee bumps. The lemmas say what the pure functions of fees.go return;    *)
(* FeeInv is inductive because outbidding by 10% is transitive on          *)
(* non-negative fees, which is what lets the newest version displace any   *)
(* earlier one and not only its predecessor.                               *)

\* minBump is the least integer at least 110% of its argument.
LEMMA MinBumpIsLeast ==
    ASSUME NEW n \in Nat
    PROVE  /\ minBump(n) \in Nat
           /\ 10 * minBump(n) >= 11 * n
           /\ \A m \in Nat : 10 * m >= 11 * n => m >= minBump(n)
           /\ n > 0 => minBump(n) > n
  BY DEF minBump

\* The bumped tip is above the old one and satisfies the pool's rule for it.
LEMMA BumpedTipClimbs ==
    ASSUME NEW n \in Nat
    PROVE  bumpedTip(n) \in Nat /\ bumpedTip(n) > n /\ bumpedTip(n) >= minBump(n)
  <1>1. minBump(n) \in Nat
    BY MinBumpIsLeast
  <1>2. (n * 9) \div 8 \in Nat
    OBVIOUS
  <1>. QED BY <1>1, <1>2 DEF bumpedTip, Greater

\* EstimateFees stays under the ceiling, and its tip under its cap.
LEMMA EstimateIsBounded ==
    ASSUME NEW base \in Nat, NEW tip \in Nat, NEW cap \in Nat \ {0}
    PROVE  LET e == EstimateFees(base, tip, cap) IN
           /\ e.maxFee \in Nat /\ e.priority \in Nat
           /\ e.priority <= e.maxFee /\ e.maxFee <= cap
           /\ e.ok <=> e.maxFee > 0
           /\ e.priority = Lesser(tip, cap)
           /\ tip > 0 => e.ok
  <1>. DEFINE maxFee == Lesser(2 * base + tip, cap)
              priority == Lesser(tip, maxFee)
  <1>1. /\ maxFee \in Nat /\ priority \in Nat /\ priority <= maxFee /\ maxFee <= cap
        /\ priority = Lesser(tip, cap)
        /\ tip > 0 => maxFee > 0
    BY DEF Lesser
  <1>2. EstimateFees(base, tip, cap) = [ok |-> maxFee > 0, maxFee |-> maxFee, priority |-> priority]
    BY DEF EstimateFees
  <1>. HIDE DEF maxFee, priority
  <1>3. /\ EstimateFees(base, tip, cap).maxFee = maxFee
        /\ EstimateFees(base, tip, cap).priority = priority
    BY <1>2
  <1>4. EstimateFees(base, tip, cap).ok <=> maxFee > 0
    BY Zenon DEF EstimateFees, maxFee
  <1>. QED BY <1>1, <1>3, <1>4

\* A bump that BumpFees grants is accepted by a pool that holds the old pair, and
\* stays under the ceiling.
LEMMA BumpOutbids ==
    ASSUME NEW old \in FeePair, NEW base \in Nat, NEW cap \in Nat \ {0},
           old.priority <= old.maxFee, BumpFees(old, base, cap).ok
    PROVE  LET new == Pair(BumpFees(old, base, cap)) IN
           /\ new \in FeePair
           /\ Outbids(new, old)
           /\ new.priority <= new.maxFee /\ new.maxFee <= cap
  <1>. DEFINE tip == bumpedTip(old.priority)
              est == EstimateFees(base, tip, cap)
              maxFee == Greater(est.maxFee, minBump(old.maxFee))
              priority == Lesser(est.priority, maxFee)
  <1>1. old.maxFee \in Nat /\ old.priority \in Nat
    BY DEF FeePair
  <1>2. tip \in Nat /\ tip > old.priority /\ tip >= minBump(old.priority)
    BY <1>1, BumpedTipClimbs
  <1>3. /\ est.maxFee \in Nat /\ est.priority \in Nat
        /\ est.priority <= est.maxFee /\ est.maxFee <= cap
        /\ est.priority = Lesser(tip, cap)
    BY <1>2, EstimateIsBounded
  <1>4. /\ minBump(old.maxFee) \in Nat /\ 10 * minBump(old.maxFee) >= 11 * old.maxFee
        /\ minBump(old.priority) \in Nat /\ 10 * minBump(old.priority) >= 11 * old.priority
        /\ old.maxFee > 0 => minBump(old.maxFee) > old.maxFee
        /\ old.priority > 0 => minBump(old.priority) > old.priority
    BY Zenon, <1>1, MinBumpIsLeast
  <1>5. /\ old.maxFee > 0
        /\ est.maxFee >= minBump(old.maxFee) \/ cap >= minBump(old.maxFee)
        /\ priority >= minBump(old.priority)
    BY DEF BumpFees
  <1>6. maxFee \in Nat /\ maxFee >= minBump(old.maxFee) /\ maxFee <= cap
    BY <1>3, <1>4, <1>5 DEF Greater
  <1>7. priority \in Nat /\ priority <= maxFee /\ priority > old.priority
    <2>1. priority = Lesser(tip, cap)
      BY <1>3, <1>6, <1>2 DEF Lesser, Greater
    <2>2. CASE old.priority > 0
      BY <2>2, <1>1, <1>3, <1>4, <1>5, <1>6 DEF Lesser
    <2>3. CASE old.priority = 0
      BY <2>3, <2>1, <1>2, <1>3, <1>6 DEF Lesser
    <2>. QED BY <2>2, <2>3, <1>1
  <1>8. Pair(BumpFees(old, base, cap)) = [maxFee |-> maxFee, priority |-> priority]
    BY DEF Pair, BumpFees
  <1>. HIDE DEF maxFee, priority
  <1>. QED BY <1>1, <1>4, <1>5, <1>6, <1>7, <1>8 DEF FeePair, Outbids

\* Outbidding composes, which a 10% rule with rounding would not do by itself.
LEMMA OutbidsIsTransitive ==
    ASSUME NEW a \in FeePair, NEW b \in FeePair, NEW c \in FeePair, Outbids(c, b), Outbids(b, a)
    PROVE  Outbids(c, a)
  BY DEF Outbids, FeePair

\* BumpFees refuses only when no pair under the ceiling outbids the recorded one.
LEMMA RefusalIsForced ==
    ASSUME NEW old \in FeePair, NEW base \in Nat, NEW cap \in Nat \ {0},
           old.maxFee > 0, old.priority <= old.maxFee, ~BumpFees(old, base, cap).ok,
           NEW m \in 0..cap, NEW t \in 0..m
    PROVE  ~Outbids([maxFee |-> m, priority |-> t], old)
  <1>. DEFINE tip == bumpedTip(old.priority)
              est == EstimateFees(base, tip, cap)
              maxFee == Greater(est.maxFee, minBump(old.maxFee))
              priority == Lesser(est.priority, maxFee)
  <1>. SUFFICES ASSUME Outbids([maxFee |-> m, priority |-> t], old) PROVE FALSE
    OBVIOUS
  <1>1. old.maxFee \in Nat /\ old.priority \in Nat
    BY DEF FeePair
  <1>2. cap >= minBump(old.maxFee) /\ cap >= minBump(old.priority)
    <2>1. 10 * m >= 11 * old.maxFee /\ 10 * t >= 11 * old.priority
      BY DEF Outbids
    <2>2. m >= minBump(old.maxFee) /\ t >= minBump(old.priority)
      <3>1. m \in Nat /\ t \in Nat
        OBVIOUS
      <3>2. m >= minBump(old.maxFee)
        BY Zenon, <3>1, <2>1, <1>1, MinBumpIsLeast
      <3>3. t >= minBump(old.priority)
        BY Zenon, <3>1, <2>1, <1>1, MinBumpIsLeast
      <3>. QED BY <3>2, <3>3
    <2>3. minBump(old.maxFee) \in Nat /\ minBump(old.priority) \in Nat
      BY Zenon, <1>1, MinBumpIsLeast
    <2>. QED BY <2>2, <2>3
  <1>3. tip \in Nat /\ tip > 0 /\ tip >= minBump(old.priority)
    BY <1>1, BumpedTipClimbs
  <1>4. est.ok /\ est.maxFee \in Nat /\ est.priority = Lesser(tip, cap) /\ est.priority <= est.maxFee
    BY <1>3, EstimateIsBounded
  <1>5. minBump(old.maxFee) \in Nat /\ minBump(old.priority) \in Nat
    BY Zenon, <1>1, MinBumpIsLeast
  <1>6. est.priority >= minBump(old.priority)
    BY <1>2, <1>3, <1>4, <1>5 DEF Lesser
  <1>7. priority >= minBump(old.priority)
    BY <1>3, <1>4, <1>5, <1>6 DEF Lesser, Greater
  <1>. QED BY <1>2, <1>4, <1>7 DEF BumpFees

-----------------------------------------------------------------------------
\* Every estimate, bump, late arrival, block and restart keeps the invariant.
LEMMA FeeInvKept == FeeInv /\ [FeeNext]_feeVars => FeeInv'
  <1>. SUFFICES ASSUME FeeInv, [FeeNext]_feeVars PROVE FeeInv'
    OBVIOUS
  <1>0. /\ baseFee \in Nat /\ ceiling \in Nat \ {0} /\ versions \in Seq(FeePair)
        /\ Len(versions) \in Nat /\ pool \in 0..Len(versions)
    BY FeeAssumption DEF FeeInv, FeeTypeOK
  <1>1. ASSUME NEW tip \in TipCaps, FirstBroadcast(tip) PROVE FeeInv'
    <2>. DEFINE new == Pair(EstimateFees(baseFee, tip, ceiling))
    <2>. tip \in Nat
      BY FeeAssumption
    <2>1. new \in FeePair /\ new.maxFee > 0 /\ new.priority <= new.maxFee
      BY <1>0, <1>1, EstimateIsBounded DEF FirstBroadcast, Pair, FeePair
    <2>2. /\ versions' = <<new>> /\ pool' = pool /\ versions = <<>>
          /\ baseFee' = baseFee /\ ceiling' = ceiling
      BY <1>1 DEF FirstBroadcast
    <2>. HIDE DEF new
    <2>3. FeeTypeOK'
      BY <1>0, <2>1, <2>2 DEF FeeInv, FeeTypeOK
    <2>. QED BY <2>1, <2>2, <2>3 DEF FeeInv, ClimbsByRule
  <1>2. CASE Replace
    <2>. DEFINE new == Pair(BumpFees(Latest, baseFee, ceiling))
                n == Len(versions)
    <2>0. /\ n \in 1..(MaxVersions - 1) /\ BumpFees(Latest, baseFee, ceiling).ok
          /\ versions' = Append(versions, new)
          /\ pool' = pool /\ baseFee' = baseFee /\ ceiling' = ceiling
      BY <1>2 DEF Replace
    <2>. HIDE DEF new
    <2>1. n \in 1..n /\ Latest = versions[n] /\ Latest \in FeePair
      BY <1>0, <2>0 DEF Latest
    <2>. Latest.priority <= Latest.maxFee
      BY <2>1 DEF FeeInv
    <2>2. new \in FeePair /\ Outbids(new, Latest) /\ new.priority <= new.maxFee
      BY <1>0, <2>0, <2>1, BumpOutbids DEF new
    <2>3. new.maxFee > 0
      BY <2>1, <2>2 DEF Outbids, FeePair
    <2>5. /\ versions' \in Seq(FeePair) /\ Len(versions') = n + 1
          /\ \A i \in 1..n : versions'[i] = versions[i]
          /\ versions'[n + 1] = new
      BY <1>0, <2>0, <2>2
    <2>6. \A i \in 1..n : Outbids(new, versions[i])
      <3>. SUFFICES ASSUME NEW i \in 1..n, i # n PROVE Outbids(new, versions[i])
        BY <2>1, <2>2
      <3>1. versions[i] \in FeePair
        BY <1>0
      <3>2. i < n
        BY <1>0
      <3>3. Outbids(Latest, versions[i])
        BY <2>1, <3>2 DEF FeeInv, ClimbsByRule
      <3>. QED BY <2>1, <2>2, <3>1, <3>3, OutbidsIsTransitive
    <2>7. ClimbsByRule'
      <3>. SUFFICES ASSUME NEW i \in 1..n + 1, NEW j \in 1..n + 1, i < j
                    PROVE  Outbids(versions'[j], versions'[i])
        BY <2>5 DEF ClimbsByRule
      <3>1. i \in 1..n /\ versions'[i] = versions[i]
        BY <1>0, <2>5
      <3>2. CASE j = n + 1
        BY <2>5, <2>6, <3>1, <3>2
      <3>3. CASE j # n + 1
        <4>1. j \in 1..n /\ versions'[j] = versions[j]
          BY <1>0, <2>5, <3>3
        <4>. QED BY <3>1, <4>1 DEF FeeInv, ClimbsByRule
      <3>. QED BY <3>2, <3>3
    <2>8. FeeTypeOK'
      BY <1>0, <2>0, <2>5 DEF FeeInv, FeeTypeOK
    <2>9. \A i \in 1..Len(versions') :
              versions'[i].maxFee > 0 /\ versions'[i].priority <= versions'[i].maxFee
      <3>. SUFFICES ASSUME NEW i \in 1..n + 1
                    PROVE  versions'[i].maxFee > 0 /\ versions'[i].priority <= versions'[i].maxFee
        BY <2>5
      <3>1. CASE i \in 1..n
        BY <2>5, <3>1 DEF FeeInv
      <3>2. CASE i = n + 1
        BY <2>2, <2>3, <2>5, <3>2
      <3>. QED BY <1>0, <3>1, <3>2
    <2>. QED BY <2>7, <2>8, <2>9 DEF FeeInv
  <1>. USE FeeAssumption DEF FeeInv, FeeTypeOK
  <1>3. ASSUME NEW i \in 1..Len(versions), Arrive(i) PROVE FeeInv'
    BY <1>3 DEF Arrive, ClimbsByRule
  <1>4. CASE NewBlock
    BY <1>4 DEF NewBlock, ClimbsByRule
  <1>5. CASE Reconfigure
    BY <1>5 DEF Reconfigure, ClimbsByRule
  <1>6. CASE UNCHANGED feeVars
    BY <1>6 DEF feeVars, ClimbsByRule
  <1>. QED BY <1>1, <1>2, <1>3, <1>4, <1>5, <1>6 DEF FeeNext

\* The recorded fees of a nonce are well formed and climb, in every behaviour.
THEOREM FeeInvariant == FeeSpec => []FeeInv
  <1>1. FeeInit => FeeInv
    BY FeeAssumption DEF FeeInit, FeeInv, FeeTypeOK, ClimbsByRule
  <1>. QED BY <1>1, FeeInvKept, PTL DEF FeeSpec

\* Whatever was lost or delayed, the newest version displaces the one a node holds.
THEOREM BumpsClimb == FeeSpec => []ClimbsByRule
  <1>1. FeeInv => ClimbsByRule
    BY DEF FeeInv
  <1>. QED BY <1>1, FeeInvariant, PTL

\* BumpFees reports "no room" only when there is none.
THEOREM RefusalIsHonest == FeeSpec => []RefusedOnlyWithoutRoom
  <1>1. FeeInv => RefusedOnlyWithoutRoom
    <2>. SUFFICES ASSUME FeeInv, versions # <<>>, ~BumpFees(Latest, baseFee, ceiling).ok,
                         NEW m \in 0..ceiling, NEW t \in 0..m
                  PROVE  ~Outbids([maxFee |-> m, priority |-> t], Latest)
      BY Zenon DEF RefusedOnlyWithoutRoom
    <2>1. Len(versions) \in 1..Len(versions) /\ Latest \in FeePair
      BY DEF FeeInv, FeeTypeOK, Latest
    <2>2. Latest.maxFee > 0 /\ Latest.priority <= Latest.maxFee
      BY <2>1 DEF FeeInv, Latest
    <2>. QED BY <2>1, <2>2, RefusalIsForced, FeeAssumption DEF FeeInv, FeeTypeOK
  <1>. QED BY <1>1, FeeInvariant, PTL

\* The ceiling is the hard spend bound of everything that is signed.
THEOREM SpendIsBounded == FeeSpec => WithinCeiling
  <1>1. ASSUME FeeInv, [FeeNext]_feeVars PROVE [SpendStep]_feeVars
    <2>. USE <1>1, FeeAssumption DEF FeeInv, FeeTypeOK
    <2>1. ASSUME NEW tip \in TipCaps, FirstBroadcast(tip) PROVE SpendStep
      <3>1. /\ versions' = <<Pair(EstimateFees(baseFee, tip, ceiling))>>
            /\ ceiling \in Nat \ {0} /\ baseFee \in Nat /\ tip \in Nat
        BY <2>1 DEF FirstBroadcast
      <3>2. versions'[Len(versions')] = Pair(EstimateFees(baseFee, tip, ceiling))
        BY <3>1
      <3>. QED BY <3>1, <3>2, EstimateIsBounded DEF SpendStep, Pair
    <2>2. ASSUME Replace PROVE SpendStep
      <3>1. versions' = Append(versions, Pair(BumpFees(Latest, baseFee, ceiling)))
        BY <2>2 DEF Replace
      <3>2. versions'[Len(versions')] = Pair(BumpFees(Latest, baseFee, ceiling))
        BY <3>1
      <3>3. Latest \in FeePair /\ Latest.priority <= Latest.maxFee
        BY <2>2 DEF Replace, Latest
      <3>4. ceiling \in Nat \ {0} /\ baseFee \in Nat /\ BumpFees(Latest, baseFee, ceiling).ok
        BY <2>2 DEF Replace
      <3>. QED BY <3>2, <3>3, <3>4, BumpOutbids DEF SpendStep
    <2>3. ASSUME NEW i \in 1..Len(versions), Arrive(i) PROVE SpendStep
      BY <2>3 DEF Arrive, SpendStep
    <2>4. ASSUME NewBlock \/ Reconfigure PROVE SpendStep
      BY <2>4 DEF NewBlock, Reconfigure, SpendStep
    <2>. QED BY <2>1, <2>2, <2>3, <2>4 DEF FeeNext
  <1>. QED BY <1>1, FeeInvariant, PTL DEF FeeSpec, WithinCeiling
=============================================================================
