---------------------------- MODULE EthereumChain ----------------------------
(***************************************************************************)
(* Ethereum as the facilitator sees it through internal/ethereum (external: *)
(* the network itself is not in the repository).  Only transactions of the *)
(* facilitator's signer are kept: net is what some node has accepted,      *)
(* chain the canonical chain, one signer transaction per block at most.    *)
(* Reads are modelled after TransactionReceipt, TransactionByHash,         *)
(* BlockByNumber and BlockNumber, writes after SendRawTransaction.         *)
(***************************************************************************)
EXTENDS Integers, Sequences, FiniteSets

CONSTANTS Confirmations,  \* ETH402_REQUIRED_CONFIRMATIONS
          MaxBlocks,      \* bound: blocks, beyond those that make ours final
          MaxReorgs       \* bound: reorganisations

ASSUME ConfirmationsAssumption == Confirmations \in Nat \ {0}

VARIABLES net,     \* signed transactions a node accepted: [h, nonce, pay]
          chain,   \* canonical blocks: [gen, h, ok]; h = Empty if none is ours
          reorgs   \* reorganisations so far; blocks built since carry it as gen

chainVars == <<net, chain, reorgs>>

Empty == 0

ChainInit == net = {} /\ chain = <<>> /\ reorgs = 0

MinedAt(h) == {i \in 1..Len(chain) : chain[i].h = h}

\* The nonces of the account already used on the canonical chain are 0..AccountNonce-1.
AccountNonce == Cardinality({i \in 1..Len(chain) : chain[i].h # Empty})

\* TransactionReceipt: at most one, the block number and hash with the status.
Receipts(h) == {[n |-> i, gen |-> chain[i].gen, ok |-> chain[i].ok] : i \in MinedAt(h)}

\* The depth computed from BlockNumber; 0 when the head is behind the receipt.
Depth(r) == IF Len(chain) >= r.n THEN Len(chain) - r.n + 1 ELSE 0

Known(h) == \E m \in net : m.h = h

\* A node accepts the bytes, or they never arrive anywhere.
Accept(m) == net' = net \cup {m} /\ UNCHANGED <<chain, reorgs>>
Lose == UNCHANGED chainVars

\* The next block includes m (in nonce order), which succeeds or reverts.
Mine(m, ok) ==
    /\ m \in net /\ m.nonce = AccountNonce
    /\ chain' = Append(chain, [gen |-> reorgs, h |-> m.h, ok |-> ok])
    /\ UNCHANGED <<net, reorgs>>

\* Blocks of others: always enough to bury the last of ours.
EmptyBlock ==
    /\ \/ Len(chain) < MaxBlocks
       \/ \E i \in 1..Len(chain) : chain[i].h # Empty /\ Len(chain) - i + 1 < Confirmations
    /\ chain' = Append(chain, [gen |-> reorgs, h |-> Empty, ok |-> FALSE])
    /\ UNCHANGED <<net, reorgs>>

\* The last k blocks give way to a branch at least as long.  Blocks as deep as
\* Confirmations are final, which is what the setting asserts.
Reorg(k) ==
    /\ reorgs < MaxReorgs
    /\ k \in 1..Len(chain) /\ k < Confirmations
    /\ chain' = [i \in 1..Len(chain) |->
                    IF i <= Len(chain) - k THEN chain[i]
                    ELSE [gen |-> reorgs + 1, h |-> Empty, ok |-> FALSE]]
    /\ reorgs' = reorgs + 1
    /\ UNCHANGED net
=============================================================================
