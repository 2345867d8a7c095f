SPECIFICATION StoreSpec
CONSTANTS
    p1 = p1  p2 = p2
    t1 = t1  t2 = t2  t3 = t3  t4 = t4
    h1 = h1  h2 = h2  h3 = h3  h4 = h4
    None = None
    Payments <- MCPayments
    TxIds <- MCTxIds
    Hashes <- MCHashes
    Seeds <- MCSeeds
SYMMETRY MCSymmetry
INVARIANTS
    NonceDiscipline
    RedactionSafe
    StoreInv
PROPERTIES
    EdgesOnly
    FinalityOneWay
    HandleKept
CHECK_DEADLOCK FALSE
