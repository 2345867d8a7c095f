SPECIFICATION FeeSpec
CONSTANTS
    BaseFees <- MCBaseFees
    Ceilings <- MCCeilings
    TipCaps <- MCTipCaps
    MaxVersions = 5
INVARIANTS
    
    RefusedOnlyWithoutRoom
