SPECIFICATION FairOutboxSpec
CONSTANTS
    w1 = w1  w2 = w2
    Workers = {w1, w2}
    MaxLinks = 2
    EmailTTL = 3  Resend = 1  EmailClaim = 1
    RetryMinimum = 1  RetryMaximum = 2
    EphemeralAfter = 1
    LastRequest = 1  MaxTime = 5  MaxFaults = 1
INVARIANTS
    LinksApart
    OutboxAgrees
PROPERTIES
    ClaimEndsByOwner
    DeliveryEnds
