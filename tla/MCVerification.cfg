SPECIFICATION Spec
CONSTANTS
    r1 = r1  r2 = r2  r3 = r3  v1 = v1  v2 = v2
    p1 = p1  p2 = p2  p3 = p3  p4 = p4
    m1 = m1  m2 = m2  m3 = m3  a1 = a1  a2 = a2  a3 = a3
    None = None
    Requests = {r1, r2, r3}
    Verifiers = {v1, v2}
    Payments = {p1, p2, p3, p4}
    Merchants = {m1, m2, m3}
    Authorizations = {a1, a2, a3}
    AuthorizationOf <- MCAuthorizationOf
    Claimants <- MCClaimants
    ValidBefore <- MCValidBefore
    Scopes <- MCScopes
    ExpiryMargin = 1  Quota = 1  GlobalQuota = 2  QuotaWindow = 2
    PaymentRetention = 3  VerifyTime = 1  SettleTime = 2  MaxSuspensions = 1
SYMMETRY MCSymmetry
INVARIANTS
    MerchantQuotaHolds
    GlobalQuotaHolds
    NoLockCycle
    AuthorizationPaysOnce
PROPERTIES
    SuspensionHolds
CHECK_DEADLOCK FALSE
