\* All three dimensions over two scopes, with failures, crashes and expiry.
SPECIFICATION FairSpec
CONSTANTS
    k1 = k1
    u1 = u1
    Requests = {r1, r2}
    Scopes = {k1, u1}
    ScopeLists <- MaybeNoScope
    Tokens = {2}
    RequestsPerWindow = 1
    TokensPerWindow = 2
    ConcurrentRequests = 1
    WindowSeconds = 1
    LeaseSeconds = 2
    MaxRun = 1
    Faults = TRUE
INVARIANTS TypeOK EveryCounterExpires SlotsAccounted LimitHoldsUntilExpiry
PROPERTY CountersReset
