\* Three concurrent calls on one wallet row of Postgres, with failures.
SPECIFICATION FairSpec
CONSTANTS
    u1 = u1
    Users = {u1}
    c1 = c1
    c2 = c2
    c3 = c3
    Calls = {c1, c2, c3}
    Jobs <- RowJobs
    Backend = "Postgres"
    PoolSize = 2
    MaxI64 = 3
    Faults = TRUE
    NoCall = NoCall
INVARIANTS BalanceInRange LedgerExplainsBalance BalanceReadIsCurrent CallAccounted
PROPERTIES ImplementsAccount EveryCallReturns
