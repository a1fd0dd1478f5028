\* SQLite, nothing fails: the 402 usage event is inserted under the call's own lock.
SPECIFICATION Spec
CONSTANTS
    u1 = u1
    Users = {u1}
    c1 = c1
    c2 = c2
    Calls = {c1, c2}
    Jobs <- ChargeJobs
    Backend = "Sqlite"
    PoolSize = 3
    MaxI64 = 5
    Faults = FALSE
    NoCall = NoCall
PROPERTY InsufficientIsReported
