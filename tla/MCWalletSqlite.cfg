\* Three concurrent calls of every kind on SQLite, with failures.
SPECIFICATION Spec
CONSTANTS
    u1 = u1
    Users = {u1}
    c1 = c1
    c2 = c2
    c3 = c3
    Calls = {c1, c2, c3}
    Jobs <- AllJobs
    Backend = "Sqlite"
    PoolSize = 2
    MaxI64 = 3
    Faults = TRUE
    NoCall = NoCall
SYMMETRY CallSymmetry
INVARIANTS CallAccounted AuditsAreReal
