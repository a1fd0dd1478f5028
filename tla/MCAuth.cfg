\* Two users, one of them with the seeded address; two tasks at a time,
\* and processes that seed with different roles.
SPECIFICATION Spec
CONSTANTS
    admin = admin
    bob = bob
    Emails = {admin, bob}
    SeedEmail = admin
    SeedRoles = {"admin", "operator"}
    NoUser = NoUser
    Sessions = {s1, s2}
    NoSession = NoSession
    Keys = {k1}
    NoKey = NoKey
    Tasks = {t1, t2}
    SessionTtl = 1
    MaxTime = 1
    Faults = TRUE
SYMMETRY AuthSymmetry
INVARIANTS DeadCredentialRefused SeedTakesEffect DemotedIsRefused
PROPERTY OwnerActs
