\* One node, two calls and two handlers: calls arrive late and twice,
\* and the row is edited from outside.
SPECIFICATION Spec
CONSTANTS
    n1 = n1
    NoNode = NoNode
    c1 = c1
    c2 = c2
    NoCall = NoCall
    m1 = m1
    Nodes = {n1}
    Calls = {c1, c2}
    Handlers = {h1, h2}
    Admins = {a1}
    Models = {m1}
    Bodies <- FourBodies
    Ttl = 1
    PruneAt = 1
    StaleAfter = 1
    MaxTime = 2
    MaxInt32 = 2
    Faults = TRUE
    Edits = TRUE
SYMMETRY NodeSymmetry
INVARIANTS RememberedWhileFresh SelectedIsLive ListedIsServed
PROPERTIES RepeatIsRefused RevokedIsFrozen
