CONSTANTS
    c1 = c1
    c2 = c2
    h1 = h1
    h2 = h2
    Clients = {c1, c2}
    Hooks = {h1}
    Scopes = {s1}
    Topics = {t1, t2}
    Filters = {{t1}}
    Payloads = {p1}
    MaxAttempts = 1
    Limit = 1
    MaxRevision = 2
    MaxEvents = 1
    MaxRepeats = 0
    MaxHookVersion = 3
    MaxReplays = 3
    NoValue = none
SYMMETRY HandlerSymmetry
SPECIFICATION Spec
INVARIANT TypeOK
INVARIANT RevisionsInOrder
INVARIANT DeliveryIsMaterialized
PROPERTY ImplementsQueue
