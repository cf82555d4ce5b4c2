CONSTANTS
    c1 = c1
    c2 = c2
    h1 = h1
    h2 = h2
    Clients = {c1}
    Hooks = {h1, h2}
    Scopes = {s1, s2}
    Topics = {t1}
    Filters = {{t1}}
    Payloads = {p1}
    MaxAttempts = 2
    Limit = 1
    MaxRevision = 1
    MaxEvents = 1
    MaxRepeats = 0
    MaxHookVersion = 1
    MaxReplays = 0
    NoValue = none
SPECIFICATION FairSpec
PROPERTY ImplementsQueue
PROPERTY EventsPass
PROPERTY DeliveriesSettle
