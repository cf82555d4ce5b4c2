CONSTANTS
    c1 = c1
    c2 = c2
    Clients = {c1, c2}
    Startup = startup
    Requests = {1, 2}
    Rules = {x, y}
    Acceptable = {x, y}
    MaxRevision = 2
    Overshoot = 0
    MaxDelayed = 1
    TimesCoincide = FALSE
    x = x
    y = y
    NoValue = none
SPECIFICATION Spec
SYMMETRY FullSymmetry
PROPERTY ConflictMeansStale
