CONSTANTS
    c1 = c1
    c2 = c2
    Clients = {c1}
    Startup = startup
    Requests = {1, 2}
    Rules = {x, y}
    Acceptable = {x, y}
    MaxRevision = 2
    Overshoot = 0
    MaxDelayed = 1
    TimesCoincide = TRUE
    x = x
    y = y
    NoValue = none
SPECIFICATION FairSpec
PROPERTY ServesAgain
