CONSTANTS
    c1 = c1
    c2 = c2
    x = x
    Callers = {c1, c2}
    Keys = {1, 2}
    Values = {x}
    Requests <- MCRequests
    MaxBatch = 2
    MaxVersion = 2
    NoValue = none
SPECIFICATION FairSpec
INVARIANT TypeOK
PROPERTIES ImplementsAtomicStore CallsReturn
