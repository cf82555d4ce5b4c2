CONSTANTS
    r1 = r1
    r2 = r2
    r3 = r3
    Releases = {r1, r2, r3}
    FirstRelease = r1
    SchemaOf <- NewSchema
    ToolSchema = 2
    MaxHistory = 1
    MaxWrites = 2
    MaxCommands = 3
    MaxFaults = 1
    Repos = {s1, s2}
    Passwords = {p1, p2}
    LocalKeep = 1
    Torn = torn
    NoValue = none
SPECIFICATION RemoteSpec
INVARIANTS RemoteTypeOK SuccessMends OneFaultHeals ConfigureKeepsAgreement StatusHasSnapshot
PROPERTY SavedBeforeReplaced
CHECK_DEADLOCK FALSE
SYMMETRY RemoteSymmetry
