CONSTANTS
    r1 = r1
    r2 = r2
    Releases = {r1, r2}
    FirstRelease = r1
    SchemaOf <- TwoSchemas
    ToolSchema = 2
    MaxHistory = 1
    MaxWrites = 1
    MaxCommands = 3
    MaxFaults = 0
    Repos = {s1}
    Passwords = {p1}
    LocalKeep = 1
    Torn = torn
    NoValue = none
SPECIFICATION KillSpec
INVARIANTS KillTypeOK CopiesAreUndisturbed
CHECK_DEADLOCK FALSE
