CONSTANTS
    h1 = h1
    h2 = h2
    k1 = k1
    k2 = k2
    k3 = k3
    t1 = t1
    t2 = t2
    d1 = d1
    d2 = d2
    Handlers = {h1, h2}
    Keys = {k1, k2, k3}
    Tenants = {t1, t2}
    Databases = {d1, d2}
    Grants <- MCGrants
    BootKeys <- OneRootKey
    DefaultScopes <- OneScope
    Calls <- MCCalls
    NoValue = none
SPECIFICATION FairSpec
INVARIANTS TypeOK MutexIsHeldInside
PROPERTIES RootRemains ImplementsRegistry StartKeepsStored ScopesCatchUp
