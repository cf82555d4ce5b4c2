----------------------------- MODULE AccessControl -----------------------------
(***************************************************************************)
(* The auth manager (internal/auth), the routes that lead to it            *)
(* (internal/api) and the start and scope refresh that cmd/barq-server     *)
(* builds on it.                                                           *)
(*                                                                         *)
(* A request is authenticated without the manager's mutex: its key is      *)
(* read, then the tenant of that key.  The route decides with the key as   *)
(* it was read.  An operation then takes the mutex and makes its store     *)
(* calls one by one, each of them atomic (ControlStore).  A start stores   *)
(* the configured keys in one batch and then their tenants one by one,     *)
(* before anything is served.                                              *)
(***************************************************************************)
EXTENDS AccessRules

CONSTANTS
    Handlers,       \* handler slots of the HTTP server
    BootKeys,       \* BARQ_API_KEYS: a function from some of Keys
    DefaultScopes,  \* BARQ_BOOTSTRAP_TENANT and _DATABASE: at most one scope
    Calls           \* the calls that clients make

TenantSets == (SUBSET Databases) \ {{}}

AllCalls ==
    [op: {"objects"}, tenant: Tenants, database: Databases, route: DOMAIN ObjectRoutes]
        \cup [op: {"rules"}, tenant: Tenants, database: Databases, route: DOMAIN RuleRoutes]
        \cup [op: {"newTenant"}, tenant: Tenants, databases: TenantSets]
        \cup [op: {"setTenant"}, tenant: Tenants, databases: {NoValue} \cup TenantSets,
              enabled: BOOLEAN \cup {NoValue}]
        \cup [op: {"newKey"}, tenant: Tenants \cup {Star}, database: Databases \cup {Star},
              actions: Grants]
        \cup [op: {"setKey"}, key: Keys, actions: {NoValue} \cup Grants,
              enabled: BOOLEAN \cup {NoValue}]
        \cup [op: {"rotate"}, key: Keys]

ASSUME AccessAssumption ==
    /\ DOMAIN BootKeys \in (SUBSET Keys) \ {{}}
    /\ \A k \in DOMAIN BootKeys: BootKeys[k] \in BootKey
    /\ DefaultScopes \subseteq Tenants \X Databases
    /\ Calls \subseteq AllCalls
    /\ NoValue \notin Handlers
    /\ NoValue \notin Key
    /\ NoValue \notin Tenant

VARIABLES
    keys,           \* collection api_keys, by digest
    tenants,        \* collection tenants
    server,         \* "down", "filling" (the tenants of a first start) or "serving"
    todo,           \* tenants that the start has still to store
    served,         \* history: some start got as far as serving
    mutex,          \* the handler that holds the manager's mutex, or NoValue
    scopes,         \* what runDispatcher polls
    req             \* per handler: its step and what it has read

stored == <<keys, tenants>>
vars == <<stored, server, todo, served, mutex, scopes, req>>

Inside == {"read", "scope", "root", "put"}
Steps == {"idle", "tenant", "route", "lock"} \cup Inside

Request ==
    [step: Steps,
     by: Key \cup {NoValue},                \* the principal
     call: Calls \cup {NoValue},
     old: Key \cup Tenant \cup {NoValue}]   \* the record as read under the mutex

Idle == [step |-> "idle", by |-> NoValue, call |-> NoValue, old |-> NoValue]

TypeOK ==
    /\ keys \in [Keys -> Key \cup {NoValue}]
    /\ tenants \in [Tenants -> Tenant \cup {NoValue}]
    /\ server \in {"down", "filling", "serving"}
    /\ todo \subseteq Tenants
    /\ served \in BOOLEAN
    /\ mutex \in Handlers \cup {NoValue}
    /\ scopes \subseteq Tenants \X Databases
    /\ req \in [Handlers -> Request]

Init ==
    /\ keys = [k \in Keys |-> NoValue]
    /\ tenants = [t \in Tenants |-> NoValue]
    /\ server = "down"
    /\ todo = {}
    /\ served = FALSE
    /\ mutex = NoValue
    /\ scopes = {}
    /\ req = [h \in Handlers |-> Idle]

-------------------------------------------------------------------------------
(***************************************************************************)
(* The start                                                               *)
(***************************************************************************)

\* The databases that the keys and the default scope name for tenant t.
Wanted(of, t) ==
    {d \in Databases:
        \/ <<t, d>> \in DefaultScopes
        \/ \E k \in Keys: of[k] # NoValue /\ of[k].tenant = t /\ of[k].database = d}

\* Seeded fault: a key of all tenants asks for each of them.
WantedTenantsOfStar(of) ==
    {t \in Tenants: \E k \in Keys: of[k] # NoValue /\ of[k].tenant \in {t, Star}}

WantedTenants(of) == {t \in Tenants: Wanted(of, t) # {}}

HasKeys == \E k \in Keys: keys[k] # NoValue
HasTenants == \E t \in Tenants: tenants[t] # NoValue

\* Seeded fault: the configured keys are applied at every start.
StoreBootKeysAgain ==
    /\ server = "down"
    /\ keys' = [k \in Keys |-> IF k \in DOMAIN BootKeys THEN BootKeys[k] ELSE keys[k]]
    /\ todo' = WantedTenants(keys')
    /\ server' = "filling"
    /\ UNCHANGED <<tenants, served, mutex, scopes, req>>

\* The first start of all: no key is stored.
StoreBootKeys ==
    /\ server = "down" /\ ~HasKeys
    /\ keys' = [k \in Keys |-> IF k \in DOMAIN BootKeys THEN BootKeys[k] ELSE NoValue]
    /\ todo' = WantedTenants(keys')
    /\ server' = "filling"
    /\ UNCHANGED <<tenants, served, mutex, scopes, req>>

RebuildTenants ==
    /\ server = "down" /\ HasKeys /\ ~HasTenants
    /\ todo' = WantedTenants(keys)
    /\ server' = "filling"
    /\ UNCHANGED <<stored, served, mutex, scopes, req>>

\* Stored state is authoritative: nothing is written.
KeepState ==
    /\ server = "down" /\ HasKeys /\ HasTenants
    /\ server' = "serving"
    /\ served' = TRUE
    /\ UNCHANGED <<stored, todo, mutex, scopes, req>>

Filled(t) ==
    IF tenants[t] = NoValue
      THEN NewTenant(Wanted(keys, t))
      ELSE [tenants[t] EXCEPT !.databases = @ \cup Wanted(keys, t)]

FillTenant(t) ==
    /\ server = "filling"
    /\ t \in todo
    /\ tenants' = [tenants EXCEPT ![t] = Filled(t)]
    /\ todo' = todo \ {t}
    /\ UNCHANGED <<keys, server, served, mutex, scopes, req>>

Serve ==
    /\ server = "filling" /\ todo = {}
    /\ server' = "serving"
    /\ served' = TRUE
    /\ UNCHANGED <<stored, todo, mutex, scopes, req>>

\* The process ends: what it kept in memory is gone.
Crash ==
    /\ server # "down"
    /\ server' = "down"
    /\ todo' = {}
    /\ mutex' = NoValue
    /\ scopes' = {}
    /\ req' = [h \in Handlers |-> Idle]
    /\ UNCHANGED <<stored, served>>

\* Seeded fault: a refresh adds scopes and removes none.
RefreshScopesByAdding ==
    /\ server = "serving"
    /\ scopes' = scopes \cup EnabledScopes(tenants)
    /\ UNCHANGED <<stored, server, todo, served, mutex, req>>

\* runDispatcher's refreshScopes: at its start and every five seconds.
RefreshScopes ==
    /\ server = "serving"
    /\ scopes' = EnabledScopes(tenants)
    /\ UNCHANGED <<stored, server, todo, served, mutex, req>>

-------------------------------------------------------------------------------
(***************************************************************************)
(* A request                                                               *)
(***************************************************************************)

At(h, step) == req[h].step = step
Call(h) == req[h].call

GoTo(h, step) == req' = [req EXCEPT ![h].step = step]

\* All but the requests' own state.
elsewhere == <<stored, server, todo, served, mutex, scopes>>

\* FindByDigest reads the key of the secret ...
FindKey(h, k) ==
    /\ server = "serving"
    /\ At(h, "idle")
    /\ keys[k] # NoValue
    /\ keys[k].enabled
    /\ req' = [req EXCEPT ![h].by = keys[k],
                          ![h].step = IF keys[k].tenant = Star THEN "route" ELSE "tenant"]
    /\ UNCHANGED elsewhere

\* ... and then the tenant of the key.
FindTenant(h) ==
    /\ At(h, "tenant")
    /\ ScopeFits(tenants, req[h].by.tenant, req[h].by.database)
    /\ GoTo(h, "route")
    /\ UNCHANGED elsewhere

\* The routes decide with the key as it was read.
AllowedData(key, call) ==
    LET routes == IF call.op = "objects" THEN ObjectRoutes ELSE RuleRoutes IN
    Authorized(key, call.tenant, call.database, routes[call.route])

AllowedTenantCollection(key) == AuthorizedGlobal(key, "tenants:admin")

AllowedTenantMember(key, t) ==
    tenants[t] # NoValue /\ AuthorizedGlobal(key, "tenants:admin")

AllowedKeyCollection(key, call) == AuthorizesKeyScope(key, call.tenant, call.database)

AllowedKeyMember(key, k) ==
    keys[k] # NoValue /\ AuthorizesKeyScope(key, keys[k].tenant, keys[k].database)

Allowed(key, call) ==
    CASE call.op \in {"objects", "rules"} -> AllowedData(key, call)
      [] call.op = "newTenant" -> AllowedTenantCollection(key)
      [] call.op = "setTenant" -> AllowedTenantMember(key, call.tenant)
      [] call.op = "newKey" -> AllowedKeyCollection(key, call)
      [] OTHER -> AllowedKeyMember(key, call.key)

\* Calls about data go on to Core and to the sync rules (SyncRules).
ForwardData(h, call) ==
    /\ At(h, "route")
    /\ call.op \in {"objects", "rules"}
    /\ Allowed(req[h].by, call)
    /\ req' = [req EXCEPT ![h] = Idle]
    /\ UNCHANGED elsewhere

Route(h, call) ==
    /\ At(h, "route")
    /\ call.op \notin {"objects", "rules"}
    /\ Allowed(req[h].by, call)
    /\ req' = [req EXCEPT ![h] = [Idle EXCEPT !.step = "lock", !.call = call]]
    /\ UNCHANGED elsewhere

\* Seeded fault: the operations run without the mutex.
LockNothing(h) ==
    /\ At(h, "lock")
    /\ mutex' = mutex
    /\ GoTo(h, CASE Call(h).op = "newTenant" -> "put" [] Call(h).op = "newKey" -> "scope"
                 [] OTHER -> "read")
    /\ UNCHANGED <<stored, server, todo, served, scopes>>

Lock(h) ==
    /\ At(h, "lock")
    /\ mutex = NoValue
    /\ mutex' = h
    /\ GoTo(h, CASE Call(h).op = "newTenant" -> "put" [] Call(h).op = "newKey" -> "scope"
                 [] OTHER -> "read")
    /\ UNCHANGED <<stored, server, todo, served, scopes>>

\* Seeded fault: only a revocation is taken for the end of a root key.
AfterScopeOfRevocation(call, old) ==
    IF call.op = "setKey" /\ IsRoot(old) /\ call.enabled = FALSE THEN "root" ELSE "put"

\* UpdateKey may end the last root key: only then are the other keys listed.
AfterScope(call, old) ==
    IF /\ call.op = "setKey"
       /\ IsRoot(old)
       /\ ~IsRoot(ChangedKey(old, call.actions, call.enabled))
      THEN "root"
      ELSE "put"

ReadTenant(h) ==
    /\ At(h, "read") /\ Call(h).op = "setTenant"
    /\ tenants[Call(h).tenant] # NoValue
    /\ req' = [req EXCEPT ![h].old = tenants[Call(h).tenant], ![h].step = "put"]
    /\ UNCHANGED elsewhere

\* A rotation, and an update that enables, check the scope of the key next.
ReadKey(h) ==
    /\ At(h, "read") /\ Call(h).op \in {"setKey", "rotate"}
    /\ LET old == keys[Call(h).key] IN
        /\ old # NoValue
        /\ Call(h).op = "rotate" => old.enabled
        /\ req' = [req EXCEPT ![h].old = old,
                              ![h].step = IF Call(h).op = "rotate" \/ Call(h).enabled = TRUE
                                            THEN "scope" ELSE AfterScope(Call(h), old)]
    /\ UNCHANGED elsewhere

\* validateScope
CheckScope(h) ==
    /\ At(h, "scope")
    /\ LET key == IF Call(h).op = "newKey" THEN Call(h) ELSE req[h].old IN
        ScopeFits(tenants, key.tenant, key.database)
    /\ GoTo(h, AfterScope(Call(h), req[h].old))
    /\ UNCHANGED elsewhere

\* ensureAnotherRoot
CheckRoot(h) ==
    /\ At(h, "root")
    /\ AnotherRoot(keys, Call(h).key)
    /\ GoTo(h, "put")
    /\ UNCHANGED elsewhere

\* Every return unlocks.
Leave(h) ==
    /\ req' = [req EXCEPT ![h] = Idle]
    /\ mutex' = IF mutex = h THEN NoValue ELSE mutex
    /\ UNCHANGED <<server, todo, served, scopes>>

PutTenant(h) ==
    /\ At(h, "put")
    /\ LET call == Call(h)
           t == call.tenant IN
        \/ /\ call.op = "newTenant"
           /\ tenants[t] = NoValue
           /\ tenants' = [tenants EXCEPT ![t] = NewTenant(call.databases)]
        \/ /\ call.op = "setTenant"
           /\ tenants[t] = req[h].old           \* the version that was read
           /\ tenants' = [tenants EXCEPT ![t] = ChangedTenant(@, call.databases, call.enabled)]
    /\ keys' = keys
    /\ Leave(h)

\* newKey draws the key of no stored record.
PutKey(h) ==
    /\ At(h, "put")
    /\ LET call == Call(h) IN
        \/ /\ call.op = "newKey"
           /\ \E new \in Keys:
                /\ keys[new] = NoValue
                /\ keys' = [keys EXCEPT ![new] = NewKey(call.tenant, call.database, call.actions)]
        \/ /\ call.op = "setKey"
           /\ keys[call.key] = req[h].old       \* the version that was read
           /\ keys' = [keys EXCEPT ![call.key] = ChangedKey(@, call.actions, call.enabled)]
        \/ /\ call.op = "rotate"
           /\ keys[call.key] = req[h].old
           /\ \E new \in Keys:
                /\ keys[new] = NoValue
                /\ keys' = [keys EXCEPT ![call.key].enabled = FALSE, ![new] = req[h].old]
    /\ tenants' = tenants
    /\ Leave(h)

\* Seeded fault: an early return does not unlock.
EndLocked(h) ==
    /\ req[h].step \notin {"idle", "lock"}
    /\ req' = [req EXCEPT ![h] = Idle]
    /\ UNCHANGED elsewhere

\* The request is refused, or one of its store calls fails or loses a conflict.
\* Nothing ends the wait for the mutex.
End(h) ==
    /\ req[h].step \notin {"idle", "lock"}
    /\ Leave(h)
    /\ UNCHANGED stored

-------------------------------------------------------------------------------

Advance(h) ==
    \/ FindTenant(h)
    \/ \E call \in Calls: ForwardData(h, call) \/ Route(h, call)
    \/ Lock(h)
    \/ ReadTenant(h) \/ ReadKey(h)
    \/ CheckScope(h) \/ CheckRoot(h)
    \/ PutTenant(h) \/ PutKey(h)
    \/ End(h)

Next ==
    \/ StoreBootKeys \/ RebuildTenants \/ KeepState
    \/ \E t \in Tenants: FillTenant(t)
    \/ Serve
    \/ Crash
    \/ RefreshScopes
    \/ \E h \in Handlers, k \in Keys: FindKey(h, k)
    \/ \E h \in Handlers: Advance(h)

Spec == Init /\ [][Next]_vars

\* The ticker of runDispatcher fires every five seconds.
FairSpec == Spec /\ WF_vars(RefreshScopes)

-------------------------------------------------------------------------------
(***************************************************************************)
(* Properties                                                              *)
(***************************************************************************)

\* Once there is a root key there is always one, whatever is updated, revoked
\* and rotated at the same time (ensureAnotherRoot).
RootRemains ==
    [][(\E k \in Keys: IsRoot(keys[k])) => (\E k \in Keys: IsRoot(keys'[k]))]_vars

\* The operations are what the registry promises: each takes effect in one step
\* in which its conditions hold, although they were checked some store calls
\* before, and a rotation has no moment with both keys or with neither.
Registry == INSTANCE KeyRegistry WITH settled <- served
ImplementsRegistry == Registry!Spec

\* The mutex is with the one operation that makes store calls, if there is one:
\* no return keeps it and no crash leaves it behind.
MutexIsHeldInside ==
    \A h \in Handlers: req[h].step \in Inside <=> mutex = h

\* The dispatcher's scopes catch up: it does not go on polling for a tenant that
\* stays disabled or has lost the database, nor leave out one that stays enabled.
ScopesCatchUp ==
    \A s \in Tenants \X Databases:
        /\ <>[](server = "serving" /\ s \notin EnabledScopes(tenants)) => <>[](s \notin scopes)
        /\ <>[](server = "serving" /\ s \in EnabledScopes(tenants)) => <>[](s \in scopes)

\* Once the server has served, its starts change no key and no tenant: what the
\* console did since is not overwritten, wherever a crash came.
StartKeepsStored ==
    [][served /\ server # "serving" => UNCHANGED stored]_vars

\* "Stored control state is authoritative after the first successful start": once
\* the server first serves, every stored key finds its tenant.
FirstStartIsComplete ==
    [][~served /\ served' =>
        \A k \in Keys: keys[k] # NoValue /\ keys[k].tenant # Star => tenants[keys[k].tenant] # NoValue
      ]_vars

===============================================================================
