-------------------------- MODULE AccessControlProofs --------------------------
(***************************************************************************)
(* Theorems about AccessControl, for any numbers of handlers, keys,        *)
(* tenants and databases and any configured keys.                          *)
(*                                                                         *)
(* An operation writes a record that it has read, and relies on checks     *)
(* that it has made, some store calls before.  The invariant says that     *)
(* what it has established still holds: nothing else writes while it has   *)
(* the mutex, and a start is over before the first request comes.          *)
(***************************************************************************)
EXTENDS AccessControl, TLAPS

KeyOps == {"newKey", "setKey", "rotate"}
TenantOps == {"newTenant", "setTenant"}

\* What the request's call and principal are at each step.
HasCall(h) ==
    /\ req[h].step \in {"tenant", "route"} => req[h].by \in Key
    /\ req[h].step \in {"lock"} \cup Inside =>
          Call(h) \in Calls /\ Call(h).op \in KeyOps \cup TenantOps
    /\ req[h].step = "read" => Call(h).op \in {"setTenant", "setKey", "rotate"}
    /\ req[h].step = "scope" => Call(h).op \in KeyOps
    /\ req[h].step = "root" => Call(h).op = "setKey"

\* The record that was read is still the stored one.
HasRead(h) ==
    /\ (req[h].step \in {"scope", "root", "put"} /\ Call(h).op \in {"setKey", "rotate"}) =>
          req[h].old \in Key /\ req[h].old = keys[Call(h).key]
    /\ (req[h].step = "put" /\ Call(h).op = "setTenant") =>
          req[h].old \in Tenant /\ req[h].old = tenants[Call(h).tenant]
    /\ (req[h].step \in {"scope", "put"} /\ Call(h).op = "rotate") => req[h].old.enabled

\* The scope and the other root key are still there.
HasChecked(h) ==
    /\ (req[h].step \in {"root", "put"} /\ Call(h).op = "setKey" /\ Call(h).enabled = TRUE) =>
          ScopeFits(tenants, req[h].old.tenant, req[h].old.database)
    /\ (req[h].step = "put" /\ Call(h).op = "rotate") =>
          ScopeFits(tenants, req[h].old.tenant, req[h].old.database)
    /\ (req[h].step = "put" /\ Call(h).op = "newKey") =>
          ScopeFits(tenants, Call(h).tenant, Call(h).database)
    /\ (req[h].step = "put" /\ Call(h).op = "setKey" /\ IsRoot(req[h].old)
            /\ ~IsRoot(ChangedKey(req[h].old, Call(h).actions, Call(h).enabled))) =>
          AnotherRoot(keys, Call(h).key)

Sound(h) == HasCall(h) /\ HasRead(h) /\ HasChecked(h)

\* A start writes tenants that are not there, only before the server first serves,
\* and requests come only while it serves.
StartIsFirst ==
    /\ server = "serving" => served
    /\ server # "serving" => \A h \in Handlers: req[h].step = "idle"
    /\ server = "filling" => HasKeys /\ \A t \in todo: tenants[t] = NoValue
    /\ server = "filling" => todo \subseteq WantedTenants(keys)
    /\ (server = "filling" /\ served) => todo = {}
    /\ (server = "filling" /\ WantedTenants(keys) # {}) => todo # {} \/ HasTenants
    /\ ~HasKeys => ~HasTenants /\ ~served
    /\ (served /\ WantedTenants(keys) # {}) => HasTenants

IInv ==
    /\ TypeOK
    /\ MutexIsHeldInside
    /\ \A h \in Handlers: Sound(h)
    /\ StartIsFirst

-------------------------------------------------------------------------------
(***************************************************************************)
(* The operators                                                           *)
(***************************************************************************)

\* What the fields of a call are.
LEMMA CallFields ==
    ASSUME NEW call \in Calls
    PROVE  /\ call.op \in TenantOps => call.tenant \in Tenants
           /\ call.op = "newTenant" => call.databases \in TenantSets
           /\ call.op = "setTenant" =>
                call.databases \in {NoValue} \cup TenantSets /\ call.enabled \in BOOLEAN \cup {NoValue}
           /\ call.op = "newKey" =>
                /\ call.tenant \in Tenants \cup {Star}
                /\ call.database \in Databases \cup {Star}
                /\ call.actions \in Grants
           /\ call.op = "setKey" =>
                /\ call.key \in Keys
                /\ call.actions \in {NoValue} \cup Grants
                /\ call.enabled \in BOOLEAN \cup {NoValue}
           /\ call.op = "rotate" => call.key \in Keys
    <1>1. call \in AllCalls
        BY AccessAssumption
    <1> QED BY <1>1 DEF AllCalls, TenantOps

\* A changed key is a key of the same scope.
LEMMA ChangedKeyType ==
    ASSUME NEW old \in Key, NEW actions \in {NoValue} \cup Grants,
           NEW enabled \in BOOLEAN \cup {NoValue}
    PROVE  /\ ChangedKey(old, actions, enabled) \in Key
           /\ ChangedKey(old, actions, enabled).tenant = old.tenant
           /\ ChangedKey(old, actions, enabled).database = old.database
    <1>1. Given(actions, old.actions) \in Grants
        BY DEF Given, Key
    <1>2. Given(enabled, old.enabled) \in BOOLEAN
        BY DEF Given, Key
    <1> QED BY <1>1, <1>2 DEF ChangedKey, Key

\* A changed tenant is a tenant.
LEMMA ChangedTenantType ==
    ASSUME NEW old \in Tenant, NEW databases \in {NoValue} \cup TenantSets,
           NEW enabled \in BOOLEAN \cup {NoValue}
    PROVE  ChangedTenant(old, databases, enabled) \in Tenant
    <1>1. Given(databases, old.databases) \in TenantSets
        BY DEF Given, Tenant, TenantSets
    <1>2. Given(enabled, old.enabled) \in BOOLEAN
        BY DEF Given, Tenant
    <1> QED BY <1>1, <1>2 DEF ChangedTenant, Tenant, TenantSets

\* The missing record is neither a key nor a tenant.
LEMMA NoValueIsNone == NoValue \notin Key /\ NoValue \notin Tenant /\ NoValue \notin Handlers
    BY AccessAssumption

\* A configured key is a key.
LEMMA BootKeyIsKey ==
    /\ \A k \in DOMAIN BootKeys: BootKeys[k] \in Key
    /\ \E k \in Keys: k \in DOMAIN BootKeys
    BY AccessAssumption DEF BootKey

-------------------------------------------------------------------------------
(***************************************************************************)
(* Types                                                                   *)
(***************************************************************************)

\* A step of one request that writes nothing keeps the types.
LEMMA RequestType ==
    ASSUME TypeOK, NEW h \in Handlers, NEW r \in Request, req' = [req EXCEPT ![h] = r]
    PROVE  req' \in [Handlers -> Request]
    BY DEF TypeOK

LEMMA IdleType == Idle \in Request
    BY DEF Idle, Request, Steps, Inside

LEMMA GoToType ==
    ASSUME TypeOK, NEW h \in Handlers, NEW step \in Steps, GoTo(h, step)
    PROVE  req' \in [Handlers -> Request]
    BY DEF TypeOK, GoTo, Request

\* Leaving keeps the types of all but the records.
LEMMA LeaveType ==
    ASSUME TypeOK, NEW h \in Handlers, Leave(h),
           keys' \in [Keys -> Key \cup {NoValue}], tenants' \in [Tenants -> Tenant \cup {NoValue}]
    PROVE  TypeOK'
    BY IdleType DEF TypeOK, Leave

LEMMA TypeInit == Init => TypeOK
    BY IdleType DEF Init, TypeOK

LEMMA TypeStart ==
    ASSUME TypeOK
    PROVE  /\ StoreBootKeys => TypeOK'
           /\ RebuildTenants => TypeOK'
           /\ KeepState => TypeOK'
           /\ Serve => TypeOK'
           /\ Crash => TypeOK'
           /\ RefreshScopes => TypeOK'
    <1>1. ASSUME StoreBootKeys PROVE TypeOK'
        BY <1>1, BootKeyIsKey DEF StoreBootKeys, TypeOK, WantedTenants
    <1>2. ASSUME RebuildTenants PROVE TypeOK'
        BY <1>2 DEF RebuildTenants, TypeOK, WantedTenants, stored
    <1>3. ASSUME KeepState PROVE TypeOK'
        BY <1>3 DEF KeepState, TypeOK, stored
    <1>4. ASSUME Serve PROVE TypeOK'
        BY <1>4 DEF Serve, TypeOK, stored
    <1>5. ASSUME Crash PROVE TypeOK'
        BY <1>5, IdleType DEF Crash, TypeOK, stored
    <1>6. ASSUME RefreshScopes PROVE TypeOK'
        BY <1>6 DEF RefreshScopes, TypeOK, stored, EnabledScopes
    <1> QED BY <1>1, <1>2, <1>3, <1>4, <1>5, <1>6

LEMMA TypeFill ==
    ASSUME TypeOK, NEW t \in Tenants, tenants[t] = NoValue, Wanted(keys, t) # {}, FillTenant(t)
    PROVE  TypeOK'
    <1>1. Filled(t) \in Tenant
        BY DEF Filled, NewTenant, Tenant, Wanted
    <1> QED BY <1>1 DEF FillTenant, TypeOK

LEMMA TypeRequest ==
    ASSUME IInv, NEW h \in Handlers
    PROVE  /\ \A k \in Keys: FindKey(h, k) => TypeOK'
           /\ FindTenant(h) => TypeOK'
           /\ \A call \in Calls: ForwardData(h, call) \/ Route(h, call) => TypeOK'
           /\ Lock(h) => TypeOK'
           /\ ReadTenant(h) => TypeOK'
           /\ ReadKey(h) => TypeOK'
           /\ CheckScope(h) => TypeOK'
           /\ CheckRoot(h) => TypeOK'
           /\ End(h) => TypeOK'
    <1> USE DEF IInv
    <1>1. ASSUME NEW k \in Keys, FindKey(h, k) PROVE TypeOK'
        <2>1. keys[k] \in Key
            BY <1>1 DEF FindKey, TypeOK
        <2> DEFINE step == IF keys[k].tenant = Star THEN "route" ELSE "tenant"
        <2>2. step \in Steps
            BY DEF Steps
        <2> HIDE DEF step
        <2>3. req' = [req EXCEPT ![h].by = keys[k], ![h].step = step]
            BY <1>1 DEF FindKey, step
        <2>4. req' \in [Handlers -> Request]
            BY <2>1, <2>2, <2>3 DEF TypeOK, Request
        <2> QED BY <1>1, <2>4 DEF FindKey, TypeOK, elsewhere, stored
    <1>2. ASSUME FindTenant(h) PROVE TypeOK'
        BY <1>2, GoToType DEF FindTenant, TypeOK, elsewhere, stored, Steps
    <1>3. ASSUME NEW call \in Calls, ForwardData(h, call) PROVE TypeOK'
        BY <1>3, IdleType, RequestType DEF ForwardData, TypeOK, elsewhere, stored
    <1>4. ASSUME NEW call \in Calls, Route(h, call) PROVE TypeOK'
        <2>1. [Idle EXCEPT !.step = "lock", !.call = call] \in Request
            BY <1>4 DEF Idle, Request, Steps, Inside
        <2> QED BY <1>4, <2>1, RequestType DEF Route, TypeOK, elsewhere, stored
    <1>5. ASSUME Lock(h) PROVE TypeOK'
        <2>1. PICK step \in {"put", "scope", "read"}: GoTo(h, step)
            BY <1>5 DEF Lock
        <2>2. req' \in [Handlers -> Request]
            BY <2>1, GoToType DEF Steps, Inside
        <2> QED BY <1>5, <2>2 DEF Lock, TypeOK, stored
    <1>6. ASSUME ReadTenant(h) PROVE TypeOK'
        <2>1. Call(h) \in Calls /\ Call(h).op = "setTenant"
            BY <1>6 DEF ReadTenant, At, Sound, HasCall, Inside
        <2>2. tenants[Call(h).tenant] \in Tenant
            BY <1>6, <2>1, CallFields DEF ReadTenant, TypeOK, TenantOps
        <2>3. req' = [req EXCEPT ![h].old = tenants[Call(h).tenant], ![h].step = "put"]
            BY <1>6 DEF ReadTenant
        <2>4. req' \in [Handlers -> Request]
            <3>1. req = [x \in Handlers |-> req[x]] /\ req[h] \in Request
                BY DEF TypeOK
            <3>2. [req[h] EXCEPT !.old = tenants[Call(h).tenant], !.step = "put"] \in Request
                BY <2>2, <3>1 DEF Request, Steps, Inside
            <3>3. req' = [req EXCEPT ![h] = [req[h] EXCEPT !.old = tenants[Call(h).tenant], !.step = "put"]]
                BY <2>3, <3>1
            <3> QED BY <3>2, <3>3, RequestType
        <2> QED BY <1>6, <2>4 DEF ReadTenant, TypeOK, elsewhere, stored
    <1>7. ASSUME ReadKey(h) PROVE TypeOK'
        <2>1. Call(h) \in Calls /\ Call(h).op \in {"setKey", "rotate"}
            BY <1>7 DEF ReadKey, At, Sound, HasCall, Inside
        <2> DEFINE old == keys[Call(h).key]
                   step == IF Call(h).op = "rotate" \/ Call(h).enabled = TRUE
                             THEN "scope" ELSE AfterScope(Call(h), old)
        <2>2. old \in Key
            BY <1>7, <2>1, CallFields DEF ReadKey, TypeOK
        <2>3. step \in Steps
            BY DEF Steps, Inside, AfterScope
        <2>4. req' = [req EXCEPT ![h].old = old, ![h].step = step]
            BY <1>7 DEF ReadKey
        <2> HIDE DEF old, step
        <2>5. req' \in [Handlers -> Request]
            BY <2>2, <2>3, <2>4 DEF TypeOK, Request
        <2> QED BY <1>7, <2>5 DEF ReadKey, TypeOK, elsewhere, stored
    <1>8. ASSUME CheckScope(h) PROVE TypeOK'
        <2>1. AfterScope(Call(h), req[h].old) \in Steps
            BY DEF Steps, Inside, AfterScope
        <2> QED BY <1>8, <2>1, GoToType DEF CheckScope, TypeOK, elsewhere, stored
    <1>9. ASSUME CheckRoot(h) PROVE TypeOK'
        BY <1>9, GoToType DEF CheckRoot, TypeOK, elsewhere, stored, Steps, Inside
    <1>10. ASSUME End(h) PROVE TypeOK'
        BY <1>10, LeaveType DEF End, TypeOK, stored
    <1> QED BY <1>1, <1>2, <1>3, <1>4, <1>5, <1>6, <1>7, <1>8, <1>9, <1>10

LEMMA TypePut ==
    ASSUME IInv, NEW h \in Handlers
    PROVE  /\ PutTenant(h) => TypeOK'
           /\ PutKey(h) => TypeOK'
    <1> USE DEF IInv
    <1>1. ASSUME PutTenant(h) PROVE TypeOK'
        <2>1. Call(h) \in Calls
            BY <1>1 DEF PutTenant, At, Sound, HasCall, Inside
        <2>2. CASE Call(h).op = "newTenant"
            <3>1. NewTenant(Call(h).databases) \in Tenant
                BY <2>1, <2>2, CallFields DEF NewTenant, Tenant, TenantSets
            <3>2. tenants' = [tenants EXCEPT ![Call(h).tenant] = NewTenant(Call(h).databases)]
                BY <1>1, <2>2 DEF PutTenant
            <3>3. tenants' \in [Tenants -> Tenant \cup {NoValue}]
                BY <3>1, <3>2 DEF TypeOK
            <3> QED BY <1>1, <3>3, LeaveType DEF PutTenant, TypeOK
        <2>3. CASE Call(h).op = "setTenant"
            <3> DEFINE t == Call(h).tenant
                       new == ChangedTenant(tenants[t], Call(h).databases, Call(h).enabled)
            <3>1. tenants[t] \in Tenant
                BY <1>1, <2>3 DEF PutTenant, At, Sound, HasRead
            <3>2. new \in Tenant
                BY <2>1, <2>3, <3>1, CallFields, ChangedTenantType
            <3>3. tenants' = [tenants EXCEPT ![t] = new]
                BY <1>1, <2>3 DEF PutTenant
            <3> HIDE DEF new
            <3>4. tenants' \in [Tenants -> Tenant \cup {NoValue}]
                BY <3>2, <3>3 DEF TypeOK
            <3> QED BY <1>1, <3>4, LeaveType DEF PutTenant, TypeOK
        <2> QED BY <1>1, <2>2, <2>3 DEF PutTenant
    <1>2. ASSUME PutKey(h) PROVE TypeOK'
        <2>1. Call(h) \in Calls
            BY <1>2 DEF PutKey, At, Sound, HasCall, Inside
        <2>2. keys' \in [Keys -> Key \cup {NoValue}]
            <3>1. CASE Call(h).op = "newKey"
                <4> DEFINE key == NewKey(Call(h).tenant, Call(h).database, Call(h).actions)
                <4>1. key \in Key
                    BY <2>1, <3>1, CallFields DEF NewKey, Key
                <4>2. PICK new \in Keys: keys' = [keys EXCEPT ![new] = key]
                    BY <1>2, <3>1 DEF PutKey
                <4> HIDE DEF key
                <4> QED BY <4>1, <4>2 DEF TypeOK
            <3>2. CASE Call(h).op = "setKey"
                <4> DEFINE k == Call(h).key
                           key == ChangedKey(keys[k], Call(h).actions, Call(h).enabled)
                <4>1. keys[k] \in Key
                    BY <1>2, <3>2 DEF PutKey, At, Sound, HasRead
                <4>2. key \in Key
                    BY <2>1, <3>2, <4>1, CallFields, ChangedKeyType
                <4>3. keys' = [keys EXCEPT ![k] = key]
                    BY <1>2, <3>2 DEF PutKey
                <4> HIDE DEF key
                <4> QED BY <4>2, <4>3 DEF TypeOK
            <3>3. CASE Call(h).op = "rotate"
                <4> DEFINE k == Call(h).key
                <4>1. req[h].old \in Key /\ keys[k] \in Key
                    BY <1>2, <3>3 DEF PutKey, At, Sound, HasRead
                <4>2. PICK new \in Keys:
                        keys' = [keys EXCEPT ![k].enabled = FALSE, ![new] = req[h].old]
                    BY <1>2, <3>3 DEF PutKey
                <4>3. [keys[k] EXCEPT !.enabled = FALSE] \in Key
                    BY <4>1 DEF Key
                <4>4. keys' = [[keys EXCEPT ![k] = [keys[k] EXCEPT !.enabled = FALSE]]
                                 EXCEPT ![new] = req[h].old]
                    BY <4>2
                <4> QED BY <4>1, <4>3, <4>4 DEF TypeOK
            <3> QED BY <1>2, <3>1, <3>2, <3>3 DEF PutKey
        <2> QED BY <1>2, <2>2, LeaveType DEF PutKey, TypeOK
    <1> QED BY <1>1, <1>2

LEMMA TypeNext ==
    ASSUME IInv, [Next]_vars
    PROVE  TypeOK'
    <1>1. CASE StoreBootKeys \/ RebuildTenants \/ KeepState \/ Serve \/ Crash \/ RefreshScopes
        BY <1>1, TypeStart DEF IInv
    <1>2. ASSUME NEW t \in Tenants, FillTenant(t) PROVE TypeOK'
        <2>1. tenants[t] = NoValue /\ Wanted(keys, t) # {}
            BY <1>2 DEF FillTenant, IInv, StartIsFirst, WantedTenants
        <2> QED BY <1>2, <2>1, TypeFill DEF IInv
    <1>3. ASSUME NEW h \in Handlers, NEW k \in Keys, FindKey(h, k) PROVE TypeOK'
        BY <1>3, TypeRequest
    <1>4. ASSUME NEW h \in Handlers, Advance(h) PROVE TypeOK'
        BY <1>4, TypeRequest, TypePut DEF Advance
    <1>5. CASE UNCHANGED vars
        BY <1>5 DEF vars, stored, IInv, TypeOK
    <1> QED BY <1>1, <1>2, <1>3, <1>4, <1>5 DEF Next

-------------------------------------------------------------------------------
(***************************************************************************)
(* The mutex                                                               *)
(***************************************************************************)

\* A step of one request inside, or of one outside, that stays where it is.
LEMMA MutexStays ==
    ASSUME IInv, NEW h \in Handlers, mutex' = mutex,
           \A o \in Handlers: req'[o].step \in Inside <=> req[o].step \in Inside
    PROVE  MutexIsHeldInside'
    BY DEF IInv, MutexIsHeldInside

LEMMA MutexLeave ==
    ASSUME IInv, NEW h \in Handlers, Leave(h)
    PROVE  MutexIsHeldInside'
    <1>1. \A o \in Handlers: req'[o] = IF o = h THEN Idle ELSE req[o]
        BY DEF IInv, TypeOK, Leave
    <1>2. mutex' = IF mutex = h THEN NoValue ELSE mutex
        BY DEF Leave
    <1> QED BY <1>1, <1>2, NoValueIsNone DEF IInv, MutexIsHeldInside, Idle, Inside

LEMMA MutexNext ==
    ASSUME IInv, [Next]_vars
    PROVE  MutexIsHeldInside'
    <1> USE DEF IInv
    <1>1. CASE StoreBootKeys \/ RebuildTenants \/ KeepState \/ Serve \/ RefreshScopes
        BY <1>1 DEF StoreBootKeys, RebuildTenants, KeepState, Serve, RefreshScopes, MutexIsHeldInside
    <1>2. CASE Crash
        BY <1>2, NoValueIsNone DEF Crash, MutexIsHeldInside, Idle, Inside
    <1>3. ASSUME NEW t \in Tenants, FillTenant(t) PROVE MutexIsHeldInside'
        BY <1>3 DEF FillTenant, MutexIsHeldInside
    <1>4. ASSUME NEW h \in Handlers, NEW k \in Keys, FindKey(h, k) PROVE MutexIsHeldInside'
        BY <1>4, MutexStays DEF FindKey, At, elsewhere, TypeOK, Request, Inside
    <1>5. ASSUME NEW h \in Handlers, Advance(h) PROVE MutexIsHeldInside'
        <2>1. CASE FindTenant(h)
            BY <2>1, MutexStays DEF FindTenant, At, GoTo, elsewhere, TypeOK, Request, Inside
        <2>2. ASSUME NEW call \in Calls, ForwardData(h, call) \/ Route(h, call)
              PROVE  MutexIsHeldInside'
            <3>1. req[h].step = "route" /\ mutex' = mutex
                BY <2>2 DEF ForwardData, Route, At, elsewhere
            <3>2. \A o \in Handlers: o # h => req'[o] = req[o]
                BY <2>2 DEF ForwardData, Route, TypeOK
            <3>3. CASE ForwardData(h, call)
                <4>1. req'[h].step = "idle"
                    BY <3>3 DEF ForwardData, TypeOK, Idle
                <4> QED BY <3>1, <3>2, <4>1, MutexStays DEF Inside
            <3>4. CASE Route(h, call)
                <4>1. req'[h] = [Idle EXCEPT !.step = "lock", !.call = call]
                    BY <3>4 DEF Route, TypeOK
                <4>2. req'[h].step = "lock"
                    BY <4>1 DEF Idle
                <4> QED BY <3>1, <3>2, <4>2, MutexStays DEF Inside
            <3> QED BY <2>2, <3>3, <3>4
        <2>3. CASE Lock(h)
            <3>1. PICK step \in {"put", "scope", "read"}: GoTo(h, step)
                BY <2>3 DEF Lock
            <3>2. \A o \in Handlers: o # h => req'[o] = req[o]
                BY <3>1 DEF GoTo, TypeOK
            <3>3. req'[h].step \in Inside
                BY <3>1 DEF GoTo, TypeOK, Request, Inside
            <3>4. mutex = NoValue /\ mutex' = h
                BY <2>3 DEF Lock
            <3> QED BY <3>2, <3>3, <3>4, NoValueIsNone DEF MutexIsHeldInside
        <2>4. CASE ReadTenant(h)
            BY <2>4, MutexStays DEF ReadTenant, At, elsewhere, TypeOK, Request, Inside
        <2>5. CASE ReadKey(h)
            <3>1. PICK step \in Inside:
                    req' = [req EXCEPT ![h].old = keys[Call(h).key], ![h].step = step]
                BY <2>5 DEF ReadKey, AfterScope, Inside
            <3>2. req[h].step \in Inside /\ mutex' = mutex
                BY <2>5 DEF ReadKey, At, elsewhere, Inside
            <3> QED BY <3>1, <3>2, MutexStays DEF TypeOK, Request
        <2>6. CASE CheckScope(h)
            BY <2>6, MutexStays DEF CheckScope, At, GoTo, elsewhere, TypeOK, Request, Inside, AfterScope
        <2>7. CASE CheckRoot(h)
            BY <2>7, MutexStays DEF CheckRoot, At, GoTo, elsewhere, TypeOK, Request, Inside
        <2>8. CASE PutTenant(h) \/ PutKey(h) \/ End(h)
            BY <2>8, MutexLeave DEF PutTenant, PutKey, End
        <2> QED BY <1>5, <2>1, <2>2, <2>3, <2>4, <2>5, <2>6, <2>7, <2>8 DEF Advance
    <1>6. CASE UNCHANGED vars
        BY <1>6 DEF vars, MutexIsHeldInside
    <1> QED BY <1>1, <1>2, <1>3, <1>4, <1>5, <1>6 DEF Next

-------------------------------------------------------------------------------
(***************************************************************************)
(* What a request has established                                          *)
(***************************************************************************)

\* A request that does nothing has established nothing.
LEMMA IdleIsSound ==
    ASSUME NEW h \in Handlers, req[h].step = "idle"
    PROVE  Sound(h)
    BY DEF Sound, HasCall, HasRead, HasChecked, Inside

\* A step of another request leaves alone what this one has established: it writes
\* only if it has the mutex.
LEMMA SoundOthers ==
    ASSUME IInv, NEW h \in Handlers, NEW o \in Handlers, o # h, req'[o] = req[o],
           (UNCHANGED stored) \/ req[h].step \in Inside
    PROVE  Sound(o)'
    <1>1. CASE UNCHANGED stored
        BY <1>1 DEF IInv, Sound, HasCall, HasRead, HasChecked, Call, stored
    <1>2. CASE req[h].step \in Inside
        <2>1. req[o].step \notin Inside
            BY <1>2 DEF IInv, MutexIsHeldInside
        <2> QED BY <2>1 DEF IInv, Sound, HasCall, HasRead, HasChecked, Call, Inside
    <1> QED BY <1>1, <1>2

LEMMA SoundStart ==
    ASSUME IInv, NEW o \in Handlers,
           \/ StoreBootKeys \/ RebuildTenants \/ KeepState \/ Serve \/ Crash \/ RefreshScopes
           \/ \E t \in Tenants: FillTenant(t)
    PROVE  Sound(o)'
    <1>1. CASE StoreBootKeys \/ RebuildTenants \/ KeepState \/ Serve \/ \E t \in Tenants: FillTenant(t)
        <2>1. req' = req /\ req[o].step = "idle"
            BY <1>1 DEF StoreBootKeys, RebuildTenants, KeepState, Serve, FillTenant, IInv, StartIsFirst
        <2> QED BY <2>1, IdleIsSound DEF Sound, HasCall, HasRead, HasChecked, Inside, Call
    <1>2. CASE Crash
        <2>1. req'[o].step = "idle"
            BY <1>2 DEF Crash, Idle
        <2> QED BY <2>1 DEF Sound, HasCall, HasRead, HasChecked, Inside
    <1>3. CASE RefreshScopes
        BY <1>3 DEF RefreshScopes, IInv, Sound, HasCall, HasRead, HasChecked, Call, stored
    <1> QED BY <1>1, <1>2, <1>3

LEMMA SoundFind ==
    ASSUME IInv, NEW h \in Handlers, NEW k \in Keys, FindKey(h, k)
    PROVE  Sound(h)'
    <1>1. keys[k] \in Key
        BY DEF FindKey, IInv, TypeOK
    <1>2. req'[h].by = keys[k] /\ req'[h].step \in {"tenant", "route"}
        BY DEF FindKey, IInv, TypeOK, Request
    <1> QED BY <1>1, <1>2 DEF Sound, HasCall, HasRead, HasChecked, Inside

LEMMA SoundRoute ==
    ASSUME IInv, NEW h \in Handlers
    PROVE  /\ FindTenant(h) => Sound(h)'
           /\ \A call \in Calls: ForwardData(h, call) \/ Route(h, call) => Sound(h)'
           /\ Lock(h) => Sound(h)'
    <1>1. ASSUME FindTenant(h) PROVE Sound(h)'
        <2>1. req'[h].step = "route" /\ req'[h].by = req[h].by /\ req[h].by \in Key
            BY <1>1 DEF FindTenant, At, GoTo, IInv, TypeOK, Request, Sound, HasCall
        <2> QED BY <2>1 DEF Sound, HasCall, HasRead, HasChecked, Inside
    <1>2. ASSUME NEW call \in Calls, ForwardData(h, call) PROVE Sound(h)'
        <2>1. req'[h].step = "idle"
            BY <1>2 DEF ForwardData, IInv, TypeOK, Idle
        <2> QED BY <2>1 DEF Sound, HasCall, HasRead, HasChecked, Inside
    <1>3. ASSUME NEW call \in Calls, Route(h, call) PROVE Sound(h)'
        <2>1. req'[h] = [Idle EXCEPT !.step = "lock", !.call = call]
            BY <1>3 DEF Route, IInv, TypeOK
        <2>2. req'[h].step = "lock" /\ req'[h].call = call
            BY <2>1 DEF Idle
        <2>3. call.op \in KeyOps \cup TenantOps
            BY <1>3, AccessAssumption DEF AllCalls, Route, KeyOps, TenantOps
        <2> QED BY <2>2, <2>3 DEF Sound, HasCall, HasRead, HasChecked, Inside, Call
    <1>4. ASSUME Lock(h) PROVE Sound(h)'
        <2>1. Call(h) \in Calls /\ Call(h).op \in KeyOps \cup TenantOps
            BY <1>4 DEF Lock, At, IInv, Sound, HasCall
        <2>2. PICK step \in {"put", "scope", "read"}:
                /\ GoTo(h, step)
                /\ (step = "put") <=> (Call(h).op = "newTenant")
                /\ (step = "scope") <=> (Call(h).op = "newKey")
            BY <1>4 DEF Lock
        <2>3. req'[h].step = step /\ req'[h].call = req[h].call
            BY <2>2 DEF GoTo, IInv, TypeOK, Request
        <2> QED BY <2>1, <2>2, <2>3
               DEF Sound, HasCall, HasRead, HasChecked, Inside, Call, KeyOps, TenantOps
    <1> QED BY <1>1, <1>2, <1>3, <1>4

LEMMA SoundRead ==
    ASSUME IInv, NEW h \in Handlers
    PROVE  /\ ReadTenant(h) => Sound(h)'
           /\ ReadKey(h) => Sound(h)'
    <1> USE DEF IInv
    <1>1. ASSUME ReadTenant(h) PROVE Sound(h)'
        <2>1. Call(h) \in Calls /\ Call(h).op = "setTenant"
            BY <1>1 DEF ReadTenant, At, Sound, HasCall, Inside
        <2>2. tenants[Call(h).tenant] \in Tenant
            BY <1>1, <2>1, CallFields DEF ReadTenant, TypeOK, TenantOps
        <2>3. /\ req'[h].step = "put"
              /\ req'[h].old = tenants[Call(h).tenant]
              /\ req'[h].call = req[h].call
            BY <1>1 DEF ReadTenant, TypeOK, Request
        <2>4. tenants' = tenants
            BY <1>1 DEF ReadTenant, elsewhere, stored
        <2> QED BY <2>1, <2>2, <2>3, <2>4
               DEF Sound, HasCall, HasRead, HasChecked, Inside, Call, KeyOps, TenantOps
    <1>2. ASSUME ReadKey(h) PROVE Sound(h)'
        <2> DEFINE old == keys[Call(h).key]
        <2>1. Call(h) \in Calls /\ Call(h).op \in {"setKey", "rotate"}
            BY <1>2 DEF ReadKey, At, Sound, HasCall, Inside
        <2>2. old \in Key /\ (Call(h).op = "rotate" => old.enabled)
            BY <1>2, <2>1, CallFields DEF ReadKey, TypeOK
        <2>3. PICK step \in {"scope", "root", "put"}:
                /\ req' = [req EXCEPT ![h].old = old, ![h].step = step]
                /\ step = IF Call(h).op = "rotate" \/ Call(h).enabled = TRUE
                            THEN "scope" ELSE AfterScope(Call(h), old)
            BY <1>2 DEF ReadKey, AfterScope
        <2>4. req'[h].step = step /\ req'[h].old = old /\ req'[h].call = req[h].call
            BY <2>3 DEF TypeOK, Request
        <2>5. UNCHANGED stored
            BY <1>2 DEF ReadKey, elsewhere
        <2>6. HasCall(h)'
            BY <2>1, <2>3, <2>4 DEF HasCall, Call, KeyOps, Inside, AfterScope
        <2>7. HasRead(h)'
            BY <2>1, <2>2, <2>4, <2>5 DEF HasRead, Call, stored
        <2>8. HasChecked(h)'
            BY <2>1, <2>3, <2>4, <2>5 DEF HasChecked, Call, stored, AfterScope
        <2> QED BY <2>6, <2>7, <2>8 DEF Sound
    <1> QED BY <1>1, <1>2

LEMMA SoundCheck ==
    ASSUME IInv, NEW h \in Handlers
    PROVE  /\ CheckScope(h) => Sound(h)'
           /\ CheckRoot(h) => Sound(h)'
    <1> USE DEF IInv
    <1>1. ASSUME CheckScope(h) PROVE Sound(h)'
        <2>1. Call(h) \in Calls /\ Call(h).op \in KeyOps
            BY <1>1 DEF CheckScope, At, Sound, HasCall, Inside
        <2>2. PICK step \in {"root", "put"}:
                GoTo(h, step) /\ step = AfterScope(Call(h), req[h].old)
            BY <1>1 DEF CheckScope, AfterScope
        <2>3. req'[h].step = step /\ req'[h].old = req[h].old /\ req'[h].call = req[h].call
            BY <2>2 DEF GoTo, TypeOK, Request
        <2>4. UNCHANGED stored
            BY <1>1 DEF CheckScope, elsewhere
        <2>5. HasCall(h)'
            BY <2>1, <2>2, <2>3 DEF HasCall, Call, KeyOps, Inside, AfterScope
        <2>6. HasRead(h)'
            BY <1>1, <2>1, <2>3, <2>4 DEF CheckScope, At, Sound, HasRead, Call, stored, KeyOps
        <2>7. IF Call(h).op = "newKey"
                THEN ScopeFits(tenants, Call(h).tenant, Call(h).database)
                ELSE ScopeFits(tenants, req[h].old.tenant, req[h].old.database)
            BY <1>1 DEF CheckScope
        <2>8. HasChecked(h)'
            BY <2>1, <2>2, <2>3, <2>4, <2>7 DEF HasChecked, Call, stored, AfterScope
        <2> QED BY <2>5, <2>6, <2>8 DEF Sound
    <1>2. ASSUME CheckRoot(h) PROVE Sound(h)'
        <2>1. Call(h) \in Calls /\ Call(h).op = "setKey"
            BY <1>2 DEF CheckRoot, At, Sound, HasCall, Inside
        <2>2. req'[h].step = "put" /\ req'[h].old = req[h].old /\ req'[h].call = req[h].call
            BY <1>2 DEF CheckRoot, GoTo, TypeOK, Request
        <2>3. UNCHANGED stored
            BY <1>2 DEF CheckRoot, elsewhere
        <2>4. HasCall(h)' /\ HasRead(h)'
            BY <1>2, <2>1, <2>2, <2>3
               DEF CheckRoot, At, Sound, HasCall, HasRead, Call, stored, KeyOps, Inside
        <2>5. HasChecked(h)'
            BY <1>2, <2>1, <2>2, <2>3 DEF CheckRoot, At, Sound, HasChecked, Call, stored
        <2> QED BY <2>4, <2>5 DEF Sound
    <1> QED BY <1>1, <1>2

LEMMA SoundLeave ==
    ASSUME IInv, NEW h \in Handlers, Leave(h)
    PROVE  Sound(h)'
    <1>1. req'[h].step = "idle"
        BY DEF Leave, IInv, TypeOK, Idle
    <1> QED BY <1>1 DEF Sound, HasCall, HasRead, HasChecked, Inside

\* A step of a request changes no other request, and writes only inside.
LEMMA OthersStay ==
    ASSUME IInv, NEW h \in Handlers, Advance(h) \/ \E k \in Keys: FindKey(h, k)
    PROVE  /\ \A o \in Handlers: o # h => req'[o] = req[o]
           /\ (UNCHANGED stored) \/ req[h].step \in Inside
    <1>1. \A o \in Handlers: o # h => req'[o] = req[o]
        BY DEF Advance, FindKey, FindTenant, ForwardData, Route, Lock, GoTo, ReadTenant, ReadKey,
               CheckScope, CheckRoot, PutTenant, PutKey, End, Leave, IInv, TypeOK
    <1>2. (UNCHANGED stored) \/ req[h].step \in Inside
        BY DEF Advance, FindKey, FindTenant, ForwardData, Route, Lock, ReadTenant, ReadKey,
               CheckScope, CheckRoot, PutTenant, PutKey, End, elsewhere, At, Inside
    <1> QED BY <1>1, <1>2

LEMMA SoundNext ==
    ASSUME IInv, [Next]_vars, NEW o \in Handlers
    PROVE  Sound(o)'
    <1>1. CASE StoreBootKeys \/ RebuildTenants \/ KeepState \/ Serve \/ Crash \/ RefreshScopes
        BY <1>1, SoundStart
    <1>2. CASE \E t \in Tenants: FillTenant(t)
        BY <1>2, SoundStart
    <1>3. ASSUME NEW h \in Handlers, Advance(h) \/ \E k \in Keys: FindKey(h, k)
          PROVE  Sound(o)'
        <2>1. CASE o # h
            BY <1>3, <2>1, OthersStay, SoundOthers
        <2>2. CASE o = h
            BY <1>3, <2>2, SoundFind, SoundRoute, SoundRead, SoundCheck, SoundLeave
               DEF Advance, PutTenant, PutKey, End
        <2> QED BY <2>1, <2>2
    <1>4. CASE UNCHANGED vars
        BY <1>4 DEF vars, stored, IInv, Sound, HasCall, HasRead, HasChecked, Call
    <1> QED BY <1>1, <1>2, <1>3, <1>4 DEF Next

-------------------------------------------------------------------------------
(***************************************************************************)
(* The start                                                               *)
(***************************************************************************)

\* The scope of a key that a request stores is a tenant's that exists.
LEMMA ScopeHasTenant ==
    ASSUME NEW t \in Tenants, NEW d, ScopeFits(tenants, t, d)
    PROVE  HasTenants
    BY RulesAssumption DEF ScopeFits, HasTenants

(***************************************************************************)
(* The registry                                                            *)
(***************************************************************************)

\* What a request writes about tenants is one operation of the registry.
LEMMA PutTenantIsOperation ==
    ASSUME IInv, NEW h \in Handlers, PutTenant(h)
    PROVE  \E t \in Tenants: Registry!CreateTenant(t) \/ Registry!UpdateTenant(t)
    <1>1. Call(h) \in Calls /\ Call(h).op \in TenantOps
        BY DEF PutTenant, At, IInv, Sound, HasCall, Inside, TenantOps
    <1> DEFINE t == Call(h).tenant
    <1>2. t \in Tenants
        BY <1>1, CallFields
    <1>3. keys' = keys /\ served' = served
        BY DEF PutTenant, Leave
    <1>4. CASE Call(h).op = "newTenant"
        <2>1. Call(h).databases \in (SUBSET Databases) \ {{}}
            BY <1>1, <1>4, CallFields DEF TenantSets
        <2>2. tenants[t] = NoValue /\ tenants' = [tenants EXCEPT ![t] = NewTenant(Call(h).databases)]
            BY <1>4 DEF PutTenant
        <2> QED BY <1>2, <1>3, <2>1, <2>2 DEF Registry!CreateTenant, Registry!NewTenant, NewTenant
    <1>5. CASE Call(h).op = "setTenant"
        <2>1. /\ Call(h).databases \in {NoValue} \cup ((SUBSET Databases) \ {{}})
              /\ Call(h).enabled \in BOOLEAN \cup {NoValue}
            BY <1>1, <1>5, CallFields DEF TenantSets
        <2>2. tenants[t] # NoValue
            BY <1>5, NoValueIsNone DEF PutTenant, At, IInv, Sound, HasRead
        <2>3. tenants' = [tenants EXCEPT ![t] = ChangedTenant(@, Call(h).databases, Call(h).enabled)]
            BY <1>5 DEF PutTenant
        <2> QED BY <1>2, <1>3, <2>1, <2>2, <2>3
               DEF Registry!UpdateTenant, Registry!ChangedTenant, ChangedTenant, Registry!Given, Given
    <1> QED BY <1>1, <1>4, <1>5 DEF TenantOps

\* What a request writes about keys is one operation of the registry.
LEMMA PutKeyIsOperation ==
    ASSUME IInv, NEW h \in Handlers, PutKey(h)
    PROVE  \E k \in Keys:
              Registry!CreateKey(k) \/ Registry!UpdateKey(k) \/ Registry!RotateKey(k)
    <1>1. Call(h) \in Calls /\ req[h].step = "put" /\ HasRead(h) /\ HasChecked(h)
        BY DEF PutKey, At, IInv, Sound, HasCall, Inside
    <1> DEFINE k == Call(h).key
    <1>2. tenants' = tenants /\ served' = served
        BY DEF PutKey, Leave
    <1>3. CASE Call(h).op = "newKey"
        <2> DEFINE key == NewKey(Call(h).tenant, Call(h).database, Call(h).actions)
        <2>1. key \in Registry!Key /\ key.enabled
            BY <1>1, <1>3, CallFields DEF NewKey, Registry!Key, Star, Registry!Star
        <2>2. key.tenant = Call(h).tenant /\ key.database = Call(h).database
            BY DEF NewKey
        <2>3. ScopeFits(tenants, key.tenant, key.database)
            BY <1>1, <1>3, <2>2 DEF HasChecked
        <2>4. PICK new \in Keys: keys[new] = NoValue /\ keys' = [keys EXCEPT ![new] = key]
            BY <1>3 DEF PutKey
        <2> HIDE DEF key
        <2> QED BY <1>2, <2>1, <2>3, <2>4
               DEF Registry!CreateKey, Registry!ScopeFits, ScopeFits, Star, Registry!Star
    <1>4. CASE Call(h).op = "setKey"
        <2>1. /\ k \in Keys
              /\ Call(h).actions \in Grants \cup {NoValue}
              /\ Call(h).enabled \in BOOLEAN \cup {NoValue}
            BY <1>1, <1>4, CallFields
        <2>2. req[h].old \in Key /\ req[h].old = keys[k] /\ keys[k] # NoValue
            BY <1>1, <1>4, NoValueIsNone DEF HasRead
        <2> DEFINE key == ChangedKey(keys[k], Call(h).actions, Call(h).enabled)
        <2>3. key.tenant = keys[k].tenant /\ key.database = keys[k].database
            BY <2>1, <2>2, ChangedKeyType
        <2>4. Call(h).enabled = TRUE => ScopeFits(tenants, key.tenant, key.database)
            BY <1>1, <1>4, <2>2, <2>3 DEF HasChecked
        <2>5. IsRoot(keys[k]) /\ ~IsRoot(key) => AnotherRoot(keys, k)
            BY <1>1, <1>4, <2>2 DEF HasChecked
        <2>6. keys' = [keys EXCEPT ![k] = key]
            BY <1>4 DEF PutKey
        <2>7. key = Registry!ChangedKey(keys[k], Call(h).actions, Call(h).enabled)
            BY DEF ChangedKey, Registry!ChangedKey, Given, Registry!Given
        <2> HIDE DEF key
        <2>8. Call(h).enabled = TRUE => Registry!ScopeFits(tenants, key.tenant, key.database)
            BY <2>4 DEF Registry!ScopeFits, ScopeFits, Star, Registry!Star
        <2>9. Registry!IsRoot(keys[k]) /\ ~Registry!IsRoot(key) => Registry!AnotherRoot(keys, k)
            BY <2>5 DEF Registry!IsRoot, IsRoot, Registry!AnotherRoot, AnotherRoot, Star, Registry!Star
        <2> QED BY <1>2, <2>1, <2>2, <2>6, <2>7, <2>8, <2>9 DEF Registry!UpdateKey
    <1>5. CASE Call(h).op = "rotate"
        <2>1. k \in Keys
            BY <1>1, <1>5, CallFields
        <2>2. req[h].old = keys[k] /\ keys[k] # NoValue /\ keys[k].enabled
            BY <1>1, <1>5, NoValueIsNone DEF HasRead
        <2>3. Registry!ScopeFits(tenants, keys[k].tenant, keys[k].database)
            BY <1>1, <1>5, <2>2 DEF HasChecked, Registry!ScopeFits, ScopeFits, Star, Registry!Star
        <2>4. PICK new \in Keys:
                /\ keys[new] = NoValue
                /\ keys' = [keys EXCEPT ![k].enabled = FALSE, ![new] = keys[k]]
            BY <1>5, <2>2 DEF PutKey
        <2> QED BY <1>2, <2>1, <2>2, <2>3, <2>4 DEF Registry!RotateKey
    <1> QED BY <1>3, <1>4, <1>5 DEF PutKey

\* A request acts only while the server serves, and then it has served.
LEMMA RequestsAreServed ==
    ASSUME IInv, NEW h \in Handlers, Advance(h) \/ \E k \in Keys: FindKey(h, k)
    PROVE  /\ server = "serving" /\ served
           /\ UNCHANGED <<server, todo, served>>
    <1>1. server = "serving"
        <2>1. CASE \E k \in Keys: FindKey(h, k)
            BY <2>1 DEF FindKey
        <2>2. CASE Advance(h)
            <3>1. req[h].step # "idle"
                BY <2>2 DEF Advance, FindTenant, ForwardData, Route, Lock, ReadTenant, ReadKey,
                            CheckScope, CheckRoot, PutTenant, PutKey, End, At
            <3> QED BY <3>1 DEF IInv, StartIsFirst
        <2> QED BY <2>1, <2>2
    <1>2. UNCHANGED <<server, todo, served>>
        BY DEF Advance, FindKey, FindTenant, ForwardData, Route, Lock, ReadTenant, ReadKey,
               CheckScope, CheckRoot, PutTenant, PutKey, End, Leave, elsewhere
    <1> QED BY <1>1, <1>2 DEF IInv, StartIsFirst

\* A step of a request is an operation of the registry or changes no record.
LEMMA RequestIsOperation ==
    ASSUME IInv, NEW h \in Handlers, Advance(h) \/ \E k \in Keys: FindKey(h, k)
    PROVE  \/ \E t \in Tenants: Registry!CreateTenant(t) \/ Registry!UpdateTenant(t)
           \/ \E k \in Keys: Registry!CreateKey(k) \/ Registry!UpdateKey(k) \/ Registry!RotateKey(k)
           \/ UNCHANGED stored
    <1>1. CASE PutTenant(h)
        BY <1>1, PutTenantIsOperation
    <1>2. CASE PutKey(h)
        BY <1>2, PutKeyIsOperation
    <1>3. CASE ~PutTenant(h) /\ ~PutKey(h)
        BY <1>3 DEF Advance, FindKey, FindTenant, ForwardData, Route, Lock, ReadTenant, ReadKey,
                    CheckScope, CheckRoot, End, elsewhere
    <1> QED BY <1>1, <1>2, <1>3

\* An operation on tenants leaves the keys alone and removes no tenant.
LEMMA TenantOperation ==
    ASSUME TypeOK, TypeOK', NEW t \in Tenants,
           Registry!CreateTenant(t) \/ Registry!UpdateTenant(t)
    PROVE  /\ keys' = keys
           /\ tenants'[t] # NoValue
           /\ \A u \in Tenants: u # t => tenants'[u] = tenants[u]
    <1>1. keys' = keys
        BY DEF Registry!CreateTenant, Registry!UpdateTenant
    <1>2. PICK new: tenants' = [tenants EXCEPT ![t] = new] /\ new \in Tenant
        <2>1. CASE Registry!CreateTenant(t)
            <3>1. PICK databases \in (SUBSET Databases) \ {{}}:
                    tenants' = [tenants EXCEPT ![t] = NewTenant(databases)]
                BY <2>1 DEF Registry!CreateTenant, Registry!NewTenant, NewTenant
            <3>2. NewTenant(databases) \in Tenant
                BY <3>1 DEF NewTenant, Tenant
            <3> QED BY <3>1, <3>2
        <2>2. CASE Registry!UpdateTenant(t)
            <3>1. PICK databases \in {NoValue} \cup ((SUBSET Databases) \ {{}}),
                       enabled \in BOOLEAN \cup {NoValue}:
                    tenants' = [tenants EXCEPT ![t] = ChangedTenant(@, databases, enabled)]
                BY <2>2 DEF Registry!UpdateTenant, Registry!ChangedTenant, ChangedTenant,
                            Registry!Given, Given
            <3>2. tenants[t] \in Tenant
                BY <2>2 DEF Registry!UpdateTenant, TypeOK
            <3>3. ChangedTenant(tenants[t], databases, enabled) \in Tenant
                BY <3>1, <3>2, ChangedTenantType DEF TenantSets
            <3> QED BY <3>1, <3>3
        <2> QED BY <2>1, <2>2
    <1> QED BY <1>1, <1>2, NoValueIsNone DEF TypeOK

\* An operation on key k: no other key changes but a new one, which takes the scope
\* of k or one that fits; k keeps its scope.
LEMMA KeyOperation ==
    ASSUME TypeOK, NEW k \in Keys,
           Registry!CreateKey(k) \/ Registry!UpdateKey(k) \/ Registry!RotateKey(k)
    PROVE  /\ tenants' = tenants
           /\ \A o \in Keys: keys[o] # NoValue => keys'[o] # NoValue
           /\ \A o \in Keys: keys'[o] # NoValue =>
                \/ ScopeFits(tenants, keys'[o].tenant, keys'[o].database)
                \/ \E p \in Keys: /\ keys[p] # NoValue
                                  /\ keys[p].tenant = keys'[o].tenant
                                  /\ keys[p].database = keys'[o].database
           /\ (\E o \in Keys: IsRoot(keys[o])) => (\E o \in Keys: IsRoot(keys'[o]))
    <1>0. tenants' = tenants
        BY DEF Registry!CreateKey, Registry!UpdateKey, Registry!RotateKey
    <1>1. CASE Registry!CreateKey(k)
        <2>1. PICK key \in Key:
                /\ ScopeFits(tenants, key.tenant, key.database)
                /\ keys' = [keys EXCEPT ![k] = key]
            BY <1>1 DEF Registry!CreateKey, Registry!Key, Key, Registry!ScopeFits, ScopeFits,
                        Registry!Star, Star
        <2>2. keys[k] = NoValue
            BY <1>1 DEF Registry!CreateKey
        <2>3. keys'[k] = key /\ \A o \in Keys: o # k => keys'[o] = keys[o]
            BY <2>1 DEF TypeOK
        <2> QED BY <1>0, <2>1, <2>2, <2>3, NoValueIsNone DEF IsRoot
    <1>2. CASE Registry!UpdateKey(k)
        <2>1. keys[k] \in Key /\ keys[k] # NoValue
            BY <1>2 DEF Registry!UpdateKey, TypeOK
        <2>2. PICK actions \in Grants \cup {NoValue}, enabled \in BOOLEAN \cup {NoValue}:
                /\ IsRoot(keys[k]) /\ ~IsRoot(ChangedKey(keys[k], actions, enabled))
                      => AnotherRoot(keys, k)
                /\ keys' = [keys EXCEPT ![k] = ChangedKey(keys[k], actions, enabled)]
            BY <1>2 DEF Registry!UpdateKey, Registry!ChangedKey, ChangedKey, Registry!Given, Given,
                        Registry!IsRoot, IsRoot, Registry!AnotherRoot, AnotherRoot,
                        Registry!Star, Star
        <2> DEFINE key == ChangedKey(keys[k], actions, enabled)
        <2>3. key \in Key /\ key.tenant = keys[k].tenant /\ key.database = keys[k].database
            BY <2>1, <2>2, ChangedKeyType
        <2>4. keys'[k] = key /\ \A o \in Keys: o # k => keys'[o] = keys[o]
            BY <2>2 DEF TypeOK
        <2>5. IsRoot(keys[k]) /\ ~IsRoot(key) => AnotherRoot(keys, k)
            BY <2>2
        <2> HIDE DEF key
        <2>6. (\E o \in Keys: IsRoot(keys[o])) => (\E o \in Keys: IsRoot(keys'[o]))
            BY <2>4, <2>5 DEF AnotherRoot
        <2> QED BY <1>0, <2>1, <2>3, <2>4, <2>6, NoValueIsNone
    <1>3. CASE Registry!RotateKey(k)
        <2>1. keys[k] \in Key /\ keys[k] # NoValue
            BY <1>3 DEF Registry!RotateKey, TypeOK
        <2>2. PICK new \in Keys:
                /\ keys[new] = NoValue
                /\ keys' = [keys EXCEPT ![k].enabled = FALSE, ![new] = keys[k]]
            BY <1>3 DEF Registry!RotateKey
        <2> DEFINE ended == [keys[k] EXCEPT !.enabled = FALSE]
        <2>3. /\ ended \in Key
              /\ ended.tenant = keys[k].tenant /\ ended.database = keys[k].database
            BY <2>1 DEF Key
        <2>4. new # k
            BY <2>1, <2>2
        <2>5. keys' = [[keys EXCEPT ![k] = ended] EXCEPT ![new] = keys[k]]
            BY <2>2
        <2> HIDE DEF ended
        <2>6. /\ keys'[new] = keys[k] /\ keys'[k] = ended
              /\ \A o \in Keys: o # k /\ o # new => keys'[o] = keys[o]
            BY <2>4, <2>5 DEF TypeOK
        <2>7. \A o \in Keys: keys[o] # NoValue => keys'[o] # NoValue
            BY <2>1, <2>2, <2>3, <2>6, NoValueIsNone
        <2>8. \A o \in Keys: keys'[o] # NoValue =>
                \E p \in Keys: /\ keys[p] # NoValue
                               /\ keys[p].tenant = keys'[o].tenant
                               /\ keys[p].database = keys'[o].database
            BY <2>1, <2>2, <2>3, <2>6
        <2>9. (\E o \in Keys: IsRoot(keys[o])) => (\E o \in Keys: IsRoot(keys'[o]))
            <3>1. ASSUME NEW o \in Keys, IsRoot(keys[o]) PROVE \E p \in Keys: IsRoot(keys'[p])
                <4>1. o # new
                    BY <2>2, <3>1 DEF IsRoot
                <4>2. IF o = k THEN IsRoot(keys'[new]) ELSE IsRoot(keys'[o])
                    BY <2>6, <3>1, <4>1
                <4> QED BY <4>2
            <3> QED BY <3>1
        <2> QED BY <1>0, <2>7, <2>8, <2>9
    <1> QED BY <1>1, <1>2, <1>3

-------------------------------------------------------------------------------
(***************************************************************************)
(* The start, continued                                                    *)
(***************************************************************************)

\* While there is no tenant, no key comes that names one.
LEMMA WantedByRequest ==
    ASSUME IInv, TypeOK', NEW k \in Keys,
           Registry!CreateKey(k) \/ Registry!UpdateKey(k) \/ Registry!RotateKey(k),
           ~HasTenants
    PROVE  WantedTenants(keys') \subseteq WantedTenants(keys)
    <1>1. ASSUME NEW t \in Tenants, NEW d \in Databases, d \in Wanted(keys', t)
          PROVE  d \in Wanted(keys, t)
        <2>1. CASE <<t, d>> \in DefaultScopes
            BY <2>1 DEF Wanted
        <2>2. ASSUME NEW o \in Keys, keys'[o] # NoValue, keys'[o].tenant = t, keys'[o].database = d
              PROVE  d \in Wanted(keys, t)
            <3>1. ~ScopeFits(tenants, t, d)
                BY ScopeHasTenant
            <3>2. PICK p \in Keys: /\ keys[p] # NoValue
                                   /\ keys[p].tenant = keys'[o].tenant
                                   /\ keys[p].database = keys'[o].database
                BY <2>2, <3>1, KeyOperation DEF IInv
            <3> QED BY <2>2, <3>2 DEF Wanted
        <2> QED BY <1>1, <2>1, <2>2 DEF Wanted
    <1>2. ASSUME NEW t \in Tenants, Wanted(keys', t) # {} PROVE Wanted(keys, t) # {}
        <2>1. PICK d \in Databases: d \in Wanted(keys', t)
            BY <1>2 DEF Wanted
        <2> QED BY <1>1, <2>1
    <1> QED BY <1>2 DEF WantedTenants

LEMMA StartNextRequest ==
    ASSUME IInv, TypeOK', NEW h \in Handlers, Advance(h) \/ \E k \in Keys: FindKey(h, k)
    PROVE  StartIsFirst'
    <1>1. /\ server = "serving" /\ served
          /\ UNCHANGED <<server, todo, served>>
        BY RequestsAreServed
    <1>2. HasKeys /\ ((WantedTenants(keys) # {}) => HasTenants)
        BY <1>1 DEF IInv, StartIsFirst
    <1>3. HasKeys' /\ ((WantedTenants(keys') # {}) => HasTenants')
        <2>1. CASE UNCHANGED stored
            BY <1>2, <2>1 DEF stored, HasKeys, HasTenants
        <2>2. ASSUME NEW t \in Tenants, Registry!CreateTenant(t) \/ Registry!UpdateTenant(t)
              PROVE  HasKeys' /\ ((WantedTenants(keys') # {}) => HasTenants')
            BY <1>2, <2>2, TenantOperation DEF IInv, HasKeys, HasTenants
        <2>3. ASSUME NEW k \in Keys,
                     Registry!CreateKey(k) \/ Registry!UpdateKey(k) \/ Registry!RotateKey(k)
              PROVE  HasKeys' /\ ((WantedTenants(keys') # {}) => HasTenants')
            <3>1. HasKeys'
                BY <1>2, <2>3, KeyOperation DEF IInv, HasKeys
            <3>2. HasTenants' <=> HasTenants
                BY <2>3, KeyOperation DEF IInv, HasTenants
            <3>3. ~HasTenants => WantedTenants(keys') \subseteq WantedTenants(keys)
                BY <2>3, WantedByRequest
            <3> QED BY <1>2, <3>1, <3>2, <3>3
        <2> QED BY <2>1, <2>2, <2>3, RequestIsOperation
    <1> QED BY <1>1, <1>3 DEF StartIsFirst

LEMMA StartNext ==
    ASSUME IInv, TypeOK', [Next]_vars
    PROVE  StartIsFirst'
    <1> USE DEF IInv
    <1>1. CASE StoreBootKeys
        <2>1. \A t \in Tenants: tenants'[t] = NoValue
            BY <1>1 DEF StoreBootKeys, StartIsFirst, HasTenants
        <2>2. HasKeys'
            <3>1. PICK k \in Keys: k \in DOMAIN BootKeys
                BY BootKeyIsKey
            <3>2. keys'[k] = BootKeys[k]
                BY <1>1, <3>1 DEF StoreBootKeys
            <3> QED BY <3>1, <3>2, BootKeyIsKey, NoValueIsNone DEF HasKeys
        <2>3. /\ server' = "filling" /\ ~served' /\ todo' = WantedTenants(keys')
              /\ \A h \in Handlers: req'[h].step = "idle"
            BY <1>1 DEF StoreBootKeys, StartIsFirst
        <2> QED BY <2>1, <2>2, <2>3 DEF StartIsFirst, WantedTenants
    <1>2. CASE RebuildTenants
        <2>1. /\ UNCHANGED <<keys, tenants, served, req>>
              /\ server = "down" /\ server' = "filling" /\ todo' = WantedTenants(keys)
              /\ HasKeys /\ ~HasTenants
            BY <1>2 DEF RebuildTenants, stored
        <2>2. \A t \in Tenants: tenants[t] = NoValue
            BY <2>1 DEF HasTenants
        <2>3. served => todo' = {}
            BY <2>1 DEF StartIsFirst
        <2> QED BY <2>1, <2>2, <2>3 DEF StartIsFirst, HasKeys, HasTenants, WantedTenants
    <1>3. CASE KeepState
        BY <1>3 DEF KeepState, StartIsFirst, stored, HasKeys, HasTenants
    <1>4. ASSUME NEW t \in Tenants, FillTenant(t) PROVE StartIsFirst'
        <2>1. /\ server = "filling" /\ t \in todo /\ ~served
              /\ UNCHANGED <<keys, server, served, req>> /\ todo' = todo \ {t}
              /\ \A u \in Tenants: u # t => tenants'[u] = tenants[u]
            BY <1>4 DEF FillTenant, StartIsFirst, TypeOK
        <2>2. tenants'[t] # NoValue
            <3>1. tenants[t] = NoValue /\ Wanted(keys, t) # {}
                BY <2>1 DEF StartIsFirst, WantedTenants
            <3>2. NewTenant(Wanted(keys, t)) \in Tenant
                BY <3>1 DEF NewTenant, Tenant, Wanted
            <3>3. tenants'[t] = NewTenant(Wanted(keys, t))
                BY <1>4, <3>1 DEF FillTenant, Filled, TypeOK
            <3> QED BY <3>2, <3>3, NoValueIsNone
        <2>3. HasTenants'
            BY <2>2 DEF HasTenants
        <2>4. HasKeys'
            BY <2>1 DEF StartIsFirst, HasKeys
        <2> QED BY <2>1, <2>3, <2>4 DEF StartIsFirst, TypeOK
    <1>5. CASE Serve
        <2>1. HasKeys /\ ((WantedTenants(keys) # {}) => HasTenants)
            BY <1>5 DEF Serve, StartIsFirst
        <2> QED BY <1>5, <2>1 DEF Serve, StartIsFirst, stored, HasKeys, HasTenants
    <1>6. CASE Crash
        <2>1. \A h \in Handlers: req'[h].step = "idle"
            BY <1>6 DEF Crash, Idle
        <2>2. UNCHANGED <<keys, tenants, served>> /\ server' = "down"
            BY <1>6 DEF Crash, stored
        <2> QED BY <2>1, <2>2 DEF StartIsFirst, HasKeys, HasTenants
    <1>7. CASE RefreshScopes \/ UNCHANGED vars
        BY <1>7 DEF RefreshScopes, vars, stored, StartIsFirst, HasKeys, HasTenants
    <1>8. ASSUME NEW h \in Handlers, Advance(h) \/ \E k \in Keys: FindKey(h, k)
          PROVE  StartIsFirst'
        BY <1>8, StartNextRequest
    <1> QED BY <1>1, <1>2, <1>3, <1>4, <1>5, <1>6, <1>7, <1>8 DEF Next

-------------------------------------------------------------------------------
(***************************************************************************)
(* The theorems                                                            *)
(***************************************************************************)

LEMMA InvariantInit == Init => IInv
    <1> SUFFICES ASSUME Init PROVE IInv
        OBVIOUS
    <1>1. TypeOK
        BY TypeInit
    <1>2. MutexIsHeldInside
        BY NoValueIsNone DEF Init, MutexIsHeldInside, Idle, Inside
    <1>3. ASSUME NEW h \in Handlers PROVE Sound(h)
        <2>1. req[h].step = "idle"
            BY DEF Init, Idle
        <2> QED BY <2>1 DEF Sound, HasCall, HasRead, HasChecked, Inside
    <1>4. StartIsFirst
        BY DEF Init, StartIsFirst, HasKeys, HasTenants, Idle
    <1> QED BY <1>1, <1>2, <1>3, <1>4 DEF IInv

LEMMA InvariantNext == IInv /\ [Next]_vars => IInv'
    BY TypeNext, MutexNext, SoundNext, StartNext DEF IInv

LEMMA Invariance == Spec => []IInv
    BY InvariantInit, InvariantNext, PTL DEF Spec

\* Every record, request and scope keeps its type, whatever is configured.
THEOREM TypeCorrect == Spec => []TypeOK
    <1>1. IInv => TypeOK
        BY DEF IInv
    <1> QED BY <1>1, Invariance, PTL

\* The mutex is with the one operation that makes store calls: every return of the
\* manager's operations unlocks, and a crash leaves nothing behind.
THEOREM MutexHeld == Spec => []MutexIsHeldInside
    <1>1. IInv => MutexIsHeldInside
        BY DEF IInv
    <1> QED BY <1>1, Invariance, PTL

LEMMA StartKeeps ==
    ASSUME IInv, [Next]_vars, served, server # "serving"
    PROVE  UNCHANGED stored
    <1>1. CASE StoreBootKeys
        BY <1>1 DEF StoreBootKeys, IInv, StartIsFirst
    <1>2. CASE \E t \in Tenants: FillTenant(t)
        BY <1>2 DEF FillTenant, IInv, StartIsFirst
    <1>3. ASSUME NEW h \in Handlers, Advance(h) \/ \E k \in Keys: FindKey(h, k)
          PROVE  UNCHANGED stored
        BY <1>3, RequestsAreServed
    <1>4. CASE RebuildTenants \/ KeepState \/ Serve \/ Crash \/ RefreshScopes \/ UNCHANGED vars
        BY <1>4 DEF RebuildTenants, KeepState, Serve, Crash, RefreshScopes, vars
    <1> QED BY <1>1, <1>2, <1>3, <1>4 DEF Next

\* Once the server has served, no start writes a key or a tenant (manager.go's
\* Bootstrap), wherever a crash came and whatever was changed before it.
THEOREM StoredKept == Spec => StartKeepsStored
    <1>1. IInv /\ [Next]_vars => [served /\ server # "serving" => UNCHANGED stored]_vars
        BY StartKeeps
    <1> QED BY <1>1, Invariance, PTL DEF Spec, StartKeepsStored

LEMMA RootKept ==
    ASSUME IInv, [Next]_vars, \E k \in Keys: IsRoot(keys[k])
    PROVE  \E k \in Keys: IsRoot(keys'[k])
    <1>1. CASE StoreBootKeys
        BY <1>1 DEF StoreBootKeys, HasKeys, IsRoot
    <1>2. ASSUME NEW h \in Handlers, Advance(h) \/ \E k \in Keys: FindKey(h, k)
          PROVE  \E k \in Keys: IsRoot(keys'[k])
        BY <1>2, RequestIsOperation, TypeNext, TenantOperation, KeyOperation DEF IInv, stored
    <1>3. CASE \/ \E t \in Tenants: FillTenant(t)
               \/ RebuildTenants \/ KeepState \/ Serve \/ Crash \/ RefreshScopes \/ UNCHANGED vars
        <2>1. keys' = keys
            BY <1>3 DEF FillTenant, RebuildTenants, KeepState, Serve, Crash, RefreshScopes, vars, stored
        <2> QED BY <2>1
    <1> QED BY <1>1, <1>2, <1>3 DEF Next

\* Updates, revocations and rotations, in any number and any order, never end the
\* last root key (ensureAnotherRoot under the manager's mutex).
THEOREM RootAlwaysRemains == Spec => RootRemains
    <1>1. IInv /\ [Next]_vars =>
            [(\E k \in Keys: IsRoot(keys[k])) => (\E k \in Keys: IsRoot(keys'[k]))]_vars
        BY RootKept
    <1> QED BY <1>1, Invariance, PTL DEF Spec, RootRemains

\* The steps of the first start are the registry's.
LEMMA StartIsOperation ==
    ASSUME IInv, TypeOK'
    PROVE  /\ StoreBootKeys => Registry!StoreKeys
           /\ \A t \in Tenants: FillTenant(t) => Registry!StoreTenant(t)
           /\ KeepState \/ Serve => Registry!Settle \/ UNCHANGED Registry!vars
    <1> USE DEF IInv
    <1>1. ASSUME StoreBootKeys PROVE Registry!StoreKeys
        <2>1. ~served /\ \A k \in Keys: keys[k] = NoValue
            BY <1>1 DEF StoreBootKeys, StartIsFirst, HasKeys
        <2>2. keys' \in [Keys -> Registry!Key \cup {NoValue}]
            BY DEF TypeOK, Key, Registry!Key, Star, Registry!Star
        <2>3. keys' # keys
            <3>1. PICK k \in Keys: k \in DOMAIN BootKeys
                BY BootKeyIsKey
            <3>2. keys'[k] = BootKeys[k]
                BY <1>1, <3>1 DEF StoreBootKeys
            <3> QED BY <2>1, <3>1, <3>2, BootKeyIsKey, NoValueIsNone
        <2> QED BY <1>1, <2>1, <2>2, <2>3 DEF StoreBootKeys, Registry!StoreKeys
    <1>2. ASSUME NEW t \in Tenants, FillTenant(t) PROVE Registry!StoreTenant(t)
        <2>1. ~served /\ tenants[t] = NoValue /\ Wanted(keys, t) # {}
            BY <1>2 DEF FillTenant, StartIsFirst, WantedTenants
        <2>2. Wanted(keys, t) \in (SUBSET Databases) \ {{}}
            BY <2>1 DEF Wanted
        <2>3. tenants' = [tenants EXCEPT ![t] = NewTenant(Wanted(keys, t))]
            BY <1>2, <2>1 DEF FillTenant, Filled
        <2> QED BY <1>2, <2>1, <2>2, <2>3
               DEF FillTenant, Registry!StoreTenant, Registry!NewTenant, NewTenant
    <1>3. ASSUME KeepState \/ Serve PROVE Registry!Settle \/ UNCHANGED Registry!vars
        BY <1>3 DEF KeepState, Serve, stored, StartIsFirst, HasKeys, Registry!Settle, Registry!vars
    <1> QED BY <1>1, <1>2, <1>3

LEMMA RegistryNext ==
    ASSUME IInv, TypeOK', [Next]_vars
    PROVE  [Registry!Next]_(Registry!vars)
    <1>1. CASE StoreBootKeys \/ (\E t \in Tenants: FillTenant(t)) \/ KeepState \/ Serve
        BY <1>1, StartIsOperation DEF Registry!Next
    <1>2. CASE RebuildTenants \/ Crash \/ RefreshScopes \/ UNCHANGED vars
        BY <1>2 DEF RebuildTenants, Crash, RefreshScopes, vars, stored, Registry!vars
    <1>3. ASSUME NEW h \in Handlers, Advance(h) \/ \E k \in Keys: FindKey(h, k)
          PROVE  [Registry!Next]_(Registry!vars)
        BY <1>3, RequestsAreServed, RequestIsOperation DEF Registry!Next, Registry!vars, stored
    <1> QED BY <1>1, <1>2, <1>3 DEF Next

\* Every operation of the manager takes effect in one step in which its conditions
\* hold, although it makes several store calls, and a rotation swaps the keys at once.
THEOREM RegistryImplemented == Spec => ImplementsRegistry
    <1>1. Init => Registry!Init
        BY DEF Init, Registry!Init
    <1>2. IInv /\ IInv' /\ [Next]_vars => [Registry!Next]_(Registry!vars)
        BY RegistryNext DEF IInv
    <1> QED BY <1>1, <1>2, Invariance, PTL DEF Spec, ImplementsRegistry, Registry!Spec

===============================================================================
