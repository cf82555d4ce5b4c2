------------------------------ MODULE AccessRules ------------------------------
(***************************************************************************)
(* Service keys, tenants and what a key may do (internal/auth).            *)
(*                                                                         *)
(* A key belongs to a tenant and a database; Star stands for all of them.  *)
(* A tenant registers databases and is enabled or not.  Labels, names,     *)
(* secrets' digests and times are left out: a key and its secret are the   *)
(* same model value.                                                       *)
(***************************************************************************)
EXTENDS Naturals, FiniteSets

CONSTANTS
    Keys,           \* key IDs
    Tenants,
    Databases,
    Grants,         \* the sets of actions that a key may be given
    NoValue         \* a record that does not exist, an input that is not given

Star == "*"

ASSUME RulesAssumption ==
    /\ Star \notin Tenants \cup Databases
    /\ NoValue \notin BOOLEAN
    /\ NoValue \notin Grants
    /\ \A databases \in SUBSET Databases: NoValue # databases

Key ==
    [tenant: Tenants \cup {Star}, database: Databases \cup {Star},
     actions: Grants, enabled: BOOLEAN]

\* What one entry of BARQ_API_KEYS may be.
BootKey == {key \in Key: key.enabled /\ (key.tenant = Star => key.database = Star)}

Tenant == [databases: (SUBSET Databases) \ {{}}, enabled: BOOLEAN]

NewKey(tenant, database, actions) ==
    [tenant |-> tenant, database |-> database, actions |-> actions, enabled |-> TRUE]

NewTenant(databases) == [databases |-> databases, enabled |-> TRUE]

(***************************************************************************)
(* The manager's rules about keys                                          *)
(***************************************************************************)

IsRoot(key) ==
    /\ key # NoValue
    /\ key.enabled
    /\ key.tenant = Star /\ key.database = Star
    /\ Star \in key.actions

\* A root key other than k: without one, k must stay a root key.
AnotherRoot(keys, k) == \E other \in Keys \ {k}: IsRoot(keys[other])

\* A key may be created for, enabled in or rotated in this scope.
ScopeFits(tenants, t, d) ==
    IF t = Star
      THEN d = Star
      ELSE /\ tenants[t] # NoValue
           /\ tenants[t].enabled
           /\ d = Star \/ d \in tenants[t].databases

\* An optional input: what is not given stays as it is.
Given(input, old) == IF input = NoValue THEN old ELSE input

ChangedKey(old, actions, enabled) ==
    [old EXCEPT !.actions = Given(actions, old.actions),
                !.enabled = Given(enabled, old.enabled)]

ChangedTenant(old, databases, enabled) ==
    [databases |-> Given(databases, old.databases),
     enabled |-> Given(enabled, old.enabled)]

(***************************************************************************)
(* What a request may do with the key that it was let in with              *)
(***************************************************************************)

MayDo(key, action) == {Star, action} \cap key.actions # {}

CanAccessScope(key, t, d) == key.tenant \in {Star, t} /\ key.database \in {Star, d}

Authorized(key, t, d, action) == CanAccessScope(key, t, d) /\ MayDo(key, action)

AuthorizedGlobal(key, action) ==
    MayDo(key, action) /\ key.tenant = Star /\ key.database = Star

\* The action that each route about objects and schemas asks for ...
ObjectRoutes ==
    [create |-> "write", read |-> "read", patch |-> "write", delete |-> "write",
     query |-> "read", batch |-> "write",
     planSchema |-> "schema:admin", applySchema |-> "schema:admin"]

\* ... and each route about sync rules: one action, asked before the route is known.
RuleRoutes ==
    [route \in {"schema", "current", "plan", "test", "apply", "history", "restore"} |->
        "sync:admin"]

\* Whether a request may create or change a key of this scope.
AuthorizesKeyScope(key, t, d) ==
    /\ t = Star => key.tenant = Star /\ key.database = Star
    /\ (t # Star /\ d = Star /\ key.tenant # Star) => key.tenant = t /\ key.database = Star
    /\ Authorized(key, t, d, "keys:admin")

\* The scopes that the webhook dispatcher polls.
EnabledScopes(tenants) ==
    {s \in Tenants \X Databases:
        tenants[s[1]] # NoValue /\ tenants[s[1]].enabled /\ s[2] \in tenants[s[1]].databases}

===============================================================================
