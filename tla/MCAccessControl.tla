---------------------------- MODULE MCAccessControl ----------------------------
(***************************************************************************)
(* Small instances of AccessControl: configured keys, and the calls in     *)
(* which administrators meet on the same keys and tenant.                  *)
(***************************************************************************)
EXTENDS AccessControl, TLC

CONSTANTS h1, h2, k1, k2, k3, t1, t2, d1, d2

All == {Star}
Manage == {"keys:admin"}
MCGrants == {All, Manage}

RootKey == [tenant |-> Star, database |-> Star, actions |-> All, enabled |-> TRUE]
KeyFor(t, d) == [tenant |-> t, database |-> d, actions |-> Manage, enabled |-> TRUE]

OneRootKey == k1 :> RootKey
OneScope == {<<t2, d1>>}
TwoTenantKeys == k1 :> KeyFor(t1, d1) @@ k2 :> KeyFor(t2, d1)

SetKey(k, actions, enabled) ==
    [op |-> "setKey", key |-> k, actions |-> actions, enabled |-> enabled]
SetTenant(databases, enabled) ==
    [op |-> "setTenant", tenant |-> t1, databases |-> databases, enabled |-> enabled]

KeyCalls ==
    {SetKey(k, NoValue, FALSE): k \in {k1, k2}}
        \cup {SetKey(k1, Manage, NoValue), SetKey(k2, NoValue, TRUE)}
        \cup [op: {"rotate"}, key: {k1, k2}]
        \cup [op: {"newKey"}, tenant: {Star}, database: {Star}, actions: {All}]
        \cup [op: {"newKey"}, tenant: {t1}, database: {d1}, actions: {Manage}]

TenantCalls ==
    [op: {"newTenant"}, tenant: {t1}, databases: {{d1}}]
        \cup {SetTenant({d2}, NoValue), SetTenant(NoValue, FALSE), SetTenant(NoValue, TRUE)}

Read == [op |-> "objects", tenant |-> t1, database |-> d1, route |-> "read"]

MCCalls == KeyCalls \cup TenantCalls \cup {Read}

\* Only what the first start does.
NoCalls == {Read}

===============================================================================
