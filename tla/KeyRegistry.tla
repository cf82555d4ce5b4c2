------------------------------ MODULE KeyRegistry ------------------------------
(***************************************************************************)
(* What the auth manager promises: every operation on keys and tenants is  *)
(* one step, its conditions hold at the moment of that step, and once the  *)
(* server has served, starting it again changes nothing.                   *)
(***************************************************************************)
EXTENDS AccessRules

VARIABLES
    keys,           \* collection api_keys
    tenants,        \* collection tenants
    settled         \* the server has served requests

vars == <<keys, tenants, settled>>

Init ==
    /\ keys = [k \in Keys |-> NoValue]
    /\ tenants = [t \in Tenants |-> NoValue]
    /\ settled = FALSE

\* The first start stores the configured keys, all of them at once ...
StoreKeys ==
    /\ ~settled
    /\ \A k \in Keys: keys[k] = NoValue
    /\ keys' \in [Keys -> Key \cup {NoValue}]
    /\ keys' # keys
    /\ UNCHANGED <<tenants, settled>>

\* ... and tenants for them, one by one.
StoreTenant(t) ==
    /\ ~settled
    /\ tenants[t] = NoValue
    /\ \E databases \in (SUBSET Databases) \ {{}}:
          tenants' = [tenants EXCEPT ![t] = NewTenant(databases)]
    /\ UNCHANGED <<keys, settled>>

Settle ==
    /\ ~settled
    /\ \E k \in Keys: keys[k] # NoValue
    /\ settled' = TRUE
    /\ UNCHANGED <<keys, tenants>>

CreateTenant(t) ==
    /\ tenants[t] = NoValue
    /\ \E databases \in (SUBSET Databases) \ {{}}:
          tenants' = [tenants EXCEPT ![t] = NewTenant(databases)]
    /\ UNCHANGED <<keys, settled>>

\* A tenant keeps what the update does not name.
UpdateTenant(t) ==
    /\ tenants[t] # NoValue
    /\ \E databases \in {NoValue} \cup ((SUBSET Databases) \ {{}}),
          enabled \in BOOLEAN \cup {NoValue}:
          tenants' = [tenants EXCEPT ![t] = ChangedTenant(@, databases, enabled)]
    /\ UNCHANGED <<keys, settled>>

CreateKey(k) ==
    /\ keys[k] = NoValue
    /\ \E key \in Key:
          /\ key.enabled
          /\ ScopeFits(tenants, key.tenant, key.database)
          /\ keys' = [keys EXCEPT ![k] = key]
    /\ UNCHANGED <<tenants, settled>>

\* A key is enabled only where its scope fits, and the last root key stays one.
UpdateKey(k) ==
    /\ keys[k] # NoValue
    /\ \E actions \in Grants \cup {NoValue}, enabled \in BOOLEAN \cup {NoValue}:
          LET key == ChangedKey(keys[k], actions, enabled) IN
          /\ enabled = TRUE => ScopeFits(tenants, key.tenant, key.database)
          /\ IsRoot(keys[k]) /\ ~IsRoot(key) => AnotherRoot(keys, k)
          /\ keys' = [keys EXCEPT ![k] = key]
    /\ UNCHANGED <<tenants, settled>>

\* The old key ends in the step in which its replacement begins.
RotateKey(k) ==
    /\ keys[k] # NoValue
    /\ keys[k].enabled
    /\ ScopeFits(tenants, keys[k].tenant, keys[k].database)
    /\ \E new \in Keys:
          /\ keys[new] = NoValue
          /\ keys' = [keys EXCEPT ![k].enabled = FALSE, ![new] = keys[k]]
    /\ UNCHANGED <<tenants, settled>>

Next ==
    \/ StoreKeys
    \/ \E t \in Tenants: StoreTenant(t)
    \/ Settle
    \/ /\ settled
       /\ \/ \E t \in Tenants: CreateTenant(t) \/ UpdateTenant(t)
          \/ \E k \in Keys: CreateKey(k) \/ UpdateKey(k) \/ RotateKey(k)

Spec == Init /\ [][Next]_vars

===============================================================================
