------------------------------ MODULE WebhookQueue ------------------------------
(***************************************************************************)
(* What the webhook dispatcher promises, without its records and calls.    *)
(*                                                                         *)
(* One event of a change feed is taken at a time.  When it is taken, every *)
(* hook that matches it claims one item: this hook, at its revision of     *)
(* that moment, for this event.  The feed's cursor moves past the event    *)
(* only when all of its claims are settled; a claim is settled once, and   *)
(* what was settled is never lost, however often the event is taken again. *)
(* A queued item is posted until its receiver accepts it or its attempts   *)
(* are used up; only a replay queues a dead item again.                    *)
(***************************************************************************)
EXTENDS Integers, Sequences

CONSTANTS Hooks, Scopes, Topics, Filters, Payloads, Items, MaxAttempts, NoValue

VARIABLES
    feed,       \* feed[s] is the sequence of topics of the events of scope s
    hooks,      \* the configuration of each hook, NoValue before it is registered
    cursor,     \* cursor[s]: the events of s up to this one are done with
    taken,      \* the event being processed, or NoValue
    claims,     \* the items that the taken event owes
    items,      \* the state of every item
    accepted    \* the items that a receiver has accepted at least once

queueVars == <<feed, hooks, cursor, taken, claims, items, accepted>>

Untouched == [state |-> "none", payload |-> NoValue, attempts |-> 0]

Applies(hook, s, n) ==
    /\ hook # NoValue
    /\ hook.enabled /\ hook.scope = s /\ feed[s][n] \in hook.filter

Owed(s, n) ==
    {[hook |-> h, rev |-> hooks[h].rev, scope |-> s, event |-> n]:
        h \in {g \in Hooks: Applies(hooks[g], s, n)}}

Init ==
    /\ feed = [s \in Scopes |-> <<>>]
    /\ hooks = [h \in Hooks |-> NoValue]
    /\ cursor = [s \in Scopes |-> 0]
    /\ taken = NoValue
    /\ claims = {}
    /\ items = [i \in Items |-> Untouched]
    /\ accepted = {}

Publish ==
    /\ \E s \in Scopes, t \in Topics: feed' = [feed EXCEPT ![s] = Append(@, t)]
    /\ UNCHANGED <<hooks, cursor, taken, claims, items, accepted>>

\* A hook is registered with revision 1; every change makes the next revision,
\* except that a hook is disabled in place.
Configure ==
    /\ \E h \in Hooks, s \in Scopes, f \in Filters, on \in BOOLEAN:
        \/ /\ hooks[h] = NoValue
           /\ hooks' = [hooks EXCEPT ![h] =
                           [rev |-> 1, scope |-> s, filter |-> f, enabled |-> TRUE]]
        \/ /\ hooks[h] # NoValue
           /\ hooks' = [hooks EXCEPT ![h] =
                           [rev |-> @.rev + 1, scope |-> s, filter |-> f, enabled |-> on]]
        \/ /\ hooks[h] # NoValue
           /\ hooks' = [hooks EXCEPT ![h].enabled = FALSE]
    /\ UNCHANGED <<feed, cursor, taken, claims, items, accepted>>

\* The next event, or a repetition of the last one.
Take ==
    /\ taken = NoValue
    /\ \E s \in Scopes: \E n \in {cursor[s], cursor[s] + 1} \cap (1 .. Len(feed[s])):
        /\ taken' = [scope |-> s, event |-> n]
        /\ claims' = Owed(s, n)
    /\ UNCHANGED <<feed, hooks, cursor, items, accepted>>

Settlements ==
    [state: {"queued"}, payload: Payloads, attempts: {0}]
        \cup [state: {"skipped", "dead"}, payload: {NoValue}, attempts: {0}]

\* The transform of the item's revision decides what becomes of it.
Settle ==
    /\ \E i \in claims, settlement \in Settlements:
        /\ items[i].state = "none"
        /\ items' = [items EXCEPT ![i] = settlement]
    /\ UNCHANGED <<feed, hooks, cursor, taken, claims, accepted>>

Advance ==
    /\ taken # NoValue
    /\ \A i \in claims: items[i].state # "none"
    /\ cursor' = [cursor EXCEPT ![taken.scope] = taken.event]
    /\ taken' = NoValue
    /\ claims' = {}
    /\ UNCHANGED <<feed, hooks, items, accepted>>

\* An error or a crash: the event will be taken again.
Release ==
    /\ taken' = NoValue
    /\ claims' = {}
    /\ UNCHANGED <<feed, hooks, cursor, items, accepted>>

Accept ==
    /\ \E i \in Items: items[i].state = "queued" /\ accepted' = accepted \cup {i}
    /\ UNCHANGED <<feed, hooks, cursor, taken, claims, items>>

Attempted(i, state) ==
    items' = [items EXCEPT ![i] =
                 [state |-> state, payload |-> @.payload, attempts |-> @.attempts + 1]]

\* The last attempt that fails makes the item dead, and no other one does.
Attempt ==
    /\ \E i \in Items:
        /\ items[i].state = "queued"
        /\ \/ i \in accepted /\ Attempted(i, "completed")
           \/ items[i].attempts + 1 < MaxAttempts /\ Attempted(i, "queued")
           \/ items[i].attempts + 1 >= MaxAttempts /\ Attempted(i, "dead")
    /\ UNCHANGED <<feed, hooks, cursor, taken, claims, accepted>>

Replay ==
    /\ \E i \in Items:
        /\ items[i].state = "dead"
        /\ items' = [items EXCEPT ![i] =
                        [state |-> "queued", payload |-> @.payload, attempts |-> 0]]
    /\ UNCHANGED <<feed, hooks, cursor, taken, claims, accepted>>

Next ==
    \/ Publish \/ Configure
    \/ Take \/ Settle \/ Advance \/ Release
    \/ Accept \/ Attempt \/ Replay

Spec == Init /\ [][Next]_queueVars

===============================================================================
