---------------------------- MODULE WebhookDispatch ----------------------------
(***************************************************************************)
(* Webhooks (internal/webhooks): the service that keeps the hooks and the  *)
(* dispatcher that turns Core's change events into deliveries.             *)
(*                                                                         *)
(* One goroutine runs the dispatcher: a tick polls every scope once and    *)
(* then makes one delivery pass.  A poll takes the events after the        *)
(* scope's cursor one by one; for an event it lists the hooks and, for     *)
(* each that matches, puts a materialization, lets the transform decide    *)
(* it, and creates the delivery; then it saves the cursor.  A delivery     *)
(* pass lists the deliveries and posts those that are due.  The handlers   *)
(* of the service change hooks and replay dead deliveries meanwhile.       *)
(*                                                                         *)
(* Every store call is one step (ControlStore shows that the store makes   *)
(* its calls atomic), and so is every call to Core, to the transform and   *)
(* to a receiver.  A call that reads what nobody else writes is part of    *)
(* the step that uses its result: the revisions, which never change, and   *)
(* the cursor, which only the dispatcher writes.                           *)
(***************************************************************************)
EXTENDS VersionedRecords, Sequences

CONSTANTS
    Clients,        \* handler slots of the HTTP server
    Hooks,          \* webhook IDs
    Scopes,         \* tenant/database scopes
    Topics,         \* what an event type and an object type tell apart
    Filters,        \* the sets of topics that a hook may ask for
    Payloads,       \* what a transform may render
    MaxAttempts,    \* a delivery that has failed this often is dead (8 in the code)
    Limit,          \* deliveries of one pass (100 in the code)
    MaxRevision,    \* bound: the highest revision of a hook
    MaxEvents,      \* bound: events of one scope
    MaxRepeats,     \* bound: how often a feed repeats an event
    MaxHookVersion, \* bound: writes of one hook record
    MaxReplays      \* bound: writes of one delivery before a replay

Revisions == 1 .. MaxRevision
Events == 1 .. MaxEvents

\* The key of a materialization and of its delivery: hook/revision/event.
Items == [hook: Hooks, rev: Revisions, scope: Scopes, event: Events]

VARIABLES
    feed,               \* Core: the topics of the events of each scope
    scopes,             \* the scopes that the dispatcher polls, as last refreshed
    hooks,              \* collection webhooks
    revisions,          \* collection webhook_revisions, by hook and number
    materializations,   \* collection webhook_materializations
    deliveries,         \* collection webhook_deliveries
    cursors,            \* collection webhook_change_cursors
    early,              \* deliveries whose NextAttemptAt has not come
    accepted,           \* receivers: the items that were accepted at least once
    disp,               \* local state of the dispatcher
    proc                \* local state of the handlers

records == <<hooks, revisions, materializations, deliveries, cursors>>
vars == <<feed, scopes, records, early, accepted, disp, proc>>

\* A hook's URL, reads and name change with its revision: they are not kept.
Hook == [rev: Revisions, scope: Scopes, filter: Filters, enabled: BOOLEAN]

ASSUME ConstantsAssumption ==
    /\ \A f \in Filters: f \subseteq Topics
    /\ MaxRevision \in Nat \ {0} /\ MaxAttempts \in Nat \ {0} /\ Limit \in Nat \ {0}
    /\ MaxEvents \in Nat /\ MaxRepeats \in Nat
    /\ MaxHookVersion \in Nat /\ MaxReplays \in Nat
    /\ NoValue \notin Payloads \cup Hook \cup [scope: Scopes, event: Events]

\* The revision that first had this source, and the one that first had this secret.
Revision == [source: Revisions, secret: Revisions]

\* What the transform makes of an event.
Fates ==
    [status: {"rendered"}, payload: Payloads]
        \cup [status: {"skipped", "dead"}, payload: {NoValue}]

Materialization ==
    [status: {"stored", "rendered", "skipped", "dead"}, payload: Payloads \cup {NoValue}]

Delivery ==
    [status: {"pending", "retry", "completed", "dead"},
     payload: Payloads \cup {NoValue}, attempts: 0 .. MaxAttempts]

\* A record as a list returned it: it may have changed since.
Copies == [item: Items, copy: RecordOf(Delivery)]

PollCalls == {"poll", "next", "list", "hooks", "put", "transform", "create"}
PassCalls == {"due", "pick", "record"}

Dispatching ==
    [call: {"idle"} \cup PollCalls \cup PassCalls,
     left: SUBSET Scopes,               \* scopes still to poll in this tick
     scope: Scopes \cup {NoValue},      \* the scope being polled,
     cver: Nat,                         \*   the version of its cursor,
     at: 0 .. MaxEvents,                \*   the event last done with,
     last: 0 .. MaxEvents,              \*   the last one that Core returned,
     event: 0 .. MaxEvents,             \*   and the one in hand
     claims: SUBSET Items,              \* one item for each hook that matched
     todo: SUBSET Items,                \* those not yet handled
     item: Items \cup {NoValue},        \* the one in hand,
     mver: Nat,                         \*   the version of its materialization,
     fate: Materialization,             \*   and what that says
     due: SUBSET Copies,                \* deliveries still to look at in this pass
     posted: RecordOf(Delivery),        \* the outcome of a post, to be recorded
     quota: 0 .. Limit]                 \* posts that the pass may still make

Stored == [status |-> "stored", payload |-> NoValue]

Rest ==
    [call |-> "idle", left |-> {}, scope |-> NoValue, cver |-> 0, at |-> 0, last |-> 0,
     event |-> 0, claims |-> {}, todo |-> {}, item |-> NoValue, mver |-> 0,
     fate |-> Stored, due |-> {}, posted |-> Absent, quota |-> 0]

Handling ==
    [call: {"idle", "update", "rotate", "disable", "replay"},
     hook: Hooks \cup {NoValue},
     read: RecordOf(Hook),              \* the hook as the handler read it
     dead: SUBSET Copies]               \* dead deliveries still to replay

Free == [call |-> "idle", hook |-> NoValue, read |-> Absent, dead |-> {}]

TypeOK ==
    /\ feed \in [Scopes -> Seq(Topics)] /\ \A s \in Scopes: Len(feed[s]) <= MaxEvents
    /\ scopes \subseteq Scopes
    /\ hooks \in [Hooks -> RecordOf(Hook)]
    /\ revisions \in [Hooks -> [Revisions -> RecordOf(Revision)]]
    /\ materializations \in [Items -> RecordOf(Materialization)]
    /\ deliveries \in [Items -> RecordOf(Delivery)]
    /\ cursors \in [Scopes -> RecordOf(0 .. MaxEvents)]
    /\ early \subseteq Items
    /\ accepted \subseteq Items
    /\ disp \in Dispatching
    /\ proc \in [Clients -> Handling]

Init ==
    /\ feed = [s \in Scopes |-> <<>>]
    /\ scopes = {}
    /\ hooks = [h \in Hooks |-> Absent]
    /\ revisions = [h \in Hooks |-> [n \in Revisions |-> Absent]]
    /\ materializations = [i \in Items |-> Absent]
    /\ deliveries = [i \in Items |-> Absent]
    /\ cursors = [s \in Scopes |-> Absent]
    /\ early = {}
    /\ accepted = {}
    /\ disp = Rest
    /\ proc = [c \in Clients |-> Free]

-------------------------------------------------------------------------------
(***************************************************************************)
(* Outside: Core, the clock and the tenants                                *)
(***************************************************************************)

CoreCommits ==
    /\ \E s \in Scopes, t \in Topics:
        /\ Len(feed[s]) < MaxEvents
        /\ feed' = [feed EXCEPT ![s] = Append(@, t)]
    /\ UNCHANGED <<scopes, records, early, accepted, disp, proc>>

BackoffEnds ==
    /\ \E i \in early: early' = early \ {i}
    /\ UNCHANGED <<feed, scopes, records, accepted, disp, proc>>

\* The goroutine refreshes its scopes between two ticks; which scopes the tenants
\* have is not this module's matter.
RefreshScopes ==
    /\ disp.call = "idle"
    /\ scopes' \in SUBSET Scopes
    /\ UNCHANGED <<feed, records, early, accepted, disp, proc>>

-------------------------------------------------------------------------------
(***************************************************************************)
(* A tick, and PollOnce                                                    *)
(***************************************************************************)

At(call) == disp.call = call

\* The step changes the dispatcher's own state only.
Silent == UNCHANGED <<feed, scopes, records, early, accepted, proc>>

Tick ==
    /\ At("idle")
    /\ disp' = [Rest EXCEPT !.call = "poll", !.left = scopes]
    /\ Silent

CursorOf(s) == IF Present(cursors[s]) THEN cursors[s].val ELSE 0

\* The cursor is read, and then the events after it, up to the limit.
BeginPoll ==
    /\ At("poll")
    /\ \E s \in disp.left, last \in 0 .. MaxEvents:
        /\ CursorOf(s) <= last /\ last <= Len(feed[s])
        /\ last = CursorOf(s) => Len(feed[s]) = CursorOf(s)
        /\ disp' = [disp EXCEPT !.call = "next", !.left = @ \ {s}, !.scope = s,
                                !.cver = cursors[s].ver, !.at = CursorOf(s), !.last = last]
    /\ Silent

\* The next event, or the last one again: events may repeat.
NextEvent ==
    /\ At("next")
    /\ \E n \in {disp.at, disp.at + 1} \cap (1 .. disp.last):
        /\ n = disp.at => disp.cver < disp.at + MaxRepeats
        /\ disp' = [disp EXCEPT !.call = "list", !.event = n]
    /\ Silent

\* The poll of a scope is over: no more events, or an error.
PollEnded == [Rest EXCEPT !.call = "poll", !.left = disp.left]

EndPoll ==
    /\ At("next") /\ disp.at = disp.last
    /\ disp' = PollEnded
    /\ Silent

EndPolls ==
    /\ At("poll") /\ disp.left = {}
    /\ disp' = [Rest EXCEPT !.call = "due"]
    /\ Silent

SaveCursor ==
    /\ At("hooks") /\ disp.todo = {}
    /\ IF Matches(cursors[disp.scope], disp.cver)
       THEN /\ cursors' = [cursors EXCEPT ![disp.scope] = Written(@, disp.event)]
            /\ disp' = [disp EXCEPT !.call = "next", !.cver = @ + 1, !.at = disp.event,
                                    !.event = 0, !.claims = {}]
       ELSE /\ disp' = PollEnded
            /\ UNCHANGED cursors
    /\ UNCHANGED <<feed, scopes, hooks, revisions, materializations, deliveries,
                   early, accepted, proc>>

-------------------------------------------------------------------------------
(***************************************************************************)
(* processEvent                                                            *)
(***************************************************************************)

\* Seeded fault: the scope is not compared.
MatchesHookAnywhere(hook, s, n) == hook.enabled /\ feed[s][n] \in hook.filter

MatchesHook(hook, s, n) ==
    hook.enabled /\ hook.scope = s /\ feed[s][n] \in hook.filter

ListHooks ==
    /\ At("list")
    /\ LET matching == {h \in Hooks: Present(hooks[h])
                                     /\ MatchesHook(hooks[h].val, disp.scope, disp.event)}
           claims == {[hook |-> h, rev |-> hooks[h].val.rev,
                       scope |-> disp.scope, event |-> disp.event]: h \in matching}
       IN disp' = [disp EXCEPT !.call = "hooks", !.claims = claims, !.todo = claims]
    /\ Silent

\* The hook is done with, and the next one is looked at.
HookDone ==
    [disp EXCEPT !.call = "hooks", !.todo = @ \ {disp.item},
                 !.item = NoValue, !.mver = 0, !.fate = Stored]

\* Seeded fault: the delivery of a materialization that was found is made without
\* its payload.
GetMaterializationWithoutPayload ==
    /\ At("hooks")
    /\ \E i \in disp.todo:
        LET found == materializations[i] IN
        \/ /\ ~Present(found)
           /\ disp' = [disp EXCEPT !.call = "put", !.item = i]
        \/ /\ Present(found) /\ found.val.status = "stored"
           /\ disp' = [disp EXCEPT !.call = "transform", !.item = i, !.mver = found.ver]
        \/ /\ Present(found) /\ found.val.status \in {"rendered", "dead"}
           /\ disp' = [disp EXCEPT !.call = "create", !.item = i,
                                   !.fate = [found.val EXCEPT !.payload = NoValue]]
        \/ /\ Present(found) /\ found.val.status = "skipped"
           /\ disp' = [disp EXCEPT !.todo = @ \ {i}]
    /\ Silent

\* What an earlier try of the event left behind decides how this one goes on.
GetMaterialization ==
    /\ At("hooks")
    /\ \E i \in disp.todo:
        LET found == materializations[i] IN
        \/ /\ ~Present(found)
           /\ disp' = [disp EXCEPT !.call = "put", !.item = i]
        \/ /\ Present(found) /\ found.val.status = "stored"
           /\ disp' = [disp EXCEPT !.call = "transform", !.item = i, !.mver = found.ver]
        \/ /\ Present(found) /\ found.val.status \in {"rendered", "dead"}
           /\ disp' = [disp EXCEPT !.call = "create", !.item = i, !.fate = found.val]
        \/ /\ Present(found) /\ found.val.status = "skipped"
           /\ disp' = [disp EXCEPT !.todo = @ \ {i}]
    /\ Silent

\* Core materializes the event; on a conflict the record is read again.
PutMaterialization ==
    /\ At("put")
    /\ IF Matches(materializations[disp.item], 0)
       THEN /\ materializations' = [materializations EXCEPT ![disp.item] = Written(@, Stored)]
            /\ disp' = [disp EXCEPT !.call = "transform",
                                    !.mver = materializations'[disp.item].ver]
       ELSE /\ disp' = [disp EXCEPT !.call = "hooks", !.item = NoValue]
            /\ UNCHANGED materializations
    /\ UNCHANGED <<feed, scopes, hooks, revisions, deliveries, cursors, early, accepted, proc>>

\* The transform runs and its fate is recorded: it renders a payload, does not match
\* the event, or fails (an exception, its time or memory used up).
Transform ==
    /\ At("transform")
    /\ \E fate \in Fates:
        IF Matches(materializations[disp.item], disp.mver)
        THEN /\ materializations' = [materializations EXCEPT ![disp.item] = Written(@, fate)]
             /\ disp' = IF fate.status = "skipped" THEN HookDone
                        ELSE [disp EXCEPT !.call = "create", !.mver = 0, !.fate = fate]
        ELSE /\ disp' = PollEnded
             /\ UNCHANGED materializations
    /\ UNCHANGED <<feed, scopes, hooks, revisions, deliveries, cursors, early, accepted, proc>>

\* A failed transform makes a delivery that is dead from the start.
FirstDelivery(fate) ==
    [status |-> IF fate.status = "dead" THEN "dead" ELSE "pending",
     payload |-> fate.payload, attempts |-> 0]

\* Seeded fault: a delivery that already exists is an error.
CreateDeliveryOnce ==
    /\ At("create")
    /\ IF Matches(deliveries[disp.item], 0)
       THEN /\ deliveries' = [deliveries EXCEPT ![disp.item] = Written(@, FirstDelivery(disp.fate))]
            /\ disp' = HookDone
       ELSE /\ disp' = PollEnded
            /\ UNCHANGED deliveries
    /\ UNCHANGED <<feed, scopes, hooks, revisions, materializations, cursors,
                   early, accepted, proc>>

\* A delivery that already exists is left as it is.
CreateDelivery ==
    /\ At("create")
    /\ deliveries' = IF Matches(deliveries[disp.item], 0)
                     THEN [deliveries EXCEPT ![disp.item] = Written(@, FirstDelivery(disp.fate))]
                     ELSE deliveries
    /\ disp' = HookDone
    /\ UNCHANGED <<feed, scopes, hooks, revisions, materializations, cursors,
                   early, accepted, proc>>

-------------------------------------------------------------------------------
(***************************************************************************)
(* DeliverDue                                                              *)
(***************************************************************************)

DeliveriesIn(statuses) ==
    {[item |-> i, copy |-> deliveries[i]]:
        i \in {j \in Items: Present(deliveries[j]) /\ deliveries[j].val.status \in statuses}}

\* Seeded fault: a delivery that is to be retried is not listed.
ListDeliveriesOnce ==
    /\ At("due")
    /\ disp' = [disp EXCEPT !.call = "pick", !.quota = Limit, !.due = DeliveriesIn({"pending"})]
    /\ Silent

ListDeliveries ==
    /\ At("due")
    /\ disp' = [disp EXCEPT !.call = "pick", !.quota = Limit,
                            !.due = DeliveriesIn({"pending", "retry"})]
    /\ Silent

SkipEarly ==
    /\ At("pick") /\ disp.quota > 0
    /\ \E d \in disp.due: d.item \in early /\ disp' = [disp EXCEPT !.due = @ \ {d}]
    /\ Silent

\* Seeded fault: attempts are compared before they are counted.
AttemptedLate(delivery, answered) ==
    [delivery EXCEPT
        !.attempts = @ + 1,
        !.status = IF answered THEN "completed"
                   ELSE IF delivery.attempts >= MaxAttempts THEN "dead" ELSE "retry"]

\* A delivery after one more attempt; answered: with a status of the 2xx range.
Attempted(delivery, answered) ==
    [delivery EXCEPT
        !.attempts = @ + 1,
        !.status = IF answered THEN "completed"
                   ELSE IF delivery.attempts + 1 >= MaxAttempts THEN "dead" ELSE "retry"]

\* The receiver accepts the post or does not, and an acceptance may be lost on its
\* way back.
Post ==
    /\ At("pick") /\ disp.quota > 0
    /\ \E d \in disp.due, accepts, answered \in BOOLEAN:
        /\ d.item \notin early
        /\ answered => accepts
        /\ accepted' = IF accepts THEN accepted \cup {d.item} ELSE accepted
        /\ disp' = [disp EXCEPT
                        !.call = "record", !.item = d.item, !.due = @ \ {d},
                        !.posted = [d.copy EXCEPT !.val = Attempted(@, answered)]]
    /\ UNCHANGED <<feed, scopes, records, early, proc>>

\* The outcome is put with the version that the list returned; a conflict ends the
\* pass.
RecordDelivery ==
    /\ At("record")
    /\ LET i == disp.item
           outcome == disp.posted.val
       IN IF Matches(deliveries[i], disp.posted.ver)
          THEN /\ deliveries' = [deliveries EXCEPT ![i] = Written(@, outcome)]
               /\ early' = IF outcome.status = "retry" THEN early \cup {i} ELSE early
               /\ disp' = [disp EXCEPT !.call = "pick", !.item = NoValue,
                                       !.posted = Absent, !.quota = @ - 1]
          ELSE /\ disp' = Rest
               /\ UNCHANGED <<deliveries, early>>
    /\ UNCHANGED <<feed, scopes, hooks, revisions, materializations, cursors, accepted, proc>>

EndPass ==
    /\ At("pick")
    /\ disp.due = {} \/ disp.quota = 0
    /\ disp' = Rest
    /\ Silent

-------------------------------------------------------------------------------
(***************************************************************************)
(* The service's handlers                                                  *)
(***************************************************************************)

\* A new hook gets a random ID and its first revision in one transaction.
Register(c) ==
    /\ proc[c].call = "idle"
    /\ \E h \in Hooks, s \in Scopes, f \in Filters:
        /\ ~Present(hooks[h])
        /\ hooks' = [hooks EXCEPT ![h] =
                        Written(@, [rev |-> 1, scope |-> s, filter |-> f, enabled |-> TRUE])]
        /\ revisions' = [revisions EXCEPT ![h][1] = Written(@, [source |-> 1, secret |-> 1])]
    /\ UNCHANGED <<feed, scopes, materializations, deliveries, cursors, early, accepted,
                   disp, proc>>

\* Update, RotateSecret and Disable read the hook first.
ReadHook(c) ==
    /\ proc[c].call = "idle"
    /\ \E h \in Hooks, call \in {"update", "rotate", "disable"}:
        /\ Present(hooks[h])
        /\ hooks[h].ver < MaxHookVersion
        /\ call # "disable" => hooks[h].val.rev < MaxRevision
        /\ proc' = [proc EXCEPT ![c] = [Free EXCEPT !.call = call, !.hook = h, !.read = hooks[h]]]
    /\ UNCHANGED <<feed, scopes, records, early, accepted, disp>>

\* One transaction puts the next revision, which must be new, and the hook, which
\* must be the one that was read; it changes nothing where a check fails.
PutRevision(c, revision, hook) ==
    LET h == proc[c].hook
        n == proc[c].read.val.rev + 1
    IN IF Matches(revisions[h][n], 0) /\ Matches(hooks[h], proc[c].read.ver)
       THEN /\ revisions' = [revisions EXCEPT ![h][n] = Written(@, revision)]
            /\ hooks' = [hooks EXCEPT ![h] = Written(@, hook)]
       ELSE UNCHANGED <<revisions, hooks>>

Prior(c) == revisions[proc[c].hook][proc[c].read.val.rev].val

\* An update may change all but the secret, and enables the hook.
Update(c) ==
    /\ proc[c].call = "update"
    /\ \E s \in Scopes, f \in Filters:
        LET n == proc[c].read.val.rev + 1 IN
        PutRevision(c, [Prior(c) EXCEPT !.source = n],
                       [rev |-> n, scope |-> s, filter |-> f, enabled |-> TRUE])
    /\ proc' = [proc EXCEPT ![c] = Free]
    /\ UNCHANGED <<feed, scopes, materializations, deliveries, cursors, early, accepted, disp>>

RotateSecret(c) ==
    /\ proc[c].call = "rotate"
    /\ LET n == proc[c].read.val.rev + 1 IN
       PutRevision(c, [Prior(c) EXCEPT !.secret = n], [proc[c].read.val EXCEPT !.rev = n])
    /\ proc' = [proc EXCEPT ![c] = Free]
    /\ UNCHANGED <<feed, scopes, materializations, deliveries, cursors, early, accepted, disp>>

\* Seeded fault: the hook is put whatever was written since it was read.
DisableUnchecked(c) ==
    /\ proc[c].call = "disable"
    /\ hooks' = [hooks EXCEPT ![proc[c].hook] =
                    Written(@, [proc[c].read.val EXCEPT !.enabled = FALSE])]
    /\ proc' = [proc EXCEPT ![c] = Free]
    /\ UNCHANGED <<feed, scopes, revisions, materializations, deliveries, cursors,
                   early, accepted, disp>>

Disable(c) ==
    /\ proc[c].call = "disable"
    /\ LET h == proc[c].hook IN
       hooks' = IF Matches(hooks[h], proc[c].read.ver)
                THEN [hooks EXCEPT ![h] = Written(@, [proc[c].read.val EXCEPT !.enabled = FALSE])]
                ELSE hooks
    /\ proc' = [proc EXCEPT ![c] = Free]
    /\ UNCHANGED <<feed, scopes, revisions, materializations, deliveries, cursors,
                   early, accepted, disp>>

\* Replay lists the deliveries of the hook and keeps the dead ones.
BeginReplay(c) ==
    /\ proc[c].call = "idle"
    /\ \E h \in Hooks:
        LET dead == {d \in DeliveriesIn({"dead"}): d.item.hook = h} IN
        /\ dead # {}
        /\ \A d \in dead: d.copy.ver < MaxReplays
        /\ proc' = [proc EXCEPT ![c] = [Free EXCEPT !.call = "replay", !.hook = h, !.dead = dead]]
    /\ UNCHANGED <<feed, scopes, records, early, accepted, disp>>

\* Seeded fault: the delivery is put whatever was written since the list.
ReplayNextUnchecked(c) ==
    /\ proc[c].call = "replay"
    /\ \E d \in proc[c].dead:
        /\ deliveries' = [deliveries EXCEPT ![d.item] =
                             Written(@, [d.copy.val EXCEPT !.status = "pending", !.attempts = 0])]
        /\ early' = early \ {d.item}
        /\ proc' = [proc EXCEPT ![c] = IF proc[c].dead = {d} THEN Free
                                       ELSE [proc[c] EXCEPT !.dead = @ \ {d}]]
    /\ UNCHANGED <<feed, scopes, hooks, revisions, materializations, cursors, accepted, disp>>

\* A dead delivery is queued again with no attempts made; a conflict ends the replay.
ReplayNext(c) ==
    /\ proc[c].call = "replay"
    /\ \E d \in proc[c].dead:
        IF Matches(deliveries[d.item], d.copy.ver)
        THEN /\ deliveries' = [deliveries EXCEPT ![d.item] =
                    Written(@, [d.copy.val EXCEPT !.status = "pending", !.attempts = 0])]
             /\ early' = early \ {d.item}
             /\ proc' = [proc EXCEPT ![c] = IF proc[c].dead = {d} THEN Free
                                            ELSE [proc[c] EXCEPT !.dead = @ \ {d}]]
        ELSE /\ proc' = [proc EXCEPT ![c] = Free]
             /\ UNCHANGED <<deliveries, early>>
    /\ UNCHANGED <<feed, scopes, hooks, revisions, materializations, cursors, accepted, disp>>

-------------------------------------------------------------------------------
(***************************************************************************)
(* Faults                                                                  *)
(***************************************************************************)

\* Seeded fault: an error in one hook is logged and the next hook is looked at.
FailHook ==
    /\ disp.call \in {"put", "transform", "create"}
    /\ disp' = HookDone
    /\ Silent

\* A call to the store or to Core fails: the poll of this scope or the delivery pass
\* ends with the error, which the goroutine logs.
Fail ==
    /\ \/ disp.call \in PollCalls \ {"poll"} /\ disp' = PollEnded
       \/ disp.call \in PassCalls /\ disp' = Rest
    /\ Silent

\* The caller is gone, or a store call fails.
Cancel(c) ==
    /\ proc[c].call # "idle"
    /\ proc' = [proc EXCEPT ![c] = Free]
    /\ UNCHANGED <<feed, scopes, records, early, accepted, disp>>

\* The server process ends and is started again.
Crash ==
    /\ scopes' = {}
    /\ disp' = Rest
    /\ proc' = [c \in Clients |-> Free]
    /\ UNCHANGED <<feed, records, early, accepted>>

-------------------------------------------------------------------------------

Poll == BeginPoll \/ NextEvent \/ EndPoll \/ EndPolls \/ SaveCursor
ProcessEvent == ListHooks \/ GetMaterialization \/ PutMaterialization \/ Transform \/ CreateDelivery
DeliverDue == ListDeliveries \/ SkipEarly \/ Post \/ RecordDelivery \/ EndPass

RunDispatcher == Tick \/ Poll \/ ProcessEvent \/ DeliverDue

Handle(c) ==
    \/ Register(c) \/ ReadHook(c)
    \/ Update(c) \/ RotateSecret(c) \/ Disable(c)
    \/ BeginReplay(c) \/ ReplayNext(c)

Next ==
    \/ RunDispatcher
    \/ RefreshScopes
    \/ \E c \in Clients: Handle(c) \/ Cancel(c)
    \/ CoreCommits
    \/ BackoffEnds
    \/ Fail
    \/ Crash

Spec == Init /\ [][Next]_vars

\* The dispatcher goes on, and time passes.
Fairness == WF_vars(RunDispatcher) /\ WF_vars(BackoffEnds)

FairSpec == Spec /\ Fairness

-------------------------------------------------------------------------------
(***************************************************************************)
(* Properties                                                              *)
(***************************************************************************)

\* The revisions of a hook are those from 1 to its active one, whatever handlers
\* raced for the next number, and each one takes over from the one before it what
\* it does not change: a rotated secret is never replaced by an older one.
RevisionsInOrder ==
    \A h \in Hooks:
        /\ {n \in Revisions: Present(revisions[h][n])}
              = IF Present(hooks[h]) THEN 1 .. hooks[h].val.rev ELSE {}
        /\ \A n \in Revisions \ {1}: Present(revisions[h][n]) =>
            LET this == revisions[h][n].val
                prior == revisions[h][n - 1].val
            IN \/ this = [prior EXCEPT !.source = n]
               \/ this = [prior EXCEPT !.secret = n]

\* A delivery has the payload that its materialization records, whichever of two
\* tries of the event made the one and the other, and none exists for an event that
\* the transform skipped or has not decided.
DeliveryIsMaterialized ==
    \A i \in Items: Present(deliveries[i]) =>
        /\ Present(materializations[i])
        /\ materializations[i].val.status \in {"rendered", "dead"}
        /\ deliveries[i].val.payload = materializations[i].val.payload

Skipped(i) == Present(materializations[i]) /\ materializations[i].val.status = "skipped"

\* What an item is in the queue's eyes.
ItemState(i) ==
    IF Present(deliveries[i])
    THEN [state |-> IF deliveries[i].val.status \in {"pending", "retry"} THEN "queued"
                    ELSE deliveries[i].val.status,
          payload |-> deliveries[i].val.payload,
          attempts |-> deliveries[i].val.attempts]
    ELSE [state |-> IF Skipped(i) THEN "skipped" ELSE "none",
          payload |-> NoValue, attempts |-> 0]

\* An event is taken once its hooks are listed.
EventInHand ==
    IF disp.call \in {"hooks", "put", "transform", "create"}
    THEN [scope |-> disp.scope, event |-> disp.event]
    ELSE NoValue

Queue == INSTANCE WebhookQueue WITH
    hooks <- [h \in Hooks |-> hooks[h].val],
    cursor <- [s \in Scopes |-> CursorOf(s)],
    taken <- EventInHand,
    claims <- disp.claims,
    items <- [i \in Items |-> ItemState(i)]

\* The records of hooks, materializations, deliveries and cursors behave as
\* WebhookQueue says: the cursor passes no event that a hook is owed, what is
\* settled stays settled, a delivery completes only after its receiver accepted it,
\* and only a replay revives a dead one.
ImplementsQueue == Queue!Spec

\* From some time on no fault ends a poll or a pass, and all scopes are polled.  A
\* step that the dispatcher's own course ends with is not a fault.
Calm == <>[][Fail \/ Crash => RunDispatcher]_vars /\ <>[](scopes = Scopes)

\* Every event that Core commits is processed in the end, whatever was left behind
\* by the faults before.
EventsPass ==
    Calm => \A s \in Scopes, n \in Events: Len(feed[s]) >= n ~> CursorOf(s) >= n

\* Every delivery is accepted or given up in the end, although a pass makes only so
\* many posts.
DeliveriesSettle ==
    Calm => \A i \in Items:
        []<>(Present(deliveries[i]) => deliveries[i].val.status \in {"completed", "dead"})

===============================================================================
