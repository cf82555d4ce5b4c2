----------------------------- MODULE WebhookProofs -----------------------------
(***************************************************************************)
(* Theorems about WebhookDispatch, for any hooks, scopes, topics, filters, *)
(* payloads, handlers and bounds.                                          *)
(***************************************************************************)
EXTENDS WebhookDispatch, TLAPS

(***************************************************************************)
(* What a handler has read may be old when it writes.  If the version is   *)
(* still the one it read, so is the record.                                *)
(***************************************************************************)

HoldsHook(c) ==
    proc[c].call \in {"update", "rotate", "disable"} =>
        LET hook == hooks[proc[c].hook]
            read == proc[c].read
        IN /\ proc[c].hook \in Hooks /\ Present(read) /\ Present(hook)
           /\ read.ver <= hook.ver /\ read.val.rev <= hook.val.rev
           /\ read.ver = hook.ver => read = hook
           /\ proc[c].call # "disable" => read.val.rev < MaxRevision

HoldsDead(c) ==
    \A d \in proc[c].dead:
        /\ Present(d.copy) /\ d.copy.val.status = "dead"
        /\ d.copy.ver <= deliveries[d.item].ver
        /\ d.copy.ver = deliveries[d.item].ver => d.copy = deliveries[d.item]

(***************************************************************************)
(* What the dispatcher has in hand is never old: nobody else writes the    *)
(* materializations, the cursors and the deliveries that are not dead.     *)
(***************************************************************************)

Waiting == {"pending", "retry"}

OutcomesKnown ==
    \A i \in Items:
        /\ materializations[i] \in RecordOf(Fates \cup {Stored})
        /\ Present(deliveries[i]) /\ deliveries[i].val.status \in Waiting =>
             deliveries[i].val.attempts < MaxAttempts

EventCalls == {"hooks", "put", "transform", "create"}

Settled(i) == Present(deliveries[i]) \/ Skipped(i)

\* The scope in hand and how far it is polled.
PollsScope ==
    disp.call \in PollCalls \ {"poll"} =>
        /\ disp.scope \in Scopes
        /\ disp.cver = cursors[disp.scope].ver /\ disp.at = CursorOf(disp.scope)
        /\ disp.at <= disp.last /\ disp.last <= Len(feed[disp.scope])
        /\ disp.call # "next" => disp.event \in {disp.at, disp.at + 1} \cap (1 .. disp.last)

\* The event in hand: the claims that are not still to do are settled.
HandlesEvent ==
    IF disp.call \in EventCalls
    THEN disp.todo \subseteq disp.claims /\ \A i \in disp.claims \ disp.todo: Settled(i)
    ELSE disp.claims = {}

\* The item in hand and what is known of its materialization.
HandlesItem ==
    /\ disp.call \in {"put", "transform", "create"} => disp.item \in disp.todo
    /\ disp.call = "transform" =>
        disp.mver # 0 /\ materializations[disp.item] = [ver |-> disp.mver, val |-> Stored]
    /\ disp.call = "create" =>
        /\ Present(materializations[disp.item])
        /\ materializations[disp.item].val = disp.fate
        /\ disp.fate.status \in {"rendered", "dead"}

\* The deliveries of a pass are as they were listed, and the outcome of a post is of
\* the delivery as it is.
DeliversListed ==
    /\ disp.due \subseteq DeliveriesIn(Waiting)
    /\ disp.call = "record" =>
        /\ disp.item \in Items /\ disp.quota # 0
        /\ Present(deliveries[disp.item]) /\ deliveries[disp.item].val.status \in Waiting
        /\ \A d \in disp.due: d.item # disp.item
        /\ disp.posted.ver = deliveries[disp.item].ver
        /\ \E answered \in BOOLEAN:
            /\ disp.posted.val = Attempted(deliveries[disp.item].val, answered)
            /\ answered => disp.item \in accepted

InHand == PollsScope /\ HandlesEvent /\ HandlesItem /\ DeliversListed

IInv ==
    /\ TypeOK
    /\ RevisionsInOrder /\ \A c \in Clients: HoldsHook(c)
    /\ DeliveryIsMaterialized /\ OutcomesKnown /\ \A c \in Clients: HoldsDead(c)
    /\ InHand

USE ConstantsAssumption

-------------------------------------------------------------------------------
(***************************************************************************)
(* Records                                                                 *)
(***************************************************************************)

LEMMA RecordFacts ==
    ASSUME NEW V, NEW r \in RecordOf(V)
    PROVE  /\ r.ver \in Nat
           /\ Present(r) => r.val \in V
           /\ ~Present(r) => r = Absent
           /\ r.ver = 0 <=> ~Present(r)
           /\ r = [ver |-> r.ver, val |-> r.val]
           /\ \A n \in Nat: Matches(r, n) <=> r.ver = n
  BY DEF RecordOf, Present, Absent, Matches, Unchecked

LEMMA WrittenFacts ==
    ASSUME NEW V, NEW r \in RecordOf(V), NEW v \in V
    PROVE  /\ Written(r, v) \in RecordOf(V)
           /\ Present(Written(r, v))
           /\ Written(r, v).ver = r.ver + 1 /\ Written(r, v).val = v
  BY DEF RecordOf, Present, Absent, Written

LEMMA AbsentFacts ==
    \A V: Absent \in RecordOf(V) /\ ~Present(Absent)
  BY DEF RecordOf, Absent, Present

LEMMA RestFacts ==
    /\ Rest \in Dispatching /\ Rest.call = "idle" /\ Rest.claims = {} /\ Rest.due = {}
    /\ Rest.todo = {}
  BY AbsentFacts DEF Rest, Dispatching, Stored, Materialization

LEMMA FreeFacts ==
    Free \in Handling /\ Free.call = "idle" /\ Free.dead = {}
  BY AbsentFacts DEF Free, Handling

LEMMA PollEndedFacts ==
    ASSUME TypeOK
    PROVE  /\ PollEnded \in Dispatching /\ PollEnded.call = "poll" /\ PollEnded.claims = {}
           /\ PollEnded.due = {}
  BY RestFacts DEF PollEnded, TypeOK, Dispatching, PollCalls

\* What a dispatcher that has nothing in hand has to remember.
LEMMA NothingInHand ==
    ASSUME disp'.call \in {"idle", "poll", "due"}, disp'.claims = {}, disp'.due = {}
    PROVE  InHand'
  BY DEF InHand, PollsScope, HandlesEvent, HandlesItem, DeliversListed, EventCalls, PollCalls

LEMMA InitIInv == Init => IInv
<1> SUFFICES ASSUME Init PROVE IInv
  OBVIOUS
<1>1. TypeOK
  BY RestFacts, FreeFacts, AbsentFacts DEF Init, TypeOK
<1>2. RevisionsInOrder /\ DeliveryIsMaterialized /\ OutcomesKnown
  BY AbsentFacts DEF Init, RevisionsInOrder, DeliveryIsMaterialized, OutcomesKnown
<1>3. ASSUME NEW c \in Clients PROVE HoldsHook(c) /\ HoldsDead(c)
  BY FreeFacts DEF Init, HoldsHook, HoldsDead
<1>4. InHand
  BY RestFacts DEF Init, InHand, PollsScope, HandlesEvent, HandlesItem, DeliversListed,
     EventCalls, PollCalls
<1>5. QED
  BY <1>1, <1>2, <1>3, <1>4 DEF IInv

-------------------------------------------------------------------------------
(***************************************************************************)
(* Steps that change the dispatcher's own state only                       *)
(***************************************************************************)

LEMMA SilentStep ==
    ASSUME IInv, Silent, disp' \in Dispatching, InHand'
    PROVE  IInv'
<1>1. TypeOK'
  BY DEF IInv, TypeOK, Silent, records
<1>2. RevisionsInOrder' /\ DeliveryIsMaterialized' /\ OutcomesKnown'
  BY DEF IInv, Silent, records, RevisionsInOrder, DeliveryIsMaterialized, OutcomesKnown
<1>3. ASSUME NEW c \in Clients PROVE HoldsHook(c)' /\ HoldsDead(c)'
  BY DEF IInv, Silent, records, HoldsHook, HoldsDead
<1>4. QED
  BY <1>1, <1>2, <1>3 DEF IInv

\* What is derived from the records alone.
LEMMA RecordsKept ==
    ASSUME UNCHANGED <<materializations, deliveries>>
    PROVE  /\ \A S: DeliveriesIn(S)' = DeliveriesIn(S)
           /\ \A i: Settled(i)' = Settled(i)
  BY DEF DeliveriesIn, Settled, Skipped

LEMMA CursorsKept ==
    ASSUME UNCHANGED cursors
    PROVE  \A s: CursorOf(s)' = CursorOf(s)
  BY DEF CursorOf

LEMMA RestStep ==
    ASSUME IInv, Silent, disp' = Rest \/ disp' = PollEnded
    PROVE  IInv'
  BY SilentStep, RestFacts, PollEndedFacts, NothingInHand DEF IInv

LEMMA TickStep == IInv /\ Tick => IInv'
<1> SUFFICES ASSUME IInv, Tick PROVE IInv'
  OBVIOUS
<1>1. disp' \in Dispatching /\ disp'.call = "poll" /\ disp'.claims = {} /\ disp'.due = {}
  BY RestFacts DEF Tick, IInv, TypeOK, Dispatching, PollCalls
<1>2. QED
  BY <1>1, SilentStep, NothingInHand DEF Tick

LEMMA EndPollsStep == IInv /\ EndPolls => IInv'
<1> SUFFICES ASSUME IInv, EndPolls PROVE IInv'
  OBVIOUS
<1>1. disp' \in Dispatching /\ disp'.call = "due" /\ disp'.claims = {} /\ disp'.due = {}
  BY RestFacts DEF EndPolls, Dispatching, PassCalls
<1>2. QED
  BY <1>1, SilentStep, NothingInHand DEF EndPolls

LEMMA BeginPollStep == IInv /\ BeginPoll => IInv'
<1> SUFFICES ASSUME IInv, BeginPoll PROVE IInv'
  OBVIOUS
<1>1. PICK s \in disp.left, last \in 0 .. MaxEvents:
        /\ CursorOf(s) <= last /\ last <= Len(feed[s])
        /\ disp' = [disp EXCEPT !.call = "next", !.left = @ \ {s}, !.scope = s,
                                !.cver = cursors[s].ver, !.at = CursorOf(s), !.last = last]
  BY DEF BeginPoll
<1>2. disp \in Dispatching /\ disp.call = "poll" /\ s \in Scopes /\ Silent
  BY DEF BeginPoll, At, IInv, TypeOK, Dispatching
<1>3. cursors[s].ver \in Nat /\ CursorOf(s) \in 0 .. MaxEvents
  BY <1>2, RecordFacts DEF IInv, TypeOK, CursorOf
<1>4. disp' \in Dispatching
  BY <1>1, <1>2, <1>3 DEF Dispatching, PollCalls
<1>5. PollsScope'
  BY <1>1, <1>2, CursorsKept DEF PollsScope, Dispatching, Silent, records
<1>6. HandlesEvent' /\ HandlesItem'
  BY <1>1, <1>2 DEF IInv, InHand, HandlesEvent, HandlesItem, EventCalls, Dispatching
<1>7. DeliversListed'
  BY <1>1, <1>2, RecordsKept DEF IInv, InHand, DeliversListed, Dispatching, Silent, records
<1>8. QED
  BY <1>2, <1>4, <1>5, <1>6, <1>7, SilentStep DEF InHand

LEMMA NextEventStep == IInv /\ NextEvent => IInv'
<1> SUFFICES ASSUME IInv, NextEvent PROVE IInv'
  OBVIOUS
<1>1. PICK n \in {disp.at, disp.at + 1} \cap (1 .. disp.last):
        disp' = [disp EXCEPT !.call = "list", !.event = n]
  BY DEF NextEvent
<1>2. disp \in Dispatching /\ disp.call = "next" /\ Silent
  BY DEF NextEvent, At, IInv, TypeOK
<1>3. n \in 0 .. MaxEvents
  BY <1>2 DEF Dispatching
<1>4. disp' \in Dispatching
  BY <1>1, <1>2, <1>3 DEF Dispatching, PollCalls
<1>5. PollsScope'
  BY <1>1, <1>2, CursorsKept DEF IInv, InHand, PollsScope, Dispatching, Silent, records, PollCalls
<1>6. HandlesEvent' /\ HandlesItem'
  BY <1>1, <1>2 DEF IInv, InHand, HandlesEvent, HandlesItem, EventCalls, Dispatching
<1>7. DeliversListed'
  BY <1>1, <1>2, RecordsKept DEF IInv, InHand, DeliversListed, Dispatching, Silent, records
<1>8. QED
  BY <1>2, <1>4, <1>5, <1>6, <1>7, SilentStep DEF InHand

\* The hooks that an event concerns, and the items that it owes them.
Matching == {h \in Hooks: Present(hooks[h]) /\ MatchesHook(hooks[h].val, disp.scope, disp.event)}
Claims ==
    {[hook |-> h, rev |-> hooks[h].val.rev, scope |-> disp.scope, event |-> disp.event]: h \in Matching}

LEMMA ClaimsAreItems ==
    ASSUME TypeOK, disp.scope \in Scopes, disp.event \in Events
    PROVE  Claims \subseteq Items
<1>1. ASSUME NEW h \in Matching
      PROVE  [hook |-> h, rev |-> hooks[h].val.rev, scope |-> disp.scope, event |-> disp.event] \in Items
  <2>1. h \in Hooks /\ Present(hooks[h]) /\ hooks[h] \in RecordOf(Hook)
    BY <1>1 DEF Matching, TypeOK
  <2>2. hooks[h].val \in Hook
    BY <2>1, RecordFacts
  <2>3. QED
    BY <2>1, <2>2 DEF Items, Hook
<1>2. QED
  BY <1>1 DEF Claims

LEMMA ListHooksStep == IInv /\ ListHooks => IInv'
<1> SUFFICES ASSUME IInv, ListHooks PROVE IInv'
  OBVIOUS
<1>1. disp' = [disp EXCEPT !.call = "hooks", !.claims = Claims, !.todo = Claims]
  BY DEF ListHooks, Claims, Matching
<1>2. disp \in Dispatching /\ disp.call = "list" /\ Silent
  BY DEF ListHooks, At, IInv, TypeOK
<1>3. disp.scope \in Scopes /\ disp.event \in Events
  BY <1>2 DEF IInv, InHand, PollsScope, PollCalls, Dispatching, Events
<1>4. Claims \subseteq Items
  BY <1>3, ClaimsAreItems DEF IInv
<1>5. disp' \in Dispatching
  BY <1>1, <1>2, <1>4 DEF Dispatching, PollCalls
<1>6. PollsScope'
  BY <1>1, <1>2, CursorsKept DEF IInv, InHand, PollsScope, Dispatching, Silent, records, PollCalls
<1>7. HandlesEvent' /\ HandlesItem'
  BY <1>1, <1>2 DEF HandlesEvent, HandlesItem, EventCalls, Dispatching
<1>8. DeliversListed'
  BY <1>1, <1>2, RecordsKept DEF IInv, InHand, DeliversListed, Dispatching, Silent, records
<1>9. QED
  BY <1>2, <1>5, <1>6, <1>7, <1>8, SilentStep DEF InHand

LEMMA GetMaterializationStep == IInv /\ GetMaterialization => IInv'
<1> SUFFICES ASSUME IInv, GetMaterialization PROVE IInv'
  OBVIOUS
<1>1. disp \in Dispatching /\ disp.call = "hooks" /\ Silent
  BY DEF GetMaterialization, At, IInv, TypeOK
<1>2. PICK i, found:
        /\ i \in disp.todo /\ found = materializations[i]
        /\ \/ /\ ~Present(found)
              /\ disp' = [disp EXCEPT !.call = "put", !.item = i]
           \/ /\ Present(found) /\ found.val.status = "stored"
              /\ disp' = [disp EXCEPT !.call = "transform", !.item = i, !.mver = found.ver]
           \/ /\ Present(found) /\ found.val.status \in {"rendered", "dead"}
              /\ disp' = [disp EXCEPT !.call = "create", !.item = i, !.fate = found.val]
           \/ /\ Present(found) /\ found.val.status = "skipped"
              /\ disp' = [disp EXCEPT !.todo = @ \ {i}]
  BY DEF GetMaterialization
<1>3. i \in Items /\ found \in RecordOf(Materialization) /\ found \in RecordOf(Fates \cup {Stored})
  BY <1>1, <1>2 DEF IInv, TypeOK, Dispatching, OutcomesKnown
<1>4. found.ver \in Nat /\ (Present(found) => found.val \in Materialization /\ found.ver # 0)
  BY <1>3, RecordFacts
<1>5. CASE disp' = [disp EXCEPT !.todo = @ \ {i}] /\ Settled(i)
  <2>1. disp' \in Dispatching
    BY <1>1, <1>5 DEF Dispatching
  <2>2. PollsScope'
    BY <1>1, <1>5, CursorsKept DEF IInv, InHand, PollsScope, Dispatching, Silent, records
  <2>3. HandlesEvent'
    BY <1>1, <1>5, RecordsKept DEF IInv, InHand, HandlesEvent, EventCalls, Dispatching, Silent, records
  <2>4. HandlesItem' /\ DeliversListed'
    BY <1>1, <1>5, RecordsKept DEF IInv, InHand, HandlesItem, DeliversListed, Dispatching, Silent, records
  <2>5. QED
    BY <1>1, <2>1, <2>2, <2>3, <2>4, SilentStep DEF InHand
<1>6. ASSUME NEW call \in {"put", "transform", "create"}, NEW mver \in Nat, NEW fate \in Materialization,
             disp' = [disp EXCEPT !.call = call, !.item = i, !.mver = mver, !.fate = fate],
             HandlesItem'
      PROVE  IInv'
  <2>1. disp' \in Dispatching
    BY <1>1, <1>3, <1>6 DEF Dispatching, PollCalls
  <2>2. PollsScope'
    BY <1>1, <1>6, CursorsKept DEF IInv, InHand, PollsScope, Dispatching, Silent, records, PollCalls
  <2>3. HandlesEvent'
    BY <1>1, <1>6, RecordsKept DEF IInv, InHand, HandlesEvent, EventCalls, Dispatching, Silent, records
  <2>4. DeliversListed'
    BY <1>1, <1>6, RecordsKept DEF IInv, InHand, DeliversListed, Dispatching, Silent, records
  <2>5. QED
    BY <1>1, <1>6, <2>1, <2>2, <2>3, <2>4, SilentStep DEF InHand
<1>7. disp.mver \in Nat /\ disp.fate \in Materialization /\ UNCHANGED materializations
  BY <1>1 DEF Dispatching, Silent, records
<1>8. CASE disp' = [disp EXCEPT !.call = "put", !.item = i]
  <2>1. disp' = [disp EXCEPT !.call = "put", !.item = i, !.mver = disp.mver, !.fate = disp.fate]
    BY <1>1, <1>8 DEF Dispatching
  <2>2. HandlesItem'
    BY <1>1, <1>2, <1>8 DEF HandlesItem, Dispatching
  <2>3. QED
    BY <1>6, <1>7, <2>1, <2>2
<1>9. CASE /\ Present(found) /\ found.val.status = "stored"
           /\ disp' = [disp EXCEPT !.call = "transform", !.item = i, !.mver = found.ver]
  <2>1. disp' = [disp EXCEPT !.call = "transform", !.item = i, !.mver = found.ver, !.fate = disp.fate]
    BY <1>1, <1>9 DEF Dispatching
  <2>2. found = [ver |-> found.ver, val |-> Stored]
    BY <1>3, <1>9, RecordFacts DEF Fates
  <2>3. HandlesItem'
    BY <1>1, <1>2, <1>4, <1>7, <1>9, <2>2 DEF HandlesItem, Dispatching
  <2>4. QED
    BY <1>4, <1>6, <1>7, <2>1, <2>3
<1>10. CASE /\ Present(found) /\ found.val.status \in {"rendered", "dead"}
            /\ disp' = [disp EXCEPT !.call = "create", !.item = i, !.fate = found.val]
  <2>1. disp' = [disp EXCEPT !.call = "create", !.item = i, !.mver = disp.mver, !.fate = found.val]
    BY <1>1, <1>10 DEF Dispatching
  <2>2. HandlesItem'
    BY <1>1, <1>2, <1>7, <1>10 DEF HandlesItem, Dispatching
  <2>3. QED
    BY <1>4, <1>6, <1>7, <1>10, <2>1, <2>2
<1>11. QED
  BY <1>2, <1>5, <1>8, <1>9, <1>10 DEF Settled, Skipped

LEMMA ListedAreCopies ==
    ASSUME TypeOK, NEW S
    PROVE  DeliveriesIn(S) \subseteq Copies
  BY DEF TypeOK, DeliveriesIn, Copies

LEMMA ListDeliveriesStep == IInv /\ ListDeliveries => IInv'
<1> SUFFICES ASSUME IInv, ListDeliveries PROVE IInv'
  OBVIOUS
<1>1. disp' = [disp EXCEPT !.call = "pick", !.quota = Limit, !.due = DeliveriesIn(Waiting)]
  BY DEF ListDeliveries, Waiting
<1>2. disp \in Dispatching /\ disp.call = "due" /\ Silent
  BY DEF ListDeliveries, At, IInv, TypeOK
<1>3. DeliveriesIn(Waiting) \subseteq Copies
  BY ListedAreCopies DEF IInv
<1>4. disp' \in Dispatching
  <2>1. "pick" \in PassCalls /\ Limit \in 0 .. Limit
    BY DEF PassCalls
  <2>2. DeliveriesIn(Waiting) \in SUBSET Copies
    BY <1>3
  <2>3. QED
    BY <1>1, <1>2, <2>1, <2>2 DEF Dispatching
<1>5. PollsScope' /\ HandlesItem'
  BY <1>1, <1>2 DEF PollsScope, HandlesItem, Dispatching, PollCalls
<1>6. HandlesEvent'
  BY <1>1, <1>2 DEF IInv, InHand, HandlesEvent, EventCalls, Dispatching
<1>7. DeliversListed'
  BY <1>1, <1>2, RecordsKept DEF DeliversListed, Dispatching, Silent, records
<1>8. QED
  BY <1>2, <1>4, <1>5, <1>6, <1>7, SilentStep DEF InHand

LEMMA SkipEarlyStep == IInv /\ SkipEarly => IInv'
<1> SUFFICES ASSUME IInv, SkipEarly PROVE IInv'
  OBVIOUS
<1>1. PICK d \in disp.due: disp' = [disp EXCEPT !.due = @ \ {d}]
  BY DEF SkipEarly
<1>2. disp \in Dispatching /\ disp.call = "pick" /\ Silent
  BY DEF SkipEarly, At, IInv, TypeOK
<1>3. disp' \in Dispatching
  BY <1>1, <1>2 DEF Dispatching
<1>4. PollsScope' /\ HandlesItem'
  BY <1>1, <1>2 DEF PollsScope, HandlesItem, Dispatching, PollCalls
<1>5. HandlesEvent'
  BY <1>1, <1>2 DEF IInv, InHand, HandlesEvent, EventCalls, Dispatching
<1>6. DeliversListed'
  BY <1>1, <1>2, RecordsKept DEF IInv, InHand, DeliversListed, Dispatching, Silent, records
<1>7. QED
  BY <1>2, <1>3, <1>4, <1>5, <1>6, SilentStep DEF InHand

LEMMA FailStep == IInv /\ Fail => IInv'
  BY RestStep DEF Fail

-------------------------------------------------------------------------------
(***************************************************************************)
(* Steps of the dispatcher that write records                              *)
(***************************************************************************)

LEMMA HooksKept ==
    ASSUME IInv, UNCHANGED <<hooks, revisions, proc>>
    PROVE  RevisionsInOrder' /\ \A c \in Clients: HoldsHook(c)'
<1>1. RevisionsInOrder'
  BY DEF IInv, RevisionsInOrder
<1>2. QED
  BY <1>1 DEF IInv, HoldsHook

\* A delivery changes only together with its version.
DeliveriesMoveOn ==
    \A i \in Items: deliveries'[i] = deliveries[i] \/ deliveries'[i].ver > deliveries[i].ver

LEMMA DeadKept ==
    ASSUME TypeOK, deliveries' \in [Items -> RecordOf(Delivery)], DeliveriesMoveOn,
           NEW c \in Clients, HoldsDead(c), proc'[c].dead \subseteq proc[c].dead
    PROVE  HoldsDead(c)'
<1> SUFFICES ASSUME NEW d \in proc'[c].dead
             PROVE  /\ Present(d.copy) /\ d.copy.val.status = "dead"
                    /\ d.copy.ver <= deliveries'[d.item].ver
                    /\ d.copy.ver = deliveries'[d.item].ver => d.copy = deliveries'[d.item]
  BY DEF HoldsDead
<1>1. d \in Copies /\ d \in proc[c].dead
  BY DEF TypeOK, Handling
<1>2. d.item \in Items /\ d.copy \in RecordOf(Delivery)
  BY <1>1 DEF Copies
<1>3. d.copy.ver \in Nat /\ deliveries[d.item].ver \in Nat /\ deliveries'[d.item].ver \in Nat
  BY <1>2, RecordFacts DEF TypeOK
<1>4. /\ Present(d.copy) /\ d.copy.val.status = "dead"
      /\ d.copy.ver <= deliveries[d.item].ver
      /\ d.copy.ver = deliveries[d.item].ver => d.copy = deliveries[d.item]
  BY <1>1 DEF HoldsDead
<1>5. QED
  BY <1>2, <1>3, <1>4 DEF DeliveriesMoveOn

\* A put of one delivery whose payload is the materialized one.
LEMMA DeliveryPut ==
    ASSUME TypeOK, DeliveryIsMaterialized, OutcomesKnown, UNCHANGED materializations,
           NEW i \in Items, NEW v \in Delivery,
           deliveries' = [deliveries EXCEPT ![i] = Written(@, v)],
           Present(materializations[i]), materializations[i].val.status \in {"rendered", "dead"},
           v.payload = materializations[i].val.payload,
           v.status \in Waiting => v.attempts < MaxAttempts
    PROVE  /\ deliveries' \in [Items -> RecordOf(Delivery)]
           /\ DeliveryIsMaterialized' /\ OutcomesKnown' /\ DeliveriesMoveOn
           /\ Present(deliveries'[i]) /\ deliveries'[i].val = v
           /\ \A j \in Items \ {i}: deliveries'[j] = deliveries[j]
<1>1. deliveries \in [Items -> RecordOf(Delivery)] /\ deliveries[i] \in RecordOf(Delivery)
  BY DEF TypeOK
<1>2. \A j \in Items \ {i}: deliveries'[j] = deliveries[j]
  BY <1>1
<1>3. /\ deliveries'[i] \in RecordOf(Delivery) /\ Present(deliveries'[i])
      /\ deliveries'[i].val = v /\ deliveries'[i].ver = deliveries[i].ver + 1
      /\ deliveries[i].ver \in Nat
  BY <1>1, WrittenFacts, RecordFacts
<1>4. deliveries' \in [Items -> RecordOf(Delivery)]
  BY <1>1, <1>3
<1>5. DeliveriesMoveOn
  BY <1>2, <1>3 DEF DeliveriesMoveOn
<1>6. DeliveryIsMaterialized'
  BY <1>2, <1>3 DEF DeliveryIsMaterialized
<1>7. OutcomesKnown'
  BY <1>2, <1>3 DEF OutcomesKnown
<1>8. QED
  BY <1>2, <1>3, <1>4, <1>5, <1>6, <1>7

\* A put of the materialization in hand, which has no delivery yet.
LEMMA MaterializationPut ==
    ASSUME IInv, NEW i \in Items, NEW v \in Fates \cup {Stored}, ~Present(deliveries[i]),
           materializations' = [materializations EXCEPT ![i] = Written(@, v)],
           UNCHANGED <<hooks, revisions, deliveries, proc>>
    PROVE  /\ materializations' \in [Items -> RecordOf(Materialization)]
           /\ RevisionsInOrder' /\ DeliveryIsMaterialized' /\ OutcomesKnown'
           /\ \A c \in Clients: HoldsHook(c)' /\ HoldsDead(c)'
           /\ Present(materializations'[i]) /\ materializations'[i].val = v
           /\ materializations'[i] = [ver |-> materializations'[i].ver, val |-> v]
           /\ \A j \in Items \ {i}: materializations'[j] = materializations[j]
<1>1. v \in Materialization
  BY DEF Fates, Stored, Materialization
<1>2. /\ materializations \in [Items -> RecordOf(Materialization)]
      /\ materializations[i] \in RecordOf(Materialization)
      /\ materializations[i] \in RecordOf(Fates \cup {Stored})
  BY DEF IInv, TypeOK, OutcomesKnown
<1>3. \A j \in Items \ {i}: materializations'[j] = materializations[j]
  BY <1>2
<1>4. materializations'[i] = Written(materializations[i], v)
  BY <1>2
<1>5. /\ materializations'[i] \in RecordOf(Materialization)
      /\ Present(materializations'[i]) /\ materializations'[i].val = v
  BY <1>1, <1>2, <1>4, WrittenFacts
<1>6. materializations'[i] \in RecordOf(Fates \cup {Stored})
  BY <1>2, <1>4, WrittenFacts
<1>7. materializations'[i] = [ver |-> materializations'[i].ver, val |-> v]
  BY <1>4 DEF Written
<1>8. materializations' \in [Items -> RecordOf(Materialization)]
  BY <1>2, <1>5
<1>9. DeliveryIsMaterialized'
  BY <1>3 DEF IInv, DeliveryIsMaterialized
<1>10. OutcomesKnown'
  BY <1>3, <1>6 DEF IInv, OutcomesKnown
<1>11. \A c \in Clients: HoldsDead(c)'
  BY DEF IInv, HoldsDead
<1>12. QED
  BY <1>3, <1>5, <1>7, <1>8, <1>9, <1>10, <1>11, HooksKept

LEMMA SaveCursorStep == IInv /\ SaveCursor => IInv'
<1> SUFFICES ASSUME IInv, SaveCursor PROVE IInv'
  OBVIOUS
<1> DEFINE s == disp.scope
<1>1. /\ disp \in Dispatching /\ disp.call = "hooks"
      /\ UNCHANGED <<feed, scopes, hooks, revisions, materializations, deliveries,
                     early, accepted, proc>>
  BY DEF SaveCursor, At, IInv, TypeOK
<1>2. CASE UNCHANGED cursors /\ disp' = PollEnded
  BY <1>1, <1>2, RestStep DEF Silent, records
<1>3. CASE /\ cursors' = [cursors EXCEPT ![s] = Written(@, disp.event)]
           /\ disp' = [disp EXCEPT !.call = "next", !.cver = @ + 1, !.at = disp.event,
                                   !.event = 0, !.claims = {}]
  <2>1. /\ s \in Scopes /\ disp.event \in 0 .. MaxEvents
        /\ disp.cver = cursors[s].ver /\ disp.event <= disp.last /\ disp.last <= Len(feed[s])
    BY <1>1 DEF IInv, InHand, PollsScope, PollCalls, Dispatching
  <2>2. cursors \in [Scopes -> RecordOf(0 .. MaxEvents)] /\ cursors[s] \in RecordOf(0 .. MaxEvents)
    BY <2>1 DEF IInv, TypeOK
  <2>3. cursors'[s] = Written(cursors[s], disp.event)
    BY <1>3, <2>1, <2>2
  <2>4. /\ cursors'[s] \in RecordOf(0 .. MaxEvents) /\ Present(cursors'[s])
        /\ cursors'[s].val = disp.event /\ cursors'[s].ver = disp.cver + 1
    BY <2>1, <2>2, <2>3, WrittenFacts
  <2>5. disp' \in Dispatching
    <3>1. 0 \in 0 .. MaxEvents /\ disp.cver + 1 \in Nat /\ "next" \in PollCalls
      BY <1>1 DEF Dispatching, PollCalls
    <3>2. QED
      BY <1>1, <1>3, <2>1, <3>1 DEF Dispatching
  <2>6. TypeOK'
    BY <1>1, <1>3, <2>2, <2>4, <2>5 DEF IInv, TypeOK
  <2>7. RevisionsInOrder' /\ \A c \in Clients: HoldsHook(c)'
    BY <1>1, HooksKept
  <2>8. DeliveryIsMaterialized' /\ OutcomesKnown' /\ \A c \in Clients: HoldsDead(c)'
    BY <1>1 DEF IInv, DeliveryIsMaterialized, OutcomesKnown, HoldsDead
  <2>9. PollsScope'
    BY <1>1, <1>3, <2>1, <2>4 DEF PollsScope, CursorOf, Dispatching
  <2>10. HandlesEvent' /\ HandlesItem'
    BY <1>1, <1>3 DEF HandlesEvent, HandlesItem, EventCalls, Dispatching
  <2>11. DeliversListed'
    BY <1>1, <1>3, RecordsKept DEF IInv, InHand, DeliversListed, Dispatching
  <2>12. QED
    BY <2>6, <2>7, <2>8, <2>9, <2>10, <2>11 DEF IInv, InHand
<1>4. QED
  BY <1>2, <1>3 DEF SaveCursor

\* The item in hand, its event and its claim.
LEMMA ItemInHand ==
    ASSUME IInv, disp.call \in {"put", "transform", "create"}
    PROVE  /\ disp \in Dispatching /\ disp.item \in Items /\ disp.item \in disp.todo
           /\ disp.todo \subseteq disp.claims
           /\ \A i \in disp.claims \ disp.todo: Settled(i)
           /\ disp.claims \subseteq Items
  BY DEF IInv, TypeOK, InHand, HandlesEvent, HandlesItem, EventCalls, Dispatching

LEMMA HookDoneFacts ==
    ASSUME disp \in Dispatching
    PROVE  /\ HookDone \in Dispatching /\ HookDone.call = "hooks"
           /\ HookDone.scope = disp.scope /\ HookDone.cver = disp.cver /\ HookDone.at = disp.at
           /\ HookDone.last = disp.last /\ HookDone.event = disp.event
           /\ HookDone.claims = disp.claims /\ HookDone.todo = disp.todo \ {disp.item}
           /\ HookDone.due = disp.due
<1>1. "hooks" \in PollCalls /\ Stored \in Materialization
  BY DEF PollCalls, Stored, Materialization
<1>2. HookDone \in Dispatching
  BY <1>1 DEF HookDone, Dispatching
<1>3. QED
  BY <1>2 DEF HookDone, Dispatching

LEMMA PutMaterializationStep == IInv /\ PutMaterialization => IInv'
<1> SUFFICES ASSUME IInv, PutMaterialization PROVE IInv'
  OBVIOUS
<1> DEFINE i == disp.item
<1>1. /\ disp.call = "put"
      /\ UNCHANGED <<feed, scopes, hooks, revisions, deliveries, cursors, early, accepted, proc>>
  BY DEF PutMaterialization, At
<1>2. /\ disp \in Dispatching /\ i \in Items /\ i \in disp.todo /\ disp.todo \subseteq disp.claims
      /\ \A j \in disp.claims \ disp.todo: Settled(j)
      /\ disp.claims \subseteq Items
  BY <1>1, ItemInHand
<1>3. CASE ~Matches(materializations[i], 0)
  <2>1. Silent /\ disp' = [disp EXCEPT !.call = "hooks", !.item = NoValue]
    BY <1>1, <1>3 DEF PutMaterialization, Silent, records
  <2>2. disp' \in Dispatching
    BY <1>2, <2>1 DEF Dispatching, PollCalls
  <2>3. PollsScope'
    BY <1>1, <1>2, <2>1, CursorsKept
       DEF IInv, InHand, PollsScope, Dispatching, Silent, records, PollCalls
  <2>4. HandlesEvent' /\ HandlesItem'
    BY <1>2, <2>1, RecordsKept DEF HandlesEvent, HandlesItem, EventCalls, Dispatching, Silent, records
  <2>5. DeliversListed'
    BY <1>2, <2>1, RecordsKept DEF IInv, InHand, DeliversListed, Dispatching, Silent, records
  <2>6. QED
    BY <2>1, <2>2, <2>3, <2>4, <2>5, SilentStep DEF InHand
<1>4. CASE Matches(materializations[i], 0)
  <2>1. /\ materializations' = [materializations EXCEPT ![i] = Written(@, Stored)]
        /\ disp' = [disp EXCEPT !.call = "transform", !.mver = materializations'[i].ver]
    BY <1>4 DEF PutMaterialization
  <2>2. ~Present(materializations[i])
    <3>1. materializations[i] \in RecordOf(Materialization)
      BY <1>2 DEF IInv, TypeOK
    <3>2. QED
      BY <1>4, <3>1, RecordFacts
  <2>3. ~Present(deliveries[i])
    BY <1>2, <2>2 DEF IInv, DeliveryIsMaterialized
  <2>4. /\ materializations' \in [Items -> RecordOf(Materialization)]
        /\ RevisionsInOrder' /\ DeliveryIsMaterialized' /\ OutcomesKnown'
        /\ \A c \in Clients: HoldsHook(c)' /\ HoldsDead(c)'
        /\ Present(materializations'[i]) /\ materializations'[i].val = Stored
        /\ materializations'[i] = [ver |-> materializations'[i].ver, val |-> Stored]
        /\ \A j \in Items \ {i}: materializations'[j] = materializations[j]
    BY <1>1, <1>2, <2>1, <2>3, MaterializationPut
  <2>5. materializations'[i].ver \in Nat /\ materializations'[i].ver # 0
    BY <1>2, <2>4, RecordFacts
  <2>6. disp' \in Dispatching
    BY <1>2, <2>1, <2>5 DEF Dispatching, PollCalls
  <2>7. TypeOK'
    BY <1>1, <2>4, <2>6 DEF IInv, TypeOK
  <2>8. PollsScope'
    BY <1>1, <1>2, <2>1, CursorsKept DEF IInv, InHand, PollsScope, Dispatching, PollCalls
  <2>9. \A j \in disp.claims \ disp.todo: Settled(j)'
    BY <1>1, <1>2, <2>4 DEF Settled, Skipped
  <2>10. HandlesEvent' /\ HandlesItem'
    BY <1>2, <2>1, <2>4, <2>5, <2>9 DEF HandlesEvent, HandlesItem, EventCalls, Dispatching
  <2>11. DeliversListed'
    BY <1>1, <1>2, <2>1 DEF IInv, InHand, DeliversListed, DeliveriesIn, Dispatching
  <2>12. QED
    BY <2>4, <2>7, <2>8, <2>10, <2>11 DEF IInv, InHand
<1>5. QED
  BY <1>3, <1>4

LEMMA TransformStep == IInv /\ Transform => IInv'
<1> SUFFICES ASSUME IInv, Transform PROVE IInv'
  OBVIOUS
<1> DEFINE i == disp.item
<1>1. /\ disp.call = "transform"
      /\ UNCHANGED <<feed, scopes, hooks, revisions, deliveries, cursors, early, accepted, proc>>
  BY DEF Transform, At
<1>2. /\ disp \in Dispatching /\ i \in Items /\ i \in disp.todo /\ disp.todo \subseteq disp.claims
      /\ \A j \in disp.claims \ disp.todo: Settled(j)
      /\ disp.claims \subseteq Items
  BY <1>1, ItemInHand
<1>3. CASE UNCHANGED materializations /\ disp' = PollEnded
  BY <1>1, <1>3, RestStep DEF Silent, records
<1>4. ASSUME NEW fate \in Fates,
             materializations' = [materializations EXCEPT ![i] = Written(@, fate)],
             disp' = IF fate.status = "skipped" THEN HookDone
                     ELSE [disp EXCEPT !.call = "create", !.mver = 0, !.fate = fate]
      PROVE  IInv'
  <2>1. materializations[i] = [ver |-> disp.mver, val |-> Stored]
    BY <1>1 DEF IInv, InHand, HandlesItem
  <2>2. ~Present(deliveries[i])
    BY <1>2, <2>1 DEF IInv, DeliveryIsMaterialized, Stored
  <2>3. /\ materializations' \in [Items -> RecordOf(Materialization)]
        /\ RevisionsInOrder' /\ DeliveryIsMaterialized' /\ OutcomesKnown'
        /\ \A c \in Clients: HoldsHook(c)' /\ HoldsDead(c)'
        /\ Present(materializations'[i]) /\ materializations'[i].val = fate
        /\ \A j \in Items \ {i}: materializations'[j] = materializations[j]
    BY <1>1, <1>2, <1>4, <2>2, MaterializationPut
  <2>4. \A j \in disp.claims \ disp.todo: Settled(j)'
    BY <1>1, <1>2, <2>3 DEF Settled, Skipped
  <2>5. disp' \in Dispatching /\ PollsScope' /\ HandlesEvent' /\ HandlesItem'
    <3>1. CASE fate.status = "skipped"
      <4>1. disp' = HookDone
        BY <1>4, <3>1
      <4>2. PollsScope'
        BY <1>1, <1>2, <4>1, HookDoneFacts, CursorsKept DEF IInv, InHand, PollsScope, PollCalls
      <4>3. \A j \in {i}: Settled(j)'
        BY <2>3, <3>1 DEF Settled, Skipped
      <4>4. HandlesEvent'
        BY <1>2, <2>4, <4>1, <4>3, HookDoneFacts DEF HandlesEvent, EventCalls
      <4>5. QED
        BY <1>2, <4>1, <4>2, <4>4, HookDoneFacts DEF HandlesItem
    <3>2. CASE fate.status # "skipped"
      <4>1. /\ disp' = [disp EXCEPT !.call = "create", !.mver = 0, !.fate = fate]
            /\ fate \in Materialization /\ fate.status \in {"rendered", "dead"}
        BY <1>4, <3>2 DEF Fates, Materialization
      <4>2. disp' \in Dispatching
        BY <1>2, <4>1 DEF Dispatching, PollCalls
      <4>3. PollsScope'
        BY <1>1, <1>2, <4>1, CursorsKept DEF IInv, InHand, PollsScope, Dispatching, PollCalls
      <4>4. HandlesEvent' /\ HandlesItem'
        BY <1>2, <2>3, <2>4, <4>1 DEF HandlesEvent, HandlesItem, EventCalls, Dispatching
      <4>5. QED
        BY <4>2, <4>3, <4>4
    <3>3. QED
      BY <3>1, <3>2
  <2>6. TypeOK'
    BY <1>1, <2>3, <2>5 DEF IInv, TypeOK
  <2>7. disp'.due = disp.due /\ disp'.call # "record"
    BY <1>2, <1>4, HookDoneFacts DEF Dispatching
  <2>8. DeliversListed'
    BY <1>1, <2>7 DEF IInv, InHand, DeliversListed, DeliveriesIn
  <2>9. QED
    BY <2>3, <2>5, <2>6, <2>8 DEF IInv, InHand
<1>5. QED
  BY <1>3, <1>4 DEF Transform

LEMMA FirstDeliveryFacts ==
    ASSUME NEW fate \in Materialization, fate.status \in {"rendered", "dead"}
    PROVE  /\ FirstDelivery(fate) \in Delivery
           /\ FirstDelivery(fate).payload = fate.payload
           /\ FirstDelivery(fate).attempts = 0
           /\ FirstDelivery(fate).status = IF fate.status = "dead" THEN "dead" ELSE "pending"
  BY DEF FirstDelivery, Delivery, Materialization

LEMMA CreateDeliveryStep == IInv /\ CreateDelivery => IInv'
<1> SUFFICES ASSUME IInv, CreateDelivery PROVE IInv'
  OBVIOUS
<1> DEFINE i == disp.item
<1>1. /\ disp.call = "create" /\ disp' = HookDone
      /\ UNCHANGED <<feed, scopes, hooks, revisions, materializations, cursors, early, accepted, proc>>
  BY DEF CreateDelivery, At
<1>2. /\ disp \in Dispatching /\ i \in Items /\ i \in disp.todo /\ disp.todo \subseteq disp.claims
      /\ \A j \in disp.claims \ disp.todo: Settled(j)
      /\ disp.claims \subseteq Items
  BY <1>1, ItemInHand
<1>3. /\ disp.fate \in Materialization /\ disp.fate.status \in {"rendered", "dead"}
      /\ Present(materializations[i]) /\ materializations[i].val = disp.fate
  BY <1>1, <1>2 DEF IInv, InHand, HandlesItem, Dispatching
<1>4. /\ deliveries' \in [Items -> RecordOf(Delivery)]
      /\ DeliveryIsMaterialized' /\ OutcomesKnown' /\ DeliveriesMoveOn
      /\ Present(deliveries'[i])
      /\ \A j \in Items: Present(deliveries[j]) => deliveries'[j] = deliveries[j]
  <2> DEFINE first == FirstDelivery(disp.fate)
  <2>1. deliveries[i] \in RecordOf(Delivery)
    BY <1>2 DEF IInv, TypeOK
  <2>2. CASE Matches(deliveries[i], 0)
    <3>1. deliveries' = [deliveries EXCEPT ![i] = Written(@, first)]
      BY <2>2 DEF CreateDelivery
    <3>2. /\ first \in Delivery /\ first.payload = materializations[i].val.payload
          /\ first.attempts < MaxAttempts
      BY <1>3, FirstDeliveryFacts
    <3>3. ~Present(deliveries[i])
      BY <2>1, <2>2, RecordFacts
    <3> HIDE DEF first
    <3>4. QED
      BY <1>1, <1>2, <1>3, <3>1, <3>2, <3>3, DeliveryPut DEF IInv
  <2>3. CASE ~Matches(deliveries[i], 0)
    <3>1. deliveries' = deliveries
      BY <2>3 DEF CreateDelivery
    <3>2. Present(deliveries[i])
      BY <2>1, <2>3, RecordFacts
    <3>3. QED
      BY <1>1, <3>1, <3>2 DEF IInv, TypeOK, DeliveryIsMaterialized, OutcomesKnown, DeliveriesMoveOn
  <2>4. QED
    BY <2>2, <2>3
<1>5. TypeOK'
  BY <1>1, <1>2, <1>4, HookDoneFacts DEF IInv, TypeOK
<1>6. RevisionsInOrder' /\ \A c \in Clients: HoldsHook(c)'
  BY <1>1, HooksKept
<1>7. ASSUME NEW c \in Clients PROVE HoldsDead(c)'
  BY <1>1, <1>4, DeadKept DEF IInv
<1>8. PollsScope'
  BY <1>1, <1>2, HookDoneFacts, CursorsKept DEF IInv, InHand, PollsScope, PollCalls
<1>9. \A j \in Items: Settled(j) \/ j = i => Settled(j)'
  BY <1>1, <1>4 DEF Settled, Skipped
<1>10. HandlesEvent' /\ HandlesItem'
  BY <1>1, <1>2, <1>9, HookDoneFacts DEF HandlesEvent, HandlesItem, EventCalls
<1>11. DeliversListed'
  <2>1. DeliveriesIn(Waiting) \subseteq DeliveriesIn(Waiting)'
    BY <1>4 DEF DeliveriesIn
  <2>2. QED
    BY <1>1, <1>2, <2>1, HookDoneFacts DEF IInv, InHand, DeliversListed
<1>12. QED
  BY <1>4, <1>5, <1>6, <1>7, <1>8, <1>10, <1>11 DEF IInv, InHand

LEMMA ListedFacts ==
    ASSUME TypeOK, NEW S, NEW d \in DeliveriesIn(S)
    PROVE  /\ d.item \in Items /\ d = [item |-> d.item, copy |-> deliveries[d.item]]
           /\ d.copy = deliveries[d.item] /\ d.copy \in RecordOf(Delivery)
           /\ Present(d.copy) /\ d.copy.val \in Delivery /\ d.copy.val.status \in S
<1>1. PICK i \in Items: /\ Present(deliveries[i]) /\ deliveries[i].val.status \in S
                        /\ d = [item |-> i, copy |-> deliveries[i]]
  BY DEF DeliveriesIn
<1>2. deliveries[i] \in RecordOf(Delivery)
  BY DEF TypeOK
<1>3. deliveries[i].val \in Delivery
  BY <1>1, <1>2, RecordFacts
<1>4. QED
  BY <1>1, <1>2, <1>3

LEMMA AttemptedFacts ==
    ASSUME NEW v \in Delivery, v.attempts < MaxAttempts, NEW answered \in BOOLEAN
    PROVE  /\ Attempted(v, answered) \in Delivery
           /\ Attempted(v, answered).payload = v.payload
           /\ Attempted(v, answered).attempts = v.attempts + 1
           /\ Attempted(v, answered).status =
                IF answered THEN "completed"
                ELSE IF v.attempts + 1 >= MaxAttempts THEN "dead" ELSE "retry"
<1>1. v.attempts + 1 \in 0 .. MaxAttempts
  BY DEF Delivery
<1>2. QED
  BY <1>1 DEF Attempted, Delivery

LEMMA PostStep == IInv /\ Post => IInv'
<1> SUFFICES ASSUME IInv, Post PROVE IInv'
  OBVIOUS
<1>1. PICK d \in disp.due, accepts \in BOOLEAN, answered \in BOOLEAN:
        /\ answered => accepts
        /\ accepted' = IF accepts THEN accepted \cup {d.item} ELSE accepted
        /\ disp' = [disp EXCEPT
                        !.call = "record", !.item = d.item, !.due = @ \ {d},
                        !.posted = [d.copy EXCEPT !.val = Attempted(@, answered)]]
  BY DEF Post
<1>2. /\ disp \in Dispatching /\ disp.call = "pick" /\ disp.quota # 0
      /\ UNCHANGED <<feed, scopes, hooks, revisions, materializations, deliveries, cursors, early, proc>>
  BY DEF Post, At, IInv, TypeOK, records
<1>3. disp.due \subseteq DeliveriesIn(Waiting) /\ TypeOK
  BY DEF IInv, InHand, DeliversListed
<1>4. /\ d.item \in Items /\ d = [item |-> d.item, copy |-> deliveries[d.item]]
      /\ d.copy = deliveries[d.item] /\ d.copy \in RecordOf(Delivery)
      /\ Present(d.copy) /\ d.copy.val \in Delivery /\ d.copy.val.status \in Waiting
  BY <1>3, ListedFacts
<1>5. d.copy.val.attempts < MaxAttempts
  BY <1>4 DEF IInv, OutcomesKnown
<1> DEFINE outcome == Attempted(d.copy.val, answered)
           posted == [d.copy EXCEPT !.val = outcome]
<1>6. outcome \in Delivery
  BY <1>4, <1>5, AttemptedFacts
<1>7. posted \in RecordOf(Delivery) /\ posted.ver = d.copy.ver /\ posted.val = outcome
  <2> HIDE DEF outcome
  <2>1. d.copy \in [ver: Nat \ {0}, val: Delivery]
    BY <1>4 DEF RecordOf, Present, Absent
  <2>2. QED
    BY <1>6, <2>1 DEF RecordOf
<1>8. disp' = [disp EXCEPT !.call = "record", !.item = d.item, !.due = @ \ {d}, !.posted = posted]
  BY <1>1
<1>9. disp' \in Dispatching
  <2> HIDE DEF posted
  <2>1. QED
    BY <1>2, <1>4, <1>7, <1>8 DEF Dispatching, PassCalls
<1>10. accepted' \subseteq Items /\ (answered => d.item \in accepted')
  BY <1>1, <1>3, <1>4 DEF TypeOK
<1>11. TypeOK'
  BY <1>2, <1>3, <1>9, <1>10 DEF TypeOK
<1>12. RevisionsInOrder' /\ \A c \in Clients: HoldsHook(c)'
  BY <1>2, HooksKept
<1>13. DeliveryIsMaterialized' /\ OutcomesKnown' /\ \A c \in Clients: HoldsDead(c)'
  BY <1>2 DEF IInv, DeliveryIsMaterialized, OutcomesKnown, HoldsDead
<1>14. /\ disp'.call = "record" /\ disp'.item = d.item /\ disp'.due = disp.due \ {d}
       /\ disp'.posted = posted /\ disp'.quota = disp.quota /\ disp'.claims = disp.claims
  <2> HIDE DEF posted
  <2>1. QED
    BY <1>2, <1>8 DEF Dispatching
<1>15. PollsScope' /\ HandlesEvent' /\ HandlesItem'
  BY <1>2, <1>14 DEF IInv, InHand, PollsScope, HandlesEvent, HandlesItem, EventCalls, PollCalls
<1>16. DeliversListed'
  <2>1. DeliveriesIn(Waiting)' = DeliveriesIn(Waiting)
    BY <1>2 DEF DeliveriesIn
  <2>2. disp'.due \subseteq DeliveriesIn(Waiting)'
    BY <1>3, <1>14, <2>1
  <2>3. ASSUME NEW e \in disp'.due PROVE e.item # disp'.item
    <3>1. e \in DeliveriesIn(Waiting) /\ e # d
      BY <1>3, <1>14, <2>3
    <3>2. e = [item |-> e.item, copy |-> deliveries[e.item]]
      BY <1>3, <3>1, ListedFacts
    <3>3. QED
      BY <1>4, <1>14, <3>1, <3>2
  <2>4. disp'.posted.val = Attempted(deliveries'[disp'.item].val, answered)
    BY <1>2, <1>4, <1>7, <1>14
  <2>5. QED
    BY <1>2, <1>4, <1>7, <1>10, <1>14, <2>2, <2>3, <2>4 DEF DeliversListed
<1>17. QED
  BY <1>11, <1>12, <1>13, <1>15, <1>16 DEF IInv, InHand

\* What is known when the outcome of a post is recorded.
LEMMA OutcomeInHand ==
    ASSUME IInv, disp.call = "record"
    PROVE  \E answered \in BOOLEAN:
            LET found == deliveries[disp.item] IN
            /\ disp.item \in Items /\ found \in RecordOf(Delivery)
            /\ Present(found) /\ found.val \in Delivery /\ found.val.status \in Waiting
            /\ found.val.attempts < MaxAttempts
            /\ disp.posted.ver = found.ver
            /\ disp.posted.val = Attempted(found.val, answered)
            /\ answered => disp.item \in accepted
            /\ disp.posted.val \in Delivery
            /\ disp.posted.val.payload = found.val.payload
            /\ disp.posted.val.status \in Waiting => disp.posted.val.attempts < MaxAttempts
            /\ Matches(found, disp.posted.ver)
<1> DEFINE found == deliveries[disp.item]
<1>1. PICK answered \in BOOLEAN:
        /\ disp.item \in Items /\ Present(found) /\ found.val.status \in Waiting
        /\ disp.posted.ver = found.ver
        /\ disp.posted.val = Attempted(found.val, answered)
        /\ answered => disp.item \in accepted
  BY DEF IInv, InHand, DeliversListed
<1>2. found \in RecordOf(Delivery)
  BY <1>1 DEF IInv, TypeOK
<1>3. found.val \in Delivery /\ Matches(found, disp.posted.ver)
  BY <1>1, <1>2, RecordFacts
<1>4. found.val.attempts < MaxAttempts
  BY <1>1 DEF IInv, OutcomesKnown
<1>5. /\ disp.posted.val \in Delivery /\ disp.posted.val.payload = found.val.payload
      /\ disp.posted.val.attempts = found.val.attempts + 1
      /\ disp.posted.val.status = IF answered THEN "completed"
                ELSE IF found.val.attempts + 1 >= MaxAttempts THEN "dead" ELSE "retry"
  BY <1>1, <1>3, <1>4, AttemptedFacts
<1>6. disp.posted.val.status \in Waiting => disp.posted.val.attempts < MaxAttempts
  BY <1>3, <1>5 DEF Waiting, Delivery
<1>7. QED
  BY <1>1, <1>2, <1>3, <1>4, <1>5, <1>6

\* Listed deliveries other than the one that is put stay as they were listed.
LEMMA OthersStayListed ==
    ASSUME TypeOK, NEW i \in Items, \A j \in Items \ {i}: deliveries'[j] = deliveries[j],
           NEW listed \in SUBSET DeliveriesIn(Waiting), \A d \in listed: d.item # i
    PROVE  listed \subseteq DeliveriesIn(Waiting)'
<1> SUFFICES ASSUME NEW d \in listed PROVE d \in DeliveriesIn(Waiting)'
  OBVIOUS
<1>1. /\ d.item \in Items \ {i} /\ d = [item |-> d.item, copy |-> deliveries[d.item]]
      /\ d.copy = deliveries[d.item] /\ Present(d.copy) /\ d.copy.val.status \in Waiting
  BY ListedFacts
<1>2. QED
  BY <1>1 DEF DeliveriesIn

LEMMA RecordDeliveryStep == IInv /\ RecordDelivery => IInv'
<1> SUFFICES ASSUME IInv, RecordDelivery PROVE IInv'
  OBVIOUS
<1>1. /\ disp \in Dispatching /\ disp.call = "record"
      /\ UNCHANGED <<feed, scopes, hooks, revisions, materializations, cursors, accepted, proc>>
  BY DEF RecordDelivery, At, IInv, TypeOK
<1>2. PICK i, v: i = disp.item /\ v = disp.posted.val
  OBVIOUS
<1>3. /\ i \in Items /\ Present(deliveries[i]) /\ v \in Delivery
      /\ v.payload = deliveries[i].val.payload
      /\ v.status \in Waiting => v.attempts < MaxAttempts
      /\ Matches(deliveries[i], disp.posted.ver)
  BY <1>1, <1>2, OutcomeInHand
<1>4. /\ deliveries' = [deliveries EXCEPT ![i] = Written(@, v)]
      /\ early' = IF v.status = "retry" THEN early \cup {i} ELSE early
      /\ disp' = [disp EXCEPT !.call = "pick", !.item = NoValue,
                              !.posted = Absent, !.quota = @ - 1]
  BY <1>2, <1>3 DEF RecordDelivery
<1>5. /\ Present(materializations[i]) /\ materializations[i].val.status \in {"rendered", "dead"}
      /\ v.payload = materializations[i].val.payload
  BY <1>3 DEF IInv, DeliveryIsMaterialized
<1>6. /\ deliveries' \in [Items -> RecordOf(Delivery)]
      /\ DeliveryIsMaterialized' /\ OutcomesKnown' /\ DeliveriesMoveOn
      /\ Present(deliveries'[i]) /\ \A j \in Items \ {i}: deliveries'[j] = deliveries[j]
  BY <1>1, <1>3, <1>4, <1>5, DeliveryPut DEF IInv
<1>7. disp.quota \in 1 .. Limit /\ \A d \in disp.due: d.item # i
  BY <1>1, <1>2 DEF IInv, InHand, DeliversListed, Dispatching
<1>8. disp' \in Dispatching
  <2>1. "pick" \in PassCalls /\ disp.quota - 1 \in 0 .. Limit /\ Absent \in RecordOf(Delivery)
    BY <1>7, AbsentFacts DEF PassCalls
  <2>2. QED
    BY <1>1, <1>4, <2>1 DEF Dispatching
<1>9. TypeOK'
  BY <1>1, <1>3, <1>4, <1>6, <1>8 DEF IInv, TypeOK
<1>10. RevisionsInOrder' /\ \A c \in Clients: HoldsHook(c)'
  BY <1>1, HooksKept
<1>11. ASSUME NEW c \in Clients PROVE HoldsDead(c)'
  BY <1>1, <1>6, DeadKept DEF IInv
<1>12. disp'.call = "pick" /\ disp'.claims = disp.claims /\ disp'.due = disp.due
  BY <1>1, <1>4 DEF Dispatching
<1>13. PollsScope' /\ HandlesEvent' /\ HandlesItem'
  BY <1>1, <1>12 DEF IInv, InHand, PollsScope, HandlesEvent, HandlesItem, EventCalls, PollCalls
<1>14. DeliversListed'
  <2>1. disp.due \in SUBSET DeliveriesIn(Waiting)
    BY DEF IInv, InHand, DeliversListed
  <2>2. disp.due \subseteq DeliveriesIn(Waiting)'
    BY <1>3, <1>6, <1>7, <2>1, OthersStayListed DEF IInv
  <2>3. QED
    BY <1>12, <2>2 DEF DeliversListed
<1>15. QED
  BY <1>6, <1>9, <1>10, <1>11, <1>13, <1>14 DEF IInv, InHand

-------------------------------------------------------------------------------
(***************************************************************************)
(* Steps of the service and of the world outside                           *)
(***************************************************************************)

\* The feeds only grow.
LEMMA InHandKept ==
    ASSUME TypeOK, InHand, UNCHANGED <<materializations, deliveries, cursors, accepted, disp>>,
           \A s \in Scopes: Len(feed'[s]) \in Nat /\ Len(feed'[s]) >= Len(feed[s])
    PROVE  InHand'
<1>1. disp \in Dispatching /\ \A s \in Scopes: Len(feed[s]) \in Nat
  BY DEF TypeOK
<1>2. PollsScope'
  BY <1>1, CursorsKept DEF InHand, PollsScope, Dispatching, PollCalls
<1>3. HandlesEvent' /\ HandlesItem' /\ DeliversListed'
  BY RecordsKept DEF InHand, HandlesEvent, HandlesItem, DeliversListed
<1>4. QED
  BY <1>2, <1>3 DEF InHand

\* The steps that change neither records nor the handlers.
LEMMA OutsideStep ==
    ASSUME IInv, TypeOK', InHand', UNCHANGED <<records, proc>>
    PROVE  IInv'
<1>1. RevisionsInOrder' /\ DeliveryIsMaterialized' /\ OutcomesKnown'
  BY DEF IInv, records, RevisionsInOrder, DeliveryIsMaterialized, OutcomesKnown
<1>2. ASSUME NEW c \in Clients PROVE HoldsHook(c)' /\ HoldsDead(c)'
  BY DEF IInv, records, HoldsHook, HoldsDead
<1>3. QED
  BY <1>1, <1>2 DEF IInv

LEMMA CoreCommitsStep == IInv /\ CoreCommits => IInv'
<1> SUFFICES ASSUME IInv, CoreCommits PROVE IInv'
  OBVIOUS
<1>1. PICK s \in Scopes, t \in Topics:
        Len(feed[s]) < MaxEvents /\ feed' = [feed EXCEPT ![s] = Append(@, t)]
  BY DEF CoreCommits
<1>2. TypeOK /\ InHand /\ UNCHANGED <<scopes, records, early, accepted, disp, proc>>
  BY DEF IInv, CoreCommits
<1>3. feed \in [Scopes -> Seq(Topics)] /\ feed[s] \in Seq(Topics)
  BY <1>2 DEF TypeOK
<1>4. Append(feed[s], t) \in Seq(Topics) /\ Len(Append(feed[s], t)) = Len(feed[s]) + 1
  BY <1>3
<1>5. feed' \in [Scopes -> Seq(Topics)]
  BY <1>1, <1>3, <1>4
<1>6. \A r \in Scopes: /\ Len(feed[r]) \in Nat /\ Len(feed'[r]) \in Nat
                       /\ Len(feed'[r]) >= Len(feed[r]) /\ Len(feed'[r]) <= MaxEvents
  <2> SUFFICES ASSUME NEW r \in Scopes
               PROVE  /\ Len(feed[r]) \in Nat /\ Len(feed'[r]) \in Nat
                      /\ Len(feed'[r]) >= Len(feed[r]) /\ Len(feed'[r]) <= MaxEvents
    OBVIOUS
  <2>1. Len(feed[r]) \in Nat /\ Len(feed[r]) <= MaxEvents
    BY <1>2, <1>3 DEF TypeOK
  <2>2. CASE r = s
    BY <1>1, <1>3, <1>4, <2>1, <2>2
  <2>3. CASE r # s
    BY <1>1, <1>3, <2>1, <2>3
  <2>4. QED
    BY <2>2, <2>3
<1>7. TypeOK'
  BY <1>2, <1>5, <1>6 DEF TypeOK, records
<1>8. InHand'
  BY <1>2, <1>6, InHandKept DEF records
<1>9. QED
  BY <1>2, <1>7, <1>8, OutsideStep

LEMMA QuietStep ==
    ASSUME IInv, UNCHANGED <<feed, records, accepted, disp, proc>>,
           scopes' \in SUBSET Scopes, early' \in SUBSET Items
    PROVE  IInv'
<1>1. TypeOK'
  BY DEF IInv, TypeOK, records
<1>2. \A s \in Scopes: Len(feed'[s]) \in Nat /\ Len(feed'[s]) >= Len(feed[s])
  BY DEF IInv, TypeOK
<1>3. InHand'
  BY <1>2, InHandKept DEF IInv, records
<1>4. QED
  BY <1>1, <1>3, OutsideStep

LEMMA CrashStep == IInv /\ Crash => IInv'
<1> SUFFICES ASSUME IInv, Crash PROVE IInv'
  OBVIOUS
<1>1. /\ scopes' = {} /\ disp' = Rest /\ proc' = [c \in Clients |-> Free]
      /\ UNCHANGED <<feed, hooks, revisions, materializations, deliveries, cursors, early, accepted>>
  BY DEF Crash, records
<1>2. TypeOK'
  BY <1>1, RestFacts, FreeFacts DEF IInv, TypeOK
<1>3. RevisionsInOrder' /\ DeliveryIsMaterialized' /\ OutcomesKnown'
  BY <1>1 DEF IInv, RevisionsInOrder, DeliveryIsMaterialized, OutcomesKnown
<1>4. ASSUME NEW c \in Clients PROVE HoldsHook(c)' /\ HoldsDead(c)'
  BY <1>1, FreeFacts DEF HoldsHook, HoldsDead
<1>5. InHand'
  BY <1>1, RestFacts, NothingInHand
<1>6. QED
  BY <1>2, <1>3, <1>4, <1>5 DEF IInv

\* A hook changes only together with its version, and its revision never falls.
HooksMoveOn ==
    \A h \in Hooks:
        \/ hooks'[h] = hooks[h]
        \/ /\ hooks'[h].ver > hooks[h].ver
           /\ Present(hooks[h]) => hooks'[h].val.rev >= hooks[h].val.rev

LEMMA HookHeld ==
    ASSUME TypeOK, hooks' \in [Hooks -> RecordOf(Hook)], HooksMoveOn,
           NEW c \in Clients, HoldsHook(c), proc'[c] \in {proc[c], Free}
    PROVE  HoldsHook(c)'
<1> SUFFICES ASSUME proc'[c].call \in {"update", "rotate", "disable"} PROVE HoldsHook(c)'
  BY DEF HoldsHook
<1>1. proc'[c] = proc[c] /\ proc[c] \in Handling
  BY FreeFacts DEF TypeOK
<1> DEFINE h == proc[c].hook
           read == proc[c].read
<1>2. /\ h \in Hooks /\ Present(read) /\ Present(hooks[h])
      /\ read.ver <= hooks[h].ver /\ read.val.rev <= hooks[h].val.rev
      /\ read.ver = hooks[h].ver => read = hooks[h]
      /\ proc[c].call # "disable" => read.val.rev < MaxRevision
  BY <1>1 DEF HoldsHook
<1>3. read \in RecordOf(Hook) /\ hooks[h] \in RecordOf(Hook) /\ hooks'[h] \in RecordOf(Hook)
  BY <1>1, <1>2 DEF TypeOK, Handling
<1>4. read.ver \in Nat /\ hooks[h].ver \in Nat /\ hooks'[h].ver \in Nat
  BY <1>3, RecordFacts
<1>5. /\ Present(hooks'[h]) /\ read.ver <= hooks'[h].ver
      /\ read.ver = hooks'[h].ver => read = hooks'[h]
  BY <1>2, <1>4 DEF HooksMoveOn, Present
<1>6. read.val \in Hook /\ hooks[h].val \in Hook /\ hooks'[h].val \in Hook
  BY <1>2, <1>3, <1>5, RecordFacts
<1>7. read.val.rev <= hooks'[h].val.rev
  BY <1>2, <1>6 DEF HooksMoveOn, Hook, Revisions
<1>8. QED
  BY <1>1, <1>2, <1>5, <1>7 DEF HoldsHook

\* A step that may write hooks and revisions.
LEMMA HookStep ==
    ASSUME IInv, hooks' \in [Hooks -> RecordOf(Hook)],
           revisions' \in [Hooks -> [Revisions -> RecordOf(Revision)]],
           RevisionsInOrder', HooksMoveOn,
           UNCHANGED <<feed, scopes, materializations, deliveries, cursors, early, accepted, disp>>,
           proc' \in [Clients -> Handling], \A c \in Clients: proc'[c] \in {proc[c], Free}
    PROVE  IInv'
<1>1. TypeOK'
  BY DEF IInv, TypeOK
<1>2. ASSUME NEW c \in Clients PROVE HoldsHook(c)'
  BY HookHeld DEF IInv
<1>3. DeliveryIsMaterialized' /\ OutcomesKnown'
  BY DEF IInv, DeliveryIsMaterialized, OutcomesKnown
<1>4. ASSUME NEW c \in Clients PROVE HoldsDead(c)'
  BY FreeFacts DEF IInv, HoldsDead
<1>5. \A s \in Scopes: Len(feed'[s]) \in Nat /\ Len(feed'[s]) >= Len(feed[s])
  BY DEF IInv, TypeOK
<1>6. InHand'
  BY <1>5, InHandKept DEF IInv
<1>7. QED
  BY <1>1, <1>2, <1>3, <1>4, <1>6 DEF IInv

\* A put of a hook and one of its revisions.
LEMMA RevisionPut ==
    ASSUME TypeOK, NEW h \in Hooks, NEW n \in Revisions,
           NEW revision \in Revision, NEW hook \in Hook,
           Present(hooks[h]) => hook.rev >= hooks[h].val.rev,
           revisions' = [revisions EXCEPT ![h][n] = Written(@, revision)],
           hooks' = [hooks EXCEPT ![h] = Written(@, hook)]
    PROVE  /\ hooks' \in [Hooks -> RecordOf(Hook)] /\ HooksMoveOn
           /\ revisions' \in [Hooks -> [Revisions -> RecordOf(Revision)]]
           /\ \A g \in Hooks \ {h}: hooks'[g] = hooks[g] /\ revisions'[g] = revisions[g]
           /\ Present(hooks'[h]) /\ hooks'[h].val = hook
           /\ \A m \in Revisions \ {n}: revisions'[h][m] = revisions[h][m]
           /\ Present(revisions'[h][n]) /\ revisions'[h][n].val = revision
<1>1. /\ hooks \in [Hooks -> RecordOf(Hook)] /\ hooks[h] \in RecordOf(Hook)
      /\ revisions \in [Hooks -> [Revisions -> RecordOf(Revision)]]
      /\ revisions[h] \in [Revisions -> RecordOf(Revision)]
      /\ revisions[h][n] \in RecordOf(Revision)
  BY DEF TypeOK
<1>2. hooks'[h] = Written(hooks[h], hook) /\ revisions'[h][n] = Written(revisions[h][n], revision)
  BY <1>1
<1>3. /\ hooks'[h] \in RecordOf(Hook) /\ Present(hooks'[h])
      /\ hooks'[h].ver = hooks[h].ver + 1 /\ hooks'[h].val = hook
      /\ hooks[h].ver \in Nat
  BY <1>1, <1>2, WrittenFacts, RecordFacts
<1>4. /\ revisions'[h][n] \in RecordOf(Revision) /\ Present(revisions'[h][n])
      /\ revisions'[h][n].val = revision
  BY <1>1, <1>2, WrittenFacts
<1>5. \A g \in Hooks \ {h}: hooks'[g] = hooks[g] /\ revisions'[g] = revisions[g]
  BY <1>1
<1>6. \A m \in Revisions \ {n}: revisions'[h][m] = revisions[h][m]
  BY <1>1
<1>7. hooks' \in [Hooks -> RecordOf(Hook)]
  BY <1>1, <1>3
<1>8. revisions' \in [Hooks -> [Revisions -> RecordOf(Revision)]]
  <2>1. Written(revisions[h][n], revision) \in RecordOf(Revision)
    BY <1>2, <1>4
  <2>2. QED
    BY <1>1, <2>1
<1>9. HooksMoveOn
  BY <1>3, <1>5 DEF HooksMoveOn
<1>10. QED
  BY <1>3, <1>4, <1>5, <1>6, <1>7, <1>8, <1>9

\* The revision in force takes the next number, and the new one is its successor.
Succeeds(this, prior, n) == this = [prior EXCEPT !.source = n] \/ this = [prior EXCEPT !.secret = n]

LEMMA SuccessionFacts ==
    RevisionsInOrder <=>
        \A h \in Hooks:
            /\ {n \in Revisions: Present(revisions[h][n])}
                  = IF Present(hooks[h]) THEN 1 .. hooks[h].val.rev ELSE {}
            /\ \A n \in Revisions \ {1}: Present(revisions[h][n]) =>
                Succeeds(revisions[h][n].val, revisions[h][n - 1].val, n)
  BY DEF RevisionsInOrder, Succeeds

LEMMA NextRevision ==
    ASSUME RevisionsInOrder, NEW h \in Hooks, NEW n \in Revisions,
           \/ ~Present(hooks[h]) /\ n = 1
           \/ /\ Present(hooks[h]) /\ hooks[h].val.rev \in Revisions /\ n = hooks[h].val.rev + 1
              /\ Succeeds(revisions'[h][n].val, revisions[h][n - 1].val, n),
           \A g \in Hooks \ {h}: hooks'[g] = hooks[g] /\ revisions'[g] = revisions[g],
           Present(hooks'[h]), hooks'[h].val.rev = n,
           \A m \in Revisions \ {n}: revisions'[h][m] = revisions[h][m],
           Present(revisions'[h][n])
    PROVE  RevisionsInOrder'
<1>1. {m \in Revisions: Present(revisions[h][m])} = 1 .. n - 1
  BY SuccessionFacts DEF Revisions
<1>2. \A m \in Revisions: Present(revisions'[h][m]) <=> m \in 1 .. n
  BY <1>1 DEF Revisions
<1>3. ASSUME NEW m \in Revisions \ {1}, Present(revisions'[h][m])
      PROVE  Succeeds(revisions'[h][m].val, revisions'[h][m - 1].val, m)
  <2>1. m \in 1 .. n /\ m - 1 \in Revisions \ {n}
    BY <1>2, <1>3 DEF Revisions
  <2>2. revisions'[h][m - 1] = revisions[h][m - 1]
    BY <2>1
  <2>3. CASE m = n
    BY <1>3, <2>2, <2>3
  <2>4. CASE m # n
    BY <1>3, <2>2, <2>4, SuccessionFacts
  <2>5. QED
    BY <2>3, <2>4
<1>4. ASSUME NEW g \in Hooks
      PROVE  /\ {m \in Revisions: Present(revisions'[g][m])}
                  = IF Present(hooks'[g]) THEN 1 .. hooks'[g].val.rev ELSE {}
             /\ \A m \in Revisions \ {1}: Present(revisions'[g][m]) =>
                 Succeeds(revisions'[g][m].val, revisions'[g][m - 1].val, m)
  <2>1. CASE g # h
    BY <2>1, SuccessionFacts
  <2>2. CASE g = h
    <3>1. {m \in Revisions: Present(revisions'[h][m])} = 1 .. n
      BY <1>2 DEF Revisions
    <3>2. QED
      BY <1>3, <2>2, <3>1
  <2>3. QED
    BY <2>1, <2>2
<1>5. QED
  BY <1>4 DEF RevisionsInOrder, Succeeds

LEMMA RegisterStep == ASSUME NEW c \in Clients PROVE IInv /\ Register(c) => IInv'
<1> SUFFICES ASSUME IInv, Register(c) PROVE IInv'
  OBVIOUS
<1>1. PICK h \in Hooks, n \in Revisions, hook \in Hook, revision \in Revision:
        /\ ~Present(hooks[h]) /\ n = 1 /\ hook.rev = n
        /\ hooks' = [hooks EXCEPT ![h] = Written(@, hook)]
        /\ revisions' = [revisions EXCEPT ![h][n] = Written(@, revision)]
  <2>1. PICK h \in Hooks, s \in Scopes, f \in Filters:
          /\ ~Present(hooks[h])
          /\ hooks' = [hooks EXCEPT ![h] =
                          Written(@, [rev |-> 1, scope |-> s, filter |-> f, enabled |-> TRUE])]
          /\ revisions' = [revisions EXCEPT ![h][1] = Written(@, [source |-> 1, secret |-> 1])]
    BY DEF Register
  <2>2. [rev |-> 1, scope |-> s, filter |-> f, enabled |-> TRUE] \in Hook
    BY DEF Hook, Revisions
  <2>3. [source |-> 1, secret |-> 1] \in Revision
    BY DEF Revision, Revisions
  <2>4. 1 \in Revisions
    BY DEF Revisions
  <2>5. QED
    BY <2>1, <2>2, <2>3, <2>4
<1>2. TypeOK /\ RevisionsInOrder
  BY DEF IInv
<1>3. /\ hooks' \in [Hooks -> RecordOf(Hook)] /\ HooksMoveOn
      /\ revisions' \in [Hooks -> [Revisions -> RecordOf(Revision)]]
      /\ \A g \in Hooks \ {h}: hooks'[g] = hooks[g] /\ revisions'[g] = revisions[g]
      /\ Present(hooks'[h]) /\ hooks'[h].val = hook
      /\ \A m \in Revisions \ {n}: revisions'[h][m] = revisions[h][m]
      /\ Present(revisions'[h][n]) /\ revisions'[h][n].val = revision
  <2>1. /\ h \in Hooks /\ n \in Revisions /\ hook \in Hook /\ revision \in Revision
        /\ ~Present(hooks[h])
        /\ hooks' = [hooks EXCEPT ![h] = Written(@, hook)]
        /\ revisions' = [revisions EXCEPT ![h][n] = Written(@, revision)]
    BY <1>1
  <2>2. QED
    BY <1>2, <2>1, RevisionPut
<1>4. RevisionsInOrder'
  BY <1>1, <1>2, <1>3, NextRevision
<1>5. UNCHANGED <<feed, scopes, materializations, deliveries, cursors, early, accepted, disp, proc>>
  BY DEF Register
<1>6. QED
  BY <1>2, <1>3, <1>4, <1>5, HookStep DEF TypeOK

\* What a handler holds that is about to write a hook, if the hook is still as it was.
LEMMA HookInHand ==
    ASSUME IInv, NEW c \in Clients, proc[c].call \in {"update", "rotate", "disable"},
           Matches(hooks[proc[c].hook], proc[c].read.ver)
    PROVE  /\ proc[c].hook \in Hooks /\ Present(hooks[proc[c].hook])
           /\ proc[c].read = hooks[proc[c].hook]
           /\ proc[c].read.val \in Hook
           /\ proc[c].call # "disable" =>
                /\ proc[c].read.val.rev + 1 \in Revisions
                /\ revisions[proc[c].hook][proc[c].read.val.rev].val \in Revision
<1> DEFINE h == proc[c].hook
           read == proc[c].read
<1>1. /\ h \in Hooks /\ Present(read) /\ Present(hooks[h])
      /\ read.ver = hooks[h].ver => read = hooks[h]
      /\ proc[c].call # "disable" => read.val.rev < MaxRevision
  BY DEF IInv, HoldsHook
<1>2. read \in RecordOf(Hook) /\ hooks[h] \in RecordOf(Hook)
  BY <1>1 DEF IInv, TypeOK, Handling
<1>3. read.ver \in Nat /\ read.val \in Hook
  BY <1>1, <1>2, RecordFacts
<1>4. read = hooks[h]
  BY <1>1, <1>2, <1>3, RecordFacts
<1>5. read.val.rev \in Revisions
  BY <1>3 DEF Hook
<1>6. Present(revisions[h][read.val.rev])
  BY <1>1, <1>4, <1>5 DEF IInv, RevisionsInOrder, Revisions
<1>7. revisions[h][read.val.rev] \in RecordOf(Revision)
  BY <1>1, <1>5 DEF IInv, TypeOK
<1>8. revisions[h][read.val.rev].val \in Revision
  BY <1>6, <1>7, RecordFacts
<1>9. QED
  BY <1>1, <1>3, <1>4, <1>5, <1>8 DEF Revisions

\* The transaction of an update or of a rotation, whichever of its checks fails.
LEMMA PutRevisionStep ==
    ASSUME IInv, NEW c \in Clients, proc[c].call \in {"update", "rotate"},
           NEW revision, NEW hook, PutRevision(c, revision, hook),
           Matches(hooks[proc[c].hook], proc[c].read.ver) =>
               /\ revision \in Revision /\ hook \in Hook /\ hook.rev = proc[c].read.val.rev + 1
               /\ Succeeds(revision, Prior(c), proc[c].read.val.rev + 1),
           proc' = [proc EXCEPT ![c] = Free],
           UNCHANGED <<feed, scopes, materializations, deliveries, cursors, early, accepted, disp>>
    PROVE  IInv'
<1>1. proc' \in [Clients -> Handling] /\ \A a \in Clients: proc'[a] \in {proc[a], Free}
  BY FreeFacts DEF IInv, TypeOK
<1>2. CASE UNCHANGED <<revisions, hooks>>
  <2>1. HooksMoveOn /\ RevisionsInOrder'
    BY <1>2 DEF IInv, HooksMoveOn, RevisionsInOrder
  <2>2. QED
    BY <1>1, <1>2, <2>1, HookStep DEF IInv, TypeOK
<1>3. CASE ~UNCHANGED <<revisions, hooks>>
  <2>1. PICK h, n: h = proc[c].hook /\ n = proc[c].read.val.rev + 1
    OBVIOUS
  <2>2. /\ Matches(hooks[h], proc[c].read.ver)
        /\ revisions' = [revisions EXCEPT ![h][n] = Written(@, revision)]
        /\ hooks' = [hooks EXCEPT ![h] = Written(@, hook)]
    BY <1>3, <2>1 DEF PutRevision
  <2>3. /\ h \in Hooks /\ Present(hooks[h]) /\ n \in Revisions
        /\ n = hooks[h].val.rev + 1 /\ hooks[h].val \in Hook
    BY <2>1, <2>2, HookInHand
  <2>4. hooks[h].val.rev \in Revisions /\ hooks[h].val.rev = n - 1
    BY <2>3 DEF Hook, Revisions
  <2>5. /\ revision \in Revision /\ hook \in Hook /\ hook.rev = n
        /\ Succeeds(revision, revisions[h][n - 1].val, n)
    <3>1. Prior(c) = revisions[h][n - 1].val
      BY <2>1, <2>2, <2>3, <2>4, HookInHand DEF Prior
    <3>2. QED
      BY <2>1, <2>2, <3>1
  <2>6. TypeOK /\ RevisionsInOrder
    BY DEF IInv
  <2>7. hook.rev >= hooks[h].val.rev
    <3>1. n \in Nat /\ n - 1 \in Nat
      BY <2>3, <2>4 DEF Revisions
    <3>2. QED
      BY <2>4, <2>5, <3>1
  <2>8. /\ hooks' \in [Hooks -> RecordOf(Hook)] /\ HooksMoveOn
        /\ revisions' \in [Hooks -> [Revisions -> RecordOf(Revision)]]
        /\ \A g \in Hooks \ {h}: hooks'[g] = hooks[g] /\ revisions'[g] = revisions[g]
        /\ Present(hooks'[h]) /\ hooks'[h].val = hook
        /\ \A m \in Revisions \ {n}: revisions'[h][m] = revisions[h][m]
        /\ Present(revisions'[h][n]) /\ revisions'[h][n].val = revision
    BY <2>2, <2>3, <2>5, <2>6, <2>7, RevisionPut
  <2>9. RevisionsInOrder'
    BY <2>3, <2>4, <2>5, <2>6, <2>8, NextRevision
  <2>10. QED
    BY <1>1, <2>8, <2>9, HookStep
<1>4. QED
  BY <1>2, <1>3

LEMMA UpdateStep == ASSUME NEW c \in Clients PROVE IInv /\ Update(c) => IInv'
<1> SUFFICES ASSUME IInv, Update(c) PROVE IInv'
  OBVIOUS
<1>1. PICK n: n = proc[c].read.val.rev + 1
  OBVIOUS
<1>2. PICK s \in Scopes, f \in Filters:
        PutRevision(c, [Prior(c) EXCEPT !.source = n],
                       [rev |-> n, scope |-> s, filter |-> f, enabled |-> TRUE])
  BY <1>1 DEF Update
<1>3. PICK revision, hook: /\ revision = [Prior(c) EXCEPT !.source = n]
                           /\ hook = [rev |-> n, scope |-> s, filter |-> f, enabled |-> TRUE]
  OBVIOUS
<1>4. /\ proc[c].call = "update" /\ proc' = [proc EXCEPT ![c] = Free]
      /\ UNCHANGED <<feed, scopes, materializations, deliveries, cursors, early, accepted, disp>>
  BY DEF Update
<1>5. ASSUME Matches(hooks[proc[c].hook], proc[c].read.ver)
      PROVE  /\ revision \in Revision /\ hook \in Hook /\ hook.rev = n
             /\ Succeeds(revision, Prior(c), n)
  <2>1. n \in Revisions /\ Prior(c) \in Revision
    BY <1>1, <1>4, <1>5, HookInHand DEF Prior
  <2>2. revision \in Revision
    BY <1>3, <2>1 DEF Revision
  <2>3. hook \in Hook
    BY <1>3, <2>1 DEF Hook
  <2>4. QED
    BY <1>3, <2>2, <2>3 DEF Succeeds
<1>6. PutRevision(c, revision, hook)
  BY <1>2, <1>3
<1>7. QED
  BY <1>1, <1>4, <1>5, <1>6, PutRevisionStep

LEMMA RotateSecretStep == ASSUME NEW c \in Clients PROVE IInv /\ RotateSecret(c) => IInv'
<1> SUFFICES ASSUME IInv, RotateSecret(c) PROVE IInv'
  OBVIOUS
<1>1. PICK n: n = proc[c].read.val.rev + 1
  OBVIOUS
<1>2. PutRevision(c, [Prior(c) EXCEPT !.secret = n], [proc[c].read.val EXCEPT !.rev = n])
  BY <1>1 DEF RotateSecret
<1>3. PICK revision, hook: /\ revision = [Prior(c) EXCEPT !.secret = n]
                           /\ hook = [proc[c].read.val EXCEPT !.rev = n]
  OBVIOUS
<1>4. /\ proc[c].call = "rotate" /\ proc' = [proc EXCEPT ![c] = Free]
      /\ UNCHANGED <<feed, scopes, materializations, deliveries, cursors, early, accepted, disp>>
  BY DEF RotateSecret
<1>5. ASSUME Matches(hooks[proc[c].hook], proc[c].read.ver)
      PROVE  /\ revision \in Revision /\ hook \in Hook /\ hook.rev = n
             /\ Succeeds(revision, Prior(c), n)
  <2>1. n \in Revisions /\ Prior(c) \in Revision /\ proc[c].read.val \in Hook
    BY <1>1, <1>4, <1>5, HookInHand DEF Prior
  <2>2. revision \in Revision
    BY <1>3, <2>1 DEF Revision
  <2>3. hook \in Hook /\ hook.rev = n
    BY <1>3, <2>1 DEF Hook
  <2>4. QED
    BY <1>3, <2>2, <2>3 DEF Succeeds
<1>6. PutRevision(c, revision, hook)
  BY <1>2, <1>3
<1>7. QED
  BY <1>1, <1>4, <1>5, <1>6, PutRevisionStep

LEMMA DisableStep == ASSUME NEW c \in Clients PROVE IInv /\ Disable(c) => IInv'
<1> SUFFICES ASSUME IInv, Disable(c) PROVE IInv'
  OBVIOUS
<1>1. /\ proc[c].call = "disable" /\ proc' = [proc EXCEPT ![c] = Free]
      /\ UNCHANGED <<feed, scopes, revisions, materializations, deliveries, cursors,
                     early, accepted, disp>>
  BY DEF Disable
<1>2. proc' \in [Clients -> Handling] /\ \A a \in Clients: proc'[a] \in {proc[a], Free}
  BY <1>1, FreeFacts DEF IInv, TypeOK
<1>3. PICK h, read, hook: /\ h = proc[c].hook /\ read = proc[c].read
                          /\ hook = [read.val EXCEPT !.enabled = FALSE]
  OBVIOUS
<1>4. CASE ~Matches(hooks[h], read.ver)
  <2>1. UNCHANGED hooks
    BY <1>3, <1>4 DEF Disable
  <2>2. HooksMoveOn /\ RevisionsInOrder'
    BY <1>1, <2>1 DEF IInv, HooksMoveOn, RevisionsInOrder
  <2>3. QED
    BY <1>1, <1>2, <2>1, <2>2, HookStep DEF IInv, TypeOK
<1>5. CASE Matches(hooks[h], read.ver)
  <2>1. hooks' = [hooks EXCEPT ![h] = Written(@, hook)]
    BY <1>3, <1>5 DEF Disable
  <2>2. h \in Hooks /\ Present(hooks[h]) /\ read = hooks[h] /\ read.val \in Hook
    BY <1>1, <1>3, <1>5, HookInHand
  <2>3. hook \in Hook /\ hook.rev = hooks[h].val.rev /\ hook.rev \in Revisions
    BY <1>3, <2>2 DEF Hook
  <2>4. hooks \in [Hooks -> RecordOf(Hook)] /\ hooks[h] \in RecordOf(Hook)
    BY <2>2 DEF IInv, TypeOK
  <2>5. hooks'[h] = Written(hooks[h], hook) /\ \A g \in Hooks \ {h}: hooks'[g] = hooks[g]
    BY <2>1, <2>2, <2>4
  <2>6. /\ hooks'[h] \in RecordOf(Hook) /\ Present(hooks'[h]) /\ hooks'[h].val = hook
        /\ hooks'[h].ver = hooks[h].ver + 1 /\ hooks[h].ver \in Nat
    BY <2>3, <2>4, <2>5, WrittenFacts, RecordFacts
  <2>7. hooks' \in [Hooks -> RecordOf(Hook)]
    BY <2>1, <2>4, <2>5, <2>6
  <2>8. HooksMoveOn
    BY <2>3, <2>5, <2>6 DEF HooksMoveOn, Revisions
  <2>9. RevisionsInOrder'
    BY <1>1, <2>2, <2>3, <2>5, <2>6 DEF IInv, RevisionsInOrder
  <2>10. QED
    BY <1>1, <1>2, <2>7, <2>8, <2>9, HookStep DEF IInv, TypeOK
<1>6. QED
  BY <1>4, <1>5

\* A step that changes one handler's state only.
LEMMA HandlerStep ==
    ASSUME IInv, UNCHANGED <<feed, scopes, records, early, accepted, disp>>,
           NEW c \in Clients, NEW p \in Handling, proc' = [proc EXCEPT ![c] = p],
           HoldsHook(c)', HoldsDead(c)'
    PROVE  IInv'
<1>1. proc' \in [Clients -> Handling] /\ \A a \in Clients \ {c}: proc'[a] = proc[a]
  BY DEF IInv, TypeOK
<1>2. TypeOK'
  BY <1>1 DEF IInv, TypeOK, records
<1>3. RevisionsInOrder' /\ DeliveryIsMaterialized' /\ OutcomesKnown'
  BY DEF IInv, records, RevisionsInOrder, DeliveryIsMaterialized, OutcomesKnown
<1>4. ASSUME NEW a \in Clients \ {c} PROVE HoldsHook(a)' /\ HoldsDead(a)'
  BY <1>1 DEF IInv, records, HoldsHook, HoldsDead
<1>5. \A s \in Scopes: Len(feed'[s]) \in Nat /\ Len(feed'[s]) >= Len(feed[s])
  BY DEF IInv, TypeOK
<1>6. InHand'
  BY <1>5, InHandKept DEF IInv, records
<1>7. QED
  BY <1>2, <1>3, <1>4, <1>6 DEF IInv

LEMMA ReadHookStep == ASSUME NEW c \in Clients PROVE IInv /\ ReadHook(c) => IInv'
<1> SUFFICES ASSUME IInv, ReadHook(c) PROVE IInv'
  OBVIOUS
<1>1. PICK h \in Hooks, call \in {"update", "rotate", "disable"}:
        /\ Present(hooks[h])
        /\ call # "disable" => hooks[h].val.rev < MaxRevision
        /\ proc' = [proc EXCEPT ![c] = [Free EXCEPT !.call = call, !.hook = h, !.read = hooks[h]]]
  BY DEF ReadHook
<1>2. PICK p: p = [Free EXCEPT !.call = call, !.hook = h, !.read = hooks[h]]
  OBVIOUS
<1>3. proc \in [Clients -> Handling] /\ hooks[h] \in RecordOf(Hook)
  BY DEF IInv, TypeOK
<1>4. p.call = call /\ p.hook = h /\ p.read = hooks[h] /\ p.dead = {} /\ p \in Handling
  BY <1>2, <1>3, FreeFacts DEF Handling, Free
<1>5. proc' = [proc EXCEPT ![c] = p] /\ proc'[c] = p
  BY <1>1, <1>2, <1>3
<1>6. UNCHANGED <<feed, scopes, records, early, accepted, disp>> /\ UNCHANGED hooks
  BY DEF ReadHook, records
<1>7. hooks[h].ver \in Nat /\ hooks[h].val.rev \in Nat
  <2>1. hooks[h].val \in Hook
    BY <1>1, <1>3, RecordFacts
  <2>2. QED
    BY <1>3, <2>1, RecordFacts DEF Hook, Revisions
<1>8. HoldsHook(c)'
  <2>1. Present(hooks'[h]) /\ (call # "disable" => hooks'[h].val.rev < MaxRevision)
    BY <1>1, <1>6
  <2>2. hooks'[h].ver <= hooks'[h].ver /\ hooks'[h].val.rev <= hooks'[h].val.rev
    BY <1>6, <1>7
  <2>3. proc'[c].call = call /\ proc'[c].hook = h /\ proc'[c].read = hooks'[h] /\ h \in Hooks
    BY <1>4, <1>5, <1>6
  <2>4. QED
    BY <2>1, <2>2, <2>3 DEF HoldsHook
<1>9. HoldsDead(c)'
  BY <1>4, <1>5 DEF HoldsDead
<1>10. QED
  BY <1>4, <1>5, <1>6, <1>8, <1>9, HandlerStep

LEMMA CancelStep == ASSUME NEW c \in Clients PROVE IInv /\ Cancel(c) => IInv'
<1> SUFFICES ASSUME IInv, Cancel(c) PROVE IInv'
  OBVIOUS
<1>1. proc' = [proc EXCEPT ![c] = Free] /\ UNCHANGED <<feed, scopes, records, early, accepted, disp>>
  BY DEF Cancel
<1>2. HoldsHook(c)' /\ HoldsDead(c)'
  BY <1>1, FreeFacts DEF IInv, TypeOK, HoldsHook, HoldsDead
<1>3. QED
  BY <1>1, <1>2, FreeFacts, HandlerStep

LEMMA BeginReplayStep == ASSUME NEW c \in Clients PROVE IInv /\ BeginReplay(c) => IInv'
<1> SUFFICES ASSUME IInv, BeginReplay(c) PROVE IInv'
  OBVIOUS
<1>1. PICK h \in Hooks, dead \in SUBSET DeliveriesIn({"dead"}):
        proc' = [proc EXCEPT ![c] = [Free EXCEPT !.call = "replay", !.hook = h, !.dead = dead]]
  BY DEF BeginReplay
<1>2. PICK p: p = [Free EXCEPT !.call = "replay", !.hook = h, !.dead = dead]
  OBVIOUS
<1>3. proc \in [Clients -> Handling] /\ TypeOK /\ dead \in SUBSET Copies
  BY ListedAreCopies DEF IInv, TypeOK
<1>4. p.call = "replay" /\ p.dead = dead /\ p \in Handling
  BY <1>2, <1>3, FreeFacts DEF Handling, Free
<1>5. proc' = [proc EXCEPT ![c] = p] /\ proc'[c] = p
  BY <1>1, <1>2, <1>3
<1>6. UNCHANGED <<feed, scopes, records, early, accepted, disp>> /\ UNCHANGED deliveries
  BY DEF BeginReplay, records
<1>7. HoldsHook(c)'
  BY <1>4, <1>5 DEF HoldsHook
<1>8. ASSUME NEW d \in dead
      PROVE  /\ Present(d.copy) /\ d.copy.val.status = "dead"
             /\ d.copy.ver <= deliveries[d.item].ver
             /\ d.copy.ver = deliveries[d.item].ver => d.copy = deliveries[d.item]
  <2>1. /\ d.copy = deliveries[d.item] /\ d.copy \in RecordOf(Delivery)
        /\ Present(d.copy) /\ d.copy.val.status \in {"dead"}
    BY <1>3, ListedFacts
  <2>2. d.copy.ver \in Nat
    BY <2>1, RecordFacts
  <2>3. QED
    BY <2>1, <2>2
<1>9. HoldsDead(c)'
  BY <1>4, <1>5, <1>6, <1>8 DEF HoldsDead
<1>10. QED
  BY <1>4, <1>5, <1>6, <1>7, <1>9, HandlerStep

\* The dead delivery that a replay is about to put, if it is still as it was listed.
LEMMA DeadInHand ==
    ASSUME IInv, NEW c \in Clients, NEW d \in proc[c].dead,
           Matches(deliveries[d.item], d.copy.ver)
    PROVE  /\ d.item \in Items /\ d.copy = deliveries[d.item]
           /\ Present(deliveries[d.item]) /\ deliveries[d.item].val \in Delivery
           /\ deliveries[d.item].val.status = "dead"
<1>1. d.item \in Items /\ d.copy \in RecordOf(Delivery)
  BY DEF IInv, TypeOK, Handling, Copies
<1>2. deliveries[d.item] \in RecordOf(Delivery)
  BY <1>1 DEF IInv, TypeOK
<1>3. /\ Present(d.copy) /\ d.copy.val.status = "dead"
      /\ d.copy.ver = deliveries[d.item].ver => d.copy = deliveries[d.item]
  BY DEF IInv, HoldsDead
<1>4. d.copy.ver \in Nat
  BY <1>1, RecordFacts
<1>5. d.copy = deliveries[d.item]
  BY <1>2, <1>3, <1>4, RecordFacts
<1>6. QED
  BY <1>1, <1>2, <1>3, <1>5, RecordFacts

LEMMA ReplayNextStep == ASSUME NEW c \in Clients PROVE IInv /\ ReplayNext(c) => IInv'
<1> SUFFICES ASSUME IInv, ReplayNext(c) PROVE IInv'
  OBVIOUS
<1>1. UNCHANGED <<feed, scopes, hooks, revisions, materializations, cursors, accepted, disp>>
  BY DEF ReplayNext
<1>2. CASE proc' = [proc EXCEPT ![c] = Free] /\ UNCHANGED <<deliveries, early>>
  <2>1. UNCHANGED <<feed, scopes, records, early, accepted, disp>>
    BY <1>1, <1>2 DEF records
  <2>2. HoldsHook(c)' /\ HoldsDead(c)'
    BY <1>2, FreeFacts DEF IInv, TypeOK, HoldsHook, HoldsDead
  <2>3. QED
    BY <1>2, <2>1, <2>2, FreeFacts, HandlerStep
<1>3. ASSUME NEW d \in proc[c].dead, Matches(deliveries[d.item], d.copy.ver),
             deliveries' = [deliveries EXCEPT ![d.item] =
                    Written(@, [d.copy.val EXCEPT !.status = "pending", !.attempts = 0])],
             early' = early \ {d.item},
             proc' = [proc EXCEPT ![c] = IF proc[c].dead = {d} THEN Free
                                         ELSE [proc[c] EXCEPT !.dead = @ \ {d}]]
      PROVE  IInv'
  <2>1. PICK i, v: i = d.item /\ v = [d.copy.val EXCEPT !.status = "pending", !.attempts = 0]
    OBVIOUS
  <2>2. /\ i \in Items /\ Present(deliveries[i])
        /\ deliveries[i].val \in Delivery /\ deliveries[i].val.status = "dead"
        /\ d.copy.val = deliveries[i].val
    BY <1>3, <2>1, DeadInHand
  <2>3. /\ v \in Delivery /\ v.payload = deliveries[i].val.payload
        /\ v.attempts < MaxAttempts
    <3>1. v = [deliveries[i].val EXCEPT !.status = "pending", !.attempts = 0]
      BY <2>1, <2>2
    <3>2. 0 \in 0 .. MaxAttempts /\ 0 < MaxAttempts
      OBVIOUS
    <3>3. v \in Delivery
      BY <2>2, <3>1, <3>2 DEF Delivery
    <3>4. QED
      BY <2>2, <3>1, <3>2 DEF Delivery
  <2>4. deliveries' = [deliveries EXCEPT ![i] = Written(@, v)]
    BY <1>3, <2>1
  <2>5. /\ TypeOK /\ DeliveryIsMaterialized /\ OutcomesKnown
        /\ Present(materializations[i]) /\ materializations[i].val.status \in {"rendered", "dead"}
        /\ v.payload = materializations[i].val.payload
    BY <2>2, <2>3 DEF IInv, DeliveryIsMaterialized
  <2>6. /\ deliveries' \in [Items -> RecordOf(Delivery)]
        /\ DeliveryIsMaterialized' /\ OutcomesKnown' /\ DeliveriesMoveOn
        /\ Present(deliveries'[i]) /\ \A j \in Items \ {i}: deliveries'[j] = deliveries[j]
    BY <1>1, <2>2, <2>3, <2>4, <2>5, DeliveryPut
  <2>7. PICK p: /\ p = IF proc[c].dead = {d} THEN Free ELSE [proc[c] EXCEPT !.dead = @ \ {d}]
                /\ proc' = [proc EXCEPT ![c] = p]
    <3>1. PICK p: p = IF proc[c].dead = {d} THEN Free ELSE [proc[c] EXCEPT !.dead = @ \ {d}]
      OBVIOUS
    <3>2. proc' = [proc EXCEPT ![c] = p]
      BY <1>3, <3>1
    <3>3. QED
      BY <3>1, <3>2
  <2>8. proc \in [Clients -> Handling] /\ proc[c] \in Handling
    BY DEF IInv, TypeOK
  <2>9. p \in Handling /\ p.dead \subseteq proc[c].dead /\ p.call \in {"idle", proc[c].call}
    BY <2>7, <2>8, FreeFacts DEF Handling
  <2>10. /\ proc' \in [Clients -> Handling]
         /\ \A a \in Clients: proc'[a].dead \subseteq proc[a].dead
    BY <2>7, <2>8, <2>9
  <2>11. early' \subseteq Items
    BY <1>3 DEF IInv, TypeOK
  <2>12. TypeOK'
    BY <1>1, <2>6, <2>10, <2>11 DEF IInv, TypeOK
  <2>13. RevisionsInOrder'
    BY <1>1 DEF IInv, RevisionsInOrder
  <2>14. ASSUME NEW a \in Clients PROVE HoldsHook(a)' /\ HoldsDead(a)'
    <3>1. HoldsDead(a)'
      BY <2>5, <2>6, <2>10, DeadKept DEF IInv
    <3>2. proc[c].call = "replay"
      BY DEF ReplayNext
    <3>3. HoldsHook(a)'
      <4>1. CASE a = c
        <5>1. proc'[c].call \notin {"update", "rotate", "disable"}
          BY <2>7, <2>8, <2>9, <3>2
        <5>2. QED
          BY <4>1, <5>1 DEF HoldsHook
      <4>2. CASE a # c
        BY <1>1, <2>7, <2>8, <4>2 DEF IInv, HoldsHook
      <4>3. QED
        BY <4>1, <4>2
    <3>4. QED
      BY <3>1, <3>3
  <2>15. PollsScope'
    BY <1>1, CursorsKept DEF IInv, InHand, PollsScope
  <2>16. \A j \in Items: Settled(j) => Settled(j)'
    BY <1>1, <2>6 DEF Settled, Skipped
  <2>17. disp.claims \subseteq Items
    BY DEF IInv, TypeOK, Dispatching
  <2>18. HandlesEvent' /\ HandlesItem'
    BY <1>1, <2>16, <2>17 DEF IInv, InHand, HandlesEvent, HandlesItem
  <2>19. DeliversListed'
    <3>1. disp.due \in SUBSET DeliveriesIn(Waiting)
      BY DEF IInv, InHand, DeliversListed
    <3>2. ASSUME NEW e \in disp.due PROVE e.item # i
      <4>1. e.copy = deliveries[e.item] /\ e.copy.val.status \in Waiting
        BY <2>5, <3>1, ListedFacts
      <4>2. QED
        BY <2>2, <4>1 DEF Waiting
    <3>3. disp.due \subseteq DeliveriesIn(Waiting)'
      BY <2>2, <2>5, <2>6, <3>1, <3>2, OthersStayListed
    <3>4. disp.call = "record" => disp.item \in Items \ {i}
      BY <2>2 DEF IInv, InHand, DeliversListed, Waiting
    <3>5. QED
      BY <1>1, <2>6, <3>3, <3>4 DEF IInv, InHand, DeliversListed
  <2>20. QED
    BY <2>6, <2>12, <2>13, <2>14, <2>15, <2>18, <2>19 DEF IInv, InHand
<1>4. QED
  BY <1>2, <1>3 DEF ReplayNext

-------------------------------------------------------------------------------
(***************************************************************************)
(* The invariant                                                           *)
(***************************************************************************)

LEMMA NextIInv == IInv /\ [Next]_vars => IInv'
<1> SUFFICES ASSUME IInv, [Next]_vars PROVE IInv'
  OBVIOUS
<1>1. CASE RunDispatcher
  <2>1. CASE EndPoll \/ EndPass
    BY <2>1, RestStep DEF EndPoll, EndPass
  <2>2. QED
    BY <1>1, <2>1, TickStep, BeginPollStep, NextEventStep, EndPollsStep, SaveCursorStep,
       ListHooksStep, GetMaterializationStep, PutMaterializationStep, TransformStep,
       CreateDeliveryStep, ListDeliveriesStep, SkipEarlyStep, PostStep, RecordDeliveryStep
       DEF RunDispatcher, Poll, ProcessEvent, DeliverDue
<1>2. CASE RefreshScopes
  BY <1>2, QuietStep DEF RefreshScopes, IInv, TypeOK
<1>3. ASSUME NEW c \in Clients, Handle(c) \/ Cancel(c) PROVE IInv'
  BY <1>3, RegisterStep, ReadHookStep, UpdateStep, RotateSecretStep, DisableStep,
     BeginReplayStep, ReplayNextStep, CancelStep DEF Handle
<1>4. CASE CoreCommits
  BY <1>4, CoreCommitsStep
<1>5. CASE BackoffEnds
  <2>1. early' \in SUBSET Items /\ scopes' \in SUBSET Scopes
    BY <1>5 DEF BackoffEnds, IInv, TypeOK
  <2>2. QED
    BY <1>5, <2>1, QuietStep DEF BackoffEnds
<1>6. CASE Fail
  BY <1>6, FailStep
<1>7. CASE Crash
  BY <1>7, CrashStep
<1>8. CASE UNCHANGED vars
  <2>1. scopes' \in SUBSET Scopes /\ early' \in SUBSET Items
    BY <1>8 DEF vars, IInv, TypeOK
  <2>2. QED
    BY <1>8, <2>1, QuietStep DEF vars
<1>9. QED
  BY <1>1, <1>2, <1>3, <1>4, <1>5, <1>6, <1>7, <1>8 DEF Next

THEOREM Invariance == Spec => []IInv
<1>1. QED
  BY InitIInv, NextIInv, PTL DEF Spec

\* Every reachable state is well typed: no revision, attempt or event number leaves
\* its range, and whatever a handler or the dispatcher carries was once stored.
THEOREM TypeCorrect == Spec => []TypeOK
<1>1. IInv => TypeOK
  BY DEF IInv
<1>2. QED
  BY <1>1, Invariance, PTL

\* The revisions of a hook are numbered without gaps up to the active one, and each
\* changes its source or its secret and keeps the other, whatever updates, rotations
\* and disablings raced for the hook.
THEOREM RevisionsStayInOrder == Spec => []RevisionsInOrder
<1>1. IInv => RevisionsInOrder
  BY DEF IInv
<1>2. QED
  BY <1>1, Invariance, PTL

\* A delivery carries what was materialized for it, whichever tries of its event,
\* faults of the dispatcher and replays made it.
THEOREM DeliveriesMaterialized == Spec => []DeliveryIsMaterialized
<1>1. IInv => DeliveryIsMaterialized
  BY DEF IInv
<1>2. QED
  BY <1>1, Invariance, PTL

-------------------------------------------------------------------------------
(***************************************************************************)
(* Refinement: what the queue sees of the records and of the dispatcher    *)
(***************************************************************************)

HooksSeen == [h \in Hooks |-> hooks[h].val]
CursorsSeen == [s \in Scopes |-> CursorOf(s)]
ItemsSeen == [i \in Items |-> ItemState(i)]

LEMMA SeenKept ==
    /\ UNCHANGED hooks => UNCHANGED HooksSeen
    /\ UNCHANGED cursors => UNCHANGED CursorsSeen
    /\ UNCHANGED <<materializations, deliveries>> => UNCHANGED ItemsSeen
  BY DEF HooksSeen, CursorsSeen, ItemsSeen, CursorOf, ItemState, Skipped

LEMMA HookSeen ==
    ASSUME TypeOK, NEW h \in Hooks
    PROVE  HooksSeen[h] = hooks[h].val /\ (hooks[h].val # NoValue <=> Present(hooks[h]))
<1>1. hooks[h] \in RecordOf(Hook)
  BY DEF TypeOK
<1>2. hooks[h].val # NoValue <=> Present(hooks[h])
  BY <1>1, RecordFacts DEF RecordOf, Absent
<1>3. QED
  BY <1>2 DEF HooksSeen

\* An event is in hand, and it is an event of a feed.
LEMMA EventSeen ==
    ASSUME IInv, disp.call \in EventCalls
    PROVE  /\ EventInHand = [scope |-> disp.scope, event |-> disp.event]
           /\ EventInHand # NoValue
           /\ disp.scope \in Scopes /\ disp.event \in Events
<1>1. disp.scope \in Scopes /\ disp.event \in Events
  BY DEF IInv, TypeOK, InHand, PollsScope, EventCalls, PollCalls, Dispatching, Events
<1>2. EventInHand = [scope |-> disp.scope, event |-> disp.event]
  BY DEF EventInHand, EventCalls
<1>3. QED
  BY <1>1, <1>2

\* What the queue calls an item, by its records.
LEMMA ItemSeen ==
    ASSUME TypeOK, NEW i \in Items
    PROVE  /\ ItemsSeen[i] = ItemState(i)
           /\ ItemState(i).state = "none" <=> ~Settled(i)
           /\ ~Settled(i) => ItemState(i) = [state |-> "none", payload |-> NoValue, attempts |-> 0]
           /\ ~Present(deliveries[i]) /\ Skipped(i) =>
                ItemState(i) = [state |-> "skipped", payload |-> NoValue, attempts |-> 0]
           /\ Present(deliveries[i]) =>
                ItemState(i) =
                    [state |-> IF deliveries[i].val.status \in Waiting THEN "queued"
                               ELSE deliveries[i].val.status,
                     payload |-> deliveries[i].val.payload,
                     attempts |-> deliveries[i].val.attempts]
<1>1. deliveries[i] \in RecordOf(Delivery)
  BY DEF TypeOK
<1>2. CASE Present(deliveries[i])
  <2>1. deliveries[i].val.status \in {"pending", "retry", "completed", "dead"}
    <3>1. deliveries[i].val \in Delivery
      BY <1>1, <1>2, RecordFacts
    <3>2. QED
      BY <3>1 DEF Delivery
  <2>2. QED
    BY <1>2, <2>1 DEF ItemsSeen, ItemState, Settled, Waiting
<1>3. CASE ~Present(deliveries[i])
  BY <1>3 DEF ItemsSeen, ItemState, Settled
<1>4. QED
  BY <1>2, <1>3

\* A step that writes the records of one item.
LEMMA ItemPut ==
    ASSUME NEW i \in Items,
           \A j \in Items \ {i}: deliveries'[j] = deliveries[j]
                                 /\ materializations'[j] = materializations[j]
    PROVE  /\ \A j \in Items \ {i}: ItemState(j)' = ItemState(j)
           /\ \A state: ItemState(i)' = state => ItemsSeen' = [ItemsSeen EXCEPT ![i] = state]
<1>1. \A j \in Items \ {i}: ItemState(j)' = ItemState(j)
  BY DEF ItemState, Skipped
<1>2. QED
  BY <1>1 DEF ItemsSeen

LEMMA QueueInit == Init => Queue!Init
<1> SUFFICES ASSUME Init PROVE Queue!Init
  OBVIOUS
<1>1. \A i \in Items: ItemState(i) = Queue!Untouched
  BY AbsentFacts DEF Init, ItemState, Skipped, Queue!Untouched
<1>2. EventInHand = NoValue /\ disp.claims = {}
  BY RestFacts DEF Init, EventInHand
<1>3. \A s \in Scopes: CursorOf(s) = 0
  BY AbsentFacts DEF Init, CursorOf
<1>4. \A h \in Hooks: hooks[h].val = NoValue
  BY DEF Init, Absent
<1>5. QED
  BY <1>1, <1>2, <1>3, <1>4 DEF Init, Queue!Init

\* A step that ends with no event in hand and changes nothing else.
LEMMA ReleaseSeen ==
    ASSUME IInv', disp'.call \notin EventCalls,
           UNCHANGED <<feed, hooks, materializations, deliveries, cursors, accepted>>
    PROVE  Queue!Next
<1>1. EventInHand' = NoValue /\ disp'.claims = {}
  BY DEF EventInHand, EventCalls, IInv, InHand, HandlesEvent
<1>2. UNCHANGED <<HooksSeen, CursorsSeen, ItemsSeen>>
  BY SeenKept
<1>3. Queue!Release
  BY <1>1, <1>2 DEF Queue!Release, HooksSeen, CursorsSeen, ItemsSeen
<1>4. QED
  BY <1>3 DEF Queue!Next

\* A step that keeps the event in hand and changes nothing else.
LEMMA HoldSeen ==
    ASSUME disp.call \in EventCalls, disp'.call \in EventCalls, disp'.scope = disp.scope,
           disp'.event = disp.event, disp'.claims = disp.claims,
           UNCHANGED <<feed, HooksSeen, CursorsSeen, ItemsSeen, accepted>>
    PROVE  UNCHANGED Queue!queueVars
<1>1. EventInHand' = EventInHand
  BY DEF EventInHand, EventCalls
<1>2. QED
  BY <1>1 DEF Queue!queueVars, HooksSeen, CursorsSeen, ItemsSeen

LEMMA SaveCursorSeen == ASSUME IInv, IInv', SaveCursor PROVE Queue!Next
<1>1. /\ disp.call = "hooks" /\ disp.todo = {} /\ disp \in Dispatching
      /\ UNCHANGED <<feed, hooks, materializations, deliveries, accepted>>
  BY DEF SaveCursor, At, IInv, TypeOK
<1>2. CASE UNCHANGED cursors /\ disp' = PollEnded
  BY <1>1, <1>2, PollEndedFacts, ReleaseSeen DEF IInv, EventCalls
<1>3. CASE /\ cursors' = [cursors EXCEPT ![disp.scope] = Written(@, disp.event)]
           /\ disp' = [disp EXCEPT !.call = "next", !.cver = @ + 1, !.at = disp.event,
                                   !.event = 0, !.claims = {}]
  <2>1. /\ EventInHand = [scope |-> disp.scope, event |-> disp.event] /\ EventInHand # NoValue
        /\ disp.scope \in Scopes /\ disp.event \in Events
    BY <1>1, EventSeen DEF EventCalls
  <2>2. EventInHand' = NoValue /\ disp'.claims = {}
    BY <1>1, <1>3 DEF EventInHand, Dispatching
  <2>3. ASSUME NEW i \in disp.claims PROVE ItemsSeen[i].state # "none"
    <3>1. i \in Items /\ Settled(i)
      BY <1>1, <2>3 DEF IInv, InHand, HandlesEvent, EventCalls, Dispatching
    <3>2. QED
      BY <3>1, ItemSeen DEF IInv
  <2>4. PICK s, n: s = disp.scope /\ n = disp.event
    OBVIOUS
  <2>5. CursorOf(s)' = n /\ \A r \in Scopes \ {s}: CursorOf(r)' = CursorOf(r)
    <3>1. n \in 0 .. MaxEvents /\ s \in Scopes
      BY <2>1, <2>4 DEF Events
    <3>2. cursors \in [Scopes -> RecordOf(0 .. MaxEvents)] /\ cursors[s] \in RecordOf(0 .. MaxEvents)
      BY <3>1 DEF IInv, TypeOK
    <3>3. cursors' = [cursors EXCEPT ![s] = Written(@, n)]
      BY <1>3, <2>4
    <3>4. Present(cursors'[s]) /\ cursors'[s].val = n
      BY <3>1, <3>2, <3>3, WrittenFacts
    <3>5. \A r \in Scopes \ {s}: cursors'[r] = cursors[r]
      BY <3>2, <3>3
    <3>6. QED
      BY <3>4, <3>5 DEF CursorOf
  <2>6. CursorsSeen' = [CursorsSeen EXCEPT ![EventInHand.scope] = EventInHand.event]
    <3>1. EventInHand.scope = s /\ EventInHand.event = n
      BY <2>1, <2>4
    <3>2. CursorsSeen' = [CursorsSeen EXCEPT ![s] = n]
      BY <2>5 DEF CursorsSeen
    <3>3. QED
      BY <3>1, <3>2
  <2>7. UNCHANGED <<HooksSeen, ItemsSeen>>
    BY <1>1, SeenKept
  <2>8. Queue!Advance
    BY <1>1, <2>1, <2>2, <2>3, <2>6, <2>7 DEF Queue!Advance, HooksSeen, CursorsSeen, ItemsSeen
  <2>9. QED
    BY <2>8 DEF Queue!Next
<1>4. QED
  BY <1>2, <1>3 DEF SaveCursor

LEMMA ListHooksSeen == ASSUME IInv, ListHooks PROVE Queue!Next
<1>1. /\ disp.call = "list" /\ disp \in Dispatching
      /\ UNCHANGED <<feed, hooks, materializations, deliveries, cursors, accepted>>
      /\ disp' = [disp EXCEPT !.call = "hooks", !.claims = Claims, !.todo = Claims]
  BY DEF ListHooks, At, Silent, records, IInv, TypeOK, Claims, Matching
<1>2. disp'.call = "hooks" /\ disp'.claims = Claims /\ disp'.scope = disp.scope /\ disp'.event = disp.event
  BY <1>1 DEF Dispatching
<1>3. EventInHand = NoValue /\ EventInHand' = [scope |-> disp.scope, event |-> disp.event]
  BY <1>1, <1>2 DEF EventInHand
<1>4. /\ disp.scope \in Scopes /\ disp.at = CursorsSeen[disp.scope]
      /\ disp.event \in {disp.at, disp.at + 1} \cap (1 .. disp.last)
      /\ disp.last <= Len(feed[disp.scope])
  BY <1>1 DEF IInv, InHand, PollsScope, PollCalls, CursorsSeen
<1>5. Len(feed[disp.scope]) \in Nat /\ disp.last \in Nat /\ disp.at \in Nat
  BY <1>1, <1>4 DEF IInv, TypeOK, Dispatching
<1>6. disp.event \in {CursorsSeen[disp.scope], CursorsSeen[disp.scope] + 1} \cap (1 .. Len(feed[disp.scope]))
  BY <1>4, <1>5
<1>7. Claims = Queue!Owed(disp.scope, disp.event)
  <2>1. \A h \in Hooks: h \in Matching <=> Queue!Applies(HooksSeen[h], disp.scope, disp.event)
    BY HookSeen DEF IInv, Matching, MatchesHook, Queue!Applies
  <2>2. Matching = {h \in Hooks: Queue!Applies(HooksSeen[h], disp.scope, disp.event)}
    BY <2>1 DEF Matching
  <2>3. \A h \in Hooks: HooksSeen[h].rev = hooks[h].val.rev
    BY DEF HooksSeen
  <2>4. Claims = {[hook |-> h, rev |-> HooksSeen[h].rev, scope |-> disp.scope, event |-> disp.event]:
                    h \in Matching}
    <3>1. \A h \in Matching: h \in Hooks
      BY DEF Matching
    <3>2. QED
      BY <2>3, <3>1 DEF Claims
  <2>5. QED
    BY <2>2, <2>4 DEF Queue!Owed, HooksSeen
<1>8. UNCHANGED <<HooksSeen, CursorsSeen, ItemsSeen>>
  BY <1>1, SeenKept
<1>9. Queue!Take
  BY <1>1, <1>2, <1>3, <1>4, <1>6, <1>7, <1>8
     DEF Queue!Take, HooksSeen, CursorsSeen, ItemsSeen
<1>10. QED
  BY <1>9 DEF Queue!Next

LEMMA GetMaterializationSeen == ASSUME IInv, GetMaterialization PROVE UNCHANGED Queue!queueVars
<1>1. /\ disp.call = "hooks" /\ disp \in Dispatching
      /\ UNCHANGED <<feed, hooks, materializations, deliveries, cursors, accepted>>
  BY DEF GetMaterialization, At, Silent, records, IInv, TypeOK
<1>2. /\ disp'.call \in EventCalls /\ disp'.scope = disp.scope /\ disp'.event = disp.event
      /\ disp'.claims = disp.claims
  <2>1. PICK i, found:
          \/ disp' = [disp EXCEPT !.call = "put", !.item = i]
          \/ disp' = [disp EXCEPT !.call = "transform", !.item = i, !.mver = found.ver]
          \/ disp' = [disp EXCEPT !.call = "create", !.item = i, !.fate = found.val]
          \/ disp' = [disp EXCEPT !.todo = @ \ {i}]
    BY DEF GetMaterialization
  <2>2. CASE disp' = [disp EXCEPT !.call = "put", !.item = i]
    BY <1>1, <2>2 DEF Dispatching, EventCalls
  <2>3. CASE disp' = [disp EXCEPT !.call = "transform", !.item = i, !.mver = found.ver]
    BY <1>1, <2>3 DEF Dispatching, EventCalls
  <2>4. CASE disp' = [disp EXCEPT !.call = "create", !.item = i, !.fate = found.val]
    BY <1>1, <2>4 DEF Dispatching, EventCalls
  <2>5. CASE disp' = [disp EXCEPT !.todo = @ \ {i}]
    BY <1>1, <2>5 DEF Dispatching, EventCalls
  <2>6. QED
    BY <2>1, <2>2, <2>3, <2>4, <2>5
<1>3. UNCHANGED <<HooksSeen, CursorsSeen, ItemsSeen>>
  BY <1>1, SeenKept
<1>4. disp.call \in EventCalls
  BY <1>1 DEF EventCalls
<1>5. QED
  BY <1>1, <1>2, <1>3, <1>4, HoldSeen

\* What is stored but not decided leaves an item that has no delivery as it was.
LEMMA UndecidedUnseen ==
    ASSUME IInv, IInv', NEW i \in Items, UNCHANGED deliveries,
           ~Settled(i), ~Settled(i)',
           \A j \in Items \ {i}: materializations'[j] = materializations[j]
    PROVE  UNCHANGED ItemsSeen
<1>1. ItemState(i)' = ItemState(i)
  BY DEF ItemState, Settled
<1>2. \A j \in Items \ {i}: ItemState(j)' = ItemState(j)
  BY ItemPut
<1>3. QED
  BY <1>1, <1>2 DEF ItemsSeen

LEMMA PutMaterializationSeen == ASSUME IInv, IInv', PutMaterialization PROVE UNCHANGED Queue!queueVars
<1>1. PICK i: i = disp.item
  OBVIOUS
<1>2. /\ disp.call = "put" /\ disp \in Dispatching /\ i \in Items
      /\ UNCHANGED <<feed, hooks, deliveries, cursors, accepted>>
  BY <1>1, ItemInHand DEF PutMaterialization, At
<1>3. /\ disp'.call \in EventCalls /\ disp'.scope = disp.scope /\ disp'.event = disp.event
      /\ disp'.claims = disp.claims
  <2>1. PICK ver:
          \/ disp' = [disp EXCEPT !.call = "transform", !.mver = ver]
          \/ disp' = [disp EXCEPT !.call = "hooks", !.item = NoValue]
    BY DEF PutMaterialization
  <2>2. QED
    BY <1>2, <2>1 DEF Dispatching, EventCalls
<1>4. UNCHANGED ItemsSeen
  <2>1. CASE UNCHANGED materializations
    BY <1>2, <2>1, SeenKept
  <2>2. CASE /\ Matches(materializations[i], 0)
             /\ materializations' = [materializations EXCEPT ![i] = Written(@, Stored)]
    <3>1. materializations \in [Items -> RecordOf(Materialization)]
      BY DEF IInv, TypeOK
    <3>2. ~Present(materializations[i])
      BY <1>2, <2>2, <3>1, RecordFacts
    <3>3. ~Settled(i)
      BY <1>2, <3>2 DEF IInv, DeliveryIsMaterialized, Settled, Skipped
    <3>4. /\ \A j \in Items \ {i}: materializations'[j] = materializations[j]
          /\ materializations'[i].val = Stored
      BY <1>2, <2>2, <3>1 DEF Written
    <3>5. ~Settled(i)'
      BY <1>2, <3>3, <3>4 DEF Settled, Skipped, Stored
    <3>6. QED
      BY <1>2, <3>3, <3>4, <3>5, UndecidedUnseen
  <2>3. QED
    BY <1>1, <2>1, <2>2 DEF PutMaterialization
<1>5. UNCHANGED <<HooksSeen, CursorsSeen>> /\ disp.call \in EventCalls
  BY <1>2, SeenKept DEF EventCalls
<1>6. QED
  BY <1>2, <1>3, <1>4, <1>5, HoldSeen

\* The settling of the item in hand.
LEMMA SettleSeen ==
    ASSUME IInv, disp.call \in {"transform", "create"}, ~Settled(disp.item),
           NEW i, i = disp.item,
           \A j \in Items \ {i}: deliveries'[j] = deliveries[j]
                                 /\ materializations'[j] = materializations[j],
           NEW settlement \in Queue!Settlements, ItemState(i)' = settlement,
           disp' = HookDone, UNCHANGED <<feed, hooks, cursors, accepted>>
    PROVE  Queue!Next
<1>1. disp \in Dispatching /\ i \in Items /\ i \in disp.claims
  BY ItemInHand
<1>2. ItemsSeen' = [ItemsSeen EXCEPT ![i] = settlement]
  BY <1>1, ItemPut
<1>3. ItemsSeen[i].state = "none"
  BY <1>1, ItemSeen DEF IInv
<1>4. UNCHANGED <<HooksSeen, CursorsSeen>>
  BY SeenKept
<1>5. disp'.claims = disp.claims /\ EventInHand' = EventInHand
  BY <1>1, HookDoneFacts DEF EventInHand
<1>6. Queue!Settle
  BY <1>1, <1>2, <1>3, <1>4, <1>5 DEF Queue!Settle, HooksSeen, CursorsSeen, ItemsSeen
<1>7. QED
  BY <1>6 DEF Queue!Next

LEMMA TransformSeen == ASSUME IInv, IInv', Transform PROVE [Queue!Next]_(Queue!queueVars)
<1>1. PICK i: i = disp.item
  OBVIOUS
<1>2. /\ disp.call = "transform" /\ disp \in Dispatching /\ i \in Items
      /\ UNCHANGED <<feed, hooks, deliveries, cursors, accepted>>
  BY <1>1, ItemInHand DEF Transform, At
<1>3. CASE disp' = PollEnded /\ UNCHANGED materializations
  BY <1>2, <1>3, PollEndedFacts, ReleaseSeen DEF IInv, EventCalls
<1>4. ASSUME NEW fate \in Fates,
             materializations' = [materializations EXCEPT ![i] = Written(@, fate)],
             disp' = IF fate.status = "skipped" THEN HookDone
                     ELSE [disp EXCEPT !.call = "create", !.mver = 0, !.fate = fate]
      PROVE  [Queue!Next]_(Queue!queueVars)
  <2>1. materializations[i] = [ver |-> disp.mver, val |-> Stored]
    BY <1>1, <1>2 DEF IInv, InHand, HandlesItem
  <2>2. ~Settled(i)
    BY <1>2, <2>1 DEF IInv, DeliveryIsMaterialized, Stored, Settled, Skipped
  <2>3. materializations \in [Items -> RecordOf(Materialization)] /\ fate \in Materialization
    BY DEF IInv, TypeOK, Fates, Materialization
  <2>4. /\ \A j \in Items \ {i}: materializations'[j] = materializations[j]
        /\ Present(materializations'[i]) /\ materializations'[i].val = fate
    BY <1>2, <1>4, <2>3, WrittenFacts
  <2>5. CASE fate.status = "skipped"
    <3>1. PICK settlement: settlement = [state |-> "skipped", payload |-> NoValue, attempts |-> 0]
      OBVIOUS
    <3>2. settlement \in Queue!Settlements
      BY <3>1 DEF Queue!Settlements
    <3>3. ItemState(i)' = settlement
      BY <1>2, <2>2, <2>4, <2>5, <3>1 DEF ItemState, Skipped, Settled
    <3>4. disp' = HookDone
      BY <1>4, <2>5
    <3>5. QED
      BY <1>1, <1>2, <2>2, <2>4, <3>2, <3>3, <3>4, SettleSeen
  <2>6. CASE fate.status # "skipped"
    <3>1. ~Settled(i)'
      BY <1>2, <2>2, <2>4, <2>6 DEF Settled, Skipped
    <3>2. UNCHANGED ItemsSeen
      BY <1>2, <2>2, <2>4, <3>1, UndecidedUnseen
    <3>3. disp' = [disp EXCEPT !.call = "create", !.mver = 0, !.fate = fate]
      BY <1>4, <2>6
    <3>4. /\ disp'.call \in EventCalls /\ disp'.scope = disp.scope /\ disp'.event = disp.event
          /\ disp'.claims = disp.claims
      BY <1>2, <3>3 DEF Dispatching, EventCalls
    <3>5. UNCHANGED <<HooksSeen, CursorsSeen>> /\ disp.call \in EventCalls
      BY <1>2, SeenKept DEF EventCalls
    <3>6. QED
      BY <1>2, <3>2, <3>4, <3>5, HoldSeen
  <2>7. QED
    BY <2>5, <2>6
<1>5. QED
  BY <1>1, <1>3, <1>4 DEF Transform

LEMMA CreateDeliverySeen == ASSUME IInv, IInv', CreateDelivery PROVE [Queue!Next]_(Queue!queueVars)
<1>1. PICK i, first: i = disp.item /\ first = FirstDelivery(disp.fate)
  OBVIOUS
<1>2. /\ disp.call = "create" /\ disp \in Dispatching /\ i \in Items /\ disp' = HookDone
      /\ UNCHANGED <<feed, hooks, materializations, cursors, accepted>>
  BY <1>1, ItemInHand DEF CreateDelivery, At
<1>3. deliveries \in [Items -> RecordOf(Delivery)] /\ deliveries[i] \in RecordOf(Delivery)
  BY <1>2 DEF IInv, TypeOK
<1>4. CASE ~Matches(deliveries[i], 0)
  <2>1. UNCHANGED deliveries
    BY <1>1, <1>4 DEF CreateDelivery
  <2>2. UNCHANGED <<HooksSeen, CursorsSeen, ItemsSeen>>
    BY <1>2, <2>1, SeenKept
  <2>3. disp.call \in EventCalls /\ disp'.call \in EventCalls
    BY <1>2, HookDoneFacts DEF EventCalls
  <2>4. QED
    BY <1>2, <2>2, <2>3, HookDoneFacts, HoldSeen
<1>5. CASE Matches(deliveries[i], 0)
  <2>1. deliveries' = [deliveries EXCEPT ![i] = Written(@, first)]
    BY <1>1, <1>5 DEF CreateDelivery
  <2>2. /\ disp.fate \in Materialization /\ disp.fate.status \in {"rendered", "dead"}
        /\ Present(materializations[i]) /\ materializations[i].val = disp.fate
    BY <1>1, <1>2 DEF IInv, InHand, HandlesItem, Dispatching
  <2>3. disp.fate \in Fates
    <3>1. materializations[i] \in RecordOf(Fates \cup {Stored})
      BY <1>2 DEF IInv, OutcomesKnown
    <3>2. materializations[i].val \in Fates \cup {Stored}
      BY <2>2, <3>1, RecordFacts
    <3>3. QED
      BY <2>2, <3>2 DEF Stored
  <2>4. /\ first \in Delivery /\ first.payload = disp.fate.payload /\ first.attempts = 0
        /\ first.status = IF disp.fate.status = "dead" THEN "dead" ELSE "pending"
    BY <1>1, <2>2, FirstDeliveryFacts
  <2>5. ~Settled(i)
    <3>1. ~Present(deliveries[i])
      BY <1>3, <1>5, RecordFacts
    <3>2. QED
      BY <2>2, <3>1 DEF Settled, Skipped
  <2>6. /\ \A j \in Items \ {i}: deliveries'[j] = deliveries[j]
        /\ Present(deliveries'[i]) /\ deliveries'[i].val = first
    BY <1>2, <1>3, <2>1, <2>4, WrittenFacts
  <2>7. PICK settlement:
          settlement = [state |-> IF disp.fate.status = "dead" THEN "dead" ELSE "queued",
                        payload |-> disp.fate.payload, attempts |-> 0]
    OBVIOUS
  <2>8. settlement \in Queue!Settlements
    <3>1. CASE disp.fate.status = "dead"
      <4>1. disp.fate.payload = NoValue
        BY <2>3, <3>1 DEF Fates
      <4>2. settlement = [state |-> "dead", payload |-> NoValue, attempts |-> 0]
        BY <2>7, <3>1, <4>1
      <4>3. QED
        BY <4>2 DEF Queue!Settlements
    <3>2. CASE disp.fate.status = "rendered"
      <4>1. disp.fate.payload \in Payloads
        BY <2>3, <3>2 DEF Fates
      <4>2. settlement = [state |-> "queued", payload |-> disp.fate.payload, attempts |-> 0]
        BY <2>7, <3>2
      <4>3. QED
        BY <4>1, <4>2 DEF Queue!Settlements
    <3>3. QED
      BY <2>2, <3>1, <3>2
  <2>9. ItemState(i)' = settlement
    BY <2>4, <2>6, <2>7 DEF ItemState
  <2>10. QED
    BY <1>1, <1>2, <2>5, <2>6, <2>8, <2>9, SettleSeen
<1>6. QED
  BY <1>4, <1>5

LEMMA PostSeen == ASSUME IInv, IInv', Post PROVE Queue!Next
<1>1. PICK d \in disp.due, accepts \in BOOLEAN:
        /\ disp'.call = "record"
        /\ accepted' = IF accepts THEN accepted \cup {d.item} ELSE accepted
  <2>1. disp \in Dispatching
    BY DEF IInv, TypeOK
  <2>2. PICK d, accepts, due, posted:
          /\ d \in disp.due /\ accepts \in BOOLEAN
          /\ accepted' = IF accepts THEN accepted \cup {d.item} ELSE accepted
          /\ disp' = [disp EXCEPT !.call = "record", !.item = d.item, !.due = due,
                                  !.posted = posted]
    BY DEF Post
  <2>3. disp'.call = "record"
    BY <2>1, <2>2 DEF Dispatching
  <2>4. QED
    BY <2>2, <2>3
<1>2. /\ disp.call = "pick" /\ disp \in Dispatching
      /\ UNCHANGED <<feed, hooks, materializations, deliveries, cursors>>
  BY DEF Post, At, records, IInv, TypeOK
<1>3. CASE accepted' = accepted
  BY <1>1, <1>2, <1>3, ReleaseSeen DEF EventCalls
<1>4. CASE accepted' = accepted \cup {d.item}
  <2>1. d \in DeliveriesIn(Waiting)
    BY DEF IInv, InHand, DeliversListed
  <2>2. /\ d.item \in Items /\ Present(deliveries[d.item])
        /\ deliveries[d.item].val.status \in Waiting
    BY <2>1, ListedFacts DEF IInv
  <2>3. ItemsSeen[d.item].state = "queued"
    BY <2>2, ItemSeen DEF IInv
  <2>4. EventInHand = NoValue /\ EventInHand' = NoValue /\ disp.claims = {} /\ disp'.claims = {}
    BY <1>1, <1>2 DEF IInv, InHand, HandlesEvent, EventCalls, EventInHand
  <2>5. UNCHANGED <<HooksSeen, CursorsSeen, ItemsSeen>>
    BY <1>2, SeenKept
  <2>6. Queue!Accept
    BY <1>2, <1>4, <2>2, <2>3, <2>4, <2>5 DEF Queue!Accept, HooksSeen, CursorsSeen, ItemsSeen
  <2>7. QED
    BY <2>6 DEF Queue!Next
<1>5. QED
  BY <1>1, <1>3, <1>4

LEMMA RecordDeliverySeen == ASSUME IInv, IInv', RecordDelivery PROVE Queue!Next
<1>1. /\ disp.call = "record" /\ disp \in Dispatching
      /\ UNCHANGED <<feed, hooks, materializations, cursors, accepted>>
  BY DEF RecordDelivery, At, IInv, TypeOK
<1>2. PICK i, v: i = disp.item /\ v = disp.posted.val
  OBVIOUS
<1>3. PICK answered \in BOOLEAN:
        /\ i \in Items /\ deliveries[i] \in RecordOf(Delivery)
        /\ Present(deliveries[i]) /\ deliveries[i].val \in Delivery
        /\ deliveries[i].val.status \in Waiting
        /\ deliveries[i].val.attempts < MaxAttempts
        /\ v = Attempted(deliveries[i].val, answered) /\ v \in Delivery
        /\ answered => i \in accepted
        /\ Matches(deliveries[i], disp.posted.ver)
  BY <1>1, <1>2, OutcomeInHand
<1>4. /\ v.payload = deliveries[i].val.payload /\ v.attempts = deliveries[i].val.attempts + 1
      /\ v.status = IF answered THEN "completed"
                    ELSE IF deliveries[i].val.attempts + 1 >= MaxAttempts THEN "dead" ELSE "retry"
  BY <1>3, AttemptedFacts
<1>5. /\ deliveries' = [deliveries EXCEPT ![i] = Written(@, v)]
      /\ disp' = [disp EXCEPT !.call = "pick", !.item = NoValue,
                              !.posted = Absent, !.quota = @ - 1]
  BY <1>2, <1>3 DEF RecordDelivery
<1>6. /\ \A j \in Items \ {i}: deliveries'[j] = deliveries[j]
      /\ Present(deliveries'[i]) /\ deliveries'[i].val = v
  BY <1>3, <1>5, WrittenFacts DEF IInv, TypeOK
<1>7. /\ ItemsSeen[i].state = "queued" /\ ItemsSeen[i].payload = deliveries[i].val.payload
      /\ ItemsSeen[i].attempts = deliveries[i].val.attempts
  BY <1>3, ItemSeen DEF IInv
<1>8. EventInHand = NoValue /\ EventInHand' = NoValue /\ disp.claims = {} /\ disp'.claims = {}
  <2>1. disp'.call = "pick"
    BY <1>1, <1>5 DEF Dispatching
  <2>2. QED
    BY <1>1, <2>1 DEF IInv, InHand, HandlesEvent, EventCalls, EventInHand
<1>9. UNCHANGED <<HooksSeen, CursorsSeen>>
  BY <1>1, SeenKept
<1>10. ASSUME NEW state, state = IF v.status \in Waiting THEN "queued" ELSE v.status
       PROVE  Queue!Attempted(i, state)
  <2>1. ItemState(i)' = [state |-> state, payload |-> v.payload, attempts |-> v.attempts]
    BY <1>6, <1>10 DEF ItemState, Waiting
  <2>2. PICK seen: seen = [state |-> state, payload |-> ItemsSeen[i].payload,
                           attempts |-> ItemsSeen[i].attempts + 1]
    OBVIOUS
  <2>3. ItemState(i)' = seen
    BY <1>4, <1>7, <2>1, <2>2
  <2>4. ItemsSeen' = [ItemsSeen EXCEPT ![i] = seen]
    BY <1>1, <1>3, <1>6, <2>3, ItemPut
  <2>5. QED
    BY <2>2, <2>4 DEF Queue!Attempted, ItemsSeen
<1>11. \/ i \in accepted /\ Queue!Attempted(i, "completed")
       \/ ItemsSeen[i].attempts + 1 < MaxAttempts /\ Queue!Attempted(i, "queued")
       \/ ItemsSeen[i].attempts + 1 >= MaxAttempts /\ Queue!Attempted(i, "dead")
  <2>1. CASE answered
    BY <1>3, <1>4, <1>10, <2>1 DEF Waiting
  <2>2. CASE ~answered /\ deliveries[i].val.attempts + 1 >= MaxAttempts
    BY <1>4, <1>7, <1>10, <2>2 DEF Waiting
  <2>3. CASE ~answered /\ ~(deliveries[i].val.attempts + 1 >= MaxAttempts)
    <3>1. ItemsSeen[i].attempts + 1 < MaxAttempts
      BY <1>3, <1>7, <2>3 DEF Delivery
    <3>2. QED
      BY <1>4, <1>10, <2>3, <3>1 DEF Waiting
  <2>4. QED
    BY <2>1, <2>2, <2>3
<1>12. Queue!Attempt
  BY <1>1, <1>3, <1>7, <1>8, <1>9, <1>11 DEF Queue!Attempt, HooksSeen, CursorsSeen, ItemsSeen
<1>13. QED
  BY <1>12 DEF Queue!Next

LEMMA HookPut ==
    ASSUME NEW h \in Hooks, NEW hook, hooks'[h].val = hook,
           \A g \in Hooks \ {h}: hooks'[g] = hooks[g]
    PROVE  HooksSeen' = [HooksSeen EXCEPT ![h] = hook]
  BY DEF HooksSeen

\* A step that writes one hook and nothing else that the queue sees.
LEMMA ConfigureSeen ==
    ASSUME IInv, NEW h \in Hooks, NEW hook \in Hook,
           hooks' = [hooks EXCEPT ![h] = Written(@, hook)],
           \/ ~Present(hooks[h]) /\ hook.rev = 1 /\ hook.enabled = TRUE
           \/ Present(hooks[h]) /\ hook.rev = hooks[h].val.rev + 1
           \/ Present(hooks[h]) /\ hook = [hooks[h].val EXCEPT !.enabled = FALSE],
           UNCHANGED <<feed, materializations, deliveries, cursors, accepted, disp>>
    PROVE  Queue!Next
<1>1. hooks \in [Hooks -> RecordOf(Hook)] /\ TypeOK
  BY DEF IInv, TypeOK
<1>2. hooks'[h].val = hook /\ \A g \in Hooks \ {h}: hooks'[g] = hooks[g]
  BY <1>1, WrittenFacts
<1>3. HooksSeen' = [HooksSeen EXCEPT ![h] = hook]
  BY <1>2, HookPut
<1>4. HooksSeen[h] = hooks[h].val /\ (HooksSeen[h] # NoValue <=> Present(hooks[h]))
  BY <1>1, HookSeen
<1>5. PICK n \in Revisions, s \in Scopes, f \in Filters, on \in BOOLEAN:
        hook = [rev |-> n, scope |-> s, filter |-> f, enabled |-> on]
  BY DEF Hook
<1>6. UNCHANGED <<CursorsSeen, ItemsSeen, EventInHand>> /\ disp'.claims = disp.claims
  BY SeenKept DEF EventInHand
<1>7. ASSUME \/ /\ HooksSeen[h] = NoValue
                /\ HooksSeen' = [HooksSeen EXCEPT ![h] =
                                   [rev |-> 1, scope |-> s, filter |-> f, enabled |-> TRUE]]
             \/ /\ HooksSeen[h] # NoValue
                /\ HooksSeen' = [HooksSeen EXCEPT ![h] =
                                   [rev |-> @.rev + 1, scope |-> s, filter |-> f, enabled |-> on]]
             \/ /\ HooksSeen[h] # NoValue
                /\ HooksSeen' = [HooksSeen EXCEPT ![h].enabled = FALSE]
      PROVE  Queue!Next
  <2>1. \E g \in Hooks, r \in Scopes, filter \in Filters, enabled \in BOOLEAN:
           \/ /\ HooksSeen[g] = NoValue
              /\ HooksSeen' = [HooksSeen EXCEPT ![g] =
                                 [rev |-> 1, scope |-> r, filter |-> filter, enabled |-> TRUE]]
           \/ /\ HooksSeen[g] # NoValue
              /\ HooksSeen' = [HooksSeen EXCEPT ![g] =
                                 [rev |-> @.rev + 1, scope |-> r, filter |-> filter,
                                  enabled |-> enabled]]
           \/ /\ HooksSeen[g] # NoValue
              /\ HooksSeen' = [HooksSeen EXCEPT ![g].enabled = FALSE]
    BY <1>5, <1>7
  <2>2. Queue!Configure
    BY <1>6, <2>1 DEF Queue!Configure, HooksSeen, CursorsSeen, ItemsSeen
  <2>3. QED
    BY <2>2 DEF Queue!Next
<1>8. CASE ~Present(hooks[h]) /\ hook.rev = 1 /\ hook.enabled = TRUE
  <2>1. hook = [rev |-> 1, scope |-> s, filter |-> f, enabled |-> TRUE]
    BY <1>5, <1>8
  <2>2. QED
    BY <1>3, <1>4, <1>7, <1>8, <2>1
<1>9. CASE Present(hooks[h]) /\ hook.rev = hooks[h].val.rev + 1
  <2>1. hook = [rev |-> HooksSeen[h].rev + 1, scope |-> s, filter |-> f, enabled |-> on]
    BY <1>4, <1>5, <1>9
  <2>2. QED
    BY <1>3, <1>4, <1>7, <1>9, <2>1
<1>10. CASE Present(hooks[h]) /\ hook = [hooks[h].val EXCEPT !.enabled = FALSE]
  <2>1. hook = [HooksSeen[h] EXCEPT !.enabled = FALSE]
    BY <1>4, <1>10
  <2>2. QED
    BY <1>3, <1>4, <1>7, <1>10, <2>1
<1>11. QED
  BY <1>8, <1>9, <1>10

\* A step of which the queue sees nothing.
LEMMA NothingSeen ==
    ASSUME UNCHANGED <<feed, hooks, materializations, deliveries, cursors, accepted, disp>>
    PROVE  UNCHANGED Queue!queueVars
<1>1. UNCHANGED <<HooksSeen, CursorsSeen, ItemsSeen, EventInHand>>
  BY SeenKept DEF EventInHand
<1>2. QED
  BY <1>1 DEF Queue!queueVars, HooksSeen, CursorsSeen, ItemsSeen

LEMMA RegisterSeen ==
    ASSUME IInv, NEW c \in Clients, Register(c)
    PROVE  Queue!Next
<1>1. PICK h, s, f, hook:
        /\ h \in Hooks /\ s \in Scopes /\ f \in Filters
        /\ ~Present(hooks[h]) /\ hooks' = [hooks EXCEPT ![h] = Written(@, hook)]
        /\ hook = [rev |-> 1, scope |-> s, filter |-> f, enabled |-> TRUE]
  BY DEF Register
<1>2. hook \in Hook /\ hook.rev = 1 /\ hook.enabled = TRUE
  BY <1>1 DEF Hook, Revisions
<1>3. UNCHANGED <<feed, materializations, deliveries, cursors, accepted, disp>>
  BY DEF Register
<1>4. QED
  BY <1>1, <1>2, <1>3, ConfigureSeen

LEMMA PutRevisionSeen ==
    ASSUME IInv, NEW c \in Clients, proc[c].call \in {"update", "rotate"},
           NEW revision, NEW hook, PutRevision(c, revision, hook),
           Matches(hooks[proc[c].hook], proc[c].read.ver) =>
               hook \in Hook /\ hook.rev = proc[c].read.val.rev + 1,
           UNCHANGED <<feed, materializations, deliveries, cursors, accepted, disp>>
    PROVE  [Queue!Next]_(Queue!queueVars)
<1>1. CASE UNCHANGED hooks
  BY <1>1, NothingSeen
<1>2. CASE ~UNCHANGED hooks
  <2>1. PICK h: h = proc[c].hook
    OBVIOUS
  <2>2. /\ Matches(hooks[h], proc[c].read.ver)
        /\ hooks' = [hooks EXCEPT ![h] = Written(@, hook)]
    BY <1>2, <2>1 DEF PutRevision
  <2>3. h \in Hooks /\ Present(hooks[h]) /\ hook \in Hook /\ hook.rev = hooks[h].val.rev + 1
    BY <2>1, <2>2, HookInHand
  <2>4. QED
    BY <2>2, <2>3, ConfigureSeen
<1>3. QED
  BY <1>1, <1>2

LEMMA UpdateSeen ==
    ASSUME IInv, NEW c \in Clients, Update(c)
    PROVE  [Queue!Next]_(Queue!queueVars)
<1>1. PICK n: n = proc[c].read.val.rev + 1
  OBVIOUS
<1>2. PICK s \in Scopes, f \in Filters:
        PutRevision(c, [Prior(c) EXCEPT !.source = n],
                       [rev |-> n, scope |-> s, filter |-> f, enabled |-> TRUE])
  BY <1>1 DEF Update
<1>3. PICK revision, hook: /\ revision = [Prior(c) EXCEPT !.source = n]
                           /\ hook = [rev |-> n, scope |-> s, filter |-> f, enabled |-> TRUE]
  OBVIOUS
<1>4. PutRevision(c, revision, hook)
  BY <1>2, <1>3
<1>5. /\ proc[c].call = "update"
      /\ UNCHANGED <<feed, materializations, deliveries, cursors, accepted, disp>>
  BY DEF Update
<1>6. ASSUME Matches(hooks[proc[c].hook], proc[c].read.ver)
      PROVE  hook \in Hook /\ hook.rev = n
  <2>1. n \in Revisions
    BY <1>1, <1>5, <1>6, HookInHand
  <2>2. QED
    BY <1>3, <2>1 DEF Hook
<1>7. QED
  BY <1>1, <1>4, <1>5, <1>6, PutRevisionSeen

LEMMA RotateSecretSeen ==
    ASSUME IInv, NEW c \in Clients, RotateSecret(c)
    PROVE  [Queue!Next]_(Queue!queueVars)
<1>1. PICK revision, hook, n:
        /\ PutRevision(c, revision, hook)
        /\ n = proc[c].read.val.rev + 1 /\ hook = [proc[c].read.val EXCEPT !.rev = n]
  BY DEF RotateSecret
<1>2. /\ proc[c].call = "rotate"
      /\ UNCHANGED <<feed, materializations, deliveries, cursors, accepted, disp>>
  BY DEF RotateSecret
<1>3. ASSUME Matches(hooks[proc[c].hook], proc[c].read.ver)
      PROVE  hook \in Hook /\ hook.rev = n
  <2>1. n \in Revisions /\ proc[c].read.val \in Hook
    BY <1>1, <1>2, <1>3, HookInHand
  <2>2. QED
    BY <1>1, <2>1 DEF Hook
<1>4. QED
  BY <1>1, <1>2, <1>3, PutRevisionSeen

LEMMA DisableSeen ==
    ASSUME IInv, NEW c \in Clients, Disable(c)
    PROVE  [Queue!Next]_(Queue!queueVars)
<1>1. PICK h, read, hook: /\ h = proc[c].hook /\ read = proc[c].read
                          /\ hook = [read.val EXCEPT !.enabled = FALSE]
  OBVIOUS
<1>2. /\ proc[c].call = "disable"
      /\ UNCHANGED <<feed, materializations, deliveries, cursors, accepted, disp>>
  BY DEF Disable
<1>3. CASE ~Matches(hooks[h], read.ver)
  <2>1. UNCHANGED hooks
    BY <1>1, <1>3 DEF Disable
  <2>2. QED
    BY <1>2, <2>1, NothingSeen
<1>4. CASE Matches(hooks[h], read.ver)
  <2>1. hooks' = [hooks EXCEPT ![h] = Written(@, hook)]
    BY <1>1, <1>4 DEF Disable
  <2>2. h \in Hooks /\ Present(hooks[h]) /\ read = hooks[h] /\ read.val \in Hook
    BY <1>1, <1>2, <1>4, HookInHand
  <2>3. hook \in Hook /\ hook = [hooks[h].val EXCEPT !.enabled = FALSE]
    BY <1>1, <2>2 DEF Hook
  <2>4. QED
    BY <1>2, <2>1, <2>2, <2>3, ConfigureSeen
<1>5. QED
  BY <1>3, <1>4

LEMMA ReplayNextSeen ==
    ASSUME IInv, NEW c \in Clients, ReplayNext(c)
    PROVE  [Queue!Next]_(Queue!queueVars)
<1>1. UNCHANGED <<feed, hooks, materializations, cursors, accepted, disp>>
  BY DEF ReplayNext
<1>2. CASE UNCHANGED deliveries
  BY <1>1, <1>2, NothingSeen
<1>3. ASSUME NEW d \in proc[c].dead, Matches(deliveries[d.item], d.copy.ver),
             deliveries' = [deliveries EXCEPT ![d.item] =
                    Written(@, [d.copy.val EXCEPT !.status = "pending", !.attempts = 0])]
      PROVE  Queue!Next
  <2>1. PICK i, v: i = d.item /\ v = [d.copy.val EXCEPT !.status = "pending", !.attempts = 0]
    OBVIOUS
  <2>2. /\ i \in Items /\ Present(deliveries[i])
        /\ deliveries[i].val \in Delivery /\ deliveries[i].val.status = "dead"
        /\ d.copy.val = deliveries[i].val
    BY <1>3, <2>1, DeadInHand
  <2>3. v = [deliveries[i].val EXCEPT !.status = "pending", !.attempts = 0]
    BY <2>1, <2>2
  <2>4. v.status = "pending" /\ v.payload = deliveries[i].val.payload /\ v.attempts = 0
    BY <2>2, <2>3 DEF Delivery
  <2>5. deliveries' = [deliveries EXCEPT ![i] = Written(@, v)]
    BY <1>3, <2>1
  <2>6. v \in Delivery
    <3>1. 0 \in 0 .. MaxAttempts
      OBVIOUS
    <3>2. QED
      BY <2>2, <2>3, <3>1 DEF Delivery
  <2>7. /\ \A j \in Items \ {i}: deliveries'[j] = deliveries[j]
        /\ Present(deliveries'[i]) /\ deliveries'[i].val = v
    <3>1. deliveries \in [Items -> RecordOf(Delivery)]
      BY DEF IInv, TypeOK
    <3>2. QED
      BY <2>2, <2>5, <2>6, <3>1, WrittenFacts
  <2>8. ItemsSeen[i].state = "dead" /\ ItemsSeen[i].payload = deliveries[i].val.payload
    BY <2>2, ItemSeen DEF IInv, Waiting
  <2>9. PICK seen: seen = [state |-> "queued", payload |-> ItemsSeen[i].payload, attempts |-> 0]
    OBVIOUS
  <2>10. ItemState(i)' = seen
    BY <2>4, <2>7, <2>8, <2>9 DEF ItemState
  <2>11. ItemsSeen' = [ItemsSeen EXCEPT ![i] = seen]
    BY <1>1, <2>2, <2>7, <2>10, ItemPut
  <2>12. UNCHANGED <<HooksSeen, CursorsSeen, EventInHand>>
    BY <1>1, SeenKept DEF EventInHand
  <2>13. Queue!Replay
    BY <1>1, <2>2, <2>8, <2>9, <2>11, <2>12 DEF Queue!Replay, HooksSeen, CursorsSeen, ItemsSeen
  <2>14. QED
    BY <2>13 DEF Queue!Next
<1>4. QED
  BY <1>2, <1>3 DEF ReplayNext

LEMMA CoreCommitsSeen == ASSUME CoreCommits PROVE Queue!Next
<1>1. /\ \E s \in Scopes, t \in Topics: feed' = [feed EXCEPT ![s] = Append(@, t)]
      /\ UNCHANGED <<hooks, materializations, deliveries, cursors, accepted, disp>>
  BY DEF CoreCommits, records
<1>2. UNCHANGED <<HooksSeen, CursorsSeen, ItemsSeen, EventInHand>>
  BY <1>1, SeenKept DEF EventInHand
<1>3. Queue!Publish
  BY <1>1, <1>2 DEF Queue!Publish, HooksSeen, CursorsSeen, ItemsSeen
<1>4. QED
  BY <1>3 DEF Queue!Next

\* The steps of the dispatcher that take no event, settle none and end none.
LEMMA QuietDispatch ==
    ASSUME IInv, IInv',
           \/ Tick \/ BeginPoll \/ NextEvent \/ EndPoll \/ EndPolls
           \/ ListDeliveries \/ SkipEarly \/ EndPass \/ Fail \/ Crash
    PROVE  Queue!Next
<1>1. UNCHANGED <<feed, hooks, materializations, deliveries, cursors, accepted>>
  BY DEF Tick, BeginPoll, NextEvent, EndPoll, EndPolls, ListDeliveries, SkipEarly, EndPass,
     Fail, Crash, Silent, records
<1>2. disp \in Dispatching
  BY DEF IInv, TypeOK
<1>3. disp'.call \notin EventCalls
  <2>1. CASE disp' = Rest \/ disp' = PollEnded
    BY <2>1, RestFacts, PollEndedFacts DEF IInv, EventCalls
  <2>2. CASE Tick \/ EndPolls
    BY <2>2 DEF Tick, EndPolls, Rest, EventCalls
  <2>3. CASE BeginPoll
    <3>1. PICK left, s, ver, at, last:
            disp' = [disp EXCEPT !.call = "next", !.left = left, !.scope = s,
                                 !.cver = ver, !.at = at, !.last = last]
      BY <2>3 DEF BeginPoll
    <3>2. QED
      BY <1>2, <3>1 DEF Dispatching, EventCalls
  <2>4. CASE NextEvent
    <3>1. PICK n: disp' = [disp EXCEPT !.call = "list", !.event = n]
      BY <2>4 DEF NextEvent
    <3>2. QED
      BY <1>2, <3>1 DEF Dispatching, EventCalls
  <2>5. CASE ListDeliveries
    <3>1. PICK due: disp' = [disp EXCEPT !.call = "pick", !.quota = Limit, !.due = due]
      BY <2>5 DEF ListDeliveries
    <3>2. QED
      BY <1>2, <3>1 DEF Dispatching, EventCalls
  <2>6. CASE SkipEarly
    <3>1. PICK due: disp' = [disp EXCEPT !.due = due] /\ disp.call = "pick"
      BY <2>6 DEF SkipEarly, At
    <3>2. QED
      BY <1>2, <3>1 DEF Dispatching, EventCalls
  <2>7. CASE EndPoll \/ EndPass \/ Fail \/ Crash
    BY <2>1, <2>7 DEF EndPoll, EndPass, Fail, Crash
  <2>8. QED
    BY <2>2, <2>3, <2>4, <2>5, <2>6, <2>7
<1>4. QED
  BY <1>1, <1>3, ReleaseSeen

LEMMA QueueStep == IInv /\ IInv' /\ [Next]_vars => [Queue!Next]_(Queue!queueVars)
<1> SUFFICES ASSUME IInv, IInv', [Next]_vars PROVE [Queue!Next]_(Queue!queueVars)
  OBVIOUS
<1>1. CASE RunDispatcher
  <2>1. CASE SaveCursor \/ ListHooks \/ GetMaterialization \/ PutMaterialization
             \/ Transform \/ CreateDelivery \/ Post \/ RecordDelivery
    BY <2>1, SaveCursorSeen, ListHooksSeen, GetMaterializationSeen, PutMaterializationSeen,
       TransformSeen, CreateDeliverySeen, PostSeen, RecordDeliverySeen
  <2>2. QED
    BY <1>1, <2>1, QuietDispatch DEF RunDispatcher, Poll, ProcessEvent, DeliverDue
<1>2. CASE Fail \/ Crash
  BY <1>2, QuietDispatch
<1>3. ASSUME NEW c \in Clients, Handle(c) \/ Cancel(c) PROVE [Queue!Next]_(Queue!queueVars)
  <2>1. CASE ReadHook(c) \/ BeginReplay(c) \/ Cancel(c)
    BY <2>1, NothingSeen DEF ReadHook, BeginReplay, Cancel, records
  <2>2. QED
    BY <1>3, <2>1, RegisterSeen, UpdateSeen, RotateSecretSeen, DisableSeen, ReplayNextSeen DEF Handle
<1>4. CASE CoreCommits
  BY <1>4, CoreCommitsSeen
<1>5. CASE RefreshScopes \/ BackoffEnds \/ UNCHANGED vars
  BY <1>5, NothingSeen DEF RefreshScopes, BackoffEnds, vars, records
<1>6. QED
  BY <1>1, <1>2, <1>3, <1>4, <1>5 DEF Next

\* The dispatcher and its records implement WebhookQueue: no event is passed before
\* every hook that was listed for it is settled, nothing settled is lost or settled
\* again, a delivery completes only after an acceptance and dies only of its last
\* attempt, whatever tries, races, faults and restarts come between.
THEOREM QueueImplemented == Spec => ImplementsQueue
<1>1. IInv /\ IInv' /\ [Next]_vars => [Queue!Next]_(Queue!queueVars)
  BY QueueStep
<1>2. QED
  BY <1>1, QueueInit, Invariance, PTL DEF Spec, ImplementsQueue, Queue!Spec

===============================================================================
