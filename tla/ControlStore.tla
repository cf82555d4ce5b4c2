------------------------------ MODULE ControlStore ------------------------------
(***************************************************************************)
(* The control store of the server (internal/control, BarqStore): one      *)
(* mutex around every read-check-write sequence, and one transaction of    *)
(* the embedded database around the writes.  A batch is checked mutation   *)
(* by mutation, then written mutation by mutation into the transaction;    *)
(* a list reads the records one by one.                                    *)
(***************************************************************************)
EXTENDS VersionedRecords, Sequences, FiniteSets

CONSTANTS
    Callers,        \* the goroutines that call the store
    Keys,           \* the identities of records: collection and key
    Values,         \* what a record may hold
    Requests,       \* the requests that callers make
    MaxBatch,       \* mutations in a batch: 100 in the code
    MaxVersion      \* bound: no call is made once a record has this version

Mutations ==
    [op: {"put"}, key: Keys, value: Values, expected: Nat \cup {Unchecked}]
        \cup [op: {"delete"}, key: Keys, expected: Nat \cup {Unchecked}]

AllRequests ==
    [kind: {"apply"}, batch: Seq(Mutations)]
        \cup [kind: {"get"}, key: Keys]
        \cup [kind: {"list"}, keys: SUBSET Keys]    \* the keys that have the prefix

ASSUME StoreAssumption ==
    /\ Requests \subseteq AllRequests
    /\ MaxBatch \in Nat \ {0}
    /\ NoValue \notin Callers \cup Values \cup AllRequests

VARIABLES
    records,    \* the committed state of the database
    tx,         \* what the open transaction has made of it, or NoValue
    lock,       \* the caller that holds the mutex, or NoValue
    plan,       \* of its holder: for each checked mutation the version to write
    written,    \* of its holder: how many mutations are in the transaction
    todo,       \* of its holder: the records that a list has not read yet
    calls       \* per caller: its step, its request and the answer to it

section == <<tx, lock, plan, written, todo>>
vars == <<records, section, calls>>

Records == RecordOf(Values)
Codes == {"none", "ok", "invalid", "not_found", "conflict", "failed"}
Outside == {"idle", "lock", "answered"}
Inside == {"get", "check", "write", "scan"}

Local ==
    [step: Outside \cup Inside, request: Requests \cup {NoValue},
     code: Codes, result: SUBSET (Keys \X Records)]

Idle == [step |-> "idle", request |-> NoValue, code |-> "none", result |-> {}]

TypeOK ==
    /\ records \in [Keys -> Records]
    /\ tx \in [Keys -> Records] \cup {NoValue}
    /\ lock \in Callers \cup {NoValue}
    /\ plan \in Seq(Nat)
    /\ written \in Nat
    /\ todo \subseteq Keys
    /\ calls \in [Callers -> Local]

Init ==
    /\ records = [k \in Keys |-> Absent]
    /\ tx = NoValue /\ lock = NoValue /\ plan = <<>> /\ written = 0 /\ todo = {}
    /\ calls = [c \in Callers |-> Idle]

-------------------------------------------------------------------------------

At(c, step) == calls[c].step = step
Kind(c) == calls[c].request.kind
Batch(c) == calls[c].request.batch

GoTo(c, step) == calls' = [calls EXCEPT ![c].step = step]

Answer(c, code, result) ==
    calls' = [calls EXCEPT ![c].step = "answered", ![c].code = code, ![c].result = result]

\* The deferred unlock of every return, and the end of what its holder kept.
Unlock == tx' = NoValue /\ lock' = NoValue /\ plan' = <<>> /\ written' = 0 /\ todo' = {}

Invoke(c, request) ==
    /\ calls[c].step \in {"idle", "answered"}
    /\ \A k \in Keys: records[k].ver < MaxVersion
    /\ calls' = [calls EXCEPT ![c] = [Idle EXCEPT !.step = "lock", !.request = request]]
    /\ UNCHANGED <<records, section>>

\* A batch of the wrong size is refused before the lock is taken.
RefuseSize(c) ==
    /\ At(c, "lock") /\ Kind(c) = "apply"
    /\ Len(Batch(c)) = 0 \/ Len(Batch(c)) > MaxBatch
    /\ Answer(c, "invalid", {})
    /\ UNCHANGED <<records, section>>

Acquire(c) ==
    /\ At(c, "lock")
    /\ lock = NoValue
    /\ Kind(c) = "apply" => Len(Batch(c)) \in 1 .. MaxBatch
    /\ lock' = c
    /\ GoTo(c, CASE Kind(c) = "get" -> "get" [] Kind(c) = "list" -> "scan" [] OTHER -> "check")
    /\ todo' = IF Kind(c) = "list" THEN {k \in Keys: Present(records[k])} ELSE {}
    /\ UNCHANGED <<records, tx, plan, written>>

GetRecord(c) ==
    /\ At(c, "get")
    /\ LET k == calls[c].request.key IN
        \/ Present(records[k]) /\ Answer(c, "ok", {<<k, records[k]>>})
        \/ ~Present(records[k]) /\ Answer(c, "not_found", {})
    /\ Unlock
    /\ UNCHANGED records

ScanRecord(c) ==
    /\ At(c, "scan")
    /\ \E k \in todo:
        /\ todo' = todo \ {k}
        /\ calls' = [calls EXCEPT ![c].result =
                        IF k \in calls[c].request.keys THEN @ \cup {<<k, records[k]>>} ELSE @]
    /\ UNCHANGED <<records, tx, lock, plan, written>>

FinishScan(c) ==
    /\ At(c, "scan") /\ todo = {}
    /\ Answer(c, "ok", calls[c].result)
    /\ Unlock
    /\ UNCHANGED records

-------------------------------------------------------------------------------

\* Seeded fault: the version to write is the stored one, not the one after it.
NextVersionStays(k) == records[k].ver

NextVersion(k) == records[k].ver + 1

\* The checks of one mutation, in their order.
CheckVerdict(c, i) ==
    LET m == Batch(c)[i] IN
    IF \E j \in 1 .. i - 1: Batch(c)[j].key = m.key THEN "invalid"
    ELSE IF m.op = "delete" /\ ~Present(records[m.key]) THEN "not_found"
    ELSE IF ~Matches(records[m.key], m.expected) THEN "conflict"
    ELSE "ok"

\* Seeded fault: one of the early returns does not unlock.
CheckKeepsLock(c) ==
    /\ At(c, "check") /\ Len(plan) < Len(Batch(c))
    /\ LET i == Len(plan) + 1
           verdict == CheckVerdict(c, i) IN
        \/ /\ verdict = "ok"
           /\ plan' = Append(plan, NextVersion(Batch(c)[i].key))
           /\ UNCHANGED <<tx, lock, written, todo, calls>>
        \/ /\ verdict # "ok"
           /\ Answer(c, verdict, {})
           /\ UNCHANGED section
    /\ UNCHANGED records

Check(c) ==
    /\ At(c, "check") /\ Len(plan) < Len(Batch(c))
    /\ LET i == Len(plan) + 1
           verdict == CheckVerdict(c, i) IN
        \/ /\ verdict = "ok"
           /\ plan' = Append(plan, NextVersion(Batch(c)[i].key))
           /\ UNCHANGED <<tx, lock, written, todo, calls>>
        \/ /\ verdict # "ok"
           /\ Answer(c, verdict, {})
           /\ Unlock
    /\ UNCHANGED records

BeginWrite(c) ==
    /\ At(c, "check") /\ Len(plan) = Len(Batch(c))
    /\ tx' = records
    /\ GoTo(c, "write")
    /\ UNCHANGED <<records, lock, plan, written, todo>>

\* Seeded fault: the mutations are written to the database, not to a transaction.
WriteThrough(c) ==
    /\ At(c, "write") /\ written < Len(Batch(c))
    /\ LET i == written + 1
           m == Batch(c)[i] IN
        /\ tx' = [tx EXCEPT ![m.key] =
                    IF m.op = "put" THEN [ver |-> plan[i], val |-> m.value] ELSE Absent]
        /\ records' = tx'
        /\ written' = i
    /\ UNCHANGED <<lock, plan, todo, calls>>

Write(c) ==
    /\ At(c, "write") /\ written < Len(Batch(c))
    /\ LET i == written + 1
           m == Batch(c)[i] IN
        /\ tx' = [tx EXCEPT ![m.key] =
                    IF m.op = "put" THEN [ver |-> plan[i], val |-> m.value] ELSE Absent]
        /\ written' = i
    /\ UNCHANGED <<records, lock, plan, todo, calls>>

\* The transaction is committed; the answer names the records that were put.
Commit(c) ==
    /\ At(c, "write") /\ written = Len(Batch(c))
    /\ records' = tx
    /\ Answer(c, "ok", {<<Batch(c)[i].key, [ver |-> plan[i], val |-> Batch(c)[i].value]>>:
                            i \in {j \in DOMAIN Batch(c): Batch(c)[j].op = "put"}})
    /\ Unlock

-------------------------------------------------------------------------------

\* The context has ended before the lock is taken or between the records of a list,
\* or the database returns an error: the transaction, if any, is rolled back.
Fail(c) ==
    \/ /\ At(c, "lock")
       /\ Answer(c, "failed", {})
       /\ UNCHANGED <<records, section>>
    \/ /\ calls[c].step \in Inside
       /\ Answer(c, "failed", {})
       /\ Unlock
       /\ UNCHANGED records

\* The process ends; what was not committed is gone.
Crash ==
    /\ calls' = [c \in Callers |-> Idle]
    /\ Unlock
    /\ UNCHANGED records

Proceed(c) ==
    \/ RefuseSize(c) \/ Acquire(c)
    \/ GetRecord(c) \/ ScanRecord(c) \/ FinishScan(c)
    \/ Check(c) \/ BeginWrite(c) \/ Write(c) \/ Commit(c)

Next ==
    \/ \E c \in Callers:
        \/ \E request \in Requests: Invoke(c, request)
        \/ Proceed(c)
        \/ Fail(c)
    \/ Crash

Spec == Init /\ [][Next]_vars

\* Go's mutex does not starve a waiter, and the holder runs.
StoreFairness == \A c \in Callers: SF_vars(Proceed(c))

FairSpec == Spec /\ StoreFairness

-------------------------------------------------------------------------------

\* A call as it is seen outside: what it does inside, and the result that a list
\* gathers, are not.
CallSeen(c) ==
    [step |-> IF calls[c].step \in {"idle", "answered"} THEN calls[c].step ELSE "called",
     request |-> calls[c].request,
     code |-> calls[c].code,
     result |-> IF At(c, "answered") THEN calls[c].result ELSE {}]

Atomic == INSTANCE AtomicStore WITH calls <- [c \in Callers |-> CallSeen(c)]

\* Nothing of a caller's batch can be seen outside before all of it can, and the
\* versions that the batch was checked against are those it replaces.
ImplementsAtomicStore == Atomic!Spec

\* Every call returns, unless the process ends: no return keeps the mutex.
CallsReturn ==
    \A c \in Callers:
        calls[c].step \notin {"idle", "answered"} ~> calls[c].step \in {"idle", "answered"}

===============================================================================
