------------------------------ MODULE AtomicStore ------------------------------
(***************************************************************************)
(* What the control store promises to its callers.  A call takes effect at *)
(* one moment between its invocation and its answer: a batch of mutations  *)
(* is carried out as a whole or not at all, a list is a snapshot, and what *)
(* a call has written outlives a crash.                                    *)
(***************************************************************************)
EXTENDS VersionedRecords, Sequences

CONSTANTS Callers, Keys, Requests, MaxBatch

VARIABLES
    records,    \* the stored records
    calls       \* per caller: its step, its request and the answer to it

vars == <<records, calls>>

Idle == [step |-> "idle", request |-> NoValue, code |-> "none", result |-> {}]

Init ==
    /\ records = [k \in Keys |-> Absent]
    /\ calls = [c \in Callers |-> Idle]

-------------------------------------------------------------------------------

Keyed(batch) == {batch[i].key: i \in DOMAIN batch}

\* What is wrong with the ith mutation of a batch.
Problem(batch, i) ==
    LET m == batch[i] IN
    IF \E j \in 1 .. i - 1: batch[j].key = m.key THEN "invalid"
    ELSE IF m.op = "delete" /\ ~Present(records[m.key]) THEN "not_found"
    ELSE IF ~Matches(records[m.key], m.expected) THEN "conflict"
    ELSE "ok"

\* The first problem of a batch decides on it.
Refused(batch, code) ==
    \/ Len(batch) \notin 1 .. MaxBatch /\ code = "invalid"
    \/ /\ Len(batch) \in 1 .. MaxBatch
       /\ \E i \in 1 .. Len(batch):
            /\ code = Problem(batch, i) /\ code # "ok"
            /\ \A j \in 1 .. i - 1: Problem(batch, j) = "ok"

Accepted(batch) ==
    /\ Len(batch) \in 1 .. MaxBatch
    /\ \A i \in 1 .. Len(batch): Problem(batch, i) = "ok"

Answered(c, code, result) ==
    calls' = [calls EXCEPT ![c] = [step |-> "answered", request |-> @.request,
                                   code |-> code, result |-> result]]

Invoked(c, request) ==
    /\ calls[c].step \in {"idle", "answered"}
    /\ calls' = [calls EXCEPT ![c] = [step |-> "called", request |-> request,
                                      code |-> "none", result |-> {}]]
    /\ UNCHANGED records

\* Every mutation of the batch takes effect, and nothing else does.
Applied(c) ==
    LET batch == calls[c].request.batch IN
    /\ calls[c].step = "called" /\ calls[c].request.kind = "apply"
    /\ Accepted(batch)
    /\ \A k \in Keys \ Keyed(batch): records'[k] = records[k]
    /\ \A i \in 1 .. Len(batch): records'[batch[i].key] =
            IF batch[i].op = "put" THEN Written(records[batch[i].key], batch[i].value) ELSE Absent
    /\ DOMAIN records' = Keys
    /\ Answered(c, "ok", {<<k, records'[k]>>: k \in {batch[i].key: i \in
                                {j \in DOMAIN batch: batch[j].op = "put"}}})

Rejected(c) ==
    /\ calls[c].step = "called" /\ calls[c].request.kind = "apply"
    /\ \E code \in {"invalid", "not_found", "conflict"}:
        /\ Refused(calls[c].request.batch, code)
        /\ Answered(c, code, {})
    /\ UNCHANGED records

Fetched(c) ==
    LET k == calls[c].request.key IN
    /\ calls[c].step = "called" /\ calls[c].request.kind = "get"
    /\ IF Present(records[k])
       THEN Answered(c, "ok", {<<k, records[k]>>})
       ELSE Answered(c, "not_found", {})
    /\ UNCHANGED records

Listed(c) ==
    /\ calls[c].step = "called" /\ calls[c].request.kind = "list"
    /\ Answered(c, "ok", {<<k, records[k]>>: k \in {j \in calls[c].request.keys: Present(records[j])}})
    /\ UNCHANGED records

\* A call that fails has no effect.
Failed(c) ==
    /\ calls[c].step = "called"
    /\ Answered(c, "failed", {})
    /\ UNCHANGED records

Crash == calls' = [c \in Callers |-> Idle] /\ UNCHANGED records

Next ==
    \/ \E c \in Callers:
        \/ \E request \in Requests: Invoked(c, request)
        \/ Applied(c) \/ Rejected(c) \/ Fetched(c) \/ Listed(c) \/ Failed(c)
    \/ Crash

Spec == Init /\ [][Next]_vars

===============================================================================
