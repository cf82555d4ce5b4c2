------------------------------- MODULE SyncRules -------------------------------
(***************************************************************************)
(* Sync rules of one tenant/database scope (internal/syncrules).           *)
(*                                                                         *)
(* Core owns the active rule set and its revision.  The control plane      *)
(* keeps the history of rule sets, the head of that history, and one       *)
(* pending record per apply that is under way.  An apply is a sequence of  *)
(* separate calls: put the pending record, call Core, then finishApply's   *)
(* reads and its one store transaction.  Handlers run concurrently, any    *)
(* of them may be abandoned between two calls, the process may crash, and  *)
(* a request whose caller is gone may still reach Core.  At the next start *)
(* Reconcile replays the pending records, before the server serves.        *)
(*                                                                         *)
(* Every store call is one step here; ControlStore shows that the store    *)
(* makes its calls atomic.                                                 *)
(***************************************************************************)
EXTENDS VersionedRecords, Sequences, FiniteSets

CONSTANTS
    Clients,        \* handler slots of the HTTP server
    Startup,        \* the start of the server, which runs Reconcile
    Requests,       \* request IDs, as numbers: the store lists keys in order
    Rules,          \* rule sets; equal sets have equal hashes
    Acceptable,     \* the rule sets that Core does not reject as invalid
    MaxRevision,    \* bound: the highest revision that a client asks for
    Overshoot,      \* how far an expected revision may be ahead of Core's
    MaxDelayed,     \* bound: requests under way to Core without a caller
    TimesCoincide   \* whether two calls may read the same wall-clock time

ASSUME ConstantsAssumption ==
    /\ Startup \notin Clients
    /\ Requests \subseteq Nat
    /\ Acceptable \subseteq Rules
    /\ MaxRevision \in Nat
    /\ Overshoot \in Nat
    /\ MaxDelayed \in Nat
    /\ TimesCoincide \in BOOLEAN
    /\ NoValue \notin Rules \cup Requests \cup [rev: Nat, rules: Rules]

VARIABLES
    log,        \* Core: log[n] is the rule set that Core committed as revision n
    delayed,    \* requests on their way to Core whose caller is gone
    pending,    \* collection sync_rule_pending, by request ID
    history,    \* collection sync_rule_revisions, by revision
    head,       \* the record of the scope in collection sync_rule_heads
    server,     \* "down", "starting" (Reconcile runs) or "up"
    queue,      \* request IDs that Reconcile has listed and not yet handled
    proc        \* local state of the handlers and of the start

store == <<pending, history, head>>
vars == <<log, delayed, pending, history, head, server, queue, proc>>

Procs == Clients \cup {Startup}
Revisions == 1 .. MaxRevision

\* What a pending record, a head and a request to Core say of an apply.
RuleSet == [rev: Revisions, rules: Rules]

(***************************************************************************)
(* A request's target revision is its expected revision plus one, so one   *)
(* field, rev, holds both.  A pending record is only ever put where none   *)
(* is: its version is 1 for as long as it exists.                          *)
(***************************************************************************)
PendingVersion == 1

\* The calls of a request, in the order in which the code makes them.
ApplyCalls == {"putPending", "getPending", "core", "reject"}
FinishCalls == {"getRevision", "dropPending", "getHead", "commit"}
HeadCalls == {"readHead", "putHead"}
CurrentCalls == {"readRevision", "putRevision"}
StartCalls == {"discard"}
Calls == ApplyCalls \cup FinishCalls \cup HeadCalls \cup CurrentCalls \cup StartCalls

Answers == {"ok", "invalid", "conflict", "reused", "not_found", "canceled"}

Local ==
    [call: Calls \cup {"idle", "answered"},
     answer: Answers \cup {"none"},
     req: Requests \cup {NoValue},
     rev: Revisions \cup {0},
     rules: Rules \cup {NoValue},
     seen: Nat,          \* the version of the head that the handler has read
     lead: BOOLEAN]      \* finishApply's writeHead: this revision becomes the head

Fresh(call, answer, req, rev, rules) ==
    [call |-> call, answer |-> answer, req |-> req, rev |-> rev, rules |-> rules,
     seen |-> 0, lead |-> FALSE]

Blank == Fresh("idle", "none", NoValue, 0, NoValue)
Answered(code) == Fresh("answered", code, NoValue, 0, NoValue)

TypeOK ==
    /\ log \in Seq(Rules) /\ Len(log) <= MaxRevision
    /\ delayed \subseteq RuleSet
    /\ pending \in [Requests -> RecordOf(RuleSet)]
    /\ history \in [Revisions -> RecordOf(Rules)]
    /\ head \in RecordOf(RuleSet)
    /\ server \in {"down", "starting", "up"}
    /\ queue \subseteq Requests
    /\ proc \in [Procs -> Local]

Init ==
    /\ log = <<>>
    /\ delayed = {}
    /\ pending = [r \in Requests |-> Absent]
    /\ history = [n \in Revisions |-> Absent]
    /\ head = Absent
    /\ server = "down"
    /\ queue = {}
    /\ proc = [p \in Procs |-> Blank]

-------------------------------------------------------------------------------
(***************************************************************************)
(* Steps of a process                                                      *)
(***************************************************************************)

At(p, call) == proc[p].call = call

Free(c) == server = "up" /\ proc[c].call \in {"idle", "answered"}

RuleSetOf(p) == [rev |-> proc[p].rev, rules |-> proc[p].rules]

GoTo(p, call) == proc' = [proc EXCEPT ![p].call = call]

\* A client's request is answered.  At the start, success moves on to the next
\* pending record and any error ends the process: main exits.
Answer(p, code) ==
    \/ /\ p # Startup
       /\ proc' = [proc EXCEPT ![p] = Answered(code)]
       /\ UNCHANGED <<server, queue>>
    \/ /\ p = Startup /\ code = "ok"
       /\ proc' = [proc EXCEPT ![p] = Blank]
       /\ queue' = queue \ {proc[p].req}
       /\ UNCHANGED server
    \/ /\ p = Startup /\ code # "ok"
       /\ proc' = [proc EXCEPT ![p] = Answered(code)]
       /\ queue' = {}
       /\ server' = "down"

-------------------------------------------------------------------------------
(***************************************************************************)
(* Core                                                                    *)
(***************************************************************************)

\* A request that Core has already carried out succeeds again; otherwise the
\* expected revision must be the current one and the rules must be acceptable.
CoreVerdict(rev, rules) ==
    IF Len(log) = rev /\ rev > 0 /\ log[rev] = rules THEN "same"
    ELSE IF Len(log) # rev - 1 THEN "conflict"
    ELSE IF rules \notin Acceptable THEN "invalid"
    ELSE "commit"

CoreApplies(rev, rules) ==
    log' = IF CoreVerdict(rev, rules) = "commit" THEN Append(log, rules) ELSE log

\* A request that Core has not seen when its caller gives up may be under way;
\* a copy of one that is already under way has no further effect.
Abandon(callers) ==
    LET requests == {RuleSetOf(p): p \in {q \in callers: At(q, "core")}} IN
    \E kept \in SUBSET requests:
        /\ Cardinality(delayed \cup kept) <= MaxDelayed
        /\ delayed' = delayed \cup kept

\* A request whose caller is gone reaches Core.
DelayedArrives ==
    \E m \in delayed:
        /\ CoreApplies(m.rev, m.rules)
        /\ delayed' = delayed \ {m}
        /\ UNCHANGED <<store, server, queue, proc>>

-------------------------------------------------------------------------------
(***************************************************************************)
(* Apply and Restore                                                       *)
(***************************************************************************)

\* Seeded fault: the target is the expected revision, not the one after it.
StartApplyAtExpected(c, r, rev, rules) ==
    proc' = [proc EXCEPT ![c] = Fresh("putPending", "none", r, rev - 1, rules)]

StartApply(c, r, rev, rules) ==
    proc' = [proc EXCEPT ![c] = Fresh("putPending", "none", r, rev, rules)]

BeginApply(c, r) ==
    /\ Free(c)
    /\ \E rev \in Revisions, rules \in Rules:
        /\ rev <= Len(log) + 1 + Overshoot
        /\ StartApply(c, r, rev, rules)
    /\ UNCHANGED <<log, delayed, store, server, queue>>

\* Restore reads an old revision from the history and applies its rules anew.
BeginRestore(c, r) ==
    /\ Free(c)
    /\ \E rev, old \in Revisions:
        /\ rev <= Len(log) + 1 + Overshoot
        /\ IF Present(history[old])
           THEN StartApply(c, r, rev, history[old].val)
           ELSE proc' = [proc EXCEPT ![c] = Answered("not_found")]
    /\ UNCHANGED <<log, delayed, store, server, queue>>

PutPending(c) ==
    /\ At(c, "putPending")
    /\ IF Matches(pending[proc[c].req], 0)
       THEN /\ pending' = [pending EXCEPT ![proc[c].req] = Written(@, RuleSetOf(c))]
            /\ GoTo(c, "core")
       ELSE /\ GoTo(c, "getPending")
            /\ UNCHANGED pending
    /\ UNCHANGED <<log, delayed, history, head, server, queue>>

\* samePending compares all that the two records say, the time at which each
\* call was made included: only calls of the same instant can agree.
GetPending(c) ==
    /\ At(c, "getPending")
    /\ LET found == pending[proc[c].req] IN
        \/ /\ Present(found) /\ found.val = RuleSetOf(c) /\ TimesCoincide
           /\ GoTo(c, "core")
           /\ UNCHANGED <<server, queue>>
        \/ /\ Present(found)
           /\ Answer(c, "reused")
        \/ /\ ~Present(found)
           /\ Answer(c, "not_found")
    /\ UNCHANGED <<log, delayed, store>>

\* Core answers ApplyFLXRules.  A rejected apply of a client goes on to delete
\* its pending record; at the start every error ends the process.
CoreAnswers(p) ==
    /\ At(p, "core")
    /\ LET verdict == CoreVerdict(proc[p].rev, proc[p].rules) IN
        \/ /\ verdict \in {"same", "commit"}
           /\ GoTo(p, "getRevision")
           /\ UNCHANGED <<server, queue>>
        \/ /\ verdict \in {"conflict", "invalid"} /\ p # Startup
           /\ proc' = [proc EXCEPT ![p].call = "reject", ![p].answer = verdict]
           /\ UNCHANGED <<server, queue>>
        \/ /\ verdict \in {"conflict", "invalid"} /\ p = Startup
           /\ Answer(p, verdict)
    /\ CoreApplies(proc[p].rev, proc[p].rules)
    /\ UNCHANGED <<delayed, store>>

\* The store deletes the record if its version is the expected one.
DeletePending(p) ==
    pending' = IF Matches(pending[proc[p].req], PendingVersion)
               THEN [pending EXCEPT ![proc[p].req] = Absent]
               ELSE pending

\* Where the code ignores the error of the delete, the record may stay.
TryDeletePending(p) == DeletePending(p) \/ UNCHANGED pending

RejectApply(c) ==
    /\ At(c, "reject")
    /\ TryDeletePending(c)
    /\ Answer(c, proc[c].answer)
    /\ UNCHANGED <<log, delayed, history, head>>

-------------------------------------------------------------------------------
(***************************************************************************)
(* finishApply                                                             *)
(***************************************************************************)

GetRevision(p) ==
    /\ At(p, "getRevision")
    /\ LET found == history[proc[p].rev] IN
        \/ /\ Present(found) /\ found.val # proc[p].rules
           /\ Answer(p, "conflict")
        \/ /\ Present(found) /\ found.val = proc[p].rules
           /\ GoTo(p, "dropPending")
           /\ UNCHANGED <<server, queue>>
        \/ /\ ~Present(found)
           /\ GoTo(p, "getHead")
           /\ UNCHANGED <<server, queue>>
    /\ UNCHANGED <<log, delayed, store>>

\* The revision is already recorded.
DropPending(p) ==
    /\ At(p, "dropPending")
    /\ TryDeletePending(p)
    /\ GoTo(p, "readHead")
    /\ UNCHANGED <<log, delayed, history, head, server, queue>>

GetHead(p) ==
    /\ At(p, "getHead")
    /\ \/ /\ Present(head) /\ head.val.rev = proc[p].rev /\ head.val.rules # proc[p].rules
          /\ Answer(p, "conflict")
       \/ /\ Present(head) => head.val.rev # proc[p].rev \/ head.val.rules = proc[p].rules
          /\ LET lead == Present(head) => head.val.rev < proc[p].rev IN
             proc' = [proc EXCEPT ![p].call = "commit", ![p].lead = lead,
                                  ![p].seen = IF lead THEN head.ver ELSE 0]
          /\ UNCHANGED <<server, queue>>
    /\ UNCHANGED <<log, delayed, store>>

\* Seeded fault: the transaction moves the head without an expected version.
CommitVerdictUncheckedHead(p) ==
    IF ~Matches(history[proc[p].rev], 0) THEN "conflict"
    ELSE IF ~Present(pending[proc[p].req]) THEN "not_found"
    ELSE "ok"

\* One transaction: record the revision, delete the pending record, and move the
\* head unless a later one was read.  Its checks are made in that order.
CommitVerdict(p) ==
    IF ~Matches(history[proc[p].rev], 0) THEN "conflict"
    ELSE IF ~Present(pending[proc[p].req]) THEN "not_found"
    ELSE IF ~Matches(pending[proc[p].req], PendingVersion) THEN "conflict"
    ELSE IF proc[p].lead /\ ~Matches(head, proc[p].seen) THEN "conflict"
    ELSE "ok"

\* Seeded fault: the error of the transaction is dropped.
CommitIgnoresError(p) ==
    /\ At(p, "commit")
    /\ IF CommitVerdict(p) = "ok"
       THEN /\ history' = [history EXCEPT ![proc[p].rev] = Written(@, proc[p].rules)]
            /\ pending' = [pending EXCEPT ![proc[p].req] = Absent]
            /\ head' = IF proc[p].lead THEN Written(head, RuleSetOf(p)) ELSE head
       ELSE UNCHANGED store
    /\ Answer(p, "ok")
    /\ UNCHANGED <<log, delayed>>

Commit(p) ==
    /\ At(p, "commit")
    /\ IF CommitVerdict(p) = "ok"
       THEN /\ history' = [history EXCEPT ![proc[p].rev] = Written(@, proc[p].rules)]
            /\ pending' = [pending EXCEPT ![proc[p].req] = Absent]
            /\ head' = IF proc[p].lead THEN Written(head, RuleSetOf(p)) ELSE head
       ELSE UNCHANGED store
    /\ Answer(p, CommitVerdict(p))
    /\ UNCHANGED <<log, delayed>>

-------------------------------------------------------------------------------
(***************************************************************************)
(* writeHead                                                               *)
(***************************************************************************)

ReadHead(p) ==
    /\ At(p, "readHead")
    /\ \/ /\ Present(head)
          /\ \/ head.val.rev > proc[p].rev
             \/ head.val = RuleSetOf(p)
          /\ Answer(p, "ok")
       \/ /\ Present(head) /\ head.val.rev = proc[p].rev /\ head.val # RuleSetOf(p)
          /\ Answer(p, "conflict")
       \/ /\ Present(head) => head.val.rev < proc[p].rev
          /\ proc' = [proc EXCEPT ![p].call = "putHead", ![p].seen = head.ver]
          /\ UNCHANGED <<server, queue>>
    /\ UNCHANGED <<log, delayed, store>>

PutHead(p) ==
    /\ At(p, "putHead")
    /\ IF Matches(head, proc[p].seen)
       THEN head' = Written(head, RuleSetOf(p)) /\ Answer(p, "ok")
       ELSE Answer(p, "conflict") /\ UNCHANGED head
    /\ UNCHANGED <<log, delayed, pending, history>>

-------------------------------------------------------------------------------
(***************************************************************************)
(* Current and its reconcile                                               *)
(***************************************************************************)

\* Current reads Core; there is nothing to record before the first revision.
BeginCurrent(c) ==
    /\ Free(c)
    /\ proc' = [proc EXCEPT ![c] =
                    IF log = <<>>
                    THEN Answered("ok")
                    ELSE Fresh("readRevision", "none", NoValue, Len(log), log[Len(log)])]
    /\ UNCHANGED <<log, delayed, store, server, queue>>

ReadRevision(c) ==
    /\ At(c, "readRevision")
    /\ LET found == history[proc[c].rev] IN
        \/ /\ Present(found) /\ found.val # proc[c].rules
           /\ Answer(c, "conflict")
        \/ /\ Present(found) /\ found.val = proc[c].rules
           /\ GoTo(c, "readHead")
           /\ UNCHANGED <<server, queue>>
        \/ /\ ~Present(found)
           /\ GoTo(c, "putRevision")
           /\ UNCHANGED <<server, queue>>
    /\ UNCHANGED <<log, delayed, store>>

\* A conflict means that another handler recorded the revision: it is ignored.
PutRevision(c) ==
    /\ At(c, "putRevision")
    /\ history' = IF Matches(history[proc[c].rev], 0)
                  THEN [history EXCEPT ![proc[c].rev] = Written(@, proc[c].rules)]
                  ELSE history
    /\ GoTo(c, "readHead")
    /\ UNCHANGED <<log, delayed, pending, head, server, queue>>

-------------------------------------------------------------------------------
(***************************************************************************)
(* Start of the server: Reconcile                                          *)
(***************************************************************************)

\* The container is restarted; Reconcile lists the pending records.
Restart ==
    /\ server = "down"
    /\ server' = "starting"
    /\ queue' = {r \in Requests: Present(pending[r])}
    /\ proc' = [proc EXCEPT ![Startup] = Blank]
    /\ UNCHANGED <<log, delayed, store>>

\* Seeded fault: Core's rules are not compared with the pending ones.
RecoveryStepByRevision(wanted) ==
    IF Len(log) = wanted.rev - 1 THEN "core"
    ELSE IF Len(log) < wanted.rev THEN "conflict"
    ELSE IF Len(log) = wanted.rev THEN "getRevision"
    ELSE "discard"

\* Seeded fault: an apply that Core has left behind is an error.
RecoveryStepStrict(wanted) ==
    IF Len(log) = wanted.rev - 1 THEN "core"
    ELSE IF Len(log) = wanted.rev /\ log[wanted.rev] = wanted.rules THEN "getRevision"
    ELSE "conflict"

\* What Reconcile does about a pending apply, from what Core has: apply it, drop it
\* because Core has left it behind, record it, or stop with an error.
RecoveryStep(wanted) ==
    IF Len(log) = wanted.rev - 1 THEN "core"
    ELSE IF Len(log) < wanted.rev THEN "conflict"
    ELSE IF Len(log) = wanted.rev /\ log[wanted.rev] = wanted.rules THEN "getRevision"
    ELSE "discard"

\* Reconcile reads Core for the next record, in key order.
RecoverNext ==
    /\ server = "starting" /\ At(Startup, "idle")
    /\ \E r \in queue:
        /\ \A q \in queue: r <= q
        /\ LET wanted == pending[r].val IN
            \/ /\ RecoveryStep(wanted) # "conflict"
               /\ proc' = [proc EXCEPT ![Startup] =
                              Fresh(RecoveryStep(wanted), "none", r, wanted.rev, wanted.rules)]
               /\ UNCHANGED <<server, queue>>
            \/ /\ RecoveryStep(wanted) = "conflict"
               /\ Answer(Startup, "conflict")
    /\ UNCHANGED <<log, delayed, store>>

\* Seeded fault: a request that can never be replayed is skipped, not dropped.
DiscardKeepsPending ==
    /\ At(Startup, "discard")
    /\ Answer(Startup, "ok")
    /\ UNCHANGED <<log, delayed, store>>

\* Core has moved past this request, or used its revision for other rules.
Discard ==
    /\ At(Startup, "discard")
    /\ DeletePending(Startup)
    /\ Answer(Startup, "ok")
    /\ UNCHANGED <<log, delayed, history, head>>

Serve ==
    /\ server = "starting" /\ queue = {} /\ At(Startup, "idle")
    /\ server' = "up"
    /\ UNCHANGED <<log, delayed, store, queue, proc>>

-------------------------------------------------------------------------------
(***************************************************************************)
(* Faults                                                                  *)
(***************************************************************************)

\* Seeded fault: a call that was lost is treated as a rejection.
CancelDropsPending(p) ==
    /\ proc[p].call \in Calls
    /\ Answer(p, "canceled")
    /\ IF proc[p].req \in Requests THEN DeletePending(p) ELSE UNCHANGED pending
    /\ Abandon({p})
    /\ UNCHANGED <<log, history, head>>

\* The caller's context ends (the client disconnects, a deadline passes), Core
\* does not answer, or a store call fails: the handler makes no further call.
Cancel(p) ==
    /\ proc[p].call \in Calls \/ (p = Startup /\ server = "starting")
    /\ Answer(p, "canceled")
    /\ Abandon({p})
    /\ UNCHANGED <<log, store>>

Crash ==
    /\ server # "down"
    /\ server' = "down"
    /\ queue' = {}
    /\ proc' = [p \in Procs |-> Blank]
    /\ Abandon(Procs)
    /\ UNCHANGED <<log, store>>

-------------------------------------------------------------------------------

Begin(c) ==
    \/ \E r \in Requests: BeginApply(c, r) \/ BeginRestore(c, r)
    \/ BeginCurrent(c)

\* The calls that only a client's handler makes.
Handle(c) ==
    \/ PutPending(c) \/ GetPending(c) \/ RejectApply(c)
    \/ ReadRevision(c) \/ PutRevision(c)

\* The calls that a handler and the start have in common.
Proceed(p) ==
    \/ CoreAnswers(p)
    \/ GetRevision(p) \/ DropPending(p) \/ GetHead(p) \/ Commit(p)
    \/ ReadHead(p) \/ PutHead(p)

Next ==
    \/ \E c \in Clients: Begin(c) \/ Handle(c)
    \/ \E p \in Procs: Proceed(p) \/ Cancel(p)
    \/ Restart \/ RecoverNext \/ Discard \/ Serve
    \/ DelayedArrives
    \/ Crash

Spec == Init /\ [][Next]_vars

\* The supervisor restarts the container, and the start, once begun, goes on.
StartFairness ==
    /\ WF_vars(Restart)
    /\ WF_vars(RecoverNext)
    /\ WF_vars(Discard)
    /\ WF_vars(Serve)
    /\ WF_vars(Proceed(Startup))

FairSpec == Spec /\ StartFairness

-------------------------------------------------------------------------------
(***************************************************************************)
(* Properties                                                              *)
(***************************************************************************)

\* What the control plane records as revision n is what Core committed as n,
\* whichever of finishApply, Current and Reconcile recorded it.
HistoryMatchesCore ==
    \A n \in Revisions:
        Present(history[n]) => n <= Len(log) /\ history[n].val = log[n]

\* The head names a recorded revision, with the rules recorded for it.
HeadIsRecorded ==
    Present(head) =>
        /\ Present(history[head.val.rev])
        /\ history[head.val.rev].val = head.val.rules

\* The revision that is active in Core is either in the history or can be put
\* there by Reconcile, with its author: a pending record of it exists.
ActiveRulesRecoverable ==
    LET n == Len(log) IN
    n > 0 /\ ~Present(history[n]) =>
        \E r \in Requests: /\ Present(pending[r])
                           /\ pending[r].val = [rev |-> n, rules |-> log[n]]

\* Handler c gets this answer in this step.
GivenAnswer(c, code) ==
    proc[c].call \in Calls /\ At(c, "answered")' /\ proc'[c].answer = code

\* An apply, a restore or a read answered with success: Core committed these rules
\* as this revision, the history has them, and the head is at least there.
SuccessIsRecorded ==
    [][\A c \in Clients: GivenAnswer(c, "ok") =>
        LET rev == proc[c].rev IN
        /\ rev <= Len(log') /\ log'[rev] = proc[c].rules
        /\ Present(history'[rev]) /\ history'[rev].val = proc[c].rules
        /\ Present(head') /\ head'.val.rev >= rev]_vars

\* Reconcile leaves no apply in doubt: one that is still pending when serving begins,
\* because its delete failed, is recorded in the history.
StartSettlesPending ==
    [][server = "starting" /\ server' = "up" =>
        \A r \in Requests: Present(pending[r]) =>
            LET wanted == pending[r].val IN
            Present(history[wanted.rev]) /\ history[wanted.rev].val = wanted.rules]_vars

\* Reconcile gives up by itself only where Core rejects an apply, now or for lack
\* of the revisions before it: never on one that Core has carried out, and never
\* on one that Core had left behind when Reconcile read it.
StartBlockedOnlyByRejected ==
    [][server = "starting" /\ proc'[Startup].answer \in {"conflict", "invalid", "not_found"}
       => \E r \in queue: LET wanted == pending[r].val IN
            /\ CoreVerdict(wanted.rev, wanted.rules) \in {"conflict", "invalid"}
            /\ At(Startup, "core") \/ Len(log) < wanted.rev]_vars

\* The history, its head and Core's log implement the ledger.
Ledger == INSTANCE RuleLedger WITH
    committed <- log,
    ledger <- [n \in Revisions |-> history[n].val],
    tip <- head.val

\* The history of sync rules behaves as RuleLedger says it does.
ImplementsLedger == Ledger!Spec

\* If from some time on the process neither crashes nor loses its calls while it
\* starts, it serves again and again.
StartFaults == Crash \/ Cancel(Startup)
ServesAgain == <>[][~StartFaults]_vars => []<>(server = "up")

(***************************************************************************)
(* What the repository says, and the code does not keep                    *)
(***************************************************************************)

\* service.go:175: a rejected request is not left in the recovery queue, "where it
\* would block the next server start".
RejectedNeverBlocksStart == proc[Startup].answer \notin {"invalid", "conflict"}

\* contracts/public-openapi.yaml: the answer 409 to an apply or a restore means "The
\* expected revision is stale", so only Core's rejection may lead to it.
ConflictMeansStale ==
    [][\A c \in Clients: GivenAnswer(c, "conflict") /\ proc[c].req # NoValue =>
        proc[c].call = "reject"]_vars

\* service.go:166: a request ID is refused because it "was already used for another
\* sync-rule apply", so never when the pending apply is the very same.
RefusedOnlyForAnother ==
    [][\A c \in Clients: GivenAnswer(c, "reused") =>
        pending[proc[c].req].val # RuleSetOf(c)]_vars

===============================================================================
