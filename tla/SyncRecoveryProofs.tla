-------------------------- MODULE SyncRecoveryProofs --------------------------
(***************************************************************************)
(* Theorems about SyncRules that concern the pending records: that a start *)
(* settles them, that only a rejection stops it, and that what Core has    *)
(* activated can always be recovered.  They rest on IInv, the invariant of *)
(* SyncRulesProofs, and on one more invariant each for the start and for   *)
(* the owners of pending records.                                          *)
(***************************************************************************)
EXTENDS SyncRulesProofs

(***************************************************************************)
(* What holds while the server starts                                      *)
(***************************************************************************)

\* A pending record is put once and deleted once.
FirstVersions == \A r \in Requests: pending[r].ver \in {0, PendingVersion}

Settled(wanted) ==
    Present(history[wanted.rev]) /\ history[wanted.rev].val = wanted.rules

\* What is pending and not listed any more is in the history.
StartHasListed ==
    \A r \in Requests: Present(pending[r]) => r \in queue \/ Settled(pending[r].val)

\* The start works on a record that it has listed, with what that record says.
StartHoldsListed ==
    proc[Startup].call \in Calls =>
        /\ proc[Startup].req \in queue
        /\ Present(pending[proc[Startup].req]) =>
              pending[proc[Startup].req].val = RuleSetOf(Startup)

\* What the start has read of the history and the head, nobody else changes.
StartReadsLast ==
    /\ proc[Startup].call \in {"getHead", "commit"} => ~Present(history[proc[Startup].rev])
    /\ proc[Startup].call = "commit" /\ proc[Startup].lead => head.ver = proc[Startup].seen
    /\ proc[Startup].call = "putHead" => head.ver = proc[Startup].seen

StartKnows ==
    server = "starting" =>
        /\ proc[Startup].answer = "none"
        /\ StartHasListed
        /\ StartHoldsListed
        /\ StartReadsLast

StartInv == IInv /\ FirstVersions /\ StartKnows

USE ConstantsAssumption DEF Procs, Revisions

LEMMA InitStartInv == Init => StartInv
<1> SUFFICES ASSUME Init PROVE StartInv
  OBVIOUS
<1>1. FirstVersions
  BY DEF Init, FirstVersions, Absent
<1>2. StartKnows
  BY DEF Init, StartKnows
<1>3. QED
  BY <1>1, <1>2, InitIInv DEF StartInv

-------------------------------------------------------------------------------
(***************************************************************************)
(* Pending records                                                         *)
(***************************************************************************)

\* A delete removes the record that it names, or finds another version of it.
LEMMA DeleteRemoves ==
    ASSUME IInv, NEW p \in Procs, proc[p].req \in Requests, TryDeletePending(p)
    PROVE  /\ \A r \in Requests \ {proc[p].req}: pending'[r] = pending[r]
           /\ \A r \in Requests: pending'[r] \in {pending[r], Absent}
  BY DEF IInv, TypeOK, TryDeletePending, DeletePending

\* Only the handlers that have their request's record delete it.
LEMMA PendingMoves ==
    ASSUME IInv, [Next]_vars, NEW r \in Requests
    PROVE  \/ pending'[r] \in {pending[r], Absent}
           \/ /\ ~Present(pending[r])
              /\ \E c \in Clients:
                    /\ PutPending(c) /\ proc[c].req = r
                    /\ pending'[r] = [ver |-> PendingVersion, val |-> RuleSetOf(c)]
<1>1. ASSUME NEW c \in Clients, PutPending(c)
      PROVE  \/ pending'[r] = pending[r]
             \/ /\ ~Present(pending[r]) /\ proc[c].req = r
                /\ pending'[r] = [ver |-> PendingVersion, val |-> RuleSetOf(c)]
  <2>1. CASE Matches(pending[proc[c].req], 0) /\ proc[c].req = r
    <3>1. pending[r].ver = 0 /\ ~Present(pending[r])
      BY <2>1 DEF Matches, Unchecked, Present
    <3>2. pending' = [pending EXCEPT ![r] = Written(pending[r], RuleSetOf(c))]
      BY <1>1, <2>1 DEF PutPending
    <3>3. pending'[r] = Written(pending[r], RuleSetOf(c))
      BY <3>2 DEF IInv, TypeOK
    <3>4. QED
      BY <2>1, <3>1, <3>3 DEF Written, PendingVersion
  <2>2. CASE ~(Matches(pending[proc[c].req], 0) /\ proc[c].req = r)
    BY <1>1, <2>2 DEF PutPending, IInv, TypeOK
  <2>3. QED
    BY <2>1, <2>2
<1>2. ASSUME NEW p \in Procs, TryDeletePending(p),
             proc[p].call \in {"reject", "dropPending", "discard"}
      PROVE  pending'[r] \in {pending[r], Absent}
  <2>1. proc[p].req \in Requests
    BY <1>2 DEF IInv, Prepared, HasArguments, ApplyCalls, FinishCalls, StartCalls
  <2>2. QED
    BY <1>2, <2>1, DeleteRemoves
<1>3. ASSUME NEW p \in Procs, Commit(p)
      PROVE  pending'[r] \in {pending[r], Absent}
  BY <1>3 DEF Commit, IInv, TypeOK, store
<1>4. ASSUME NEW c \in Clients, Begin(c) PROVE pending'[r] = pending[r]
  BY <1>4 DEF Begin, BeginApply, BeginRestore, BeginCurrent, store
<1>5. ASSUME NEW c \in Clients, Handle(c), ~PutPending(c)
      PROVE  pending'[r] \in {pending[r], Absent}
  BY <1>5, <1>2 DEF Handle, GetPending, RejectApply, ReadRevision, PutRevision, store, At
<1>6. ASSUME NEW p \in Procs, Proceed(p)
      PROVE  pending'[r] \in {pending[r], Absent}
  BY <1>6, <1>2, <1>3
  DEF Proceed, CoreAnswers, GetRevision, DropPending, GetHead, ReadHead, PutHead, store, At
<1>7. ASSUME NEW p \in Procs, Cancel(p) PROVE pending'[r] = pending[r]
  BY <1>7 DEF Cancel, store
<1>8. CASE Discard
  <2>1. Startup \in Procs /\ TryDeletePending(Startup) /\ proc[Startup].call = "discard"
    BY <1>8 DEF Discard, TryDeletePending, At
  <2>2. QED
    BY <2>1, <1>2
<1>9. CASE Restart \/ RecoverNext \/ Serve \/ DelayedArrives \/ Crash \/ UNCHANGED vars
  BY <1>9 DEF Restart, RecoverNext, Serve, DelayedArrives, Crash, vars, store
<1>10. QED
  BY <1>1, <1>4, <1>5, <1>6, <1>7, <1>8, <1>9 DEF Next

LEMMA FirstVersionsStep ==
    ASSUME IInv, FirstVersions, [Next]_vars
    PROVE  FirstVersions'
<1>1. ASSUME NEW r \in Requests PROVE pending'[r].ver \in {0, PendingVersion}
  <2>1. CASE pending'[r] \in {pending[r], Absent}
    BY <2>1 DEF FirstVersions, Absent
  <2>2. CASE pending'[r] \notin {pending[r], Absent}
    <3>1. PICK c \in Clients: pending'[r] = [ver |-> PendingVersion, val |-> RuleSetOf(c)]
      BY <1>1, <2>2, PendingMoves
    <3>2. QED
      BY <3>1
  <2>3. QED
    BY <2>1, <2>2
<1>2. QED
  BY <1>1 DEF FirstVersions

-------------------------------------------------------------------------------
(***************************************************************************)
(* What a step leaves of the log and of the history                        *)
(***************************************************************************)

LogKept ==
    /\ log' \in Seq(Rules) /\ Len(log) <= Len(log')
    /\ \A n \in 1 .. Len(log): log'[n] = log[n]

HistoryKept == \A n \in Revisions: Present(history[n]) => history'[n] = history[n]

\* A revision is only recorded where none is.
LEMMA RecordKeeps ==
    ASSUME IInv, NEW p \in Procs, Matches(history[proc[p].rev], 0),
           history' = [history EXCEPT ![proc[p].rev] = Written(@, proc[p].rules)]
    PROVE  HistoryKept
<1>1. ~Present(history[proc[p].rev])
  BY DEF Matches, Unchecked, Present
<1>2. QED
  BY <1>1 DEF HistoryKept, IInv, TypeOK

LEMMA HistoryStep ==
    ASSUME IInv, [Next]_vars
    PROVE  HistoryKept
<1>1. CASE history' = history
  BY <1>1 DEF HistoryKept
<1>2. ASSUME NEW p \in Procs, Commit(p) PROVE HistoryKept
  BY <1>1, <1>2, RecordKeeps DEF Commit, CommitVerdict, store
<1>3. ASSUME NEW c \in Clients, PutRevision(c) PROVE HistoryKept
  BY <1>1, <1>3, RecordKeeps DEF PutRevision
<1>4. ASSUME NEW c \in Clients, Begin(c) PROVE HistoryKept
  BY <1>1, <1>4 DEF Begin, BeginApply, BeginRestore, BeginCurrent, store
<1>5. ASSUME NEW c \in Clients, Handle(c) PROVE HistoryKept
  BY <1>1, <1>3, <1>5 DEF Handle, PutPending, GetPending, RejectApply, ReadRevision, store
<1>6. ASSUME NEW p \in Procs, Proceed(p) \/ Cancel(p) PROVE HistoryKept
  BY <1>1, <1>2, <1>6
  DEF Proceed, CoreAnswers, GetRevision, DropPending, GetHead, ReadHead, PutHead, Cancel, store
<1>7. CASE Restart \/ RecoverNext \/ Discard \/ Serve \/ DelayedArrives \/ Crash \/ UNCHANGED vars
  BY <1>1, <1>7 DEF Restart, RecoverNext, Discard, Serve, DelayedArrives, Crash, vars, store
<1>8. QED
  BY <1>4, <1>5, <1>6, <1>7 DEF Next

LEMMA LogStep ==
    ASSUME IInv, [Next]_vars
    PROVE  LogKept
<1>1. CASE log' = log
  BY <1>1 DEF LogKept, IInv, TypeOK
<1>2. ASSUME NEW rev \in Revisions, NEW rules \in Rules, CoreApplies(rev, rules) PROVE LogKept
  BY <1>2, CoreEffect DEF LogKept, IInv
<1>3. ASSUME NEW p \in Procs, CoreAnswers(p) PROVE LogKept
  <2>1. proc[p].rev \in Revisions /\ proc[p].rules \in Rules
    BY <1>3 DEF CoreAnswers, At, IInv, Prepared, HasArguments, Calls, ApplyCalls
  <2>2. QED
    BY <1>2, <1>3, <2>1 DEF CoreAnswers
<1>4. CASE DelayedArrives
  <2>1. PICK m \in delayed: CoreApplies(m.rev, m.rules)
    BY <1>4 DEF DelayedArrives
  <2>2. m.rev \in Revisions /\ m.rules \in Rules
    BY DEF IInv, TypeOK, RuleSet
  <2>3. QED
    BY <1>2, <2>1, <2>2
<1>5. ASSUME NEW c \in Clients, Begin(c) \/ Handle(c) PROVE LogKept
  BY <1>1, <1>5 DEF Begin, BeginApply, BeginRestore, BeginCurrent, Handle, PutPending, GetPending,
     RejectApply, ReadRevision, PutRevision
<1>6. ASSUME NEW p \in Procs, Proceed(p) \/ Cancel(p) PROVE LogKept
  BY <1>1, <1>3, <1>6
  DEF Proceed, GetRevision, DropPending, GetHead, Commit, ReadHead, PutHead, Cancel
<1>7. CASE Restart \/ RecoverNext \/ Discard \/ Serve \/ Crash \/ UNCHANGED vars
  BY <1>1, <1>7 DEF Restart, RecoverNext, Discard, Serve, Crash, vars
<1>8. QED
  BY <1>4, <1>5, <1>6, <1>7 DEF Next

-------------------------------------------------------------------------------
(***************************************************************************)
(* The steps of a start                                                    *)
(***************************************************************************)

\* While the server starts, no handler makes a step.
LEMMA StartSteps ==
    ASSUME IInv, server = "starting", [Next]_vars
    PROVE  \/ Proceed(Startup) \/ Cancel(Startup) \/ RecoverNext \/ Discard \/ Serve
           \/ DelayedArrives \/ Crash \/ UNCHANGED vars
<1>1. ASSUME NEW c \in Clients PROVE proc[c].call \notin Calls /\ ~Free(c) /\ c # Startup
  BY DEF IInv, StartIsAlone, Free
<1>2. ASSUME NEW c \in Clients PROVE ~Begin(c) /\ ~Handle(c)
  BY <1>1 DEF Begin, BeginApply, BeginRestore, BeginCurrent, Handle, PutPending, GetPending,
     RejectApply, ReadRevision, PutRevision, At, Calls, ApplyCalls, CurrentCalls
<1>3. ASSUME NEW c \in Clients PROVE ~Proceed(c) /\ ~Cancel(c)
  BY <1>1 DEF Proceed, CoreAnswers, GetRevision, DropPending, GetHead, Commit, ReadHead, PutHead,
     Cancel, At, Calls, ApplyCalls, FinishCalls, HeadCalls
<1>4. CASE Restart
  BY <1>4 DEF Restart
<1>5. QED
  BY <1>2, <1>3, <1>4 DEF Next

\* The start makes its next call about the same record.
LEMMA StartGoesOn ==
    ASSUME IInv, StartKnows, server = "starting", proc[Startup].call \in Calls,
           UNCHANGED <<history, queue>>,
           \A r \in Requests: pending'[r] \in {pending[r], Absent},
           proc'[Startup].answer = proc[Startup].answer, proc'[Startup].req = proc[Startup].req,
           proc'[Startup].rev = proc[Startup].rev, proc'[Startup].rules = proc[Startup].rules,
           StartReadsLast'
    PROVE  StartKnows'
<1>1. ASSUME NEW r \in Requests, Present(pending'[r]) PROVE pending'[r] = pending[r]
  BY <1>1 DEF Present, Absent
<1>2. StartHasListed'
  BY <1>1 DEF StartKnows, StartHasListed, Settled
<1>3. proc[Startup].req \in queue /\ proc[Startup].req \in Requests
  BY DEF StartKnows, StartHoldsListed, IInv, TypeOK
<1>4. RuleSetOf(Startup)' = RuleSetOf(Startup)
  BY DEF RuleSetOf
<1>5. StartHoldsListed'
  BY <1>1, <1>3, <1>4 DEF StartKnows, StartHoldsListed
<1>6. QED
  BY <1>2, <1>5 DEF StartKnows

\* The start is done with a record: it is gone, or recorded.
LEMMA StartSettles ==
    ASSUME IInv, StartKnows, server = "starting", proc[Startup].call \in Calls,
           Answer(Startup, "ok"), HistoryKept,
           proc[Startup].req \in Requests,
           \A r \in Requests \ {proc[Startup].req}: pending'[r] = pending[r],
           \/ pending'[proc[Startup].req] = Absent
           \/ /\ pending'[proc[Startup].req] = pending[proc[Startup].req]
              /\ Settled(RuleSetOf(Startup))
    PROVE  StartKnows'
<1>1. /\ proc' = [proc EXCEPT ![Startup] = Blank]
      /\ queue' = queue \ {proc[Startup].req}
  BY DEF Answer
<1>2. proc'[Startup] = Blank
  BY <1>1 DEF IInv, TypeOK
<1>3. ASSUME NEW r \in Requests, Present(pending'[r])
      PROVE  r \in queue' \/ Settled(pending[r].val)'
  <2>1. pending'[r] = pending[r] /\ pending[r] \in RecordOf(RuleSet)
    BY <1>3 DEF Present, Absent, IInv, TypeOK
  <2>2. pending[r].val \in RuleSet
    BY <1>3, <2>1 DEF RecordOf, Present, Absent
  <2>3. pending[r].val.rev \in Revisions
    BY <2>2 DEF RuleSet
  <2>4. r # proc[Startup].req => r \in queue' \/ Settled(pending[r].val)
    BY <1>1, <1>3, <2>1 DEF StartKnows, StartHasListed
  <2>5. r = proc[Startup].req => Settled(pending[r].val)
    BY <1>3, <2>1 DEF StartKnows, StartHoldsListed, Present, Absent
  <2>6. Settled(pending[r].val) => Settled(pending[r].val)'
    BY <2>1, <2>3 DEF Settled, HistoryKept
  <2>7. QED
    BY <2>4, <2>5, <2>6
<1>4. StartHasListed'
  BY <1>3 DEF StartHasListed
<1>5. StartHoldsListed' /\ StartReadsLast' /\ proc'[Startup].answer = "none"
  BY <1>2, BlankMakesNoCall
  DEF StartHoldsListed, StartReadsLast, Blank, Fresh, Calls, FinishCalls, HeadCalls
<1>6. QED
  BY <1>4, <1>5 DEF StartKnows

\* An error ends the start.
LEMMA StartGivesUp ==
    ASSUME NEW code, code # "ok", Answer(Startup, code)
    PROVE  StartKnows' /\ server' = "down" /\ queue' = {}
  BY DEF Answer, StartKnows

\* What the start has by the call it is at.
LEMMA StartHas ==
    ASSUME IInv, StartKnows, server = "starting", proc[Startup].call \in Calls
    PROVE  /\ Startup \in Procs /\ TypeOK
           /\ proc[Startup].req \in queue /\ proc[Startup].req \in Requests
           /\ proc[Startup].rev \in Revisions /\ proc[Startup].rules \in Rules
           /\ proc[Startup].call \notin HeadCalls =>
                 /\ Present(pending[proc[Startup].req])
                 /\ pending[proc[Startup].req].val = RuleSetOf(Startup)
  BY DEF StartKnows, StartHoldsListed, IInv, TypeOK, Prepared, HasArguments, StartIsAlone

\* A record that Core, the history and the start agree about is settled.
LEMMA RecordedIsSettled ==
    ASSUME IInv, NEW p \in Procs, proc[p].call \in HeadCalls \cup {"dropPending"}
    PROVE  Settled(RuleSetOf(p))
<1>1. Present(history[proc[p].rev]) /\ proc[p].rev \in Revisions
  BY DEF IInv, Prepared, HasSeenHead, HasArguments, Calls, FinishCalls
<1>2. log[proc[p].rev] = proc[p].rules
  BY DEF IInv, Prepared, HasCommitted, FinishCalls
<1>3. QED
  BY <1>1, <1>2 DEF IInv, HistoryMatchesCore, Settled, RuleSetOf

\* What the head says of the start's revision, Core and the history say too.
LEMMA HeadAgrees ==
    ASSUME IInv, NEW p \in Procs,
           proc[p].call \in {"getRevision", "getHead"} \cup HeadCalls
    PROVE  /\ Present(history[proc[p].rev]) => history[proc[p].rev].val = proc[p].rules
           /\ Present(head) /\ head.val.rev = proc[p].rev => head.val = RuleSetOf(p)
<1>1. proc[p].rev \in Revisions /\ log[proc[p].rev] = proc[p].rules
  BY DEF IInv, Prepared, HasCommitted, HasArguments, Calls, FinishCalls, HeadCalls
<1>2. Present(history[proc[p].rev]) => history[proc[p].rev].val = proc[p].rules
  BY <1>1 DEF IInv, HistoryMatchesCore
<1>3. ASSUME Present(head), head.val.rev = proc[p].rev PROVE head.val = RuleSetOf(p)
  <2>1. head.val.rules = proc[p].rules
    BY <1>2, <1>3 DEF IInv, HeadIsRecorded
  <2>2. head.val \in RuleSet
    BY <1>3, HeadJustRead DEF IInv
  <2>3. QED
    BY <1>3, <2>1, <2>2 DEF RuleSet, RuleSetOf
<1>4. QED
  BY <1>2, <1>3

-------------------------------------------------------------------------------
(***************************************************************************)
(* Every step of a start preserves what holds while it runs, and only a    *)
(* rejection stops it                                                      *)
(***************************************************************************)

\* What a step of a start may do: go on as StartKnows says, or stop on a record
\* that Core rejects, now or for lack of the revisions before it.
Rejected(wanted) ==
    /\ CoreVerdict(wanted.rev, wanted.rules) \in {"conflict", "invalid"}
    /\ At(Startup, "core") \/ Len(log) < wanted.rev

StopsOnlyOnRejected ==
    proc'[Startup].answer \in {"conflict", "invalid", "not_found"} =>
        \E r \in queue: Rejected(pending[r].val)

StartMoves == StartKnows' /\ StopsOnlyOnRejected

LEMMA GoesOnMoves ==
    ASSUME StartKnows, server = "starting", proc'[Startup].answer \in {proc[Startup].answer, "none"}
    PROVE  StopsOnlyOnRejected
  BY DEF StartKnows, StopsOnlyOnRejected

LEMMA StartCoreAnswers ==
    ASSUME StartInv, server = "starting", CoreAnswers(Startup)
    PROVE  StartMoves
<1> DEFINE verdict == CoreVerdict(proc[Startup].rev, proc[Startup].rules)
<1>1. /\ proc[Startup].call = "core" /\ proc[Startup].call \in Calls
      /\ proc[Startup].call \notin HeadCalls /\ UNCHANGED store
  BY DEF CoreAnswers, At, Calls, ApplyCalls, HeadCalls
<1>2. CASE verdict \in {"same", "commit"}
  <2>1. GoTo(Startup, "getRevision") /\ UNCHANGED queue
    BY <1>2 DEF CoreAnswers
  <2>2. /\ proc'[Startup].call = "getRevision" /\ proc'[Startup].answer = proc[Startup].answer
        /\ proc'[Startup].req = proc[Startup].req /\ proc'[Startup].rev = proc[Startup].rev
        /\ proc'[Startup].rules = proc[Startup].rules
    BY <2>1, GoToEffect DEF StartInv, IInv
  <2>3. StartReadsLast'
    BY <2>2 DEF StartReadsLast
  <2>4. StartKnows'
    BY <1>1, <2>1, <2>2, <2>3, StartGoesOn DEF StartInv, store
  <2>5. QED
    BY <2>2, <2>4, GoesOnMoves DEF StartInv, StartMoves
<1>3. CASE verdict \in {"conflict", "invalid"}
  <2>1. Answer(Startup, verdict)
    BY <1>3 DEF CoreAnswers
  <2>2. /\ proc[Startup].req \in queue
        /\ pending[proc[Startup].req].val = RuleSetOf(Startup)
    BY <1>1, StartHas DEF StartInv
  <2>3. Rejected(RuleSetOf(Startup))
    BY <1>1, <1>3 DEF Rejected, RuleSetOf, At
  <2>4. StartKnows'
    BY <1>3, <2>1, StartGivesUp
  <2>5. QED
    BY <2>2, <2>3, <2>4 DEF StartMoves, StopsOnlyOnRejected
<1>4. QED
  BY <1>2, <1>3 DEF CoreAnswers

LEMMA StartGetRevision ==
    ASSUME StartInv, server = "starting", GetRevision(Startup)
    PROVE  StartMoves
<1>1. /\ proc[Startup].call = "getRevision" /\ proc[Startup].call \in Calls
      /\ UNCHANGED <<log, delayed, store>>
  BY DEF GetRevision, At, Calls, FinishCalls
<1>2. PICK call \in {"dropPending", "getHead"}:
         /\ GoTo(Startup, call) /\ UNCHANGED <<server, queue>>
         /\ call = "getHead" => ~Present(history[proc[Startup].rev])
  BY <1>1, HeadAgrees DEF GetRevision, StartInv
<1>3. /\ proc'[Startup].call = call /\ proc'[Startup].answer = proc[Startup].answer
      /\ proc'[Startup].req = proc[Startup].req /\ proc'[Startup].rev = proc[Startup].rev
      /\ proc'[Startup].rules = proc[Startup].rules
  BY <1>2, GoToEffect DEF StartInv, IInv
<1>4. StartReadsLast'
  BY <1>1, <1>2, <1>3 DEF StartReadsLast, store
<1>5. StartKnows'
  BY <1>1, <1>2, <1>3, <1>4, StartGoesOn DEF StartInv, store
<1>6. QED
  BY <1>3, <1>5, GoesOnMoves DEF StartInv, StartMoves

LEMMA StartDropPending ==
    ASSUME StartInv, server = "starting", DropPending(Startup)
    PROVE  StartMoves
<1>1. /\ proc[Startup].call = "dropPending" /\ proc[Startup].call \in Calls
      /\ GoTo(Startup, "readHead") /\ TryDeletePending(Startup)
      /\ UNCHANGED <<log, delayed, history, head, server, queue>>
  BY DEF DropPending, At, Calls, FinishCalls
<1>2. /\ proc'[Startup].call = "readHead" /\ proc'[Startup].answer = proc[Startup].answer
      /\ proc'[Startup].req = proc[Startup].req /\ proc'[Startup].rev = proc[Startup].rev
      /\ proc'[Startup].rules = proc[Startup].rules
  BY <1>1, GoToEffect DEF StartInv, IInv
<1>3. StartReadsLast'
  BY <1>2 DEF StartReadsLast
<1>4. \A r \in Requests: pending'[r] \in {pending[r], Absent}
  BY <1>1, StartHas, DeleteRemoves DEF StartInv
<1>5. StartKnows'
  BY <1>1, <1>2, <1>3, <1>4, StartGoesOn DEF StartInv
<1>6. QED
  BY <1>2, <1>5, GoesOnMoves DEF StartInv, StartMoves

LEMMA StartGetHead ==
    ASSUME StartInv, server = "starting", GetHead(Startup)
    PROVE  StartMoves
<1> DEFINE lead == Present(head) => head.val.rev < proc[Startup].rev
           seen == IF lead THEN head.ver ELSE 0
           s == [proc[Startup] EXCEPT !.call = "commit", !.lead = lead, !.seen = seen]
<1>1. /\ proc[Startup].call = "getHead" /\ proc[Startup].call \in Calls
      /\ UNCHANGED <<log, delayed, store>> /\ proc[Startup] \in Local
  BY DEF GetHead, At, Calls, FinishCalls, StartInv, IInv, TypeOK
<1>2. /\ proc' = [proc EXCEPT ![Startup].call = "commit", ![Startup].lead = lead,
                             ![Startup].seen = seen]
      /\ UNCHANGED <<server, queue>>
  <2>1. Present(head) /\ head.val.rev = proc[Startup].rev
            => head.val.rules = proc[Startup].rules
    <3>1. Present(head) /\ head.val.rev = proc[Startup].rev => head.val = RuleSetOf(Startup)
      BY <1>1, HeadAgrees DEF StartInv
    <3>2. QED
      BY <3>1 DEF RuleSetOf
  <2>2. QED
    BY <2>1 DEF GetHead
<1>3. proc'[Startup] = s
  BY <1>2 DEF StartInv, IInv, TypeOK
<1>4. /\ s.call = "commit" /\ s.lead = lead /\ s.seen = seen /\ s.answer = proc[Startup].answer
      /\ s.req = proc[Startup].req /\ s.rev = proc[Startup].rev /\ s.rules = proc[Startup].rules
  BY <1>1 DEF Local
<1>5. StartReadsLast'
  <2>1. ~Present(history[proc[Startup].rev])
    BY <1>1 DEF StartInv, StartKnows, StartReadsLast
  <2>2. QED
    BY <1>1, <1>3, <1>4, <2>1 DEF StartReadsLast, store
<1>6. StartKnows'
  BY <1>1, <1>2, <1>3, <1>4, <1>5, StartGoesOn DEF StartInv, store
<1>7. QED
  BY <1>3, <1>4, <1>6, GoesOnMoves DEF StartInv, StartMoves

\* The start is answered "ok" and takes the next record.
LEMMA SettlesMoves ==
    ASSUME StartInv, server = "starting", Answer(Startup, "ok"), StartKnows'
    PROVE  StartMoves
<1>1. proc'[Startup] = Blank
  BY DEF Answer, StartInv, IInv, TypeOK
<1>2. QED
  BY <1>1, GoesOnMoves DEF StartInv, StartMoves, Blank, Fresh

LEMMA StartCommit ==
    ASSUME StartInv, server = "starting", Commit(Startup), HistoryKept
    PROVE  StartMoves
<1>1. proc[Startup].call = "commit" /\ proc[Startup].call \in Calls
      /\ proc[Startup].call \notin HeadCalls
  BY DEF Commit, At, Calls, FinishCalls, HeadCalls
<1>2. /\ proc[Startup].req \in Requests /\ proc[Startup].rev \in Revisions
      /\ Present(pending[proc[Startup].req]) /\ TypeOK
  BY <1>1, StartHas DEF StartInv
<1>3. Matches(history[proc[Startup].rev], 0)
  <2>1. ~Present(history[proc[Startup].rev])
    BY <1>1 DEF StartInv, StartKnows, StartReadsLast
  <2>2. history[proc[Startup].rev].ver \in Nat
    BY <1>2 DEF TypeOK, RecordOf, Absent
  <2>3. QED
    BY <2>1, <2>2 DEF Matches, Present
<1>4. Matches(pending[proc[Startup].req], PendingVersion)
  BY <1>2 DEF StartInv, FirstVersions, Matches, Present
<1>5. proc[Startup].lead => Matches(head, proc[Startup].seen)
  BY <1>1 DEF StartInv, StartKnows, StartReadsLast, Matches
<1>6. CommitVerdict(Startup) = "ok"
  BY <1>2, <1>3, <1>4, <1>5 DEF CommitVerdict
<1>7. /\ pending' = [pending EXCEPT ![proc[Startup].req] = Absent]
      /\ Answer(Startup, "ok")
  BY <1>6 DEF Commit
<1>8. /\ \A r \in Requests \ {proc[Startup].req}: pending'[r] = pending[r]
      /\ pending'[proc[Startup].req] = Absent
  BY <1>2, <1>7 DEF TypeOK
<1>9. StartKnows'
  BY <1>1, <1>2, <1>7, <1>8, StartSettles DEF StartInv
<1>10. QED
  BY <1>7, <1>9, SettlesMoves

LEMMA StartReadHead ==
    ASSUME StartInv, server = "starting", ReadHead(Startup), HistoryKept
    PROVE  StartMoves
<1> DEFINE s == [proc[Startup] EXCEPT !.call = "putHead", !.seen = head.ver]
<1>1. /\ proc[Startup].call = "readHead" /\ proc[Startup].call \in Calls
      /\ proc[Startup].call \in HeadCalls
      /\ UNCHANGED <<log, delayed, store>> /\ proc[Startup] \in Local
  BY DEF ReadHead, At, Calls, HeadCalls, StartInv, IInv, TypeOK
<1>2. CASE Answer(Startup, "ok")
  <2>1. Settled(RuleSetOf(Startup)) /\ proc[Startup].req \in Requests
    BY <1>1, RecordedIsSettled, StartHas DEF StartInv
  <2>2. StartKnows'
    BY <1>1, <1>2, <2>1, StartSettles DEF StartInv, store
  <2>3. QED
    BY <1>2, <2>2, SettlesMoves
<1>3. CASE /\ proc' = [proc EXCEPT ![Startup].call = "putHead", ![Startup].seen = head.ver]
           /\ UNCHANGED <<server, queue>>
  <2>1. proc'[Startup] = s
    BY <1>3 DEF StartInv, IInv, TypeOK
  <2>2. /\ s.call = "putHead" /\ s.seen = head.ver /\ s.answer = proc[Startup].answer
        /\ s.req = proc[Startup].req /\ s.rev = proc[Startup].rev /\ s.rules = proc[Startup].rules
    BY <1>1 DEF Local
  <2>3. StartReadsLast'
    BY <1>1, <2>1, <2>2 DEF StartReadsLast, store
  <2>4. StartKnows'
    BY <1>1, <1>3, <2>1, <2>2, <2>3, StartGoesOn DEF StartInv, store
  <2>5. QED
    BY <2>1, <2>2, <2>4, GoesOnMoves DEF StartInv, StartMoves
<1>4. QED
  BY <1>1, <1>2, <1>3, HeadAgrees DEF ReadHead, StartInv

LEMMA StartPutHead ==
    ASSUME StartInv, server = "starting", PutHead(Startup), HistoryKept
    PROVE  StartMoves
<1>1. /\ proc[Startup].call = "putHead" /\ proc[Startup].call \in Calls
      /\ proc[Startup].call \in HeadCalls /\ UNCHANGED <<log, delayed, pending, history>>
  BY DEF PutHead, At, Calls, HeadCalls
<1>2. Matches(head, proc[Startup].seen)
  BY <1>1 DEF StartInv, StartKnows, StartReadsLast, Matches
<1>3. Answer(Startup, "ok")
  BY <1>2 DEF PutHead
<1>4. Settled(RuleSetOf(Startup)) /\ proc[Startup].req \in Requests
  BY <1>1, RecordedIsSettled, StartHas DEF StartInv
<1>5. StartKnows'
  BY <1>1, <1>3, <1>4, StartSettles DEF StartInv
<1>6. QED
  BY <1>3, <1>5, SettlesMoves

LEMMA StartDiscard ==
    ASSUME StartInv, server = "starting", Discard, HistoryKept
    PROVE  StartMoves
<1>1. /\ proc[Startup].call = "discard" /\ proc[Startup].call \in Calls
      /\ proc[Startup].call \notin HeadCalls /\ DeletePending(Startup) /\ Answer(Startup, "ok")
  BY DEF Discard, At, Calls, StartCalls, HeadCalls
<1>2. /\ proc[Startup].req \in Requests /\ Present(pending[proc[Startup].req]) /\ TypeOK
  BY <1>1, StartHas DEF StartInv
<1>3. Matches(pending[proc[Startup].req], PendingVersion)
  BY <1>2 DEF StartInv, FirstVersions, Matches, Present
<1>4. /\ \A r \in Requests \ {proc[Startup].req}: pending'[r] = pending[r]
      /\ pending'[proc[Startup].req] = Absent
  BY <1>1, <1>2, <1>3 DEF DeletePending, TypeOK
<1>5. StartKnows'
  BY <1>1, <1>2, <1>4, StartSettles DEF StartInv
<1>6. QED
  BY <1>1, <1>5, SettlesMoves

LEMMA StartRecoverNext ==
    ASSUME StartInv, server = "starting", RecoverNext
    PROVE  StartMoves
<1>1. PICK r \in queue:
        LET wanted == pending[r].val IN
            \/ /\ RecoveryStep(wanted) # "conflict"
               /\ proc' = [proc EXCEPT ![Startup] =
                              Fresh(RecoveryStep(wanted), "none", r, wanted.rev, wanted.rules)]
               /\ UNCHANGED <<server, queue>>
            \/ /\ RecoveryStep(wanted) = "conflict"
               /\ Answer(Startup, "conflict")
  BY DEF RecoverNext
<1> DEFINE wanted == pending[r].val
           call == RecoveryStep(wanted)
<1>2. /\ proc[Startup].call \notin Calls /\ UNCHANGED store /\ TypeOK /\ r \in Requests
  BY DEF RecoverNext, At, StartInv, IInv, TypeOK, Calls, ApplyCalls, FinishCalls, HeadCalls,
     CurrentCalls, StartCalls
<1>3. Present(pending[r])
  BY <1>2 DEF StartInv, IInv, StartIsAlone, Calls
<1>4. wanted \in RuleSet
  BY <1>2, <1>3 DEF TypeOK, RecordOf, Present, Absent
<1>5. Len(log) \in Nat /\ wanted.rev \in Revisions
  BY <1>2, <1>4 DEF TypeOK, RuleSet
<1>6. CASE call # "conflict" /\ UNCHANGED <<server, queue>>
           /\ proc' = [proc EXCEPT ![Startup] = Fresh(call, "none", r, wanted.rev, wanted.rules)]
  <2>1. call \in {"core", "getRevision", "discard"}
    BY <1>6 DEF RecoveryStep
  <2>2. proc'[Startup] = Fresh(call, "none", r, wanted.rev, wanted.rules)
    BY <1>2, <1>6 DEF TypeOK
  <2>3. /\ proc'[Startup].call = call /\ proc'[Startup].answer = "none"
        /\ proc'[Startup].req = r /\ RuleSetOf(Startup)' = wanted
    BY <1>4, <2>2 DEF Fresh, RuleSetOf, RuleSet
  <2>4. StartReadsLast'
    BY <2>1, <2>3 DEF StartReadsLast
  <2>5. StartHoldsListed'
    BY <1>2, <1>6, <2>3 DEF StartHoldsListed, store
  <2>6. StartHasListed'
    BY <1>2, <1>6 DEF StartInv, StartKnows, StartHasListed, Settled, store
  <2>7. StartKnows'
    BY <2>3, <2>4, <2>5, <2>6 DEF StartKnows
  <2>8. QED
    BY <2>3, <2>7, GoesOnMoves DEF StartInv, StartMoves
<1>7. CASE call = "conflict" /\ Answer(Startup, "conflict")
  <2>1. Len(log) # wanted.rev - 1 /\ Len(log) < wanted.rev
    BY <1>5, <1>7 DEF RecoveryStep
  <2>2. Rejected(wanted)
    BY <1>5, <2>1 DEF Rejected, CoreVerdict
  <2>3. StartKnows'
    BY <1>7, StartGivesUp
  <2>4. QED
    BY <2>2, <2>3 DEF StartMoves, StopsOnlyOnRejected
<1>8. QED
  BY <1>1, <1>6, <1>7

\* The steps in which the start itself does nothing, or is ended from outside.
LEMMA StartUndisturbed ==
    ASSUME StartInv, server = "starting",
           Cancel(Startup) \/ Serve \/ DelayedArrives \/ Crash \/ UNCHANGED vars
    PROVE  StartMoves
<1>1. CASE Cancel(Startup)
  <2>1. Answer(Startup, "canceled") /\ proc'[Startup] = Answered("canceled")
    BY <1>1 DEF Cancel, Answer, StartInv, IInv, TypeOK
  <2>2. StartKnows'
    BY <2>1, StartGivesUp
  <2>3. QED
    BY <2>1, <2>2 DEF StartMoves, StopsOnlyOnRejected, Answered, Fresh
<1>2. CASE Serve
  <2>1. server' = "up" /\ proc' = proc
    BY <1>2 DEF Serve
  <2>2. QED
    BY <2>1, GoesOnMoves DEF StartInv, StartMoves, StartKnows
<1>3. CASE DelayedArrives \/ UNCHANGED vars
  <2>1. UNCHANGED <<pending, history, head, server, queue, proc>>
    BY <1>3 DEF DelayedArrives, vars, store
  <2>2. StartKnows'
    BY <2>1 DEF StartInv, StartKnows, StartHasListed, Settled, StartHoldsListed, RuleSetOf,
       StartReadsLast
  <2>3. QED
    BY <2>1, <2>2, GoesOnMoves DEF StartInv, StartMoves
<1>4. CASE Crash
  <2>1. server' = "down" /\ proc'[Startup] = Blank
    BY <1>4 DEF Crash
  <2>2. QED
    BY <2>1, GoesOnMoves DEF StartInv, StartMoves, StartKnows, Blank, Fresh
<1>5. QED
  BY <1>1, <1>2, <1>3, <1>4

LEMMA StartMovesStep ==
    ASSUME StartInv, server = "starting", [Next]_vars, HistoryKept
    PROVE  StartMoves
<1>1. CASE Proceed(Startup)
  BY <1>1, StartCoreAnswers, StartGetRevision, StartDropPending, StartGetHead, StartCommit,
     StartReadHead, StartPutHead DEF Proceed
<1>2. CASE RecoverNext \/ Discard
  BY <1>2, StartRecoverNext, StartDiscard
<1>3. CASE Cancel(Startup) \/ Serve \/ DelayedArrives \/ Crash \/ UNCHANGED vars
  BY <1>3, StartUndisturbed
<1>4. QED
  BY <1>1, <1>2, <1>3, StartSteps DEF StartInv

\* A start begins with the list of all that is pending.
LEMMA StartBegins ==
    ASSUME IInv, server # "starting", server' = "starting", [Next]_vars
    PROVE  StartKnows'
<1>1. CASE Restart
  <2>1. /\ queue' = {r \in Requests: Present(pending[r])} /\ UNCHANGED store
        /\ proc'[Startup] = Blank
    BY <1>1 DEF Restart, IInv, TypeOK
  <2>2. StartHasListed'
    BY <2>1 DEF StartHasListed, store
  <2>3. StartHoldsListed' /\ StartReadsLast' /\ proc'[Startup].answer = "none"
    BY <2>1, BlankMakesNoCall
    DEF StartHoldsListed, StartReadsLast, Blank, Fresh, Calls, FinishCalls, HeadCalls
  <2>4. QED
    BY <2>2, <2>3 DEF StartKnows
<1>2. CASE ~Restart
  <2>1. ASSUME NEW p \in Procs, NEW code, Answer(p, code) PROVE server' \in {server, "down"}
    BY <2>1 DEF Answer
  <2>2. ASSUME NEW c \in Clients, Begin(c) \/ Handle(c) PROVE server' \in {server, "down"}
    BY <2>1, <2>2 DEF Begin, BeginApply, BeginRestore, BeginCurrent, Handle, PutPending, GetPending,
       RejectApply, ReadRevision, PutRevision
  <2>3. ASSUME NEW p \in Procs, Proceed(p) \/ Cancel(p) PROVE server' \in {server, "down"}
    BY <2>1, <2>3 DEF Proceed, CoreAnswers, GetRevision, DropPending, GetHead, Commit, ReadHead,
       PutHead, Cancel
  <2>4. CASE RecoverNext \/ Discard \/ Serve \/ DelayedArrives \/ Crash \/ UNCHANGED vars
    BY <2>1, <2>4 DEF RecoverNext, Discard, Serve, DelayedArrives, Crash, vars
  <2>5. QED
    BY <1>2, <2>2, <2>3, <2>4 DEF Next
<1>3. QED
  BY <1>1, <1>2

LEMMA NextStartInv == StartInv /\ [Next]_vars => StartInv'
<1> SUFFICES ASSUME StartInv, [Next]_vars PROVE StartInv'
  OBVIOUS
<1>1. IInv' /\ FirstVersions' /\ HistoryKept
  BY NextIInv, FirstVersionsStep, HistoryStep DEF StartInv
<1>2. CASE server = "starting"
  BY <1>1, <1>2, StartMovesStep DEF StartInv, StartMoves
<1>3. CASE server # "starting" /\ server' = "starting"
  BY <1>1, <1>3, StartBegins DEF StartInv
<1>4. CASE server' # "starting"
  BY <1>1, <1>4 DEF StartInv, StartKnows
<1>5. QED
  BY <1>2, <1>3, <1>4

THEOREM StartInvariance == Spec => []StartInv
  BY InitStartInv, NextStartInv, PTL DEF Spec

-------------------------------------------------------------------------------
(***************************************************************************)
(* The theorems about a start                                              *)
(***************************************************************************)

LEMMA OnlyServeServes ==
    ASSUME IInv, server = "starting", server' = "up", [Next]_vars
    PROVE  Serve
<1>1. CASE Proceed(Startup) \/ Cancel(Startup) \/ RecoverNext \/ Discard
  BY <1>1 DEF Proceed, CoreAnswers, GetRevision, DropPending, GetHead, Commit, ReadHead, PutHead,
     Cancel, RecoverNext, Discard, Answer
<1>2. CASE DelayedArrives \/ Crash \/ UNCHANGED vars
  BY <1>2 DEF DelayedArrives, Crash, vars
<1>3. QED
  BY <1>1, <1>2, StartSteps

\* When the server begins to serve, every apply that was in doubt is decided: Reconcile
\* has applied or recorded it, or dropped it because Core had left it behind, and one
\* whose delete failed is in the history.
THEOREM StartSettlesAll == Spec => StartSettlesPending
<1>1. StartInv /\ [Next]_vars =>
        [server = "starting" /\ server' = "up" =>
            \A r \in Requests: Present(pending[r]) =>
                LET wanted == pending[r].val IN
                Present(history[wanted.rev]) /\ history[wanted.rev].val = wanted.rules]_vars
  <2> SUFFICES ASSUME StartInv, [Next]_vars, server = "starting", server' = "up"
               PROVE  \A r \in Requests: Present(pending[r]) => Settled(pending[r].val)
    BY DEF Settled
  <2>1. queue = {}
    BY OnlyServeServes DEF StartInv, Serve
  <2>2. QED
    BY <2>1 DEF StartInv, StartKnows, StartHasListed
<1>2. QED
  BY <1>1, StartInvariance, PTL DEF Spec, StartSettlesPending

\* Reconcile stops by itself only on an apply that Core rejects, or that Core lacks the
\* revisions for: what it has read of the history, the head and the pending records is
\* still so when it writes, since nobody else is served yet.
THEOREM OnlyRejectedBlocks == Spec => StartBlockedOnlyByRejected
<1>1. StartInv /\ [Next]_vars =>
        [server = "starting" /\ proc'[Startup].answer \in {"conflict", "invalid", "not_found"}
           => \E r \in queue: LET wanted == pending[r].val IN
                /\ CoreVerdict(wanted.rev, wanted.rules) \in {"conflict", "invalid"}
                /\ At(Startup, "core") \/ Len(log) < wanted.rev]_vars
  <2> SUFFICES ASSUME StartInv, [Next]_vars, server = "starting",
                      proc'[Startup].answer \in {"conflict", "invalid", "not_found"}
               PROVE  \E r \in queue: Rejected(pending[r].val)
    BY DEF Rejected
  <2>1. HistoryKept
    BY HistoryStep DEF StartInv
  <2>2. QED
    BY <2>1, StartMovesStep DEF StartMoves, StopsOnlyOnRejected
<1>2. QED
  BY <1>1, StartInvariance, PTL DEF Spec, StartBlockedOnlyByRejected

-------------------------------------------------------------------------------
(***************************************************************************)
(* Who owns a pending record: the process whose request put it, or the     *)
(* start that has taken it up, until the record is deleted or the process  *)
(* gives up.  A second owner needs two calls that read the same time.      *)
(***************************************************************************)

OwnerCalls == {"core", "reject", "getRevision", "dropPending", "getHead", "commit", "discard"}

Owns(p) == proc[p].call \in OwnerCalls

OwnsPending ==
    \A p \in Procs: Owns(p) =>
        /\ Present(pending[proc[p].req])
        /\ pending[proc[p].req].val = RuleSetOf(p)

OneOwner ==
    \A p, q \in Procs: p # q /\ Owns(p) /\ Owns(q) => proc[p].req # proc[q].req

\* Core has other rules than these, at their revision or after it.
Passed(wanted) ==
    wanted.rev <= Len(log) /\ (wanted.rev = Len(log) => log[wanted.rev] # wanted.rules)

DiscardsPassed == At(Startup, "discard") => Passed(RuleSetOf(Startup))

\* A pending record says this, and no handler at one of these calls is about it.
Kept(wanted, calls) ==
    \E r \in Requests:
        /\ Present(pending[r]) /\ pending[r].val = wanted
        /\ \A c \in Clients: proc[c].call \in calls => proc[c].req # r

\* A request that may still be committed after its caller has gone is pending, and
\* no handler will delete its record.
DelayedPending == \A m \in delayed: Len(log) < m.rev => Kept(m, OwnerCalls)

\* What Core has activated and nobody has recorded is pending, and no handler that
\* was told of a rejection will delete its record.
ActivePending ==
    Len(log) > 0 /\ ~Present(history[Len(log)]) =>
        Kept([rev |-> Len(log), rules |-> log[Len(log)]], {"reject"})

Ownership == OwnsPending /\ OneOwner /\ DiscardsPassed /\ DelayedPending /\ ActivePending

OwnerInv == IInv /\ Ownership

LEMMA InitOwnerInv == Init => OwnerInv
<1> SUFFICES ASSUME Init PROVE OwnerInv
  OBVIOUS
<1>1. \A p \in Procs: proc[p].call = "idle"
  BY DEF Init, Blank, Fresh
<1>2. OwnsPending /\ OneOwner /\ DiscardsPassed
  BY <1>1 DEF OwnsPending, OneOwner, Owns, OwnerCalls, DiscardsPassed, At
<1>3. DelayedPending /\ ActivePending
  BY DEF Init, DelayedPending, ActivePending
<1>4. QED
  BY <1>2, <1>3, InitIInv DEF OwnerInv, Ownership

LEMMA OwnerHas ==
    ASSUME OwnerInv, NEW p \in Procs, Owns(p)
    PROVE  /\ proc[p].req \in Requests /\ proc[p].rev \in Revisions /\ proc[p].rules \in Rules
           /\ Present(pending[proc[p].req]) /\ pending[proc[p].req].val = RuleSetOf(p)
  BY DEF OwnerInv, Ownership, OwnsPending, Owns, OwnerCalls, IInv, Prepared, HasArguments,
     Calls, ApplyCalls, FinishCalls, StartCalls

\* Why process p may delete the record of its request in this step.
MayRemove(p) ==
    /\ Owns(p) /\ ~Owns(p)'
    /\ \/ p \in Clients /\ proc[p].call = "reject"
       \/ proc[p].rev <= Len(log) /\ Present(history'[proc[p].rev])
       \/ Passed(RuleSetOf(p))

\* Process p steps; a request of its own may now be under way without it.
LEMMA OwnerMoves ==
    ASSUME OwnerInv, NEW p \in Procs, \A q \in Procs \ {p}: proc'[q] = proc[q],
           log' = log, HistoryKept,
           Owns(p)' => Owns(p) /\ proc'[p].req = proc[p].req /\ RuleSetOf(p)' = RuleSetOf(p),
           proc'[p].call \notin {"reject", "discard"},
           \A r \in Requests: pending'[r] = pending[r] \/ (r = proc[p].req /\ MayRemove(p)),
           \A m \in delayed' \ delayed:
              proc[p].call = "core" /\ m = RuleSetOf(p) /\ ~Owns(p)' /\ pending' = pending
    PROVE  Ownership'
<1>1. ASSUME NEW q \in Procs, q # p, Owns(q)
      PROVE  /\ pending'[proc[q].req] = pending[proc[q].req]
             /\ Present(pending[proc[q].req]) /\ pending[proc[q].req].val = RuleSetOf(q)
  BY <1>1, OwnerHas DEF OwnerInv, Ownership, OneOwner, MayRemove
<1>2. OwnsPending'
  <2> SUFFICES ASSUME NEW q \in Procs, Owns(q)'
               PROVE  Present(pending'[proc'[q].req]) /\ pending'[proc'[q].req].val = RuleSetOf(q)'
    BY DEF OwnsPending
  <2>1. CASE q = p
    <3>1. pending'[proc[p].req] = pending[proc[p].req]
      BY <2>1, OwnerHas DEF MayRemove
    <3>2. QED
      BY <2>1, <3>1, OwnerHas
  <2>2. CASE q # p
    <3>1. Owns(q) /\ RuleSetOf(q)' = RuleSetOf(q) /\ proc'[q].req = proc[q].req
      BY <2>2 DEF Owns, RuleSetOf
    <3>2. QED
      BY <1>1, <2>2, <3>1
  <2>3. QED
    BY <2>1, <2>2
<1>3. OneOwner'
  <2>1. ASSUME NEW q \in Procs, Owns(q)' PROVE Owns(q) /\ proc'[q].req = proc[q].req
    BY <2>1 DEF Owns
  <2>2. QED
    BY <2>1 DEF OwnerInv, Ownership, OneOwner
<1>4. DiscardsPassed'
  BY DEF OwnerInv, Ownership, DiscardsPassed, Passed, At, RuleSetOf
<1>5. DelayedPending'
  <2> SUFFICES ASSUME NEW m \in delayed', Len(log) < m.rev
               PROVE  Kept(m, OwnerCalls)'
    BY DEF DelayedPending
  <2>1. CASE m \in delayed
    <3>1. PICK r \in Requests:
             /\ Present(pending[r]) /\ pending[r].val = m
             /\ \A c \in Clients: proc[c].call \in OwnerCalls => proc[c].req # r
      BY <2>1 DEF OwnerInv, Ownership, DelayedPending, Kept
    <3>2. ASSUME r = proc[p].req, MayRemove(p) PROVE FALSE
      <4>1. Owns(p) /\ p \notin Clients
        BY <3>1, <3>2 DEF MayRemove, Owns
      <4>2. m = RuleSetOf(p) /\ proc[p].rev \in Nat
        BY <3>1, <3>2, <4>1, OwnerHas
      <4>3. proc[p].rev <= Len(log)
        BY <3>2, <4>1 DEF MayRemove, Passed, RuleSetOf
      <4>4. Len(log) \in Nat
        BY DEF OwnerInv, IInv, TypeOK
      <4>5. QED
        BY <4>2, <4>3, <4>4 DEF RuleSetOf
    <3>3. pending'[r] = pending[r]
      BY <3>2
    <3>4. ASSUME NEW c \in Clients, proc'[c].call \in OwnerCalls PROVE proc'[c].req # r
      BY <3>1, <3>4 DEF Owns
    <3>5. QED
      BY <3>1, <3>3, <3>4 DEF Kept
  <2>2. CASE m \notin delayed
    <3>1. Owns(p) /\ m = RuleSetOf(p) /\ ~Owns(p)' /\ pending' = pending
      BY <2>2 DEF Owns, OwnerCalls
    <3>2. PICK r \in Requests: r = proc[p].req
      BY <3>1, OwnerHas
    <3>3. Present(pending[r]) /\ pending[r].val = m
      BY <3>1, <3>2, OwnerHas
    <3>4. ASSUME NEW c \in Clients, proc'[c].call \in OwnerCalls PROVE proc'[c].req # r
      BY <3>1, <3>2, <3>4 DEF Owns, OwnerInv, Ownership, OneOwner
    <3>5. QED
      BY <3>1, <3>3, <3>4 DEF Kept
  <2>3. QED
    BY <2>1, <2>2
<1>6. ActivePending'
  <2> DEFINE n == Len(log)
  <2> SUFFICES ASSUME n > 0, ~Present(history'[n])
               PROVE  Kept([rev |-> n, rules |-> log[n]], {"reject"})'
    BY DEF ActivePending
  <2>1. n \in Revisions
    BY DEF OwnerInv, IInv, TypeOK
  <2>2. ~Present(history[n])
    BY <2>1 DEF HistoryKept
  <2>3. PICK r \in Requests:
           /\ Present(pending[r]) /\ pending[r].val = [rev |-> n, rules |-> log[n]]
           /\ \A c \in Clients: proc[c].call \in {"reject"} => proc[c].req # r
    BY <2>2 DEF OwnerInv, Ownership, ActivePending, Kept
  <2>4. ASSUME r = proc[p].req, MayRemove(p) PROVE FALSE
    <3>1. RuleSetOf(p) = [rev |-> n, rules |-> log[n]]
      BY <2>3, <2>4, OwnerHas DEF MayRemove
    <3>2. proc[p].rev = n /\ proc[p].rules = log[n]
      BY <3>1 DEF RuleSetOf
    <3>3. ~Passed(RuleSetOf(p))
      BY <3>1 DEF Passed
    <3>4. QED
      BY <2>3, <2>4, <3>2, <3>3 DEF MayRemove
  <2>5. pending'[r] = pending[r]
    BY <2>4
  <2>6. ASSUME NEW c \in Clients, proc'[c].call \in {"reject"} PROVE proc'[c].req # r
    BY <2>3, <2>6
  <2>7. QED
    BY <2>3, <2>5, <2>6 DEF Kept
<1>7. QED
  BY <1>2, <1>3, <1>4, <1>5, <1>6 DEF Ownership

\* A process is answered: it owns nothing any more.
LEMMA AnswerDisowns ==
    ASSUME TypeOK, NEW p \in Procs, NEW code \in Answers, Answer(p, code)
    PROVE  /\ ~Owns(p)' /\ proc'[p].call \notin {"reject", "discard"}
           /\ \A q \in Procs \ {p}: proc'[q] = proc[q]
  BY AnswerEffect DEF Owns, OwnerCalls, Calls, ApplyCalls, FinishCalls, StartCalls

LEMMA AnswerOwners ==
    ASSUME OwnerInv, NEW p \in Procs, NEW code \in Answers, Answer(p, code),
           log' = log, HistoryKept, delayed' = delayed,
           \A r \in Requests: pending'[r] = pending[r] \/ (r = proc[p].req /\ MayRemove(p))
    PROVE  Ownership'
  BY AnswerDisowns, OwnerMoves DEF OwnerInv, IInv

\* A process goes on to another call and leaves all pending records alone.
LEMMA GoToOwners ==
    ASSUME OwnerInv, NEW p \in Procs, NEW call, GoTo(p, call), call \notin {"reject", "discard"},
           call \in OwnerCalls => Owns(p),
           log' = log, HistoryKept, delayed' = delayed, pending' = pending
    PROVE  Ownership'
<1>1. /\ proc'[p].call = call /\ proc'[p].req = proc[p].req
      /\ RuleSetOf(p)' = RuleSetOf(p) /\ \A q \in Procs \ {p}: proc'[q] = proc[q]
  BY GoToEffect DEF OwnerInv, IInv, RuleSetOf
<1>2. QED
  BY <1>1, OwnerMoves DEF Owns

-------------------------------------------------------------------------------
(***************************************************************************)
(* Every action keeps the owners of pending records                        *)
(***************************************************************************)

\* A slot takes a new request: nothing is put yet.
LEMMA FreshOwners ==
    ASSUME OwnerInv, NEW c \in Clients, NEW s, proc' = [proc EXCEPT ![c] = s],
           s.call \notin OwnerCalls, UNCHANGED <<log, delayed, store>>
    PROVE  Ownership'
<1>1. /\ proc'[c] = s /\ c \in Procs /\ \A q \in Procs \ {c}: proc'[q] = proc[q]
  BY DEF OwnerInv, IInv, TypeOK
<1>2. HistoryKept /\ ~Owns(c)'
  BY <1>1 DEF HistoryKept, store, Owns
<1>3. QED
  BY <1>1, <1>2, OwnerMoves DEF store, OwnerCalls

LEMMA BeginOwners ==
    ASSUME OwnerInv, NEW c \in Clients, Begin(c)
    PROVE  Ownership'
<1>1. UNCHANGED <<log, delayed, store>>
  BY DEF Begin, BeginApply, BeginRestore, BeginCurrent
<1>2. ASSUME NEW r, NEW rev, NEW rules, StartApply(c, r, rev, rules) PROVE Ownership'
  BY <1>1, <1>2, FreshOwners DEF StartApply, Fresh, OwnerCalls
<1>3. ASSUME NEW code, proc' = [proc EXCEPT ![c] = Answered(code)] PROVE Ownership'
  BY <1>1, <1>3, FreshOwners DEF Answered, Fresh, OwnerCalls
<1>4. ASSUME NEW rev, NEW rules,
             proc' = [proc EXCEPT ![c] = Fresh("readRevision", "none", NoValue, rev, rules)]
      PROVE  Ownership'
  BY <1>1, <1>4, FreshOwners DEF Fresh, OwnerCalls
<1>5. CASE BeginCurrent(c)
  BY <1>3, <1>4, <1>5 DEF BeginCurrent
<1>6. CASE \E r \in Requests: BeginApply(c, r) \/ BeginRestore(c, r)
  BY <1>2, <1>3, <1>6 DEF BeginApply, BeginRestore
<1>7. QED
  BY <1>5, <1>6 DEF Begin

\* A record is put where none is, so nobody owned one there.
LEMMA PutPendingOwners ==
    ASSUME OwnerInv, NEW c \in Clients, PutPending(c)
    PROVE  Ownership'
<1>1. /\ proc[c].call = "putPending" /\ ~Owns(c) /\ c \in Procs /\ TypeOK
      /\ UNCHANGED <<log, delayed, history, head, server, queue>>
  BY DEF PutPending, At, Owns, OwnerCalls, OwnerInv, IInv
<1>2. HistoryKept /\ proc[c].req \in Requests
  BY <1>1 DEF HistoryKept, OwnerInv, IInv, Prepared, HasArguments, ApplyCalls
<1>3. CASE ~Matches(pending[proc[c].req], 0)
  <2>1. GoTo(c, "getPending") /\ pending' = pending
    BY <1>3 DEF PutPending
  <2>2. QED
    BY <1>1, <1>2, <2>1, GoToOwners DEF OwnerCalls
<1>4. CASE Matches(pending[proc[c].req], 0)
  <2> PICK new \in Requests: new = proc[c].req
    BY <1>2
  <2>1. pending[new].ver = 0 /\ ~Present(pending[new])
    BY <1>4 DEF Matches, Unchecked, Present
  <2>2. pending' = [pending EXCEPT ![new] = Written(pending[new], RuleSetOf(c))] /\ GoTo(c, "core")
    BY <1>4 DEF PutPending
  <2>3. pending'[new] = [ver |-> 1, val |-> RuleSetOf(c)]
    BY <1>1, <2>1, <2>2 DEF TypeOK, Written
  <2>4. \A r \in Requests: Present(pending[r]) => pending'[r] = pending[r]
    BY <1>1, <2>1, <2>2 DEF TypeOK
  <2>5. /\ proc'[c].call = "core" /\ proc'[c].req = new /\ RuleSetOf(c)' = RuleSetOf(c)
        /\ \A q \in Procs \ {c}: proc'[q] = proc[q]
    BY <1>1, <2>2, GoToEffect DEF RuleSetOf
  <2>6. ASSUME NEW q \in Procs, q # c, Owns(q)'
        PROVE  /\ Owns(q) /\ proc'[q].req = proc[q].req /\ RuleSetOf(q)' = RuleSetOf(q)
               /\ Present(pending[proc[q].req]) /\ proc[q].req \in Requests
               /\ pending[proc[q].req].val = RuleSetOf(q)
               /\ proc[q].req # new
    <3>1. Owns(q) /\ proc'[q].req = proc[q].req /\ RuleSetOf(q)' = RuleSetOf(q)
      BY <2>5, <2>6 DEF Owns, RuleSetOf
    <3>2. QED
      BY <2>1, <3>1, OwnerHas
  <2>7. OwnsPending'
    <3> SUFFICES ASSUME NEW q \in Procs, Owns(q)'
                 PROVE  Present(pending'[proc'[q].req]) /\ pending'[proc'[q].req].val = RuleSetOf(q)'
      BY DEF OwnsPending
    <3>1. CASE q = c
      BY <2>3, <2>5, <3>1 DEF Present
    <3>2. CASE q # c
      BY <2>4, <2>6, <3>2
    <3>3. QED
      BY <3>1, <3>2
  <2>8. OneOwner'
    BY <2>5, <2>6 DEF OneOwner, OwnerInv, Ownership
  <2>9. DiscardsPassed'
    BY <1>1, <2>5 DEF OwnerInv, Ownership, DiscardsPassed, Passed, At, RuleSetOf
  <2>10. ASSUME NEW m, NEW calls, Kept(m, calls), calls \in {OwnerCalls, {"reject"}}
         PROVE  Kept(m, calls)'
    <3>1. PICK r \in Requests:
             /\ Present(pending[r]) /\ pending[r].val = m
             /\ \A d \in Clients: proc[d].call \in calls => proc[d].req # r
      BY <2>10 DEF Kept
    <3>2. r # new /\ pending'[r] = pending[r]
      BY <2>1, <2>4, <3>1
    <3>3. ASSUME NEW d \in Clients, proc'[d].call \in calls PROVE proc'[d].req # r
      BY <2>5, <3>1, <3>2, <3>3
    <3>4. QED
      BY <3>1, <3>2, <3>3 DEF Kept
  <2>11. DelayedPending'
    BY <1>1, <2>10 DEF OwnerInv, Ownership, DelayedPending
  <2>12. ActivePending'
    BY <1>1, <2>10 DEF OwnerInv, Ownership, ActivePending
  <2>13. QED
    BY <2>7, <2>8, <2>9, <2>11, <2>12 DEF Ownership
<1>5. QED
  BY <1>3, <1>4

\* Two calls never read the same time, so the record of another is refused.
LEMMA GetPendingOwners ==
    ASSUME OwnerInv, ~TimesCoincide, NEW c \in Clients, GetPending(c)
    PROVE  Ownership'
<1>1. UNCHANGED <<log, delayed, store>> /\ c \in Procs /\ HistoryKept
  BY DEF GetPending, HistoryKept, store
<1>2. PICK code \in {"reused", "not_found"}: Answer(c, code)
  BY DEF GetPending
<1>3. QED
  BY <1>1, <1>2, AnswerOwners DEF Answers, store

LEMMA RejectApplyOwners ==
    ASSUME OwnerInv, NEW c \in Clients, RejectApply(c)
    PROVE  Ownership'
<1>1. /\ c \in Procs /\ proc[c].call = "reject" /\ Owns(c) /\ TryDeletePending(c)
      /\ UNCHANGED <<log, delayed, history, head>> /\ Answer(c, proc[c].answer)
  BY DEF RejectApply, At, Owns, OwnerCalls
<1>2. proc[c].answer \in Answers
  BY <1>1 DEF OwnerInv, IInv, Prepared, HasArguments, Answers
<1>3. MayRemove(c)
  BY <1>1, <1>2, AnswerDisowns DEF MayRemove, OwnerInv, IInv
<1>4. \A r \in Requests \ {proc[c].req}: pending'[r] = pending[r]
  BY <1>1, OwnerHas, DeleteRemoves DEF OwnerInv
<1>5. HistoryKept
  BY <1>1 DEF HistoryKept
<1>6. QED
  BY <1>1, <1>2, <1>3, <1>4, <1>5, AnswerOwners

LEMMA DiscardOwners ==
    ASSUME OwnerInv, Discard
    PROVE  Ownership'
<1>1. /\ Startup \in Procs /\ proc[Startup].call = "discard" /\ Owns(Startup)
      /\ TryDeletePending(Startup) /\ At(Startup, "discard")
      /\ UNCHANGED <<log, delayed, history, head>> /\ Answer(Startup, "ok") /\ "ok" \in Answers
  BY DEF Discard, At, Owns, OwnerCalls, TryDeletePending, Answers
<1>2. MayRemove(Startup)
  BY <1>1, AnswerDisowns DEF MayRemove, OwnerInv, IInv, Ownership, DiscardsPassed
<1>3. \A r \in Requests \ {proc[Startup].req}: pending'[r] = pending[r]
  BY <1>1, OwnerHas, DeleteRemoves DEF OwnerInv
<1>4. HistoryKept
  BY <1>1 DEF HistoryKept
<1>5. QED
  BY <1>1, <1>2, <1>3, <1>4, AnswerOwners

LEMMA DropPendingOwners ==
    ASSUME OwnerInv, NEW p \in Procs, DropPending(p)
    PROVE  Ownership'
<1>1. /\ proc[p].call = "dropPending" /\ Owns(p) /\ TryDeletePending(p)
      /\ UNCHANGED <<log, delayed, history, head>> /\ GoTo(p, "readHead")
  BY DEF DropPending, At, Owns, OwnerCalls
<1>2. /\ proc'[p].call = "readHead" /\ ~Owns(p)' /\ \A q \in Procs \ {p}: proc'[q] = proc[q]
  BY <1>1, GoToEffect DEF OwnerInv, IInv, Owns, OwnerCalls
<1>3. proc[p].rev <= Len(log) /\ Present(history[proc[p].rev])
  BY <1>1 DEF OwnerInv, IInv, Prepared, HasCommitted, HasSeenHead, FinishCalls
<1>4. MayRemove(p)
  BY <1>1, <1>2, <1>3 DEF MayRemove
<1>5. \A r \in Requests \ {proc[p].req}: pending'[r] = pending[r]
  BY <1>1, OwnerHas, DeleteRemoves DEF OwnerInv
<1>6. HistoryKept
  BY <1>1 DEF HistoryKept
<1>7. QED
  BY <1>1, <1>2, <1>4, <1>5, <1>6, OwnerMoves

\* The transaction deletes the record and records its revision at once.
LEMMA CommitOwners ==
    ASSUME OwnerInv, NEW p \in Procs, Commit(p)
    PROVE  Ownership'
<1>1. /\ proc[p].call = "commit" /\ Owns(p) /\ UNCHANGED <<log, delayed>> /\ TypeOK
      /\ Answer(p, CommitVerdict(p)) /\ CommitVerdict(p) \in Answers
  BY DEF Commit, CommitVerdict, At, Owns, OwnerCalls, Answers, OwnerInv, IInv
<1>2. CASE CommitVerdict(p) # "ok"
  <2>1. pending' = pending /\ HistoryKept
    BY <1>2 DEF Commit, HistoryKept, store
  <2>2. QED
    BY <1>1, <2>1, AnswerOwners
<1>3. CASE CommitVerdict(p) = "ok"
  <2>1. /\ history' = [history EXCEPT ![proc[p].rev] = Written(history[proc[p].rev], proc[p].rules)]
        /\ pending' = [pending EXCEPT ![proc[p].req] = Absent]
        /\ Matches(history[proc[p].rev], 0)
    BY <1>3 DEF Commit, CommitVerdict
  <2>2. /\ proc[p].rev \in Revisions /\ proc[p].rules \in Rules
        /\ proc[p].rev <= Len(log) /\ log[proc[p].rev] = proc[p].rules
    BY <1>1, OwnerHas DEF OwnerInv, IInv, Prepared, HasCommitted, FinishCalls
  <2>3. HistoryKept /\ Present(history'[proc[p].rev])
    BY <1>1, <2>1, <2>2, RecordEffect DEF HistoryKept, OwnerInv, IInv
  <2>4. MayRemove(p)
    BY <1>1, <2>2, <2>3, AnswerDisowns DEF MayRemove
  <2>5. \A r \in Requests \ {proc[p].req}: pending'[r] = pending[r]
    BY <1>1, <2>1 DEF TypeOK
  <2>6. QED
    BY <1>1, <2>3, <2>4, <2>5, AnswerOwners
<1>4. QED
  BY <1>2, <1>3

\* The calls of finishApply, writeHead and Current that leave pending records alone.
LEMMA ReadsOwners ==
    ASSUME OwnerInv, NEW p \in Procs,
           GetRevision(p) \/ GetHead(p) \/ ReadHead(p) \/ PutHead(p)
    PROVE  Ownership'
<1>1. UNCHANGED <<log, delayed, pending, history>> /\ HistoryKept /\ proc[p] \in Local /\ TypeOK
  BY DEF GetRevision, GetHead, ReadHead, PutHead, store, HistoryKept, OwnerInv, IInv, TypeOK
<1>2. ASSUME NEW code \in {"ok", "conflict"}, Answer(p, code) PROVE Ownership'
  BY <1>1, <1>2, AnswerOwners DEF Answers
<1>3. ASSUME NEW call \in {"dropPending", "getHead"}, GoTo(p, call), proc[p].call = "getRevision"
      PROVE  Ownership'
  BY <1>1, <1>3, GoToOwners DEF Owns, OwnerCalls
<1>4. CASE GetRevision(p)
  BY <1>2, <1>3, <1>4 DEF GetRevision, At
<1>5. ASSUME NEW s, proc' = [proc EXCEPT ![p] = s], s.call \notin {"reject", "discard"},
             s.req = proc[p].req, s.rev = proc[p].rev, s.rules = proc[p].rules,
             s.call \in OwnerCalls => Owns(p)
      PROVE  Ownership'
  <2>1. proc'[p] = s /\ \A q \in Procs \ {p}: proc'[q] = proc[q]
    BY <1>1, <1>5 DEF TypeOK
  <2>2. RuleSetOf(p)' = RuleSetOf(p)
    BY <1>5, <2>1 DEF RuleSetOf
  <2>3. QED
    BY <1>1, <1>5, <2>1, <2>2, OwnerMoves DEF Owns
<1>6. CASE GetHead(p)
  <2>1. CASE Answer(p, "conflict")
    BY <1>2, <2>1
  <2>2. CASE ~Answer(p, "conflict")
    <3> DEFINE lead == Present(head) => head.val.rev < proc[p].rev
               seen == IF lead THEN head.ver ELSE 0
               s == [proc[p] EXCEPT !.call = "commit", !.lead = lead, !.seen = seen]
    <3>1. proc' = [proc EXCEPT ![p] = s] /\ Owns(p)
      BY <1>6, <2>2 DEF GetHead, At, Owns, OwnerCalls
    <3>2. s.call = "commit" /\ s.req = proc[p].req /\ s.rev = proc[p].rev /\ s.rules = proc[p].rules
      BY <1>1 DEF Local
    <3>3. QED
      BY <1>5, <3>1, <3>2
  <2>3. QED
    BY <2>1, <2>2
<1>7. CASE ReadHead(p)
  <2>1. ASSUME proc' = [proc EXCEPT ![p].call = "putHead", ![p].seen = head.ver] PROVE Ownership'
    <3> DEFINE s == [proc[p] EXCEPT !.call = "putHead", !.seen = head.ver]
    <3>1. proc' = [proc EXCEPT ![p] = s]
      BY <2>1
    <3>2. s.call = "putHead" /\ s.req = proc[p].req /\ s.rev = proc[p].rev /\ s.rules = proc[p].rules
      BY <1>1 DEF Local
    <3>3. QED
      BY <1>5, <3>1, <3>2 DEF OwnerCalls
  <2>2. QED
    BY <1>2, <1>7, <2>1 DEF ReadHead
<1>8. CASE PutHead(p)
  BY <1>2, <1>8 DEF PutHead
<1>9. QED
  BY <1>4, <1>6, <1>7, <1>8

LEMMA CurrentOwners ==
    ASSUME OwnerInv, NEW c \in Clients, ReadRevision(c) \/ PutRevision(c)
    PROVE  Ownership'
<1>1. UNCHANGED <<log, delayed, pending>> /\ c \in Procs
  BY DEF ReadRevision, PutRevision, store
<1>2. HistoryKept
  BY RecordKeeps DEF ReadRevision, PutRevision, store, HistoryKept, OwnerInv
<1>3. ASSUME NEW call \in {"readHead", "putRevision"}, GoTo(c, call) PROVE Ownership'
  BY <1>1, <1>2, <1>3, GoToOwners DEF OwnerCalls
<1>4. ASSUME Answer(c, "conflict") PROVE Ownership'
  BY <1>1, <1>2, <1>4, AnswerOwners DEF Answers
<1>5. QED
  BY <1>3, <1>4 DEF ReadRevision, PutRevision

-------------------------------------------------------------------------------

\* Core may commit; the owners stay, or give up.
LEMMA LogOwners ==
    ASSUME OwnerInv, LogKept, pending' = pending, delayed' \subseteq delayed,
           \A p \in Procs: Owns(p)' =>
              Owns(p) /\ proc'[p].req = proc[p].req /\ RuleSetOf(p)' = RuleSetOf(p),
           At(Startup, "discard")' => At(Startup, "discard")
    PROVE  OwnsPending' /\ OneOwner' /\ DiscardsPassed' /\ DelayedPending'
<1>1. OwnsPending'
  BY OwnerHas DEF OwnsPending
<1>2. OneOwner'
  BY DEF OwnerInv, Ownership, OneOwner
<1>3. Len(log) \in Nat /\ Len(log') \in Nat /\ Len(log) <= Len(log')
  BY DEF LogKept, OwnerInv, IInv, TypeOK
<1>4. DiscardsPassed'
  <2> SUFFICES ASSUME At(Startup, "discard")' PROVE Passed(RuleSetOf(Startup))'
    BY DEF DiscardsPassed
  <2> DEFINE rev == proc[Startup].rev
             rules == proc[Startup].rules
  <2>1. At(Startup, "discard") /\ Owns(Startup) /\ Startup \in Procs
    BY DEF At, Owns, OwnerCalls
  <2>2. rev \in Revisions /\ rev <= Len(log) /\ (rev = Len(log) => log[rev] # rules)
    BY <2>1, OwnerHas DEF OwnerInv, Ownership, DiscardsPassed, Passed, RuleSetOf
  <2>3. Owns(Startup)'
    BY DEF At, Owns, OwnerCalls
  <2>4. proc'[Startup].rev = rev /\ proc'[Startup].rules = rules
    BY <2>1, <2>3 DEF RuleSetOf
  <2>5. rev <= Len(log') /\ (rev = Len(log') => log'[rev] # rules)
    BY <1>3, <2>2 DEF LogKept
  <2>6. QED
    BY <2>4, <2>5 DEF Passed, RuleSetOf
<1>5. DelayedPending'
  <2> SUFFICES ASSUME NEW m \in delayed', Len(log') < m.rev PROVE Kept(m, OwnerCalls)'
    BY DEF DelayedPending
  <2>1. m.rev \in Nat
    BY DEF OwnerInv, IInv, TypeOK, RuleSet
  <2>2. Kept(m, OwnerCalls)
    BY <1>3, <2>1 DEF OwnerInv, Ownership, DelayedPending
  <2>3. \A c \in Clients: proc'[c].call \in OwnerCalls =>
           proc[c].call \in OwnerCalls /\ proc'[c].req = proc[c].req
    BY DEF Owns
  <2>4. QED
    BY <2>2, <2>3 DEF Kept
<1>6. QED
  BY <1>1, <1>2, <1>4, <1>5

\* What Core activates anew is pending.
LEMMA CommitActivates ==
    ASSUME OwnerInv, NEW rev \in Revisions, NEW rules, CoreApplies(rev, rules),
           CoreVerdict(rev, rules) = "commit",
           Kept([rev |-> rev, rules |-> rules], {"reject"})'
    PROVE  ActivePending'
<1>1. log' = Append(log, rules) /\ Len(log) = rev - 1 /\ rules \in Rules
  BY DEF CoreApplies, CoreVerdict, IInv
<1>2. Len(log') = rev /\ log'[rev] = rules
  BY <1>1 DEF OwnerInv, IInv, TypeOK
<1>3. QED
  BY <1>2 DEF ActivePending

LEMMA CoreAnswersOwners ==
    ASSUME OwnerInv, NEW p \in Procs, CoreAnswers(p), LogKept
    PROVE  Ownership'
<1> PICK rev \in Revisions, rules \in Rules: rev = proc[p].rev /\ rules = proc[p].rules
  BY DEF CoreAnswers, At, OwnerInv, IInv, Prepared, HasArguments, Calls, ApplyCalls
<1> DEFINE verdict == CoreVerdict(rev, rules)
<1>1. /\ proc[p].call = "core" /\ Owns(p) /\ UNCHANGED <<delayed, pending, history, head>>
      /\ TypeOK /\ CoreApplies(rev, rules)
  BY DEF CoreAnswers, At, Owns, OwnerCalls, OwnerInv, IInv, store
<1>2. /\ proc[p].req \in Requests
      /\ Present(pending[proc[p].req]) /\ pending[proc[p].req].val = [rev |-> rev, rules |-> rules]
  BY <1>1, OwnerHas DEF RuleSetOf
<1>3. HistoryKept
  BY <1>1 DEF HistoryKept
<1>4. verdict # "commit" => log' = log
  BY <1>1 DEF CoreApplies
<1>5. CASE verdict \in {"same", "commit"}
  <2>1. GoTo(p, "getRevision")
    BY <1>5 DEF CoreAnswers
  <2>2. /\ proc'[p].call = "getRevision" /\ proc'[p].req = proc[p].req
        /\ RuleSetOf(p)' = RuleSetOf(p) /\ \A q \in Procs \ {p}: proc'[q] = proc[q]
    BY <1>1, <2>1, GoToEffect DEF RuleSetOf
  <2>3. CASE verdict = "same"
    BY <1>1, <1>3, <1>4, <2>1, <2>3, GoToOwners DEF OwnerCalls
  <2>4. CASE verdict = "commit"
    <3>1. ASSUME NEW q \in Procs, Owns(q)'
          PROVE  Owns(q) /\ proc'[q].req = proc[q].req /\ RuleSetOf(q)' = RuleSetOf(q)
      BY <1>1, <2>2, <3>1 DEF Owns, RuleSetOf
    <3>2. At(Startup, "discard")' => At(Startup, "discard")
      BY <2>2 DEF At
    <3>3. OwnsPending' /\ OneOwner' /\ DiscardsPassed' /\ DelayedPending'
      BY <1>1, <3>1, <3>2, LogOwners
    <3> PICK r \in Requests: r = proc[p].req
      BY <1>2
    <3>4. ASSUME NEW c \in Clients, proc'[c].call \in {"reject"} PROVE proc'[c].req # r
      <4>1. c # p /\ proc'[c] = proc[c] /\ Owns(c)
        BY <2>2, <3>4 DEF Owns, OwnerCalls
      <4>2. QED
        BY <1>1, <4>1 DEF OwnerInv, Ownership, OneOwner
    <3>5. Present(pending'[r]) /\ pending'[r].val = [rev |-> rev, rules |-> rules]
      BY <1>1, <1>2
    <3>6. Kept([rev |-> rev, rules |-> rules], {"reject"})'
      BY <3>4, <3>5 DEF Kept
    <3>7. ActivePending'
      BY <1>1, <1>2, <2>4, <3>6, CommitActivates
    <3>8. QED
      BY <3>3, <3>7 DEF Ownership
  <2>5. QED
    BY <1>5, <2>3, <2>4
<1>6. CASE verdict \in {"conflict", "invalid"} /\ p # Startup
  <2>1. proc' = [proc EXCEPT ![p].call = "reject", ![p].answer = verdict]
    BY <1>6 DEF CoreAnswers
  <2>2. /\ proc'[p].call = "reject" /\ proc'[p].req = proc[p].req
        /\ RuleSetOf(p)' = RuleSetOf(p) /\ \A q \in Procs \ {p}: proc'[q] = proc[q]
    BY <1>1, <2>1 DEF TypeOK, Local, RuleSetOf
  <2>3. ASSUME NEW q \in Procs, Owns(q)'
        PROVE  Owns(q) /\ proc'[q].req = proc[q].req /\ RuleSetOf(q)' = RuleSetOf(q)
    BY <1>1, <2>2, <2>3 DEF Owns, RuleSetOf
  <2>4. At(Startup, "discard")' => At(Startup, "discard")
    BY <1>6, <2>2 DEF At
  <2>5. OwnsPending' /\ OneOwner' /\ DiscardsPassed' /\ DelayedPending'
    BY <1>1, <2>3, <2>4, LogOwners
  <2>6. ActivePending'
    <3> DEFINE n == Len(log)
    <3> SUFFICES ASSUME n > 0, ~Present(history[n])
                 PROVE  Kept([rev |-> n, rules |-> log[n]], {"reject"})'
      BY <1>1, <1>4, <1>6 DEF ActivePending
    <3>1. PICK r \in Requests:
             /\ Present(pending[r]) /\ pending[r].val = [rev |-> n, rules |-> log[n]]
             /\ \A c \in Clients: proc[c].call \in {"reject"} => proc[c].req # r
      BY DEF OwnerInv, Ownership, ActivePending, Kept
    <3>2. r # proc[p].req
      <4>1. ~(Len(log) = rev /\ rev > 0 /\ log[rev] = rules)
        BY <1>6 DEF CoreVerdict
      <4>2. QED
        BY <1>2, <3>1, <4>1
    <3>3. ASSUME NEW c \in Clients, proc'[c].call \in {"reject"} PROVE proc'[c].req # r
      BY <2>2, <3>1, <3>2, <3>3
    <3>4. Present(pending'[r]) /\ pending'[r].val = [rev |-> n, rules |-> log[n]]
      BY <1>1, <3>1
    <3>5. log' = log
      BY <1>4, <1>6
    <3>6. QED
      BY <3>3, <3>4, <3>5 DEF Kept
  <2>7. QED
    BY <2>5, <2>6 DEF Ownership
<1>7. CASE verdict \in {"conflict", "invalid"} /\ p = Startup
  <2>1. Answer(p, verdict) /\ verdict \in Answers
    BY <1>7 DEF CoreAnswers, Answers
  <2>2. QED
    BY <1>1, <1>3, <1>4, <1>7, <2>1, AnswerOwners
<1>8. QED
  BY <1>5, <1>6, <1>7 DEF CoreAnswers

LEMMA DelayedArrivesOwners ==
    ASSUME OwnerInv, DelayedArrives, LogKept
    PROVE  Ownership'
<1>1. PICK m \in delayed: /\ CoreApplies(m.rev, m.rules)
                          /\ delayed' = delayed \ {m}
                          /\ UNCHANGED <<store, server, queue, proc>>
  BY DEF DelayedArrives
<1>2. m \in RuleSet /\ m = [rev |-> m.rev, rules |-> m.rules]
  BY DEF OwnerInv, IInv, TypeOK, RuleSet
<1> PICK rev \in Revisions, rules \in Rules: rev = m.rev /\ rules = m.rules
  BY <1>2 DEF RuleSet
<1>3. OwnsPending' /\ OneOwner' /\ DiscardsPassed' /\ DelayedPending'
  BY <1>1, LogOwners DEF store, Owns, RuleSetOf, At
<1>4. ASSUME NEW wanted, NEW calls, Kept(wanted, calls), calls \in {OwnerCalls, {"reject"}}
      PROVE  Kept(wanted, {"reject"})'
  BY <1>1, <1>4 DEF Kept, store, OwnerCalls
<1>5. CASE CoreVerdict(rev, rules) = "commit"
  <2>1. Len(log) < m.rev
    BY <1>5 DEF CoreVerdict
  <2>2. Kept([rev |-> rev, rules |-> rules], OwnerCalls)
    BY <1>2, <2>1 DEF OwnerInv, Ownership, DelayedPending
  <2>3. Kept([rev |-> rev, rules |-> rules], {"reject"})'
    <3>1. PICK wanted: wanted = [rev |-> rev, rules |-> rules]
      OBVIOUS
    <3>2. QED
      BY <1>4, <2>2, <3>1
  <2>4. QED
    BY <1>1, <1>3, <1>5, <2>3, CommitActivates DEF Ownership
<1>6. CASE CoreVerdict(rev, rules) # "commit"
  <2>1. log' = log
    BY <1>1, <1>6 DEF CoreApplies
  <2>2. ActivePending'
    BY <1>1, <2>1 DEF OwnerInv, Ownership, ActivePending, Kept, store
  <2>3. QED
    BY <1>3, <2>2 DEF Ownership
<1>7. QED
  BY <1>5, <1>6

LEMMA CancelOwners ==
    ASSUME OwnerInv, NEW p \in Procs, Cancel(p)
    PROVE  Ownership'
<1>1. /\ Answer(p, "canceled") /\ "canceled" \in Answers /\ UNCHANGED <<log, store>>
      /\ Abandon({p}) /\ TypeOK
  BY DEF Cancel, Answers, OwnerInv, IInv
<1>2. \A m \in delayed' \ delayed: proc[p].call = "core" /\ m = RuleSetOf(p)
  BY <1>1 DEF Abandon, At
<1>3. HistoryKept
  BY <1>1 DEF HistoryKept, store
<1>4. /\ ~Owns(p)' /\ proc'[p].call \notin {"reject", "discard"}
      /\ \A q \in Procs \ {p}: proc'[q] = proc[q]
  BY <1>1, AnswerDisowns
<1>5. QED
  BY <1>1, <1>2, <1>3, <1>4, OwnerMoves DEF store

LEMMA CrashOwners ==
    ASSUME OwnerInv, Crash
    PROVE  Ownership'
<1>1. /\ proc' = [p \in Procs |-> Blank] /\ UNCHANGED <<log, store>> /\ Abandon(Procs)
  BY DEF Crash
<1>2. \A p \in Procs: proc'[p].call = "idle" /\ ~Owns(p)'
  BY <1>1 DEF Blank, Fresh, Owns, OwnerCalls
<1>3. OwnsPending' /\ OneOwner' /\ DiscardsPassed'
  BY <1>2 DEF OwnsPending, OneOwner, DiscardsPassed, At
<1>4. ASSUME NEW r \in Requests, NEW wanted, NEW calls, Present(pending[r]),
             pending[r].val = wanted, calls \in {OwnerCalls, {"reject"}}
      PROVE  Kept(wanted, calls)'
  <2>1. \A c \in Clients: proc'[c].call \notin calls
    BY <1>2, <1>4 DEF OwnerCalls
  <2>2. pending'[r] = pending[r]
    BY <1>1 DEF store
  <2>3. QED
    BY <1>4, <2>1, <2>2 DEF Kept
<1>5. DelayedPending'
  <2> SUFFICES ASSUME NEW m \in delayed', Len(log) < m.rev PROVE Kept(m, OwnerCalls)'
    BY <1>1 DEF DelayedPending
  <2>1. CASE m \in delayed
    BY <1>4, <2>1 DEF OwnerInv, Ownership, DelayedPending, Kept
  <2>2. CASE m \notin delayed
    <3>1. PICK p \in Procs: proc[p].call = "core" /\ m = RuleSetOf(p)
      BY <1>1, <2>2 DEF Abandon, At
    <3>2. proc[p].req \in Requests /\ Present(pending[proc[p].req]) /\ pending[proc[p].req].val = m
      BY <3>1, OwnerHas DEF Owns, OwnerCalls
    <3>3. QED
      BY <1>4, <3>2
  <2>3. QED
    BY <2>1, <2>2
<1>6. ActivePending'
  <2> SUFFICES ASSUME Len(log) > 0, ~Present(history[Len(log)])
               PROVE  Kept([rev |-> Len(log), rules |-> log[Len(log)]], {"reject"})'
    BY <1>1 DEF ActivePending, store
  <2>1. PICK r \in Requests:
           Present(pending[r]) /\ pending[r].val = [rev |-> Len(log), rules |-> log[Len(log)]]
    BY DEF OwnerInv, Ownership, ActivePending, Kept
  <2>2. /\ Present(pending'[r]) /\ pending'[r].val = [rev |-> Len(log'), rules |-> log'[Len(log')]]
        /\ \A c \in Clients: proc'[c].call \notin {"reject"}
    BY <1>1, <1>2, <2>1 DEF store
  <2>3. QED
    BY <2>2 DEF Kept
<1>7. QED
  BY <1>3, <1>5, <1>6 DEF Ownership

\* The start takes up a record when no handler is there to own one.
LEMMA RecoverNextOwners ==
    ASSUME OwnerInv, RecoverNext
    PROVE  Ownership'
<1>1. PICK r \in queue:
        LET wanted == pending[r].val IN
            \/ /\ RecoveryStep(wanted) # "conflict"
               /\ proc' = [proc EXCEPT ![Startup] =
                              Fresh(RecoveryStep(wanted), "none", r, wanted.rev, wanted.rules)]
               /\ UNCHANGED <<server, queue>>
            \/ /\ RecoveryStep(wanted) = "conflict"
               /\ Answer(Startup, "conflict")
  BY DEF RecoverNext
<1> DEFINE wanted == pending[r].val
           call == RecoveryStep(wanted)
<1>2. /\ UNCHANGED <<log, delayed, store>> /\ TypeOK /\ r \in Requests /\ Startup \in Procs
      /\ server = "starting" /\ proc[Startup].call = "idle" /\ "conflict" \in Answers
  BY DEF RecoverNext, OwnerInv, IInv, TypeOK, At, Answers
<1>3. \A c \in Clients: ~Owns(c)
  BY <1>2 DEF OwnerInv, IInv, StartIsAlone, Owns, OwnerCalls, Calls, ApplyCalls, FinishCalls, StartCalls
<1>4. Present(pending[r])
  BY <1>2 DEF OwnerInv, IInv, StartIsAlone, HeadCalls
<1>5. wanted \in RuleSet
  BY <1>2, <1>4 DEF TypeOK, RecordOf, Present, Absent
<1>6. CASE call = "conflict" /\ Answer(Startup, "conflict")
  <2>1. HistoryKept
    BY <1>2 DEF HistoryKept, store
  <2>2. QED
    BY <1>2, <1>6, <2>1, AnswerOwners DEF store
<1>7. CASE call # "conflict"
           /\ proc' = [proc EXCEPT ![Startup] = Fresh(call, "none", r, wanted.rev, wanted.rules)]
  <2>1. /\ proc'[Startup] = Fresh(call, "none", r, wanted.rev, wanted.rules)
        /\ \A c \in Clients: proc'[c] = proc[c]
    BY <1>2, <1>7 DEF TypeOK
  <2>2. /\ proc'[Startup].call = call /\ proc'[Startup].req = r
        /\ RuleSetOf(Startup)' = wanted
    BY <1>5, <2>1 DEF Fresh, RuleSetOf, RuleSet
  <2>3. \A c \in Clients: ~Owns(c)'
    BY <1>3, <2>1 DEF Owns
  <2>4. OwnsPending' /\ OneOwner'
    BY <1>2, <1>4, <2>2, <2>3 DEF OwnsPending, OneOwner, store
  <2>5. DiscardsPassed'
    <3> SUFFICES ASSUME call = "discard" PROVE Passed(RuleSetOf(Startup))'
      BY <2>2 DEF DiscardsPassed, At
    <3>1. Len(log) \in Nat /\ wanted.rev \in Nat
      BY <1>2, <1>5 DEF TypeOK, RuleSet
    <3>2. Passed(wanted)
      BY <3>1 DEF RecoveryStep, Passed
    <3>3. QED
      BY <1>2, <2>2, <3>2 DEF Passed
  <2>6. ASSUME NEW old, NEW calls, Kept(old, calls) PROVE Kept(old, calls)'
    BY <1>2, <2>1, <2>6 DEF Kept, store
  <2>7. DelayedPending'
    BY <1>2, <2>6 DEF OwnerInv, Ownership, DelayedPending
  <2>8. ActivePending'
    <3> PICK active: active = [rev |-> Len(log), rules |-> log[Len(log)]]
      OBVIOUS
    <3>1. Len(log) > 0 /\ ~Present(history[Len(log)]) => Kept(active, {"reject"})'
      BY <2>6 DEF OwnerInv, Ownership, ActivePending
    <3>2. QED
      BY <1>2, <3>1 DEF ActivePending, Kept, store
  <2>9. QED
    BY <2>4, <2>5, <2>7, <2>8 DEF Ownership
<1>8. QED
  BY <1>1, <1>6, <1>7

LEMMA NextOwnerInv ==
    ASSUME ~TimesCoincide
    PROVE  OwnerInv /\ [Next]_vars => OwnerInv'
<1> SUFFICES ASSUME OwnerInv, [Next]_vars PROVE OwnerInv'
  OBVIOUS
<1>1. IInv' /\ HistoryKept /\ LogKept /\ TypeOK
  BY NextIInv, HistoryStep, LogStep DEF OwnerInv, IInv
<1> SUFFICES Ownership'
  BY <1>1 DEF OwnerInv
<1>2. ASSUME NEW c \in Clients, Begin(c) PROVE Ownership'
  BY <1>2, BeginOwners
<1>3. ASSUME NEW c \in Clients, Handle(c) PROVE Ownership'
  BY <1>3, PutPendingOwners, GetPendingOwners, RejectApplyOwners, CurrentOwners DEF Handle
<1>4. ASSUME NEW p \in Procs, Proceed(p) PROVE Ownership'
  BY <1>1, <1>4, CoreAnswersOwners, ReadsOwners, DropPendingOwners, CommitOwners DEF Proceed
<1>5. ASSUME NEW p \in Procs, Cancel(p) PROVE Ownership'
  BY <1>5, CancelOwners
<1>6. CASE Restart \/ Serve
  <2>1. /\ Startup \in Procs /\ UNCHANGED <<log, delayed, pending>>
        /\ \A q \in Procs \ {Startup}: proc'[q] = proc[q]
        /\ proc'[Startup].call = "idle"
    BY <1>1, <1>6 DEF Restart, Serve, At, store, TypeOK, Blank, Fresh
  <2>2. ~Owns(Startup)'
    BY <2>1 DEF Owns, OwnerCalls
  <2>3. /\ proc'[Startup].call \notin {"reject", "discard"} /\ log' = log
        /\ \A r \in Requests: pending'[r] = pending[r]
        /\ \A m \in delayed' \ delayed: FALSE
    BY <2>1
  <2>4. QED
    BY <1>1, <2>1, <2>2, <2>3, OwnerMoves
<1>7. CASE RecoverNext \/ Discard
  BY <1>7, RecoverNextOwners, DiscardOwners
<1>8. CASE DelayedArrives \/ Crash
  BY <1>1, <1>8, DelayedArrivesOwners, CrashOwners
<1>9. CASE UNCHANGED vars
  <2>1. UNCHANGED <<log, delayed, pending, history, proc>>
    BY <1>9 DEF vars, store
  <2>2. OwnsPending' /\ OneOwner' /\ DiscardsPassed'
    BY <2>1 DEF OwnerInv, Ownership, OwnsPending, OneOwner, Owns, RuleSetOf, DiscardsPassed, At, Passed
  <2>3. DelayedPending' /\ ActivePending'
    BY <2>1 DEF OwnerInv, Ownership, DelayedPending, ActivePending, Kept
  <2>4. QED
    BY <2>2, <2>3 DEF Ownership
<1>10. QED
  BY <1>1, <1>2, <1>3, <1>4, <1>5, <1>6, <1>7, <1>8, <1>9 DEF Next

THEOREM OwnerInvariance ==
    ASSUME ~TimesCoincide
    PROVE  Spec => []OwnerInv
  BY InitOwnerInv, NextOwnerInv, PTL DEF Spec

\* Wherever handlers, losses and crashes leave an apply (Apply, finishApply), the rules
\* that Core has active are in the history or in a pending record, from which the next
\* start records them, provided that two calls of one request never read the same time:
\* samePending would take one for the other, and each would delete the other's record.
THEOREM ActiveRulesStayRecoverable ==
    ASSUME ~TimesCoincide
    PROVE  Spec => []ActiveRulesRecoverable
<1>1. OwnerInv => ActiveRulesRecoverable
  BY DEF OwnerInv, Ownership, ActivePending, Kept, ActiveRulesRecoverable
<1>2. QED
  BY <1>1, OwnerInvariance, PTL

===============================================================================
