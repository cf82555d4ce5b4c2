---------------------------- MODULE SyncRulesProofs ----------------------------
(***************************************************************************)
(* Theorems about SyncRules, for any number of handlers, request IDs, rule *)
(* sets and revisions.                                                     *)
(***************************************************************************)
EXTENDS SyncRules, TLAPS

(***************************************************************************)
(* What a process has established when it is about to make a call.  The    *)
(* history and the head are written from local copies of values that were  *)
(* read some calls earlier, so their correctness rests on these facts      *)
(* still being true when the write happens.                                *)
(***************************************************************************)

\* The request, the revision and the rules that the call is about are known.
HasArguments(p) ==
    /\ proc[p].call \in Calls => proc[p].rev \in Revisions /\ proc[p].rules \in Rules
    /\ proc[p].call \in ApplyCalls \cup FinishCalls \cup StartCalls => proc[p].req \in Requests
    /\ proc[p].call = "reject" => proc[p].answer \in {"conflict", "invalid"}

\* From Core's answer on, Core has committed these rules as this revision.
HasCommitted(p) ==
    proc[p].call \in FinishCalls \cup HeadCalls \cup CurrentCalls =>
        proc[p].rev <= Len(log) /\ log[proc[p].rev] = proc[p].rules

\* The head is only written for a revision that the history has, and if its
\* version is still the one that was read, it names an earlier revision.
HeadMayMove(p) ==
    proc[p].seen <= head.ver
    /\ (proc[p].seen = head.ver /\ Present(head) => head.val.rev < proc[p].rev)

HasSeenHead(p) ==
    /\ proc[p].call \in HeadCalls \cup {"dropPending"} => Present(history[proc[p].rev])
    /\ proc[p].call = "putHead" => HeadMayMove(p)
    /\ proc[p].call = "commit" =>
          IF proc[p].lead THEN HeadMayMove(p)
          ELSE Present(head) /\ head.val.rev >= proc[p].rev

Prepared(p) == HasArguments(p) /\ HasCommitted(p) /\ HasSeenHead(p)

\* While the start runs it is alone, and the records that it has listed are still
\* there, but for the one that it has just settled.
StartIsAlone ==
    /\ server # "up" => \A c \in Clients: proc[c].call \notin Calls
    /\ server # "starting" => queue = {} /\ proc[Startup].call \notin Calls
    /\ \A r \in queue:
        \/ Present(pending[r])
        \/ proc[Startup].call \in HeadCalls /\ proc[Startup].req = r

IInv ==
    /\ TypeOK
    /\ HistoryMatchesCore
    /\ HeadIsRecorded
    /\ \A p \in Procs: Prepared(p)
    /\ StartIsAlone

\* What the other processes may have done in the meantime.
Grows ==
    /\ Len(log) <= Len(log') /\ \A n \in 1 .. Len(log): log'[n] = log[n]
    /\ \A n \in Revisions: Present(history[n]) => history'[n] = history[n]
    /\ \/ head' = head
       \/ /\ head'.ver = head.ver + 1
          /\ Present(head) => head'.val.rev > head.val.rev

USE ConstantsAssumption DEF Procs, Revisions

-------------------------------------------------------------------------------

LEMMA InitIInv == Init => IInv
<1> SUFFICES ASSUME Init PROVE IInv
  OBVIOUS
<1>1. TypeOK
  BY DEF Init, TypeOK, RecordOf, Absent, Blank, Fresh, Local, Answers
<1>2. HistoryMatchesCore /\ HeadIsRecorded
  BY DEF Init, HistoryMatchesCore, HeadIsRecorded, Absent, Present
<1>3. ASSUME NEW p \in Procs PROVE Prepared(p)
  BY DEF Init, Blank, Fresh, Prepared, HasArguments, HasCommitted, HasSeenHead, Calls, ApplyCalls,
         FinishCalls, HeadCalls, CurrentCalls, StartCalls
<1>4. StartIsAlone
  BY DEF Init, Blank, Fresh, StartIsAlone, Calls, ApplyCalls,
         FinishCalls, HeadCalls, CurrentCalls, StartCalls
<1>5. QED
  BY <1>1, <1>2, <1>3, <1>4 DEF IInv

\* What a process that does not take the step has established stays true.
LEMMA OthersStayPrepared ==
    ASSUME TypeOK, TypeOK', Grows, NEW p \in Procs, Prepared(p), proc'[p] = proc[p]
    PROVE  Prepared(p)'
<1>1. HasArguments(p)'
  BY DEF Prepared, HasArguments
<1>2. HasCommitted(p)'
  <2> SUFFICES ASSUME proc[p].call \in FinishCalls \cup HeadCalls \cup CurrentCalls
               PROVE  proc[p].rev <= Len(log') /\ log'[proc[p].rev] = proc[p].rules
    BY DEF HasCommitted
  <2>1. proc[p].rev \in 1 .. Len(log) /\ log[proc[p].rev] = proc[p].rules
    BY DEF Prepared, HasCommitted, HasArguments, Calls
  <2>2. QED
    BY <2>1 DEF Grows, TypeOK
<1>3. HasSeenHead(p)'
  <2>1. head.ver \in Nat /\ head'.ver \in Nat
    BY DEF TypeOK, RecordOf, Absent
  <2>2. proc[p].seen \in Nat /\ proc[p].rev \in Nat
    BY DEF TypeOK, Local
  <2>3. Present(head) => head.val.rev \in Nat
    BY DEF TypeOK, RecordOf, Absent, RuleSet, Present
  <2>4. Present(head') => head'.val.rev \in Nat
    BY DEF TypeOK, RecordOf, Absent, RuleSet, Present
  <2>5. proc[p].call \in HeadCalls \cup {"dropPending"} => Present(history'[proc[p].rev])
    BY DEF Prepared, HasSeenHead, HasArguments, Grows, Calls, FinishCalls
  <2>6. HeadMayMove(p) => HeadMayMove(p)'
    BY <2>1, <2>2, <2>3, <2>4 DEF HeadMayMove, Grows, Present
  <2>7. Present(head) /\ head.val.rev >= proc[p].rev
            => Present(head') /\ head'.val.rev >= proc[p].rev
    BY <2>1, <2>2, <2>3, <2>4 DEF Grows, Present
  <2>8. QED
    BY <2>5, <2>6, <2>7 DEF Prepared, HasSeenHead
<1>4. QED
  BY <1>1, <1>2, <1>3 DEF Prepared

-------------------------------------------------------------------------------
(***************************************************************************)
(* The parts of a step that several actions share                          *)
(***************************************************************************)

LEMMA AnswerEffect ==
    ASSUME TypeOK, NEW p \in Procs, NEW code \in Answers, Answer(p, code)
    PROVE  /\ proc' \in [Procs -> Local]
           /\ \A q \in Procs \ {p}: proc'[q] = proc[q]
           /\ proc'[p].call \notin Calls
           /\ server' \in {"down", "starting", "up"}
           /\ queue' \subseteq Requests
           /\ p # Startup => UNCHANGED <<server, queue>>
           /\ p = Startup => \/ server' = server /\ queue' = queue \ {proc[p].req}
                             \/ server' = "down" /\ queue' = {}
<1>1. Answered(code) \in Local /\ Answered(code).call = "answered"
  BY DEF Answered, Fresh, Local, Answers
<1>2. Blank \in Local /\ Blank.call = "idle"
  BY DEF Blank, Fresh, Local
<1>3. "answered" \notin Calls /\ "idle" \notin Calls
  BY DEF Calls, ApplyCalls, FinishCalls, HeadCalls, CurrentCalls, StartCalls
<1>4. QED
  BY <1>1, <1>2, <1>3 DEF Answer, TypeOK

LEMMA CoreEffect ==
    ASSUME TypeOK, NEW rev \in Revisions, NEW rules \in Rules, CoreApplies(rev, rules)
    PROVE  /\ log' \in Seq(Rules) /\ Len(log') <= MaxRevision
           /\ Len(log) <= Len(log')
           /\ \A n \in 1 .. Len(log): log'[n] = log[n]
           /\ CoreVerdict(rev, rules) \in {"same", "commit"} =>
                 rev <= Len(log') /\ log'[rev] = rules
<1>1. log \in Seq(Rules) /\ Len(log) \in Nat /\ Len(log) <= MaxRevision
  BY DEF TypeOK
<1>2. CASE CoreVerdict(rev, rules) = "commit"
  <2>1. log' = Append(log, rules) /\ Len(log) = rev - 1
    BY <1>2 DEF CoreApplies, CoreVerdict
  <2>2. QED
    BY <1>1, <2>1
<1>3. CASE CoreVerdict(rev, rules) # "commit"
  <2>1. log' = log
    BY <1>3 DEF CoreApplies
  <2>2. CoreVerdict(rev, rules) = "same" => rev = Len(log) /\ log[rev] = rules
    BY DEF CoreVerdict
  <2>3. QED
    BY <1>1, <1>3, <2>1, <2>2
<1>4. QED
  BY <1>2, <1>3

\* A step that writes neither Core's log, nor the history, nor the head.
LEMMA QuietStep ==
    ASSUME IInv, UNCHANGED <<log, history, head>>
    PROVE  Grows /\ HistoryMatchesCore' /\ HeadIsRecorded'
<1>1. Len(log) \in Nat
  BY DEF IInv, TypeOK
<1>2. QED
  BY <1>1 DEF IInv, Grows, HistoryMatchesCore, HeadIsRecorded

\* One process takes the step.
LEMMA Assemble ==
    ASSUME IInv, TypeOK', Grows, HistoryMatchesCore', HeadIsRecorded', StartIsAlone',
           NEW p \in Procs, Prepared(p)', \A q \in Procs \ {p}: proc'[q] = proc[q]
    PROVE  IInv'
<1>1. ASSUME NEW q \in Procs PROVE Prepared(q)'
  <2>1. CASE q = p
    BY <2>1
  <2>2. CASE q # p
    BY <2>2, OthersStayPrepared DEF IInv
  <2>3. QED
    BY <2>1, <2>2
<1>2. QED
  BY <1>1 DEF IInv

\* A process that makes no call needs nothing.
LEMMA NoCallIsPrepared ==
    ASSUME NEW p \in Procs, proc'[p].call \notin Calls
    PROVE  Prepared(p)'
  BY DEF Prepared, HasArguments, HasCommitted, HasSeenHead, Calls, ApplyCalls,
         FinishCalls, HeadCalls, CurrentCalls, StartCalls

LEMMA ClientIsUp ==
    ASSUME IInv, NEW c \in Clients, proc[c].call \in Calls \/ Free(c)
    PROVE  server = "up" /\ queue = {} /\ c \in Procs /\ c # Startup
  BY DEF IInv, StartIsAlone, Free

LEMMA ClientAlone ==
    ASSUME IInv, server = "up", UNCHANGED <<server, queue>>, proc'[Startup] = proc[Startup]
    PROVE  StartIsAlone'
  BY DEF IInv, StartIsAlone

LEMMA AnswerAlone ==
    ASSUME IInv, NEW p \in Procs, NEW code \in Answers, proc[p].call \in Calls,
           Answer(p, code), \A r \in Requests \ {proc[p].req}: pending'[r] = pending[r]
    PROVE  StartIsAlone'
<1>1. CASE p # Startup
  BY <1>1, AnswerEffect, ClientIsUp, ClientAlone DEF IInv
<1>2. CASE p = Startup
  <2>1. server = "starting" /\ \A c \in Clients: proc[c].call \notin Calls
    BY <1>2 DEF IInv, StartIsAlone
  <2>2. /\ \A c \in Clients: proc'[c].call \notin Calls
        /\ proc'[Startup].call \notin Calls
        /\ \/ server' = server /\ queue' = queue \ {proc[p].req}
           \/ server' = "down" /\ queue' = {}
    BY <1>2, <2>1, AnswerEffect DEF IInv
  <2>3. \A r \in queue \ {proc[p].req}: Present(pending'[r])
    BY <1>2 DEF IInv, StartIsAlone, TypeOK
  <2>4. QED
    BY <2>1, <2>2, <2>3 DEF StartIsAlone
<1>3. QED
  BY <1>1, <1>2

LEMMA ContinueAlone ==
    ASSUME IInv, NEW p \in Procs, proc[p].call \in Calls, UNCHANGED <<server, queue>>,
           \A q \in Procs \ {p}: proc'[q] = proc[q],
           proc[p].call \in HeadCalls => proc'[p].call \in HeadCalls,
           proc'[p].req = proc[p].req,
           \A r \in Requests: \/ pending'[r] = pending[r]
                              \/ r = proc[p].req /\ proc'[p].call \in HeadCalls
    PROVE  StartIsAlone'
<1>1. CASE p # Startup
  BY <1>1, ClientIsUp, ClientAlone
<1>2. CASE p = Startup
  <2>1. server = "starting" /\ \A c \in Clients: proc[c].call \notin Calls
    BY <1>2 DEF IInv, StartIsAlone
  <2>2. \A c \in Clients: proc'[c].call \notin Calls
    BY <1>2, <2>1
  <2>3. ASSUME NEW r \in queue
        PROVE  \/ Present(pending'[r])
               \/ proc'[Startup].call \in HeadCalls /\ proc'[Startup].req = r
    BY <1>2 DEF IInv, StartIsAlone, TypeOK
  <2>4. QED
    BY <2>1, <2>2, <2>3 DEF StartIsAlone
<1>3. QED
  BY <1>1, <1>2

-------------------------------------------------------------------------------
(***************************************************************************)
(* Every action preserves the invariant                                    *)
(***************************************************************************)

\* A step that only changes the local state of one process, which goes on.
LEMMA LocalStep ==
    ASSUME IInv, UNCHANGED <<log, delayed, store, server, queue>>,
           NEW p \in Procs, NEW s \in Local, proc' = [proc EXCEPT ![p] = s],
           Prepared(p)', StartIsAlone'
    PROVE  IInv'
<1>1. TypeOK'
  BY DEF IInv, TypeOK, store
<1>2. Grows /\ HistoryMatchesCore' /\ HeadIsRecorded'
  BY QuietStep DEF store
<1>3. \A q \in Procs \ {p}: proc'[q] = proc[q]
  BY DEF IInv, TypeOK
<1>4. QED
  BY <1>1, <1>2, <1>3, Assemble

\* A step that ends a request, or a record of the start, with an answer.
LEMMA AnswerStep ==
    ASSUME IInv, UNCHANGED <<log, history, head>>, delayed' \subseteq RuleSet,
           pending' \in [Requests -> RecordOf(RuleSet)],
           NEW p \in Procs, NEW code \in Answers, proc[p].call \in Calls,
           Answer(p, code), \A r \in Requests \ {proc[p].req}: pending'[r] = pending[r]
    PROVE  IInv'
<1>1. TypeOK'
  BY AnswerEffect DEF IInv, TypeOK
<1>2. Grows /\ HistoryMatchesCore' /\ HeadIsRecorded'
  BY QuietStep
<1>3. StartIsAlone'
  BY AnswerAlone
<1>4. Prepared(p)' /\ \A q \in Procs \ {p}: proc'[q] = proc[q]
  BY AnswerEffect, NoCallIsPrepared DEF IInv
<1>5. QED
  BY <1>1, <1>2, <1>3, <1>4, Assemble

LEMMA FreshEffect ==
    ASSUME IInv, NEW c \in Clients, Free(c), NEW r \in Requests \cup {NoValue},
           NEW call \in Calls \cup {"answered"}, NEW code \in Answers \cup {"none"},
           NEW rev \in Revisions \cup {0}, NEW rules \in Rules \cup {NoValue},
           proc' = [proc EXCEPT ![c] = Fresh(call, code, r, rev, rules)],
           UNCHANGED <<log, delayed, store, server, queue>>,
           Prepared(c)'
    PROVE  IInv'
<1>1. Fresh(call, code, r, rev, rules) \in Local
  BY DEF Fresh, Local
<1>2. server = "up" /\ c # Startup
  BY ClientIsUp
<1>3. StartIsAlone'
  BY <1>2, ClientAlone DEF IInv, TypeOK
<1>4. QED
  BY <1>1, <1>3, LocalStep

LEMMA StartApplyStep ==
    ASSUME IInv, NEW c \in Clients, Free(c), NEW r \in Requests, NEW rev \in Revisions,
           NEW rules \in Rules, StartApply(c, r, rev, rules),
           UNCHANGED <<log, delayed, store, server, queue>>
    PROVE  IInv'
<1>1. Prepared(c)'
  BY DEF StartApply, Fresh, Prepared, HasArguments, HasCommitted, HasSeenHead, IInv, TypeOK,
         Calls, ApplyCalls, FinishCalls, HeadCalls, CurrentCalls, StartCalls
<1>2. QED
  BY <1>1, FreshEffect DEF StartApply, Calls, ApplyCalls

\* The slot is answered at once: no call is made.
LEMMA AnsweredAtOnce ==
    ASSUME IInv, NEW c \in Clients, Free(c), NEW code \in Answers,
           proc' = [proc EXCEPT ![c] = Answered(code)],
           UNCHANGED <<log, delayed, store, server, queue>>
    PROVE  IInv'
<1>1. "answered" \notin Calls
  BY DEF Calls, ApplyCalls, FinishCalls, HeadCalls, CurrentCalls, StartCalls
<1>2. Prepared(c)'
  BY <1>1, NoCallIsPrepared DEF Answered, Fresh, IInv, TypeOK
<1>3. QED
  BY <1>2, FreshEffect DEF Answered

LEMMA BeginStep ==
    ASSUME IInv, NEW c \in Clients, Begin(c)
    PROVE  IInv'
<1>1. ASSUME NEW r \in Requests, BeginApply(c, r) PROVE IInv'
  BY <1>1, StartApplyStep DEF BeginApply
<1>2. ASSUME NEW r \in Requests, BeginRestore(c, r) PROVE IInv'
  <2>1. PICK rev \in Revisions, old \in Revisions:
            IF Present(history[old])
            THEN StartApply(c, r, rev, history[old].val)
            ELSE proc' = [proc EXCEPT ![c] = Answered("not_found")]
    BY <1>2 DEF BeginRestore
  <2>2. CASE Present(history[old])
    <3>1. history[old].val \in Rules
      BY <2>2 DEF IInv, TypeOK, RecordOf, Present, Absent
    <3>2. QED
      BY <1>2, <2>1, <2>2, <3>1, StartApplyStep DEF BeginRestore
  <2>3. CASE ~Present(history[old])
    BY <1>2, <2>1, <2>3, AnsweredAtOnce DEF BeginRestore, Answers
  <2>4. QED
    BY <2>2, <2>3
<1>3. ASSUME BeginCurrent(c) PROVE IInv'
  <2>1. CASE log = <<>>
    BY <1>3, <2>1, AnsweredAtOnce DEF BeginCurrent, Answers
  <2>2. CASE log # <<>>
    <3>1. Len(log) \in Revisions /\ log[Len(log)] \in Rules
      BY <2>2 DEF IInv, TypeOK
    <3>2. proc' = [proc EXCEPT ![c] = Fresh("readRevision", "none", NoValue, Len(log),
                                            log[Len(log)])]
      BY <1>3, <2>2 DEF BeginCurrent
    <3>3. Prepared(c)'
      BY <1>3, <3>1, <3>2
      DEF BeginCurrent, Fresh, Prepared, HasArguments, HasCommitted, HasSeenHead, IInv, TypeOK,
          Calls, ApplyCalls, FinishCalls, HeadCalls, CurrentCalls, StartCalls
    <3>4. "readRevision" \in Calls /\ Free(c)
                /\ UNCHANGED <<log, delayed, store, server, queue>>
      BY <1>3 DEF BeginCurrent, Calls, CurrentCalls
    <3>5. QED
      BY <3>1, <3>2, <3>3, <3>4, FreshEffect
  <2>3. QED
    BY <2>1, <2>2
<1>4. QED
  BY <1>1, <1>2, <1>3 DEF Begin

\* A process goes on to its next call; s is its new local state.
LEMMA CallStep ==
    ASSUME IInv, UNCHANGED <<log, delayed, store, server, queue>>,
           NEW p \in Procs, proc[p].call \in Calls, NEW s \in Local,
           proc' = [proc EXCEPT ![p] = s], s.req = proc[p].req,
           proc[p].call \in HeadCalls => s.call \in HeadCalls,
           Prepared(p)'
    PROVE  IInv'
<1>1. proc'[p] = s /\ \A q \in Procs \ {p}: proc'[q] = proc[q]
  BY DEF IInv, TypeOK
<1>2. StartIsAlone'
  BY <1>1, ContinueAlone DEF store
<1>3. QED
  BY <1>2, LocalStep

LEMMA LocalCall ==
    ASSUME NEW s \in Local, NEW call \in Calls
    PROVE  [s EXCEPT !.call = call] \in Local
  BY DEF Local

LEMMA GoToStep ==
    ASSUME IInv, UNCHANGED <<log, delayed, store, server, queue>>,
           NEW p \in Procs, proc[p].call \in Calls, NEW call \in Calls, GoTo(p, call),
           proc[p].call \in HeadCalls => call \in HeadCalls,
           Prepared(p)'
    PROVE  IInv'
<1> DEFINE s == [proc[p] EXCEPT !.call = call]
<1>1. s \in Local /\ s.req = proc[p].req /\ s.call = call
  <2>1. proc[p] \in Local
    BY DEF IInv, TypeOK
  <2>2. QED
    BY <2>1, LocalCall DEF Local
<1>2. proc' = [proc EXCEPT ![p] = s]
  BY DEF GoTo, IInv, TypeOK
<1>3. QED
  BY <1>1, <1>2, CallStep

\* What GoTo leaves of the local state.
LEMMA GoToEffect ==
    ASSUME TypeOK, NEW p \in Procs, NEW call, GoTo(p, call)
    PROVE  /\ proc'[p].call = call
           /\ proc'[p].req = proc[p].req /\ proc'[p].rev = proc[p].rev
           /\ proc'[p].rules = proc[p].rules /\ proc'[p].seen = proc[p].seen
           /\ proc'[p].answer = proc[p].answer
           /\ \A q \in Procs \ {p}: proc'[q] = proc[q]
  BY DEF GoTo, TypeOK, Local

LEMMA PutPendingStep ==
    ASSUME IInv, NEW c \in Clients, PutPending(c)
    PROVE  IInv'
<1>1. c \in Procs /\ proc[c].call = "putPending" /\ "core" \in Calls /\ "getPending" \in Calls
      /\ proc[c].call \in Calls /\ proc[c].call \notin HeadCalls
  BY DEF PutPending, At, Calls, ApplyCalls, HeadCalls
<1>2. server = "up"
  BY <1>1, ClientIsUp
<1>3. HasArguments(c) /\ RuleSetOf(c) \in RuleSet /\ proc[c].req \in Requests
  BY <1>1 DEF IInv, Prepared, HasArguments, RuleSetOf, RuleSet, ApplyCalls
<1>4. CASE Matches(pending[proc[c].req], 0)
  <2>1. /\ pending' = [pending EXCEPT ![proc[c].req] = Written(pending[proc[c].req], RuleSetOf(c))]
        /\ GoTo(c, "core")
        /\ UNCHANGED <<log, delayed, history, head, server, queue>>
    BY <1>4 DEF PutPending
  <2>2. Written(pending[proc[c].req], RuleSetOf(c)) \in RecordOf(RuleSet)
    <3>1. pending[proc[c].req] \in RecordOf(RuleSet)
      BY <1>3 DEF IInv, TypeOK
    <3>2. pending[proc[c].req].ver \in Nat
      BY <3>1 DEF RecordOf, Absent
    <3>3. QED
      BY <1>3, <3>2 DEF Written, RecordOf
  <2>3. proc' \in [Procs -> Local]
    BY <1>1, <2>1, LocalCall DEF GoTo, IInv, TypeOK
  <2>4. TypeOK'
    BY <2>1, <2>2, <2>3 DEF IInv, TypeOK
  <2>5. Grows /\ HistoryMatchesCore' /\ HeadIsRecorded'
    BY <2>1, QuietStep
  <2>6. Prepared(c)'
    BY <1>1, <1>3, <2>1, GoToEffect DEF IInv, Prepared, HasArguments, HasCommitted, HasSeenHead,
       Calls, ApplyCalls, FinishCalls, HeadCalls, CurrentCalls, StartCalls
  <2>7. StartIsAlone' /\ \A q \in Procs \ {c}: proc'[q] = proc[q]
    BY <1>1, <1>2, <2>1, GoToEffect, ClientAlone DEF IInv
  <2>8. QED
    BY <1>1, <2>4, <2>5, <2>6, <2>7, Assemble
<1>5. CASE ~Matches(pending[proc[c].req], 0)
  <2>1. GoTo(c, "getPending") /\ UNCHANGED <<log, delayed, store, server, queue>>
    BY <1>5 DEF PutPending, store
  <2>2. Prepared(c)'
    BY <1>1, <1>3, <2>1, GoToEffect DEF IInv, Prepared, HasArguments, HasCommitted, HasSeenHead,
       Calls, ApplyCalls, FinishCalls, HeadCalls, CurrentCalls, StartCalls
  <2>3. QED
    BY <1>1, <2>1, <2>2, GoToStep
<1>6. QED
  BY <1>4, <1>5

LEMMA GetPendingStep ==
    ASSUME IInv, NEW c \in Clients, GetPending(c)
    PROVE  IInv'
<1>1. c \in Procs /\ proc[c].call = "getPending" /\ "core" \in Calls
      /\ proc[c].call \in Calls /\ proc[c].call \notin HeadCalls
      /\ UNCHANGED <<log, delayed, store>>
  BY DEF GetPending, At, Calls, ApplyCalls, HeadCalls
<1>2. HasArguments(c)
  BY <1>1 DEF IInv, Prepared
<1>3. \/ GoTo(c, "core") /\ UNCHANGED <<server, queue>>
      \/ Answer(c, "reused")
      \/ Answer(c, "not_found")
  BY DEF GetPending
<1>4. CASE GoTo(c, "core") /\ UNCHANGED <<server, queue>>
  <2>1. Prepared(c)'
    BY <1>1, <1>2, <1>4, GoToEffect DEF IInv, Prepared, HasArguments, HasCommitted, HasSeenHead,
       Calls, ApplyCalls, FinishCalls, HeadCalls, CurrentCalls, StartCalls
  <2>2. QED
    BY <1>1, <1>4, <2>1, GoToStep
<1>5. ASSUME NEW code \in {"reused", "not_found"}, Answer(c, code) PROVE IInv'
  BY <1>1, <1>5, AnswerStep DEF IInv, TypeOK, store, Answers
<1>6. QED
  BY <1>3, <1>4, <1>5

LEMMA DeletePendingEffect ==
    ASSUME TypeOK, NEW p \in Procs, proc[p].req \in Requests, TryDeletePending(p)
    PROVE  /\ pending' \in [Requests -> RecordOf(RuleSet)]
           /\ \A r \in Requests \ {proc[p].req}: pending'[r] = pending[r]
  BY DEF TryDeletePending, DeletePending, TypeOK, RecordOf

LEMMA RejectApplyStep ==
    ASSUME IInv, NEW c \in Clients, RejectApply(c)
    PROVE  IInv'
<1>1. c \in Procs /\ proc[c].call = "reject" /\ proc[c].call \in Calls
      /\ UNCHANGED <<log, delayed, history, head>>
  BY DEF RejectApply, At, Calls, ApplyCalls
<1>2. proc[c].req \in Requests /\ proc[c].answer \in Answers
  BY <1>1 DEF IInv, Prepared, HasArguments, ApplyCalls, Answers
<1>3. QED
  BY <1>1, <1>2, DeletePendingEffect, AnswerStep DEF RejectApply, IInv, TypeOK

LEMMA DiscardStep ==
    ASSUME IInv, Discard
    PROVE  IInv'
<1>1. Startup \in Procs /\ proc[Startup].call = "discard" /\ proc[Startup].call \in Calls
      /\ UNCHANGED <<log, delayed, history, head>>
  BY DEF Discard, At, Calls, StartCalls
<1>2. proc[Startup].req \in Requests /\ "ok" \in Answers
  BY <1>1 DEF IInv, Prepared, HasArguments, StartCalls, Answers
<1>3. QED
  BY <1>1, <1>2, DeletePendingEffect, AnswerStep DEF Discard, TryDeletePending, IInv, TypeOK

-------------------------------------------------------------------------------

\* Core may commit a revision; nothing else that the invariant speaks of moves.
LEMMA CoreStep ==
    ASSUME IInv, NEW rev \in Revisions, NEW rules \in Rules, CoreApplies(rev, rules),
           UNCHANGED <<history, head>>
    PROVE  /\ log' \in Seq(Rules) /\ Len(log') <= MaxRevision
           /\ Grows /\ HistoryMatchesCore' /\ HeadIsRecorded'
<1>1. /\ log' \in Seq(Rules) /\ Len(log') <= MaxRevision
      /\ Len(log) <= Len(log') /\ \A n \in 1 .. Len(log): log'[n] = log[n]
  BY CoreEffect DEF IInv
<1>2. Grows
  BY <1>1 DEF Grows
<1>3. HistoryMatchesCore'
  <2>1. ASSUME NEW n \in Revisions, Present(history[n])
        PROVE  n <= Len(log') /\ history[n].val = log'[n]
    BY <1>1, <2>1 DEF IInv, HistoryMatchesCore, TypeOK
  <2>2. QED
    BY <2>1 DEF HistoryMatchesCore
<1>4. HeadIsRecorded'
  BY DEF IInv, HeadIsRecorded
<1>5. QED
  BY <1>1, <1>2, <1>3, <1>4

LEMMA DelayedArrivesStep ==
    ASSUME IInv, DelayedArrives
    PROVE  IInv'
<1>1. PICK m \in delayed: /\ CoreApplies(m.rev, m.rules)
                          /\ delayed' = delayed \ {m}
                          /\ UNCHANGED <<store, server, queue, proc>>
  BY DEF DelayedArrives
<1>2. m.rev \in Revisions /\ m.rules \in Rules
  BY DEF IInv, TypeOK, RuleSet
<1>3. /\ log' \in Seq(Rules) /\ Len(log') <= MaxRevision
      /\ Grows /\ HistoryMatchesCore' /\ HeadIsRecorded'
  BY <1>1, <1>2, CoreStep DEF store
<1>4. TypeOK'
  BY <1>1, <1>3 DEF IInv, TypeOK, store
<1>5. StartIsAlone'
  BY <1>1 DEF IInv, StartIsAlone, store
<1>6. \A p \in Procs: Prepared(p)'
  BY <1>1, <1>3, <1>4, OthersStayPrepared DEF IInv
<1>7. QED
  BY <1>3, <1>4, <1>5, <1>6 DEF IInv

LEMMA CoreAnswersStep ==
    ASSUME IInv, NEW p \in Procs, CoreAnswers(p)
    PROVE  IInv'
<1> DEFINE verdict == CoreVerdict(proc[p].rev, proc[p].rules)
<1>1. proc[p].call = "core" /\ proc[p].call \in Calls /\ proc[p].call \notin HeadCalls
  BY DEF CoreAnswers, At, Calls, ApplyCalls, HeadCalls
<1>2. proc[p].rev \in Revisions /\ proc[p].rules \in Rules /\ proc[p].req \in Requests
  BY <1>1 DEF IInv, Prepared, HasArguments, ApplyCalls
<1>3. /\ log' \in Seq(Rules) /\ Len(log') <= MaxRevision
      /\ Grows /\ HistoryMatchesCore' /\ HeadIsRecorded'
  BY <1>2, CoreStep DEF CoreAnswers, store
<1>4. verdict \in {"same", "commit"} => proc[p].rev <= Len(log') /\ log'[proc[p].rev] = proc[p].rules
  BY <1>2, CoreEffect DEF CoreAnswers, IInv
<1>5. UNCHANGED <<delayed, store>>
  BY DEF CoreAnswers
<1>6. CASE verdict \in {"same", "commit"}
  <2>1. GoTo(p, "getRevision") /\ UNCHANGED <<server, queue>>
    BY <1>6 DEF CoreAnswers
  <2>2. proc' \in [Procs -> Local]
    BY <2>1, LocalCall DEF GoTo, IInv, TypeOK, Calls, FinishCalls
  <2>3. TypeOK'
    BY <1>3, <1>5, <2>1, <2>2 DEF IInv, TypeOK, store
  <2>4. Prepared(p)'
    BY <1>2, <1>4, <1>6, <2>1, GoToEffect
    DEF IInv, Prepared, HasArguments, HasCommitted, HasSeenHead,
        Calls, ApplyCalls, FinishCalls, HeadCalls, CurrentCalls, StartCalls
  <2>5. StartIsAlone'
    BY <1>1, <1>5, <2>1, GoToEffect, ContinueAlone DEF IInv, store
  <2>6. QED
    BY <1>3, <2>1, <2>3, <2>4, <2>5, GoToEffect, Assemble DEF IInv
<1>7. CASE verdict \in {"conflict", "invalid"} /\ p # Startup
  <2>1. proc' = [proc EXCEPT ![p].call = "reject", ![p].answer = verdict]
        /\ UNCHANGED <<server, queue>>
    BY <1>7 DEF CoreAnswers
  <2>2. proc[p] \in Local
    BY DEF IInv, TypeOK
  <2>3. [proc[p] EXCEPT !.call = "reject", !.answer = verdict] \in Local
    BY <1>7, <2>2 DEF Local, Calls, ApplyCalls, Answers
  <2>4. proc' \in [Procs -> Local] /\ \A q \in Procs \ {p}: proc'[q] = proc[q]
    BY <2>1, <2>3 DEF IInv, TypeOK
  <2>5. /\ proc'[p].call = "reject" /\ proc'[p].answer = verdict
        /\ proc'[p].req = proc[p].req /\ proc'[p].rev = proc[p].rev
        /\ proc'[p].rules = proc[p].rules
    BY <2>1, <2>2 DEF IInv, TypeOK, Local
  <2>6. TypeOK'
    BY <1>3, <1>5, <2>1, <2>4 DEF IInv, TypeOK, store
  <2>7. Prepared(p)'
    BY <1>2, <1>7, <2>5 DEF Prepared, HasArguments, HasCommitted, HasSeenHead,
       Calls, ApplyCalls, FinishCalls, HeadCalls, CurrentCalls, StartCalls
  <2>8. StartIsAlone'
    BY <1>1, <1>5, <2>1, <2>4, <2>5, ContinueAlone DEF store
  <2>9. QED
    BY <1>3, <2>4, <2>6, <2>7, <2>8, Assemble
<1>8. CASE verdict \in {"conflict", "invalid"} /\ p = Startup
  <2>1. Answer(p, verdict) /\ verdict \in Answers
    BY <1>8 DEF CoreAnswers, Answers
  <2>2. TypeOK'
    BY <1>3, <1>5, <2>1, AnswerEffect DEF IInv, TypeOK, store
  <2>3. StartIsAlone'
    BY <1>1, <1>5, <2>1, AnswerAlone DEF store
  <2>4. Prepared(p)' /\ \A q \in Procs \ {p}: proc'[q] = proc[q]
    BY <2>1, AnswerEffect, NoCallIsPrepared DEF IInv
  <2>5. QED
    BY <1>3, <2>2, <2>3, <2>4, Assemble
<1>9. QED
  BY <1>6, <1>7, <1>8 DEF CoreAnswers

-------------------------------------------------------------------------------

LEMMA GetRevisionStep ==
    ASSUME IInv, NEW p \in Procs, GetRevision(p)
    PROVE  IInv'
<1>1. proc[p].call = "getRevision" /\ proc[p].call \in Calls /\ proc[p].call \notin HeadCalls
      /\ UNCHANGED <<log, delayed, store>> /\ TypeOK
  BY DEF GetRevision, At, Calls, FinishCalls, HeadCalls, IInv
<1>2. HasArguments(p) /\ HasCommitted(p)
  BY DEF IInv, Prepared
<1>3. \/ Answer(p, "conflict")
      \/ /\ Present(history[proc[p].rev]) /\ GoTo(p, "dropPending")
         /\ UNCHANGED <<server, queue>>
      \/ GoTo(p, "getHead") /\ UNCHANGED <<server, queue>>
  BY DEF GetRevision
<1>4. CASE Answer(p, "conflict")
  BY <1>1, <1>4, AnswerStep DEF TypeOK, store, Answers
<1>5. ASSUME NEW call \in {"dropPending", "getHead"}, GoTo(p, call), UNCHANGED <<server, queue>>,
             call = "dropPending" => Present(history[proc[p].rev])
      PROVE  IInv'
  <2>1. Prepared(p)'
    BY <1>1, <1>2, <1>5, GoToEffect
    DEF Prepared, HasArguments, HasCommitted, HasSeenHead, store,
        Calls, ApplyCalls, FinishCalls, HeadCalls, CurrentCalls, StartCalls
  <2>2. QED
    BY <1>1, <1>5, <2>1, GoToStep DEF Calls, FinishCalls
<1>6. QED
  BY <1>3, <1>4, <1>5

LEMMA DropPendingStep ==
    ASSUME IInv, NEW p \in Procs, DropPending(p)
    PROVE  IInv'
<1>1. proc[p].call = "dropPending" /\ proc[p].call \in Calls /\ proc[p].call \notin HeadCalls
      /\ GoTo(p, "readHead") /\ UNCHANGED <<log, delayed, history, head, server, queue>>
      /\ TryDeletePending(p) /\ TypeOK
  BY DEF DropPending, At, Calls, FinishCalls, HeadCalls, IInv
<1>2. HasArguments(p) /\ HasCommitted(p) /\ Present(history[proc[p].rev])
  BY <1>1 DEF IInv, Prepared, HasSeenHead
<1>3. proc[p].req \in Requests
  BY <1>1, <1>2 DEF HasArguments, FinishCalls
<1>4. proc' \in [Procs -> Local]
  BY <1>1, LocalCall DEF GoTo, TypeOK, Calls, HeadCalls
<1>5. TypeOK'
  BY <1>1, <1>3, <1>4, DeletePendingEffect DEF TypeOK
<1>6. Grows /\ HistoryMatchesCore' /\ HeadIsRecorded'
  BY <1>1, QuietStep
<1>7. Prepared(p)'
  BY <1>1, <1>2, GoToEffect
  DEF Prepared, HasArguments, HasCommitted, HasSeenHead,
      Calls, ApplyCalls, FinishCalls, HeadCalls, CurrentCalls, StartCalls
<1>8. StartIsAlone'
  <2>1. proc'[p].call \in HeadCalls /\ proc'[p].req = proc[p].req
        /\ \A q \in Procs \ {p}: proc'[q] = proc[q]
    BY <1>1, GoToEffect DEF HeadCalls
  <2>2. \A r \in Requests: pending'[r] = pending[r] \/ r = proc[p].req
    BY <1>1, <1>3, DeletePendingEffect
  <2>3. QED
    BY <1>1, <2>1, <2>2, ContinueAlone
<1>9. QED
  BY <1>1, <1>5, <1>6, <1>7, <1>8, GoToEffect, Assemble

\* The version of the head that a process has just read.
LEMMA HeadJustRead ==
    ASSUME TypeOK
    PROVE  head.ver \in Nat /\ (Present(head) => head.val \in RuleSet)
  BY DEF TypeOK, RecordOf, Absent, Present

LEMMA GetHeadStep ==
    ASSUME IInv, NEW p \in Procs, GetHead(p)
    PROVE  IInv'
<1> DEFINE lead == Present(head) => head.val.rev < proc[p].rev
           seen == IF lead THEN head.ver ELSE 0
           s == [proc[p] EXCEPT !.call = "commit", !.lead = lead, !.seen = seen]
<1>1. proc[p].call = "getHead" /\ proc[p].call \in Calls /\ proc[p].call \notin HeadCalls
      /\ UNCHANGED <<log, delayed, store>> /\ TypeOK
  BY DEF GetHead, At, Calls, FinishCalls, HeadCalls, IInv
<1>2. HasArguments(p) /\ HasCommitted(p) /\ proc[p] \in Local
  BY DEF IInv, Prepared, TypeOK
<1>3. CASE Answer(p, "conflict")
  BY <1>1, <1>3, AnswerStep DEF TypeOK, store, Answers
<1>4. CASE /\ proc' = [proc EXCEPT ![p].call = "commit", ![p].lead = lead, ![p].seen = seen]
           /\ UNCHANGED <<server, queue>>
  <2>1. seen \in Nat /\ lead \in BOOLEAN
    BY <1>1, HeadJustRead
  <2>2. s \in Local
    BY <1>2, <2>1 DEF Local, Calls, FinishCalls
  <2>3. proc' = [proc EXCEPT ![p] = s]
    BY <1>4
  <2>4. /\ s.call = "commit" /\ s.lead = lead /\ s.seen = seen
        /\ s.req = proc[p].req /\ s.rev = proc[p].rev /\ s.rules = proc[p].rules
    BY <1>2 DEF Local
  <2>5. proc'[p] = s
    BY <1>1, <2>3 DEF TypeOK
  <2>6. proc[p].rev \in Nat /\ (Present(head) => head.val.rev \in Nat)
    BY <1>1, <1>2, HeadJustRead DEF HasArguments, RuleSet
  <2>7. lead => HeadMayMove(p)'
    <3> SUFFICES ASSUME lead PROVE HeadMayMove(p)'
      OBVIOUS
    <3>1. proc'[p].seen = head.ver /\ head' = head /\ proc'[p].rev = proc[p].rev
      BY <1>1, <2>4, <2>5 DEF store
    <3>2. head.ver \in Nat
      BY <1>1, HeadJustRead
    <3>3. QED
      BY <3>1, <3>2 DEF HeadMayMove, Present
  <2>8. ~lead => Present(head') /\ head'.val.rev >= proc'[p].rev
    BY <1>1, <2>4, <2>5, <2>6 DEF store
  <2>9. Prepared(p)'
    <3>1. HasArguments(p)' /\ HasCommitted(p)'
      BY <1>1, <1>2, <2>4, <2>5
      DEF HasArguments, HasCommitted,
          Calls, ApplyCalls, FinishCalls, HeadCalls, CurrentCalls, StartCalls
    <3>2. HasSeenHead(p)'
      BY <2>4, <2>5, <2>7, <2>8 DEF HasSeenHead, HeadCalls
    <3>3. QED
      BY <3>1, <3>2 DEF Prepared
  <2>10. QED
    BY <1>1, <1>4, <2>2, <2>3, <2>4, <2>9, CallStep
<1>5. QED
  BY <1>3, <1>4 DEF GetHead

-------------------------------------------------------------------------------

\* A revision is recorded where there was none.
LEMMA RecordEffect ==
    ASSUME TypeOK, HistoryMatchesCore, NEW p \in Procs,
           proc[p].rev \in Revisions, proc[p].rules \in Rules,
           proc[p].rev <= Len(log), log[proc[p].rev] = proc[p].rules,
           Matches(history[proc[p].rev], 0), UNCHANGED log,
           history' = [history EXCEPT ![proc[p].rev] = Written(history[proc[p].rev], proc[p].rules)]
    PROVE  /\ history' \in [Revisions -> RecordOf(Rules)]
           /\ \A n \in Revisions: Present(history[n]) => history'[n] = history[n]
           /\ Present(history'[proc[p].rev]) /\ history'[proc[p].rev].val = proc[p].rules
           /\ HistoryMatchesCore'
<1>1. history[proc[p].rev].ver = 0 /\ ~Present(history[proc[p].rev])
  BY DEF Matches, Unchecked, Present
<1>2. Written(history[proc[p].rev], proc[p].rules) = [ver |-> 1, val |-> proc[p].rules]
  BY <1>1 DEF Written
<1>3. history' = [history EXCEPT ![proc[p].rev] = [ver |-> 1, val |-> proc[p].rules]]
  BY <1>2
<1>4. [ver |-> 1, val |-> proc[p].rules] \in RecordOf(Rules)
  BY DEF RecordOf
<1>5. history' \in [Revisions -> RecordOf(Rules)]
  BY <1>3, <1>4 DEF TypeOK
<1>6. history'[proc[p].rev] = [ver |-> 1, val |-> proc[p].rules]
      /\ \A n \in Revisions \ {proc[p].rev}: history'[n] = history[n]
  BY <1>3 DEF TypeOK
<1>7. HistoryMatchesCore'
  BY <1>6 DEF HistoryMatchesCore
<1>8. QED
  BY <1>1, <1>5, <1>6, <1>7 DEF Present

\* The head moves to a revision that the history has.
LEMMA MoveHeadEffect ==
    ASSUME TypeOK, NEW p \in Procs, proc[p].rev \in Revisions, proc[p].rules \in Rules,
           HeadMayMove(p), Matches(head, proc[p].seen), head' = Written(head, RuleSetOf(p))
    PROVE  /\ head' \in RecordOf(RuleSet)
           /\ head'.ver = head.ver + 1 /\ head'.val = RuleSetOf(p) /\ Present(head')
           /\ Present(head) => head'.val.rev > head.val.rev
<1>1. head.ver \in Nat /\ (Present(head) => head.val.rev \in Nat)
  BY HeadJustRead DEF RuleSet
<1>2. proc[p].seen \in Nat
  BY DEF TypeOK, Local
<1>3. head.ver = proc[p].seen
  BY <1>2 DEF Matches, Unchecked
<1>4. Present(head) => head.val.rev < proc[p].rev
  BY <1>3 DEF HeadMayMove
<1>5. head' = [ver |-> head.ver + 1, val |-> RuleSetOf(p)] /\ RuleSetOf(p) \in RuleSet
      /\ RuleSetOf(p).rev = proc[p].rev
  BY DEF Written, RuleSetOf, RuleSet
<1>6. head'.ver = head.ver + 1 /\ head'.val = RuleSetOf(p)
  BY <1>5
<1>7. head' \in RecordOf(RuleSet)
  BY <1>1, <1>5 DEF RecordOf
<1>8. QED
  BY <1>1, <1>4, <1>5, <1>6, <1>7 DEF Present

LEMMA CommitStep ==
    ASSUME IInv, NEW p \in Procs, Commit(p)
    PROVE  IInv'
<1> DEFINE rev == proc[p].rev
           verdict == CommitVerdict(p)
<1>1. proc[p].call = "commit" /\ proc[p].call \in Calls /\ proc[p].call \notin HeadCalls
      /\ UNCHANGED <<log, delayed>> /\ TypeOK /\ HistoryMatchesCore /\ HeadIsRecorded
      /\ Answer(p, verdict) /\ verdict \in Answers
  BY DEF Commit, CommitVerdict, At, Calls, FinishCalls, HeadCalls, IInv, Answers
<1>2. rev \in Revisions /\ proc[p].rules \in Rules /\ proc[p].req \in Requests
      /\ rev <= Len(log) /\ log[rev] = proc[p].rules
  BY <1>1 DEF IInv, Prepared, HasArguments, HasCommitted, FinishCalls
<1>3. CASE verdict # "ok"
  <2>1. UNCHANGED store
    BY <1>3 DEF Commit
  <2>2. QED
    BY <1>1, <2>1, AnswerStep DEF TypeOK, store
<1>4. CASE verdict = "ok"
  <2>1. /\ history' = [history EXCEPT ![rev] = Written(history[rev], proc[p].rules)]
        /\ pending' = [pending EXCEPT ![proc[p].req] = Absent]
        /\ head' = IF proc[p].lead THEN Written(head, RuleSetOf(p)) ELSE head
    BY <1>4 DEF Commit
  <2>2. Matches(history[rev], 0) /\ (proc[p].lead => Matches(head, proc[p].seen))
    BY <1>4 DEF CommitVerdict
  <2>3. /\ history' \in [Revisions -> RecordOf(Rules)]
        /\ \A n \in Revisions: Present(history[n]) => history'[n] = history[n]
        /\ Present(history'[rev]) /\ history'[rev].val = proc[p].rules
        /\ HistoryMatchesCore'
    BY <1>1, <1>2, <2>1, <2>2, RecordEffect
  <2>4. pending' \in [Requests -> RecordOf(RuleSet)]
        /\ \A r \in Requests \ {proc[p].req}: pending'[r] = pending[r]
    BY <1>1, <1>2, <2>1 DEF TypeOK, RecordOf
  <2>5. /\ head' \in RecordOf(RuleSet)
        /\ HeadIsRecorded'
        /\ \/ head' = head
           \/ head'.ver = head.ver + 1 /\ (Present(head) => head'.val.rev > head.val.rev)
    <3>1. CASE proc[p].lead
      <4>1. HeadMayMove(p)
        BY <1>1, <3>1 DEF IInv, Prepared, HasSeenHead
      <4>2. /\ head' \in RecordOf(RuleSet)
            /\ head'.ver = head.ver + 1 /\ head'.val = RuleSetOf(p) /\ Present(head')
            /\ Present(head) => head'.val.rev > head.val.rev
        BY <1>1, <1>2, <2>1, <2>2, <3>1, <4>1, MoveHeadEffect
      <4>3. HeadIsRecorded'
        BY <2>3, <4>2 DEF HeadIsRecorded, RuleSetOf
      <4>4. QED
        BY <4>2, <4>3
    <3>2. CASE ~proc[p].lead
      <4>1. head' = head
        BY <2>1, <3>2
      <4>2. HeadIsRecorded'
        BY <1>1, <2>3, <4>1, HeadJustRead DEF HeadIsRecorded, RuleSet
      <4>3. QED
        BY <1>1, <4>1, <4>2 DEF TypeOK
    <3>3. QED
      BY <3>1, <3>2
  <2>6. Grows
    <3>1. Len(log) \in Nat
      BY <1>1 DEF TypeOK
    <3>2. QED
      BY <1>1, <2>3, <2>5, <3>1 DEF Grows
  <2>7. TypeOK'
    BY <1>1, <2>3, <2>4, <2>5, AnswerEffect DEF TypeOK
  <2>8. StartIsAlone'
    BY <1>1, <2>4, AnswerAlone
  <2>9. Prepared(p)' /\ \A q \in Procs \ {p}: proc'[q] = proc[q]
    BY <1>1, AnswerEffect, NoCallIsPrepared
  <2>10. QED
    BY <2>3, <2>5, <2>6, <2>7, <2>8, <2>9, Assemble
<1>5. QED
  BY <1>3, <1>4

-------------------------------------------------------------------------------

LEMMA ReadHeadStep ==
    ASSUME IInv, NEW p \in Procs, ReadHead(p)
    PROVE  IInv'
<1> DEFINE s == [proc[p] EXCEPT !.call = "putHead", !.seen = head.ver]
<1>1. proc[p].call = "readHead" /\ proc[p].call \in Calls
      /\ UNCHANGED <<log, delayed, store>> /\ TypeOK
  BY DEF ReadHead, At, Calls, HeadCalls, IInv
<1>2. HasArguments(p) /\ HasCommitted(p) /\ Present(history[proc[p].rev]) /\ proc[p] \in Local
  BY <1>1 DEF IInv, Prepared, TypeOK, HasSeenHead, HeadCalls
<1>3. ASSUME NEW code \in {"ok", "conflict"}, Answer(p, code) PROVE IInv'
  BY <1>1, <1>3, AnswerStep DEF TypeOK, store, Answers
<1>4. CASE /\ Present(head) => head.val.rev < proc[p].rev
           /\ proc' = [proc EXCEPT ![p].call = "putHead", ![p].seen = head.ver]
           /\ UNCHANGED <<server, queue>>
  <2>1. s \in Local
    BY <1>1, <1>2, HeadJustRead DEF Local, Calls, HeadCalls
  <2>2. proc' = [proc EXCEPT ![p] = s] /\ proc'[p] = s
    BY <1>1, <1>4 DEF TypeOK
  <2>3. /\ s.call = "putHead" /\ s.seen = head.ver
        /\ s.req = proc[p].req /\ s.rev = proc[p].rev /\ s.rules = proc[p].rules
    BY <1>2 DEF Local
  <2>4. HeadMayMove(p)'
    <3>1. proc'[p].seen = head.ver /\ proc'[p].rev = proc[p].rev /\ head' = head
      BY <1>1, <2>2, <2>3 DEF store
    <3>2. head.ver \in Nat
      BY <1>1, HeadJustRead
    <3>3. QED
      BY <1>4, <3>1, <3>2 DEF HeadMayMove, Present
  <2>5. HasArguments(p)' /\ HasCommitted(p)'
    BY <1>1, <1>2, <2>2, <2>3
    DEF HasArguments, HasCommitted,
        Calls, ApplyCalls, FinishCalls, HeadCalls, CurrentCalls, StartCalls
  <2>6. Prepared(p)'
    BY <1>1, <1>2, <2>2, <2>3, <2>4, <2>5 DEF Prepared, HasSeenHead, HeadCalls, store
  <2>7. QED
    BY <1>1, <1>4, <2>1, <2>2, <2>3, <2>6, CallStep DEF HeadCalls
<1>5. QED
  BY <1>3, <1>4 DEF ReadHead

LEMMA PutHeadStep ==
    ASSUME IInv, NEW p \in Procs, PutHead(p)
    PROVE  IInv'
<1>1. proc[p].call = "putHead" /\ proc[p].call \in Calls
      /\ UNCHANGED <<log, delayed, pending, history>> /\ TypeOK /\ HistoryMatchesCore
  BY DEF PutHead, At, Calls, HeadCalls, IInv
<1>2. proc[p].rev \in Revisions /\ proc[p].rules \in Rules /\ proc[p].rev <= Len(log)
      /\ log[proc[p].rev] = proc[p].rules /\ Present(history[proc[p].rev]) /\ HeadMayMove(p)
  BY <1>1 DEF IInv, Prepared, HasArguments, HasCommitted, HasSeenHead, HeadCalls
<1>3. CASE ~Matches(head, proc[p].seen)
  BY <1>1, <1>3, AnswerStep DEF PutHead, TypeOK, Answers
<1>4. CASE Matches(head, proc[p].seen)
  <2>1. head' = Written(head, RuleSetOf(p)) /\ Answer(p, "ok") /\ "ok" \in Answers
    BY <1>4 DEF PutHead, Answers
  <2>2. /\ head' \in RecordOf(RuleSet)
        /\ head'.ver = head.ver + 1 /\ head'.val = RuleSetOf(p) /\ Present(head')
        /\ Present(head) => head'.val.rev > head.val.rev
    BY <1>1, <1>2, <1>4, <2>1, MoveHeadEffect
  <2>3. HeadIsRecorded'
    BY <1>1, <1>2, <2>2 DEF HeadIsRecorded, RuleSetOf, HistoryMatchesCore
  <2>4. Grows
    <3>1. Len(log) \in Nat
      BY <1>1 DEF TypeOK
    <3>2. QED
      BY <1>1, <2>2, <3>1 DEF Grows
  <2>5. HistoryMatchesCore'
    BY <1>1 DEF HistoryMatchesCore
  <2>6. TypeOK'
    BY <1>1, <2>1, <2>2, AnswerEffect DEF TypeOK
  <2>7. StartIsAlone'
    BY <1>1, <2>1, AnswerAlone
  <2>8. Prepared(p)' /\ \A q \in Procs \ {p}: proc'[q] = proc[q]
    BY <1>1, <2>1, AnswerEffect, NoCallIsPrepared
  <2>9. QED
    BY <2>3, <2>4, <2>5, <2>6, <2>7, <2>8, Assemble
<1>5. QED
  BY <1>3, <1>4

-------------------------------------------------------------------------------

LEMMA ReadRevisionStep ==
    ASSUME IInv, NEW c \in Clients, ReadRevision(c)
    PROVE  IInv'
<1>1. c \in Procs /\ proc[c].call = "readRevision" /\ proc[c].call \in Calls
      /\ proc[c].call \notin HeadCalls /\ UNCHANGED <<log, delayed, store>> /\ TypeOK
  BY DEF ReadRevision, At, Calls, CurrentCalls, HeadCalls, IInv
<1>2. HasArguments(c) /\ HasCommitted(c)
  BY <1>1 DEF IInv, Prepared
<1>3. \/ Answer(c, "conflict")
      \/ /\ Present(history[proc[c].rev]) /\ GoTo(c, "readHead")
         /\ UNCHANGED <<server, queue>>
      \/ GoTo(c, "putRevision") /\ UNCHANGED <<server, queue>>
  BY DEF ReadRevision
<1>4. CASE Answer(c, "conflict")
  BY <1>1, <1>4, AnswerStep DEF TypeOK, store, Answers
<1>5. ASSUME NEW call \in {"readHead", "putRevision"}, GoTo(c, call), UNCHANGED <<server, queue>>,
             call = "readHead" => Present(history[proc[c].rev])
      PROVE  IInv'
  <2>1. Prepared(c)'
    BY <1>1, <1>2, <1>5, GoToEffect
    DEF Prepared, HasArguments, HasCommitted, HasSeenHead, store,
        Calls, ApplyCalls, FinishCalls, HeadCalls, CurrentCalls, StartCalls
  <2>2. QED
    BY <1>1, <1>5, <2>1, GoToStep DEF Calls, HeadCalls, CurrentCalls
<1>6. QED
  BY <1>3, <1>4, <1>5

LEMMA PutRevisionStep ==
    ASSUME IInv, NEW c \in Clients, PutRevision(c)
    PROVE  IInv'
<1> DEFINE rev == proc[c].rev
<1>1. c \in Procs /\ proc[c].call = "putRevision" /\ proc[c].call \in Calls
      /\ proc[c].call \notin HeadCalls /\ GoTo(c, "readHead")
      /\ UNCHANGED <<log, delayed, pending, head, server, queue>>
      /\ TypeOK /\ HistoryMatchesCore /\ HeadIsRecorded
  BY DEF PutRevision, At, Calls, CurrentCalls, HeadCalls, IInv
<1>2. HasArguments(c) /\ HasCommitted(c) /\ rev \in Revisions /\ proc[c].rules \in Rules
      /\ rev <= Len(log) /\ log[rev] = proc[c].rules
  BY <1>1 DEF IInv, Prepared, HasArguments, HasCommitted, CurrentCalls
<1>3. /\ history' \in [Revisions -> RecordOf(Rules)]
      /\ \A n \in Revisions: Present(history[n]) => history'[n] = history[n]
      /\ Present(history'[rev])
      /\ HistoryMatchesCore'
  <2>1. CASE Matches(history[rev], 0)
    BY <1>1, <1>2, <2>1, RecordEffect DEF PutRevision
  <2>2. CASE ~Matches(history[rev], 0)
    <3>1. history' = history
      BY <2>2 DEF PutRevision
    <3>2. history[rev].ver \in Nat /\ history[rev].ver # 0
      BY <1>1, <1>2, <2>2 DEF Matches, TypeOK, RecordOf, Absent
    <3>3. QED
      BY <1>1, <3>1, <3>2 DEF TypeOK, Present, HistoryMatchesCore
  <2>3. QED
    BY <2>1, <2>2
<1>4. HeadIsRecorded'
  BY <1>1, <1>3, HeadJustRead DEF HeadIsRecorded, RuleSet
<1>5. Grows
  <2>1. Len(log) \in Nat
    BY <1>1 DEF TypeOK
  <2>2. QED
    BY <1>1, <1>3, <2>1 DEF Grows
<1>6. TypeOK'
  <2>1. proc' \in [Procs -> Local]
    BY <1>1, LocalCall DEF GoTo, TypeOK, Calls, HeadCalls
  <2>2. QED
    BY <1>1, <1>3, <2>1 DEF TypeOK
<1>7. Prepared(c)'
  BY <1>1, <1>2, <1>3, GoToEffect
  DEF Prepared, HasArguments, HasCommitted, HasSeenHead,
      Calls, ApplyCalls, FinishCalls, HeadCalls, CurrentCalls, StartCalls
<1>8. StartIsAlone'
  BY <1>1, GoToEffect, ContinueAlone DEF HeadCalls
<1>9. QED
  BY <1>1, <1>3, <1>4, <1>5, <1>6, <1>7, <1>8, GoToEffect, Assemble

-------------------------------------------------------------------------------

LEMMA AbandonEffect ==
    ASSUME IInv, NEW callers \in SUBSET Procs, Abandon(callers)
    PROVE  delayed' \subseteq RuleSet
<1>1. ASSUME NEW p \in callers, At(p, "core") PROVE RuleSetOf(p) \in RuleSet
  BY <1>1 DEF At, IInv, Prepared, HasArguments, RuleSetOf, RuleSet, Calls, ApplyCalls
<1>2. QED
  BY <1>1 DEF Abandon, IInv, TypeOK

LEMMA CancelStep ==
    ASSUME IInv, NEW p \in Procs, Cancel(p)
    PROVE  IInv'
<1>1. Answer(p, "canceled") /\ "canceled" \in Answers /\ UNCHANGED <<log, store>> /\ TypeOK
  BY DEF Cancel, Answers, IInv
<1>2. delayed' \subseteq RuleSet
  BY AbandonEffect DEF Cancel
<1>3. CASE proc[p].call \in Calls
  BY <1>1, <1>2, <1>3, AnswerStep DEF TypeOK, store
<1>4. CASE p = Startup /\ server = "starting"
  <2>1. server' = "down" /\ queue' = {} /\ proc' = [proc EXCEPT ![Startup] = Answered("canceled")]
    BY <1>1, <1>4 DEF Answer
  <2>2. TypeOK'
    BY <1>1, <1>2, AnswerEffect DEF TypeOK, store
  <2>3. Prepared(p)' /\ \A q \in Procs \ {p}: proc'[q] = proc[q]
    BY <1>1, AnswerEffect, NoCallIsPrepared
  <2>4. StartIsAlone'
    <3>1. \A c \in Clients: proc'[c].call \notin Calls
      BY <1>4, <2>3 DEF IInv, StartIsAlone
    <3>2. proc'[Startup].call \notin Calls
      BY <1>1, <1>4, AnswerEffect
    <3>3. QED
      BY <2>1, <3>1, <3>2 DEF StartIsAlone
  <2>5. Grows /\ HistoryMatchesCore' /\ HeadIsRecorded'
    BY <1>1, QuietStep DEF store
  <2>6. QED
    BY <2>2, <2>3, <2>4, <2>5, Assemble
<1>5. QED
  BY <1>3, <1>4 DEF Cancel

LEMMA BlankMakesNoCall == Blank \in Local /\ Blank.call \notin Calls
  BY DEF Blank, Fresh, Local, Calls, ApplyCalls, FinishCalls, HeadCalls, CurrentCalls, StartCalls

LEMMA CrashStep ==
    ASSUME IInv, Crash
    PROVE  IInv'
<1>1. /\ server' = "down" /\ queue' = {} /\ proc' = [p \in Procs |-> Blank]
      /\ UNCHANGED <<log, history, head>> /\ pending' = pending
  BY DEF Crash, store
<1>2. delayed' \subseteq RuleSet
  BY AbandonEffect DEF Crash
<1>3. TypeOK'
  BY <1>1, <1>2, BlankMakesNoCall DEF IInv, TypeOK
<1>4. \A p \in Procs: Prepared(p)'
  BY <1>1, BlankMakesNoCall, NoCallIsPrepared
<1>5. StartIsAlone'
  BY <1>1, BlankMakesNoCall DEF StartIsAlone
<1>6. QED
  BY <1>1, <1>3, <1>4, <1>5, QuietStep DEF IInv

LEMMA RestartStep ==
    ASSUME IInv, Restart
    PROVE  IInv'
<1>1. /\ server = "down" /\ server' = "starting"
      /\ queue' = {r \in Requests: Present(pending[r])}
      /\ proc' = [proc EXCEPT ![Startup] = Blank]
      /\ UNCHANGED <<log, history, head, delayed, pending>> /\ TypeOK
  BY DEF Restart, store, IInv
<1>2. TypeOK'
  BY <1>1, BlankMakesNoCall DEF TypeOK
<1>3. /\ \A p \in Procs \ {Startup}: proc'[p] = proc[p]
      /\ proc'[Startup].call \notin Calls /\ Startup \in Procs
  BY <1>1, BlankMakesNoCall DEF TypeOK
<1>4. StartIsAlone'
  <2>1. \A c \in Clients: proc'[c].call \notin Calls
    BY <1>1, <1>3 DEF IInv, StartIsAlone
  <2>2. QED
    BY <1>1, <2>1 DEF StartIsAlone
<1>5. QED
  BY <1>1, <1>2, <1>3, <1>4, QuietStep, NoCallIsPrepared, Assemble

LEMMA ServeStep ==
    ASSUME IInv, Serve
    PROVE  IInv'
<1>1. /\ server = "starting" /\ server' = "up" /\ queue = {}
      /\ UNCHANGED <<log, history, head, delayed, pending, queue, proc>>
      /\ proc[Startup].call \notin Calls /\ TypeOK
  BY DEF Serve, store, IInv, At, Calls, ApplyCalls, FinishCalls, HeadCalls, CurrentCalls, StartCalls
<1>2. TypeOK'
  BY <1>1 DEF TypeOK
<1>3. StartIsAlone'
  BY <1>1 DEF StartIsAlone
<1>4. Startup \in Procs /\ \A p \in Procs: proc'[p] = proc[p]
  BY <1>1
<1>5. QED
  BY <1>1, <1>2, <1>3, <1>4, QuietStep, NoCallIsPrepared, Assemble

LEMMA RecoverNextStep ==
    ASSUME IInv, RecoverNext
    PROVE  IInv'
<1>1. PICK r \in queue:
        LET wanted == pending[r].val IN
            \/ /\ RecoveryStep(wanted) # "conflict"
               /\ proc' = [proc EXCEPT ![Startup] =
                              Fresh(RecoveryStep(wanted), "none", r, wanted.rev, wanted.rules)]
               /\ UNCHANGED <<server, queue>>
            \/ /\ RecoveryStep(wanted) = "conflict"
               /\ Answer(Startup, "conflict")
  BY DEF RecoverNext
<1> DEFINE wanted == pending[r].val
           call == RecoveryStep(wanted)
<1>2. /\ server = "starting" /\ proc[Startup].call = "idle" /\ Startup \in Procs
      /\ UNCHANGED <<log, delayed, store>> /\ TypeOK /\ r \in Requests
      /\ \A c \in Clients: proc[c].call \notin Calls
  BY DEF RecoverNext, At, IInv, StartIsAlone, TypeOK
<1>3. \A q \in queue: Present(pending[q])
  BY <1>2 DEF IInv, StartIsAlone, HeadCalls
<1>4. wanted \in RuleSet /\ wanted.rev \in Revisions /\ wanted.rules \in Rules
  <2>1. wanted \in RuleSet
    BY <1>2, <1>3 DEF TypeOK, RecordOf, Present, Absent
  <2>2. QED
    BY <2>1 DEF RuleSet
<1>5. CASE call # "conflict" /\ UNCHANGED <<server, queue>>
           /\ proc' = [proc EXCEPT ![Startup] = Fresh(call, "none", r, wanted.rev, wanted.rules)]
  <2> DEFINE s == Fresh(call, "none", r, wanted.rev, wanted.rules)
  <2>1. call \in {"core", "getRevision", "discard"}
    BY <1>5 DEF RecoveryStep
  <2>2. /\ s \in Local /\ s.call = call /\ s.req = r
        /\ s.rev = wanted.rev /\ s.rules = wanted.rules
    BY <1>2, <1>4, <2>1
    DEF Fresh, Local, Calls, ApplyCalls, FinishCalls, HeadCalls, CurrentCalls, StartCalls
  <2>3. proc'[Startup] = s
    BY <1>2, <1>5 DEF TypeOK
  <2>4. call = "getRevision" => wanted.rev <= Len(log) /\ log[wanted.rev] = wanted.rules
    <3>1. Len(log) \in Nat
      BY <1>2 DEF TypeOK
    <3>2. QED
      BY <1>4, <3>1 DEF RecoveryStep
  <2>5. Prepared(Startup)'
    BY <1>2, <1>4, <2>1, <2>2, <2>3, <2>4
    DEF Prepared, HasArguments, HasCommitted, HasSeenHead,
        Calls, ApplyCalls, FinishCalls, HeadCalls, CurrentCalls, StartCalls
  <2>6. StartIsAlone'
    <3>1. \A c \in Clients: proc'[c].call \notin Calls
      BY <1>2, <1>5
    <3>2. QED
      BY <1>2, <1>3, <1>5, <3>1 DEF StartIsAlone, store
  <2>7. QED
    BY <1>2, <1>5, <2>2, <2>5, <2>6, LocalStep
<1>6. CASE Answer(Startup, "conflict")
  <2>1. server' = "down" /\ queue' = {} /\ proc' = [proc EXCEPT ![Startup] = Answered("conflict")]
    BY <1>6 DEF Answer
  <2>2. /\ proc' \in [Procs -> Local] /\ proc'[Startup].call \notin Calls
        /\ \A q \in Procs \ {Startup}: proc'[q] = proc[q]
    BY <1>2, <1>6, AnswerEffect DEF Answers
  <2>3. TypeOK'
    BY <1>2, <2>1, <2>2 DEF TypeOK, store
  <2>4. StartIsAlone'
    BY <1>2, <2>1, <2>2 DEF StartIsAlone
  <2>5. Grows /\ HistoryMatchesCore' /\ HeadIsRecorded'
    BY <1>2, QuietStep DEF store
  <2>6. QED
    BY <1>2, <2>2, <2>3, <2>4, <2>5, NoCallIsPrepared, Assemble
<1>7. QED
  BY <1>1, <1>5, <1>6

-------------------------------------------------------------------------------

LEMMA NextIInv == IInv /\ [Next]_vars => IInv'
<1> SUFFICES ASSUME IInv, [Next]_vars PROVE IInv'
  OBVIOUS
<1>1. ASSUME NEW c \in Clients, Begin(c) PROVE IInv'
  BY <1>1, BeginStep
<1>2. ASSUME NEW c \in Clients, Handle(c) PROVE IInv'
  BY <1>2, PutPendingStep, GetPendingStep, RejectApplyStep, ReadRevisionStep, PutRevisionStep
  DEF Handle
<1>3. ASSUME NEW p \in Procs, Proceed(p) PROVE IInv'
  BY <1>3, CoreAnswersStep, GetRevisionStep, DropPendingStep, GetHeadStep, CommitStep,
     ReadHeadStep, PutHeadStep DEF Proceed
<1>4. ASSUME NEW p \in Procs, Cancel(p) PROVE IInv'
  BY <1>4, CancelStep
<1>5. CASE Restart \/ RecoverNext \/ Discard \/ Serve
  BY <1>5, RestartStep, RecoverNextStep, DiscardStep, ServeStep
<1>6. CASE DelayedArrives
  BY <1>6, DelayedArrivesStep
<1>7. CASE Crash
  BY <1>7, CrashStep
<1>8. CASE UNCHANGED vars
  <2>1. TypeOK'
    BY <1>8 DEF vars, store, IInv, TypeOK
  <2>2. HistoryMatchesCore' /\ HeadIsRecorded' /\ Grows
    BY <1>8, QuietStep DEF vars, store
  <2>3. StartIsAlone'
    BY <1>8 DEF vars, store, IInv, StartIsAlone
  <2>4. Startup \in Procs /\ Prepared(Startup)' /\ \A p \in Procs: proc'[p] = proc[p]
    BY <1>8, <2>1, <2>2, OthersStayPrepared DEF vars, IInv
  <2>5. QED
    BY <2>1, <2>2, <2>3, <2>4, Assemble
<1>9. QED
  BY <1>1, <1>2, <1>3, <1>4, <1>5, <1>6, <1>7, <1>8 DEF Next

THEOREM Invariance == Spec => []IInv
  BY InitIInv, NextIInv, PTL DEF Spec

-------------------------------------------------------------------------------
(***************************************************************************)
(* The theorems                                                            *)
(***************************************************************************)

\* Every state that the service reaches is one of the declared types: in
\* particular no call is made with a rule set that it has not been given.
THEOREM TypeCorrect == Spec => []TypeOK
<1>1. IInv => TypeOK
  BY DEF IInv
<1>2. QED
  BY <1>1, Invariance, PTL

\* However handlers, crashes, lost calls and late requests interleave, a revision in
\* the history (finishApply and reconcile in service.go) is what Core committed.
THEOREM HistoryIsCores == Spec => []HistoryMatchesCore
<1>1. IInv => HistoryMatchesCore
  BY DEF IInv
<1>2. QED
  BY <1>1, Invariance, PTL

-------------------------------------------------------------------------------
(***************************************************************************)
(* Success is recorded: which step answers a request with success, and     *)
(* what that step has made sure of.                                        *)
(***************************************************************************)

LEMMA OnlyTheActorAnswers ==
    ASSUME TypeOK, NEW c \in Clients, GivenAnswer(c, "ok"), NEW p \in Procs
    PROVE  /\ proc'[c] # proc[c]
           /\ (\A q \in Procs \ {p}: proc'[q] = proc[q]) => p = c
           /\ \A call \in Calls: ~GoTo(p, call)
           /\ \A code \in Answers: Answer(p, code) => p = c /\ code = "ok"
<1>1. "answered" \notin Calls /\ c # Startup /\ c \in Procs
  BY DEF Calls, ApplyCalls, FinishCalls, HeadCalls, CurrentCalls, StartCalls
<1>2. proc[c].call \in Calls /\ proc'[c].call = "answered" /\ proc'[c].answer = "ok"
  BY DEF GivenAnswer, At
<1>3. proc'[c] # proc[c]
  BY <1>1, <1>2
<1>4. (\A q \in Procs \ {p}: proc'[q] = proc[q]) => p = c
  BY <1>1, <1>3
<1>5. ASSUME NEW call \in Calls, GoTo(p, call) PROVE FALSE
  BY <1>1, <1>2, <1>4, <1>5, GoToEffect
<1>6. ASSUME NEW code \in Answers, Answer(p, code) PROVE p = c /\ code = "ok"
  <2>1. p = c
    BY <1>4, <1>6, AnswerEffect
  <2>2. proc'[c] = Answered(code)
    BY <1>1, <1>6, <2>1 DEF Answer, TypeOK
  <2>3. QED
    BY <1>2, <2>1, <2>2 DEF Answered, Fresh
<1>7. QED
  BY <1>3, <1>4, <1>5, <1>6

\* The three steps from which success can come.
LEMMA SuccessComesFrom ==
    ASSUME IInv, [Next]_vars, NEW c \in Clients, GivenAnswer(c, "ok")
    PROVE  \/ Commit(c) /\ CommitVerdict(c) = "ok"
           \/ /\ At(c, "readHead") /\ UNCHANGED <<log, store>> /\ Present(head)
              /\ head.val.rev >= proc[c].rev
           \/ PutHead(c) /\ Matches(head, proc[c].seen)
<1>1. TypeOK /\ c \in Procs /\ c # Startup /\ Startup \in Procs /\ proc'[c] # proc[c]
  BY OnlyTheActorAnswers DEF IInv
<1>2. proc[c].call \in Calls /\ ~Free(c)
  BY DEF GivenAnswer, Free, Calls, ApplyCalls, FinishCalls, HeadCalls, CurrentCalls, StartCalls
<1>3. /\ {"putPending", "getPending", "core", "reject", "getRevision", "dropPending", "getHead",
          "commit", "readHead", "putHead", "readRevision", "putRevision", "discard"} \subseteq Calls
      /\ {"ok", "invalid", "conflict", "reused", "not_found", "canceled"} \subseteq Answers
  BY DEF Calls, ApplyCalls, FinishCalls, HeadCalls, CurrentCalls, StartCalls, Answers
<1>4. ASSUME NEW d \in Clients, Begin(d) PROVE FALSE
  <2>1. d # c
    BY <1>2, <1>4 DEF Begin, BeginApply, BeginRestore, BeginCurrent
  <2>2. proc'[c] = proc[c]
    BY <1>1, <1>4, <2>1 DEF Begin, BeginApply, BeginRestore, BeginCurrent, StartApply, TypeOK
  <2>3. QED
    BY <1>1, <2>2
<1>5. ASSUME NEW d \in Clients, Handle(d) PROVE FALSE
  <2>1. d \in Procs
    OBVIOUS
  <2>2. ~PutPending(d) /\ ~PutRevision(d)
    BY <1>1, <1>3, <2>1, OnlyTheActorAnswers DEF PutPending, PutRevision
  <2>3. ~GetPending(d) /\ ~ReadRevision(d)
    BY <1>1, <1>3, <2>1, OnlyTheActorAnswers DEF GetPending, ReadRevision
  <2>4. ~RejectApply(d)
    <3> SUFFICES ASSUME RejectApply(d) PROVE FALSE
      OBVIOUS
    <3>1. proc[d].answer \in {"conflict", "invalid"}
      BY <2>1 DEF RejectApply, At, IInv, Prepared, HasArguments
    <3>2. QED
      BY <1>1, <1>3, <2>1, <3>1, OnlyTheActorAnswers DEF RejectApply
  <2>5. QED
    BY <1>5, <2>2, <2>3, <2>4 DEF Handle
<1>6. ASSUME NEW p \in Procs, Proceed(p)
      PROVE  \/ Commit(c) /\ CommitVerdict(c) = "ok"
             \/ /\ At(c, "readHead") /\ UNCHANGED <<log, store>> /\ Present(head)
                /\ head.val.rev >= proc[c].rev
             \/ PutHead(c) /\ Matches(head, proc[c].seen)
  <2>1. ~DropPending(p)
    BY <1>1, <1>3, OnlyTheActorAnswers DEF DropPending
  <2>2. ~GetRevision(p)
    BY <1>1, <1>3, OnlyTheActorAnswers DEF GetRevision
  <2>3. ~CoreAnswers(p)
    <3> SUFFICES ASSUME CoreAnswers(p) PROVE FALSE
      OBVIOUS
    <3>1. ~GoTo(p, "getRevision") /\ ~Answer(p, "conflict") /\ ~Answer(p, "invalid")
      BY <1>1, <1>3, OnlyTheActorAnswers
    <3>2. PICK verdict \in Answers: proc' = [proc EXCEPT ![p].call = "reject", ![p].answer = verdict]
      BY <1>3, <3>1 DEF CoreAnswers
    <3>3. (\A q \in Procs \ {p}: proc'[q] = proc[q]) /\ proc'[p].call = "reject"
      BY <3>2 DEF IInv, TypeOK, Local
    <3>4. p = c
      BY <1>1, <3>3, OnlyTheActorAnswers
    <3>5. QED
      BY <3>3, <3>4 DEF GivenAnswer, At
  <2>4. ~GetHead(p)
    <3> SUFFICES ASSUME GetHead(p) PROVE FALSE
      OBVIOUS
    <3>1. ~Answer(p, "conflict")
      BY <1>1, <1>3, OnlyTheActorAnswers
    <3>2. PICK lead, seen: proc' = [proc EXCEPT ![p].call = "commit", ![p].lead = lead, ![p].seen = seen]
      BY <3>1 DEF GetHead
    <3>3. (\A q \in Procs \ {p}: proc'[q] = proc[q]) /\ proc'[p].call = "commit"
      BY <3>2 DEF IInv, TypeOK, Local
    <3>4. p = c
      BY <1>1, <3>3, OnlyTheActorAnswers
    <3>5. QED
      BY <3>3, <3>4 DEF GivenAnswer, At
  <2>5. ASSUME Commit(p) PROVE p = c /\ CommitVerdict(c) = "ok"
    <3>1. CommitVerdict(p) \in Answers /\ Answer(p, CommitVerdict(p))
      BY <1>3, <2>5 DEF Commit, CommitVerdict
    <3>2. p = c /\ CommitVerdict(p) = "ok"
      BY <1>1, <3>1, OnlyTheActorAnswers
    <3>3. QED
      BY <3>2
  <2>6. ASSUME ReadHead(p)
        PROVE  /\ At(c, "readHead") /\ UNCHANGED <<log, store>> /\ Present(head)
               /\ head.val.rev >= proc[c].rev
    <3>1. ~Answer(p, "conflict")
      BY <1>1, <1>3, OnlyTheActorAnswers
    <3>2. CASE /\ Present(head) /\ (head.val.rev > proc[p].rev \/ head.val = RuleSetOf(p))
               /\ Answer(p, "ok")
      <4>1. p = c
        BY <1>1, <1>3, <3>2, OnlyTheActorAnswers
      <4>2. head.val.rev \in Nat /\ proc[p].rev \in Nat
        <5>1. head.val \in RuleSet
          BY <1>1, <3>2, HeadJustRead
        <5>2. proc[p] \in Local
          BY <1>1 DEF TypeOK
        <5>3. QED
          BY <5>1, <5>2 DEF RuleSet, Local
      <4>3. head.val.rev >= proc[c].rev
        BY <3>2, <4>1, <4>2 DEF RuleSetOf
      <4>4. QED
        BY <2>6, <3>2, <4>1, <4>3 DEF ReadHead
    <3>3. CASE proc' = [proc EXCEPT ![p].call = "putHead", ![p].seen = head.ver]
      <4>1. (\A q \in Procs \ {p}: proc'[q] = proc[q]) /\ proc'[p].call = "putHead"
        BY <3>3 DEF IInv, TypeOK, Local
      <4>2. p = c
        BY <1>1, <4>1, OnlyTheActorAnswers
      <4>3. QED
        BY <4>1, <4>2 DEF GivenAnswer, At
    <3>4. QED
      BY <2>6, <3>1, <3>2, <3>3 DEF ReadHead
  <2>7. ASSUME PutHead(p) PROVE p = c /\ Matches(head, proc[c].seen)
    BY <1>1, <1>3, <2>7, OnlyTheActorAnswers DEF PutHead
  <2>8. QED
    BY <1>6, <2>1, <2>2, <2>3, <2>4, <2>5, <2>6, <2>7 DEF Proceed
<1>7. ASSUME NEW p \in Procs, Cancel(p) PROVE FALSE
  BY <1>1, <1>3, <1>7, OnlyTheActorAnswers DEF Cancel
<1>8. CASE Restart
  BY <1>1, <1>8 DEF Restart, TypeOK
<1>9. CASE RecoverNext
  <2>1. ~Answer(Startup, "conflict")
    BY <1>1, <1>3, OnlyTheActorAnswers
  <2>2. PICK s: proc' = [proc EXCEPT ![Startup] = s]
    BY <1>9, <2>1 DEF RecoverNext
  <2>3. QED
    BY <1>1, <2>2 DEF TypeOK
<1>10. CASE Discard
  BY <1>1, <1>3, <1>10, OnlyTheActorAnswers DEF Discard
<1>11. CASE Serve \/ DelayedArrives \/ UNCHANGED vars
  BY <1>1, <1>11 DEF Serve, DelayedArrives, vars
<1>12. CASE Crash
  BY <1>1, <1>12 DEF Crash, Blank, Fresh, GivenAnswer, At
<1>13. QED
  BY <1>4, <1>5, <1>6, <1>7, <1>8, <1>9, <1>10, <1>11, <1>12 DEF Next

LEMMA SuccessStep ==
    ASSUME IInv, [Next]_vars, NEW c \in Clients, GivenAnswer(c, "ok")
    PROVE  LET rev == proc[c].rev IN
           /\ rev <= Len(log') /\ log'[rev] = proc[c].rules
           /\ Present(history'[rev]) /\ history'[rev].val = proc[c].rules
           /\ Present(head') /\ head'.val.rev >= rev
<1> DEFINE rev == proc[c].rev
<1>1. c \in Procs /\ TypeOK /\ HistoryMatchesCore /\ Prepared(c)
  BY DEF IInv
<1>2. CASE Commit(c) /\ CommitVerdict(c) = "ok"
  <2>1. /\ proc[c].call = "commit" /\ UNCHANGED log
        /\ history' = [history EXCEPT ![rev] = Written(history[rev], proc[c].rules)]
        /\ head' = IF proc[c].lead THEN Written(head, RuleSetOf(c)) ELSE head
        /\ Matches(history[rev], 0) /\ (proc[c].lead => Matches(head, proc[c].seen))
    BY <1>2 DEF Commit, At, CommitVerdict
  <2>2. rev \in Revisions /\ proc[c].rules \in Rules /\ rev <= Len(log) /\ log[rev] = proc[c].rules
    BY <1>1, <2>1 DEF Prepared, HasArguments, HasCommitted, FinishCalls, Calls
  <2>3. Present(history'[rev]) /\ history'[rev].val = proc[c].rules
    BY <1>1, <2>1, <2>2, RecordEffect
  <2>4. Present(head') /\ head'.val.rev >= rev
    <3>1. CASE proc[c].lead
      <4>1. HeadMayMove(c)
        BY <1>1, <2>1, <3>1 DEF Prepared, HasSeenHead
      <4>2. Present(head') /\ head'.val = RuleSetOf(c)
        BY <1>1, <2>1, <2>2, <3>1, <4>1, MoveHeadEffect
      <4>3. QED
        BY <2>2, <4>2 DEF RuleSetOf
    <3>2. CASE ~proc[c].lead
      BY <1>1, <2>1, <3>2 DEF Prepared, HasSeenHead
    <3>3. QED
      BY <3>1, <3>2
  <2>5. QED
    BY <2>1, <2>2, <2>3, <2>4
<1>3. CASE /\ At(c, "readHead") /\ UNCHANGED <<log, store>> /\ Present(head)
           /\ head.val.rev >= rev
  <2>1. rev \in Revisions /\ rev <= Len(log) /\ log[rev] = proc[c].rules /\ Present(history[rev])
    BY <1>1, <1>3 DEF At, Prepared, HasArguments, HasCommitted, HasSeenHead, HeadCalls, Calls
  <2>2. history[rev].val = proc[c].rules
    BY <1>1, <2>1 DEF HistoryMatchesCore
  <2>3. QED
    BY <1>3, <2>1, <2>2 DEF store
<1>4. CASE PutHead(c) /\ Matches(head, proc[c].seen)
  <2>1. /\ proc[c].call = "putHead" /\ UNCHANGED <<log, history>>
        /\ head' = Written(head, RuleSetOf(c))
    BY <1>4 DEF PutHead, At
  <2>2. rev \in Revisions /\ proc[c].rules \in Rules /\ rev <= Len(log) /\ log[rev] = proc[c].rules
        /\ Present(history[rev]) /\ HeadMayMove(c)
    BY <1>1, <2>1 DEF Prepared, HasArguments, HasCommitted, HasSeenHead, HeadCalls, Calls
  <2>3. Present(head') /\ head'.val = RuleSetOf(c)
    BY <1>1, <1>4, <2>1, <2>2, MoveHeadEffect
  <2>4. history[rev].val = proc[c].rules
    BY <1>1, <2>2 DEF HistoryMatchesCore
  <2>5. QED
    BY <2>1, <2>2, <2>3, <2>4 DEF RuleSetOf
<1>5. QED
  BY <1>2, <1>3, <1>4, SuccessComesFrom

\* No client is told that an apply, a restore or a read has succeeded before Core has
\* committed its rules, the history holds them and the head has reached them, even if
\* handlers of several requests finish each other's work (finishApply, writeHead).
THEOREM SuccessMeansRecorded == Spec => SuccessIsRecorded
<1>1. IInv /\ [Next]_vars =>
        [\A c \in Clients: GivenAnswer(c, "ok") =>
            LET rev == proc[c].rev IN
            /\ rev <= Len(log') /\ log'[rev] = proc[c].rules
            /\ Present(history'[rev]) /\ history'[rev].val = proc[c].rules
            /\ Present(head') /\ head'.val.rev >= rev]_vars
  BY SuccessStep
<1>2. QED
  BY <1>1, Invariance, PTL DEF Spec, SuccessIsRecorded

-------------------------------------------------------------------------------
(***************************************************************************)
(* Refinement: the history and its head implement the ledger.              *)
(***************************************************************************)

LEMMA LedgerInit == Init => Ledger!Init
  BY DEF Init, Ledger!Init, Absent

\* The names that the ledger has for what the history and the head say.
LEMMA LedgerNames ==
    ASSUME TypeOK
    PROVE  /\ \A n \in Revisions: Present(history[n]) <=> history[n].val # NoValue
           /\ Present(head) <=> head.val # NoValue
<1>1. ASSUME NEW n \in Revisions PROVE Present(history[n]) <=> history[n].val # NoValue
  <2>1. history[n] \in RecordOf(Rules)
    BY DEF TypeOK
  <2>2. QED
    BY <2>1 DEF RecordOf, Absent, Present
<1>2. Present(head) <=> head.val # NoValue
  <2>1. CASE head = Absent
    BY <2>1 DEF Absent, Present
  <2>2. CASE head # Absent
    <3>1. head.ver \in Nat \ {0} /\ head.val \in RuleSet
      BY <2>2 DEF TypeOK, RecordOf
    <3>2. head.val \in [rev: Nat, rules: Rules]
      BY <3>1 DEF RuleSet
    <3>3. QED
      BY <3>1, <3>2 DEF Present
  <2>3. QED
    BY <2>1, <2>2
<1>3. QED
  BY <1>1, <1>2

LEMMA LedgerStutters ==
    ASSUME UNCHANGED <<log, history, head>>
    PROVE  [Ledger!Next]_(Ledger!vars)
  BY DEF Ledger!vars

LEMMA LedgerCommits ==
    ASSUME NEW rev, NEW rules \in Rules, CoreApplies(rev, rules), UNCHANGED <<history, head>>
    PROVE  [Ledger!Next]_(Ledger!vars)
<1>1. CASE log' = Append(log, rules)
  BY <1>1 DEF Ledger!Next, Ledger!Committed
<1>2. CASE log' = log
  BY <1>2 DEF Ledger!vars
<1>3. QED
  BY <1>1, <1>2 DEF CoreApplies

\* A record of the ledger, as RecordEffect describes the write.
LEMMA LedgerRecords ==
    ASSUME TypeOK, HistoryMatchesCore, NEW p \in Procs,
           NEW n \in Revisions, n = proc[p].rev, proc[p].rules \in Rules,
           proc[p].rev <= Len(log), log[proc[p].rev] = proc[p].rules,
           Matches(history[proc[p].rev], 0), UNCHANGED log,
           history' = [history EXCEPT ![proc[p].rev] = Written(history[proc[p].rev], proc[p].rules)]
    PROVE  Ledger!Recorded(n)
<1>1. ~Present(history[n])
  BY DEF Matches, Unchecked, Present
<1>2. history[n].val = NoValue
  BY <1>1, LedgerNames
<1>3. [m \in Revisions |-> history'[m].val] =
        [[m \in Revisions |-> history[m].val] EXCEPT ![n] = log[n]]
  BY DEF TypeOK, Written
<1>4. QED
  BY <1>2, <1>3 DEF Ledger!Recorded

\* A move of the ledger's tip, as MoveHeadEffect describes the write.
LEMMA LedgerAdvances ==
    ASSUME TypeOK, NEW p \in Procs, NEW n \in Revisions, n = proc[p].rev,
           proc[p].rules \in Rules, HeadMayMove(p), Matches(head, proc[p].seen), head' = Written(head, RuleSetOf(p)),
           history'[n].val = proc[p].rules
    PROVE  Ledger!Advanced(n)
<1>1. head'.val = RuleSetOf(p) /\ (Present(head) => head'.val.rev > head.val.rev)
  BY MoveHeadEffect
<1>2. head.val # NoValue => head.val.rev < proc[p].rev
  <2>1. head.val # NoValue => Present(head)
    BY LedgerNames
  <2>2. Present(head) => head.val \in RuleSet
    BY HeadJustRead
  <2>3. QED
    BY <1>1, <2>1, <2>2 DEF RuleSetOf, RuleSet
<1>3. proc[p].rules # NoValue
  OBVIOUS
<1>4. QED
  BY <1>1, <1>2, <1>3 DEF Ledger!Advanced, RuleSetOf

LEMMA LedgerCommitStep ==
    ASSUME IInv, NEW p \in Procs, Commit(p)
    PROVE  [Ledger!Next]_(Ledger!vars)
<1> DEFINE rev == proc[p].rev
<1>1. proc[p].call = "commit" /\ UNCHANGED log /\ TypeOK /\ HistoryMatchesCore /\ Prepared(p)
  BY DEF Commit, At, IInv
<1>2. rev \in Revisions /\ proc[p].rules \in Rules /\ rev <= Len(log) /\ log[rev] = proc[p].rules
  BY <1>1 DEF Prepared, HasArguments, HasCommitted, FinishCalls, Calls
<1> PICK n \in Revisions: n = rev
  BY <1>2
<1>3. CASE CommitVerdict(p) # "ok"
  BY <1>1, <1>3, LedgerStutters DEF Commit, store
<1>4. CASE CommitVerdict(p) = "ok"
  <2>1. /\ history' = [history EXCEPT ![rev] = Written(history[rev], proc[p].rules)]
        /\ head' = IF proc[p].lead THEN Written(head, RuleSetOf(p)) ELSE head
        /\ Matches(history[rev], 0) /\ (proc[p].lead => Matches(head, proc[p].seen))
    BY <1>4 DEF Commit, CommitVerdict
  <2>2. Ledger!Recorded(n) /\ history'[rev].val = proc[p].rules
    BY <1>1, <1>2, <2>1, LedgerRecords, RecordEffect
  <2>3. CASE proc[p].lead
    <3>1. HeadMayMove(p)
      BY <1>1, <2>3 DEF Prepared, HasSeenHead
    <3>2. Ledger!Advanced(n)
      BY <1>1, <1>2, <2>1, <2>2, <2>3, <3>1, LedgerAdvances
    <3>3. QED
      BY <1>1, <1>2, <2>2, <3>2 DEF Ledger!Next
  <2>4. CASE ~proc[p].lead
    <3>1. head' = head
      BY <2>1, <2>4
    <3>2. QED
      BY <1>1, <1>2, <2>2, <3>1 DEF Ledger!Next
  <2>5. QED
    BY <2>3, <2>4
<1>5. QED
  BY <1>3, <1>4

LEMMA LedgerPutHeadStep ==
    ASSUME IInv, NEW p \in Procs, PutHead(p)
    PROVE  [Ledger!Next]_(Ledger!vars)
<1>1. proc[p].call = "putHead" /\ UNCHANGED <<log, history>> /\ TypeOK /\ Prepared(p)
  BY DEF PutHead, At, IInv
<1>2. proc[p].rev \in Revisions /\ proc[p].rules \in Rules /\ proc[p].rev <= Len(log)
      /\ log[proc[p].rev] = proc[p].rules /\ Present(history[proc[p].rev]) /\ HeadMayMove(p)
  BY <1>1 DEF Prepared, HasArguments, HasCommitted, HasSeenHead, HeadCalls, Calls
<1> PICK n \in Revisions: n = proc[p].rev
  BY <1>2
<1>3. CASE ~Matches(head, proc[p].seen)
  BY <1>1, <1>3, LedgerStutters DEF PutHead
<1>4. CASE Matches(head, proc[p].seen)
  <2>1. history'[proc[p].rev].val = proc[p].rules
    BY <1>1, <1>2 DEF IInv, HistoryMatchesCore
  <2>2. Ledger!Advanced(n)
    BY <1>1, <1>2, <1>4, <2>1, LedgerAdvances DEF PutHead
  <2>3. QED
    BY <1>1, <1>2, <2>2 DEF Ledger!Next
<1>5. QED
  BY <1>3, <1>4

LEMMA LedgerPutRevisionStep ==
    ASSUME IInv, NEW c \in Clients, PutRevision(c)
    PROVE  [Ledger!Next]_(Ledger!vars)
<1>1. c \in Procs /\ proc[c].call = "putRevision" /\ UNCHANGED <<log, head>>
      /\ TypeOK /\ HistoryMatchesCore /\ Prepared(c)
  BY DEF PutRevision, At, IInv
<1>2. proc[c].rev \in Revisions /\ proc[c].rules \in Rules /\ proc[c].rev <= Len(log)
      /\ log[proc[c].rev] = proc[c].rules
  BY <1>1 DEF Prepared, HasArguments, HasCommitted, CurrentCalls, Calls
<1> PICK n \in Revisions: n = proc[c].rev
  BY <1>2
<1>3. CASE ~Matches(history[proc[c].rev], 0)
  BY <1>1, <1>3, LedgerStutters DEF PutRevision
<1>4. CASE Matches(history[proc[c].rev], 0)
  <2>1. Ledger!Recorded(n)
    BY <1>1, <1>2, <1>4, LedgerRecords DEF PutRevision
  <2>2. QED
    BY <1>1, <1>2, <2>1 DEF Ledger!Next
<1>5. QED
  BY <1>3, <1>4

LEMMA LedgerStep ==
    ASSUME IInv, [Next]_vars
    PROVE  [Ledger!Next]_(Ledger!vars)
<1>1. ASSUME NEW c \in Clients, Begin(c) PROVE UNCHANGED <<log, history, head>>
  BY <1>1 DEF Begin, BeginApply, BeginRestore, BeginCurrent, store
<1>2. ASSUME NEW c \in Clients, Handle(c) PROVE [Ledger!Next]_(Ledger!vars)
  <2>1. CASE PutRevision(c)
    BY <2>1, LedgerPutRevisionStep
  <2>2. CASE PutPending(c) \/ GetPending(c) \/ RejectApply(c) \/ ReadRevision(c)
    BY <2>2, LedgerStutters DEF PutPending, GetPending, RejectApply, ReadRevision, store
  <2>3. QED
    BY <1>2, <2>1, <2>2 DEF Handle
<1>3. ASSUME NEW p \in Procs, Proceed(p) PROVE [Ledger!Next]_(Ledger!vars)
  <2>1. CASE CoreAnswers(p)
    <3>1. proc[p].rules \in Rules
      BY <2>1 DEF CoreAnswers, At, IInv, Prepared, HasArguments, Calls, ApplyCalls
    <3>2. QED
      BY <2>1, <3>1, LedgerCommits DEF CoreAnswers, store
  <2>2. CASE Commit(p)
    BY <2>2, LedgerCommitStep
  <2>3. CASE PutHead(p)
    BY <2>3, LedgerPutHeadStep
  <2>4. CASE GetRevision(p) \/ DropPending(p) \/ GetHead(p) \/ ReadHead(p)
    BY <2>4, LedgerStutters DEF GetRevision, DropPending, GetHead, ReadHead, store
  <2>5. QED
    BY <1>3, <2>1, <2>2, <2>3, <2>4 DEF Proceed
<1>4. CASE DelayedArrives
  <2>1. PICK m \in delayed: CoreApplies(m.rev, m.rules) /\ UNCHANGED store
    BY <1>4 DEF DelayedArrives
  <2>2. m.rules \in Rules
    BY DEF IInv, TypeOK, RuleSet
  <2>3. QED
    BY <2>1, <2>2, LedgerCommits DEF store
<1>5. ASSUME NEW p \in Procs, Cancel(p) PROVE UNCHANGED <<log, history, head>>
  BY <1>5 DEF Cancel, store
<1>6. CASE Restart \/ RecoverNext \/ Discard \/ Serve \/ Crash \/ UNCHANGED vars
  BY <1>6, LedgerStutters DEF Restart, RecoverNext, Discard, Serve, Crash, vars, store
<1>7. QED
  BY <1>1, <1>2, <1>3, <1>4, <1>5, <1>6, LedgerStutters DEF Next

\* The history of sync rules keeps what RuleLedger promises: a record is Core's, it
\* is written once, and the head moves only forward and only to recorded revisions.
THEOREM HistoryImplementsLedger == Spec => ImplementsLedger
<1>1. IInv /\ [Next]_vars => [Ledger!Next]_(Ledger!vars)
  BY LedgerStep
<1>2. QED
  BY <1>1, LedgerInit, Invariance, PTL DEF Spec, ImplementsLedger, Ledger!Spec

===============================================================================
