-------------------------- MODULE ControlStoreProofs --------------------------
(***************************************************************************)
(* Theorems about ControlStore, for any callers, keys, values, requests    *)
(* and batch size.                                                         *)
(***************************************************************************)
EXTENDS ControlStore, TLAPS

(***************************************************************************)
(* What the holder of the mutex has established.  It checks, plans and     *)
(* stages against records that nobody else changes meanwhile, so all of it *)
(* still holds when the transaction is committed.                          *)
(***************************************************************************)

\* The mutex has one holder, and what the section keeps is empty when it has none.
OneHolder ==
    /\ \A c \in Callers: calls[c].step \in Inside <=> lock = c
    /\ lock = NoValue => plan = <<>> /\ written = 0 /\ todo = {}

\* The mutations that have been checked were in order, and the plan has the versions
\* that follow the stored ones.
Checked(c) ==
    /\ Len(plan) <= Len(Batch(c))
    /\ \A i \in 1 .. Len(plan):
        CheckVerdict(c, i) = "ok" /\ plan[i] = NextVersion(Batch(c)[i].key)

\* The record that the ith mutation makes.
Outcome(c, i) ==
    IF Batch(c)[i].op = "put" THEN [ver |-> plan[i], val |-> Batch(c)[i].value] ELSE Absent

\* The transaction holds the outcomes of the mutations written, and nothing else new.
Staged(c) ==
    /\ Len(plan) = Len(Batch(c))
    /\ written <= Len(Batch(c))
    /\ tx \in [Keys -> Records]
    /\ \A i \in 1 .. written: tx[Batch(c)[i].key] = Outcome(c, i)
    /\ \A k \in Keys: (\A i \in 1 .. written: Batch(c)[i].key # k) => tx[k] = records[k]

\* A list has the records that match, of those it has read.
Scanned(c) ==
    /\ todo \subseteq {k \in Keys: Present(records[k])}
    /\ calls[c].result =
          {<<k, records[k]>>: k \in {j \in calls[c].request.keys: Present(records[j])} \ todo}

Serving(c) ==
    /\ calls[c].step \in Inside \cup {"lock"} => calls[c].request \in Requests
    /\ At(c, "lock") => calls[c].result = {}
    /\ At(c, "get") => Kind(c) = "get"
    /\ At(c, "scan") => Kind(c) = "list" /\ Scanned(c)
    /\ calls[c].step \in {"check", "write"} =>
        Kind(c) = "apply" /\ Len(Batch(c)) \in 1 .. MaxBatch /\ Checked(c)
    /\ At(c, "check") => written = 0
    /\ At(c, "write") => Staged(c)

IInv ==
    /\ TypeOK
    /\ OneHolder
    /\ \A c \in Callers: Serving(c)

-------------------------------------------------------------------------------
(***************************************************************************)
(* Requests and what the shared steps do                                   *)
(***************************************************************************)

LEMMA BatchOf ==
    ASSUME NEW c \in Callers, calls[c].request \in Requests, Kind(c) = "apply"
    PROVE  /\ Batch(c) \in Seq(Mutations)
           /\ \A i \in 1 .. Len(Batch(c)):
                /\ Batch(c)[i].key \in Keys
                /\ Batch(c)[i].op = "put" => Batch(c)[i].value \in Values
<1>1. Batch(c) \in Seq(Mutations)
  BY StoreAssumption DEF AllRequests, Kind, Batch
<1>2. ASSUME NEW i \in 1 .. Len(Batch(c)) PROVE Batch(c)[i] \in Mutations
  BY <1>1
<1>3. QED
  BY <1>1, <1>2 DEF Mutations

LEMMA ReadOf ==
    ASSUME NEW c \in Callers, calls[c].request \in Requests
    PROVE  /\ Kind(c) \in {"apply", "get", "list"}
           /\ Kind(c) = "get" => calls[c].request.key \in Keys
           /\ Kind(c) = "list" => calls[c].request.keys \subseteq Keys
  BY StoreAssumption DEF AllRequests, Kind

\* What a caller that does not take the step has established stays true: the section
\* changes only in the hands of its holder.
LEMMA OthersServe ==
    ASSUME NEW c \in Callers, Serving(c), calls'[c] = calls[c],
           calls[c].step \in Inside => UNCHANGED <<records, section>>
    PROVE  Serving(c)'
<1>1. CASE calls[c].step \in Inside
  BY <1>1 DEF Serving, At, Kind, Batch, Scanned, Checked, Staged, Outcome, CheckVerdict,
          NextVersion, section
<1>2. CASE calls[c].step \notin Inside
  BY <1>2 DEF Serving, At, Inside
<1>3. QED
  BY <1>1, <1>2

\* A caller outside has established nothing.
LEMMA OutsideServes ==
    ASSUME NEW c \in Callers, calls'[c].step \in {"idle", "answered"}
    PROVE  Serving(c)'
  BY DEF Serving, At, Inside

\* A holder's answer with the unlock.
LEMMA LeaveStep ==
    ASSUME IInv, NEW c \in Callers, calls[c].step \in Inside,
           NEW code \in Codes, NEW result \in SUBSET (Keys \X Records),
           Answer(c, code, result), Unlock, records' \in [Keys -> Records]
    PROVE  IInv'
<1> USE DEF IInv
<1>1. lock = c /\ \A d \in Callers \ {c}: calls[d].step \notin Inside
  BY DEF OneHolder
<1>2. calls'[c] \in Local /\ calls'[c].step = "answered"
  BY DEF TypeOK, Local, Answer, Outside
<1>3. \A d \in Callers \ {c}: calls'[d] = calls[d]
  BY DEF TypeOK, Answer
<1>4. TypeOK'
  BY <1>2, <1>3 DEF TypeOK, Unlock, Answer
<1>5. OneHolder'
  BY <1>1, <1>2, <1>3, StoreAssumption DEF OneHolder, Unlock, Inside
<1>6. ASSUME NEW d \in Callers PROVE Serving(d)'
  BY <1>1, <1>2, <1>3, OthersServe, OutsideServes
<1>7. QED
  BY <1>4, <1>5, <1>6

\* An answer of a caller that does not have the mutex.
LEMMA AnswerOutsideStep ==
    ASSUME IInv, NEW c \in Callers, At(c, "lock"), NEW code \in Codes,
           Answer(c, code, {}), UNCHANGED <<records, section>>
    PROVE  IInv'
<1> USE DEF IInv
<1>1. lock # c
  BY DEF OneHolder, At, Inside
<1>2. calls'[c] \in Local /\ calls'[c].step = "answered"
  BY DEF TypeOK, Local, Answer, Outside
<1>3. \A d \in Callers \ {c}: calls'[d] = calls[d]
  BY DEF TypeOK, Answer
<1>4. TypeOK'
  BY <1>2, <1>3 DEF TypeOK, section, Answer
<1>5. OneHolder'
  BY <1>1, <1>2, <1>3 DEF OneHolder, section, Inside
<1>6. ASSUME NEW d \in Callers PROVE Serving(d)'
  BY <1>2, <1>3, OthersServe, OutsideServes
<1>7. QED
  BY <1>4, <1>5, <1>6

-------------------------------------------------------------------------------
(***************************************************************************)
(* The invariant                                                           *)
(***************************************************************************)

LEMMA InitIInv == Init => IInv
<1> SUFFICES ASSUME Init PROVE IInv
  OBVIOUS
<1>1. Idle \in Local
  BY DEF Idle, Local, Outside, Codes
<1>2. TypeOK
  BY <1>1 DEF Init, TypeOK, Records, RecordOf, Absent
<1>3. OneHolder
  BY StoreAssumption DEF Init, Idle, OneHolder, Inside
<1>4. ASSUME NEW c \in Callers PROVE Serving(c)
  BY DEF Init, Idle, Serving, At, Inside
<1>5. QED
  BY <1>2, <1>3, <1>4 DEF IInv

LEMMA InvokeStep ==
    ASSUME IInv, NEW c \in Callers, NEW request \in Requests, Invoke(c, request)
    PROVE  IInv'
<1> USE DEF IInv
<1>1. lock # c
  BY DEF OneHolder, Invoke, Inside
<1>2. /\ calls'[c] \in Local
      /\ calls'[c].step = "lock" /\ calls'[c].request = request /\ calls'[c].result = {}
  BY DEF TypeOK, Invoke, Idle, Local, Outside, Codes
<1>3. \A d \in Callers \ {c}: calls'[d] = calls[d]
  BY DEF TypeOK, Invoke
<1>4. TypeOK'
  BY <1>2, <1>3 DEF TypeOK, section, Invoke
<1>5. OneHolder'
  BY <1>1, <1>2, <1>3 DEF OneHolder, section, Invoke, Inside
<1>6. Serving(c)'
  BY <1>2 DEF Serving, At
<1>7. ASSUME NEW d \in Callers \ {c} PROVE Serving(d)'
  BY <1>3, OthersServe DEF Invoke
<1>8. QED
  BY <1>4, <1>5, <1>6, <1>7

LEMMA AcquireStep ==
    ASSUME IInv, NEW c \in Callers, Acquire(c)
    PROVE  IInv'
<1> USE DEF IInv
<1> DEFINE next == CASE Kind(c) = "get" -> "get" [] Kind(c) = "list" -> "scan" [] OTHER -> "check"
<1>1. /\ calls[c].step = "lock" /\ lock = NoValue /\ calls[c].request \in Requests
      /\ plan = <<>> /\ written = 0 /\ calls[c].result = {} /\ UNCHANGED <<records, plan, written>>
      /\ \A d \in Callers: calls[d].step \notin Inside
  BY StoreAssumption DEF Acquire, At, OneHolder, Serving
<1>2. /\ next \in {"get", "scan", "check"}
      /\ next = "get" => Kind(c) = "get"
      /\ next = "scan" <=> Kind(c) = "list"
      /\ next = "check" => Kind(c) = "apply"
  BY <1>1, ReadOf
<1>3. calls' = [calls EXCEPT ![c].step = next]
  BY DEF Acquire, GoTo
<1>4. /\ calls'[c] \in Local
      /\ calls'[c].step = next /\ calls'[c].request = calls[c].request /\ calls'[c].result = {}
  BY <1>1, <1>2, <1>3 DEF TypeOK, Local, Inside
<1>5. \A d \in Callers \ {c}: calls'[d] = calls[d]
  BY <1>3 DEF TypeOK
<1>6. TypeOK'
  BY <1>1, <1>3, <1>4, <1>5 DEF TypeOK, Acquire
<1>7. OneHolder'
  BY <1>1, <1>2, <1>4, <1>5, StoreAssumption DEF OneHolder, Acquire, Inside
<1>8. Serving(c)'
  <2>1. next = "scan" => Scanned(c)'
    <3> HAVE next = "scan"
    <3>1. todo' = {k \in Keys: Present(records[k])} /\ calls[c].request.keys \subseteq Keys
      BY <1>1, <1>2, ReadOf DEF Acquire
    <3>2. {k \in calls[c].request.keys: Present(records[k])} \ todo' = {}
      BY <3>1
    <3>3. QED
      BY <1>1, <1>4, <3>1, <3>2 DEF Scanned
  <2>2. next = "check" => (Len(Batch(c)) \in 1 .. MaxBatch /\ Checked(c))'
    <3> HAVE next = "check"
    <3>1. Len(Batch(c)) \in 1 .. MaxBatch /\ Batch(c)' = Batch(c)
      BY <1>2, <1>4 DEF Acquire, Batch
    <3>2. QED
      BY <1>1, <3>1 DEF Checked
  <2>3. QED
    BY <1>1, <1>2, <1>4, <2>1, <2>2 DEF Serving, At, Kind
<1>9. ASSUME NEW d \in Callers \ {c} PROVE Serving(d)'
  BY <1>1, <1>5, OthersServe
<1>10. QED
  BY <1>6, <1>7, <1>8, <1>9

LEMMA GetRecordStep ==
    ASSUME IInv, NEW c \in Callers, GetRecord(c)
    PROVE  IInv'
<1>1. calls[c].step \in Inside /\ calls[c].request.key \in Keys /\ records' = records
  BY ReadOf DEF IInv, Serving, GetRecord, At, Inside
<1>2. PICK code \in Codes, result \in SUBSET (Keys \X Records): Answer(c, code, result)
  <2> DEFINE k == calls[c].request.key
  <2>1. {<<k, records[k]>>} \in SUBSET (Keys \X Records)
    BY <1>1 DEF IInv, TypeOK
  <2>2. {} \in SUBSET (Keys \X Records) /\ {"ok", "not_found"} \subseteq Codes
    BY DEF Codes
  <2>3. QED
    BY <2>1, <2>2 DEF GetRecord
<1>3. QED
  BY <1>1, <1>2, LeaveStep DEF GetRecord, IInv, TypeOK

LEMMA ScanRecordStep ==
    ASSUME IInv, NEW c \in Callers, ScanRecord(c)
    PROVE  IInv'
<1> USE DEF IInv
<1> DEFINE keys == calls[c].request.keys
<1>1. calls[c].step = "scan" /\ UNCHANGED <<records, tx, lock, plan, written>>
  BY DEF ScanRecord, At
<1>2. PICK k \in todo:
        /\ todo' = todo \ {k}
        /\ calls' = [calls EXCEPT ![c].result =
                        IF k \in keys THEN @ \cup {<<k, records[k]>>} ELSE @]
  BY DEF ScanRecord
<1>3. lock = c /\ \A d \in Callers \ {c}: calls[d].step \notin Inside
  BY <1>1 DEF OneHolder, Inside
<1>4. /\ calls[c].request \in Requests /\ Kind(c) = "list" /\ Scanned(c)
      /\ keys \subseteq Keys /\ k \in Keys /\ Present(records[k])
  BY <1>1, ReadOf DEF Serving, At, Inside, Scanned
<1>5. <<k, records[k]>> \in Keys \X Records
  BY <1>4 DEF TypeOK
<1>6. /\ calls'[c] \in Local
      /\ calls'[c].step = "scan" /\ calls'[c].request = calls[c].request
      /\ calls'[c].result = IF k \in keys THEN calls[c].result \cup {<<k, records[k]>>}
                            ELSE calls[c].result
  BY <1>1, <1>2, <1>5 DEF TypeOK, Local
<1>7. \A d \in Callers \ {c}: calls'[d] = calls[d]
  BY <1>2 DEF TypeOK
<1>8. TypeOK'
  BY <1>1, <1>2, <1>6, <1>7 DEF TypeOK
<1>9. OneHolder'
  BY <1>1, <1>3, <1>6, <1>7, StoreAssumption DEF OneHolder, Inside
<1>10. Scanned(c)'
  BY <1>1, <1>2, <1>4, <1>6 DEF Scanned
<1>11. Serving(c)'
  BY <1>4, <1>6, <1>10 DEF Serving, At, Kind
<1>12. ASSUME NEW d \in Callers \ {c} PROVE Serving(d)'
  BY <1>3, <1>7, OthersServe
<1>13. QED
  BY <1>8, <1>9, <1>11, <1>12

LEMMA FinishScanStep ==
    ASSUME IInv, NEW c \in Callers, FinishScan(c)
    PROVE  IInv'
<1>1. calls[c].step \in Inside /\ records' = records
  BY DEF FinishScan, At, Inside
<1>2. calls[c].result \in SUBSET (Keys \X Records) /\ "ok" \in Codes
  BY DEF IInv, TypeOK, Local, Codes
<1>3. QED
  BY <1>1, <1>2, LeaveStep DEF FinishScan, IInv, TypeOK

\* A mutation found in order is planned; the first that is not ends the call.
LEMMA CheckStep ==
    ASSUME IInv, NEW c \in Callers, Check(c)
    PROVE  IInv'
<1> USE DEF IInv
<1> DEFINE i == Len(plan) + 1
<1>1. calls[c].step = "check" /\ records' = records /\ plan \in Seq(Nat)
  BY DEF Check, At, TypeOK
<1>2. /\ calls[c].request \in Requests /\ Kind(c) = "apply" /\ Checked(c) /\ written = 0
      /\ Len(Batch(c)) \in 1 .. MaxBatch
  BY <1>1 DEF Serving, At, Inside
<1>3. Len(plan) \in Nat /\ i \in 1 .. Len(Batch(c)) /\ Batch(c)[i].key \in Keys
  BY <1>1, <1>2, BatchOf DEF Check
<1>4. CASE CheckVerdict(c, i) = "ok"
  <2>1. plan' = Append(plan, NextVersion(Batch(c)[i].key)) /\ UNCHANGED <<tx, lock, written, todo, calls>>
    BY <1>4 DEF Check
  <2>2. NextVersion(Batch(c)[i].key) \in Nat
    BY <1>3 DEF TypeOK, Records, RecordOf, Absent, NextVersion
  <2>3. /\ plan' \in Seq(Nat) /\ Len(plan') = i /\ plan'[i] = NextVersion(Batch(c)[i].key)
        /\ \A j \in 1 .. Len(plan): plan'[j] = plan[j]
    BY <1>1, <2>1, <2>2
  <2>4. TypeOK'
    BY <1>1, <2>1, <2>3 DEF TypeOK
  <2>5. OneHolder'
    BY <1>1, <2>1, StoreAssumption DEF OneHolder, Inside
  <2>6. Checked(c)'
    <3>1. Batch(c)' = Batch(c) /\ \A j: CheckVerdict(c, j)' = CheckVerdict(c, j)
      BY <1>1, <2>1 DEF CheckVerdict, Batch
    <3>2. \A k: NextVersion(k)' = NextVersion(k)
      BY <1>1 DEF NextVersion
    <3>3. ASSUME NEW j \in 1 .. i
          PROVE  CheckVerdict(c, j) = "ok" /\ plan'[j] = NextVersion(Batch(c)[j].key)
      <4>1. j \in 1 .. Len(plan) \/ j = i
        BY <1>3
      <4>2. QED
        BY <1>2, <1>4, <2>3, <4>1 DEF Checked
    <3>4. QED
      BY <1>3, <2>3, <3>1, <3>2, <3>3 DEF Checked
  <2>7. Serving(c)'
    BY <1>1, <1>2, <2>1, <2>6 DEF Serving, At, Kind, Batch
  <2>8. \A d \in Callers \ {c}: calls[d].step \notin Inside
    BY <1>1 DEF OneHolder, Inside
  <2>9. ASSUME NEW d \in Callers \ {c} PROVE Serving(d)'
    BY <2>1, <2>8, OthersServe
  <2>10. QED
    BY <2>4, <2>5, <2>7, <2>9
<1>5. CASE CheckVerdict(c, i) # "ok"
  <2>1. CheckVerdict(c, i) \in Codes
    BY DEF CheckVerdict, Codes
  <2>2. QED
    BY <1>1, <1>5, <2>1, LeaveStep DEF Check, TypeOK, Inside
<1>6. QED
  BY <1>4, <1>5

LEMMA BeginWriteStep ==
    ASSUME IInv, NEW c \in Callers, BeginWrite(c)
    PROVE  IInv'
<1> USE DEF IInv
<1>1. /\ calls[c].step = "check" /\ Len(plan) = Len(Batch(c)) /\ tx' = records
      /\ UNCHANGED <<records, lock, plan, written, todo>>
  BY DEF BeginWrite, At
<1>2. /\ calls[c].request \in Requests /\ Kind(c) = "apply" /\ Checked(c) /\ written = 0
      /\ Len(Batch(c)) \in 1 .. MaxBatch
  BY <1>1 DEF Serving, At, Inside
<1>3. lock = c /\ \A d \in Callers \ {c}: calls[d].step \notin Inside
  BY <1>1 DEF OneHolder, Inside
<1>4. calls'[c] \in Local /\ calls'[c].step = "write" /\ calls'[c].request = calls[c].request
  BY DEF TypeOK, BeginWrite, GoTo, Local, Inside
<1>5. \A d \in Callers \ {c}: calls'[d] = calls[d]
  BY DEF TypeOK, BeginWrite, GoTo
<1>6. TypeOK'
  BY <1>1, <1>4, <1>5 DEF TypeOK, BeginWrite, GoTo
<1>7. OneHolder'
  BY <1>1, <1>3, <1>4, <1>5, StoreAssumption DEF OneHolder, Inside
<1>8. Batch(c)' = Batch(c) /\ Kind(c)' = Kind(c)
  BY <1>4 DEF Batch, Kind
<1>9. Checked(c)' /\ Staged(c)'
  <2>1. \A i: CheckVerdict(c, i)' = CheckVerdict(c, i) /\ Len(Batch(c)) \in Nat
    BY <1>1, <1>2, <1>8 DEF CheckVerdict
  <2>2. Checked(c)'
    BY <1>1, <1>2, <1>8, <2>1 DEF Checked, NextVersion
  <2>3. Staged(c)'
    BY <1>1, <1>2, <1>8, <2>1 DEF Staged, TypeOK
  <2>4. QED
    BY <2>2, <2>3
<1>10. Serving(c)'
  BY <1>2, <1>4, <1>8, <1>9 DEF Serving, At
<1>11. ASSUME NEW d \in Callers \ {c} PROVE Serving(d)'
  BY <1>3, <1>5, OthersServe
<1>12. QED
  BY <1>6, <1>7, <1>10, <1>11

\* What was checked is what is written: the keys of the batch are distinct.
LEMMA KeysDiffer ==
    ASSUME NEW c \in Callers, Checked(c), Len(Batch(c)) \in Nat, Len(plan) = Len(Batch(c)),
           NEW i \in 1 .. Len(Batch(c)), NEW j \in 1 .. Len(Batch(c)), i # j
    PROVE  Batch(c)[i].key # Batch(c)[j].key
<1>1. ASSUME NEW m \in 1 .. Len(Batch(c)), NEW n \in 1 .. Len(Batch(c)), m < n
      PROVE  Batch(c)[m].key # Batch(c)[n].key
  <2>1. CheckVerdict(c, n) = "ok" /\ m \in 1 .. n - 1
    BY <1>1 DEF Checked
  <2>2. QED
    BY <2>1 DEF CheckVerdict
<1>2. i < j \/ j < i
  OBVIOUS
<1>3. QED
  BY <1>1, <1>2

\* A planned version is a version that a record may have.
LEMMA OutcomeOf ==
    ASSUME TypeOK, NEW c \in Callers, Checked(c), Len(plan) = Len(Batch(c)),
           calls[c].request \in Requests, Kind(c) = "apply", NEW i \in 1 .. Len(Batch(c))
    PROVE  /\ Outcome(c, i) \in Records
           /\ Outcome(c, i) = IF Batch(c)[i].op = "put"
                              THEN Written(records[Batch(c)[i].key], Batch(c)[i].value)
                              ELSE Absent
<1>1. Batch(c)[i].key \in Keys /\ (Batch(c)[i].op = "put" => Batch(c)[i].value \in Values)
  BY BatchOf
<1>2. plan[i] = records[Batch(c)[i].key].ver + 1
  BY DEF Checked, NextVersion
<1>3. records[Batch(c)[i].key].ver \in Nat
  BY <1>1 DEF TypeOK, Records, RecordOf, Absent
<1>4. plan[i] \in Nat \ {0}
  BY <1>2, <1>3
<1>5. QED
  BY <1>1, <1>2, <1>4 DEF Outcome, Records, RecordOf, Written

LEMMA WriteStep ==
    ASSUME IInv, NEW c \in Callers, Write(c)
    PROVE  IInv'
<1> USE DEF IInv
<1> DEFINE i == written + 1
           k == Batch(c)[i].key
<1>1. /\ calls[c].step = "write" /\ written < Len(Batch(c))
      /\ tx' = [tx EXCEPT ![k] = Outcome(c, i)]
      /\ written' = i /\ UNCHANGED <<records, lock, plan, todo, calls>>
  BY DEF Write, At, Outcome
<1>2. /\ calls[c].request \in Requests /\ Kind(c) = "apply" /\ Checked(c) /\ Staged(c)
      /\ Len(Batch(c)) \in 1 .. MaxBatch
  BY <1>1 DEF Serving, At, Inside
<1>3. i \in 1 .. Len(Batch(c)) /\ written \in Nat /\ Len(plan) = Len(Batch(c))
  BY <1>1, <1>2 DEF TypeOK, Staged
<1>4. k \in Keys /\ Outcome(c, i) \in Records
  BY <1>2, <1>3, BatchOf, OutcomeOf
<1>5. tx' \in [Keys -> Records]
  BY <1>1, <1>2, <1>4 DEF Staged
<1>6. TypeOK'
  BY <1>1, <1>3, <1>5 DEF TypeOK
<1>7. OneHolder'
  BY <1>1, StoreAssumption DEF OneHolder, Inside
<1>8. Batch(c)' = Batch(c) /\ Kind(c)' = Kind(c) /\ \A j \in 1 .. Len(Batch(c)): Outcome(c, j)' = Outcome(c, j)
  BY <1>1 DEF Batch, Kind, Outcome
<1>9. ASSUME NEW j \in 1 .. written' PROVE tx'[Batch(c)[j].key] = Outcome(c, j)
  <2>1. CASE j = i
    BY <1>1, <1>2, <1>4, <2>1 DEF Staged
  <2>2. CASE j # i
    <3>1. j \in 1 .. written /\ j \in 1 .. Len(Batch(c))
      BY <1>1, <1>3, <2>2
    <3>2. Batch(c)[j].key # k
      BY <1>2, <1>3, <2>2, <3>1, KeysDiffer
    <3>3. QED
      BY <1>1, <1>2, <1>4, <3>1, <3>2, BatchOf DEF Staged
  <2>3. QED
    BY <2>1, <2>2
<1>10. ASSUME NEW l \in Keys, \A j \in 1 .. written': Batch(c)[j].key # l
       PROVE  tx'[l] = records[l]
  BY <1>1, <1>2, <1>3, <1>10 DEF Staged
<1>11. Staged(c)'
  BY <1>1, <1>2, <1>3, <1>5, <1>8, <1>9, <1>10 DEF Staged
<1>12. Serving(c)'
  BY <1>1, <1>2, <1>8, <1>11 DEF Serving, At, Checked, CheckVerdict, NextVersion
<1>13. ASSUME NEW d \in Callers \ {c} PROVE Serving(d)'
  BY <1>1, OthersServe DEF OneHolder, Inside
<1>14. QED
  BY <1>6, <1>7, <1>12, <1>13

\* The records that the answer of a batch names.
PutRecords(c) ==
    {<<Batch(c)[i].key, [ver |-> plan[i], val |-> Batch(c)[i].value]>>:
        i \in {j \in DOMAIN Batch(c): Batch(c)[j].op = "put"}}

\* What is known when a transaction is about to be committed.
LEMMA ReadyToCommit ==
    ASSUME IInv, NEW c \in Callers, Commit(c)
    PROVE  /\ calls[c].step = "write" /\ calls[c].request \in Requests /\ Kind(c) = "apply"
           /\ Len(Batch(c)) \in 1 .. MaxBatch /\ Checked(c) /\ Staged(c)
           /\ Len(plan) = Len(Batch(c)) /\ written = Len(Batch(c))
           /\ records' = tx /\ Answer(c, "ok", PutRecords(c)) /\ Unlock
  BY DEF Commit, At, IInv, Serving, Inside, Staged, PutRecords

LEMMA CommitStep ==
    ASSUME IInv, NEW c \in Callers, Commit(c)
    PROVE  IInv'
<1>1. TypeOK /\ calls[c].step \in Inside
  BY ReadyToCommit DEF IInv, Inside
<1>2. ASSUME NEW i \in DOMAIN Batch(c), Batch(c)[i].op = "put"
      PROVE  <<Batch(c)[i].key, [ver |-> plan[i], val |-> Batch(c)[i].value]>> \in Keys \X Records
  <2>1. i \in 1 .. Len(Batch(c))
    BY ReadyToCommit, BatchOf
  <2>2. Batch(c)[i].key \in Keys /\ Outcome(c, i) \in Records
    BY <1>1, <2>1, ReadyToCommit, BatchOf, OutcomeOf
  <2>3. QED
    BY <1>2, <2>2 DEF Outcome
<1>3. PutRecords(c) \in SUBSET (Keys \X Records) /\ "ok" \in Codes
  BY <1>2 DEF PutRecords, Codes
<1>4. records' \in [Keys -> Records]
  BY ReadyToCommit DEF Staged
<1>5. QED
  BY <1>1, <1>3, <1>4, ReadyToCommit, LeaveStep

LEMMA FailStep ==
    ASSUME IInv, NEW c \in Callers, Fail(c)
    PROVE  IInv'
<1>1. "failed" \in Codes /\ {} \in SUBSET (Keys \X Records) /\ records \in [Keys -> Records]
  BY DEF Codes, IInv, TypeOK
<1>2. QED
  BY <1>1, LeaveStep, AnswerOutsideStep DEF Fail

LEMMA CrashStep ==
    ASSUME IInv, Crash
    PROVE  IInv'
<1>1. Idle \in Local /\ Idle.step = "idle"
  BY DEF Idle, Local, Outside, Codes
<1>2. TypeOK'
  BY <1>1 DEF IInv, TypeOK, Crash, Unlock
<1>3. OneHolder'
  BY <1>1, StoreAssumption DEF OneHolder, Crash, Unlock, Inside
<1>4. ASSUME NEW c \in Callers PROVE Serving(c)'
  BY <1>1, OutsideServes DEF Crash
<1>5. QED
  BY <1>2, <1>3, <1>4 DEF IInv

LEMMA NextIInv == IInv /\ [Next]_vars => IInv'
<1> SUFFICES ASSUME IInv, [Next]_vars PROVE IInv'
  OBVIOUS
<1>1. ASSUME NEW c \in Callers, Proceed(c) PROVE IInv'
  <2>1. CASE RefuseSize(c)
    BY <2>1, AnswerOutsideStep DEF RefuseSize, Codes
  <2>2. QED
    BY <1>1, <2>1, AcquireStep, GetRecordStep, ScanRecordStep, FinishScanStep, CheckStep,
       BeginWriteStep, WriteStep, CommitStep DEF Proceed
<1>2. CASE UNCHANGED vars
  <2>1. TypeOK' /\ OneHolder'
    BY <1>2 DEF IInv, TypeOK, OneHolder, vars, section
  <2>2. ASSUME NEW c \in Callers PROVE Serving(c)'
    BY <1>2, OthersServe DEF IInv, vars
  <2>3. QED
    BY <2>1, <2>2 DEF IInv
<1>3. QED
  BY <1>1, <1>2, InvokeStep, FailStep, CrashStep DEF Next

THEOREM Invariance == Spec => []IInv
<1>1. QED
  BY InitIInv, NextIInv, PTL DEF Spec

\* The records of BarqStore, its transaction and its callers have the types that TypeOK
\* lists, whatever batches are in flight.
THEOREM TypeCorrect == Spec => []TypeOK
<1>1. IInv => TypeOK
  BY DEF IInv
<1>2. QED
  BY <1>1, Invariance, PTL

-------------------------------------------------------------------------------
(***************************************************************************)
(* Refinement: a call takes effect at the moment of its answer.            *)
(***************************************************************************)

LEMMA AtomicInit == Init => Atomic!Init
<1> SUFFICES ASSUME Init PROVE Atomic!Init
  OBVIOUS
<1>1. \A c \in Callers: CallSeen(c) = Atomic!Idle
  BY DEF Init, Idle, Atomic!Idle, CallSeen, At
<1>2. QED
  BY <1>1 DEF Init, Atomic!Init, Absent, Atomic!Absent

\* The seen answer.
LEMMA AnswerSeen ==
    ASSUME TypeOK, NEW c \in Callers, NEW code, NEW result, Answer(c, code, result)
    PROVE  Atomic!Answered(c, code, result)
<1>1. /\ calls'[c].step = "answered" /\ calls'[c].request = calls[c].request
      /\ calls'[c].code = code /\ calls'[c].result = result
  BY DEF TypeOK, Local, Answer
<1>2. \A d \in Callers \ {c}: calls'[d] = calls[d]
  BY DEF TypeOK, Answer
<1>3. CallSeen(c)' = [step |-> "answered", request |-> CallSeen(c).request,
                      code |-> code, result |-> result]
  BY <1>1 DEF CallSeen, At
<1>4. \A d \in Callers \ {c}: CallSeen(d)' = CallSeen(d)
  BY <1>2 DEF CallSeen, At
<1>5. QED
  BY <1>3, <1>4 DEF Atomic!Answered

\* A step inside the section is not seen.
LEMMA InsideUnseen ==
    ASSUME TypeOK, UNCHANGED records, NEW c \in Callers,
           calls[c].step \notin {"idle", "answered"}, calls'[c].step \notin {"idle", "answered"},
           calls'[c].request = calls[c].request, calls'[c].code = calls[c].code,
           \A d \in Callers \ {c}: calls'[d] = calls[d]
    PROVE  UNCHANGED Atomic!vars
<1>1. \A d \in Callers: CallSeen(d)' = CallSeen(d)
  BY DEF CallSeen, At
<1>2. QED
  BY <1>1 DEF Atomic!vars

LEMMA CalledSeen ==
    ASSUME NEW c \in Callers, calls[c].step \in Inside \cup {"lock"}
    PROVE  /\ [d \in Callers |-> CallSeen(d)][c].step = "called"
           /\ [d \in Callers |-> CallSeen(d)][c].request = calls[c].request
  BY DEF CallSeen, Inside

LEMMA InvokeSeen ==
    ASSUME IInv, NEW c \in Callers, NEW request \in Requests, Invoke(c, request)
    PROVE  Atomic!Next
<1>1. /\ calls'[c] = [Idle EXCEPT !.step = "lock", !.request = request]
      /\ \A d \in Callers \ {c}: calls'[d] = calls[d]
  BY DEF IInv, TypeOK, Invoke
<1>2. CallSeen(c).step \in {"idle", "answered"}
  BY DEF Invoke, CallSeen
<1>3. CallSeen(c)' = [step |-> "called", request |-> request, code |-> "none", result |-> {}]
  BY <1>1 DEF CallSeen, At, Idle
<1>4. \A d \in Callers \ {c}: CallSeen(d)' = CallSeen(d)
  BY <1>1 DEF CallSeen, At
<1>5. Atomic!Invoked(c, request)
  BY <1>2, <1>3, <1>4 DEF Invoke, Atomic!Invoked
<1>6. QED
  BY <1>5 DEF Atomic!Next

LEMMA GetRecordSeen ==
    ASSUME IInv, NEW c \in Callers, GetRecord(c)
    PROVE  Atomic!Fetched(c)
<1>1. calls[c].step \in Inside \cup {"lock"} /\ calls[c].request.kind = "get"
  BY DEF IInv, Serving, GetRecord, At, Inside, Kind
<1>2. CASE Present(records[calls[c].request.key])
  BY <1>1, <1>2, CalledSeen, AnswerSeen DEF GetRecord, Atomic!Fetched, IInv, Present, Atomic!Present
<1>3. CASE ~Present(records[calls[c].request.key])
  BY <1>1, <1>3, CalledSeen, AnswerSeen DEF GetRecord, Atomic!Fetched, IInv, Present, Atomic!Present
<1>4. QED
  BY <1>2, <1>3

LEMMA FinishScanSeen ==
    ASSUME IInv, NEW c \in Callers, FinishScan(c)
    PROVE  Atomic!Listed(c)
<1>1. /\ calls[c].step \in Inside \cup {"lock"} /\ calls[c].request.kind = "list"
      /\ Scanned(c) /\ todo = {}
  BY DEF IInv, Serving, FinishScan, At, Inside, Kind
<1>2. calls[c].result = {<<k, records[k]>>: k \in {j \in calls[c].request.keys: Present(records[j])}}
  BY <1>1 DEF Scanned
<1>3. Atomic!Answered(c, "ok", calls[c].result)
  BY AnswerSeen DEF IInv, FinishScan
<1>4. QED
  BY <1>1, <1>2, <1>3, CalledSeen DEF FinishScan, Atomic!Listed, Present, Atomic!Present

LEMMA FailSeen ==
    ASSUME IInv, NEW c \in Callers, Fail(c)
    PROVE  Atomic!Failed(c)
<1>1. calls[c].step \in Inside \cup {"lock"} /\ Answer(c, "failed", {}) /\ UNCHANGED records
  BY DEF Fail, At
<1>2. QED
  BY <1>1, CalledSeen, AnswerSeen DEF IInv, Atomic!Failed

\* The store's verdict on a mutation is the one that the promise names.
LEMMA VerdictIsProblem ==
    ASSUME NEW c \in Callers, NEW i
    PROVE  CheckVerdict(c, i) = Atomic!Problem(Batch(c), i)
  BY DEF CheckVerdict, Atomic!Problem, Present, Atomic!Present, Matches, Atomic!Matches,
         Unchecked, Atomic!Unchecked

LEMMA RefuseSizeSeen ==
    ASSUME IInv, NEW c \in Callers, RefuseSize(c)
    PROVE  Atomic!Rejected(c)
<1>1. /\ calls[c].step \in Inside \cup {"lock"} /\ calls[c].request.kind = "apply"
      /\ calls[c].request \in Requests
  BY DEF RefuseSize, At, Kind, IInv, Serving
<1>2. Len(Batch(c)) \notin 1 .. MaxBatch
  BY <1>1, BatchOf, StoreAssumption DEF RefuseSize, Kind
<1>3. Atomic!Refused(calls[c].request.batch, "invalid")
  BY <1>2 DEF Atomic!Refused, Batch
<1>4. QED
  BY <1>1, <1>3, CalledSeen, AnswerSeen DEF RefuseSize, IInv, Atomic!Rejected

LEMMA CheckSeen ==
    ASSUME IInv, NEW c \in Callers, Check(c)
    PROVE  Atomic!Rejected(c) \/ UNCHANGED Atomic!vars
<1> DEFINE i == Len(plan) + 1
           code == CheckVerdict(c, i)
<1>1. CASE code = "ok"
  BY <1>1 DEF Check, Atomic!vars, CallSeen, At
<1>2. CASE code # "ok"
  <2>1. /\ calls[c].step \in Inside \cup {"lock"} /\ calls[c].request.kind = "apply"
        /\ Checked(c) /\ Len(Batch(c)) \in 1 .. MaxBatch
    BY DEF Check, At, IInv, Serving, Kind, Inside
  <2>2. Len(plan) \in Nat /\ Len(plan) < Len(Batch(c)) /\ Len(Batch(c)) \in Nat
    BY <2>1 DEF Check, IInv, TypeOK
  <2>3. i \in 1 .. Len(Batch(c)) /\ code = Atomic!Problem(Batch(c), i)
    BY <2>2, VerdictIsProblem
  <2>4. \A j \in 1 .. i - 1: Atomic!Problem(Batch(c), j) = "ok"
    BY <2>1, <2>2, VerdictIsProblem DEF Checked
  <2>5. Atomic!Refused(calls[c].request.batch, code)
    BY <1>2, <2>1, <2>3, <2>4 DEF Atomic!Refused, Batch
  <2>6. code \in {"invalid", "not_found", "conflict"}
    BY <1>2 DEF CheckVerdict
  <2>7. Atomic!Answered(c, code, {}) /\ UNCHANGED records
    BY <1>2, AnswerSeen DEF Check, IInv
  <2>8. QED
    BY <2>1, <2>5, <2>6, <2>7, CalledSeen DEF Atomic!Rejected
<1>3. QED
  BY <1>1, <1>2

\* The commit makes all outcomes seen at once, and they are those of the records as
\* they are at that moment.
LEMMA CommitSeen ==
    ASSUME IInv, NEW c \in Callers, Commit(c)
    PROVE  Atomic!Applied(c)
<1> DEFINE seen == [d \in Callers |-> CallSeen(d)]
           batch == seen[c].request.batch
<1> USE ReadyToCommit
<1>1. /\ seen[c].step = "called" /\ seen[c].request.kind = "apply"
      /\ Batch(c) = batch /\ TypeOK /\ Len(batch) \in Nat /\ DOMAIN batch = 1 .. Len(batch)
  BY BatchOf, CalledSeen DEF Inside, Kind, Batch, IInv
<1>2. Atomic!Accepted(batch)
  BY <1>1, VerdictIsProblem DEF Atomic!Accepted, Checked
<1>3. ASSUME NEW k \in Keys \ Atomic!Keyed(batch) PROVE records'[k] = records[k]
  <2>1. \A i \in 1 .. written: batch[i].key # k
    BY <1>1 DEF Atomic!Keyed
  <2>2. QED
    BY <1>1, <2>1 DEF Staged
<1>4. ASSUME NEW i \in 1 .. Len(batch)
      PROVE  /\ records'[batch[i].key] = Outcome(c, i)
             /\ Outcome(c, i) = IF batch[i].op = "put"
                                THEN Atomic!Written(records[batch[i].key], batch[i].value)
                                ELSE Atomic!Absent
  BY <1>1, OutcomeOf DEF Staged, Written, Atomic!Written, Absent, Atomic!Absent
<1>5. PutRecords(c) = {<<k, records'[k]>>: k \in {batch[i].key: i \in
                            {j \in DOMAIN batch: batch[j].op = "put"}}}
  <2> DEFINE puts == {j \in DOMAIN batch: batch[j].op = "put"}
  <2>1. PutRecords(c) = {<<batch[i].key, [ver |-> plan[i], val |-> batch[i].value]>>: i \in puts}
    BY <1>1 DEF PutRecords
  <2>2. \A i \in puts: [ver |-> plan[i], val |-> batch[i].value] = records'[batch[i].key]
    BY <1>1, <1>4 DEF Outcome
  <2>3. {<<batch[i].key, [ver |-> plan[i], val |-> batch[i].value]>>: i \in puts}
            = {<<k, records'[k]>>: k \in {batch[i].key: i \in puts}}
    <3> DEFINE made == {<<batch[i].key, [ver |-> plan[i], val |-> batch[i].value]>>: i \in puts}
               seenPuts == {<<k, records'[k]>>: k \in {batch[i].key: i \in puts}}
    <3> HIDE DEF puts, batch
    <3>1. ASSUME NEW r \in made PROVE r \in seenPuts
      BY <2>2
    <3>2. ASSUME NEW r \in seenPuts PROVE r \in made
      BY <2>2
    <3>3. QED
      BY <3>1, <3>2
  <2>4. QED
    BY <2>1, <2>3
<1>6. DOMAIN records' = Keys
  BY DEF Staged
<1>7. Atomic!Answered(c, "ok", PutRecords(c))
  BY <1>1, AnswerSeen
<1>8. Atomic!Answered(c, "ok", {<<k, records'[k]>>: k \in {batch[i].key: i \in
                            {j \in DOMAIN batch: batch[j].op = "put"}}})
  BY <1>5, <1>7
<1>9. \A i \in 1 .. Len(batch): records'[batch[i].key] =
            IF batch[i].op = "put" THEN Atomic!Written(records[batch[i].key], batch[i].value)
            ELSE Atomic!Absent
  BY <1>4
<1>10. QED
  BY <1>1, <1>2, <1>3, <1>6, <1>8, <1>9 DEF Atomic!Applied

LEMMA CrashSeen ==
    ASSUME Crash
    PROVE  Atomic!Crash
  BY DEF Crash, Atomic!Crash, CallSeen, At, Idle, Atomic!Idle

LEMMA AtomicStep ==
    ASSUME IInv, [Next]_vars
    PROVE  [Atomic!Next]_(Atomic!vars)
<1>1. ASSUME NEW c \in Callers, Proceed(c) PROVE [Atomic!Next]_(Atomic!vars)
  <2>1. CASE RefuseSize(c) \/ GetRecord(c) \/ FinishScan(c) \/ Check(c) \/ Commit(c)
    BY <2>1, RefuseSizeSeen, GetRecordSeen, FinishScanSeen, CheckSeen, CommitSeen DEF Atomic!Next
  <2>2. CASE Acquire(c)
    <3>1. /\ calls[c].step = "lock" /\ calls'[c].step \in {"get", "scan", "check"}
          /\ calls'[c].request = calls[c].request /\ calls'[c].code = calls[c].code
          /\ \A d \in Callers \ {c}: calls'[d] = calls[d]
      BY <2>2 DEF Acquire, GoTo, At, IInv, TypeOK, Local
    <3>2. QED
      BY <2>2, <3>1, InsideUnseen DEF Acquire, IInv
  <2>3. CASE ScanRecord(c)
    <3>1. /\ calls[c].step = "scan" /\ calls'[c].step = "scan"
          /\ calls'[c].request = calls[c].request /\ calls'[c].code = calls[c].code
          /\ \A d \in Callers \ {c}: calls'[d] = calls[d]
      BY <2>3 DEF ScanRecord, At, IInv, TypeOK, Local
    <3>2. QED
      BY <2>3, <3>1, InsideUnseen DEF ScanRecord, IInv
  <2>4. CASE BeginWrite(c)
    <3>1. /\ calls[c].step = "check" /\ calls'[c].step = "write"
          /\ calls'[c].request = calls[c].request /\ calls'[c].code = calls[c].code
          /\ \A d \in Callers \ {c}: calls'[d] = calls[d]
      BY <2>4 DEF BeginWrite, GoTo, At, IInv, TypeOK, Local
    <3>2. QED
      BY <2>4, <3>1, InsideUnseen DEF BeginWrite, IInv
  <2>5. CASE Write(c)
    BY <2>5 DEF Write, Atomic!vars, CallSeen, At
  <2>6. QED
    BY <1>1, <2>1, <2>2, <2>3, <2>4, <2>5 DEF Proceed
<1>2. CASE UNCHANGED vars
  BY <1>2 DEF vars, Atomic!vars, CallSeen, At
<1>3. QED
  BY <1>1, <1>2, InvokeSeen, FailSeen, CrashSeen DEF Next, Atomic!Next

\* BarqStore promises its callers what AtomicStore says: a batch is carried out as a
\* whole or not at all, with versions that follow those it was checked against, and a
\* list is a snapshot, whatever other calls, failures and crashes come between.
THEOREM CallsAreAtomic == Spec => ImplementsAtomicStore
<1>1. IInv /\ [Next]_vars => [Atomic!Next]_(Atomic!vars)
  BY AtomicStep
<1>2. QED
  BY <1>1, AtomicInit, Invariance, PTL DEF Spec, ImplementsAtomicStore, Atomic!Spec

===============================================================================
