------------------------------ MODULE RuleLedger ------------------------------
(***************************************************************************)
(* What the history of sync rules promises to its readers, whatever        *)
(* crashes, delays and races lie underneath: Core commits rule sets one    *)
(* revision after the other; a recorded revision is what Core committed    *)
(* under that number and never changes; the head names a recorded          *)
(* revision and only ever moves to a later one.                            *)
(***************************************************************************)
EXTENDS Naturals, Sequences

CONSTANTS Rules, Revisions, NoValue

VARIABLES
    committed,  \* the rule sets that Core committed, in order
    ledger,     \* the rule set recorded for a revision, or NoValue
    tip         \* the revision and the rule set that the head names, or NoValue

vars == <<committed, ledger, tip>>

Init ==
    /\ committed = <<>>
    /\ ledger = [n \in Revisions |-> NoValue]
    /\ tip = NoValue

Committed(x) == committed' = Append(committed, x) /\ UNCHANGED <<ledger, tip>>

Recorded(n) ==
    /\ n <= Len(committed)
    /\ ledger[n] = NoValue
    /\ ledger' = [ledger EXCEPT ![n] = committed[n]]

\* The head may move together with the record that it comes to name.
Advanced(n) ==
    /\ tip # NoValue => tip.rev < n
    /\ ledger'[n] # NoValue
    /\ tip' = [rev |-> n, rules |-> ledger'[n]]

Next ==
    \/ \E x \in Rules: Committed(x)
    \/ \E n \in Revisions:
        \/ Recorded(n) /\ UNCHANGED <<committed, tip>>
        \/ Advanced(n) /\ UNCHANGED <<committed, ledger>>
        \/ Recorded(n) /\ Advanced(n) /\ UNCHANGED committed

Spec == Init /\ [][Next]_vars

===============================================================================
