---------------------------- MODULE MCControlStore ----------------------------
(***************************************************************************)
(* Small instances of ControlStore: two records, and the requests in which *)
(* two callers meet on them.                                               *)
(***************************************************************************)
EXTENDS ControlStore, TLC

CONSTANTS c1, c2, x

Put(k, expected) == [op |-> "put", key |-> k, value |-> x, expected |-> expected]
Delete(k, expected) == [op |-> "delete", key |-> k, expected |-> expected]

Versions == {Unchecked, 0, 1}
Apply(batch) == [kind |-> "apply", batch |-> batch]

Singles == {Apply(<<Put(1, e)>>): e \in Versions} \cup {Apply(<<Delete(1, e)>>): e \in Versions}

Sizes == {Apply(<<>>), Apply(<<Put(1, Unchecked), Put(2, Unchecked), Delete(1, Unchecked)>>)}

Reads == [kind: {"get"}, key: Keys] \cup [kind: {"list"}, keys: {{1}, {1, 2}}]

\* Among them finishApply's shape: one record put, the other deleted, with checks.
MCRequests ==
    Singles \cup Reads \cup Sizes
        \cup {Apply(<<Put(1, e), Delete(2, f)>>): e \in {0, 1}, f \in {0, 1}}
        \cup {Apply(<<Put(2, 0), Put(1, e)>>): e \in Versions}
        \cup {Apply(<<Delete(2, 1), Put(2, 1)>>)}

===============================================================================
