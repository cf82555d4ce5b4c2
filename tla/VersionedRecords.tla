--------------------------- MODULE VersionedRecords ---------------------------
(***************************************************************************)
(* The records of the control store (internal/control).  A record has a    *)
(* value and a version; the version a caller expects is compared with the  *)
(* stored one before anything is written.  A key that has no record is     *)
(* kept as the record of version 0, which is how the code's "expected      *)
(* version 0" and "expected version n" become one comparison.              *)
(***************************************************************************)
EXTENDS Integers

CONSTANT NoValue            \* the value of a key that has no record

Absent == [ver |-> 0, val |-> NoValue]

Present(record) == record.ver > 0

\* The records whose values are drawn from V.
RecordOf(V) == [ver: Nat \ {0}, val: V] \cup {Absent}

\* A nil expected version: the caller asks for no check.
Unchecked == -1

Matches(record, expected) == expected = Unchecked \/ record.ver = expected

\* A put: the version is the stored one plus one, and 1 for a new record.
Written(record, v) == [ver |-> record.ver + 1, val |-> v]

===============================================================================
