------------------------------ MODULE MCSyncRules ------------------------------
EXTENDS SyncRules, TLC

CONSTANTS c1, c2, x, y

\* Request IDs are ordered and take no part in a symmetry.
ClientSymmetry == Permutations({c1, c2})

\* Sound only where Core accepts every rule set.
FullSymmetry == Permutations({c1, c2}) \cup Permutations({x, y})
===============================================================================
