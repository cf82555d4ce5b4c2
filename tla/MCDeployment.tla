----------------------------- MODULE MCDeployment -----------------------------
(***************************************************************************)
(* Small instances of Deployment: three releases, the second of which     *)
(* brings a new control schema and the third keeps it.                     *)
(***************************************************************************)
EXTENDS RemoteBackup, TLC

CONSTANTS r1, r2, r3

\* Repositories among themselves, and passwords, can be exchanged.
RemoteSymmetry == Permutations(Repos) \cup Permutations(Passwords)

NewSchema == r1 :> 1 @@ r2 :> 2 @@ r3 :> 2

===============================================================================
