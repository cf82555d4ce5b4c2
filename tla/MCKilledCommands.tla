--------------------------- MODULE MCKilledCommands ---------------------------
(***************************************************************************)
(* Small instances of KilledCommands: two releases, the second of which   *)
(* brings a new control schema.                                            *)
(***************************************************************************)
EXTENDS KilledCommands, TLC

CONSTANTS r1, r2

TwoSchemas == r1 :> 1 @@ r2 :> 2

===============================================================================
