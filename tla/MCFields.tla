------------------------------ MODULE MCFields ------------------------------
(***************************************************************************)
(* Three names, two of which have the same id, behind that of the third.   *)
(***************************************************************************)
EXTENDS Fields, TLC

CONSTANTS a, b, c

Ids == a :> 1 @@ b :> 2 @@ c :> 2
=============================================================================
