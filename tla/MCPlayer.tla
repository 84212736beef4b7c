------------------------------ MODULE MCPlayer ------------------------------
(***************************************************************************)
(* An instance of Player: everything a user interface may ask for.         *)
(***************************************************************************)
EXTENDS Player

AnyRequest == Requests
=============================================================================
