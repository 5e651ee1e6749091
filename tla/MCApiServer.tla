---------------------------- MODULE MCApiServer ----------------------------
(***************************************************************************)
(* A small instance of ApiServer: two vehicles, one slot of each kind.     *)
(***************************************************************************)
EXTENDS ApiServer

CONSTANTS r1, r2, v1, v2

TwoVehicles == <<v1, v2>>
=============================================================================
