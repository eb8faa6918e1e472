----------------------------- MODULE MCReceive -----------------------------
(***************************************************************************)
(* Receive with call records of six bytes (caller, E, kind, x, CR, LF), a  *)
(* window of fourteen and three records from the device.                   *)
(***************************************************************************)
EXTENDS Receive

CONSTANTS c1, c2, c3

MCCallers == <<c1, c2, c3>>
MCKinds == {"A", "R"}

=============================================================================
