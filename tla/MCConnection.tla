---------------------------- MODULE MCConnection ----------------------------
(***************************************************************************)
(* Connection on two ports, or on one.                                     *)
(***************************************************************************)
EXTENDS Connection

CONSTANTS p1, p2

MCPortList == <<p1, p2>>
MCOnePort == <<p1>>

=============================================================================
