------------------------------ MODULE MCSearch ------------------------------
(***************************************************************************)
(* Search over two ports and three rates, the first two of them fast; a    *)
(* fourth rate may be configured but is not tried.                         *)
(***************************************************************************)
EXTENDS Search

CONSTANTS com1, com2

MCNames == {com1, com2}
MCBaundValues == <<3, 2, 1>>
MCOtherRates == {4}

=============================================================================
