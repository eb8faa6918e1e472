----------------------------- MODULE MCCommPort -----------------------------
(***************************************************************************)
(* CommPort with one reader and one writer.                                *)
(***************************************************************************)
EXTENDS CommPort

CONSTANT w1

MCWriters == {w1}

=============================================================================
